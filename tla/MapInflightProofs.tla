------------------------- MODULE MapInflightProofs --------------------------
(***************************************************************************)
(* Theorems about MapInflight for any number of backends, blocks, segments *)
(* and versions: claims are exclusive, blocks are handed out once, a clean *)
(* page is where the MAP says, a condemned segment stays dead, and the     *)
(* whole implements PageStore.                                             *)
(***************************************************************************)
EXTENDS MapInflightSteps, MapInflightStore

-----------------------------------------------------------------------------
(* Only Lookup and StartWrite take a content lock.                         *)

\* No backend starts an operation or changes its page.
KeepsLocks == \A b \in Backends : \/ proc'[b].pc = "idle"
                                  \/ proc[b].pc # "idle" /\ proc'[b].lblk = proc[b].lblk

\* A content lock is taken only when it is free.
LEMMA LockTaken ==
    ASSUME IInv, NEW a \in Backends, NEW l \in Lblk, ~Locked(l),
           proc'[a].lblk = l, \A q \in Proc \ {a} : proc'[q] = proc[q]
    PROVE  Locks'
BY DEF IInv, Locks, Locked, Proc

\* A step that takes no content lock keeps their exclusion.
LEMMA LocksKept == ASSUME IInv, KeepsLocks PROVE Locks'
BY DEF IInv, Locks, KeepsLocks

\* Every step keeps content locks exclusive.
LEMMA LocksStep == ASSUME IInv, Next PROVE Locks'
<1>0. /\ TypeOK /\ Backends \subseteq Proc /\ Compactor \in Proc /\ Compactor \notin Backends
      /\ \A b \in Backends : proc[b] \in ProcState
    BY ConstantFacts DEF IInv, Proc, TypeOK
<1>1. ASSUME NEW b \in Backends, NEW l \in Lblk, Lookup(b, l) \/ StartWrite(b, l)
      PROVE  Locks'
  <2>1. ~Locked(l) /\ proc'[b].lblk = l /\ \A q \in Proc \ {b} : proc'[q] = proc[q]
    <3>1. CASE Lookup(b, l)
      BY <1>0, <3>1 DEF Lookup, Idle, TypeOK
    <3>2. CASE StartWrite(b, l)
      BY <1>0, <3>2 DEF StartWrite, Idle, TypeOK
    <3> QED BY <1>1, <3>1, <3>2
  <2> QED BY <1>0, <2>1, LockTaken
<1>2. ASSUME NEW b \in Backends,
             \/ ReuseOwned(b) \/ Claim(b) \/ Contended(b) \/ FirstCheck(b) \/ Retry(b)
             \/ Reserve(b) \/ Insert(b) \/ SetMapping(b) \/ ClaimBarrier(b) \/ Aim(b)
      PROVE  KeepsLocks
  <2>1. proc[b].pc # "idle"
    BY <1>2 DEF ReuseOwned, Claim, Contended, FirstCheck, Retry, Reserve, Insert, SetMapping,
       ClaimBarrier, Aim
  <2>2. CASE ReuseOwned(b) \/ Retry(b) \/ Reserve(b) \/ Aim(b)
    <3>1. proc'[b].lblk = proc[b].lblk /\ \A q \in Proc \ {b} : proc'[q] = proc[q]
      <4>1. CASE ReuseOwned(b)
        BY <1>0, <4>1 DEF ReuseOwned, TypeOK, ProcState
      <4>2. CASE Retry(b)
        BY <1>0, <4>2 DEF Retry, TypeOK, ProcState
      <4>3. CASE Reserve(b)
        BY <1>0, <4>3 DEF Reserve, TypeOK, ProcState
      <4>4. CASE Aim(b)
        BY <1>0, <4>4 DEF Aim, TypeOK, ProcState
      <4> QED BY <2>2, <4>1, <4>2, <4>3, <4>4
    <3> QED BY <1>0, <2>1, <3>1 DEF KeepsLocks
  <2>3. ASSUME NEW s, Goto(b, s) PROVE KeepsLocks
    BY <1>0, <2>1, <2>3, GotoOnly DEF KeepsLocks
  <2> QED BY <1>2, <2>2, <2>3 DEF Claim, Contended, FirstCheck, Insert, SetMapping, ClaimBarrier
<1>3. ASSUME NEW p \in Proc, Finish(p) PROVE KeepsLocks
  <2>1. proc'[p].pc = "idle" /\ \A q \in Proc \ {p} : proc'[q] = proc[q]
    BY <1>0, <1>3, FinishIdle
  <2> QED BY <1>0, <2>1 DEF KeepsLocks
<1>4. ASSUME NEW b \in Backends, Exit(b) PROVE KeepsLocks
    BY <1>0, <1>4 DEF Exit, KeepsLocks
<1>5. CASE Relocation
  <2>1. \A q \in Backends : proc'[q] = proc[q]
    BY <1>0, <1>5, ShapeRelocation DEF Others
  <2> QED BY <2>1, LocksKept DEF KeepsLocks
<1>6. CASE Scan
    BY <1>6, ScanFrame, LocksKept DEF KeepsLocks
<1>7. ASSUME NEW b \in Backends, Foreground(b) PROVE Locks'
  <2>1. CASE GiveUp(b) \/ ReserveLimit(b) \/ KeepBirth(b) \/ Abort(b) \/ Publish(b)
    BY <1>0, <1>3, <2>1, LocksKept DEF GiveUp, ReserveLimit, KeepBirth, Abort, Publish
  <2> QED BY <1>1, <1>2, <1>4, <1>7, <2>1, LocksKept DEF Foreground
<1>8. ASSUME NEW b \in Backends, Writer(b) PROVE Locks'
  <2>1. CASE BarrierTimeout(b) \/ Write(b)
    BY <1>0, <1>3, <2>1, LocksKept DEF BarrierTimeout, Write
  <2> QED BY <1>1, <1>2, <1>8, <2>1, LocksKept DEF Writer
<1> QED BY <1>5, <1>6, <1>7, <1>8 DEF Next

-----------------------------------------------------------------------------
(* Content: what is in the buffer, on disk and in the compactor's copy.    *)

\* The compactor holds a faithful copy while its entry is unchanged.
CopyOK ==
    LET c == proc[Compactor] IN
    mapping[c.lblk] = c.old =>
       /\ c.pc = "read" => c.copy = disk[c.old]
       /\ c.pc = "copied" => disk[c.new] = disk[c.old]

\* A page being logged is dirty.
DirtyOK == \A b \in Backends : proc[b].pc \in Inserting => dirty[proc[b].lblk]

\* Copies in three parts.
LEMMA CopiesSplit == Copies <=> CleanPageIsMapped /\ DirtyOK /\ CopyOK
BY DEF Copies, DirtyOK, CopyOK

\* The three parts of Copies after a step.
LEMMA CopiesPrime ==
    ASSUME CleanPageIsMapped', DirtyOK', CopyOK' PROVE Copies'
BY DEF Copies, DirtyOK, CopyOK

\* The compactor's block is nobody's, and its entry nobody else's, until it
\* is published.
LEMMA CompactorAlone ==
    ASSUME IInv, proc[Compactor].pc \in {"read", "copied"}
    PROVE  /\ \A m \in Lblk : mapping[m] # proc[Compactor].new
           /\ \A b \in Backends, m \in Lblk :
                 own[b][m] # NoClaim => m # proc[Compactor].lblk
           /\ proc[Compactor].new \in Pblk /\ proc[Compactor].old \in Pblk
           /\ proc[Compactor].lblk \in Lblk
<1>1. /\ Compactor \in Proc /\ Backends \subseteq Proc /\ Compactor \notin Backends
      /\ proc[Compactor].lblk \in Lblk
    BY ConstantFacts DEF Proc, IInv, TypeOK, ProcState
<1>2. /\ own[Compactor][proc[Compactor].lblk] = proc[Compactor].new
      /\ proc[Compactor].new \in Pblk /\ proc[Compactor].old \in Pblk
    BY <1>1 DEF IInv, Shape, Chosen
<1>3. \A m \in Lblk : mapping[m] # proc[Compactor].new
    BY <1>1, <1>2 DEF IInv, Allocated, FreshBlocksAreFresh
<1>4. own[Compactor][proc[Compactor].lblk] # NoClaim
    BY <1>2 DEF Pblk, NoClaim
<1> QED BY <1>1, <1>2, <1>3, <1>4 DEF IInv, OneOwnerPerEntry

\* A step that touches neither content nor any entry.
LEMMA Quiet ==
    ASSUME IInv, UNCHANGED <<mapping, page, dirty, disk>>,
           \A b \in Backends : proc'[b].pc \in Inserting =>
              dirty[proc'[b].lblk],
           \/ proc'[Compactor] = proc[Compactor]
           \/ proc'[Compactor].pc \notin {"read", "copied"}
    PROVE  Copies'
<1>1. CleanPageIsMapped /\ DirtyOK /\ CopyOK
    BY CopiesSplit DEF IInv
<1>2. CleanPageIsMapped'
    BY <1>1 DEF CleanPageIsMapped
<1>3. DirtyOK'
    BY DEF DirtyOK
<1>4. CopyOK'
    BY <1>1 DEF CopyOK
<1> QED BY <1>2, <1>3, <1>4, CopiesPrime

\* XLogInsert, smgrextend and umwritev lose no content.
LEMMA CopiesBackend ==
    ASSUME IInv, NEW b \in Backends, Foreground(b) \/ Writer(b)
    PROVE  Copies'
<1>0. /\ TypeOK /\ b \in Proc /\ b # Compactor /\ Compactor \in Proc /\ Backends \subseteq Proc
      /\ CleanPageIsMapped /\ DirtyOK /\ CopyOK /\ Locks
      /\ proc[b].lblk \in Lblk
    BY CopiesSplit, ConstantFacts DEF IInv, Proc, TypeOK, ProcState
<1>1. \A q \in Proc \ {b} : proc'[q] = proc[q]
    BY <1>0, ShapeForeground, ShapeWriter DEF Others
<1>2. ASSUME UNCHANGED <<mapping, page, dirty, disk>>,
             proc'[b].pc \in Inserting => dirty[proc'[b].lblk]
      PROVE  Copies'
  <2>1. \A a \in Backends : proc'[a].pc \in Inserting => dirty[proc'[a].lblk]
    BY <1>0, <1>1, <1>2 DEF DirtyOK
  <2> QED BY <1>0, <1>1, <1>2, <2>1, Quiet
<1>3. ASSUME NEW l \in Lblk, Lookup(b, l) PROVE Copies'
  <2>1. /\ \A m \in Lblk : dirty'[m] = IF m = l THEN TRUE ELSE dirty[m]
        /\ \A m \in Lblk : m # l => page'[m] = page[m]
        /\ mapping' = mapping /\ disk' = disk /\ proc'[b].lblk = l
    BY <1>0, <1>3 DEF Lookup, TypeOK, Idle
  <2>2. CleanPageIsMapped'
    BY <1>0, <2>1 DEF CleanPageIsMapped
  <2>3. DirtyOK'
    BY ZenonT(60), <1>0, <1>1, <2>1 DEF DirtyOK, TypeOK, ProcState
  <2>4. CopyOK'
    BY <1>0, <1>1, <2>1 DEF CopyOK
  <2> QED BY <2>2, <2>3, <2>4, CopiesPrime
<1>4. ASSUME \/ ReuseOwned(b) \/ Claim(b) \/ Contended(b) \/ FirstCheck(b) \/ Retry(b)
             \/ Reserve(b) \/ Insert(b)
      PROVE  Copies'
  <2>1. UNCHANGED <<mapping, page, dirty, disk>> /\ proc[b].pc \in Inserting
    BY <1>4 DEF ReuseOwned, Claim, Contended, FirstCheck, Retry, Reserve, Insert, pool,
       Inserting
  <2>2. proc'[b].lblk = proc[b].lblk
    <3>1. CASE ReuseOwned(b) \/ Retry(b) \/ Reserve(b)
      BY <1>0, <3>1 DEF ReuseOwned, Retry, Reserve, TypeOK, ProcState
    <3>2. ASSUME NEW s, Goto(b, s) PROVE proc'[b].lblk = proc[b].lblk
      BY <1>0, <3>2, GotoOnly
    <3> QED BY <1>4, <3>1, <3>2 DEF Claim, Contended, FirstCheck, Insert
  <2> QED BY <1>0, <1>2, <2>1, <2>2 DEF DirtyOK
<1>5. ASSUME Finish(b), UNCHANGED <<mapping, page, dirty, disk>> PROVE Copies'
  <2>1. proc'[b].pc \notin Inserting
    BY <1>0, <1>5, FinishIdle DEF Inserting
  <2> QED BY <1>2, <1>5, <2>1
<1>6. CASE Exit(b)
    BY <1>0, <1>2, <1>6 DEF Exit, pool, DirtyOK
<1>7. CASE SetMapping(b)
  <2>1. /\ \A m \in Lblk : mapping'[m] = IF m = proc[b].lblk THEN proc[b].new ELSE mapping[m]
        /\ UNCHANGED <<page, dirty, disk>> /\ proc'[b].lblk = proc[b].lblk
        /\ dirty[proc[b].lblk]
    BY <1>0, <1>7, GotoOnly DEF SetMapping, TypeOK, pool, DirtyOK, Inserting
  <2>2. CleanPageIsMapped'
    BY <1>0, <2>1 DEF CleanPageIsMapped
  <2>3. DirtyOK'
    BY <1>0, <1>1, <2>1 DEF DirtyOK
  <2>4. own[b][proc[b].lblk] # NoClaim
    <3>1. proc[b].pc \in Chosen
      BY <1>7 DEF SetMapping, Chosen
    <3>2. own[b][proc[b].lblk] \in Pblk
      BY <1>0, <3>1 DEF IInv, Shape
    <3> QED BY <3>2 DEF Pblk, NoClaim
  <2>5. CASE proc[Compactor].pc \in {"read", "copied"}
    <3>1. mapping'[proc[Compactor].lblk] = mapping[proc[Compactor].lblk]
      BY <1>0, <2>1, <2>4, <2>5, CompactorAlone
    <3>2. CopyOK'
      BY <1>0, <1>1, <2>1, <3>1 DEF CopyOK
    <3> QED BY <2>2, <2>3, <3>2, CopiesPrime
  <2>6. CASE proc[Compactor].pc \notin {"read", "copied"}
    <3>1. CopyOK'
      BY <1>0, <1>1, <2>6 DEF CopyOK
    <3> QED BY <2>2, <2>3, <3>1, CopiesPrime
  <2> QED BY <2>5, <2>6
<1>8. ASSUME (\E l \in Lblk : StartWrite(b, l)) \/ ClaimBarrier(b) \/ Aim(b) PROVE Copies'
  <2>1. UNCHANGED <<mapping, page, dirty, disk>>
    BY <1>8 DEF StartWrite, ClaimBarrier, Aim, pool
  <2>2. proc'[b].pc \in Writing
    <3>1. ASSUME NEW l \in Lblk, StartWrite(b, l) PROVE proc'[b].pc = "barring"
      BY <1>0, <3>1 DEF StartWrite, Idle, TypeOK
    <3>2. CASE ClaimBarrier(b)
      BY <1>0, <3>2, GotoOnly DEF ClaimBarrier, Writing
    <3>3. CASE Aim(b)
      BY <1>0, <3>3 DEF Aim, TypeOK, ProcState, Writing
    <3> QED BY <1>8, <3>1, <3>2, <3>3 DEF Writing
  <2> QED BY <1>2, <2>1, <2>2 DEF Writing, Inserting
<1>9. CASE Write(b)
  <2>1. /\ proc[b].pc = "aimed" /\ proc[b].old = mapping[proc[b].lblk] /\ proc[b].old \in Pblk
        /\ own[b][proc[b].lblk] = Invalid
    BY <1>0, <1>9 DEF Write, IInv, Shape, Writing, Choosing
  <2>2. /\ mapping' = mapping /\ page' = page
        /\ \A k \in Pblk : disk'[k] = IF k = proc[b].old THEN page[proc[b].lblk] ELSE disk[k]
        /\ \A m \in Lblk : dirty'[m] = IF m = proc[b].lblk THEN FALSE ELSE dirty[m]
    BY <1>0, <1>9, <2>1 DEF Write, TypeOK
  <2>3. proc'[b].pc = "idle"
    BY <1>0, <1>9, FinishIdle DEF Write
  <2>4. \A m \in Lblk : mapping[m] # Invalid => mapping[m] \in Pblk
    BY <1>0 DEF TypeOK, MaybePblk
  <2>5. \A m \in Lblk : mapping[m] # Invalid /\ mapping[m] = proc[b].old => m = proc[b].lblk
    BY <1>0, <2>1 DEF IInv, Allocated, MappingInjective
  <2>6. CleanPageIsMapped'
    BY <1>0, <2>1, <2>2, <2>4, <2>5 DEF CleanPageIsMapped
  <2>7. \A a \in Backends : a # b /\ proc[a].pc \in Inserting => proc[a].lblk # proc[b].lblk
    BY <1>0, <2>1 DEF Locks, Inserting
  <2>8. DirtyOK'
    <3>1. \A a \in Backends : proc[a].lblk \in Lblk
      BY <1>0 DEF TypeOK, ProcState
    <3> QED BY <1>0, <1>1, <2>2, <2>3, <2>7, <3>1 DEF DirtyOK, Inserting
  <2>9. CASE proc[Compactor].pc \in {"read", "copied"}
    <3>1. /\ proc[Compactor].lblk # proc[b].lblk /\ proc[b].old # proc[Compactor].new
          /\ proc[Compactor].new \in Pblk /\ proc[Compactor].old \in Pblk
          /\ proc[Compactor].lblk \in Lblk
      BY <1>0, <2>1, <2>9, CompactorAlone DEF Invalid, NoClaim
    <3>2. mapping[proc[Compactor].lblk] = proc[Compactor].old => proc[Compactor].old # proc[b].old
      BY <2>5, <3>1 DEF Pblk, Invalid
    <3>3. CopyOK'
      BY <1>0, <1>1, <2>2, <3>1, <3>2 DEF CopyOK
    <3> QED BY <2>6, <2>8, <3>3, CopiesPrime
  <2>10. CASE proc[Compactor].pc \notin {"read", "copied"}
    <3>1. CopyOK'
      BY <1>0, <1>1, <2>10 DEF CopyOK
    <3> QED BY <2>6, <2>8, <3>1, CopiesPrime
  <2> QED BY <2>9, <2>10
<1>10. CASE GiveUp(b) \/ ReserveLimit(b) \/ KeepBirth(b) \/ Abort(b) \/ Publish(b)
            \/ BarrierTimeout(b)
    BY <1>5, <1>10 DEF GiveUp, ReserveLimit, KeepBirth, Abort, Publish, BarrierTimeout, pool
<1> QED BY <1>3, <1>4, <1>6, <1>7, <1>8, <1>9, <1>10 DEF Foreground, Writer

\* MapCompactorRelocateEntry loses no content.
LEMMA CopiesRelocation == ASSUME IInv, Relocation PROVE Copies'
<1> DEFINE c == proc[Compactor]
<1>0. /\ TypeOK /\ Compactor \in Proc /\ Backends \subseteq Proc /\ Compactor \notin Backends
      /\ CleanPageIsMapped /\ DirtyOK /\ CopyOK /\ c.lblk \in Lblk
    BY CopiesSplit, ConstantFacts DEF IInv, Proc, TypeOK, ProcState
<1>1. \A q \in Backends : proc'[q] = proc[q]
    BY <1>0, ShapeRelocation DEF Others
<1>2. ASSUME UNCHANGED <<mapping, page, dirty, disk>>,
             proc'[Compactor].pc \notin {"read", "copied"}
      PROVE  Copies'
  <2>1. \A a \in Backends : proc'[a].pc \in Inserting => dirty[proc'[a].lblk]
    BY <1>0, <1>1 DEF DirtyOK
  <2> QED BY <1>2, <2>1, Quiet
<1>3. CASE (\E l \in Lblk : Pick(l)) \/ PickReserve
  <2>1. UNCHANGED <<mapping, page, dirty, disk>>
    BY <1>3 DEF Pick, PickReserve, pool
  <2>2. proc'[Compactor].pc \in {"picked", "picked2"}
    <3>1. ASSUME NEW l \in Lblk, Pick(l) PROVE proc'[Compactor].pc = "picked"
      BY <1>0, <3>1 DEF Pick, Idle, TypeOK
    <3>2. CASE PickReserve
      BY <1>0, <3>2 DEF PickReserve, TypeOK, ProcState
    <3> QED BY <1>3, <3>1, <3>2
  <2> QED BY <1>2, <2>1, <2>2
<1>4. CASE PickClaim \/ PickGiveUp \/ Publish(Compactor)
  <2>1. UNCHANGED <<mapping, page, dirty, disk>>
    BY <1>4 DEF PickClaim, PickGiveUp, Publish, pool
  <2>2. proc'[Compactor].pc \in {"idle", "held"}
    BY <1>0, <1>4, FinishIdle, GotoOnly DEF PickClaim, PickGiveUp, Publish
  <2> QED BY <1>2, <2>1, <2>2
<1>5. CASE CopyRead
  <2>1. UNCHANGED <<mapping, page, dirty, disk>>
    BY <1>5 DEF CopyRead, pool
  <2>2. /\ proc'[Compactor].pc = "read" /\ proc'[Compactor].old = c.old
        /\ proc'[Compactor].copy = disk[c.old]
    BY <1>0, <1>5 DEF CopyRead, TypeOK, ProcState
  <2>3. CopyOK'
    BY <2>1, <2>2 DEF CopyOK
  <2>4. CleanPageIsMapped' /\ DirtyOK'
    BY <1>0, <1>1, <2>1 DEF CleanPageIsMapped, DirtyOK
  <2> QED BY <2>3, <2>4, CopiesPrime
<1>6. CASE CopyWrite
  <2>1. c.pc = "read" /\ UNCHANGED <<mapping, page, dirty>>
    BY <1>6 DEF CopyWrite
  <2>2. c.new \in Pblk /\ c.old \in Pblk /\ \A m \in Lblk : mapping[m] # c.new
    BY <2>1, CompactorAlone
  <2>3. \A k \in Pblk : disk'[k] = IF k = c.new THEN c.copy ELSE disk[k]
    BY <1>0, <1>6, <2>2 DEF CopyWrite, TypeOK
  <2>4. /\ proc'[Compactor].pc = "copied" /\ proc'[Compactor].lblk = c.lblk
        /\ proc'[Compactor].old = c.old /\ proc'[Compactor].new = c.new
    BY <1>0, <1>6, GotoOnly DEF CopyWrite
  <2>5. \A m \in Lblk : mapping[m] # Invalid => mapping[m] \in Pblk
    BY <1>0 DEF TypeOK, MaybePblk
  <2>6. CleanPageIsMapped'
    BY <1>0, <2>1, <2>2, <2>3, <2>5 DEF CleanPageIsMapped
  <2>7. DirtyOK'
    BY <1>0, <1>1, <2>1 DEF DirtyOK
  <2>8. CopyOK'
    BY <1>0, <2>1, <2>2, <2>3, <2>4 DEF CopyOK
  <2> QED BY <2>6, <2>7, <2>8, CopiesPrime
<1>7. CASE Relocate
  <2>1. /\ c.pc = "copied" /\ mapping[c.lblk] = c.old /\ UNCHANGED <<page, dirty, disk>>
        /\ \A m \in Lblk : mapping'[m] = IF m = c.lblk THEN c.new ELSE mapping[m]
    BY <1>0, <1>7 DEF Relocate, TypeOK, pool
  <2>2. disk[c.new] = disk[c.old] /\ c.old # Invalid
    BY <1>0, <2>1, CompactorAlone DEF CopyOK, Pblk, Invalid
  <2>3. CleanPageIsMapped'
    BY <1>0, <2>1, <2>2 DEF CleanPageIsMapped
  <2>4. proc'[Compactor].pc = "mapped"
    BY <1>0, <1>7, GotoOnly DEF Relocate
  <2>5. CopyOK' /\ DirtyOK'
    BY <1>0, <1>1, <2>1, <2>4 DEF CopyOK, DirtyOK
  <2> QED BY <2>3, <2>5, CopiesPrime
<1> QED BY <1>3, <1>4, <1>5, <1>6, <1>7 DEF Relocation

\* Every step keeps clean pages on disk where the MAP says.
LEMMA CopiesStep == ASSUME IInv, Next PROVE Copies'
<1>1. CASE Scan
    BY <1>1, ScanFrame DEF IInv, Copies, CleanPageIsMapped
<1> QED BY <1>1, CopiesBackend, CopiesRelocation DEF Next

-----------------------------------------------------------------------------
(* The block that a logged change names as its page's old one.             *)

Logging == Inserting \ {"mapped"}

\* From the lookup on, the old block is the page's, or was until the compactor
\* moved the page: it has the same content and nobody is given it.
OldBlock(b) ==
    /\ mapping[proc[b].lblk] # Invalid
    /\ proc[b].old < super.reserved
    /\ \A m \in Lblk : mapping[m] = proc[b].old => m = proc[b].lblk
    /\ \A p \in Proc, m \in Lblk : own[p][m] = proc[b].old => mapping[m] = proc[b].old
OldContent(b) == disk[proc[b].old] = disk[mapping[proc[b].lblk]]
Baselines ==
    \A b \in Backends :
        proc[b].pc \in Logging /\ proc[b].old # Invalid => OldBlock(b) /\ OldContent(b)

\* A backend that goes on logging after a step has just looked its page up, or
\* logs the same change as before.
LoggingOn(b) ==
    \/ proc'[b].pc \notin Logging
    \/ /\ UNCHANGED <<mapping, own, super, disk>>
       /\ proc'[b].lblk \in Lblk /\ proc'[b].old = mapping[proc'[b].lblk]
    \/ /\ proc[b].pc \in Logging
       /\ proc'[b].lblk = proc[b].lblk /\ proc'[b].old = proc[b].old

\* Only Lookup and Retry choose an old block.
LEMMA LookedUp == ASSUME IInv, Next, NEW b \in Backends PROVE LoggingOn(b)
<1>0. /\ TypeOK /\ b \in Proc /\ b # Compactor /\ Compactor \in Proc /\ Backends \subseteq Proc
      /\ proc[b].lblk \in Lblk /\ proc \in [Proc -> ProcState]
    BY ConstantFacts DEF IInv, Proc, TypeOK, ProcState
<1>1. ASSUME proc'[b] = proc[b] PROVE LoggingOn(b)
    BY <1>1 DEF LoggingOn
<1>2. ASSUME NEW a \in Backends, a # b, Foreground(a) \/ Writer(a) PROVE LoggingOn(b)
  <2>1. proc'[b] = proc[b]
    BY <1>0, <1>2, ShapeForeground, ShapeWriter DEF Others
  <2> QED BY <1>1, <2>1
<1>3. CASE Scan
    BY <1>1, <1>3, ScanFrame
<1>4. CASE Relocation
    BY <1>0, <1>1, <1>4, ShapeRelocation DEF Others
<1>5. ASSUME NEW s, Goto(b, s), proc[b].pc \in Logging \/ s \notin Logging PROVE LoggingOn(b)
    BY <1>0, <1>5, GotoOnly DEF LoggingOn
<1>6. ASSUME Finish(b) PROVE LoggingOn(b)
    BY <1>0, <1>6, FinishIdle DEF LoggingOn, Logging, Inserting
<1>7. ASSUME NEW l \in Lblk, Lookup(b, l) PROVE LoggingOn(b)
  <2>1. proc'[b].lblk = l /\ proc'[b].old = mapping[l]
    BY <1>0, <1>7 DEF Lookup, Idle
  <2> QED BY <1>7, <2>1 DEF LoggingOn, Lookup
<1>8. CASE Retry(b)
  <2>1. proc'[b].lblk = proc[b].lblk /\ proc'[b].old = mapping[proc[b].lblk]
    BY <1>0, <1>8 DEF Retry, ProcState
  <2> QED BY <1>0, <1>8, <2>1 DEF LoggingOn, Retry, pool
<1>9. CASE ReuseOwned(b) \/ Reserve(b)
  <2>1. proc[b].pc \in Logging
    BY <1>9 DEF ReuseOwned, Reserve, Logging, Inserting
  <2>2. proc'[b].lblk = proc[b].lblk /\ proc'[b].old = proc[b].old
    BY <1>0, <1>9 DEF ReuseOwned, Reserve, ProcState
  <2> QED BY <2>1, <2>2 DEF LoggingOn
<1>10. CASE Claim(b) \/ Contended(b) \/ FirstCheck(b) \/ Insert(b) \/ SetMapping(b)
  <2>1. proc[b].pc \in Logging
    BY <1>10 DEF Claim, Contended, FirstCheck, Insert, SetMapping, Logging, Inserting
  <2> QED BY <1>5, <1>10, <2>1 DEF Claim, Contended, FirstCheck, Insert, SetMapping
<1>11. CASE GiveUp(b) \/ ReserveLimit(b) \/ KeepBirth(b) \/ Abort(b) \/ Publish(b)
            \/ BarrierTimeout(b) \/ Write(b)
    BY <1>6, <1>11 DEF GiveUp, ReserveLimit, KeepBirth, Abort, Publish, BarrierTimeout, Write
<1>12. CASE Exit(b)
    BY <1>1, <1>12 DEF Exit
<1>13. ASSUME NEW l \in Lblk, StartWrite(b, l) PROVE LoggingOn(b)
  <2>1. proc'[b].pc = "barring"
    BY <1>0, <1>13 DEF StartWrite, Idle
  <2> QED BY <2>1 DEF LoggingOn, Logging, Inserting
<1>14. CASE ClaimBarrier(b)
    BY <1>5, <1>14 DEF ClaimBarrier, Logging, Inserting
<1>15. CASE Aim(b)
  <2>1. proc'[b].pc = "aimed"
    BY <1>0, <1>15 DEF Aim, ProcState
  <2> QED BY <2>1 DEF LoggingOn, Logging, Inserting
<1>16. CASE Foreground(b) \/ Writer(b)
    BY <1>7, <1>8, <1>9, <1>10, <1>11, <1>12, <1>13, <1>14, <1>15, <1>16 DEF Foreground, Writer
<1> QED BY <1>2, <1>3, <1>4, <1>16 DEF Next

\* What a step may do to entries and content.
LEMMA ContentSteps ==
    ASSUME IInv, Next
    PROVE  \/ UNCHANGED <<mapping, disk>>
           \/ \E a \in Backends : SetMapping(a) \/ Write(a)
           \/ CopyWrite \/ Relocate
<1> USE DEF pool
<1>1. ASSUME NEW a \in Backends, Foreground(a)
      PROVE  UNCHANGED <<mapping, disk>> \/ SetMapping(a)
    BY <1>1 DEF Foreground, Lookup, ReuseOwned, Claim, Contended, FirstCheck, Retry, GiveUp,
       Reserve, ReserveLimit, KeepBirth, Abort, Insert, Publish, Exit
<1>2. ASSUME NEW a \in Backends, Writer(a)
      PROVE  UNCHANGED <<mapping, disk>> \/ Write(a)
    BY <1>2 DEF Writer, StartWrite, ClaimBarrier, BarrierTimeout, Aim
<1>3. ASSUME Relocation
      PROVE  UNCHANGED <<mapping, disk>> \/ CopyWrite \/ Relocate
    BY <1>3 DEF Relocation, Pick, PickClaim, PickReserve, PickGiveUp, CopyRead, Publish
<1> QED BY <1>1, <1>2, <1>3, ScanFrame DEF Next

\* A block just looked up is the page's own.
LEMMA JustLooked ==
    ASSUME IInv, NEW b \in Backends, UNCHANGED <<mapping, own, super, disk>>,
           proc'[b].lblk \in Lblk, proc'[b].old = mapping[proc'[b].lblk],
           proc'[b].old # Invalid
    PROVE  OldBlock(b)' /\ OldContent(b)'
<1> DEFINE l == proc'[b].lblk
<1>1. mapping[l] \in Pblk /\ l \in Lblk
    BY DEF IInv, TypeOK, MaybePblk
<1>2. /\ mapping[l] < super.reserved
      /\ \A m \in Lblk : mapping[m] = mapping[l] => m = l
      /\ \A p \in Proc, m \in Lblk : own[p][m] = mapping[l] => m = l
    BY <1>1 DEF IInv, Allocated, MappingInjective, FreshBlocksAreFresh
<1>3. OldContent(b)'
    BY DEF OldContent
<1> QED BY <1>2, <1>3 DEF OldBlock

\* Claims, reservations and publications leave an old block alone.
LEMMA OldBlockKept ==
    ASSUME IInv, Next, NEW b \in Backends, OldBlock(b), proc[b].old # Invalid,
           proc'[b].lblk = proc[b].lblk, proc'[b].old = proc[b].old
    PROVE  OldBlock(b)'
<1> DEFINE o == proc[b].old
           l == proc[b].lblk
<1>0. /\ o \in Pblk /\ l \in Lblk /\ super.reserved \in Pblk /\ OneOwnerPerEntry
      /\ mapping \in [Lblk -> MaybePblk] /\ super \in SuperState
      /\ o # Invalid /\ o # NoClaim
    BY DEF IInv, TypeOK, Proc, ProcState, SuperState, MaybePblk, Pblk, NoClaim, Invalid
<1>1. /\ mapping[l] # Invalid /\ o < super.reserved
      /\ \A m \in Lblk : mapping[m] = o => m = l
      /\ \A p \in Proc, m \in Lblk : own[p][m] = o => mapping[m] = o
    BY DEF OldBlock
<1> DEFINE Kept == /\ mapping'[l] # Invalid /\ o < super'.reserved
                   /\ \A m \in Lblk : mapping'[m] = o => m = l
                   /\ \A p \in Proc, m \in Lblk : own'[p][m] = o => mapping'[m] = o
<1>2. SUFFICES Kept
    BY DEF OldBlock
<1> HIDE DEF o, l
<1>3. CASE Scan \/ Stays
    BY <1>1, <1>3, ScanFrame DEF Stays
<1>4. ASSUME NEW p \in Proc, NEW k \in Lblk, Takes(p, k) PROVE Kept
    BY <1>0, <1>1, <1>4 DEF Takes, OwnIs
<1>5. ASSUME NEW p \in Proc, NEW k \in Lblk, Draws(p, k) PROVE Kept
  <2>1. super'.reserved = super.reserved + 1 /\ mapping' = mapping
    BY <1>0, <1>5 DEF Draws, SuperState
  <2>2. o < super'.reserved /\ o # super.reserved
    BY <1>0, <1>1, <2>1 DEF Pblk
  <2> QED BY <1>0, <1>1, <1>5, <2>1, <2>2 DEF Draws, OwnIs
<1>6. ASSUME NEW p \in Proc, NEW k \in Lblk, Maps(p, k) PROVE Kept
  <2>1. /\ \A m \in Lblk : mapping'[m] = IF m = k THEN own[p][k] ELSE mapping[m]
        /\ own' = own /\ super' = super
    BY <1>0, <1>6 DEF Maps
  <2>2. own[p][k] # o /\ own[p][k] # NoClaim /\ own[p][k] # Invalid
    BY <1>1, <1>6 DEF Maps, Pblk, NoClaim, Invalid
  <2>3. \A q \in Proc : own[q][k] # o
    BY <1>0, <2>2 DEF OneOwnerPerEntry
  <2> QED BY <1>0, <1>1, <2>1, <2>2, <2>3
<1>7. ASSUME NEW p \in Proc, NEW S \in SUBSET Lblk, Drops(p, S) PROVE Kept
    BY <1>0, <1>1, <1>7 DEF Drops
<1> QED BY <1>3, <1>4, <1>5, <1>6, <1>7, Effects

\* A change being logged is the page's only one, and its old block stays as
\* it is: another backend publishes and writes blocks of other pages, and the
\* compactor moves a page only together with its content.
LEMMA OldContentKept ==
    ASSUME IInv, Next, NEW b \in Backends, OldBlock(b), OldContent(b), proc[b].old # Invalid,
           proc[b].pc \in Logging, proc'[b].pc \in Logging,
           proc'[b].lblk = proc[b].lblk, proc'[b].old = proc[b].old
    PROVE  OldContent(b)'
<1> DEFINE o == proc[b].old
           l == proc[b].lblk
           c == proc[Compactor]
<1>0. /\ o \in Pblk /\ l \in Lblk /\ mapping[l] \in Pblk /\ mapping[l] # Invalid
      /\ mapping \in [Lblk -> MaybePblk] /\ disk \in [Pblk -> 0 .. MaxVersion \cup {Garbage}]
      /\ proc \in [Proc -> ProcState] /\ Backends \subseteq Proc /\ Compactor \in Proc
      /\ MappingInjective /\ TypeOK
    BY DEF IInv, TypeOK, Proc, ProcState, MaybePblk, OldBlock, Allocated
<1>1. /\ disk[o] = disk[mapping[l]]
      /\ \A m \in Lblk : mapping[m] = o => m = l
      /\ \A p \in Proc, m \in Lblk : own[p][m] = o => mapping[m] = o
    BY DEF OldBlock, OldContent
<1>2. SUFFICES disk'[o] = disk'[mapping'[l]]
    BY DEF OldContent
<1>3. ASSUME NEW a \in Backends, proc[a].pc \in {"logged", "aimed"}, proc'[a].pc \notin Logging
      PROVE  proc[a].lblk \in Lblk /\ proc[a].lblk # l
  <2>1. a # b /\ proc[a].pc # "idle" /\ proc[b].pc # "idle"
    BY <1>3 DEF Logging, Inserting
  <2> QED BY <1>0, <2>1 DEF IInv, Locks, ProcState
<1>4. ASSUME NEW a \in Backends, SetMapping(a) PROVE disk'[o] = disk'[mapping'[l]]
  <2>1. proc'[a].pc = "mapped" /\ proc[a].pc = "logged"
    BY <1>0, <1>4, GotoOnly DEF SetMapping
  <2>2. proc[a].lblk # l
    BY <1>3, <2>1 DEF Logging
  <2>3. mapping'[l] = mapping[l] /\ disk' = disk
    BY <1>0, <1>4, <2>2 DEF SetMapping, pool
  <2> QED BY <1>1, <2>3
<1>5. ASSUME NEW a \in Backends, Write(a) PROVE disk'[o] = disk'[mapping'[l]]
  <2>1. proc'[a].pc = "idle" /\ proc[a].pc = "aimed" /\ mapping' = mapping
    BY <1>0, <1>5, FinishIdle DEF Write
  <2>2. proc[a].lblk \in Lblk /\ proc[a].lblk # l
    BY <1>3, <2>1 DEF Logging, Inserting
  <2>3. proc[a].old = mapping[proc[a].lblk] /\ mapping[proc[a].lblk] \in Pblk
    BY <1>0, <2>1 DEF IInv, Shape, Writing
  <2>4. proc[a].old # o /\ proc[a].old # mapping[l]
    BY <1>0, <1>1, <2>2, <2>3 DEF MappingInjective
  <2>5. disk'[o] = disk[o] /\ disk'[mapping[l]] = disk[mapping[l]]
    BY <1>0, <1>5, <2>4 DEF Write
  <2> QED BY <1>1, <2>1, <2>5
<1>6. CASE CopyWrite
  <2>1. c.pc = "read" /\ mapping' = mapping
    BY <1>6 DEF CopyWrite
  <2>2. c.lblk \in Lblk /\ own[Compactor][c.lblk] = c.new /\ \A m \in Lblk : mapping[m] # c.new
    BY <1>0, <2>1, CompactorAlone DEF IInv, Shape, Chosen
  <2>3. c.new # o /\ c.new # mapping[l]
    BY <1>0, <1>1, <2>2
  <2>4. disk'[o] = disk[o] /\ disk'[mapping[l]] = disk[mapping[l]]
    BY <1>0, <1>6, <2>3 DEF CopyWrite
  <2> QED BY <1>1, <2>1, <2>4
<1>7. CASE Relocate
  <2>1. /\ c.pc = "copied" /\ mapping[c.lblk] = c.old /\ disk' = disk
        /\ \A m \in Lblk : mapping'[m] = IF m = c.lblk THEN c.new ELSE mapping[m]
    BY <1>0, <1>7 DEF Relocate, pool
  <2>2. disk[c.new] = disk[c.old]
    BY <2>1, CopiesSplit DEF IInv, CopyOK
  <2> QED BY <1>0, <1>1, <2>1, <2>2
<1> QED BY <1>1, <1>4, <1>5, <1>6, <1>7, ContentSteps

\* Every step keeps the old blocks of the changes being logged.
LEMMA BaselinesStep == ASSUME IInv, Baselines, Next PROVE Baselines'
<1> SUFFICES ASSUME NEW b \in Backends, proc'[b].pc \in Logging, proc'[b].old # Invalid
             PROVE  OldBlock(b)' /\ OldContent(b)'
    BY DEF Baselines
<1>1. CASE /\ UNCHANGED <<mapping, own, super, disk>>
           /\ proc'[b].lblk \in Lblk /\ proc'[b].old = mapping[proc'[b].lblk]
    BY <1>1, JustLooked
<1>2. CASE /\ proc[b].pc \in Logging
           /\ proc'[b].lblk = proc[b].lblk /\ proc'[b].old = proc[b].old
  <2>1. OldBlock(b) /\ OldContent(b) /\ proc[b].old # Invalid
    BY <1>2 DEF Baselines
  <2> QED BY <1>2, <2>1, OldBlockKept, OldContentKept
<1> QED BY <1>1, <1>2, LookedUp DEF LoggingOn

-----------------------------------------------------------------------------
(* The theorems.                                                           *)

\* The invariant is inductive.
LEMMA IInvStep == IInv /\ [Next]_vars => IInv'
<1>1. ASSUME IInv, Next PROVE IInv'
    BY <1>1, TypeStep, OwnerStep, LocksStep, ShapeStep, AllocatedStep, SnapshotStep,
       CondemnedStep, CopiesStep DEF IInv
<1>2. ASSUME IInv, UNCHANGED vars PROVE IInv'
  <2> USE <1>2 DEF vars, IInv
  <2>1. TypeOK' /\ OneOwnerPerEntry' /\ Locks'
    BY DEF TypeOK, OneOwnerPerEntry, Locks
  <2>2. Shape'
    BY DEF Shape
  <2>3. Allocated'
    BY DEF Allocated, FreshBlocksAreFresh, MappingInjective
  <2>4. Snapshot'
    BY DEF Snapshot, BoundaryBelowInflight
  <2>5. Condemned'
    BY DEF Condemned, DeadStaysDead
  <2>6. Copies'
    BY DEF Copies, CleanPageIsMapped
  <2> QED BY <2>1, <2>2, <2>3, <2>4, <2>5, <2>6
<1> QED BY <1>1, <1>2

\* The strengthened invariant holds in every reachable state.
THEOREM Inductive == Spec => []IInv
BY InitInv, IInvStep, PTL DEF Spec

\* Types are kept: blocks stay below the allocator's limit and versions below
\* their bound.
THEOREM TypeCorrect == Spec => []TypeOK
<1>1. IInv => TypeOK
    BY DEF IInv
<1> QED BY <1>1, Inductive, PTL

\* Claims are exclusive: a pending bit is set exactly while one process, be
\* it an inserter, a writer or the compactor, owns the entry
\* (MapInflightTryClaim, MapInflightRelease, MapInflightCleanupOwned).
THEOREM ClaimsExclusive == Spec => []OneOwnerPerEntry
<1>1. IInv => OneOwnerPerEntry
    BY DEF IInv
<1> QED BY <1>1, Inductive, PTL

\* MapTryReserveFreshPblknoInternal hands a block out once: whoever reserves
\* and whenever it publishes or gives up, no other claim or entry has it.
THEOREM AllocationSound == Spec => []FreshBlocksAreFresh
<1>1. IInv => FreshBlocksAreFresh
    BY DEF IInv, Allocated
<1> QED BY <1>1, Inductive, PTL

\* Publication by XLogInsert, smgrextend or the compactor keeps the MAP
\* injective (XLogCommitBlockRemapsUmbra, MapCompactorRelocateEntry).
THEOREM MapInjective == Spec => []MappingInjective
<1>1. IInv => MappingInjective
    BY DEF IInv, Allocated
<1> QED BY <1>1, Inductive, PTL

\* No content is lost between a buffer write behind the barrier, a remap and
\* the compactor's raw copy: a clean page is where the MAP says
\* (umwritev, XLogCommitBlockRemapsUmbra, MapCompactorRelocateEntry).
THEOREM NothingLost == Spec => []CleanPageIsMapped
<1>1. IInv => CleanPageIsMapped
    BY DEF IInv, Copies
<1> QED BY <1>1, Inductive, PTL

\* Nothing in flight is below the reclaim boundary
\* (MapCompactorAdvanceBoundaryFromSet, MapSBlockAdvanceReclaimBoundary).
THEOREM BoundarySound == Spec => []BoundaryBelowInflight
<1>1. IInv => BoundaryBelowInflight
    BY DEF IInv, Snapshot
<1> QED BY <1>1, Inductive, PTL

\* A segment registered for unlink is never referenced again
\* (MapSegmentHasLiveReferences, MapReclaimEnqueueSegment).
THEOREM ReclaimSound == Spec => []DeadStaysDead
<1>1. IInv => DeadStaysDead
    BY DEF IInv, Condemned
<1> QED BY <1>1, Inductive, PTL

\* The old block that XLogInsert logs for a remap has, until the remap is
\* published, the content of the block the entry names, even when the
\* compactor moves the page in between (XLogCommitBlockRemapsUmbra).
THEOREM BaselineCurrent == Spec => []OldBaselineIsCurrent
<1>1. Init => Baselines
    BY ConstantFacts DEF Init, Baselines, Proc, Idle, Logging, Inserting
<1>2. IInv /\ Baselines /\ [Next]_vars => Baselines'
  <2>1. ASSUME Baselines, UNCHANGED vars PROVE Baselines'
    BY <2>1 DEF Baselines, OldBlock, OldContent, vars
  <2> QED BY <2>1, BaselinesStep
<1>3. Baselines => OldBaselineIsCurrent
    BY DEF Baselines, OldContent, OldBaselineIsCurrent, Logging, Inserting
<1> QED BY <1>1, <1>2, <1>3, Inductive, PTL DEF Spec

-----------------------------------------------------------------------------
(* MapInflight implements PageStore.                                       *)

\* A fork just opened is a store of blank pages, some of them unborn.
LEMMA StoreInit == Init => Store!Init
<1> SUFFICES ASSUME Init PROVE Store!Init
    OBVIOUS
<1>1. \A l \in Lblk : mapping[l] # Invalid => disk[mapping[l]] = 0
  <2> SUFFICES ASSUME NEW l \in Lblk, mapping[l] # Invalid PROVE disk[mapping[l]] = 0
    OBVIOUS
  <2>1. mapping[l] = l /\ l < NBorn
    BY DEF Init
  <2>2. l \in Pblk
    BY <2>1, ConstantFacts DEF Lblk, Pblk
  <2> QED BY <2>1, <2>2 DEF Init
<1>2. Stored \in [Lblk -> {0, Nowhere}]
    BY <1>1 DEF Stored
<1> QED BY <1>2 DEF Init, Store!Init

\* A step that changes neither the buffers nor what the MAP leads to.
LEMMA Invisible ==
    ASSUME UNCHANGED <<page, dirty>>,
           \A l \in Lblk : /\ mapping'[l] = Invalid <=> mapping[l] = Invalid
                           /\ mapping[l] # Invalid => disk'[mapping'[l]] = disk[mapping[l]]
    PROVE  UNCHANGED Store!vars
<1>1. Stored' = Stored
    BY DEF Stored
<1> QED BY <1>1 DEF Store!vars

\* The entries that name a block name one of the fork's.
LEMMA EntryBlock == ASSUME TypeOK, NEW l \in Lblk, mapping[l] # Invalid PROVE mapping[l] \in Pblk
BY DEF TypeOK, MaybePblk

\* XLogInsert, smgrextend and umwritev change, remap and write single pages.
LEMMA StoreBackend ==
    ASSUME IInv, NEW b \in Backends, Foreground(b) \/ Writer(b)
    PROVE  Store!Next \/ UNCHANGED Store!vars
<1>0. /\ TypeOK /\ b \in Proc /\ proc[b].lblk \in Lblk /\ DirtyOK
    BY CopiesSplit DEF IInv, Proc, TypeOK, ProcState
<1>1. ASSUME UNCHANGED <<mapping, page, dirty, disk>> PROVE UNCHANGED Store!vars
    BY <1>1, Invisible
<1>2. ASSUME NEW l \in Lblk, Lookup(b, l) PROVE Store!Modify(l)
  <2>1. /\ page' = [page EXCEPT ![l] = page[l] + 1] /\ page[l] + 1 \in 0 .. MaxVersion
        /\ dirty' = [dirty EXCEPT ![l] = TRUE]
    BY <1>0, <1>2, ConstantFacts DEF Lookup, TypeOK
  <2>2. Stored' = Stored
    BY <1>2 DEF Lookup, Stored
  <2> QED BY <2>1, <2>2 DEF Store!Modify
<1>3. ASSUME SetMapping(b) PROVE Store!Remap(proc[b].lblk)
  <2>1. /\ mapping' = [mapping EXCEPT ![proc[b].lblk] = proc[b].new]
        /\ UNCHANGED <<page, dirty, disk>>
        /\ dirty[proc[b].lblk]
    BY <1>0, <1>3 DEF SetMapping, pool, DirtyOK, Inserting
  <2>2. proc[b].new \in Pblk
    <3>1. proc[b].pc \in Chosen
      BY <1>3 DEF SetMapping, Chosen
    <3> QED BY <1>0, <3>1 DEF IInv, Shape
  <2>3. disk[proc[b].new] \in 0 .. MaxVersion \cup {Garbage} /\ proc[b].new # Invalid
    BY <1>0, <2>2 DEF TypeOK, Pblk, Invalid
  <2>4. Stored' = [Stored EXCEPT ![proc[b].lblk] = disk[proc[b].new]]
    BY <1>0, <2>1, <2>3 DEF Stored, TypeOK
  <2> QED BY <2>1, <2>3, <2>4 DEF Store!Remap
<1>4. ASSUME Write(b) PROVE Store!Write(proc[b].lblk)
  <2>1. /\ proc[b].old = mapping[proc[b].lblk] /\ proc[b].old \in Pblk
    BY <1>0, <1>4 DEF Write, IInv, Shape, Writing, Choosing
  <2>2. /\ mapping' = mapping /\ page' = page
        /\ \A k \in Pblk : disk'[k] = IF k = proc[b].old THEN page[proc[b].lblk] ELSE disk[k]
        /\ dirty' = [dirty EXCEPT ![proc[b].lblk] = FALSE]
    BY <1>0, <1>4, <2>1 DEF Write, TypeOK
  <2>3. \A m \in Lblk : mapping[m] # Invalid /\ mapping[m] = proc[b].old => m = proc[b].lblk
    BY <1>0, <2>1 DEF IInv, Allocated, MappingInjective
  <2>4. proc[b].old # Invalid
    BY <2>1 DEF Pblk, Invalid
  <2>5. \A m \in Lblk : Stored'[m] = IF m = proc[b].lblk THEN page[m] ELSE Stored[m]
    BY <1>0, <2>1, <2>2, <2>3, <2>4, EntryBlock DEF Stored
  <2>6. Stored' = [Stored EXCEPT ![proc[b].lblk] = page[proc[b].lblk]]
    BY ZenonT(60), <1>0, <2>5 DEF Stored
  <2>7. Stored[proc[b].lblk] # Nowhere
    BY <1>0, <2>1, <2>4 DEF Stored, TypeOK, Garbage, Nowhere
  <2> QED BY <2>2, <2>6, <2>7 DEF Store!Write
<1>5. CASE Foreground(b)
  <2>1. ASSUME \/ ReuseOwned(b) \/ Claim(b) \/ Contended(b) \/ FirstCheck(b) \/ Retry(b)
               \/ GiveUp(b) \/ Reserve(b) \/ ReserveLimit(b) \/ KeepBirth(b) \/ Abort(b)
               \/ Insert(b) \/ Publish(b) \/ Exit(b)
        PROVE  UNCHANGED <<mapping, page, dirty, disk>>
    BY <2>1 DEF ReuseOwned, Claim, Contended, FirstCheck, Retry, GiveUp, Reserve, ReserveLimit,
       KeepBirth, Abort, Insert, Publish, Exit, pool
  <2> QED BY <1>0, <1>1, <1>2, <1>3, <1>5, <2>1 DEF Foreground, Store!Next
<1>6. CASE Writer(b)
  <2>1. ASSUME (\E l \in Lblk : StartWrite(b, l)) \/ ClaimBarrier(b) \/ BarrierTimeout(b) \/ Aim(b)
        PROVE  UNCHANGED <<mapping, page, dirty, disk>>
    BY <2>1 DEF StartWrite, ClaimBarrier, BarrierTimeout, Aim, pool
  <2> QED BY <1>0, <1>1, <1>4, <1>6, <2>1 DEF Writer, Store!Next
<1> QED BY <1>5, <1>6

\* Relocation is invisible.
LEMMA StoreRelocation == ASSUME IInv, Relocation PROVE UNCHANGED Store!vars
<1> DEFINE c == proc[Compactor]
<1>0. TypeOK /\ c.lblk \in Lblk /\ CopyOK
    BY CopiesSplit DEF IInv, Proc, TypeOK, ProcState
<1>1. CASE (\E l \in Lblk : Pick(l)) \/ PickClaim \/ PickReserve \/ PickGiveUp \/ CopyRead
           \/ Publish(Compactor)
  <2>1. UNCHANGED <<mapping, page, dirty, disk>>
    BY <1>1 DEF Pick, PickClaim, PickReserve, PickGiveUp, CopyRead, Publish, pool
  <2> QED BY <2>1, Invisible
<1>2. CASE CopyWrite
  <2>1. c.pc = "read" /\ UNCHANGED <<mapping, page, dirty>>
    BY <1>2 DEF CopyWrite
  <2>2. c.new \in Pblk /\ \A m \in Lblk : mapping[m] # c.new
    BY <2>1, CompactorAlone
  <2>3. \A k \in Pblk : k # c.new => disk'[k] = disk[k]
    BY <1>0, <1>2 DEF CopyWrite, TypeOK
  <2> QED BY <1>0, <2>1, <2>2, <2>3, EntryBlock, Invisible
<1>3. CASE Relocate
  <2>1. /\ c.pc = "copied" /\ mapping[c.lblk] = c.old /\ UNCHANGED <<page, dirty, disk>>
        /\ \A m \in Lblk : mapping'[m] = IF m = c.lblk THEN c.new ELSE mapping[m]
    BY <1>0, <1>3 DEF Relocate, TypeOK, pool
  <2>2. disk[c.new] = disk[c.old] /\ c.old # Invalid /\ c.new # Invalid
    BY <1>0, <2>1, CompactorAlone DEF CopyOK, Pblk, Invalid
  <2> QED BY <2>1, <2>2, Invisible
<1> QED BY <1>1, <1>2, <1>3 DEF Relocation

\* Every step is a step of the store or invisible.
LEMMA StoreStep == IInv /\ [Next]_vars => [Store!Next]_(Store!vars)
<1> SUFFICES ASSUME IInv, [Next]_vars PROVE Store!Next \/ UNCHANGED Store!vars
    OBVIOUS
<1>1. CASE \E b \in Backends : Foreground(b) \/ Writer(b)
    BY <1>1, StoreBackend
<1>2. CASE Scan
  <2>1. UNCHANGED <<mapping, page, dirty, disk>>
    BY <1>2, ScanFrame
  <2> QED BY <2>1, Invisible
<1>3. CASE Relocation
    BY <1>3, StoreRelocation
<1>4. CASE UNCHANGED vars
  <2>1. UNCHANGED <<mapping, page, dirty, disk>>
    BY <1>4 DEF vars
  <2> QED BY <2>1, Invisible
<1> QED BY <1>1, <1>2, <1>3, <1>4 DEF Next

\* The MAP with its claims, barriers and compactor implements a plain store of
\* pages: whatever remaps and relocations happen, a clean page's stored
\* version changes only by a write-back of that page
\* (umwritev, XLogCommitBlockRemapsUmbra, MapCompactorRelocateEntry).
THEOREM StoreImplemented == Spec => ImplementsPageStore
<1>1. Spec => Init /\ [][Next]_vars
    BY DEF Spec
<1> QED BY <1>1, StoreInit, StoreStep, Inductive, PTL DEF ImplementsPageStore, Store!Spec
=============================================================================
