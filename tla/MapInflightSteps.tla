-------------------------- MODULE MapInflightSteps --------------------------
(***************************************************************************)
(* The inductive invariant of MapInflight, and the proof that its parts    *)
(* about claims, blocks, the reclaim boundary, condemned segments and what *)
(* a process owns at each of its steps are kept by every step.             *)
(***************************************************************************)
EXTENDS MapInflight, TLAPS

\* The content lock admits one backend.
Locks ==
    \A a, b \in Backends :
        proc[a].pc # "idle" /\ proc[b].pc # "idle" /\ proc[a].lblk = proc[b].lblk
            => a = b

\* Steps with a claim that has no block yet, and steps with one that has.
Choosing == {"claimed", "held", "barred", "aimed"}
Chosen == {"reserved", "logged", "mapped", "picked2", "read", "copied"}

\* What a process owns at each of its steps.
Shape ==
    /\ \A b \in Backends : proc[b].pc \in Inserting \cup Writing \cup {"idle"}
    /\ proc[Compactor].pc \in {"idle", "picked", "held", "picked2", "read", "copied", "mapped"}
    /\ proc[Compactor].pc # "idle" => proc[Compactor].old \in Pblk
    /\ \A p \in Proc :
          /\ proc[p].pc \in Choosing => own[p][proc[p].lblk] = Invalid
          /\ proc[p].pc \in Chosen => /\ own[p][proc[p].lblk] = proc[p].new
                                      /\ proc[p].new \in Pblk
          /\ proc[p].pc = "mapped" => mapping[proc[p].lblk] = proc[p].new
          /\ proc[p].pc \in Writing => mapping[proc[p].lblk] \in Pblk
          /\ proc[p].pc = "aimed" => proc[p].old = mapping[proc[p].lblk]

\* Handed-out blocks are below the frontier; one that is claimed and mapped
\* belongs to an owner about to release it.
Allocated ==
    /\ FreshBlocksAreFresh
    /\ MappingInjective
    /\ \A l \in Lblk : mapping[l] < super.reserved
    /\ \A p \in Proc, l \in Lblk :
          own[p][l] \in Pblk /\ mapping[l] = own[p][l]
              => proc[p].pc = "mapped" /\ proc[p].lblk = l

\* The compactor's snapshot is behind the superblock, and it has seen nothing
\* that is still in flight.
Snapshot ==
    /\ BoundaryBelowInflight
    /\ scan.next <= super.nextFree /\ scan.boundary <= super.boundary
    /\ \A b \in scan.seen : b < super.reserved
    /\ \A p \in Proc, l \in Lblk :
          own[p][l] \in Pblk /\ mapping[l] # own[p][l] => own[p][l] \notin scan.seen

\* A condemned segment is below the boundary and unreferenced; so far the
\* check in progress has found no reference to its segment.
Condemned ==
    /\ DeadStaysDead
    /\ \A s \in dead : (s + 1) * SegBlocks <= super.boundary
    /\ scan.seg # NoSeg /\ (scan.seg + 1) * SegBlocks <= super.boundary
          => \A l \in Lblk \ scan.left :
                mapping[l] # Invalid => ~InSeg(mapping[l], scan.seg)

\* A page being logged is dirty; a copy is that of the block it was made from
\* as long as the entry has not changed.
Copies ==
    /\ CleanPageIsMapped
    /\ \A b \in Backends : proc[b].pc \in Inserting => dirty[proc[b].lblk]
    /\ LET c == proc[Compactor] IN
       mapping[c.lblk] = c.old =>
          /\ c.pc = "read" => c.copy = disk[c.old]
          /\ c.pc = "copied" => disk[c.new] = disk[c.old]

IInv == /\ TypeOK /\ OneOwnerPerEntry /\ Locks /\ Shape
        /\ Allocated /\ Snapshot /\ Condemned /\ Copies

\* What the assumption on the constants gives, in the form the provers use.
LEMMA ConstantFacts ==
    /\ NBlocks \in Nat /\ NBlocks > 0 /\ NBorn \in 0 .. NBlocks
    /\ MaxPblk \in Nat /\ NBorn <= MaxPblk
    /\ SegBlocks \in Nat /\ SegBlocks > 0 /\ MaxVersion \in Nat
    /\ Compactor \notin Backends
    /\ 0 \in Lblk /\ 0 \in Pblk
    /\ Idle \in ProcState /\ NoScan \in ScanState
BY InflightAssumption DEF Lblk, Pblk, MaybePblk, Idle, NoScan, ProcState, ScanState, Segs,
   NoSeg, Garbage, Invalid

\* A fork just opened satisfies the invariant.
LEMMA InitInv == Init => IInv
<1> SUFFICES ASSUME Init PROVE IInv
    OBVIOUS
<1> USE ConstantFacts
<1>1. TypeOK
    BY DEF Init, TypeOK, Lblk, Pblk, MaybePblk, SuperState, Invalid, Garbage
<1>2. OneOwnerPerEntry /\ Locks /\ Shape
    BY DEF Init, OneOwnerPerEntry, Locks, Shape, Idle, Proc, Choosing, Chosen, Writing,
       Inserting
<1>3. Allocated
    BY DEF Init, Allocated, FreshBlocksAreFresh, MappingInjective, NoClaim, Invalid, Lblk, Pblk
<1>4. Snapshot
    BY DEF Init, Snapshot, BoundaryBelowInflight, NoScan, NoClaim, Pblk, Lblk
<1>5. Condemned
    BY DEF Init, Condemned, DeadStaysDead, NoScan, NoSeg
<1>6. Copies
    BY DEF Init, Copies, CleanPageIsMapped, Idle, Invalid, Lblk, Pblk, Inserting, Proc
<1> QED BY <1>1, <1>2, <1>3, <1>4, <1>5, <1>6 DEF IInv

\* The steps a process can be at.
Steps == Inserting \cup Writing \cup {"idle", "picked", "held", "picked2", "read", "copied"}

\* The operators that change claims, the frontier and a process keep types.
LEMMA ClaimType ==
    ASSUME TypeOK, NEW p \in Proc, NEW l \in Lblk
    PROVE  /\ TryClaim(p, l) => /\ pending' \in SUBSET Lblk
                                /\ own' \in [Proc -> [Lblk -> MaybePblk \cup {NoClaim}]]
           /\ Release(p, l) => /\ pending' \in SUBSET Lblk
                               /\ own' \in [Proc -> [Lblk -> MaybePblk \cup {NoClaim}]]
           /\ ReserveNext(p, l) => /\ own' \in [Proc -> [Lblk -> MaybePblk \cup {NoClaim}]]
                                   /\ super' \in SuperState
                                   /\ super.reserved \in Pblk
<1> USE ConstantFacts
<1> DEFINE T == MaybePblk \cup {NoClaim}
<1>1. own \in [Proc -> [Lblk -> T]] /\ own[p] \in [Lblk -> T]
    BY DEF TypeOK
<1>2. ASSUME NEW v \in T PROVE [own EXCEPT ![p][l] = v] \in [Proc -> [Lblk -> T]]
  <2>1. [own[p] EXCEPT ![l] = v] \in [Lblk -> T]
    BY <1>1
  <2> HIDE DEF T
  <2> QED BY <1>1, <2>1
<1>3. Invalid \in T /\ NoClaim \in T /\ Pblk \subseteq T
    BY DEF MaybePblk
<1>4. /\ super \in SuperState /\ super.reserved \in Pblk
      /\ super.reserved < MaxPblk => super.reserved + 1 \in Pblk
    BY DEF TypeOK, SuperState, Pblk
<1>5. pending \in SUBSET Lblk
    BY DEF TypeOK
<1>6. ReserveNext(p, l) => super' \in SuperState
    BY <1>4 DEF ReserveNext, SuperState
<1> HIDE DEF T
<1>7. TryClaim(p, l) => pending' \in SUBSET Lblk /\ own' \in [Proc -> [Lblk -> T]]
    BY <1>2, <1>3, <1>5 DEF TryClaim
<1>8. Release(p, l) => pending' \in SUBSET Lblk /\ own' \in [Proc -> [Lblk -> T]]
    BY <1>1, <1>2, <1>3, <1>5 DEF Release
<1>9. ReserveNext(p, l) => own' \in [Proc -> [Lblk -> T]]
    BY <1>2, <1>3, <1>4 DEF ReserveNext
<1> QED BY <1>4, <1>6, <1>7, <1>8, <1>9 DEF T

\* Moving a process to another step, or ending its operation, keeps its type.
LEMMA ProcType ==
    ASSUME TypeOK, NEW p \in Proc
    PROVE  /\ \A pc \in Steps : Goto(p, pc) => proc' \in [Proc -> ProcState]
           /\ Finish(p) => proc' \in [Proc -> ProcState]
           /\ \A r \in ProcState : proc' = [proc EXCEPT ![p] = r] => proc' \in [Proc -> ProcState]
           /\ proc[p] \in ProcState /\ proc[p].lblk \in Lblk
<1> USE DEF TypeOK, ProcState, Goto, Finish, Steps
<1>1. proc[p] \in ProcState
    OBVIOUS
<1>2. \A pc \in Steps : Goto(p, pc) => proc' \in [Proc -> ProcState]
    BY SMTT(40), <1>1
<1>3. Finish(p) => proc' \in [Proc -> ProcState]
    BY ConstantFacts
<1> QED BY <1>1, <1>2, <1>3

\* Publication (bump of the frontier, release of the claim) keeps the types.
LEMMA PublishType ==
    ASSUME TypeOK, Shape, Allocated, NEW p \in Proc, Publish(p)
    PROVE  TypeOK'
<1> USE ConstantFacts DEF pool, sweep
<1>1. proc[p].lblk \in Lblk /\ proc[p].new \in Pblk /\ proc[p].new + 1 \in Pblk
  <2>1. proc[p].lblk \in Lblk /\ proc[p].pc \in Chosen
    BY ProcType DEF Publish, Chosen
  <2>2. own[p][proc[p].lblk] = proc[p].new /\ proc[p].new \in Pblk
    BY <2>1 DEF Shape
  <2>3. proc[p].new < super.reserved
    BY <2>1, <2>2 DEF Allocated, FreshBlocksAreFresh
  <2>4. super.reserved \in Pblk
    BY DEF TypeOK, SuperState
  <2> QED BY <2>1, <2>2, <2>3, <2>4 DEF Pblk
<1>2. super' \in SuperState
    BY <1>1 DEF Publish, Bumped, TypeOK, SuperState, Pblk
<1> QED BY <1>1, <1>2, ProcType, ClaimType DEF Publish, TypeOK

\* Every step keeps the types.
LEMMA TypeStep == ASSUME IInv, Next PROVE TypeOK'
<1> USE ConstantFacts DEF pool, sweep
<1>1. TypeOK /\ Shape /\ Allocated
    BY DEF IInv
<1>2. /\ Inserting \subseteq Steps /\ Writing \subseteq Steps
      /\ {"idle", "picked", "held", "picked2", "read", "copied"} \subseteq Steps
      /\ super \in SuperState /\ scan \in ScanState
      /\ super.nextFree \in Pblk /\ super.boundary \in Pblk
    BY <1>1 DEF Steps, TypeOK, SuperState
<1>3. ASSUME NEW b \in Backends, Foreground(b) \/ Writer(b) PROVE TypeOK'
  <2> DEFINE l == proc[b].lblk
  <2>1. b \in Proc /\ l \in Lblk /\ proc[b] \in ProcState
    BY <1>1, ProcType DEF Proc
  <2>2. ASSUME NEW m \in Lblk, Lookup(b, m) PROVE TypeOK'
    <3>1. [Idle EXCEPT !.pc = "looked", !.lblk = m, !.old = mapping[m]] \in ProcState
      BY <1>1 DEF TypeOK, Idle, ProcState, Inserting, Invalid, Garbage, MaybePblk
    <3>2. proc' \in [Proc -> ProcState]
      BY <1>1, <2>1, <2>2, <3>1, ProcType DEF Lookup
    <3>3. page' \in [Lblk -> 0 .. MaxVersion] /\ dirty' \in [Lblk -> BOOLEAN]
      BY <1>1, <2>2 DEF Lookup, TypeOK
    <3> QED BY <1>1, <2>2, <3>2, <3>3 DEF Lookup, TypeOK
  <2>3. ASSUME NEW m \in Lblk, StartWrite(b, m) PROVE TypeOK'
    <3>1. [Idle EXCEPT !.pc = "barring", !.lblk = m] \in ProcState
      BY DEF Idle, ProcState, Writing, Invalid, Garbage, MaybePblk
    <3>2. proc' \in [Proc -> ProcState]
      BY <1>1, <2>1, <2>3, <3>1, ProcType DEF StartWrite
    <3> QED BY <1>1, <2>3, <3>2 DEF StartWrite, TypeOK
  <2>4. CASE ReuseOwned(b)
    <3>1. proc' \in [Proc -> ProcState]
      BY ZenonT(60), <1>1, <2>1, <2>4 DEF ReuseOwned, TypeOK, ProcState, Inserting, Writing,
        MaybePblk
    <3> QED BY <1>1, <2>4, <3>1 DEF ReuseOwned, TypeOK
  <2>5. CASE Contended(b)
    BY <1>1, <1>2, <2>1, <2>5, ProcType DEF Contended, TypeOK, Inserting
  <2>6. CASE FirstCheck(b)
    BY <1>1, <1>2, <2>1, <2>6, ProcType DEF FirstCheck, TypeOK, Inserting
  <2>7. CASE Retry(b)
    <3>1. proc' \in [Proc -> ProcState]
      BY ZenonT(60), <1>1, <2>1, <2>7 DEF Retry, TypeOK, ProcState, Inserting, Writing, MaybePblk
    <3> QED BY <1>1, <2>7, <3>1 DEF Retry, TypeOK
  <2>8. CASE GiveUp(b)
    BY <1>1, <1>2, <2>1, <2>8, ProcType DEF GiveUp, TypeOK, Inserting
  <2>9. CASE KeepBirth(b)
    BY <1>1, <1>2, <2>1, <2>9, ProcType DEF KeepBirth, TypeOK, Inserting
  <2>10. CASE Insert(b)
    BY <1>1, <1>2, <2>1, <2>10, ProcType DEF Insert, TypeOK, Inserting
  <2>11. CASE Claim(b)
    BY <1>1, <1>2, <2>1, <2>11, ProcType, ClaimType DEF Claim, TypeOK, Inserting, Writing
  <2>12. CASE Reserve(b)
    <3>1. /\ super.reserved \in Pblk /\ super' \in SuperState
          /\ own' \in [Proc -> [Lblk -> MaybePblk \cup {NoClaim}]]
      BY <1>1, <2>1, <2>12, ClaimType DEF Reserve
    <3>2. proc' \in [Proc -> ProcState]
      BY ZenonT(60), <1>1, <2>1, <2>12, <3>1 DEF Reserve, TypeOK, ProcState, Inserting, MaybePblk
    <3> QED BY <1>1, <2>12, <3>1, <3>2 DEF Reserve, TypeOK
  <2>13. CASE ReserveLimit(b)
    BY <1>1, <1>2, <2>1, <2>13, ProcType, ClaimType DEF ReserveLimit, TypeOK, Inserting, Writing
  <2>14. CASE Abort(b)
    BY <1>1, <1>2, <2>1, <2>14, ProcType, ClaimType DEF Abort, TypeOK, Inserting, Writing
  <2>15. CASE SetMapping(b)
    <3>1. mapping' \in [Lblk -> MaybePblk]
      BY <1>1, <2>1, <2>15 DEF SetMapping, TypeOK, ProcState
    <3> QED BY <1>1, <1>2, <2>1, <2>15, <3>1, ProcType DEF SetMapping, TypeOK, Inserting
  <2>16. CASE Publish(b)
    BY <1>1, <2>1, <2>16, PublishType
  <2>17. CASE Exit(b)
    <3>1. own' \in [Proc -> [Lblk -> MaybePblk \cup {NoClaim}]]
      BY <1>1, <2>1, <2>17 DEF Exit, TypeOK
    <3> QED BY <1>1, <2>17, <3>1 DEF Exit, TypeOK
  <2>18. CASE ClaimBarrier(b)
    BY <1>1, <1>2, <2>1, <2>18, ProcType, ClaimType DEF ClaimBarrier, TypeOK, Inserting, Writing
  <2>19. CASE BarrierTimeout(b)
    BY <1>1, <1>2, <2>1, <2>19, ProcType DEF BarrierTimeout, TypeOK, Inserting
  <2>20. CASE Aim(b)
    <3>1. proc' \in [Proc -> ProcState]
      BY ZenonT(60), <1>1, <2>1, <2>20 DEF Aim, TypeOK, ProcState, Inserting, Writing, MaybePblk
    <3> QED BY <1>1, <2>20, <3>1 DEF Aim, TypeOK
  <2>21. CASE Write(b)
    <3>1. disk' \in [Pblk -> 0 .. MaxVersion \cup {Garbage}] /\ dirty' \in [Lblk -> BOOLEAN]
      BY <1>1, <2>1, <2>21 DEF Write, TypeOK
    <3> QED BY <1>1, <2>1, <2>21, <3>1, ProcType, ClaimType DEF Write, TypeOK
  <2> QED BY <1>3, <2>2, <2>3, <2>4, <2>5, <2>6, <2>7, <2>8, <2>9, <2>10, <2>11, <2>12, <2>13,
             <2>14, <2>15, <2>16, <2>17, <2>18, <2>19, <2>20, <2>21 DEF Foreground, Writer
<1>4. ASSUME Scan PROVE TypeOK'
  <2>1. CASE ScanStart
    <3>1. scan' \in ScanState
      BY <1>2, <2>1 DEF ScanStart, ScanState, NoScan
    <3> QED BY <1>1, <2>1, <3>1 DEF ScanStart, TypeOK
  <2>2. CASE Enqueue
    <3>1. scan' \in ScanState /\ dead' \in SUBSET Segs
      BY <1>1, <1>2, <2>2 DEF Enqueue, ScanState, NoScan, TypeOK
    <3> QED BY <1>1, <2>2, <3>1 DEF Enqueue, TypeOK
  <2>3. CASE ScanEnd
    <3>1. super' \in SuperState
      BY <1>2, <2>3 DEF ScanEnd, ScanState, SuperState, Pblk
    <3> QED BY <1>1, <2>3, <3>1 DEF ScanEnd, TypeOK
  <2>4. ASSUME NEW m \in Lblk, ScanEntry(m) PROVE TypeOK'
    <3>2. /\ scan.seen \cup ({mapping[m]} \ {Invalid}) \in SUBSET Pblk
          /\ scan.todo \ {m} \in SUBSET Lblk
      BY <1>1, <1>2, <2>4 DEF ScanState, TypeOK, MaybePblk
    <3>1. scan' \in ScanState
      BY <1>2, <2>4, <3>2 DEF ScanEntry, ScanState
    <3> QED BY <1>1, <2>4, <3>1 DEF ScanEntry, TypeOK
  <2>5. ASSUME NEW m \in Lblk, CheckEntry(m) PROVE TypeOK'
    <3>1. scan' \in ScanState
      BY <1>2, <2>5 DEF CheckEntry, ScanState
    <3> QED BY <1>1, <2>5, <3>1 DEF CheckEntry, TypeOK
  <2>6. ASSUME NEW s \in Segs, CheckStart(s) PROVE TypeOK'
    <3>1. scan' \in ScanState
      BY <1>2, <2>6 DEF CheckStart, ScanState
    <3> QED BY <1>1, <2>6, <3>1 DEF CheckStart, TypeOK
  <2> QED BY <1>4, <2>1, <2>2, <2>3, <2>4, <2>5, <2>6 DEF Scan
<1>5. ASSUME Relocation PROVE TypeOK'
  <2> DEFINE c == proc[Compactor]
  <2>1. /\ Compactor \in Proc /\ c \in ProcState /\ c.lblk \in Lblk
        /\ c.pc # "idle" => c.old \in Pblk
    BY <1>1, ProcType DEF Proc, Shape
  <2>2. ASSUME NEW m \in Lblk, Pick(m) PROVE TypeOK'
    <3>1. [Idle EXCEPT !.pc = "picked", !.lblk = m, !.old = mapping[m]] \in ProcState
      BY <1>1 DEF TypeOK, Idle, ProcState, Invalid, Garbage, MaybePblk
    <3>2. proc' \in [Proc -> ProcState]
      BY <1>1, <2>1, <2>2, <3>1, ProcType DEF Pick
    <3> QED BY <1>1, <2>2, <3>2 DEF Pick, TypeOK
  <2>3. CASE PickClaim
    BY <1>1, <1>2, <2>1, <2>3, ProcType, ClaimType DEF PickClaim, TypeOK
  <2>4. CASE PickReserve
    <3>1. /\ super.reserved \in Pblk /\ super' \in SuperState
          /\ own' \in [Proc -> [Lblk -> MaybePblk \cup {NoClaim}]]
      BY <1>1, <2>1, <2>4, ClaimType DEF PickReserve
    <3>2. proc' \in [Proc -> ProcState]
      BY <1>1, <2>1, <2>4, <3>1 DEF PickReserve, TypeOK, ProcState, MaybePblk
    <3> QED BY <1>1, <2>4, <3>1, <3>2 DEF PickReserve, TypeOK
  <2>5. CASE PickGiveUp
    BY <1>1, <2>1, <2>5, ProcType, ClaimType DEF PickGiveUp, TypeOK
  <2>6. CASE CopyRead
    <3>1. disk[c.old] \in 0 .. MaxVersion \cup {Garbage}
      BY <1>1, <2>1, <2>6 DEF CopyRead, TypeOK
    <3>2. proc' \in [Proc -> ProcState]
      BY <1>1, <2>1, <2>6, <3>1 DEF CopyRead, TypeOK, ProcState
    <3> QED BY <1>1, <2>6, <3>2 DEF CopyRead, TypeOK
  <2>7. CASE CopyWrite
    <3>1. disk' \in [Pblk -> 0 .. MaxVersion \cup {Garbage}]
      BY <1>1, <2>1, <2>7 DEF CopyWrite, TypeOK, ProcState
    <3> QED BY <1>1, <1>2, <2>1, <2>7, <3>1, ProcType DEF CopyWrite, TypeOK
  <2>8. CASE Relocate
    <3>1. mapping' \in [Lblk -> MaybePblk] /\ scan' \in ScanState
      BY <1>1, <1>2, <2>1, <2>8 DEF Relocate, TypeOK, ProcState, ScanState
    <3> QED BY <1>1, <1>2, <2>1, <2>8, <3>1, ProcType DEF Relocate, TypeOK, Inserting
  <2>9. CASE Publish(Compactor)
    BY <1>1, <2>1, <2>9, PublishType
  <2> QED BY <1>5, <2>2, <2>3, <2>4, <2>5, <2>6, <2>7, <2>8, <2>9 DEF Relocation
<1> QED BY <1>3, <1>4, <1>5 DEF Next

-----------------------------------------------------------------------------
(* What a step does to claims and blocks: six kinds.                       *)

\* An owner that has published its block stays where it is until it releases.
MappedKept(p, S) ==
    \A q \in Proc : proc[q].pc = "mapped"
        => proc'[q] = proc[q] \/ (q = p /\ proc[q].lblk \in S)

\* The analysis is left alone, except for the segments it may have to check.
ScanKept ==
    /\ scan'.next = scan.next /\ scan'.boundary = scan.boundary /\ scan'.seen = scan.seen
    /\ scan'.seg = scan.seg /\ scan'.left = scan.left /\ dead' = dead

\* Local claims after one of them is set to v.
OwnIs(p, l, v) ==
    \A q \in Proc, m \in Lblk : own'[q][m] = IF q = p /\ m = l THEN v ELSE own[q][m]

\* Nothing about claims and blocks changes.
Stays == UNCHANGED <<mapping, pending, own, super>> /\ MappedKept(Compactor, {})

\* p claims entry l.
Takes(p, l) ==
    /\ l \notin pending /\ pending' = pending \cup {l}
    /\ OwnIs(p, l, Invalid)
    /\ UNCHANGED <<mapping, super>> /\ MappedKept(p, {})

\* p draws the next block for its claim on l.
Draws(p, l) ==
    /\ own[p][l] = Invalid
    /\ OwnIs(p, l, super.reserved)
    /\ super' = [super EXCEPT !.reserved = @ + 1]
    /\ UNCHANGED <<mapping, pending>> /\ MappedKept(p, {})

\* p publishes its block in entry l.
Maps(p, l) ==
    /\ own[p][l] \in Pblk /\ mapping[l] # own[p][l]
    /\ mapping' = [mapping EXCEPT ![l] = own[p][l]]
    /\ proc'[p].pc = "mapped" /\ proc'[p].lblk = l
    /\ UNCHANGED <<pending, own, super>> /\ MappedKept(p, {})

\* p gives up its claims on S, after a bump of the committed frontier or not.
Drops(p, S) ==
    /\ \A m \in S : own[p][m] # NoClaim
    /\ pending' = pending \ S
    /\ \A q \in Proc, m \in Lblk : own'[q][m] = IF q = p /\ m \in S THEN NoClaim ELSE own[q][m]
    /\ super'.reserved = super.reserved /\ super'.boundary = super.boundary
    /\ super.nextFree <= super'.nextFree /\ super'.nextFree <= super.reserved
    /\ UNCHANGED mapping /\ MappedKept(p, S)

\* An update of one local claim, entry by entry.
LEMMA OwnAfter ==
    ASSUME TypeOK, NEW p \in Proc, NEW l \in Lblk, NEW v, own' = [own EXCEPT ![p][l] = v]
    PROVE  OwnIs(p, l, v)
<1>1. own \in [Proc -> [Lblk -> MaybePblk \cup {NoClaim}]]
    BY DEF TypeOK
<1>2. \A q \in Proc : own'[q] = IF q = p THEN [own[p] EXCEPT ![l] = v] ELSE own[q]
    BY <1>1
<1> QED BY <1>1, <1>2 DEF OwnIs

\* A release drops the one claim it names, if there is one.
LEMMA ReleaseDrops ==
    ASSUME IInv, NEW p \in Proc, NEW l \in Lblk, own[p][l] # NoClaim, Release(p, l),
           super' = super, mapping' = mapping, MappedKept(p, {l})
    PROVE  Drops(p, {l})
<1>1. OwnIs(p, l, NoClaim) /\ pending' = pending \ {l}
    BY OwnAfter DEF Release, IInv
<1>2. super.nextFree <= super.nextFree /\ super.nextFree <= super.reserved
    BY DEF IInv, Snapshot, BoundaryBelowInflight, TypeOK, SuperState, Pblk
<1> QED BY <1>1, <1>2 DEF Drops, OwnIs

\* Publication bumps the committed frontier, not past the reserved one.
LEMMA PublishDrops ==
    ASSUME IInv, NEW p \in Proc, Publish(p)
    PROVE  Drops(p, {proc[p].lblk})
<1> DEFINE l == proc[p].lblk
<1>1. l \in Lblk /\ proc[p].new \in Pblk /\ own[p][l] = proc[p].new /\ own[p][l] < super.reserved
    BY ProcType DEF IInv, Publish, Shape, Chosen, Allocated, FreshBlocksAreFresh
<1>2. OwnIs(p, l, NoClaim) /\ pending' = pending \ {l} /\ own[p][l] # NoClaim
    BY <1>1, OwnAfter DEF Publish, Release, IInv, NoClaim, Pblk
<1>3. /\ super'.reserved = super.reserved /\ super'.boundary = super.boundary
      /\ super.nextFree <= super'.nextFree /\ super'.nextFree <= super.reserved
    BY <1>1 DEF IInv, Publish, Bumped, Snapshot, BoundaryBelowInflight, TypeOK, SuperState, Pblk
<1>4. MappedKept(p, {l}) /\ mapping' = mapping
    BY DEF IInv, TypeOK, Publish, Finish, MappedKept
<1> QED BY <1>2, <1>3, <1>4 DEF Drops, OwnIs

\* The kinds cover every step.
LEMMA Effects ==
    ASSUME IInv, Next
    PROVE  \/ Scan
           \/ /\ ScanKept
              /\ \/ Stays
                 \/ \E p \in Proc, l \in Lblk : Takes(p, l) \/ Draws(p, l) \/ Maps(p, l)
                 \/ \E p \in Proc, S \in SUBSET Lblk : Drops(p, S)
<1> USE DEF pool, sweep
<1> DEFINE Kind == \/ Stays
                   \/ \E p \in Proc, l \in Lblk : Takes(p, l) \/ Draws(p, l) \/ Maps(p, l)
                   \/ \E p \in Proc, S \in SUBSET Lblk : Drops(p, S)
<1>1. TypeOK /\ Shape /\ Allocated /\ proc \in [Proc -> ProcState] /\ Compactor \in Proc
    BY DEF IInv, TypeOK, Proc
<1>2. ASSUME NEW b \in Backends, Foreground(b) \/ Writer(b) PROVE ScanKept /\ Kind
  <2> DEFINE l == proc[b].lblk
  <2>1. b \in Proc /\ l \in Lblk /\ b # Compactor
    BY <1>1, ProcType, ConstantFacts DEF Proc
  <2> HIDE DEF l
  <2>2. ScanKept
    BY <1>2 DEF ScanKept, Foreground, Writer, Lookup, ReuseOwned, Claim, Contended, FirstCheck,
       Retry, GiveUp, Reserve, ReserveLimit, KeepBirth, Abort, Insert, SetMapping, Publish,
       Exit,
       StartWrite, ClaimBarrier, BarrierTimeout, Aim, Write
  <2>3. ASSUME \/ \E m \in Lblk : Lookup(b, m) \/ StartWrite(b, m)
               \/ ReuseOwned(b) \/ Contended(b) \/ FirstCheck(b) \/ Retry(b) \/ GiveUp(b)
               \/ KeepBirth(b) \/ Insert(b) \/ BarrierTimeout(b) \/ Aim(b)
        PROVE  Stays
    BY <1>1, <2>1, <2>3 DEF Stays, MappedKept, Lookup, StartWrite, ReuseOwned, Contended,
       FirstCheck,
       Retry, GiveUp, KeepBirth, Insert, BarrierTimeout, Aim, Goto, Finish
  <2>4. CASE Claim(b) \/ ClaimBarrier(b)
    <3>1. OwnIs(b, l, Invalid)
      BY <1>1, <2>1, <2>4, OwnAfter DEF Claim, ClaimBarrier, TryClaim, l
    <3>9. Takes(b, l)
      BY <1>1, <2>1, <2>4, <3>1 DEF Takes, MappedKept, Claim, ClaimBarrier, TryClaim, Goto, l
    <3> QED BY <1>1, <2>1, <2>2, <3>9
  <2>5. CASE Reserve(b)
    <3>1. OwnIs(b, l, super.reserved) /\ own[b][l] = Invalid
      BY <1>1, <2>1, <2>5, OwnAfter DEF Reserve, ReserveNext, Shape, Choosing, l
    <3>9. Draws(b, l)
      BY <1>1, <2>1, <2>5, <3>1 DEF Draws, MappedKept, Reserve, ReserveNext, l
    <3> QED BY <1>1, <2>1, <2>2, <3>9
  <2>6. CASE SetMapping(b)
    <3>1. own[b][l] = proc[b].new /\ proc[b].new \in Pblk /\ mapping[l] # own[b][l]
      BY <1>1, <2>1, <2>6 DEF SetMapping, Shape, Chosen, Allocated, l
    <3>2. proc'[b].pc = "mapped" /\ proc'[b].lblk = l
      BY <1>1, <2>1, <2>6 DEF SetMapping, Goto, ProcState, l
    <3>9. Maps(b, l)
      BY <1>1, <2>1, <2>6, <3>1, <3>2 DEF Maps, MappedKept, SetMapping, Goto, l
    <3> QED BY <1>1, <2>1, <2>2, <3>9
  <2>7. CASE ReserveLimit(b) \/ Abort(b) \/ Write(b)
    <3>1. own[b][l] # NoClaim
      BY <1>1, <2>1, <2>7 DEF ReserveLimit, Abort, Write, Shape, Choosing, Chosen, Invalid,
         NoClaim, Pblk, l
    <3>2. Release(b, l) /\ super' = super /\ mapping' = mapping /\ MappedKept(b, {l})
      BY <1>1, <2>1, <2>7 DEF ReserveLimit, Abort, Write, MappedKept, Finish, l
    <3>3. Drops(b, {l})
      BY <2>1, <3>1, <3>2, ReleaseDrops
    <3> QED BY <2>1, <2>2, <3>3
  <2>8. CASE Publish(b)
    BY <2>1, <2>2, <2>8, PublishDrops DEF l
  <2>9. CASE Exit(b)
    <3> DEFINE S == {m \in Lblk : own[b][m] # NoClaim}
    <3>1. \A q \in Proc,
    m \in Lblk : own'[q][m] = IF q = b /\ m \in S THEN NoClaim ELSE own[q][m]
      BY <1>1, <2>1, <2>9 DEF Exit, TypeOK
    <3>2. super.nextFree <= super.nextFree /\ super.nextFree <= super.reserved
      BY DEF IInv, Snapshot, BoundaryBelowInflight, TypeOK, SuperState, Pblk
    <3>3. Drops(b, S)
      BY <1>1, <2>9, <3>1, <3>2 DEF Exit, Drops, MappedKept
    <3> QED BY <2>1, <2>2, <3>3
  <2> QED BY <1>2, <2>1, <2>2, <2>3, <2>4, <2>5, <2>6, <2>7, <2>8, <2>9 DEF Foreground, Writer
<1>3. ASSUME Relocation PROVE ScanKept /\ Kind
  <2> DEFINE c == Compactor
  <2> DEFINE l == proc[Compactor].lblk
  <2>1. l \in Lblk
    BY <1>1, ProcType
  <2> HIDE DEF l
  <2>2. ScanKept
    BY <1>1, <1>3 DEF ScanKept, Relocation, Pick, PickClaim, PickReserve, PickGiveUp, CopyRead,
       CopyWrite, Relocate, Publish, TypeOK, ScanState
  <2>3. ASSUME \/ \E m \in Lblk : Pick(m)
               \/ CopyRead \/ CopyWrite
               \/ PickClaim /\ ~TryClaim(Compactor, l)
        PROVE  Stays
    BY <1>1, <2>1, <2>3 DEF Stays, MappedKept, Pick, CopyRead, CopyWrite, PickClaim, Goto,
       Finish,
       Scanned, CompactorFree, l
  <2>4. CASE PickClaim /\ TryClaim(Compactor, l)
    <3>1. OwnIs(c, l, Invalid)
      BY <1>1, <2>1, <2>4, OwnAfter DEF TryClaim
    <3>9. Takes(c, l)
      BY <1>1, <2>1, <2>4, <3>1 DEF Takes, MappedKept, PickClaim, TryClaim, Goto, Finish, l
    <3> QED BY <1>1, <2>1, <2>2, <3>9
  <2>5. CASE PickReserve
    <3>1. OwnIs(c, l, super.reserved) /\ own[c][l] = Invalid
      BY <1>1, <2>1, <2>5, OwnAfter DEF PickReserve, ReserveNext, Shape, Choosing, l
    <3>9. Draws(c, l)
      BY <1>1, <2>1, <2>5, <3>1 DEF Draws, MappedKept, PickReserve, ReserveNext, l
    <3> QED BY <1>1, <2>1, <2>2, <3>9
  <2>6. CASE Relocate
    <3>1. own[c][l] = proc[c].new /\ proc[c].new \in Pblk /\ mapping[l] # own[c][l]
      BY <1>1, <2>1, <2>6 DEF Relocate, Shape, Chosen, Allocated, l
    <3>2. proc'[c].pc = "mapped" /\ proc'[c].lblk = l
      BY <1>1, <2>1, <2>6 DEF Relocate, Goto, ProcState, l
    <3>9. Maps(c, l)
      BY <1>1, <2>1, <2>6, <3>1, <3>2 DEF Maps, MappedKept, Relocate, Goto, l
    <3> QED BY <1>1, <2>1, <2>2, <3>9
  <2>7. CASE PickGiveUp
    <3>1. own[c][l] # NoClaim
      BY <1>1, <2>1, <2>7 DEF PickGiveUp, Shape, Choosing, Chosen, Invalid, NoClaim, Pblk, l
    <3>2. Release(c, l) /\ super' = super /\ mapping' = mapping /\ MappedKept(c, {l})
      BY <1>1, <2>1, <2>7 DEF PickGiveUp, MappedKept, Finish, l
    <3>3. Drops(c, {l})
      BY <1>1, <2>1, <3>1, <3>2, ReleaseDrops
    <3> QED BY <1>1, <2>1, <2>2, <3>3
  <2>8. CASE Publish(Compactor)
    BY <1>1, <2>1, <2>2, <2>8, PublishDrops DEF l
  <2> QED BY <1>3, <2>1, <2>2, <2>3, <2>4, <2>5, <2>6, <2>7, <2>8 DEF Relocation
<1> QED BY <1>2, <1>3 DEF Next

-----------------------------------------------------------------------------
(* Each conjunct is kept.                                                  *)

\* The compactor's analysis changes no entry, claim, process or content.
LEMMA ScanFrame ==
    ASSUME IInv, Scan
    PROVE  /\ UNCHANGED <<mapping, pending, own, proc, page, dirty, disk>>
           /\ super'.reserved = super.reserved /\ super'.nextFree = super.nextFree
BY DEF IInv, TypeOK, SuperState, Scan, ScanStart, ScanEntry, CheckStart, CheckEntry, Enqueue,
   ScanEnd, pool

\* Every step keeps claims exclusive.
LEMMA OwnerStep == ASSUME IInv, Next PROVE OneOwnerPerEntry'
<1>1. OneOwnerPerEntry /\ TypeOK
    BY DEF IInv
<1>2. CASE UNCHANGED <<pending, own>>
    BY <1>1, <1>2 DEF OneOwnerPerEntry
<1>3. ASSUME NEW p \in Proc, NEW l \in Lblk, Takes(p, l) PROVE OneOwnerPerEntry'
    BY <1>1, <1>3 DEF OneOwnerPerEntry, Takes, OwnIs, Invalid, NoClaim
<1>4. ASSUME NEW p \in Proc, NEW l \in Lblk, Draws(p, l) PROVE OneOwnerPerEntry'
  <2>1. super.reserved # NoClaim
    BY <1>1 DEF TypeOK, SuperState, Pblk, NoClaim
  <2>2. \A q \in Proc, m \in Lblk : own'[q][m] # NoClaim <=> own[q][m] # NoClaim
    BY <1>4, <2>1 DEF Draws, OwnIs, Invalid, NoClaim
  <2>3. pending' = pending
    BY <1>4 DEF Draws
  <2> QED BY <1>1, <2>2, <2>3 DEF OneOwnerPerEntry
<1>5. ASSUME NEW p \in Proc, NEW S \in SUBSET Lblk, Drops(p, S) PROVE OneOwnerPerEntry'
    BY <1>1, <1>5 DEF OneOwnerPerEntry, Drops
<1> QED BY <1>2, <1>3, <1>4, <1>5, Effects, ScanFrame DEF Stays, Maps

\* Every step keeps blocks handed out once and the MAP injective.
LEMMA AllocatedStep == ASSUME IInv, Next PROVE Allocated'
<1> USE DEF FreshBlocksAreFresh, MappingInjective
<1>1. /\ Allocated /\ OneOwnerPerEntry /\ super.reserved \in Pblk
      /\ mapping \in [Lblk -> MaybePblk]
      /\ \A p \in Proc, l \in Lblk : own[p][l] \in MaybePblk \cup {NoClaim}
    BY DEF IInv, TypeOK, SuperState
<1>2. ASSUME UNCHANGED <<mapping, own>>, super'.reserved = super.reserved, MappedKept(Compactor, {})
      PROVE  Allocated'
    BY <1>1, <1>2 DEF Allocated, MappedKept
<1>3. ASSUME NEW p \in Proc, NEW l \in Lblk, Takes(p, l) PROVE Allocated'
    BY SMTT(40), <1>1, <1>3 DEF Allocated, Takes, OwnIs, MappedKept, Invalid, NoClaim, Pblk,
      MaybePblk
<1>4. ASSUME NEW p \in Proc, NEW l \in Lblk, Draws(p, l) PROVE Allocated'
  <2>1. super'.reserved = super.reserved + 1 /\ mapping' = mapping
    BY <1>4 DEF Draws, IInv, TypeOK, SuperState
  <2> QED BY <1>1, <1>4, <2>1 DEF Allocated, Draws, OwnIs, MappedKept, Invalid, NoClaim, Pblk,
             MaybePblk
<1>5. ASSUME NEW p \in Proc, NEW l \in Lblk, Maps(p, l) PROVE Allocated'
    BY SMTT(40), <1>1, <1>5 DEF Allocated, Maps, MappedKept, OneOwnerPerEntry, Pblk, MaybePblk,
      NoClaim
<1>6. ASSUME NEW p \in Proc, NEW S \in SUBSET Lblk, Drops(p, S) PROVE Allocated'
    BY SMTT(40), <1>1, <1>6 DEF Allocated, Drops, MappedKept, NoClaim, Pblk
<1>7. CASE Scan
    BY <1>2, <1>7, ScanFrame DEF MappedKept
<1> QED BY <1>2, <1>3, <1>4, <1>5, <1>6, <1>7, Effects DEF Stays

\* Every step keeps what is in flight out of the scan and above the boundary.
LEMMA SnapshotStep == ASSUME IInv, Next PROVE Snapshot'
<1> USE DEF BoundaryBelowInflight
<1>1. /\ Snapshot /\ Allocated /\ OneOwnerPerEntry /\ TypeOK /\ Allocated'
      /\ super.reserved \in Nat /\ super.nextFree \in Nat /\ super.boundary \in Nat
      /\ scan.next \in Nat /\ scan.boundary \in Nat
      /\ mapping \in [Lblk -> MaybePblk]
      /\ \A p \in Proc, l \in Lblk : own[p][l] \in MaybePblk \cup {NoClaim}
      /\ scan.seen \subseteq Pblk
    BY AllocatedStep DEF IInv, TypeOK, SuperState, Pblk, ScanState
<1>2. ASSUME ScanKept, Stays PROVE Snapshot'
    BY <1>1, <1>2 DEF Snapshot, Stays, ScanKept
<1>3. ASSUME ScanKept, NEW p \in Proc, NEW l \in Lblk, Takes(p, l) PROVE Snapshot'
    BY <1>1, <1>3 DEF Snapshot, Takes, OwnIs, ScanKept, Invalid, Pblk
<1>4. ASSUME ScanKept, NEW p \in Proc, NEW l \in Lblk, Draws(p, l) PROVE Snapshot'
  <2>1. /\ super'.reserved = super.reserved + 1 /\ super'.nextFree = super.nextFree
        /\ super'.boundary = super.boundary /\ mapping' = mapping
    BY <1>4 DEF Draws, IInv, TypeOK, SuperState
  <2> QED BY <1>1, <1>4, <2>1 DEF Snapshot, Draws, OwnIs, ScanKept, Pblk
<1>5. ASSUME ScanKept, NEW p \in Proc, NEW l \in Lblk, Maps(p, l) PROVE Snapshot'
    BY SMTT(40), <1>1, <1>5 DEF Snapshot, Maps, ScanKept, OneOwnerPerEntry, Pblk, NoClaim
<1>6. ASSUME ScanKept, NEW p \in Proc, NEW S \in SUBSET Lblk, Drops(p, S) PROVE Snapshot'
  <2>1. super'.nextFree \in Nat
    BY TypeStep DEF TypeOK, SuperState, Pblk
  <2> QED BY SMTT(40), <1>1, <1>6, <2>1 DEF Snapshot, Drops, ScanKept, NoClaim, Pblk
<1>7. CASE Scan
  <2>1. UNCHANGED <<mapping,
  own>> /\ super'.reserved = super.reserved /\ super'.nextFree = super.nextFree
    BY <1>7, ScanFrame
  <2>2. CASE ScanStart
    BY <1>1, <2>1, <2>2 DEF Snapshot, ScanStart, NoScan
  <2>3. ASSUME NEW m \in Lblk, ScanEntry(m) PROVE Snapshot'
    <3>1. /\ super' = super /\ scan'.next = scan.next /\ scan'.boundary = scan.boundary
          /\ scan'.seen \subseteq scan.seen \cup ({mapping[m]} \ {Invalid})
      BY <2>3 DEF ScanEntry, IInv, TypeOK, ScanState
    <3>2. /\ mapping[m] # Invalid => mapping[m] < super.reserved
          /\ \A p \in Proc, l \in Lblk :
               own[p][l] \in Pblk /\ mapping[l] # own[p][l] => mapping[m] # own[p][l]
      BY <1>1 DEF Allocated, FreshBlocksAreFresh
    <3> QED BY <1>1, <2>1, <3>1, <3>2 DEF Snapshot
  <2>4. ASSUME \/ \E m \in Lblk : CheckEntry(m)
               \/ \E s \in Segs : CheckStart(s)
               \/ Enqueue
        PROVE  Snapshot'
    <3>1. /\ super' = super /\ scan'.next = scan.next /\ scan'.boundary = scan.boundary
          /\ scan'.seen = scan.seen
      BY <2>4 DEF CheckEntry, CheckStart, Enqueue, IInv, TypeOK, ScanState
    <3> QED BY <1>1, <2>1, <3>1 DEF Snapshot
  <2>5. CASE ScanEnd
    <3>1. PICK b \in scan.boundary .. scan.next :
             /\ Advances(scan.boundary, scan.next, scan.seen, b)
             /\ super' = [super EXCEPT !.boundary = IF b > @ THEN b ELSE @]
      BY <2>5 DEF ScanEnd
    <3>2. super'.boundary = IF b > super.boundary THEN b ELSE super.boundary
      BY <1>1, <3>1 DEF TypeOK, SuperState
    <3>3. super'.boundary <= super'.nextFree
      BY <1>1, <2>1, <3>1, <3>2 DEF Snapshot
    <3>4. \A p \in Proc, l \in Lblk :
             own[p][l] \in Pblk /\ mapping[l] # own[p][l] => super'.boundary <= own[p][l]
      BY <1>1, <3>1, <3>2 DEF Snapshot, Advances, Pblk
    <3>5. scan' = NoScan
      BY <2>5 DEF ScanEnd
    <3>6. super'.boundary \in Nat
      BY <1>1, <3>1, <3>2
    <3> QED BY SMTT(40), <1>1, <2>1, <3>3, <3>4, <3>5, <3>6 DEF Snapshot, NoScan
  <2> QED BY <1>7, <2>2, <2>3, <2>4, <2>5 DEF Scan
<1> QED BY <1>2, <1>3, <1>4, <1>5, <1>6, <1>7, Effects

\* Every step keeps condemned segments unreferenced: a newly published block
\* is above the boundary and they are below it.
LEMMA CondemnedStep == ASSUME IInv, Next PROVE Condemned'
<1>1. /\ Condemned /\ Snapshot /\ TypeOK /\ SegBlocks \in Nat /\ dead \subseteq Nat
      /\ super.boundary \in Nat /\ scan.seg \in Segs \cup {NoSeg}
      /\ mapping \in [Lblk -> MaybePblk]
    BY SMTT(40), ConstantFacts DEF IInv, TypeOK, SuperState, Pblk, ScanState, Segs
<1>2. ASSUME UNCHANGED mapping, dead' = dead, ScanKept, super'.boundary = super.boundary
      PROVE  Condemned'
    BY <1>1, <1>2 DEF Condemned, DeadStaysDead, ScanKept
<1>3. ASSUME ScanKept, NEW p \in Proc, NEW l \in Lblk, Maps(p, l) PROVE Condemned'
  <2>1. super.boundary <= own[p][l]
    BY <1>1, <1>3 DEF Maps, Snapshot, BoundaryBelowInflight
  <2>2. own[p][l] \in Nat
    BY <1>3 DEF Maps, Pblk
  <2>3. \A s \in Nat : (s + 1) * SegBlocks <= super.boundary => ~InSeg(own[p][l], s)
    <3> SUFFICES ASSUME NEW s \in Nat, (s + 1) * SegBlocks <= super.boundary
                 PROVE  ~InSeg(own[p][l], s)
      OBVIOUS
    <3> DEFINE e == (s + 1) * SegBlocks
    <3>1. e \in Nat
      BY <1>1
    <3>2. ~(own[p][l] < e)
      <4> HIDE DEF e
      <4> QED BY <1>1, <2>1, <2>2, <3>1 DEF e
    <3> QED BY <3>2 DEF InSeg
  <2>4. /\ super'.boundary = super.boundary /\ dead' = dead
        /\ scan'.seg = scan.seg /\ scan'.left = scan.left
        /\ \A m \in Lblk : mapping'[m] = IF m = l THEN own[p][l] ELSE mapping[m]
    BY <1>1, <1>3 DEF Maps, ScanKept
  <2>5. scan.seg # NoSeg => scan.seg \in Nat
    BY <1>1 DEF Segs
  <2> HIDE DEF InSeg
  <2> QED BY <1>1, <2>3, <2>4, <2>5 DEF Condemned, DeadStaysDead
<1>4. CASE Scan
  <2>0. mapping' = mapping
    BY <1>4, ScanFrame
  <2>2. CASE ScanStart
    BY <1>1, <2>0, <2>2 DEF Condemned, DeadStaysDead, ScanStart, NoScan
  <2>3. ASSUME NEW m \in Lblk, ScanEntry(m) PROVE Condemned'
    <3>1. super' = super /\ scan'.seg = scan.seg /\ scan'.left = scan.left /\ dead' = dead
      BY <2>3 DEF ScanEntry, IInv, TypeOK, ScanState
    <3> QED BY <1>1, <2>0, <3>1 DEF Condemned, DeadStaysDead
  <2>4. ASSUME NEW s \in Segs, CheckStart(s) PROVE Condemned'
    <3>1. super' = super /\ scan'.left = Lblk /\ dead' = dead
      BY <2>4 DEF CheckStart, IInv, TypeOK, ScanState
    <3> QED BY <1>1, <2>0, <3>1 DEF Condemned, DeadStaysDead
  <2>5. ASSUME NEW m \in Lblk, CheckEntry(m) PROVE Condemned'
    <3>1. super' = super /\ dead' = dead
      BY <2>5 DEF CheckEntry
    <3>2. CASE mapping[m] # Invalid /\ InSeg(mapping[m], scan.seg)
      <4>1. scan'.seg = NoSeg
        BY <2>5, <3>2 DEF CheckEntry, IInv, TypeOK, ScanState
      <4> QED BY <1>1, <2>0, <3>1, <4>1 DEF Condemned, DeadStaysDead
    <3>3. CASE ~(mapping[m] # Invalid /\ InSeg(mapping[m], scan.seg))
      <4>1. scan'.seg = scan.seg /\ scan'.left = scan.left \ {m}
        BY <2>5, <3>3 DEF CheckEntry, IInv, TypeOK, ScanState
      <4> QED BY <1>1, <2>0, <3>1, <3>3, <4>1 DEF Condemned, DeadStaysDead
    <3> QED BY <3>2, <3>3
  <2>6. CASE Enqueue
    <3>1. /\ super' = super /\ scan'.seg = NoSeg /\ scan.left = {} /\ scan.seg # NoSeg
          /\ dead' = IF (scan.seg + 1) * SegBlocks <= super.boundary
                     THEN dead \cup {scan.seg} ELSE dead
      BY <2>6 DEF Enqueue, IInv, TypeOK, ScanState
    <3> QED BY <1>1, <2>0, <3>1 DEF Condemned, DeadStaysDead
  <2>7. CASE ScanEnd
    <3>1. dead' = dead /\ scan' = NoScan
      BY <2>7 DEF ScanEnd
    <3>2. super.boundary <= super'.boundary /\ super'.boundary \in Nat
      BY <2>7 DEF ScanEnd, IInv, TypeOK, SuperState, ScanState, Pblk
    <3>3. \A s \in dead : (s + 1) * SegBlocks <= super'.boundary
      <4> TAKE s \in dead
      <4> DEFINE e == (s + 1) * SegBlocks
      <4>1. e \in Nat
        BY <1>1
      <4>2. e <= super.boundary
        BY <1>1 DEF Condemned
      <4> HIDE DEF e
      <4>3. e <= super'.boundary
        BY <1>1, <3>2, <4>1, <4>2
      <4> QED BY <4>3 DEF e
    <3> QED BY <1>1, <2>0, <3>1, <3>3 DEF Condemned, DeadStaysDead, NoScan
  <2> QED BY <1>4, <2>2, <2>3, <2>4, <2>5, <2>6, <2>7 DEF Scan
<1>5. CASE ScanKept /\ ~Scan
  <2>1. \/ Stays
        \/ \E p \in Proc, l \in Lblk : Takes(p, l) \/ Draws(p, l) \/ Maps(p, l)
        \/ \E p \in Proc, S \in SUBSET Lblk : Drops(p, S)
    BY <1>5, Effects
  <2>2. dead' = dead
    BY <1>5 DEF ScanKept
  <2>3. CASE Stays
    BY <1>2, <1>5, <2>2, <2>3 DEF Stays
  <2>4. ASSUME NEW p \in Proc, NEW l \in Lblk, Takes(p, l) PROVE Condemned'
    BY <1>2, <1>5, <2>2, <2>4 DEF Takes
  <2>5. ASSUME NEW p \in Proc, NEW l \in Lblk, Draws(p, l) PROVE Condemned'
    <3>1. super'.boundary = super.boundary /\ mapping' = mapping
      BY <2>5 DEF Draws, IInv, TypeOK, SuperState
    <3> QED BY <1>2, <1>5, <2>2, <3>1
  <2>6. ASSUME NEW p \in Proc, NEW S \in SUBSET Lblk, Drops(p, S) PROVE Condemned'
    BY <1>2, <1>5, <2>2, <2>6 DEF Drops
  <2> QED BY <1>3, <1>5, <2>1, <2>3, <2>4, <2>5, <2>6
<1> QED BY <1>4, <1>5, Effects

-----------------------------------------------------------------------------
(* A step of one process leaves the others' claims and steps alone.        *)

\* A step of p, seen by the others.
Others(p) ==
    /\ \A q \in Proc \ {p} : proc'[q] = proc[q] /\ own'[q] = own[q]
    /\ \A l \in Lblk : \/ mapping'[l] = mapping[l]
                       \/ own[p][l] \in Pblk /\ mapping'[l] \in Pblk

\* What p owns at its step,
ShapeOf(p) ==
    /\ proc[p].pc \in Choosing => own[p][proc[p].lblk] = Invalid
    /\ proc[p].pc \in Chosen => own[p][proc[p].lblk] = proc[p].new /\ proc[p].new \in Pblk
    /\ proc[p].pc = "mapped" => mapping[proc[p].lblk] = proc[p].new
    /\ proc[p].pc \in Writing => mapping[proc[p].lblk] \in Pblk
    /\ proc[p].pc = "aimed" => proc[p].old = mapping[proc[p].lblk]

\* and the steps it may be at.
ShapeAt(p) ==
    IF p = Compactor
    THEN /\ proc[p].pc \in {"idle", "picked", "held", "picked2", "read", "copied", "mapped"}
         /\ proc[p].pc # "idle" => proc[p].old \in Pblk
    ELSE proc[p].pc \in Inserting \cup Writing \cup {"idle"}

\* Shape, process by process.
LEMMA ShapeSplit == Shape <=> \A p \in Proc : ShapeAt(p) /\ ShapeOf(p)
BY ConstantFacts DEF Shape, ShapeAt, ShapeOf, Proc

\* A process keeps its shape across a step of another one: an entry it owns
\* is not changed by anybody else.
LEMMA ShapeOthers ==
    ASSUME IInv, NEW p \in Proc, Others(p), NEW q \in Proc, q # p
    PROVE  (ShapeAt(q) /\ ShapeOf(q))'
<1>1. ShapeAt(q) /\ ShapeOf(q) /\ OneOwnerPerEntry
    BY ShapeSplit DEF IInv
<1>2. proc'[q] = proc[q] /\ own'[q] = own[q]
    BY DEF Others
<1>3. proc[q].lblk \in Lblk
    BY DEF IInv, TypeOK, ProcState
<1>4. own[q][proc[q].lblk] # NoClaim => mapping'[proc[q].lblk] = mapping[proc[q].lblk]
    BY <1>1, <1>3 DEF Others, OneOwnerPerEntry, Pblk, NoClaim
<1>5. proc[q].pc \in Choosing \cup Chosen => own[q][proc[q].lblk] # NoClaim
    BY <1>1 DEF ShapeOf, Invalid, NoClaim, Pblk
<1>6. ShapeAt(q)'
    BY <1>1, <1>2 DEF ShapeAt
<1>7. CASE proc[q].pc \in Choosing \cup Chosen
    BY <1>1, <1>2, <1>4, <1>5, <1>6, <1>7 DEF ShapeOf
<1>8. CASE proc[q].pc \notin Choosing \cup Chosen
  <2>1. mapping[proc[q].lblk] \in Pblk => mapping'[proc[q].lblk] \in Pblk
    BY <1>3 DEF Others
  <2> QED BY <1>1, <1>2, <1>6, <1>8, <2>1 DEF ShapeOf, Choosing, Chosen
<1> QED BY <1>7, <1>8

\* A release touches the claims of its process only.
LEMMA ReleaseLocal ==
    ASSUME TypeOK, NEW p \in Proc, NEW l \in Lblk, Release(p, l)
    PROVE  \A q \in Proc \ {p} : own'[q] = own[q]
BY DEF Release, TypeOK

\* An idle process has its shape.
LEMMA ShapeIdle ==
    ASSUME NEW p \in Proc, proc'[p].pc = "idle"
    PROVE  (ShapeAt(p) /\ ShapeOf(p))'
BY DEF ShapeAt, ShapeOf, Choosing, Chosen, Writing

\* The end of an operation leaves its process idle and the others alone.
LEMMA FinishIdle ==
    ASSUME TypeOK, NEW p \in Proc, Finish(p)
    PROVE  proc'[p].pc = "idle" /\ \A q \in Proc \ {p} : proc'[q] = proc[q]
BY DEF Finish, Idle, TypeOK

\* A change of step changes nothing else.
LEMMA GotoOnly ==
    ASSUME TypeOK, NEW p \in Proc, NEW s, Goto(p, s)
    PROVE  /\ \A q \in Proc \ {p} : proc'[q] = proc[q]
           /\ proc'[p].pc = s /\ proc'[p].lblk = proc[p].lblk /\ proc'[p].old = proc[p].old
           /\ proc'[p].new = proc[p].new /\ proc'[p].copy = proc[p].copy
BY DEF Goto, TypeOK, ProcState

\* An update of a local claim touches the claims of its process only.
LEMMA OwnLocal ==
    ASSUME TypeOK, NEW p \in Proc, NEW l \in Lblk, NEW v, own' = [own EXCEPT ![p][l] = v]
    PROVE  /\ own'[p][l] = v
           /\ \A q \in Proc \ {p} : own'[q] = own[q]
BY DEF TypeOK

\* XLogInsert and smgrextend keep the shape of their backend.
LEMMA ShapeForeground ==
    ASSUME IInv, NEW p \in Backends, Foreground(p)
    PROVE  Others(p) /\ (ShapeAt(p) /\ ShapeOf(p))'
<1>0. /\ TypeOK /\ p \in Proc /\ p # Compactor /\ ShapeAt(p) /\ ShapeOf(p)
      /\ proc[p] \in ProcState /\ proc[p].lblk \in Lblk /\ proc[p].pc # "picked"
    BY ShapeSplit, ConstantFacts DEF IInv, Proc, TypeOK, ProcState, ShapeAt, Inserting, Writing
<1>1. ASSUME NEW l \in Lblk, Lookup(p, l) PROVE Others(p) /\ (ShapeAt(p) /\ ShapeOf(p))'
  <2>1. proc'[p].pc = "looked" /\ \A q \in Proc \ {p} : proc'[q] = proc[q]
    BY <1>0, <1>1 DEF Lookup, Idle, TypeOK
  <2> QED BY <1>0, <1>1, <2>1 DEF Lookup, Others, ShapeAt, ShapeOf, Choosing, Chosen,
             Inserting, Writing
<1>2. CASE ReuseOwned(p)
  <2>1. /\ \A q \in Proc \ {p} : proc'[q] = proc[q]
        /\ proc'[p].pc = "reserved" /\ proc'[p].lblk = proc[p].lblk
        /\ proc'[p].new = own[p][proc[p].lblk]
    BY <1>0, <1>2 DEF ReuseOwned, TypeOK, ProcState
  <2> QED BY <1>0, <1>2, <2>1 DEF ReuseOwned, Others, ShapeAt, ShapeOf, Choosing, Chosen,
             Inserting, Writing
<1>3. CASE Claim(p)
  <2>1. /\ \A q \in Proc \ {p} : proc'[q] = proc[q]
        /\ proc'[p].pc = "claimed" /\ proc'[p].lblk = proc[p].lblk
    BY <1>0, <1>3, GotoOnly DEF Claim
  <2>2. own'[p][proc[p].lblk] = Invalid /\ \A q \in Proc \ {p} : own'[q] = own[q]
    BY <1>0, <1>3, OwnLocal DEF Claim, TryClaim
  <2>3. mapping' = mapping
    BY <1>3 DEF Claim
  <2> QED BY <1>0, <2>1, <2>2, <2>3 DEF Others, ShapeAt, ShapeOf, Choosing, Chosen, Inserting,
             Writing
<1>4. CASE Contended(p)
  <2>1. /\ \A q \in Proc \ {p} : proc'[q] = proc[q]
        /\ proc'[p].pc = "contended" /\ proc'[p].lblk = proc[p].lblk
        /\ proc'[p].old = proc[p].old /\ proc'[p].new = proc[p].new
    BY <1>0, <1>4, GotoOnly DEF Contended
  <2> QED BY <1>0, <1>4, <2>1 DEF Contended, Others, ShapeAt, ShapeOf, Choosing, Chosen,
             Inserting, Writing
<1>5. CASE FirstCheck(p)
  <2>1. /\ \A q \in Proc \ {p} : proc'[q] = proc[q]
        /\ proc'[p].pc \in {"waiting", "unreserved"}
    BY <1>0, <1>5, GotoOnly DEF FirstCheck
  <2> QED BY <1>0, <1>5, <2>1 DEF FirstCheck, Others, ShapeAt, ShapeOf, Choosing, Chosen,
             Inserting, Writing
<1>6. CASE Retry(p)
  <2>1. proc'[p].pc = "looked" /\ \A q \in Proc \ {p} : proc'[q] = proc[q]
    BY <1>0, <1>6 DEF Retry, TypeOK, ProcState
  <2> QED BY <1>0, <1>6, <2>1 DEF Retry, Others, ShapeAt, ShapeOf, Choosing, Chosen,
             Inserting, Writing
<1>7. CASE GiveUp(p)
  <2>1. proc'[p].pc = "idle" /\ \A q \in Proc \ {p} : proc'[q] = proc[q]
    BY <1>0, <1>7, FinishIdle DEF GiveUp
  <2>2. mapping' = mapping /\ \A q \in Proc \ {p} : own'[q] = own[q]
    BY <1>0, <1>7 DEF GiveUp
  <2> QED BY <1>0, <2>1, <2>2, ShapeIdle DEF Others
<1>8. CASE Reserve(p)
  <2>1. /\ \A q \in Proc \ {p} : proc'[q] = proc[q]
        /\ proc'[p].pc = "reserved" /\ proc'[p].lblk = proc[p].lblk
        /\ proc'[p].new = super.reserved
    BY <1>0, <1>8 DEF Reserve, TypeOK, ProcState
  <2>2. /\ own'[p][proc[p].lblk] = super.reserved /\ super.reserved \in Pblk
        /\ \A q \in Proc \ {p} : own'[q] = own[q]
    BY <1>0, <1>8, OwnLocal DEF Reserve, ReserveNext, TypeOK, SuperState
  <2>3. mapping' = mapping
    BY <1>8 DEF Reserve
  <2> QED BY <1>0, <2>1, <2>2, <2>3 DEF Others, ShapeAt, ShapeOf, Choosing, Chosen, Inserting,
             Writing
<1>9. CASE ReserveLimit(p)
  <2>1. proc'[p].pc = "idle" /\ \A q \in Proc \ {p} : proc'[q] = proc[q]
    BY <1>0, <1>9, FinishIdle DEF ReserveLimit
  <2>2. mapping' = mapping /\ \A q \in Proc \ {p} : own'[q] = own[q]
    BY <1>0, <1>9, ReleaseLocal DEF ReserveLimit
  <2> QED BY <1>0, <2>1, <2>2, ShapeIdle DEF Others
<1>10. CASE KeepBirth(p)
  <2>1. proc'[p].pc = "idle" /\ \A q \in Proc \ {p} : proc'[q] = proc[q]
    BY <1>0, <1>10, FinishIdle DEF KeepBirth
  <2>2. mapping' = mapping /\ \A q \in Proc \ {p} : own'[q] = own[q]
    BY <1>0, <1>10 DEF KeepBirth
  <2> QED BY <1>0, <2>1, <2>2, ShapeIdle DEF Others
<1>11. CASE Abort(p)
  <2>1. proc'[p].pc = "idle" /\ \A q \in Proc \ {p} : proc'[q] = proc[q]
    BY <1>0, <1>11, FinishIdle DEF Abort
  <2>2. mapping' = mapping /\ \A q \in Proc \ {p} : own'[q] = own[q]
    BY <1>0, <1>11, ReleaseLocal DEF Abort
  <2> QED BY <1>0, <2>1, <2>2, ShapeIdle DEF Others
<1>12. CASE Insert(p)
  <2>1. /\ \A q \in Proc \ {p} : proc'[q] = proc[q]
        /\ proc'[p].pc = "logged" /\ proc'[p].lblk = proc[p].lblk
        /\ proc'[p].old = proc[p].old /\ proc'[p].new = proc[p].new
    BY <1>0, <1>12, GotoOnly DEF Insert
  <2> QED BY <1>0, <1>12, <2>1 DEF Insert, Others, ShapeAt, ShapeOf, Choosing, Chosen,
             Inserting, Writing
<1>13. CASE SetMapping(p)
  <2>1. /\ \A q \in Proc \ {p} : proc'[q] = proc[q]
        /\ proc'[p].pc = "mapped" /\ proc'[p].lblk = proc[p].lblk
        /\ proc'[p].new = proc[p].new
    BY <1>0, <1>13, GotoOnly DEF SetMapping
  <2>2. own' = own /\ own[p][proc[p].lblk] = proc[p].new /\ proc[p].new \in Pblk
    BY <1>0, <1>13 DEF SetMapping, ShapeOf, Chosen
  <2>3. \A l \in Lblk : mapping'[l] = IF l = proc[p].lblk THEN proc[p].new ELSE mapping[l]
    BY <1>0, <1>13 DEF SetMapping, TypeOK
  <2> QED BY <1>0, <2>1, <2>2, <2>3 DEF Others, ShapeAt, ShapeOf, Choosing, Chosen, Inserting,
             Writing
<1>14. CASE Publish(p)
  <2>1. proc'[p].pc = "idle" /\ \A q \in Proc \ {p} : proc'[q] = proc[q]
    BY <1>0, <1>14, FinishIdle DEF Publish
  <2>2. mapping' = mapping /\ \A q \in Proc \ {p} : own'[q] = own[q]
    BY <1>0, <1>14, ReleaseLocal DEF Publish
  <2> QED BY <1>0, <2>1, <2>2, ShapeIdle DEF Others
<1>15. CASE Exit(p)
    BY <1>0, <1>15 DEF Exit, TypeOK, Others, ShapeAt, ShapeOf, Choosing, Chosen, Inserting,
       Writing
<1> QED BY <1>1, <1>2, <1>3, <1>4, <1>5, <1>6, <1>7, <1>8, <1>9, <1>10, <1>11, <1>12,
           <1>13, <1>14, <1>15 DEF Foreground

\* umwritev keeps the shape of its backend.
LEMMA ShapeWriter ==
    ASSUME IInv, NEW p \in Backends, Writer(p)
    PROVE  Others(p) /\ (ShapeAt(p) /\ ShapeOf(p))'
<1>0. /\ TypeOK /\ p \in Proc /\ p # Compactor /\ ShapeAt(p) /\ ShapeOf(p)
      /\ proc[p] \in ProcState /\ proc[p].lblk \in Lblk
    BY ShapeSplit, ConstantFacts DEF IInv, Proc, TypeOK, ProcState
<1>1. ASSUME NEW l \in Lblk, StartWrite(p, l) PROVE Others(p) /\ (ShapeAt(p) /\ ShapeOf(p))'
  <2>1. /\ proc'[p].pc = "barring" /\ proc'[p].lblk = l
        /\ \A q \in Proc \ {p} : proc'[q] = proc[q]
    BY <1>0, <1>1 DEF StartWrite, Idle, TypeOK
  <2>2. mapping[l] \in Pblk
    BY <1>0, <1>1 DEF StartWrite, TypeOK, MaybePblk
  <2> QED BY <1>0, <1>1, <2>1, <2>2 DEF StartWrite, Others, ShapeAt, ShapeOf, Choosing,
             Chosen, Inserting, Writing
<1>2. CASE ClaimBarrier(p)
  <2>1. /\ \A q \in Proc \ {p} : proc'[q] = proc[q]
        /\ proc'[p].pc = "barred" /\ proc'[p].lblk = proc[p].lblk
    BY <1>0, <1>2, GotoOnly DEF ClaimBarrier
  <2>2. own'[p][proc[p].lblk] = Invalid /\ \A q \in Proc \ {p} : own'[q] = own[q]
    BY <1>0, <1>2, OwnLocal DEF ClaimBarrier, TryClaim
  <2>3. mapping' = mapping /\ proc[p].pc = "barring"
    BY <1>2 DEF ClaimBarrier
  <2> QED BY <1>0, <2>1, <2>2, <2>3 DEF Others, ShapeAt, ShapeOf, Choosing, Chosen, Inserting,
             Writing
<1>3. CASE BarrierTimeout(p)
  <2>1. proc'[p].pc = "idle" /\ \A q \in Proc \ {p} : proc'[q] = proc[q]
    BY <1>0, <1>3, FinishIdle DEF BarrierTimeout
  <2>2. mapping' = mapping /\ \A q \in Proc \ {p} : own'[q] = own[q]
    BY <1>0, <1>3 DEF BarrierTimeout
  <2> QED BY <1>0, <2>1, <2>2, ShapeIdle DEF Others
<1>4. CASE Aim(p)
  <2>1. /\ \A q \in Proc \ {p} : proc'[q] = proc[q]
        /\ proc'[p].pc = "aimed" /\ proc'[p].lblk = proc[p].lblk
        /\ proc'[p].old = mapping[proc[p].lblk]
    BY <1>0, <1>4 DEF Aim, TypeOK, ProcState
  <2> QED BY <1>0, <1>4, <2>1 DEF Aim, Others, ShapeAt, ShapeOf, Choosing, Chosen, Inserting,
             Writing
<1>5. CASE Write(p)
  <2>1. proc'[p].pc = "idle" /\ \A q \in Proc \ {p} : proc'[q] = proc[q]
    BY <1>0, <1>5, FinishIdle DEF Write
  <2>2. mapping' = mapping /\ \A q \in Proc \ {p} : own'[q] = own[q]
    BY <1>0, <1>5, ReleaseLocal DEF Write
  <2> QED BY <1>0, <2>1, <2>2, ShapeIdle DEF Others
<1> QED BY <1>1, <1>2, <1>3, <1>4, <1>5 DEF Writer

\* MapCompactorRelocateEntry keeps the shape of the compactor.
LEMMA ShapeRelocation ==
    ASSUME IInv, NEW p, p = Compactor, Relocation
    PROVE  Others(p) /\ (ShapeAt(p) /\ ShapeOf(p))'
<1>0. /\ TypeOK /\ p \in Proc /\ ShapeAt(p) /\ ShapeOf(p)
      /\ proc[p] \in ProcState /\ proc[p].lblk \in Lblk
    BY ShapeSplit DEF IInv, Proc, TypeOK, ProcState
<1>1. ASSUME NEW l \in Lblk, Pick(l) PROVE Others(p) /\ (ShapeAt(p) /\ ShapeOf(p))'
  <2>1. /\ proc'[p].pc = "picked" /\ proc'[p].old = mapping[l]
        /\ \A q \in Proc \ {p} : proc'[q] = proc[q]
    BY <1>0, <1>1 DEF Pick, Idle, TypeOK
  <2>2. mapping[l] \in Pblk
    BY <1>0, <1>1 DEF Pick, TypeOK, MaybePblk
  <2> QED BY <1>0, <1>1, <2>1, <2>2 DEF Pick, Others, ShapeAt, ShapeOf, Choosing, Chosen,
             Inserting, Writing
<1>2. CASE PickClaim
  <2>1. CASE TryClaim(p, proc[p].lblk) /\ Goto(p, "held")
    <3>1. /\ \A q \in Proc \ {p} : proc'[q] = proc[q]
          /\ proc'[p].pc = "held" /\ proc'[p].lblk = proc[p].lblk /\ proc'[p].old = proc[p].old
      BY <1>0, <2>1, GotoOnly
    <3>2. own'[p][proc[p].lblk] = Invalid /\ \A q \in Proc \ {p} : own'[q] = own[q]
      <4>1. own' = [own EXCEPT ![p][proc[p].lblk] = Invalid]
        BY <2>1 DEF TryClaim
      <4>2. TypeOK /\ p \in Proc /\ proc[p].lblk \in Lblk
        BY <1>0
      <4> QED BY ONLY <4>1, <4>2, OwnLocal
    <3>3. mapping' = mapping /\ proc[p].pc = "picked"
      BY <1>2 DEF PickClaim
    <3> QED BY <1>0, <3>1, <3>2, <3>3 DEF Others, ShapeAt, ShapeOf, Choosing, Chosen,
               Inserting, Writing
  <2>2. CASE Finish(p) /\ UNCHANGED <<pending, own>>
    <3>1. proc'[p].pc = "idle" /\ \A q \in Proc \ {p} : proc'[q] = proc[q]
      BY <1>0, <2>2, FinishIdle
    <3>2. mapping' = mapping
      BY <1>2 DEF PickClaim
    <3> QED BY <1>0, <2>2, <3>1, <3>2, ShapeIdle DEF Others
  <2> QED BY <1>2, <2>1, <2>2 DEF PickClaim
<1>3. CASE PickReserve
  <2>1. /\ \A q \in Proc \ {p} : proc'[q] = proc[q]
        /\ proc'[p].pc = "picked2" /\ proc'[p].lblk = proc[p].lblk
        /\ proc'[p].new = super.reserved /\ proc'[p].old = proc[p].old
    BY <1>0, <1>3 DEF PickReserve, TypeOK, ProcState
  <2>2. /\ own'[p][proc[p].lblk] = super.reserved /\ super.reserved \in Pblk
        /\ \A q \in Proc \ {p} : own'[q] = own[q]
    BY <1>0, <1>3, OwnLocal DEF PickReserve, ReserveNext, TypeOK, SuperState
  <2>3. mapping' = mapping /\ proc[p].pc = "held"
    BY <1>3 DEF PickReserve
  <2> QED BY <1>0, <2>1, <2>2, <2>3 DEF Others, ShapeAt, ShapeOf, Choosing, Chosen, Inserting,
             Writing
<1>4. CASE PickGiveUp
  <2>1. proc'[p].pc = "idle" /\ \A q \in Proc \ {p} : proc'[q] = proc[q]
    BY <1>0, <1>4, FinishIdle DEF PickGiveUp
  <2>2. mapping' = mapping /\ \A q \in Proc \ {p} : own'[q] = own[q]
    BY <1>0, <1>4, ReleaseLocal DEF PickGiveUp
  <2> QED BY <1>0, <2>1, <2>2, ShapeIdle DEF Others
<1>5. CASE CopyRead
  <2>1. /\ \A q \in Proc \ {p} : proc'[q] = proc[q]
        /\ proc'[p].pc = "read" /\ proc'[p].lblk = proc[p].lblk
        /\ proc'[p].new = proc[p].new /\ proc'[p].old = proc[p].old
    BY <1>0, <1>5 DEF CopyRead, TypeOK, ProcState
  <2> QED BY <1>0, <1>5, <2>1 DEF CopyRead, Others, ShapeAt, ShapeOf, Choosing, Chosen,
             Inserting, Writing
<1>6. CASE CopyWrite
  <2>1. /\ \A q \in Proc \ {p} : proc'[q] = proc[q]
        /\ proc'[p].pc = "copied" /\ proc'[p].lblk = proc[p].lblk
        /\ proc'[p].old = proc[p].old /\ proc'[p].new = proc[p].new
    BY <1>0, <1>6, GotoOnly DEF CopyWrite
  <2> QED BY <1>0, <1>6, <2>1 DEF CopyWrite, Others, ShapeAt, ShapeOf, Choosing, Chosen,
             Inserting, Writing
<1>7. CASE Relocate
  <2>1. /\ \A q \in Proc \ {p} : proc'[q] = proc[q]
        /\ proc'[p].pc = "mapped" /\ proc'[p].lblk = proc[p].lblk
        /\ proc'[p].new = proc[p].new /\ proc'[p].old = proc[p].old
    BY <1>0, <1>7, GotoOnly DEF Relocate
  <2>2. own' = own /\ own[p][proc[p].lblk] = proc[p].new /\ proc[p].new \in Pblk
    BY <1>0, <1>7 DEF Relocate, ShapeOf, Chosen
  <2>3. \A l \in Lblk : mapping'[l] = IF l = proc[p].lblk THEN proc[p].new ELSE mapping[l]
    BY <1>0, <1>7 DEF Relocate, TypeOK
  <2>4. proc[p].pc = "copied"
    BY <1>7 DEF Relocate
  <2> QED BY <1>0, <2>1, <2>2, <2>3, <2>4 DEF Others, ShapeAt, ShapeOf, Choosing, Chosen,
             Inserting, Writing
<1>8. CASE Publish(p)
  <2>1. proc'[p].pc = "idle" /\ \A q \in Proc \ {p} : proc'[q] = proc[q]
    BY <1>0, <1>8, FinishIdle DEF Publish
  <2>2. mapping' = mapping /\ \A q \in Proc \ {p} : own'[q] = own[q]
    BY <1>0, <1>8, ReleaseLocal DEF Publish
  <2> QED BY <1>0, <2>1, <2>2, ShapeIdle DEF Others
<1> QED BY <1>1, <1>2, <1>3, <1>4, <1>5, <1>6, <1>7, <1>8 DEF Relocation

\* Every step keeps every process in shape.
LEMMA ShapeStep == ASSUME IInv, Next PROVE Shape'
<1>1. ASSUME NEW p \in Proc, Others(p) /\ (ShapeAt(p) /\ ShapeOf(p))' PROVE Shape'
  <2>1. \A q \in Proc : (ShapeAt(q) /\ ShapeOf(q))'
    BY <1>1, ShapeOthers
  <2> QED BY <2>1, ConstantFacts DEF Shape, ShapeAt, ShapeOf, Proc
<1>2. CASE Scan
    BY <1>2, ScanFrame DEF IInv, Shape
<1> QED BY <1>1, <1>2, ShapeForeground, ShapeWriter, ShapeRelocation DEF Next, Proc
=============================================================================
