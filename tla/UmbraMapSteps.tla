---------------------------- MODULE UmbraMapSteps ----------------------------
(***************************************************************************)
(* The invariant behind UmbraMapProofs, and the backend's steps preserve   *)
(* it: XLogInsert from the assembly of a record to its publication, and    *)
(* whatever leaves the MAP and the allocator alone.                        *)
(*                                                                         *)
(* The argument follows the origin of a MAP entry.  In memory and in the   *)
(* file, an entry is the new block of some logged remap of its page, or    *)
(* the page's first block; AsOf says which records that remap may not      *)
(* miss, and which it may be.  The allocator's frontier is ahead of every  *)
(* record that has been applied, so that a crash which loses reservations  *)
(* loses none that anybody refers to.                                      *)
(***************************************************************************)
EXTENDS UmbraRemapProofs

-----------------------------------------------------------------------------
(* The history of one MAP entry in a WAL w.                                *)

\* Record i of w remaps page p.
Remaps(w, i, p) == w[i].page = p /\ w[i].remap

\* No record of w from a to b remaps p.
NoRemap(w, p, a, b) == \A k \in a .. b : ~Remaps(w, k, p)

\* v is an entry of p that is not older than record lo and was published by a
\* record up to hi, or is the first one.
AsOf(w, p, v, lo, hi) ==
    \/ \E j \in 1 .. hi : Remaps(w, j, p) /\ v = w[j].new /\ NoRemap(w, p, j + 1, lo)
    \/ v = p /\ NoRemap(w, p, 1, lo)

\* Two records, pending or logged, say the same of the MAP.
SameMap(r, s) == /\ r.remap = s.remap
                 /\ r.old = s.old /\ r.new = s.new /\ r.nextFree = s.nextFree

\* Two logs say the same of the MAP up to record n.
SameLog(w, x, n) == \A k \in 1 .. n : w[k].page = x[k].page /\ SameMap(w[k], x[k])

\* An entry stays what it was when the log changes past it, when less is
\* asked of it, or when the records it newly accounts for leave p alone.
LEMMA AsOfKept ==
    ASSUME NEW w, NEW x, NEW n \in Nat, SameLog(w, x, n),
           NEW p, NEW v, NEW lo \in Int, NEW hi \in Int, NEW lo2 \in Int, NEW hi2 \in Int,
           AsOf(w, p, v, lo, hi), hi <= n, hi <= hi2, lo <= n \/ lo2 <= n,
           NoRemap(x, p, lo + 1, lo2)
    PROVE  AsOf(x, p, v, lo2, hi2)
<1>1. ASSUME NEW a \in Int, 1 <= a, NoRemap(w, p, a, lo) PROVE NoRemap(x, p, a, lo2)
    BY <1>1 DEF NoRemap, Remaps, SameLog, SameMap
<1>2. ASSUME NEW j \in 1 .. hi, Remaps(w, j, p), v = w[j].new, NoRemap(w, p, j + 1, lo)
      PROVE  AsOf(x, p, v, lo2, hi2)
  <2>1. j \in 1 .. n /\ j \in 1 .. hi2 /\ j + 1 \in Int /\ 1 <= j + 1
    OBVIOUS
  <2>2. Remaps(x, j, p) /\ v = x[j].new
    BY <1>2, <2>1 DEF Remaps, SameLog, SameMap
  <2> QED BY <1>1, <1>2, <2>1, <2>2 DEF AsOf
<1> QED BY <1>1, <1>2 DEF AsOf

\* Less is asked of an entry.
LEMMA AsOfWeaker ==
    ASSUME NEW w, NEW p, NEW v, NEW lo \in Int, NEW hi \in Int, NEW lo2 \in Int, NEW hi2 \in Int,
           AsOf(w, p, v, lo, hi), hi <= hi2, lo2 <= lo
    PROVE  AsOf(w, p, v, lo2, hi2)
<1>1. \A a \in Int : NoRemap(w, p, a, lo) => NoRemap(w, p, a, lo2)
    BY DEF NoRemap
<1>2. \A j \in 1 .. hi : j \in 1 .. hi2 /\ j + 1 \in Int
    OBVIOUS
<1> QED BY <1>1, <1>2 DEF AsOf

\* An entry is published by its last remap.
LEMMA AsOfPublished ==
    ASSUME NEW w, NEW p, NEW i \in Nat \ {0}, Remaps(w, i, p), NEW hi \in Int, i <= hi
    PROVE  AsOf(w, p, w[i].new, i, hi)
<1>1. i \in 1 .. hi /\ NoRemap(w, p, i + 1, i)
    BY DEF NoRemap
<1> QED BY <1>1 DEF AsOf

\* Where an entry comes from.
LEMMA AsOfSource ==
    ASSUME NEW w, NEW p, NEW v, NEW lo, NEW hi, AsOf(w, p, v, lo, hi)
    PROVE  v = p \/ \E j \in 1 .. hi : w[j].remap /\ v = w[j].new
BY DEF AsOf, Remaps

-----------------------------------------------------------------------------
(* The invariant.                                                          *)

\* Phases of a checkpoint that has written the MAP pages, and the frontier.
Dumping == {"super", "capture", "mark", "write", "sync", "record"}
Dumped == Dumping \ {"super"}

\* Redo points are flushed, recovery starts after one, checkpoints advance it.
Marks ==
    /\ ctlRedo <= walFlushed
    /\ mode.phase = "redo" => ctlRedo < mode.cursor /\ mode.cursor <= Len(wal) + 1
    /\ ckpt.phase # "idle" => ctlRedo <= ckpt.redo /\ ckpt.redo <= Len(wal)

\* The frontier on disk is behind the committed one, and that one behind the
\* reservations.
Frontiers ==
    /\ NPages <= super.synced /\ super.synced <= super.cached
    /\ super.cached <= super.nextFree /\ super.nextFree <= super.reserved

\* A backend between InsertRecord and FinishInsert has the last record of its
\* page; one with a remap is waited for by a checkpoint that begins later.
Flight(p) ==
    /\ wal[ins[p].lsn].page = p /\ SameMap(ins[p], wal[ins[p].lsn])
    /\ \A k \in (ins[p].lsn + 1) .. Len(wal) : wal[k].page # p
    /\ ins[p].remap =>
          /\ ctlRedo < ins[p].lsn
          /\ ckpt.phase = "wait" /\ ins[p].lsn <= ckpt.redo => p \in ckpt.waitFor
          /\ ckpt.phase \in Dumping => ckpt.redo < ins[p].lsn
Flights ==
    \A p \in Pages : /\ ins[p].pc = "idle" => ~ins[p].remap
                     /\ ins[p].pc = "inserted" => Flight(p)

\* A frontier comes from a record up to n.
Published(w, f, n) == f <= NPages \/ \E i \in 1 .. n : w[i].remap /\ f <= w[i].nextFree
SuperLogged ==
    /\ Published(wal, super.nextFree, Larger(walFlushed, super.lsn))
    /\ Published(wal, super.cached, walFlushed)
    /\ Published(wal, super.synced, walFlushed)

\* The last record whose remap of p the MAP in memory accounts for.
Applied(p) == IF mode.phase = "redo" THEN mode.cursor - 1
              ELSE IF ins[p].pc = "inserted" /\ ins[p].remap THEN ins[p].lsn - 1
              ELSE Len(wal)

\* A remap goes from an older block to a newer one, below its frontier.
Forward(r) == r.remap => r.old < r.new /\ NPages <= r.new /\ r.new < r.nextFree

\* Every logged remap starts where the one before it ended, in a block of its
\* own.
Records ==
    /\ \A i \in 1 .. Len(wal) : Forward(wal[i])
    /\ \A i, j \in 1 .. Len(wal) :
          wal[i].remap /\ wal[j].remap /\ wal[i].new = wal[j].new => i = j
    /\ \A i \in 1 .. Len(wal) :
          wal[i].remap => AsOf(wal, wal[i].page, wal[i].old, i - 1, i - 1)

\* A reserved block that is not logged yet belongs to one backend.
Fresh(p) ==
    /\ Forward(ins[p]) /\ ins[p].nextFree <= super.reserved /\ ins[p].old = map.pblk[p]
    /\ \A i \in 1 .. Len(wal) : wal[i].remap => wal[i].new # ins[p].new
    /\ \A q \in Pages \ {p} :
          ins[q].pc = "assembled" /\ ins[q].remap => ins[q].new # ins[p].new
Reservations == \A p \in Pages : ins[p].pc = "assembled" /\ ins[p].remap => Fresh(p)

\* Frontiers are ahead of the records applied, dumped, and checkpointed.
Covers(i) ==
    /\ (mode.phase = "redo" /\ mode.cursor <= i) \/ wal[i].nextFree <= super.reserved
    /\ i <= Applied(wal[i].page) => wal[i].nextFree <= super.nextFree
    /\ i <= ctlRedo => wal[i].nextFree <= super.synced
    /\ i <= ckpt.redo /\ ckpt.phase \in Dumped => wal[i].nextFree <= super.cached
    /\ i <= ckpt.redo /\ ckpt.phase = "record" => wal[i].nextFree <= super.synced
Coverage == \A i \in 1 .. Len(wal) : wal[i].remap => Covers(i)

\* Entries in memory and in the MAP file.
Entry(p) ==
    /\ AsOf(wal, p, map.pblk[p], Applied(p), Larger(walFlushed, map.lsn))
    /\ AsOf(wal, p, mapFile.cached[p], ctlRedo, walFlushed)
    /\ AsOf(wal, p, mapFile.synced[p], ctlRedo, walFlushed)
    /\ ckpt.phase \in Dumping => AsOf(wal, p, mapFile.cached[p], ckpt.redo, walFlushed)
    /\ ckpt.phase = "record" => AsOf(wal, p, mapFile.synced[p], ckpt.redo, walFlushed)
Entries == \A p \in Pages : Entry(p)

MapInv == Records /\ Reservations /\ Coverage /\ Entries

\* The invariant: entries are traced as long as no MAP page_lsn went back.
Inv == LsnInv /\ Marks /\ Frontiers /\ Flights /\ SuperLogged /\ (~map.regressed => MapInv)

\* Positions and block numbers are numbers in their ranges.
LEMMA Numbers ==
    ASSUME Inv
    PROVE  /\ TypeOK /\ Positions /\ RemapsNamed /\ WalBeforeData
           /\ Len(wal) \in Nat /\ walFlushed \in Nat /\ ctlRedo \in Nat /\ ckpt.redo \in Nat
           /\ mode.cursor \in Nat /\ map.lsn \in Nat /\ super.lsn \in Nat
           /\ walFlushed <= Len(wal) /\ map.lsn <= Len(wal) /\ super.lsn <= Len(wal)
           /\ Larger(walFlushed, map.lsn) \in walFlushed .. Len(wal)
           /\ Larger(walFlushed, super.lsn) \in walFlushed .. Len(wal)
           /\ super.nextFree \in Nat /\ super.reserved \in Nat
           /\ super.cached \in Nat /\ super.synced \in Nat
           /\ NPages \in Nat
<1>1. TypeOK /\ Positions /\ RemapsNamed /\ WalBeforeData /\ LsnsBehind
    BY DEF Inv, LsnInv, TypeInv
<1>2. Len(wal) \in Nat /\ walFlushed \in Nat /\ ctlRedo \in Nat
    BY <1>1, LenNat DEF TypeOK
<1>3. ckpt.redo \in Nat /\ mode.cursor \in Nat /\ map.lsn \in Nat /\ super.lsn \in Nat
    BY <1>1 DEF TypeOK, CkptType, ModeType, MapType, SuperType
<1>4. walFlushed <= Len(wal) /\ map.lsn <= Len(wal) /\ super.lsn <= Len(wal)
    BY <1>1 DEF WalBeforeData, LsnsBehind
<1>5. /\ super.nextFree \in Nat /\ super.reserved \in Nat
      /\ super.cached \in Nat /\ super.synced \in Nat /\ NPages \in Nat
    BY <1>1, ConstantFacts DEF TypeOK, SuperType, Frontier
<1>6. /\ Larger(walFlushed, map.lsn) \in walFlushed .. Len(wal)
      /\ Larger(walFlushed, super.lsn) \in walFlushed .. Len(wal)
    BY <1>2, <1>3, <1>4 DEF Larger
<1> QED BY <1>1, <1>2, <1>3, <1>4, <1>5, <1>6

\* What a logged or pending record says of the MAP are numbers.
LEMMA RecordNumbers ==
    ASSUME TypeOK
    PROVE  /\ \A i \in 1 .. Len(wal) : /\ wal[i].old \in Int /\ wal[i].new \in Int
                                       /\ wal[i].nextFree \in Int
                                       /\ wal[i].page \in Pages /\ wal[i].remap \in BOOLEAN
           /\ \A p \in Pages : /\ ins[p].old \in Int /\ ins[p].new \in Int
                               /\ ins[p].nextFree \in Int
                               /\ ins[p].lsn \in Nat /\ ins[p].remap \in BOOLEAN
<1>1. MaybeBlock \subseteq Int /\ Frontier \subseteq Int
    BY ConstantFacts DEF MaybeBlock, PBlock, Invalid, Frontier
<1>2. \A i \in 1 .. Len(wal) : wal[i] \in RecordType
    BY LenNat
<1>3. \A p \in Pages : ins[p] \in InsertType
    BY DEF TypeOK
<1> QED BY <1>1, <1>2, <1>3, ZenonT(60) DEF RecordType, InsertType

\* The MAP in memory accounts for the WAL up to some record of it.
LEMMA AppliedRange ==
    ASSUME Inv, NEW p \in Pages
    PROVE  Applied(p) \in 0 .. Len(wal)
<1>1. ins[p].pc = "inserted" => ins[p].lsn \in 1 .. Len(wal)
    BY Numbers DEF Positions
<1>2. mode.phase = "redo" => mode.cursor \in 1 .. (Len(wal) + 1)
    BY Numbers DEF Positions, Inv, Marks
<1>3. Len(wal) \in Nat
    BY Numbers
<1>4. CASE mode.phase = "redo"
    BY <1>2, <1>3, <1>4 DEF Applied
<1>5. CASE mode.phase # "redo" /\ ins[p].pc = "inserted" /\ ins[p].remap
    BY <1>1, <1>3, <1>5 DEF Applied
<1>6. CASE mode.phase # "redo" /\ ~(ins[p].pc = "inserted" /\ ins[p].remap)
    BY <1>3, <1>6 DEF Applied
<1> QED BY <1>4, <1>5, <1>6

-----------------------------------------------------------------------------
(* Steps that touch neither the MAP nor the allocator.                     *)

\* A checkpoint begins, collects whom to wait for, goes on writing buffers, or
\* ends early.
CkptOn ==
    \/ ckpt'.phase = "idle"
    \/ ckpt'.phase = "redo" /\ ckpt'.redo = Len(wal)
    \/ /\ ckpt'.phase = "wait" /\ ckpt.phase = "redo" /\ ckpt'.redo = ckpt.redo
       /\ Remapping("inserted") \subseteq ckpt'.waitFor
    \/ /\ ckpt'.redo = ckpt.redo /\ ckpt'.waitFor = ckpt.waitFor
       /\ \/ ckpt'.phase = ckpt.phase
          \/ {ckpt.phase, ckpt'.phase} \subseteq {"capture", "mark", "write", "sync"}

\* The invariant through a step that leaves the WAL, the MAP and the superblock alone.
LEMMA AsideStep ==
    ASSUME Inv, LsnInv', UNCHANGED <<wal, ctlRedo, map, mapFile, super, ins, mode>>, CkptOn,
           walFlushed <= walFlushed'
    PROVE  Inv'
<1>0. walFlushed' \in Nat /\ walFlushed' <= Len(wal)
    BY DEF LsnInv, TypeInv, TypeOK, WalBeforeData
<1>1. Marks'
  <2>1. ctlRedo' <= walFlushed'
    BY <1>0, Numbers DEF Inv, Marks
  <2>2. ctlRedo <= Len(wal) /\ Len(wal) <= Len(wal)
    BY <1>0, Numbers DEF Inv, Marks
  <2> QED BY <2>1, <2>2 DEF Inv, Marks, CkptOn
<1>2. Frontiers'
    BY DEF Inv, Frontiers
<1>3. Flights'
    BY DEF Inv, Flights, Flight, CkptOn, Dumping, Remapping
<1>4. SuperLogged'
    BY <1>0, Numbers, SMTT(40) DEF Inv, SuperLogged, Published, Larger
<1>5. ASSUME ~map.regressed PROVE MapInv'
  <2>1. Records' /\ Reservations'
    BY <1>5 DEF Inv, MapInv, Records, Reservations, Fresh
  <2>2. Coverage'
    BY <1>5 DEF Inv, MapInv, Coverage, Covers, Applied, CkptOn, Dumping, Dumped
  <2>3. ASSUME NEW p \in Pages PROVE Entry(p)'
    <3>1. Applied(p)' = Applied(p) /\ Applied(p) \in Int
      BY AppliedRange DEF Applied
    <3>2. Larger(walFlushed', map.lsn) \in Int
          /\ Larger(walFlushed, map.lsn) <= Larger(walFlushed', map.lsn)
      BY <1>0, Numbers DEF Larger
    <3>3. AsOf(wal, p, map.pblk[p], Applied(p), Larger(walFlushed', map.lsn))
      BY <1>5, <3>1, <3>2, Numbers, AsOfWeaker, SMTT(40) DEF Inv, MapInv, Entries, Entry
    <3>4. ASSUME NEW v, NEW lo \in Nat, AsOf(wal, p, v, lo, walFlushed)
          PROVE  AsOf(wal, p, v, lo, walFlushed')
      BY <1>0, <3>4, Numbers, AsOfWeaker
    <3> QED BY <1>5, <3>1, <3>3, <3>4, Numbers, ZenonT(60)
            DEF Inv, MapInv, Entries, Entry, CkptOn, Dumping
  <2> QED BY <2>1, <2>2, <2>3 DEF MapInv, Entries
<1> QED BY <1>1, <1>2, <1>3, <1>4, <1>5 DEF Inv

-----------------------------------------------------------------------------
(* XLogInsert.                                                             *)

\* Outside redo the reservations are ahead of every entry and every record.
LEMMA BelowReserved ==
    ASSUME Inv, ~map.regressed, mode.phase # "redo"
    PROVE  /\ \A p \in Pages : map.pblk[p] < super.reserved
           /\ \A i \in 1 .. Len(wal) : wal[i].remap => wal[i].new < super.reserved
           /\ NPages <= super.reserved
<1>1. NPages <= super.reserved
    BY Numbers, SMTT(40) DEF Inv, Frontiers
<1>2. ASSUME NEW i \in 1 .. Len(wal), wal[i].remap PROVE wal[i].new < super.reserved
  <2>1. wal[i].new < wal[i].nextFree /\ wal[i].nextFree <= super.reserved
    BY <1>2 DEF Inv, MapInv, Records, Forward, Coverage, Covers
  <2>2. super.reserved \in Int /\ wal[i].new \in Int /\ wal[i].nextFree \in Int
    BY Numbers, RecordNumbers, SMTT(40)
  <2> QED BY <2>1, <2>2
<1>3. ASSUME NEW p \in Pages PROVE map.pblk[p] < super.reserved
  <2>1. map.pblk[p] = p \/ \E j \in 1 .. Larger(walFlushed, map.lsn) :
                              wal[j].remap /\ map.pblk[p] = wal[j].new
    BY AsOfSource DEF Inv, MapInv, Entries, Entry
  <2>2. p \in Int /\ p < NPages
    BY Numbers DEF Pages
  <2>3. 1 .. Larger(walFlushed, map.lsn) \subseteq 1 .. Len(wal)
    BY Numbers
  <2>4. p < super.reserved
    BY <1>1, <2>2, Numbers
  <2> QED BY <1>2, <2>1, <2>3, <2>4, Zenon
<1> QED BY <1>1, <1>2, <1>3

\* What the assembly of a record reserves.
LEMMA AssembleEffect ==
    ASSUME Inv, NEW p \in Pages, NEW kind \in AllKinds, NEW clean \in BOOLEAN,
           Assembled(p, kind, clean)
    PROVE  /\ ins'[p].pc = "assembled" /\ \A q \in Pages \ {p} : ins'[q] = ins[q]
           /\ ~ins'[p].remap => super' = super
           /\ ins'[p].remap => /\ ins'[p].old = map.pblk[p] /\ ins'[p].new = super.reserved
                               /\ ins'[p].nextFree = super.reserved + 1
                               /\ super'.reserved = super.reserved + 1
           /\ super'.nextFree = super.nextFree /\ super'.cached = super.cached
           /\ super'.synced = super.synced /\ super'.lsn = super.lsn
<1> DEFINE remap == NeedsRemap(kind, buf[p].lsn)
           frontier == IF remap THEN Larger(super.nextFree, super.reserved + 1) ELSE 0
<1>1. /\ ins \in [Pages -> InsertType] /\ super \in SuperType
      /\ remap => frontier = super.reserved + 1
    BY Numbers, SMTT(40) DEF TypeOK, Inv, Frontiers, Larger
<1>2. ins' = [ins EXCEPT ![p] =
                 [pc |-> "assembled", kind |-> kind, remap |-> remap,
                  old |-> IF remap THEN map.pblk[p] ELSE Invalid,
                  new |-> IF remap THEN super.reserved ELSE Invalid,
                  nextFree |-> frontier, clean |-> clean, lsn |-> 0]]
    BY Zenon DEF Assembled
<1>3. super' = [super EXCEPT !.reserved = IF remap THEN @ + 1 ELSE @]
    BY DEF Assembled
<1> HIDE DEF remap, frontier
<1>4. /\ ins'[p].pc = "assembled" /\ \A q \in Pages \ {p} : ins'[q] = ins[q]
      /\ ins'[p].remap = remap /\ ins'[p].nextFree = frontier
      /\ ins'[p].old = IF remap THEN map.pblk[p] ELSE Invalid
      /\ ins'[p].new = IF remap THEN super.reserved ELSE Invalid
    BY <1>1, <1>2
<1>5. /\ super'.nextFree = super.nextFree /\ super'.cached = super.cached
      /\ super'.synced = super.synced /\ super'.lsn = super.lsn
      /\ super'.reserved = IF remap THEN super.reserved + 1 ELSE super.reserved
    BY <1>1, <1>3 DEF SuperType
<1>6. ~remap => super' = super
    BY <1>1, <1>3 DEF SuperType
<1> QED BY <1>1, <1>4, <1>5, <1>6

\* BeginInsert and RetryInsert reserve a block that nothing refers to.
LEMMA AssembleStep ==
    ASSUME Inv, LsnInv', NEW p \in Pages, NEW kind \in AllKinds, NEW clean \in BOOLEAN,
           Assembled(p, kind, clean), mode.phase # "redo",
           ins[p].pc = "idle" \/ (ins[p].pc = "assembled" /\ ~ins[p].remap),
           UNCHANGED <<wal, walFlushed, ctlRedo, map, mapFile, ckpt, mode>>
    PROVE  Inv'
<1>1. /\ ins'[p].pc = "assembled" /\ \A q \in Pages \ {p} : ins'[q] = ins[q]
      /\ super'.nextFree = super.nextFree /\ super'.cached = super.cached
      /\ super'.synced = super.synced /\ super'.lsn = super.lsn
    BY AssembleEffect
<1>2. super.reserved \in Nat /\ super'.reserved \in Nat /\ super.reserved <= super'.reserved
  <2>1. super.reserved \in Nat /\ super'.reserved \in {super.reserved, super.reserved + 1}
    BY AssembleEffect, Numbers, ZenonT(60)
  <2> QED BY <2>1
<1>3. Marks'
    BY DEF Inv, Marks
<1>4. Frontiers'
    BY <1>1, <1>2, Numbers, SMTT(40) DEF Inv, Frontiers
<1>5. Flights'
  <2>1. ASSUME NEW q \in Pages, ins'[q].pc # "assembled" PROVE ins'[q] = ins[q]
    BY <1>1, <2>1
  <2> QED BY <2>1 DEF Inv, Flights, Flight
<1>6. SuperLogged'
    BY <1>1 DEF Inv, SuperLogged
<1>7. ASSUME ~map.regressed PROVE MapInv'
  <2>0. Records /\ Reservations /\ Coverage /\ Entries
    BY <1>7, SMTT(40) DEF Inv, MapInv
  <2>1. Records'
    BY <2>0, SMTT(40) DEF Records
  <2>2. \A q \in Pages : Applied(q)' = Applied(q)
    BY <1>1, Zenon DEF Applied
  <2>3. Entries'
    BY <2>0, <2>2 DEF Entries, Entry
  <2>4. Coverage'
    <3> SUFFICES ASSUME NEW i \in 1 .. Len(wal), wal[i].remap PROVE Covers(i)'
      BY DEF Coverage
    <3>1. Covers(i) /\ wal[i].page \in Pages /\ wal[i].nextFree \in Int
      BY <2>0, Numbers, RecordNumbers, SMTT(40) DEF Coverage
    <3>2. wal[i].nextFree <= super.reserved => wal[i].nextFree <= super'.reserved
      BY <1>2, <3>1
    <3> QED BY <1>1, <2>2, <3>1, <3>2, Zenon DEF Covers
  <2>5. ASSUME ins'[p].remap PROVE Fresh(p)'
    <3>1. /\ ins'[p].old = map.pblk[p] /\ ins'[p].new = super.reserved
          /\ ins'[p].nextFree = super.reserved + 1 /\ super'.reserved = super.reserved + 1
      BY <2>5, AssembleEffect
    <3>2. map.pblk[p] < super.reserved /\ NPages <= super.reserved
          /\ \A i \in 1 .. Len(wal) : wal[i].remap => wal[i].new < super.reserved
      BY <1>7, BelowReserved
    <3>3. Forward(ins'[p]) /\ ins'[p].nextFree <= super'.reserved
      BY <1>2, <3>1, <3>2 DEF Forward
    <3>4. \A i \in 1 .. Len(wal) : wal[i].remap => wal[i].new # ins'[p].new
      BY <1>2, <3>1, <3>2
    <3>5. ASSUME NEW q \in Pages \ {p}, ins[q].pc = "assembled", ins[q].remap
          PROVE  ins[q].new # ins'[p].new
      <4>1. ins[q].new < ins[q].nextFree /\ ins[q].nextFree <= super.reserved
        BY <2>0, <3>5 DEF Reservations, Fresh, Forward
      <4>2. ins[q].new \in Int /\ ins[q].nextFree \in Int
        BY Numbers, RecordNumbers
      <4> QED BY <1>2, <3>1, <4>1, <4>2
    <3> QED BY <1>1, <3>1, <3>3, <3>4, <3>5 DEF Fresh
  <2>6. ASSUME NEW q \in Pages \ {p}, ins[q].pc = "assembled", ins[q].remap PROVE Fresh(q)'
    <3>1. Fresh(q) /\ ins'[q] = ins[q]
      BY <1>1, <2>0, <2>6 DEF Reservations
    <3>2. ins[q].nextFree <= super'.reserved
      <4>1. ins[q].nextFree \in Int /\ ins[q].nextFree <= super.reserved
        BY <3>1, Numbers, RecordNumbers, SMTT(40) DEF Fresh
      <4> QED BY <1>2, <4>1, SMTT(40)
    <3>3. ins'[p].remap => ins'[p].new # ins[q].new
      BY <1>1, <2>5, <2>6 DEF Fresh
    <3> QED BY <1>1, <3>1, <3>2, <3>3, Zenon DEF Fresh
  <2>7. Reservations'
    BY <1>1, <2>5, <2>6 DEF Reservations
  <2> QED BY <2>1, <2>3, <2>4, <2>7 DEF MapInv
<1> QED BY <1>3, <1>4, <1>5, <1>6, <1>7 DEF Inv

\* What XLogInsertRecord appends.
LEMMA InsertEffect ==
    ASSUME Inv, NEW p \in Pages, InsertRecord(p)
    PROVE  LET n == Len(wal) IN
           /\ Len(wal') = n + 1 /\ \A k \in 1 .. n : wal'[k] = wal[k]
           /\ wal'[n + 1].page = p /\ SameMap(ins[p], wal'[n + 1])
           /\ ins'[p].pc = "inserted" /\ ins'[p].lsn = n + 1 /\ SameMap(ins[p], ins'[p])
           /\ \A q \in Pages \ {p} : ins'[q] = ins[q]
           /\ mode.phase = "run" /\ ins[p].pc = "assembled"
<1>1. wal \in Seq(RecordType) /\ ins \in [Pages -> InsertType] /\ ins[p] \in InsertType
    BY Numbers DEF TypeOK
<1> DEFINE rec == [page |-> p, kind |-> ins[p].kind, remap |-> ins[p].remap,
                   old |-> ins[p].old, new |-> ins[p].new, nextFree |-> ins[p].nextFree,
                   prev |-> buf[p].lsn, source |-> "pending"]
<1>2. wal' = Append(wal, rec) /\ ins[p].pc = "assembled"
    BY DEF InsertRecord
<1>3. rec.page = p /\ SameMap(ins[p], rec)
    BY DEF SameMap
<1>4. ins' = [ins EXCEPT ![p].pc = "inserted", ![p].lsn = Len(wal) + 1]
    BY DEF InsertRecord
<1>5. /\ ins'[p].pc = "inserted" /\ ins'[p].lsn = Len(wal) + 1
      /\ SameMap(ins[p], ins'[p]) /\ \A q \in Pages \ {p} : ins'[q] = ins[q]
    BY <1>1, <1>4 DEF InsertType, SameMap
<1> HIDE DEF rec
<1>6. /\ Len(wal') = Len(wal) + 1 /\ wal'[Len(wal) + 1] = rec
      /\ \A k \in 1 .. Len(wal) : wal'[k] = wal[k]
    BY <1>1, <1>2
<1>7. mode.phase = "run"
    BY <1>2, Numbers, SMTT(40) DEF Positions
<1> QED BY <1>2, <1>3, <1>5, <1>6, <1>7

\* A logged remap takes its reserved block along.
LEMMA InsertMap ==
    ASSUME Inv, LsnInv', NEW p \in Pages, InsertRecord(p), ~map.regressed
    PROVE  MapInv'
<1> DEFINE n == Len(wal)
<1>0. /\ UNCHANGED <<walFlushed, ctlRedo, map, mapFile, super, ckpt, mode>>
      /\ Records /\ Reservations /\ Coverage /\ Entries
    BY DEF InsertRecord, mapVars, Inv, MapInv
<1>1. /\ Len(wal') = n + 1 /\ \A k \in 1 .. n : wal'[k] = wal[k]
      /\ wal'[n + 1].page = p /\ SameMap(ins[p], wal'[n + 1])
      /\ ins'[p].pc = "inserted" /\ ins'[p].lsn = n + 1 /\ SameMap(ins[p], ins'[p])
      /\ \A q \in Pages \ {p} : ins'[q] = ins[q]
      /\ mode.phase = "run" /\ ins[p].pc = "assembled"
    BY InsertEffect
<1>2. /\ n \in Nat /\ ctlRedo \in Nat /\ walFlushed \in Nat /\ ckpt.redo \in Nat
      /\ walFlushed <= n /\ Larger(walFlushed, map.lsn) \in 0 .. n
      /\ ctlRedo <= n /\ (ckpt.phase # "idle" => ckpt.redo <= n)
    BY Numbers, SMTT(40) DEF Inv, Marks
<1>3. /\ \A q \in Pages : Applied(q) \in 0 .. n
      /\ \A i \in 1 .. n : wal[i].page \in Pages
    BY AppliedRange, Numbers, RecordNumbers, SMTT(40)
<1> HIDE DEF n
<1>4. SameLog(wal, wal', n)
    BY <1>1 DEF SameLog, SameMap
<1>5. Applied(p) = n /\ Applied(p)' = IF ins[p].remap THEN n ELSE n + 1
    BY <1>0, <1>1, <1>2 DEF Applied, SameMap, n
<1>6. ASSUME NEW q \in Pages \ {p}
      PROVE  Applied(q)' = Applied(q) \/ (Applied(q) = n /\ Applied(q)' = n + 1)
  <2>1. ins'[q] = ins[q] /\ mode.phase # "redo" /\ mode'.phase # "redo" /\ Len(wal') = n + 1
    BY <1>0, <1>1
  <2>2. CASE ins[q].pc = "inserted" /\ ins[q].remap
    BY <2>1, <2>2, Zenon DEF Applied
  <2>3. CASE ~(ins[q].pc = "inserted" /\ ins[q].remap)
    <3>1. Applied(q) = n
      BY <2>1, <2>3, Zenon DEF Applied, n
    <3>2. Applied(q)' = n + 1
      BY <2>1, <2>3, Zenon DEF Applied
    <3> QED BY <3>1, <3>2
  <2> QED BY <2>2, <2>3
<1>9. \A i \in 1 .. (n + 1) : i \in 1 .. n \/ i = n + 1
    BY <1>2
<1>7. ins[p].remap => Fresh(p)
    BY <1>0, <1>1 DEF Reservations
<1>8. Records'
  <2>1. \A i \in 1 .. (n + 1) : Forward(wal'[i])
    <3>1. Forward(wal'[n + 1])
      BY <1>1, <1>7, ZenonT(60) DEF Fresh, Forward, SameMap
    <3> QED BY <1>0, <1>1, <1>9, <3>1, Zenon DEF Records, n
  <2>2. \A i, j \in 1 .. (n + 1) :
            wal'[i].remap /\ wal'[j].remap /\ wal'[i].new = wal'[j].new => i = j
    <3>1. \A i \in 1 .. n : wal[i].remap /\ wal'[n + 1].remap => wal[i].new # wal'[n + 1].new
      BY <1>1, <1>7, ZenonT(60) DEF Fresh, SameMap, n
    <3> SUFFICES ASSUME NEW i \in 1 .. (n + 1), NEW j \in 1 .. (n + 1),
                        wal'[i].remap, wal'[j].remap, wal'[i].new = wal'[j].new
                 PROVE  i = j
      OBVIOUS
    <3>2. CASE i \in 1 .. n /\ j \in 1 .. n
      <4>1. wal'[i] = wal[i] /\ wal'[j] = wal[j]
        BY <1>1, <3>2
      <4> QED BY <1>0, <3>2, <4>1 DEF Records, n
    <3>3. CASE i = n + 1 \/ j = n + 1
      <4>1. CASE i = n + 1 /\ j \in 1 .. n
        BY <1>1, <3>1, <4>1
      <4>2. CASE j = n + 1 /\ i \in 1 .. n
        BY <1>1, <3>1, <4>2
      <4> QED BY <1>9, <3>3, <4>1, <4>2
    <3> QED BY <1>9, <3>2, <3>3
  <2>3. ASSUME NEW i \in 1 .. n, wal'[i].remap
        PROVE  AsOf(wal', wal'[i].page, wal'[i].old, i - 1, i - 1)
    <3>1. AsOf(wal, wal'[i].page, wal'[i].old, i - 1, i - 1)
      BY <1>0, <1>1, <2>3 DEF Records, n
    <3>2. NoRemap(wal', wal'[i].page, (i - 1) + 1, i - 1) /\ i - 1 \in Int /\ i - 1 <= n
      BY <1>2 DEF NoRemap
    <3> QED BY <1>2, <1>4, <3>1, <3>2, AsOfKept
  <2>4. ASSUME ins[p].remap PROVE AsOf(wal', p, ins[p].old, n, n)
    <3>1. AsOf(wal, p, ins[p].old, n, Larger(walFlushed, map.lsn))
      BY <1>0, <1>5, <1>7, <2>4 DEF Entries, Entry, Fresh
    <3>2. NoRemap(wal', p, n + 1, n)
      BY <1>2 DEF NoRemap
    <3> QED BY <1>2, <1>4, <3>1, <3>2, AsOfKept, SMTT(40)
  <2>5. wal'[n + 1].remap => AsOf(wal', p, wal'[n + 1].old, (n + 1) - 1, (n + 1) - 1)
    <3>1. (n + 1) - 1 = n /\ wal'[n + 1].remap = ins[p].remap /\ wal'[n + 1].old = ins[p].old
      BY <1>1, <1>2 DEF SameMap
    <3> QED BY <2>4, <3>1
  <2>6. ASSUME NEW i \in 1 .. (n + 1), wal'[i].remap
        PROVE  AsOf(wal', wal'[i].page, wal'[i].old, i - 1, i - 1)
    BY <1>1, <1>9, <2>3, <2>5, <2>6, Zenon
  <2> QED BY <1>1, <2>1, <2>2, <2>6, Zenon DEF Records
<1>10. Reservations'
  <2> SUFFICES ASSUME NEW q \in Pages, ins'[q].pc = "assembled", ins'[q].remap PROVE Fresh(q)'
    BY DEF Reservations
  <2>1. q # p /\ ins'[q] = ins[q] /\ Fresh(q)
    BY <1>0, <1>1 DEF Reservations
  <2>2. ASSUME NEW i \in 1 .. (n + 1), wal'[i].remap PROVE wal'[i].new # ins[q].new
    <3>1. CASE i \in 1 .. n
      BY <1>1, <2>1, <2>2, <3>1 DEF Fresh, n
    <3>2. CASE i = n + 1
      <4>1. wal'[n + 1].remap = ins[p].remap /\ wal'[n + 1].new = ins[p].new
        BY <1>1 DEF SameMap
      <4>2. p \in Pages \ {q} /\ ins[p].pc = "assembled" /\ ins[p].remap
        BY <1>1, <2>1, <2>2, <3>2, <4>1, SMTT(40)
      <4> QED BY <2>1, <3>2, <4>1, <4>2, SMTT(40) DEF Fresh
    <3> QED BY <1>9, <3>1, <3>2
  <2>3. ASSUME NEW r \in Pages \ {q}, ins'[r].pc = "assembled", ins'[r].remap
        PROVE  ins'[r].new # ins[q].new
    BY <1>1, <2>1, <2>3 DEF Fresh
  <2> QED BY <1>0, <1>1, <2>1, <2>2, <2>3, ZenonT(40) DEF Fresh
<1>11. Coverage'
  <2>1. ASSUME NEW i \in 1 .. n, wal'[i].remap PROVE Covers(i)'
    <3>1. wal'[i] = wal[i] /\ Covers(i) /\ wal[i].page \in Pages
      BY <1>0, <1>1, <1>3, <2>1 DEF Coverage, n
    <3>2. i <= Applied(wal[i].page)' => i <= Applied(wal[i].page)
      <4>1. \/ Applied(wal[i].page)' = Applied(wal[i].page) \/ Applied(wal[i].page) = n
        BY <1>5, <1>6, <3>1
      <4> QED BY <1>2, <4>1
    <3> QED BY <1>0, <3>1, <3>2, Zenon DEF Covers
  <2>2. ASSUME NEW i, i = n + 1, wal'[i].remap PROVE Covers(i)'
    <3>1. wal'[i].nextFree <= super.reserved /\ Applied(p)' = n /\ wal'[i].page = p
      BY <1>1, <1>5, <1>7, <2>2, ZenonT(60) DEF SameMap, Fresh
    <3>2. ~(i <= n) /\ ~(i <= ctlRedo) /\ (ckpt.phase # "idle" => ~(i <= ckpt.redo))
      BY <1>2, <2>2, SMTT(40)
    <3> QED BY <1>0, <3>1, <3>2 DEF Covers, Dumped, Dumping
  <2> QED BY <1>1, <1>9, <2>1, <2>2, Zenon DEF Coverage
<1>12. Entries'
  <2> SUFFICES ASSUME NEW q \in Pages PROVE Entry(q)'
    BY DEF Entries
  <2>1. NoRemap(wal', q, Applied(q) + 1, Applied(q)') /\ Applied(q)' \in Int
        /\ Applied(q) \in Int /\ Applied(q) <= n
    <3>1. CASE Applied(q)' = Applied(q)
      BY <1>3, <3>1 DEF NoRemap
    <3>2. CASE Applied(q) = n /\ Applied(q)' = n + 1
      <4>1. ~Remaps(wal', n + 1, q)
        BY <1>1, <1>2, <1>5, <3>2 DEF Remaps, SameMap
      <4> QED BY <1>2, <3>2, <4>1 DEF NoRemap
    <3> QED BY <1>2, <1>5, <1>6, <3>1, <3>2
  <2>2. AsOf(wal', q, map.pblk[q], Applied(q)', Larger(walFlushed, map.lsn))
    <3>1. AsOf(wal, q, map.pblk[q], Applied(q), Larger(walFlushed, map.lsn))
      BY <1>0 DEF Entries, Entry
    <3> QED BY <1>2, <1>4, <2>1, <3>1, AsOfKept, SMTT(40)
  <2>3. ASSUME NEW v, NEW lo \in 0 .. n, AsOf(wal, q, v, lo, walFlushed)
        PROVE  AsOf(wal', q, v, lo, walFlushed)
    <3>1. NoRemap(wal', q, lo + 1, lo) /\ lo \in Int /\ lo <= n
      BY <1>2 DEF NoRemap
    <3> QED BY <1>2, <1>4, <2>3, <3>1, AsOfKept
  <2>4. ctlRedo \in 0 .. n /\ (ckpt.phase # "idle" => ckpt.redo \in 0 .. n)
    BY <1>2
  <2>5. Entry(q)
    BY <1>0 DEF Entries
  <2> QED BY <1>0, <2>2, <2>3, <2>4, <2>5 DEF Entry, Dumping
<1> QED BY <1>8, <1>10, <1>11, <1>12 DEF MapInv

\* A logged record is the last one of its page; its remap is not applied yet.
LEMMA InsertStep ==
    ASSUME Inv, LsnInv', NEW p \in Pages, InsertRecord(p)
    PROVE  Inv'
<1> DEFINE n == Len(wal)
<1>0. UNCHANGED <<walFlushed, ctlRedo, map, mapFile, super, ckpt, mode>>
    BY SMTT(40) DEF InsertRecord, mapVars
<1>1. /\ Len(wal') = n + 1 /\ \A k \in 1 .. n : wal'[k] = wal[k]
      /\ wal'[n + 1].page = p /\ SameMap(ins[p], wal'[n + 1])
      /\ ins'[p].pc = "inserted" /\ ins'[p].lsn = n + 1 /\ SameMap(ins[p], ins'[p])
      /\ \A q \in Pages \ {p} : ins'[q] = ins[q]
      /\ mode.phase = "run" /\ ins[p].pc = "assembled"
    BY InsertEffect
<1>2. n \in Nat /\ ctlRedo \in Nat /\ walFlushed \in Nat /\ ckpt.redo \in Nat /\ walFlushed <= n
    BY Numbers
<1> HIDE DEF n
<1>3. Marks /\ ctlRedo <= n /\ (ckpt.phase # "idle" => ckpt.redo <= n)
    BY <1>2 DEF Inv, Marks, n
<1>4. Marks'
    BY <1>0, <1>1, <1>2, <1>3 DEF Marks
<1>5. Frontiers'
    BY <1>0, SMTT(40) DEF Inv, Frontiers
<1>6. Flights'
  <2>1. ASSUME NEW q \in Pages \ {p}, ins[q].pc = "inserted" PROVE Flight(q)'
    <3>1. Flight(q) /\ ins'[q] = ins[q] /\ ins[q].lsn \in 1 .. n
      BY <1>1, <2>1, Numbers, SMTT(40) DEF Inv, Flights, Positions, n
    <3>2. \A k \in (ins[q].lsn + 1) .. (n + 1) : wal'[k].page # q
      BY <1>1, <1>2, <3>1, SMTT(40) DEF Flight, n
    <3>3. /\ wal'[ins[q].lsn] = wal[ins[q].lsn] /\ Len(wal') = n + 1
          /\ ctlRedo' = ctlRedo /\ ckpt' = ckpt
      BY <1>0, <1>1, <3>1
    <3> QED BY <3>1, <3>2, <3>3, ZenonT(40) DEF Flight
  <2>2. Flight(p)'
    <3>1. SameMap(ins'[p], wal'[n + 1])
      BY <1>1 DEF SameMap
    <3> QED BY <1>0, <1>1, <1>2, <1>3, <3>1, SMTT(40) DEF Flight, Dumping
  <2> QED BY <1>1, <2>1, <2>2, SMTT(40) DEF Inv, Flights
<1>7. SuperLogged'
  <2>1. ASSUME NEW f, NEW m \in 0 .. n, Published(wal, f, m) PROVE Published(wal', f, m)
    BY <1>1, <1>2, <2>1 DEF Published
  <2>2. walFlushed \in 0 .. n /\ Larger(walFlushed, super.lsn) \in 0 .. n
    BY Numbers DEF n
  <2> QED BY <1>0, <2>1, <2>2, SMTT(40) DEF Inv, SuperLogged
<1> QED BY <1>4, <1>5, <1>6, <1>7, InsertMap, <1>0 DEF Inv

\* MapSBlockBumpNextFreePhysBlock moves the frontiers forward.
LEMMA BumpEffect ==
    ASSUME Inv, NEW f \in Int, NEW l, super' = BumpNextFree(f, l)
    PROVE  /\ super'.cached = super.cached /\ super'.synced = super.synced
           /\ super.nextFree <= super'.nextFree /\ f <= super'.nextFree
           /\ super.reserved <= super'.reserved /\ super'.nextFree <= super'.reserved
           /\ super' = super \/ (super'.nextFree = f /\ super'.lsn = l)
<1>1. /\ super \in SuperType /\ super.nextFree \in Nat /\ super.reserved \in Nat
      /\ super.nextFree <= super.reserved
    BY Numbers DEF TypeOK, Inv, Frontiers
<1>2. CASE super.nextFree < f
  <2>1. super' = [super EXCEPT !.nextFree = f, !.lsn = l, !.reserved = Larger(@, f)]
    BY <1>2 DEF BumpNextFree
  <2>2. /\ super'.nextFree = f /\ super'.lsn = l /\ super'.reserved = Larger(super.reserved, f)
        /\ super'.cached = super.cached /\ super'.synced = super.synced
    BY <1>1, <2>1 DEF SuperType
  <2> QED BY <1>1, <1>2, <2>2 DEF Larger
<1>3. CASE ~(super.nextFree < f)
    BY <1>1, <1>3 DEF BumpNextFree
<1> QED BY <1>2, <1>3

\* What a page's MapSetMapping does to the entries.
LEMMA SetMappingEffect ==
    ASSUME Inv, NEW p \in Pages, NEW v, NEW l \in Int, map' = SetMapping(p, v, l)
    PROVE  /\ map'.pblk[p] = v /\ \A q \in Pages \ {p} : map'.pblk[q] = map.pblk[q]
           /\ map'.lsn = l
           /\ ~map'.regressed => ~map.regressed /\ map.lsn <= l
<1>1. map \in MapType /\ map.lsn \in Nat
    BY Numbers DEF TypeOK
<1>2. /\ map'.pblk[p] = v /\ \A q \in Pages \ {p} : map'.pblk[q] = map.pblk[q]
      /\ map'.lsn = l /\ map'.regressed = (map.regressed \/ l < map.lsn)
    BY <1>1 DEF SetMapping, MapType
<1>3. ~map'.regressed => ~map.regressed /\ ~(l < map.lsn)
    BY <1>2, Zenon
<1>4. ~(l < map.lsn) => map.lsn <= l
    BY <1>1
<1> QED BY <1>2, <1>3, <1>4, Zenon

\* What the end of an insert leaves.
LEMMA FinishEffect ==
    ASSUME Inv, NEW p \in Pages, FinishInsert(p)
    PROVE  /\ Len(wal') = Len(wal) /\ SameLog(wal, wal', Len(wal))
           /\ ins'[p] = NoInsert /\ \A q \in Pages \ {p} : ins'[q] = ins[q]
           /\ ckpt'.phase = ckpt.phase /\ ckpt'.redo = ckpt.redo
           /\ ckpt'.waitFor = ckpt.waitFor \ {p}
<1> DEFINE lsn == ins[p].lsn
<1>1. /\ lsn \in 1 .. Len(wal) /\ wal \in Seq(RecordType) /\ wal[lsn] \in RecordType
      /\ ins \in [Pages -> InsertType] /\ ckpt \in CkptType
    BY Numbers, LenNat, ZenonT(60) DEF FinishInsert, TypeOK, Positions
<1>2. PICK src : wal' = [wal EXCEPT ![lsn].source = src]
    BY Zenon DEF FinishInsert
<1> DEFINE rec == [wal[lsn] EXCEPT !.source = src]
<1>3. rec.page = wal[lsn].page /\ SameMap(wal[lsn], rec)
    BY <1>1 DEF RecordType, SameMap
<1>4. wal' = [wal EXCEPT ![lsn] = rec]
    BY <1>2
<1> HIDE DEF rec, lsn
<1>5. Len(wal') = Len(wal) /\ \A k \in 1 .. Len(wal) : wal'[k] = IF k = lsn THEN rec ELSE wal[k]
    BY <1>1, <1>4
<1>6. SameLog(wal, wal', Len(wal))
    BY <1>3, <1>5, Zenon DEF SameLog, SameMap
<1>7. ins'[p] = NoInsert /\ \A q \in Pages \ {p} : ins'[q] = ins[q]
    BY <1>1 DEF FinishInsert
<1>8. /\ ckpt'.phase = ckpt.phase /\ ckpt'.redo = ckpt.redo
      /\ ckpt'.waitFor = ckpt.waitFor \ {p}
    BY <1>1 DEF FinishInsert, CkptType
<1> QED BY <1>5, <1>6, <1>7, <1>8
\* A published remap: the entry is the record's, and the frontier covers it.
LEMMA FinishMap ==
    ASSUME Inv, LsnInv', NEW p \in Pages, FinishInsert(p), ~map'.regressed
    PROVE  MapInv'
<1> DEFINE lsn == ins[p].lsn
<1>0. /\ UNCHANGED <<walFlushed, ctlRedo, mapFile, mode>> /\ ins[p].pc = "inserted"
      /\ mode.phase = "run" /\ mode'.phase = "run"
    BY Numbers, SMTT(40) DEF FinishInsert, Positions
<1>1. PICK n \in Nat : n = Len(wal)
    BY Numbers
<1>2. /\ Len(wal') = n /\ SameLog(wal, wal', n)
      /\ ins'[p] = NoInsert /\ \A q \in Pages \ {p} : ins'[q] = ins[q]
      /\ ckpt'.phase = ckpt.phase /\ ckpt'.redo = ckpt.redo
    BY <1>1, FinishEffect
<1>3. Flight(p) /\ lsn \in 1 .. n /\ lsn \in Int /\ wal[lsn].nextFree \in Int
  <2>1. Flight(p)
    BY <1>0 DEF Inv, Flights
  <2>2. lsn \in 1 .. n
    BY <1>0, <1>1, Numbers, SMTT(40) DEF Positions
  <2>3. wal[lsn].nextFree \in Int
    BY <1>1, <2>2, Numbers, RecordNumbers, ZenonT(60)
  <2> QED BY <2>1, <2>2, <2>3
<1>4. /\ ~map.regressed /\ map'.lsn = IF ins[p].remap THEN lsn ELSE map.lsn
      /\ map'.pblk[p] = IF ins[p].remap THEN ins[p].new ELSE map.pblk[p]
      /\ \A q \in Pages \ {p} : map'.pblk[q] = map.pblk[q]
      /\ ins[p].remap => map.lsn <= lsn
  <2>1. CASE ins[p].remap
    <3>1. map' = SetMapping(p, ins[p].new, lsn)
      BY <2>1, Zenon DEF FinishInsert, CommitMapping
    <3> QED BY <1>3, <2>1, <3>1, SetMappingEffect, ZenonT(60)
  <2>2. CASE ~ins[p].remap
    BY <2>2, Zenon DEF FinishInsert, CommitMapping
  <2> QED BY <2>1, <2>2
<1>5. /\ super'.cached = super.cached /\ super'.synced = super.synced
      /\ super.nextFree <= super'.nextFree /\ super.reserved <= super'.reserved
      /\ ins[p].remap => wal[lsn].nextFree <= super'.nextFree
  <2>1. CASE ins[p].remap
    <3>1. super' = BumpNextFree(wal[lsn].nextFree, lsn)
      BY <2>1, Zenon DEF FinishInsert
    <3> QED BY <1>3, <3>1, BumpEffect, ZenonT(60)
  <2>2. CASE ~ins[p].remap
    <3>1. super' = super
      BY <2>2, Zenon DEF FinishInsert
    <3>2. super.nextFree \in Int /\ super.reserved \in Int
      BY Numbers
    <3> QED BY <2>2, <3>1, <3>2
  <2> QED BY <2>1, <2>2, SMTT(40)
<1>6. /\ super.nextFree \in Int /\ super.reserved \in Int
      /\ super'.nextFree \in Int /\ super'.reserved \in Int
  <2>1. super.nextFree \in Int /\ super.reserved \in Int
    BY Numbers
  <2>2. super' \in SuperType /\ Frontier \subseteq Int
    BY ConstantFacts DEF LsnInv, TypeInv, TypeOK, Frontier
  <2> QED BY <2>1, <2>2, ZenonT(60) DEF SuperType
<1>7. /\ walFlushed \in Nat /\ walFlushed <= n /\ map.lsn \in Nat /\ ctlRedo \in 0 .. n
      /\ (ckpt.phase # "idle" => ckpt.redo \in 0 .. n)
      /\ Larger(walFlushed, map.lsn) \in 0 .. n
    BY <1>1, Numbers, SMTT(40) DEF Inv, Marks
<1> HIDE DEF lsn
<1>8. Larger(walFlushed, map'.lsn) \in 0 .. n
      /\ Larger(walFlushed, map.lsn) <= Larger(walFlushed, map'.lsn)
    BY <1>3, <1>4, <1>7 DEF Larger
<1>9. Records /\ Reservations /\ Coverage /\ Entries
    BY <1>4, SMTT(40) DEF Inv, MapInv
<1>10. /\ Applied(p)' = n /\ Applied(p) = IF ins[p].remap THEN lsn - 1 ELSE n
    BY <1>0, <1>1, <1>2 DEF Applied, NoInsert, lsn
<1>11. ASSUME NEW q \in Pages \ {p} PROVE Applied(q)' = Applied(q) /\ Applied(q) \in 0 .. n
  <2>1. ins'[q] = ins[q] /\ mode' = mode /\ Len(wal') = Len(wal)
    BY <1>0, <1>1, <1>2
  <2>2. Applied(q)' = Applied(q)
    BY <2>1, Zenon DEF Applied
  <2> QED BY <1>1, <2>2, AppliedRange, SMTT(40)
<1>12. \A i \in 1 .. n : /\ wal'[i].page = wal[i].page /\ SameMap(wal[i], wal'[i])
                         /\ wal[i].page \in Pages /\ wal[i].nextFree \in Int
    BY <1>1, <1>2, Numbers, RecordNumbers DEF SameLog
<1>13. Records'
  <2>1. \A i \in 1 .. n : Forward(wal'[i])
    BY <1>1, <1>9, <1>12, SMTT(40) DEF Records, Forward, SameMap
  <2>2. \A i, j \in 1 .. n :
            wal'[i].remap /\ wal'[j].remap /\ wal'[i].new = wal'[j].new => i = j
    <3>1. \A i \in 1 .. n : wal'[i].remap = wal[i].remap /\ wal'[i].new = wal[i].new
      BY <1>12, SMTT(40) DEF SameMap
    <3> QED BY <1>1, <1>9, <3>1 DEF Records
  <2>3. ASSUME NEW i \in 1 .. n, wal'[i].remap
        PROVE  AsOf(wal', wal'[i].page, wal'[i].old, i - 1, i - 1)
    <3>1. AsOf(wal, wal'[i].page, wal'[i].old, i - 1, i - 1)
      BY <1>1, <1>9, <1>12, <2>3, Zenon DEF Records, SameMap
    <3>2. NoRemap(wal', wal'[i].page, (i - 1) + 1, i - 1) /\ i - 1 \in Int /\ i - 1 <= n
      BY DEF NoRemap
    <3> QED BY <1>2, <3>1, <3>2, AsOfKept
  <2> QED BY <1>2, <2>1, <2>2, <2>3, Zenon DEF Records
<1>14. Reservations'
  <2> SUFFICES ASSUME NEW q \in Pages, ins'[q].pc = "assembled", ins'[q].remap PROVE Fresh(q)'
    BY DEF Reservations
  <2>1. q # p /\ ins'[q] = ins[q] /\ Fresh(q) /\ map'.pblk[q] = map.pblk[q]
        /\ ins[q].nextFree \in Int
    <3>1. q # p
      BY <1>2, SMTT(40) DEF NoInsert
    <3>2. ins'[q] = ins[q] /\ map'.pblk[q] = map.pblk[q]
      BY <1>2, <1>4, <3>1
    <3>3. Fresh(q)
      BY <1>9, <3>2 DEF Reservations
    <3>4. ins[q].nextFree \in Int
      BY Numbers, RecordNumbers, SMTT(40)
    <3> QED BY <3>1, <3>2, <3>3, <3>4, SMTT(40)
  <2>2. \A i \in 1 .. n : wal'[i].remap => wal'[i].new # ins[q].new
    BY <1>1, <1>12, <2>1, SMTT(40) DEF Fresh, SameMap
  <2>3. ASSUME NEW r \in Pages \ {q}, ins'[r].pc = "assembled", ins'[r].remap
        PROVE  ins'[r].new # ins[q].new
    BY <1>2, <2>1, <2>3, SMTT(40) DEF Fresh, NoInsert
  <2>4. ins[q].nextFree <= super'.reserved
    BY <1>5, <1>6, <2>1, SMTT(40) DEF Fresh
  <2> QED BY <1>2, <2>1, <2>2, <2>3, <2>4, Zenon DEF Fresh
<1>15. Coverage'
  <2> SUFFICES ASSUME NEW i \in 1 .. n, wal'[i].remap PROVE Covers(i)'
    BY <1>2 DEF Coverage
  <2>1. /\ wal'[i].page = wal[i].page /\ wal'[i].nextFree = wal[i].nextFree
        /\ wal[i].page \in Pages /\ wal[i].nextFree \in Int /\ wal[i].remap
    BY <1>12 DEF SameMap
  <2>2. Covers(i)
    BY <1>1, <1>9, <2>1, SMTT(40) DEF Coverage
  <2>3. wal[i].nextFree <= super'.reserved
    BY <1>0, <1>5, <1>6, <2>1, <2>2, SMTT(40) DEF Covers
  <2>4. ASSUME i <= Applied(wal[i].page)' PROVE wal[i].nextFree <= super'.nextFree
    <3>1. CASE i <= Applied(wal[i].page)
      BY <1>5, <1>6, <2>1, <2>2, <3>1, SMTT(40) DEF Covers
    <3>2. CASE wal[i].page # p
      BY <1>11, <2>1, <2>4, <3>1, <3>2
    <3>3. CASE wal[i].page = p /\ ~(i <= Applied(p))
      <4>1. ins[p].remap /\ lsn <= i
        BY <1>3, <1>10, <3>3, SMTT(40)
      <4>2. i = lsn
        BY <1>1, <1>3, <3>3, <4>1 DEF Flight, lsn
      <4> QED BY <1>5, <4>1, <4>2
    <3> QED BY <3>1, <3>2, <3>3, SMTT(40)
  <2> QED BY <1>0, <1>2, <1>5, <2>1, <2>2, <2>3, <2>4, ZenonT(60) DEF Covers
<1>16. Entries'
  <2>1. ASSUME NEW q \in Pages, NEW v, NEW lo \in 0 .. n, AsOf(wal, q, v, lo, walFlushed)
        PROVE  AsOf(wal', q, v, lo, walFlushed)
    <3>1. NoRemap(wal', q, lo + 1, lo) /\ lo \in Int /\ lo <= n
      BY <1>1 DEF NoRemap
    <3>2. SameLog(wal, wal', n) /\ walFlushed \in Int /\ walFlushed <= n /\ walFlushed <= walFlushed
      BY <1>2, <1>7, SMTT(40)
    <3> QED BY <2>1, <3>1, <3>2, AsOfKept, ZenonT(40)
  <2>2. ASSUME NEW q \in Pages, Applied(q)' = Applied(q), Applied(q) \in 0 .. n,
               map'.pblk[q] = map.pblk[q]
        PROVE  AsOf(wal', q, map'.pblk[q], Applied(q)', Larger(walFlushed, map'.lsn))
    <3>1. AsOf(wal, q, map.pblk[q], Applied(q), Larger(walFlushed, map.lsn))
      BY <1>9 DEF Entries, Entry
    <3>2. NoRemap(wal', q, Applied(q) + 1, Applied(q)) /\ Applied(q) \in Int /\ Applied(q) <= n
      BY <2>2, SMTT(40) DEF NoRemap
    <3>3. AsOf(wal', q, map.pblk[q], Applied(q), Larger(walFlushed, map'.lsn))
      BY <1>2, <1>7, <1>8, <3>1, <3>2, AsOfKept, SMTT(40)
    <3> QED BY <2>2, <3>3, SMTT(40)
  <2>3. ASSUME ins[p].remap
        PROVE  AsOf(wal', p, map'.pblk[p], n, Larger(walFlushed, map'.lsn))
    <3>1. Remaps(wal, lsn, p) /\ wal[lsn].new = map'.pblk[p]
      BY <1>3, <1>4, <2>3 DEF Remaps, Flight, SameMap, lsn
    <3>2. Remaps(wal', lsn, p) /\ wal'[lsn].new = map'.pblk[p]
      BY <1>3, <1>12, <3>1, SMTT(40) DEF Remaps, SameMap
    <3>3. lsn <= Larger(walFlushed, map'.lsn) /\ Larger(walFlushed, map'.lsn) \in Int
      BY <1>3, <1>4, <1>7, <2>3 DEF Larger
    <3>4. lsn \in 1 .. Larger(walFlushed, map'.lsn)
      BY <1>3, <3>3, SMTT(40)
    <3>5. NoRemap(wal', p, lsn + 1, n)
      BY <1>1, <1>3, <1>12, SMTT(40) DEF NoRemap, Remaps, Flight, lsn
    <3> QED BY <3>2, <3>4, <3>5, SMTT(40) DEF AsOf
  <2>4. ASSUME NEW q \in Pages
        PROVE  AsOf(wal', q, map'.pblk[q], Applied(q)', Larger(walFlushed, map'.lsn))
    <3>1. CASE q # p
      BY <1>4, <1>11, <2>2, <3>1, SMTT(40)
    <3>2. CASE q = p /\ ins[p].remap
      BY <1>10, <2>3, <3>2, SMTT(40)
    <3>3. CASE q = p /\ ~ins[p].remap
      <4>1. Applied(p)' = Applied(p) /\ Applied(p) \in 0 .. n
        BY <1>10, <3>3, SMTT(40)
      <4> QED BY <1>4, <2>2, <3>3, <4>1
    <3> QED BY <3>1, <3>2, <3>3, SMTT(40)
  <2>5. ASSUME NEW q \in Pages PROVE Entry(q)'
    <3>1. Entry(q)
      BY <1>9 DEF Entries
    <3> QED BY <1>0, <1>2, <1>7, <2>1, <2>4, <3>1 DEF Entry, Dumping
  <2> QED BY <2>5, SMTT(40) DEF Entries
<1> QED BY <1>13, <1>14, <1>15, <1>16, SMTT(40) DEF MapInv

\* The invariant when a backend finishes its insertion and publishes.
LEMMA FinishStep ==
    ASSUME Inv, LsnInv', NEW p \in Pages, FinishInsert(p)
    PROVE  Inv'
<1> DEFINE lsn == ins[p].lsn
<1>0. UNCHANGED <<walFlushed, ctlRedo, mode>> /\ ins[p].pc = "inserted"
    BY DEF FinishInsert
<1>1. PICK n \in Nat : n = Len(wal)
    BY Numbers, SMTT(40)
<1>2. /\ Len(wal') = n /\ SameLog(wal, wal', n)
      /\ ins'[p] = NoInsert /\ \A q \in Pages \ {p} : ins'[q] = ins[q]
      /\ ckpt'.phase = ckpt.phase /\ ckpt'.redo = ckpt.redo
      /\ ckpt'.waitFor = ckpt.waitFor \ {p}
    BY <1>1, FinishEffect, SMTT(40)
<1>3. lsn \in 1 .. n /\ wal[lsn].nextFree \in Int /\ SameMap(ins[p], wal[lsn])
  <2>1. Flight(p) /\ lsn \in 1 .. n
    BY <1>0, <1>1, Numbers, SMTT(40) DEF Inv, Flights, Positions
  <2>2. wal[lsn].nextFree \in Int
    BY <1>1, <2>1, Numbers, RecordNumbers, SMTT(40)
  <2> QED BY <2>1, <2>2, SMTT(40) DEF Flight
<1>4. /\ super'.cached = super.cached /\ super'.synced = super.synced
      /\ super.nextFree <= super'.nextFree /\ super'.nextFree <= super'.reserved
      /\ \/ super' = super
         \/ ins[p].remap /\ super'.nextFree = wal[lsn].nextFree /\ super'.lsn = lsn
  <2>1. CASE ins[p].remap
    <3>1. super' = BumpNextFree(wal[lsn].nextFree, lsn)
      BY <2>1, Zenon DEF FinishInsert
    <3> QED BY <1>3, <2>1, <3>1, BumpEffect, ZenonT(60)
  <2>2. CASE ~ins[p].remap
    <3>1. super' = super
      BY <2>2, Zenon DEF FinishInsert
    <3>2. super.nextFree \in Int /\ super.nextFree <= super.reserved
      BY Numbers DEF Inv, Frontiers
    <3> QED BY <3>1, <3>2
  <2> QED BY <2>1, <2>2
<1> HIDE DEF lsn
<1>5. Marks'
    BY <1>0, <1>1, <1>2 DEF Inv, Marks
<1>6. Frontiers'
  <2>1. super.cached \in Int /\ super.nextFree \in Int /\ super'.nextFree \in Int
    <3>1. super' \in SuperType /\ Frontier \subseteq Int
      BY ConstantFacts DEF LsnInv, TypeInv, TypeOK, Frontier
    <3>2. super.cached \in Int /\ super.nextFree \in Int
      BY Numbers
    <3> QED BY <3>1, <3>2, ZenonT(60) DEF SuperType
  <2>2. NPages <= super.synced /\ super.synced <= super.cached /\ super.cached <= super.nextFree
    BY DEF Inv, Frontiers
  <2>3. super.cached <= super'.nextFree
    BY <1>4, <2>1, <2>2, SMTT(40)
  <2> QED BY <1>4, <2>2, <2>3 DEF Frontiers
<1>7. Flights'
  <2>1. ASSUME NEW q \in Pages \ {p}, ins[q].pc = "inserted" PROVE Flight(q)'
    <3>1. ins'[q] = ins[q] /\ Flight(q) /\ ins[q].lsn \in 1 .. n
      <4>1. ins'[q] = ins[q] /\ Flight(q)
        BY <1>2, <2>1, Zenon DEF Inv, Flights
      <4>2. ins[q].lsn \in 1 .. n
        BY <1>1, <2>1, Numbers, Zenon DEF Positions
      <4> QED BY <4>1, <4>2
    <3>2. /\ wal'[ins[q].lsn].page = q /\ SameMap(ins[q], wal'[ins[q].lsn])
      BY <1>2, <3>1, ZenonT(60) DEF Flight, SameLog, SameMap
    <3>3. \A k \in (ins[q].lsn + 1) .. n : wal'[k].page # q
      BY <1>1, <1>2, <3>1, SMTT(40) DEF Flight, SameLog
    <3> QED BY <1>0, <1>1, <1>2, <3>1, <3>2, <3>3, ZenonT(60) DEF Flight
  <2> QED BY <1>2, <2>1 DEF Inv, Flights, NoInsert
<1>8. SuperLogged'
  <2>1. ASSUME NEW f, NEW m \in 0 .. n, Published(wal, f, m) PROVE Published(wal', f, m)
    BY <1>2, <2>1 DEF Published, SameLog, SameMap
  <2>2. walFlushed \in 0 .. n /\ Larger(walFlushed, super.lsn) \in 0 .. n
    BY <1>1, Numbers
  <2>3. Published(wal', super'.nextFree, Larger(walFlushed, super'.lsn))
    <3>1. CASE super' = super
      BY <2>1, <2>2, <3>1 DEF Inv, SuperLogged
    <3>2. CASE ins[p].remap /\ super'.nextFree = wal[lsn].nextFree /\ super'.lsn = lsn
      <4>1. wal'[lsn].remap /\ super'.nextFree <= wal'[lsn].nextFree
        <5>1. wal'[lsn].remap = ins[p].remap /\ wal'[lsn].nextFree = wal[lsn].nextFree
          BY <1>2, <1>3, SMTT(40) DEF SameLog, SameMap
        <5> QED BY <1>3, <3>2, <5>1, SMTT(40)
      <4>2. lsn \in 1 .. Larger(walFlushed, super'.lsn)
        BY <1>3, <2>2, <3>2 DEF Larger
      <4> QED BY <4>1, <4>2 DEF Published
    <3> QED BY <1>4, <3>1, <3>2
  <2> QED BY <1>0, <1>4, <2>1, <2>2, <2>3 DEF Inv, SuperLogged
<1> QED BY <1>5, <1>6, <1>7, <1>8, FinishMap DEF Inv
=============================================================================
