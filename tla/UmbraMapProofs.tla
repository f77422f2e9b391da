--------------------------- MODULE UmbraMapProofs ---------------------------
(***************************************************************************)
(* For every number of pages, blocks, records, checkpoints and crashes:    *)
(* the MAP and the superblock on disk are behind the flushed WAL, a        *)
(* completed checkpoint covers every record before its redo point, and a   *)
(* block reserved for a remap is referred to by nothing.                   *)
(*                                                                         *)
(* UmbraMapSteps has the invariant and the backend's steps; here are the   *)
(* steps of the checkpointer, of a crash and of recovery.                  *)
(***************************************************************************)
EXTENDS UmbraMapSteps

-----------------------------------------------------------------------------
(* Writing the MAP and the superblock.                                     *)

\* The MAP in memory accounts for a redo point that no remap in flight is
\* behind of.
LEMMA AppliedPast ==
    ASSUME Inv, NEW q \in Pages, NEW m \in Nat, m <= Len(wal),
           mode.phase = "redo" => m < mode.cursor,
           ins[q].pc = "inserted" /\ ins[q].remap => m < ins[q].lsn
    PROVE  m <= Applied(q)
<1>1. Len(wal) \in Nat /\ mode.cursor \in Nat /\ ins[q].lsn \in Nat
    BY Numbers, RecordNumbers
<1>2. CASE mode.phase = "redo"
    BY <1>1, <1>2 DEF Applied
<1>3. CASE mode.phase # "redo" /\ ins[q].pc = "inserted" /\ ins[q].remap
    BY <1>1, <1>3 DEF Applied
<1>4. CASE mode.phase # "redo" /\ ~(ins[q].pc = "inserted" /\ ins[q].remap)
    BY <1>4 DEF Applied
<1> QED BY <1>2, <1>3, <1>4

\* The last completed checkpoint is behind what the MAP accounts for, and so
\* is the one whose MAP pages are written.
LEMMA RedoApplied ==
    ASSUME Inv, NEW q \in Pages
    PROVE  ctlRedo <= Applied(q) /\ (ckpt.phase \in Dumping => ckpt.redo <= Applied(q))
<1>1. ctlRedo \in Nat /\ ckpt.redo \in Nat /\ walFlushed \in Nat /\ Len(wal) \in Nat
      /\ walFlushed <= Len(wal)
    BY Numbers
<1>2. ins[q].pc = "inserted" => Flight(q)
    BY DEF Inv, Flights
<1>3. /\ ctlRedo <= walFlushed /\ (mode.phase = "redo" => ctlRedo < mode.cursor)
      /\ (ckpt.phase # "idle" => ckpt.redo <= Len(wal))
      /\ (mode.phase = "redo" => ckpt.phase = "idle")
    BY Numbers DEF Inv, Marks, Positions
<1>4. ctlRedo <= Len(wal)
    BY <1>1, <1>3
<1>5. ctlRedo <= Applied(q)
    BY <1>1, <1>2, <1>3, <1>4, AppliedPast DEF Flight
<1>6. ASSUME ckpt.phase \in Dumping PROVE ckpt.redo <= Applied(q)
    <2>1. ckpt.phase # "idle" /\ mode.phase # "redo"
        BY <1>3, <1>6 DEF Dumping
    <2> QED BY <1>1, <1>2, <1>3, <1>6, <2>1, AppliedPast DEF Flight
<1> QED BY <1>5, <1>6

\* MapBgWriterFlush, also as the checkpoint's MapCheckpoint.
LEMMA MapFlushStep ==
    ASSUME Inv, LsnInv', FlushMapPage, UNCHANGED <<wal, ctlRedo, map, super, ins, mode>>,
           ckpt'.redo = ckpt.redo,
           \/ ckpt' = ckpt
           \/ ckpt.phase = "wait" /\ ckpt.waitFor = {} /\ ckpt'.phase = "super"
    PROVE  Inv'
<1>1. /\ walFlushed' = Larger(walFlushed, map.lsn)
      /\ mapFile'.cached = map.pblk /\ mapFile'.synced = mapFile.synced
    BY Numbers DEF FlushMapPage, XLogFlush, TypeOK, MapFileType
<1>2. /\ walFlushed \in Nat /\ walFlushed' \in Nat /\ walFlushed <= walFlushed'
      /\ Larger(walFlushed', map.lsn) = walFlushed' /\ map.lsn \in Nat
  <2>1. walFlushed \in Nat /\ map.lsn \in Nat
    BY Numbers
  <2> QED BY <1>1, <2>1 DEF Larger
<1>3. Marks'
  <2>1. ctlRedo <= walFlushed'
    <3>1. ctlRedo \in Nat /\ ctlRedo <= walFlushed
      BY Numbers DEF Inv, Marks
    <3> QED BY <1>2, <3>1
  <2> QED BY <2>1 DEF Inv, Marks
<1>4. Frontiers'
    BY DEF Inv, Frontiers
<1>5. ASSUME NEW q \in Pages, ins[q].pc = "inserted", ins[q].remap, ckpt'.phase \in Dumping
      PROVE  ckpt.redo < ins[q].lsn
  <2>1. Flight(q) /\ ckpt.redo \in Nat /\ ins[q].lsn \in Nat
    BY <1>5, Numbers, RecordNumbers, SMTT(40) DEF Inv, Flights
  <2>2. CASE ckpt' = ckpt
    BY <1>5, <2>1, <2>2 DEF Flight
  <2>3. CASE ckpt.phase = "wait" /\ ckpt.waitFor = {}
    BY <1>5, <2>1, <2>3 DEF Flight
  <2> QED BY <2>2, <2>3
<1>6. Flights'
    BY <1>5, Zenon DEF Inv, Flights, Flight<1>7. SuperLogged'
  <2>1. ASSUME NEW f, NEW a \in Nat, NEW b \in Nat, a <= b, Published(wal, f, a)
        PROVE  Published(wal, f, b)
    BY <2>1 DEF Published
  <2>2. /\ Larger(walFlushed, super.lsn) \in Nat /\ Larger(walFlushed', super.lsn) \in Nat
        /\ Larger(walFlushed, super.lsn) <= Larger(walFlushed', super.lsn)
    <3>1. super.lsn \in Nat
      BY Numbers
    <3> QED BY <1>2, <3>1 DEF Larger
  <2> QED BY <1>2, <2>1, <2>2 DEF Inv, SuperLogged
<1>8. ASSUME ~map.regressed PROVE MapInv'
  <2>0. Records /\ Reservations /\ Coverage /\ Entries
    BY <1>8 DEF Inv, MapInv
  <2>1. Records' /\ Reservations'
    BY <2>0 DEF Records, Reservations, Fresh
  <2>2. \A q \in Pages : Applied(q)' = Applied(q)
    BY Zenon DEF Applied
  <2>3. Coverage'
    <3> SUFFICES ASSUME NEW i \in 1 .. Len(wal), wal[i].remap PROVE Covers(i)'
      BY DEF Coverage
    <3>1. Covers(i) /\ wal[i].page \in Pages
      BY <2>0, Numbers, RecordNumbers, SMTT(40) DEF Coverage
    <3>2. Applied(wal[i].page)' = Applied(wal[i].page)
      BY <2>2, <3>1
    <3>3. ckpt'.phase \in Dumped => ckpt.phase \in Dumped
      BY DEF Dumped
    <3>4. ckpt'.phase = "record" => ckpt.phase = "record"
      OBVIOUS
    <3> QED BY <3>1, <3>2, <3>3, <3>4, Zenon DEF Covers
  <2>4. ASSUME NEW q \in Pages PROVE Entry(q)'
    <3>1. /\ Entry(q) /\ Applied(q)' = Applied(q) /\ Applied(q) \in Int
          /\ ctlRedo \in Int /\ ckpt.redo \in Int /\ walFlushed \in Int /\ walFlushed' \in Int
      BY <1>2, <2>0, <2>2, AppliedRange, Numbers, SMTT(40) DEF Entries
    <3>2. AsOf(wal, q, map.pblk[q], Applied(q), walFlushed')
      BY <1>1, <3>1 DEF Entry
    <3>3. ctlRedo <= Applied(q)
      BY RedoApplied
    <3>4. AsOf(wal, q, map.pblk[q], ctlRedo, walFlushed')
      BY <3>1, <3>2, <3>3, AsOfWeaker
    <3>5. AsOf(wal, q, mapFile.synced[q], ctlRedo, walFlushed')
      <4>1. AsOf(wal, q, mapFile.synced[q], ctlRedo, walFlushed)
        BY <3>1 DEF Entry
      <4> QED BY <1>2, <3>1, <4>1, AsOfWeaker
    <3>6. ASSUME ckpt'.phase \in Dumping PROVE AsOf(wal, q, map.pblk[q], ckpt.redo, walFlushed')
      <4>1. ckpt.redo <= Applied(q)
        <5>1. /\ ckpt.phase # "idle" /\ ckpt.redo \in Nat /\ ckpt.redo <= Len(wal)
              /\ mode.phase # "redo"
          BY <3>6, Numbers, SMTT(40) DEF Inv, Marks, Positions, Dumping
        <5>2. ins[q].pc = "inserted" /\ ins[q].remap => ckpt.redo < ins[q].lsn
          BY <1>5, <3>6
        <5> QED BY <5>1, <5>2, AppliedPast
      <4> QED BY <3>1, <3>2, <4>1, AsOfWeaker
    <3>7. ASSUME ckpt'.phase = "record"
          PROVE  AsOf(wal, q, mapFile.synced[q], ckpt.redo, walFlushed')
      <4>1. AsOf(wal, q, mapFile.synced[q], ckpt.redo, walFlushed)
        BY <3>1, <3>7 DEF Entry
      <4> QED BY <1>2, <3>1, <4>1, AsOfWeaker
    <3> QED BY <1>1, <1>2, <3>1, <3>2, <3>4, <3>5, <3>6, <3>7 DEF Entry
  <2> QED BY <2>1, <2>3, <2>4 DEF MapInv, Entries
<1> QED BY <1>3, <1>4, <1>6, <1>7, <1>8 DEF Inv

\* The checkpoint writes the frontier of every record before its redo point.
LEMMA SuperStep ==
    ASSUME Inv, LsnInv', CkptSuper
    PROVE  Inv'
<1>1. /\ walFlushed' = Larger(walFlushed, super.lsn)
      /\ UNCHANGED <<wal, ctlRedo, map, mapFile, ins, mode>>
      /\ ckpt.phase = "super" /\ ckpt'.phase = "capture" /\ ckpt'.redo = ckpt.redo
      /\ ckpt'.waitFor = ckpt.waitFor
    BY Numbers DEF CkptSuper, CkptStep, XLogFlush, TypeOK, CkptType
<1>2. /\ super'.cached = super.nextFree /\ super'.synced = super.synced
      /\ super'.nextFree = super.nextFree /\ super'.reserved = super.reserved
      /\ super'.lsn = super.lsn
    BY Numbers DEF CkptSuper, TypeOK, SuperType
<1>3. /\ walFlushed \in Nat /\ walFlushed' \in Nat /\ walFlushed <= walFlushed'
      /\ Larger(walFlushed', super.lsn) = walFlushed' /\ super.lsn \in Nat
  <2>1. walFlushed \in Nat /\ super.lsn \in Nat
    BY Numbers
  <2> QED BY <1>1, <2>1 DEF Larger
<1>4. Marks'
  <2>1. ctlRedo <= walFlushed'
    <3>1. ctlRedo \in Nat /\ ctlRedo <= walFlushed
      BY Numbers DEF Inv, Marks
    <3> QED BY <1>3, <3>1
  <2> QED BY <1>1, <2>1 DEF Inv, Marks
<1>5. super.cached <= super.nextFree /\ super.synced <= super.nextFree
      /\ super.cached \in Int /\ super.nextFree \in Int
  <2>1. super.cached \in Int /\ super.nextFree \in Int /\ super.synced \in Int
    BY Numbers, SMTT(40)
  <2>2. super.synced <= super.cached /\ super.cached <= super.nextFree
    BY DEF Inv, Frontiers
  <2> QED BY <2>1, <2>2
<1>6. Frontiers'
    BY <1>2, <1>5 DEF Inv, Frontiers
<1>7. Flights'
    BY <1>1, Zenon DEF Inv, Flights, Flight, Dumping
<1>8. SuperLogged'
  <2>1. Published(wal, super.nextFree, walFlushed')
    BY <1>1 DEF Inv, SuperLogged
  <2>2. Published(wal, super.synced, walFlushed')
    BY <1>3 DEF Inv, SuperLogged, Published
  <2> QED BY <1>1, <1>2, <1>3, <2>1, <2>2 DEF SuperLogged<1>9. ASSUME ~map.regressed PROVE MapInv'
  <2>0. Records /\ Reservations /\ Coverage /\ Entries
    BY <1>9 DEF Inv, MapInv
  <2>1. Records' /\ Reservations'
    BY <1>1, <1>2, <2>0 DEF Records, Reservations, Fresh
  <2>2. \A q \in Pages : Applied(q)' = Applied(q)
    BY <1>1, Zenon DEF Applied
  <2>3. ASSUME NEW i \in 1 .. Len(wal), wal[i].remap PROVE Covers(i)'
    <3>1. Covers(i) /\ wal[i].page \in Pages
      BY <2>0, <2>3, Numbers, RecordNumbers, ZenonT(60) DEF Coverage
    <3>2. Applied(wal[i].page)' = Applied(wal[i].page)
      BY <1>1, <2>2, <3>1
    <3>3. i <= ckpt.redo => wal[i].nextFree <= super.nextFree
      <4>1. ckpt.redo <= Applied(wal[i].page)
        BY <1>1, <3>1, RedoApplied DEF Dumping
      <4>2. ckpt.redo \in Int /\ Len(wal) \in Nat /\ Applied(wal[i].page) \in Int
        <5>1. ckpt.redo \in Nat /\ Len(wal) \in Nat
          BY Numbers
        <5>2. Applied(wal[i].page) \in 0 .. Len(wal)
          BY <3>1, AppliedRange
        <5> QED BY <5>1, <5>2
      <4>3. i <= ckpt.redo => i <= Applied(wal[i].page)
        BY <4>1, <4>2
      <4> QED BY <3>1, <4>3 DEF Covers
    <3> QED BY <1>1, <1>2, <3>1, <3>2, <3>3 DEF Covers
  <2>4. Coverage'
    BY <1>1, <2>3 DEF Coverage
  <2>5. ASSUME NEW q \in Pages PROVE Entry(q)'
    <3>1. /\ Entry(q) /\ Applied(q)' = Applied(q) /\ Applied(q) \in Int
          /\ ctlRedo \in Int /\ ckpt.redo \in Int /\ map.lsn \in Int
      BY <2>0, <2>2, AppliedRange, Numbers, SMTT(40) DEF Entries
    <3>2. Larger(walFlushed, map.lsn) <= Larger(walFlushed', map.lsn)
          /\ Larger(walFlushed, map.lsn) \in Int /\ Larger(walFlushed', map.lsn) \in Int
      BY <1>3, <3>1 DEF Larger
    <3>3. AsOf(wal, q, map.pblk[q], Applied(q), Larger(walFlushed', map.lsn))
      <4>1. AsOf(wal, q, map.pblk[q], Applied(q), Larger(walFlushed, map.lsn))
        BY <3>1 DEF Entry
      <4> QED BY <3>1, <3>2, <4>1, AsOfWeaker
    <3>4. ASSUME NEW v, NEW lo \in Int, AsOf(wal, q, v, lo, walFlushed)
          PROVE  AsOf(wal, q, v, lo, walFlushed')
      BY <1>3, <3>4, AsOfWeaker
    <3>5. AsOf(wal, q, mapFile.cached[q], ckpt.redo, walFlushed)
      BY <1>1, <3>1 DEF Entry, Dumping
    <3> QED BY <1>1, <3>1, <3>3, <3>4, <3>5 DEF Entry
  <2> QED BY <2>1, <2>4, <2>5 DEF MapInv, Entries
<1> QED BY <1>1, <1>4, <1>6, <1>7, <1>8, <1>9 DEF Inv

\* ProcessSyncRequests makes durable what MapCheckpoint wrote.
LEMMA SyncStep ==
    ASSUME Inv, LsnInv', CkptSync
    PROVE  Inv'
<1>1. /\ UNCHANGED <<wal, walFlushed, ctlRedo, map, ins, mode>>
      /\ ckpt.phase = "sync" /\ ckpt'.phase = "record" /\ ckpt'.redo = ckpt.redo
      /\ ckpt'.waitFor = ckpt.waitFor
    BY Numbers DEF CkptSync, CkptStep, walVars, TypeOK, CkptType
<1>2. /\ super'.cached = super.cached /\ super'.synced = super.cached
      /\ super'.nextFree = super.nextFree /\ super'.reserved = super.reserved
      /\ super'.lsn = super.lsn
      /\ mapFile'.cached = mapFile.cached /\ mapFile'.synced = mapFile.cached
    BY Numbers DEF CkptSync, TypeOK, SuperType, MapFileType
<1>3. Marks'
    BY <1>1 DEF Inv, Marks
<1>4. /\ super.synced <= super.cached /\ NPages <= super.cached
      /\ super.cached \in Int /\ super.synced \in Int
  <2>1. super.cached \in Int /\ super.synced \in Int /\ NPages \in Int
    BY Numbers, SMTT(40)
  <2>2. super.synced <= super.cached /\ NPages <= super.synced
    BY DEF Inv, Frontiers
  <2> QED BY <2>1, <2>2
<1>5. Frontiers'
    BY <1>2, <1>4 DEF Inv, Frontiers
<1>6. Flights'
    BY <1>1, Zenon DEF Inv, Flights, Flight, Dumping
<1>7. SuperLogged'
    BY <1>1, <1>2 DEF Inv, SuperLogged
<1>8. ASSUME ~map.regressed PROVE MapInv'
  <2>0. Records /\ Reservations /\ Coverage /\ Entries
    BY <1>8 DEF Inv, MapInv
  <2>1. Records' /\ Reservations'
    BY <1>1, <1>2, <2>0 DEF Records, Reservations, Fresh
  <2>2. \A q \in Pages : Applied(q)' = Applied(q)
    BY <1>1, Zenon DEF Applied
  <2>3. ASSUME NEW i \in 1 .. Len(wal), wal[i].remap PROVE Covers(i)'
    <3>1. Covers(i) /\ wal[i].page \in Pages /\ wal[i].nextFree \in Int
      BY <2>0, <2>3, Numbers, RecordNumbers, SMTT(40) DEF Coverage
    <3>2. Applied(wal[i].page)' = Applied(wal[i].page)
      BY <1>1, <2>2, <3>1
    <3>3. wal[i].nextFree <= super.synced => wal[i].nextFree <= super.cached
      BY <1>4, <3>1
    <3> QED BY <1>1, <1>2, <3>1, <3>2, <3>3 DEF Covers, Dumped, Dumping
  <2>4. Coverage'
    BY <1>1, <2>3, SMTT(40) DEF Coverage
  <2>5. ASSUME NEW q \in Pages PROVE Entry(q)'
    <3>1. Entry(q) /\ Applied(q)' = Applied(q)
      BY <2>0, <2>2 DEF Entries
    <3> QED BY <1>1, <1>2, <3>1 DEF Entry, Dumping
  <2> QED BY <2>1, <2>4, <2>5 DEF MapInv, Entries
<1> QED BY <1>1, <1>3, <1>5, <1>6, <1>7, <1>8 DEF Inv
\* The checkpoint record: recovery will start at its redo point.
LEMMA CompleteStep ==
    ASSUME Inv, LsnInv', CkptComplete
    PROVE  Inv'
<1>1. /\ UNCHANGED <<wal, map, mapFile, super, ins>> /\ ckpt.phase = "record"
      /\ ckpt'.phase = "idle" /\ walFlushed' = Len(wal) /\ ctlRedo' = ckpt.redo
    BY DEF CkptComplete, mapVars, NoCheckpoint
<1>2. mode.phase # "redo" /\ mode'.phase # "redo"
    BY <1>1, Numbers DEF CkptComplete, TypeOK, ModeType, Positions
<1>3. /\ Len(wal) \in Nat /\ walFlushed \in Nat /\ walFlushed <= Len(wal)
      /\ ckpt.redo \in Nat /\ ckpt.redo <= Len(wal) /\ map.lsn \in Nat /\ super.lsn \in Nat
    BY <1>1, Numbers DEF Inv, Marks
<1>4. Marks'
    BY <1>1, <1>2, <1>3 DEF Marks
<1>5. Frontiers'
    BY <1>1 DEF Inv, Frontiers
<1>6. Flights'
    BY <1>1, Zenon DEF Inv, Flights, Flight, Dumping
<1>7. SuperLogged'
  <2>1. ASSUME NEW f, NEW a \in Nat, NEW b \in Nat, a <= b, Published(wal, f, a)
        PROVE  Published(wal, f, b)
    BY <2>1 DEF Published
  <2>2. /\ Larger(walFlushed, super.lsn) \in Nat /\ Larger(Len(wal), super.lsn) \in Nat
        /\ Larger(walFlushed, super.lsn) <= Larger(Len(wal), super.lsn)
    BY <1>3, SMTT(40) DEF Larger
  <2> QED BY <1>1, <1>3, <2>1, <2>2 DEF Inv, SuperLogged
<1>8. ASSUME ~map.regressed PROVE MapInv'
  <2>0. Records /\ Reservations /\ Coverage /\ Entries
    BY <1>8 DEF Inv, MapInv
  <2>1. Records' /\ Reservations'
    BY <1>1, <2>0 DEF Records, Reservations, Fresh
  <2>2. \A q \in Pages : Applied(q)' = Applied(q)
    BY <1>1, <1>2, Zenon DEF Applied
  <2>3. ASSUME NEW i \in 1 .. Len(wal), wal[i].remap PROVE Covers(i)'
    <3>1. Covers(i) /\ wal[i].page \in Pages
      BY <2>0, <2>3, Numbers, RecordNumbers, ZenonT(60) DEF Coverage
    <3>2. Applied(wal[i].page)' = Applied(wal[i].page)
      BY <1>1, <2>2, <3>1
    <3> QED BY <1>1, <1>2, <3>1, <3>2 DEF Covers, Dumped, Dumping
  <2>4. Coverage'
    BY <1>1, <2>3 DEF Coverage
  <2>5. ASSUME NEW q \in Pages PROVE Entry(q)'
    <3>1. Entry(q) /\ Applied(q)' = Applied(q) /\ Applied(q) \in Int
      BY <2>0, <2>2, AppliedRange DEF Entries
    <3>2. Larger(walFlushed, map.lsn) <= Larger(Len(wal), map.lsn)
          /\ Larger(walFlushed, map.lsn) \in Int /\ Larger(Len(wal), map.lsn) \in Int
      BY <1>3 DEF Larger
    <3>3. AsOf(wal, q, map.pblk[q], Applied(q), Larger(Len(wal), map.lsn))
      <4>1. AsOf(wal, q, map.pblk[q], Applied(q), Larger(walFlushed, map.lsn))
        BY <3>1 DEF Entry
      <4> QED BY <3>1, <3>2, <4>1, AsOfWeaker
    <3>4. ASSUME NEW v, AsOf(wal, q, v, ckpt.redo, walFlushed)
          PROVE  AsOf(wal, q, v, ckpt.redo, Len(wal))
      BY <1>3, <3>4, AsOfWeaker
    <3> QED BY <1>1, <3>1, <3>3, <3>4 DEF Entry, Dumping
  <2> QED BY <2>1, <2>4, <2>5 DEF MapInv, Entries
<1> QED BY <1>1, <1>4, <1>5, <1>6, <1>7, <1>8 DEF Inv

-----------------------------------------------------------------------------
(* Crash and redo.                                                         *)

\* What a crash leaves: a prefix of the WAL with everything flushed, and
\* entries and a frontier from the files.
LEMMA CrashEffect ==
    ASSUME Inv, Crash
    PROVE  \E keep \in walFlushed .. Len(wal), sb \in {super.synced, super.cached} :
              /\ Len(wal') = keep /\ \A k \in 1 .. keep : wal'[k] = wal[k]
              /\ walFlushed' = keep
              /\ mapFile'.synced = mapFile'.cached /\ map'.pblk = mapFile'.cached
              /\ \A q \in Pages : mapFile'.cached[q] \in {mapFile.synced[q], mapFile.cached[q]}
              /\ map'.lsn = 0 /\ map'.regressed = map.regressed
              /\ super' = [nextFree |-> sb, reserved |-> sb, lsn |-> 0,
                           cached |-> sb, synced |-> sb]
<1>1. PICK keep \in walFlushed .. Len(wal),
           entries \in [Pages -> {"synced", "cached"}], sb \in {super.synced, super.cached} :
        LET mapAfter == [p \in Pages |-> IF entries[p] = "synced" THEN mapFile.synced[p]
                                         ELSE mapFile.cached[p]]
        IN
        /\ wal' = SubSeq(wal, 1, keep)
        /\ walFlushed' = keep
        /\ mapFile' = [cached |-> mapAfter, synced |-> mapAfter]
        /\ map' = [map EXCEPT !.pblk = mapAfter, !.lsn = 0]
        /\ super' = [nextFree |-> sb, reserved |-> sb, lsn |-> 0,
                      cached |-> sb, synced |-> sb]
    BY Zenon DEF Crash
<1> DEFINE mapAfter == [p \in Pages |-> IF entries[p] = "synced" THEN mapFile.synced[p]
                                         ELSE mapFile.cached[p]]
<1>2. wal' = SubSeq(wal, 1, keep) /\ keep \in 0 .. Len(wal) /\ wal \in Seq(RecordType)
    BY <1>1, Numbers DEF TypeOK
<1>3. Len(wal') = keep /\ \A k \in 1 .. keep : wal'[k] = wal[k]
    BY <1>2, LenNat
<1>4. mapFile' = [cached |-> mapAfter, synced |-> mapAfter]
      /\ map' = [map EXCEPT !.pblk = mapAfter, !.lsn = 0] /\ map \in MapType
    BY <1>1, Numbers DEF TypeOK
<1>5. \A q \in Pages : mapAfter[q] \in {mapFile.synced[q], mapFile.cached[q]}
    OBVIOUS
<1> HIDE DEF mapAfter
<1>6. /\ mapFile'.synced = mapAfter /\ mapFile'.cached = mapAfter /\ map'.pblk = mapAfter
      /\ map'.lsn = 0 /\ map'.regressed = map.regressed
    BY <1>4 DEF MapType
<1> QED BY <1>1, <1>3, <1>5, <1>6, Zenon

\* The invariant through a crash: memory is gone, the files and the flushed records stay.
LEMMA CrashStep ==
    ASSUME Inv, LsnInv', Crash
    PROVE  Inv'
<1>0. /\ ctlRedo' = ctlRedo /\ ckpt' = NoCheckpoint /\ ins' = [p \in Pages |-> NoInsert]
      /\ mode'.phase = "redo" /\ mode'.cursor = ctlRedo + 1
    BY DEF Crash
<1>1. PICK keep \in walFlushed .. Len(wal), sb \in {super.synced, super.cached} :
              /\ Len(wal') = keep /\ \A k \in 1 .. keep : wal'[k] = wal[k]
              /\ walFlushed' = keep
              /\ mapFile'.synced = mapFile'.cached /\ map'.pblk = mapFile'.cached
              /\ \A q \in Pages : mapFile'.cached[q] \in {mapFile.synced[q], mapFile.cached[q]}
              /\ map'.lsn = 0 /\ map'.regressed = map.regressed
              /\ super' = [nextFree |-> sb, reserved |-> sb, lsn |-> 0,
                           cached |-> sb, synced |-> sb]
    BY CrashEffect
<1>2. /\ walFlushed \in Nat /\ keep \in Nat /\ walFlushed <= keep /\ ctlRedo \in Nat
      /\ ctlRedo <= keep /\ ctlRedo <= walFlushed /\ 1 .. keep \subseteq 1 .. Len(wal)
  <2>1. walFlushed \in Nat /\ Len(wal) \in Nat /\ ctlRedo \in Nat /\ ctlRedo <= walFlushed
    BY Numbers DEF Inv, Marks
  <2> QED BY <1>1, <2>1
<1>3. NPages <= sb /\ super.synced <= sb /\ sb \in Int /\ super.synced \in Int
  <2>1. super.synced \in Int /\ super.cached \in Int /\ NPages \in Int
    BY Numbers, SMTT(40)
  <2>2. NPages <= super.synced /\ super.synced <= super.cached
    BY DEF Inv, Frontiers
  <2> QED BY <1>1, <2>1, <2>2
<1>4. /\ super'.nextFree = sb /\ super'.reserved = sb /\ super'.lsn = 0
      /\ super'.cached = sb /\ super'.synced = sb
    BY <1>1
<1>5. Marks'
    BY <1>0, <1>1, <1>2 DEF Marks, NoCheckpoint
<1>6. Frontiers'
    BY <1>3, <1>4 DEF Frontiers
<1>7. Flights'
    BY <1>0 DEF Flights, NoInsert
<1>8. Larger(keep, 0) = keep
    BY <1>2 DEF Larger
<1>9. SuperLogged'
  <2>1. Published(wal, sb, walFlushed)
    BY <1>1 DEF Inv, SuperLogged
  <2>2. Published(wal', sb, keep)
    BY <1>1, <1>2, <2>1 DEF Published
  <2> QED BY <1>1, <1>4, <1>8, <2>2, SMTT(40) DEF SuperLogged
<1>10. ASSUME ~map.regressed PROVE MapInv'
  <2>0. Records /\ Coverage /\ Entries
    BY <1>10 DEF Inv, MapInv
  <2>1. SameLog(wal, wal', keep)
    BY <1>1 DEF SameLog, SameMap
  <2>2. Records'
    <3>1. \A i \in 1 .. keep : Forward(wal'[i])
      BY <1>1, <1>2, <2>0, SMTT(40) DEF Records
    <3>2. \A i, j \in 1 .. keep :
            wal'[i].remap /\ wal'[j].remap /\ wal'[i].new = wal'[j].new => i = j
      BY <1>1, <1>2, <2>0 DEF Records
    <3>3. ASSUME NEW i \in 1 .. keep, wal'[i].remap
          PROVE  AsOf(wal', wal'[i].page, wal'[i].old, i - 1, i - 1)
      <4>1. AsOf(wal, wal'[i].page, wal'[i].old, i - 1, i - 1)
        BY <1>1, <1>2, <2>0, <3>3 DEF Records
      <4>2. NoRemap(wal', wal'[i].page, (i - 1) + 1, i - 1) /\ i - 1 \in Int /\ i - 1 <= keep
        BY <1>2 DEF NoRemap
      <4> QED BY <1>2, <2>1, <4>1, <4>2, AsOfKept, SMTT(40)
    <3> QED BY <1>1, <3>1, <3>2, <3>3, Zenon DEF Records
  <2>3. Reservations'
    BY <1>0 DEF Reservations, NoInsert
  <2>4. ASSUME NEW q \in Pages PROVE Applied(q)' = (ctlRedo + 1) - 1
    BY <1>0 DEF Applied
  <2>5. ASSUME NEW i \in 1 .. keep, wal'[i].remap PROVE Covers(i)'
    <3>1. Covers(i) /\ wal[i].page \in Pages /\ wal[i].nextFree \in Int /\ wal'[i] = wal[i]
      <4>1. wal'[i] = wal[i] /\ i \in 1 .. Len(wal)
        BY <1>1, <1>2
      <4> QED BY <2>0, <2>5, <4>1, Numbers, RecordNumbers, ZenonT(60) DEF Coverage
    <3>2. i <= ctlRedo => wal[i].nextFree <= sb
      BY <1>3, <3>1 DEF Covers
    <3>3. i <= Applied(wal[i].page)' => i <= ctlRedo
      <4>1. Applied(wal[i].page)' = (ctlRedo + 1) - 1
        BY <1>0 DEF Applied
      <4> QED BY <1>2, <4>1
    <3>4. ctlRedo + 1 <= i \/ i <= ctlRedo
      BY <1>2
    <3> QED BY <1>0, <1>4, <3>1, <3>2, <3>3, <3>4, SMTT(40)
            DEF Covers, NoCheckpoint, Dumped, Dumping
  <2>6. Coverage'
    BY <1>1, <2>5, SMTT(40) DEF Coverage
  <2>7. ASSUME NEW q \in Pages PROVE Entry(q)'
    <3>1. AsOf(wal, q, mapFile'.cached[q], ctlRedo, walFlushed)
      BY <1>1, <2>0, ZenonT(60) DEF Entries, Entry
    <3>2. NoRemap(wal', q, ctlRedo + 1, ctlRedo)
      BY <1>2, SMTT(40) DEF NoRemap
    <3>3. AsOf(wal', q, mapFile'.cached[q], ctlRedo, keep)
      BY <1>2, <2>1, <3>1, <3>2, AsOfKept
    <3>4. Applied(q)' = ctlRedo
      BY <1>2, <2>4
    <3> QED BY <1>0, <1>1, <1>8, <3>3, <3>4, SMTT(40) DEF Entry, NoCheckpoint, Dumping
  <2> QED BY <2>2, <2>3, <2>6, <2>7 DEF MapInv, Entries
<1> QED BY <1>1, <1>5, <1>6, <1>7, <1>9, <1>10 DEF Inv
\* A step of recovery that brings the MAP up to record a.
LEMMA ReplayStep ==
    ASSUME Inv, LsnInv', mode.phase = "redo",
           UNCHANGED <<wal, walFlushed, ctlRedo, mapFile, ins, ckpt>>,
           Marks', SuperLogged',
           super'.cached = super.cached, super'.synced = super.synced,
           super.nextFree <= super'.nextFree, super'.nextFree <= super'.reserved,
           ~map'.regressed => ~map.regressed,
           NEW a \in 0 .. Len(wal),
           IF mode'.phase = "redo" THEN mode'.cursor = a + 1 ELSE a = Len(wal),
           \A i \in 1 .. a : wal[i].remap =>
              i <= mode.cursor - 1 \/ wal[i].nextFree <= super'.nextFree,
           ~map'.regressed => \A q \in Pages : AsOf(wal, q, map'.pblk[q], a, Len(wal))
    PROVE  Inv'
<1>1. Frontiers'
  <2>1. super.cached \in Int /\ super.nextFree \in Int /\ super'.nextFree \in Int
    <3>1. super' \in SuperType /\ Frontier \subseteq Int
      BY ConstantFacts, SMTT(40) DEF LsnInv, TypeInv, TypeOK, Frontier
    <3>2. super.cached \in Int /\ super.nextFree \in Int
      BY Numbers
    <3> QED BY <3>1, <3>2, ZenonT(60) DEF SuperType
  <2>2. NPages <= super.synced /\ super.synced <= super.cached /\ super.cached <= super.nextFree
    BY DEF Inv, Frontiers
  <2>3. super.cached <= super'.nextFree
    BY <2>1, <2>2, SMTT(40)
  <2> QED BY <2>2, <2>3 DEF Frontiers
<1>2. /\ \A q \in Pages : ins[q].pc = "idle"
      /\ walFlushed = Len(wal) /\ ckpt.phase = "idle"
    BY Numbers, SMTT(40) DEF Positions, Inv, LsnInv, LsnsBehind
<1>3. Flights'
    BY <1>2, SMTT(40) DEF Inv, Flights
<1>4. ASSUME ~map'.regressed PROVE MapInv'
  <2>0. Records /\ Coverage /\ Entries
    BY <1>4, SMTT(40) DEF Inv, MapInv
  <2>1. Records' /\ Reservations'
    BY <1>2, <2>0, SMTT(40) DEF Records, Reservations
  <2>2. Len(wal) \in Nat /\ a + 1 - 1 = a
    BY Numbers
  <2>3. ASSUME NEW q \in Pages PROVE Applied(q)' = a
    <3>1. ins'[q].pc = "idle"
      BY <1>2
    <3>2. CASE mode'.phase = "redo"
      BY <2>2, <3>2 DEF Applied
    <3>3. CASE mode'.phase # "redo"
      BY <3>1, <3>3, SMTT(40) DEF Applied
    <3> QED BY <3>2, <3>3
  <2>4. ASSUME NEW i \in 1 .. Len(wal), wal[i].remap PROVE Covers(i)'
    <3>1. Covers(i) /\ wal[i].page \in Pages /\ wal[i].nextFree \in Int
      BY <2>0, <2>4, Numbers, RecordNumbers, ZenonT(60) DEF Coverage
    <3>2. Applied(wal[i].page) = mode.cursor - 1 /\ Applied(wal[i].page)' = a
      BY <2>3, <3>1 DEF Applied
    <3>3. /\ super.nextFree \in Int /\ super'.nextFree \in Int /\ super'.reserved \in Int
      <4>1. super' \in SuperType /\ Frontier \subseteq Int
        BY ConstantFacts, SMTT(40) DEF LsnInv, TypeInv, TypeOK, Frontier
      <4>2. super.nextFree \in Int
        BY Numbers
      <4> QED BY <4>1, <4>2, ZenonT(60) DEF SuperType
    <3>4. i <= a => wal[i].nextFree <= super'.nextFree /\ wal[i].nextFree <= super'.reserved
      <4>1. ASSUME i <= a PROVE wal[i].nextFree <= super'.nextFree
        <5>1. i \in 1 .. a
          BY <4>1
        <5>2. CASE i <= mode.cursor - 1
          <6>1. wal[i].nextFree <= super.nextFree
            BY <3>1, <3>2, <5>2, SMTT(40) DEF Covers
          <6> QED BY <3>1, <3>3, <6>1, SMTT(40)
        <5> QED BY <2>4, <5>1, <5>2
      <4> QED BY <3>1, <3>3, <4>1
    <3>5. i <= a \/ a + 1 <= i
      OBVIOUS
    <3>6. (mode'.phase = "redo" /\ mode'.cursor <= i) \/ wal[i].nextFree <= super'.reserved
      BY <3>4, <3>5
    <3> QED BY <1>2, <3>1, <3>2, <3>4, <3>6, SMTT(40) DEF Covers, Dumped, Dumping
  <2>5. Coverage'
    BY <2>4 DEF Coverage
  <2>6. Larger(walFlushed, map'.lsn) = Len(wal)
    <3>1. map'.lsn \in Nat /\ map'.lsn <= Len(wal)
      BY SMTT(40) DEF LsnInv, TypeInv, TypeOK, MapType, LsnsBehind
    <3> QED BY <1>2, <2>2, <3>1, SMTT(40) DEF Larger
  <2>7. ASSUME NEW q \in Pages PROVE Entry(q)'
    <3>1. Entry(q) /\ AsOf(wal, q, map'.pblk[q], a, Len(wal)) /\ Applied(q)' = a
      BY <1>4, <2>0, <2>3, ZenonT(60) DEF Entries
    <3> QED BY <1>2, <2>6, <3>1, ZenonT(60) DEF Entry, Dumping
  <2> QED BY <2>1, <2>5, <2>7, SMTT(40) DEF MapInv, Entries
<1> QED BY <1>1, <1>3, <1>4 DEF Inv

\* During recovery the MAP accounts for the records before the cursor.
LEMMA RedoFacts ==
    ASSUME Inv, mode.phase = "redo"
    PROVE  /\ Len(wal) \in Nat /\ walFlushed = Len(wal) /\ ckpt.phase = "idle"
           /\ ctlRedo \in Nat /\ ctlRedo < mode.cursor /\ ctlRedo <= walFlushed
           /\ mode.cursor \in 1 .. (Len(wal) + 1)
           /\ super.nextFree <= super.nextFree /\ super.nextFree <= super.reserved
           /\ ~map.regressed =>
                \A q \in Pages : AsOf(wal, q, map.pblk[q], mode.cursor - 1, Len(wal))
<1>1. Len(wal) \in Nat /\ walFlushed = Len(wal) /\ ckpt.phase = "idle"
    BY Numbers DEF Inv, LsnInv, LsnsBehind, Positions
<1>2. /\ ctlRedo \in Nat /\ mode.cursor \in Nat /\ ctlRedo < mode.cursor
      /\ mode.cursor <= Len(wal) + 1 /\ ctlRedo <= walFlushed
    BY Numbers DEF Inv, Marks
<1>3. super.nextFree \in Int /\ super.nextFree <= super.reserved
    BY Numbers DEF Inv, Frontiers
<1>4. Larger(walFlushed, map.lsn) = Len(wal)
  <2>1. map.lsn \in Nat /\ map.lsn <= Len(wal)
    BY Numbers, SMTT(40)
  <2> QED BY <1>1, <2>1 DEF Larger
<1>5. ~map.regressed =>
          \A q \in Pages : AsOf(wal, q, map.pblk[q], mode.cursor - 1, Len(wal))
    BY <1>4, SMTT(40) DEF Inv, MapInv, Entries, Entry, Applied
<1> QED BY <1>1, <1>2, <1>3, <1>5, SMTT(40)

\* The invariant through the redo of a change without remap.
LEMMA RedoPlainStep == ASSUME Inv, LsnInv', RedoPlain PROVE Inv'
<1>1. /\ UNCHANGED <<wal, walFlushed, ctlRedo, map, mapFile, super, ins, ckpt>>
      /\ mode.phase = "redo" /\ mode.cursor <= Len(wal) /\ ~wal[mode.cursor].remap
      /\ mode'.phase = "redo" /\ mode'.cursor = mode.cursor + 1
    BY Numbers DEF RedoPlain, Redoing, walVars, mapVars, TypeOK, ModeType
<1>2. PICK a \in 0 .. Len(wal) : a = mode.cursor /\ a >= 1
    BY <1>1, RedoFacts
<1>3. Marks'
    BY <1>1, RedoFacts, SMTT(40) DEF Marks
<1>4. SuperLogged'
    BY <1>1 DEF Inv, SuperLogged
<1>5. \A i \in 1 .. a : wal[i].remap => i <= mode.cursor - 1 \/ wal[i].nextFree <= super'.nextFree
    BY <1>1, <1>2
<1>6. ASSUME ~map.regressed, NEW q \in Pages PROVE AsOf(wal, q, map.pblk[q], a, Len(wal))
  <2>1. AsOf(wal, q, map.pblk[q], a - 1, Len(wal))
    BY <1>1, <1>2, <1>6, RedoFacts
  <2>2. NoRemap(wal, q, (a - 1) + 1, a)
    BY <1>1, <1>2 DEF NoRemap, Remaps
  <2>3. SameLog(wal, wal, Len(wal)) /\ Len(wal) \in Nat
    BY <1>1, RedoFacts DEF SameLog, SameMap
  <2> QED BY <2>1, <2>2, <2>3, AsOfKept
<1>7. super.nextFree <= super.nextFree /\ super.nextFree <= super.reserved
    BY <1>1, RedoFacts, SMTT(40)
<1> QED BY <1>1, <1>2, <1>3, <1>4, <1>5, <1>6, <1>7, ReplayStep, SMTT(40)

\* The invariant when redo reads the old block of a remap.
LEMMA RedoRemapOldStep == ASSUME Inv, LsnInv', RedoRemapOld PROVE Inv'
<1> DEFINE p == wal[mode.cursor].page
<1>1. /\ UNCHANGED <<wal, walFlushed, ctlRedo, mapFile, super, ins, ckpt>>
      /\ mode.phase = "redo" /\ mode.cursor <= Len(wal) /\ wal[mode.cursor].remap
      /\ mode'.phase = "redo" /\ mode'.cursor = mode.cursor
      /\ map' = SetMapping(p, wal[mode.cursor].old, mode.cursor)
    BY Numbers DEF RedoRemapOld, Redoing, walVars, TypeOK, ModeType
<1>2. PICK a \in 0 .. Len(wal) : a = mode.cursor - 1
    BY <1>1, RedoFacts
<1>3. /\ mode.cursor \in 1 .. Len(wal) /\ mode.cursor \in Int /\ Len(wal) \in Nat
      /\ mode.cursor = a + 1
    BY <1>1, <1>2, RedoFacts
<1>4. p \in Pages
    BY <1>3, Numbers, RecordNumbers, SMTT(40)
<1>5. /\ map'.pblk[p] = wal[mode.cursor].old
      /\ \A q \in Pages \ {p} : map'.pblk[q] = map.pblk[q]
      /\ ~map'.regressed => ~map.regressed
    BY <1>1, <1>3, <1>4, SetMappingEffect
<1>6. Marks'
    BY <1>1, RedoFacts, SMTT(40) DEF Marks
<1>7. SuperLogged'
    BY <1>1 DEF Inv, SuperLogged
<1>8. ASSUME ~map'.regressed, NEW q \in Pages PROVE AsOf(wal, q, map'.pblk[q], a, Len(wal))
  <2>1. CASE q # p
    BY <1>1, <1>2, <1>5, <1>8, <2>1, RedoFacts, ZenonT(60)
  <2>2. CASE q = p
    <3>1. AsOf(wal, p, wal[mode.cursor].old, mode.cursor - 1, mode.cursor - 1)
      BY <1>1, <1>3, <1>5, <1>8 DEF Inv, MapInv, Records
    <3>2. AsOf(wal, p, wal[mode.cursor].old, a, Len(wal))
      BY <1>2, <1>3, <3>1, AsOfWeaker
    <3> QED BY <1>5, <2>2, <3>2, SMTT(40)
  <2> QED BY <2>1, <2>2, SMTT(40)
<1>9. /\ super.nextFree <= super.nextFree /\ super.nextFree <= super.reserved
      /\ \A i \in 1 .. a : i <= mode.cursor - 1
    BY <1>1, <1>2, RedoFacts, SMTT(40)
<1> HIDE DEF p
<1> QED BY <1>1, <1>2, <1>3, <1>5, <1>6, <1>7, <1>8, <1>9, ReplayStep, ZenonT(60)

\* The invariant when redo publishes the new block of a remap.
LEMMA RedoRemapNewStep == ASSUME Inv, LsnInv', RedoRemapNew PROVE Inv'
<1> DEFINE p == wal[mode.cursor].page
<1>1. /\ UNCHANGED <<wal, walFlushed, ctlRedo, mapFile, ins, ckpt>>
      /\ mode.phase = "redo" /\ mode.cursor <= Len(wal) /\ wal[mode.cursor].remap
      /\ mode'.phase = "redo" /\ mode'.cursor = mode.cursor + 1
      /\ map' = SetMapping(p, wal[mode.cursor].new, mode.cursor)
      /\ super' = BumpNextFree(wal[mode.cursor].nextFree, mode.cursor)
    BY Numbers DEF RedoRemapNew, Positions, walVars, TypeOK, ModeType
<1>2. PICK a \in 0 .. Len(wal) : a = mode.cursor /\ a >= 1
    BY <1>1, RedoFacts
<1>3. a \in 1 .. Len(wal) /\ a \in Int /\ Len(wal) \in Nat /\ walFlushed = Len(wal)
    BY <1>1, <1>2, RedoFacts
<1>4. p \in Pages /\ wal[a].nextFree \in Int
    BY <1>2, <1>3, Numbers, RecordNumbers, SMTT(40)
<1>5. /\ map'.pblk[p] = wal[a].new
      /\ \A q \in Pages \ {p} : map'.pblk[q] = map.pblk[q]
      /\ ~map'.regressed => ~map.regressed
    BY <1>1, <1>2, <1>3, <1>4, SetMappingEffect, ZenonT(60)
<1>6. /\ super'.cached = super.cached /\ super'.synced = super.synced
      /\ super.nextFree <= super'.nextFree /\ wal[a].nextFree <= super'.nextFree
      /\ super'.nextFree <= super'.reserved
      /\ super' = super \/ (super'.nextFree = wal[a].nextFree /\ super'.lsn = a)
    BY <1>1, <1>2, <1>4, BumpEffect
<1>7. Marks'
    BY <1>1, <1>2, RedoFacts, SMTT(40) DEF Marks
<1>8. SuperLogged'
  <2>1. Published(wal, super'.nextFree, Larger(walFlushed, super'.lsn))
    <3>1. CASE super' = super
      BY <3>1 DEF Inv, SuperLogged
    <3>2. CASE super'.nextFree = wal[a].nextFree /\ super'.lsn = a
      <4>1. a \in 1 .. Larger(walFlushed, super'.lsn)
        BY <1>3, <3>2, SMTT(40) DEF Larger
      <4>2. wal[a].remap /\ super'.nextFree <= wal[a].nextFree
        BY <1>1, <1>2, <1>4, <3>2
      <4> QED BY <4>1, <4>2 DEF Published
    <3> QED BY <1>6, <3>1, <3>2, SMTT(40)
  <2> QED BY <1>1, <1>6, <2>1, ZenonT(60) DEF Inv, SuperLogged
<1>9. \A i \in 1 .. a : wal[i].remap => i <= mode.cursor - 1 \/ wal[i].nextFree <= super'.nextFree
  <2>1. \A i \in 1 .. a : i <= mode.cursor - 1 \/ i = a
    BY <1>2
  <2> QED BY <1>6, <2>1
<1>10. ASSUME ~map'.regressed, NEW q \in Pages PROVE AsOf(wal, q, map'.pblk[q], a, Len(wal))
  <2>1. CASE q # p
    <3>1. AsOf(wal, q, map.pblk[q], a - 1, Len(wal))
      BY <1>1, <1>2, <1>5, <1>10, RedoFacts, ZenonT(60)
    <3>2. NoRemap(wal, q, (a - 1) + 1, a)
      BY <1>2, <1>3, <2>1 DEF NoRemap, Remaps
    <3>3. SameLog(wal, wal, Len(wal))
      BY DEF SameLog, SameMap
    <3>4. AsOf(wal, q, map.pblk[q], a, Len(wal))
      BY <1>3, <3>1, <3>2, <3>3, AsOfKept, SMTT(40)
    <3> QED BY <1>5, <2>1, <3>4, SMTT(40)
  <2>2. CASE q = p
    <3>1. Remaps(wal, a, p) /\ a \in Nat \ {0} /\ a <= Len(wal)
      BY <1>1, <1>2, <1>3, SMTT(40) DEF Remaps
    <3> QED BY <1>3, <1>5, <2>2, <3>1, AsOfPublished, SMTT(40)
  <2> QED BY <2>1, <2>2, Zenon
<1> HIDE DEF p
<1> QED BY <1>1, <1>2, <1>5, <1>6, <1>7, <1>8, <1>9, <1>10, ReplayStep, ZenonT(60)

\* The invariant when recovery ends.
LEMMA RedoDoneStep == ASSUME Inv, LsnInv', RedoDone PROVE Inv'
<1>1. /\ UNCHANGED <<wal, walFlushed, ctlRedo, map, mapFile, super, ins, ckpt>>
      /\ mode.phase = "redo" /\ mode.cursor > Len(wal) /\ mode'.phase = "eor"
    BY DEF RedoDone, walVars, mapVars
<1>2. PICK a \in 0 .. Len(wal) : a = Len(wal) /\ a = mode.cursor - 1
    BY <1>1, RedoFacts
<1>3. Marks'
    BY <1>1, RedoFacts, SMTT(40) DEF Marks
<1>4. SuperLogged'
    BY <1>1 DEF Inv, SuperLogged
<1>5. /\ super.nextFree <= super.nextFree /\ super.nextFree <= super.reserved
      /\ \A i \in 1 .. a : i <= mode.cursor - 1
    BY <1>1, <1>2, RedoFacts
<1>6. ~map.regressed => \A q \in Pages : AsOf(wal, q, map.pblk[q], a, Len(wal))
    BY <1>1, <1>2, RedoFacts
<1> QED BY <1>1, <1>2, <1>3, <1>4, <1>5, <1>6, ReplayStep, SMTT(40)
-----------------------------------------------------------------------------
(* The invariant holds.                                                    *)

\* The initial state satisfies the invariant.
LEMMA InitMap == Init => Inv
<1> SUFFICES ASSUME Init PROVE Inv
    OBVIOUS
<1>1. LsnInv
    BY InitLsn, SMTT(40)
<1>2. /\ Len(wal) = 0 /\ wal = <<>> /\ walFlushed = 0 /\ ctlRedo = 0
      /\ mode.phase = "run" /\ ckpt.phase = "idle" /\ NPages \in Nat
      /\ map.lsn = 0
    BY ConstantFacts, SMTT(40) DEF Init, NoCheckpoint
<1>3. /\ super.nextFree = NPages /\ super.reserved = NPages /\ super.lsn = 0
      /\ super.cached = NPages /\ super.synced = NPages
    BY SMTT(40) DEF Init
<1>4. \A p \in Pages : /\ ins[p].pc = "idle" /\ ~ins[p].remap
                       /\ map.pblk[p] = p /\ mapFile.cached[p] = p /\ mapFile.synced[p] = p
    BY DEF Init, NoInsert
<1>5. Marks /\ Frontiers
    BY <1>2, <1>3 DEF Marks, Frontiers
<1>6. Flights
    BY <1>4 DEF Flights
<1>7. SuperLogged
    BY <1>2, <1>3, SMTT(40) DEF SuperLogged, Published
<1>8. Records /\ Reservations /\ Coverage
    BY <1>2, <1>4, SMTT(40) DEF Records, Reservations, Coverage
<1>9. ASSUME NEW p \in Pages PROVE Entry(p)
  <2>1. Applied(p) = 0
    BY <1>2, <1>4 DEF Applied
  <2>2. NoRemap(wal, p, 1, 0)
    BY SMTT(40) DEF NoRemap
  <2> QED BY <1>2, <1>4, <2>1, <2>2, ZenonT(60) DEF Entry, AsOf, Dumping
<1> QED BY <1>1, <1>5, <1>6, <1>7, <1>8, <1>9 DEF Inv, MapInv, Entries

\* Every step keeps the invariant.
LEMMA NextMap == Inv /\ [Next]_vars => Inv'
<1> SUFFICES ASSUME Inv, [Next]_vars PROVE Inv'
    OBVIOUS
<1>0. LsnInv'
    BY NextLsn DEF Inv
<1>1. CASE UNCHANGED vars
  <2>1. walFlushed' \in Int /\ CkptOn
    BY <1>1, Numbers DEF vars, CkptOn
  <2> QED BY <1>0, <1>1, <2>1, AsideStep, SMTT(40) DEF vars
<1>2. ASSUME NEW p \in Pages, FlushBuffer(p, TRUE) \/ FlushBuffer(p, FALSE)
      PROVE  walFlushed <= walFlushed'
  <2>1. walFlushed' = Larger(walFlushed, buf[p].lsn)
    BY <1>2, Zenon DEF FlushBuffer, XLogFlush
  <2>2. walFlushed \in Int /\ buf[p].lsn \in Int
    BY Numbers DEF TypeOK, BufferType, Content, Garbage
  <2> QED BY <2>1, <2>2 DEF Larger
<1>3. walFlushed <= walFlushed
    BY Numbers
<1>4. ASSUME NEW p \in Pages, ReadBuffer(p) \/ Evict(p) PROVE Inv'
    BY <1>0, <1>3, <1>4, AsideStep DEF ReadBuffer, Evict, walVars, mapVars, CkptOn
<1>5. ASSUME NEW p \in Pages, BgWrite(p) \/ FlushVictim(p) PROVE Inv'
    BY <1>0, <1>2, <1>5, AsideStep, ZenonT(60) DEF BgWrite, FlushVictim, mapVars, CkptOn
<1>6. ASSUME NEW p \in Pages, NEW kind \in Kinds, BeginInsert(p, kind) PROVE Inv'
  <2>1. /\ kind \in AllKinds /\ (~buf[p].dirty) \in BOOLEAN
        /\ Assembled(p, kind, ~buf[p].dirty)
        /\ mode.phase # "redo" /\ ins[p].pc = "idle"
        /\ UNCHANGED <<wal, walFlushed, ctlRedo, map, mapFile, ckpt, mode>>
    BY <1>6, ConstantFacts, SMTT(40) DEF BeginInsert, ContentLocked, walVars
  <2> QED BY <1>0, <2>1, AssembleStep, ZenonT(60)
<1>7. ASSUME NEW p \in Pages, RetryInsert(p) PROVE Inv'
  <2>1. /\ ins[p].kind \in AllKinds /\ ins[p].clean \in BOOLEAN
        /\ Assembled(p, ins[p].kind, ins[p].clean)
        /\ ins[p].pc = "assembled" /\ ~ins[p].remap
        /\ UNCHANGED <<wal, walFlushed, ctlRedo, map, mapFile, ckpt, mode>>
    BY <1>7, Numbers, ZenonT(60) DEF RetryInsert, Stale, walVars, TypeOK, InsertType
  <2>2. mode.phase # "redo"
    BY <2>1, Numbers, SMTT(40) DEF Positions
  <2> QED BY <1>0, <2>1, <2>2, AssembleStep
<1>8. ASSUME NEW p \in Pages, InsertRecord(p) PROVE Inv'
    BY <1>0, <1>8, InsertStep
<1>9. ASSUME NEW p \in Pages, FinishInsert(p) PROVE Inv'
    BY <1>0, <1>9, FinishStep
<1>10. ASSUME NEW p \in Pages, CkptMark(p) PROVE Inv'
  <2>1. CkptOn
    BY <1>10, Numbers DEF CkptMark, CkptOn, TypeOK, CkptType
  <2> QED BY <1>0, <1>3, <1>10, <2>1, AsideStep DEF CkptMark, walVars, mapVars
<1>11. ASSUME NEW p \in Pages, CkptWrite(p) PROVE Inv'
  <2>1. CkptOn
    BY <1>11, Numbers DEF CkptWrite, CkptOn, TypeOK, CkptType
  <2>2. walFlushed <= walFlushed'
    BY <1>2, <1>3, <1>11, ZenonT(60) DEF CkptWrite
  <2> QED BY <1>0, <1>11, <2>1, <2>2, AsideStep DEF CkptWrite, mapVars
<1>12. CASE FlushWal
  <2>1. walFlushed <= walFlushed' /\ CkptOn
    BY <1>12, Numbers DEF FlushWal, CkptOn
  <2> QED BY <1>0, <1>12, <2>1, AsideStep, SMTT(40) DEF FlushWal, mapVars
<1>13. CASE MapWriter
    BY <1>0, <1>13, MapFlushStep DEF MapWriter
<1>14. CASE CkptRedo
  <2>1. CkptOn
    BY <1>14 DEF CkptRedo, CkptOn, NoCheckpoint
  <2> QED BY <1>0, <1>3, <1>14, <2>1, AsideStep DEF CkptRedo, mapVars
<1>15. CASE CkptCollect
  <2>1. CkptOn
    BY <1>15, Numbers DEF CkptCollect, CkptOn, TypeOK, CkptType
  <2> QED BY <1>0, <1>3, <1>15, <2>1, AsideStep DEF CkptCollect, walVars, mapVars
<1>16. CASE CkptMapPages
  <2>1. ckpt'.redo = ckpt.redo /\ ckpt.phase = "wait" /\ ckpt'.phase = "super"
    BY <1>16, Numbers DEF CkptMapPages, CkptStep, TypeOK, CkptType
  <2> QED BY <1>0, <1>16, <2>1, MapFlushStep DEF CkptMapPages
<1>17. CASE CkptCapture
  <2>1. CkptOn
    BY <1>17, Numbers DEF CkptCapture, CkptOn, TypeOK, CkptType
  <2> QED BY <1>0, <1>3, <1>17, <2>1, AsideStep DEF CkptCapture, walVars, mapVars
<1>18. CASE CkptCaptureEnd
  <2>1. CkptOn
    BY <1>18, Numbers, SMTT(40) DEF CkptCaptureEnd, CkptStep, CkptOn, TypeOK, CkptType
  <2> QED BY <1>0, <1>3, <1>18, <2>1, AsideStep DEF CkptCaptureEnd, walVars, mapVars
<1>19. CASE CkptFail
    BY <1>0, <1>3, <1>19, AsideStep, SMTT(40) DEF CkptFail, CkptOn, NoCheckpoint, walVars, mapVars
<1> QED BY <1>0, <1>1, <1>4, <1>5, <1>6, <1>7, <1>8, <1>9, <1>10, <1>11, <1>12, <1>13, <1>14,
           <1>15, <1>16, <1>17, <1>18, <1>19, SuperStep, SyncStep, CompleteStep, CrashStep,
           RedoPlainStep, RedoRemapOldStep, RedoRemapNewStep, RedoDoneStep, SMTT(40) DEF Next
-----------------------------------------------------------------------------
(* The theorems.                                                           *)

\* WAL before MAP: as long as no MAP page_lsn went back, the metadata fork holds
\* no entry, and the superblock no frontier, that only an unflushed record
\* publishes (MapFlushWritePage, MapFlushWriteSuperblockEntry).
LEMMA InvWalBeforeMap == Inv => WalBeforeMapInOrder
<1> SUFFICES ASSUME Inv PROVE WalBeforeMapInOrder
    OBVIOUS
<1>1. ASSUME ~map.regressed, NEW i \in (walFlushed + 1) .. Len(wal), wal[i].remap
      PROVE  mapFile.cached[wal[i].page] # wal[i].new
  <2>0. i \in 1 .. Len(wal) /\ walFlushed \in Nat /\ walFlushed <= Len(wal) /\ NPages \in Nat
    BY Numbers
  <2>1. wal[i].page \in Pages /\ wal[i].new \in Int
    BY <2>0, Numbers, RecordNumbers, SMTT(40)
  <2>2. Records /\ Entry(wal[i].page)
    BY <1>1, <2>1 DEF Inv, MapInv, Entries
  <2>3. NPages <= wal[i].new /\ wal[i].page # wal[i].new
    <3>1. NPages <= wal[i].new
      BY <1>1, <2>0, <2>2 DEF Records, Forward
    <3> QED BY <2>0, <2>1, <3>1, SMTT(40) DEF Pages
  <2>4. \A j \in 1 .. walFlushed : wal[j].remap => wal[j].new # wal[i].new
    <3>1. \A j \in 1 .. walFlushed : j \in 1 .. Len(wal) /\ j # i
      BY <2>0, SMTT(40)
    <3> QED BY <1>1, <2>0, <2>2, <3>1 DEF Records
  <2>5. \/ mapFile.cached[wal[i].page] = wal[i].page
        \/ \E j \in 1 .. walFlushed : wal[j].remap /\ mapFile.cached[wal[i].page] = wal[j].new
    <3>1. AsOf(wal, wal[i].page, mapFile.cached[wal[i].page], ctlRedo, walFlushed)
      BY <2>2, Zenon DEF Entry
    <3> QED BY <3>1, Zenon DEF AsOf, Remaps
  <2> QED BY <2>3, <2>4, <2>5
<1> QED BY <1>1 DEF WalBeforeMapInOrder, Inv, SuperLogged, Published

\* A completed checkpoint left on disk every mapping and the frontier of every
\* record before its redo point.
LEMMA InvCheckpointCovers == Inv => CheckpointCoversMap
<1> SUFFICES ASSUME Inv, NEW i \in 1 .. ctlRedo, wal[i].remap, Sheltered(wal[i].page)
             PROVE  /\ super.synced >= wal[i].nextFree
                    /\ \/ mapFile.synced[wal[i].page] = wal[i].new
                       \/ \E j \in (i + 1) .. Len(wal) :
                             /\ wal[j].page = wal[i].page /\ wal[j].remap
                             /\ mapFile.synced[wal[i].page] = wal[j].new
    BY DEF CheckpointCoversMap
<1>0. /\ ctlRedo \in Nat /\ walFlushed \in Nat /\ Len(wal) \in Nat /\ walFlushed <= Len(wal)
      /\ ctlRedo <= walFlushed
    BY Numbers DEF Inv, Marks
<1>1. i \in 1 .. Len(wal) /\ i <= ctlRedo
    BY <1>0, SMTT(40)
<1>2. wal[i].page \in Pages /\ wal[i].nextFree \in Int /\ super.synced \in Int
    BY <1>1, Numbers, RecordNumbers, SMTT(40)
<1>3. Covers(i) /\ Entry(wal[i].page)
    BY <1>1, <1>2 DEF Inv, MapInv, Coverage, Entries, Sheltered
<1>4. wal[i].nextFree <= super.synced
    BY <1>1, <1>3 DEF Covers
<1>5. super.synced >= wal[i].nextFree
    BY <1>2, <1>4, SMTT(40)
<1>6. AsOf(wal, wal[i].page, mapFile.synced[wal[i].page], ctlRedo, walFlushed)
    BY <1>3 DEF Entry
<1>7. ~NoRemap(wal, wal[i].page, 1, ctlRedo)
    BY DEF NoRemap, Remaps
<1>8. ASSUME NEW j \in 1 .. walFlushed, Remaps(wal, j, wal[i].page),
             NoRemap(wal, wal[i].page, j + 1, ctlRedo)
      PROVE  j = i \/ j \in (i + 1) .. Len(wal)
  <2>1. i \notin (j + 1) .. ctlRedo
    BY <1>8 DEF NoRemap, Remaps
  <2> QED BY <1>0, <2>1
<1> QED BY <1>5, <1>6, <1>7, <1>8, SMTT(40) DEF AsOf, Remaps

\* A block reserved for a remap that is not yet in the WAL is referred to by
\* nothing and by no other reservation.
LEMMA InvFreshUnreferenced == Inv => FreshIsUnreferenced
<1> SUFFICES ASSUME Inv, NEW p \in Pages, ins[p].pc = "assembled", ins[p].remap, Sheltered(p)
             PROVE  /\ ins[p].new \notin Referenced
                    /\ \A q \in Pages \ {p} : ins[q].remap => ins[q].new # ins[p].new
    BY DEF FreshIsUnreferenced, Remapping
<1>0. Records /\ Reservations /\ Entries
    BY SMTT(40) DEF Inv, MapInv, Sheltered
<1>1. Fresh(p) /\ NPages <= ins[p].new /\ NPages \in Nat /\ ins[p].new \in Int
  <2>1. Fresh(p)
    BY <1>0, SMTT(40) DEF Reservations
  <2>2. NPages \in Nat /\ ins[p].new \in Int
    BY Numbers, RecordNumbers, SMTT(40)
  <2> QED BY <2>1, <2>2 DEF Fresh, Forward
<1>2. ASSUME NEW q \in Pages, NEW v, NEW lo, NEW hi \in Int, hi <= Len(wal),
             AsOf(wal, q, v, lo, hi)
      PROVE  v # ins[p].new
  <2>1. 1 .. hi \subseteq 1 .. Len(wal)
    BY <1>2, Numbers
  <2>2. q # ins[p].new
    BY <1>1, SMTT(40) DEF Pages
  <2>3. v = q \/ \E j \in 1 .. hi : wal[j].remap /\ v = wal[j].new
    BY <1>2, AsOfSource, SMTT(40)
  <2> QED BY <1>1, <2>1, <2>2, <2>3, SMTT(40) DEF Fresh
<1>3. ASSUME NEW q \in Pages
      PROVE  /\ map.pblk[q] # ins[p].new /\ mapFile.cached[q] # ins[p].new
             /\ mapFile.synced[q] # ins[p].new
  <2>1. Entry(q)
    BY <1>0, ZenonT(60) DEF Entries
  <2>2. /\ walFlushed \in Int /\ walFlushed <= Len(wal)
        /\ Larger(walFlushed, map.lsn) \in Int /\ Larger(walFlushed, map.lsn) <= Len(wal)
    <3>1. /\ walFlushed \in Nat /\ walFlushed <= Len(wal) /\ Len(wal) \in Nat
          /\ Larger(walFlushed, map.lsn) \in walFlushed .. Len(wal)
      BY Numbers, SMTT(40)
    <3> QED BY <3>1
  <2> QED BY <1>2, <2>1, <2>2, ZenonT(60) DEF Entry
<1>4. ASSUME NEW i \in (ctlRedo + 1) .. Len(wal), wal[i].remap
      PROVE  wal[i].old # ins[p].new /\ wal[i].new # ins[p].new
  <2>1. i \in 1 .. Len(wal) /\ i - 1 \in Int /\ i - 1 <= Len(wal)
    BY Numbers
  <2>2. wal[i].page \in Pages
    BY <2>1, Numbers, RecordNumbers, ZenonT(60)
  <2>3. AsOf(wal, wal[i].page, wal[i].old, i - 1, i - 1)
    BY <1>0, <1>4, <2>1 DEF Records
  <2> QED BY <1>1, <1>2, <1>4, <2>1, <2>2, <2>3 DEF Fresh
<1>5. ins[p].new \notin Referenced
  <2> SUFFICES ASSUME NEW v \in Referenced PROVE v # ins[p].new
    BY SMTT(40)
  <2>1. \/ \E q \in Pages : v = map.pblk[q] \/ v = mapFile.cached[q] \/ v = mapFile.synced[q]
        \/ \E i \in (ctlRedo + 1) .. Len(wal) : wal[i].remap /\ (v = wal[i].old \/ v = wal[i].new)
    BY SMTT(40) DEF Referenced
  <2> QED BY <1>3, <1>4, <2>1, Zenon
<1>6. ASSUME NEW q \in Pages \ {p}, ins[q].remap PROVE ins[q].new # ins[p].new
  <2>1. ins[q].pc # "idle" /\ ins[q].pc \in {"idle", "assembled", "inserted"}
    BY <1>6, Numbers, SMTT(40) DEF Inv, Flights, TypeOK, InsertType
  <2>2. CASE ins[q].pc = "assembled"
    BY <1>1, <1>6, <2>2, SMTT(40) DEF Fresh
  <2>3. CASE ins[q].pc = "inserted"
    <3>1. ins[q].lsn \in 1 .. Len(wal) /\ Flight(q)
      BY <2>3, Numbers, ZenonT(60) DEF Inv, Flights, Positions
    <3>2. ins[q].new = wal[ins[q].lsn].new /\ wal[ins[q].lsn].remap
      BY <1>6, <3>1 DEF Flight, SameMap
    <3> QED BY <1>1, <3>1, <3>2, Zenon DEF Fresh
  <2> QED BY <2>1, <2>2, <2>3, SMTT(40)
<1> QED BY <1>5, <1>6

\* WAL before MAP: as long as no MAP page_lsn went back, no entry and no
\* superblock frontier reaches the metadata fork before a record that publishes
\* it is flushed (MapFlushWritePage, MapFlushWriteSuperblockEntry).
THEOREM MapAfterWal == Spec => []WalBeforeMapInOrder
<1>1. Inv => WalBeforeMapInOrder
    BY InvWalBeforeMap
<1> QED BY <1>1, InitMap, NextMap, PTL DEF Spec

\* A completed checkpoint left on disk every mapping and the frontier of every
\* record before its redo point, so that recovery may start there
\* (DELAY_CHKPT_START, MapCheckpoint, ProcessSyncRequests).
THEOREM CheckpointSafe == Spec => []CheckpointCoversMap
<1>1. Inv => CheckpointCoversMap
    BY InvCheckpointCovers
<1> QED BY <1>1, InitMap, NextMap, PTL DEF Spec

\* A block reserved for a remap is referred to by no mapping, by no record that
\* recovery would replay and by no other reservation, also after crashes have
\* lost the reservation frontier (MapGetNewPbkno, reserved_next_free).
THEOREM ReservationsSafe == Spec => []FreshIsUnreferenced
<1>1. Inv => FreshIsUnreferenced
    BY InvFreshUnreferenced
<1> QED BY <1>1, InitMap, NextMap, PTL DEF Spec
=============================================================================
