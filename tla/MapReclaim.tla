------------------------------ MODULE MapReclaim ------------------------------
(***************************************************************************)
(* Relocation by the compactor, delayed removal of empty segments, and the *)
(* redo of both: RM_UMBRA records MAP_SET and RECLAIM_UNLINK next to the   *)
(* remap and plain records of pages, on a primary that crashes and on a    *)
(* standby that replays the same WAL between its own restartpoints.        *)
(*                                                                         *)
(* The content of a block is the LSN of its last change.  WAL is durable   *)
(* when inserted: losing its tail, and page images, are in UmbraRemap; the *)
(* race of the scan for references with remaps is in MapInflight.  A page  *)
(* with changes from before the redo point is not remapped before it was   *)
(* written: what goes wrong otherwise is in UmbraRemap, too.               *)
(***************************************************************************)
EXTENDS Integers, Sequences, FiniteSets

CONSTANTS
    Pages,      \* logical blocks of one fork
    Primary, Standbys,
    MaxBlock,   \* physical blocks 0 .. MaxBlock
    SegBlocks,  \* RELSEG_SIZE
    MaxWal, MaxCycle, MaxCrash, MaxPending,   \* bounds
    FirstBlock  \* FirstBlock[p]: where page p is at first

ASSUME ReclaimAssumption ==
    /\ Primary \notin Standbys
    /\ MaxBlock \in Nat /\ SegBlocks \in Nat \ {0}
    /\ FirstBlock \in [Pages -> 0 .. MaxBlock]
    /\ \A p, q \in Pages : FirstBlock[p] = FirstBlock[q] => p = q

Nodes == {Primary} \cup Standbys
PBlock == 0 .. MaxBlock
Seg(b) == b \div SegBlocks
Segs == {Seg(b) : b \in PBlock}

Absent == -2    \* no such block in the files
Garbage == -1   \* zeros, a torn write or a delta on the wrong content
Clean == -3     \* no change of the page waits in the buffer pool
Exists(c) == c # Absent

VARIABLES
    wal,        \* the WAL of the primary
    node,       \* node[n]: files, MAP, buffers and progress of a server
    redoRec,    \* RedoRecPtr of the primary
    next,       \* allocation frontier of the primary: [mem, file]
    comp,       \* the compactor
    ckpt,       \* the checkpointer: phase and pages still to write
    pending,    \* pendingUnlinks: pairs of segment and cycle
    cycle,      \* checkpoint_cycle_ctr
    exposed,    \* pairs of server and page whose restart was not sheltered
    crashes

vars == <<wal, node, redoRec, next, comp, ckpt, pending, cycle, exposed, crashes>>
background == <<redoRec, next, comp, ckpt, pending, cycle>>

NoCopy == [on |-> FALSE, page |-> CHOOSE p \in Pages : TRUE, new |-> 0]

Init ==
    LET disk == [b \in PBlock |-> IF \E p \in Pages : FirstBlock[p] = b THEN 0 ELSE Absent]
    IN
    /\ wal = <<>>
    /\ node = [n \in Nodes |->
                 [mode |-> IF n = Primary THEN "run" ELSE "redo",
                  cached |-> disk, synced |-> disk, map |-> FirstBlock, file |-> FirstBlock,
                  mapAt |-> 0, buf |-> [p \in Pages |-> Clean], cursor |-> 1, redo |-> 0,
                  missed |-> {}]]
    /\ redoRec = 0
    /\ next = [mem |-> Cardinality(Pages), file |-> Cardinality(Pages)]
    /\ comp = NoCopy
    /\ ckpt = [phase |-> "idle", todo |-> {}]
    /\ pending = {} /\ cycle = 0 /\ exposed = {} /\ crashes = 0

-----------------------------------------------------------------------------
(* Files and buffers of a server.                                          *)

\* Files after block b got content c; lower blocks of a segment become holes.
Put(disk, b, c) ==
    [x \in PBlock |-> IF x = b THEN c
                      ELSE IF Seg(x) = Seg(b) /\ x < b /\ ~Exists(disk[x]) THEN Garbage
                      ELSE disk[x]]

Unlink(disk, s) == [b \in PBlock |-> IF Seg(b) = s THEN Absent ELSE disk[b]]

\* umfile_nblocks of a sparse fork.
SparseEnd(disk) == CHOOSE e \in 0 .. (MaxBlock + 1) :
                       /\ \A b \in PBlock : b >= e => ~Exists(disk[b])
                       /\ e > 0 => Exists(disk[e - 1])

\* A block read for a page: a missing one is created and reads as zeros.
Read(disk, b) == IF Exists(disk[b]) THEN disk[b] ELSE Garbage

View(n, p) == IF node[n].buf[p] # Clean THEN node[n].buf[p]
              ELSE Read(node[n].cached, node[n].map[p])

Change(n, new) == node' = [node EXCEPT ![n] = new]

Claimed(n, p) == n = Primary /\ comp.on /\ comp.page = p

\* FlushBuffer through the mapping of the moment, behind the write barrier on
\* the MAP entry.  A clean buffer is evicted at once, the worst case.
FlushBuffer(n, p) ==
    LET nd == node[n]
    IN
    /\ nd.buf[p] # Clean /\ ~Claimed(n, p)
    /\ Change(n, [nd EXCEPT !.cached = Put(nd.cached, nd.map[p], nd.buf[p]), !.buf[p] = Clean])
    /\ ckpt' = IF n = Primary THEN [ckpt EXCEPT !.todo = @ \ {p}] ELSE ckpt
    /\ UNCHANGED <<wal, redoRec, next, comp, pending, cycle, exposed, crashes>>

\* What the MAP file may hold for p: the mapping it was last forced with, or
\* a later one the mapwriter chose to write.
MapOnDisk(n, p) ==
    LET nd == node[n]
        upto == IF nd.mode = "redo" THEN nd.cursor - 1 ELSE Len(wal)
    IN {nd.file[p]} \cup {wal[i].new : i \in {j \in (nd.mapAt + 1) .. upto :
                              wal[j].type \in {"remap", "set"} /\ wal[j].page = p}}

-----------------------------------------------------------------------------
(* Changes of pages.                                                       *)

Record(type, p, old, new, prev) ==
    [type |-> type, page |-> p, old |-> old, new |-> new, prev |-> prev]

Lsn == Len(wal) + 1
Running == node[Primary].mode = "run"

\* A change of a page already changed since the redo point.
PlainChange(p) ==
    /\ Running /\ Lsn <= MaxWal
    /\ View(Primary, p) > redoRec
    /\ wal' = Append(wal, Record("delta", p, 0, 0, View(Primary, p)))
    /\ Change(Primary, [node[Primary] EXCEPT !.buf[p] = Lsn])
    /\ UNCHANGED <<background, exposed, crashes>>

\* The first change since the redo point goes to a fresh block.
RemapChange(p) ==
    /\ Running /\ Lsn <= MaxWal /\ next.mem <= MaxBlock
    /\ View(Primary, p) <= redoRec
    /\ node[Primary].buf[p] = Clean /\ ~Claimed(Primary, p)
    /\ wal' = Append(wal, Record("remap", p, node[Primary].map[p], next.mem, View(Primary, p)))
    /\ Change(Primary, [node[Primary] EXCEPT !.buf[p] = Lsn,
                                             !.map[p] = next.mem])
    /\ next' = [next EXCEPT !.mem = @ + 1]
    /\ UNCHANGED <<redoRec, comp, ckpt, pending, cycle, exposed, crashes>>

-----------------------------------------------------------------------------
(* The compactor: MapCompactorRelocateEntry and the removal of segments.   *)

\* Claim the entry, reserve a block and copy the raw page into it.  A dirty
\* buffer of the page is not looked at.
CopyBlock(p) ==
    LET nd == node[Primary]
    IN
    /\ Running /\ ~comp.on /\ next.mem <= MaxBlock /\ Lsn <= MaxWal
    /\ Exists(nd.cached[nd.map[p]])
    /\ comp' = [on |-> TRUE, page |-> p, new |-> next.mem]
    /\ next' = [next EXCEPT !.mem = @ + 1]
    /\ Change(Primary, [nd EXCEPT !.cached = Put(nd.cached, next.mem, nd.cached[nd.map[p]])])
    /\ UNCHANGED <<wal, redoRec, ckpt, pending, cycle, exposed, crashes>>

\* The MAP page is locked by another process: give up.
CopyAbandoned ==
    /\ comp.on
    /\ comp' = NoCopy
    /\ UNCHANGED <<wal, node, redoRec, next, ckpt, pending, cycle, exposed, crashes>>

\* The record about to be inserted, if the copy lacks a change of the page.
Missed(p, copy) == {i \in {Lsn} : View(Primary, p) # node[Primary].cached[copy]}

\* Log MAP_SET and switch the mapping, in one section that delays checkpoints.
Relocate ==
    LET p == comp.page
        nd == node[Primary]
    IN
    /\ comp.on /\ Lsn <= MaxWal
    /\ wal' = Append(wal, Record("set", p, nd.map[p], comp.new, View(Primary, p)))
    /\ Change(Primary, [nd EXCEPT !.map[p] = comp.new, !.missed = @ \cup Missed(p, comp.new)])
    /\ comp' = NoCopy
    /\ UNCHANGED <<redoRec, next, ckpt, pending, cycle, exposed, crashes>>

\* No mapping leads into segment s, and it is below the reclaim boundary.
Empty(s) ==
    /\ \A p \in Pages : Seg(node[Primary].map[p]) # s
    /\ \A b \in PBlock : Seg(b) = s => b < next.mem /\ ~(comp.on /\ comp.new <= b)

\* MapReclaimEnqueueSegment and RememberSyncRequest.
Register(s) ==
    /\ Running /\ Empty(s) /\ Cardinality(pending) < MaxPending
    /\ \E b \in PBlock : Seg(b) = s /\ Exists(node[Primary].cached[b])
    /\ \A e \in pending : e[1] # s
    /\ pending' = pending \cup {<<s, cycle>>}
    /\ UNCHANGED <<wal, node, redoRec, next, comp, ckpt, cycle, exposed, crashes>>

-----------------------------------------------------------------------------
(* Checkpoint of the primary.                                              *)

Phase(from, to) == ckpt.phase = from /\ ckpt' = [ckpt EXCEPT !.phase = to]

\* SyncPreCheckpoint
CkptPre ==
    /\ node[Primary].mode \in {"run", "eor"} /\ cycle < MaxCycle /\ Lsn <= MaxWal
    /\ Phase("idle", "pre")
    /\ cycle' = cycle + 1
    /\ UNCHANGED <<wal, node, redoRec, next, comp, pending, exposed, crashes>>

CkptRedo ==
    /\ Phase("pre", "redo")
    /\ redoRec' = Len(wal)
    /\ UNCHANGED <<wal, node, next, comp, pending, cycle, exposed, crashes>>

\* MAP pages and the superblock; BufferSync marks what is dirty now.
CkptMap ==
    LET nd == node[Primary]
    IN
    /\ ckpt.phase = "redo"
    /\ ckpt' = [phase |-> "write", todo |-> {p \in Pages : nd.buf[p] # Clean}]
    /\ Change(Primary, [nd EXCEPT !.file = nd.map, !.mapAt = Len(wal)])
    /\ next' = [next EXCEPT !.file = next.mem]
    /\ UNCHANGED <<wal, redoRec, comp, pending, cycle, exposed, crashes>>

\* All marked buffers are written (FlushBuffer): fsync, checkpoint record,
\* control file.
CkptComplete ==
    LET nd == node[Primary]
    IN
    /\ ckpt.todo = {} /\ Lsn <= MaxWal
    /\ Phase("write", "post")
    /\ wal' = Append(wal, Record("ckpt", NoCopy.page, redoRec, 0, 0))
    /\ Change(Primary, [nd EXCEPT !.synced = nd.cached, !.redo = redoRec, !.mode = "run"])
    /\ UNCHANGED <<redoRec, next, comp, pending, cycle, exposed, crashes>>

\* Mutant: a segment is removed by the checkpoint in whose cycle it came.
CkptUnlinkEarly(e) ==
    LET nd == node[Primary]
    IN
    /\ ckpt.phase = "post" /\ Lsn <= MaxWal /\ e \in pending
    /\ wal' = Append(wal, Record("unlink", NoCopy.page, e[1], 0, 0))
    /\ Change(Primary, [nd EXCEPT !.cached = Unlink(nd.cached, e[1]),
                                  !.synced = Unlink(nd.synced, e[1])])
    /\ pending' = pending \ {e}
    /\ UNCHANGED <<redoRec, next, comp, ckpt, cycle, exposed, crashes>>

\* SyncPostCheckpoint: log and remove a segment registered before this
\* checkpoint's cycle began.
CkptUnlink(e) ==
    LET nd == node[Primary]
    IN
    /\ ckpt.phase = "post" /\ Lsn <= MaxWal
    /\ e \in pending /\ e[2] # cycle
    /\ wal' = Append(wal, Record("unlink", NoCopy.page, e[1], 0, 0))
    /\ Change(Primary, [nd EXCEPT !.cached = Unlink(nd.cached, e[1]),
                                  !.synced = Unlink(nd.synced, e[1])])
    /\ pending' = pending \ {e}
    /\ UNCHANGED <<redoRec, next, comp, ckpt, cycle, exposed, crashes>>

CkptEnd ==
    /\ \A e \in pending : e[2] = cycle
    /\ Phase("post", "idle")
    /\ UNCHANGED <<wal, node, redoRec, next, comp, pending, cycle, exposed, crashes>>

-----------------------------------------------------------------------------
(* Restartpoint, crash and redo.                                           *)

\* CreateRestartPoint on a standby, once buffers are written: restart from
\* the redo point of the last checkpoint record replayed.
RestartPoint(n) ==
    LET nd == node[n]
        ckpts == {i \in 1 .. (nd.cursor - 1) : wal[i].type = "ckpt"}
    IN
    /\ n \in Standbys /\ nd.mode = "redo"
    /\ \A p \in Pages : nd.buf[p] = Clean
    /\ \E i \in ckpts : /\ \A j \in ckpts : j <= i
                        /\ nd.redo < wal[i].old
                        /\ Change(n, [nd EXCEPT !.redo = wal[i].old, !.synced = nd.cached,
                                                !.file = nd.map, !.mapAt = nd.cursor - 1])
    /\ UNCHANGED <<wal, background, exposed, crashes>>

\* The blocks a restart of n reads first for page p.
RestartReads(n, p) ==
    LET redone == {i \in (node[n].redo + 1) .. Len(wal) :
                       wal[i].page = p /\ wal[i].type \in {"remap", "set"}}
    IN  IF redone = {} THEN {node[n].file[p]}
        ELSE {wal[i].old : i \in {j \in redone : \A k \in redone : j <= k}}

\* A restart of n now would repeat a relocation that missed a change from
\* before the redo point, or read a block that a replayed removal took away.
Exposes(n, p) ==
    \/ \E i \in node[n].missed :
          i > node[n].redo /\ wal[i].page = p /\ wal[i].prev <= node[n].redo
    \/ n \in Standbys /\ \E b \in RestartReads(n, p) : ~Exists(node[n].cached[b])

\* Power failure: a block written since the last fsync keeps its old or its
\* new content; file sizes survive, a new block may read as zeros.  Torn
\* writes are in UmbraRemap.
Crash(n) ==
    LET nd == node[n]
        unsynced == {b \in PBlock : nd.synced[b] # nd.cached[b]}
    IN
    /\ crashes < MaxCrash
    /\ crashes' = crashes + 1
    /\ exposed' = exposed \cup {<<n, p>> : p \in {q \in Pages : Exposes(n, q)}}
    /\ \E keep \in [unsynced -> {"synced", "cached"}],
          file \in {f \in [Pages -> PBlock] : \A p \in Pages : f[p] \in MapOnDisk(n, p)} :
         LET disk == [b \in PBlock |-> IF b \notin unsynced THEN nd.cached[b]
                                       ELSE Read(nd[keep[b]], b)]
         IN Change(n, [nd EXCEPT !.mode = "redo", !.cursor = nd.redo + 1,
                                 !.cached = disk, !.synced = disk, !.map = file, !.file = file,
                                 !.mapAt = nd.redo, !.buf = [p \in Pages |-> Clean]])
    /\ IF n = Primary
       THEN /\ redoRec' = nd.redo
            /\ next' = [next EXCEPT !.mem = next.file]
            /\ comp' = NoCopy
            /\ ckpt' = [phase |-> "idle", todo |-> {}]
            /\ pending' = {} /\ cycle' = 0
       ELSE UNCHANGED background
    /\ UNCHANGED wal

Redoing(n, type) ==
    /\ node[n].mode = "redo" /\ node[n].cursor <= Len(wal)
    /\ wal[node[n].cursor].type = type

Rec(n) == wal[node[n].cursor]

\* A redo routine applied to content c of a page.
Replay(c, lsn) == IF c >= lsn THEN c ELSE IF c = wal[lsn].prev THEN lsn ELSE Garbage

\* Mutant: one block is skipped with every record replayed.
BumpSkips(n, b) == next' = IF n = Primary /\ next.mem <= b THEN [next EXCEPT !.mem = b + 2] ELSE next

\* The superblock's frontier after a record that took block b.
Bump(n, b) == next' = IF n = Primary /\ next.mem <= b THEN [next EXCEPT !.mem = b + 1] ELSE next

\* A plain record, through the mapping of the moment.
RedoDelta(n) ==
    LET c == View(n, Rec(n).page)
    IN
    /\ Redoing(n, "delta")
    /\ Change(n, [node[n] EXCEPT !.cursor = @ + 1,
                                 !.buf[Rec(n).page] = IF c < node[n].cursor
                                                      THEN Replay(c, node[n].cursor) ELSE @])
    /\ UNCHANGED <<wal, background, exposed, crashes>>

\* A record with remap: the page is read through the old mapping and flushed
\* there, then the new mapping is installed and the delta applied.
RedoRemap(n) ==
    LET nd == node[n]
        p == Rec(n).page
        c == IF nd.buf[p] # Clean THEN nd.buf[p] ELSE Read(nd.cached, Rec(n).old)
    IN
    /\ Redoing(n, "remap")
    /\ Change(n, [nd EXCEPT !.cursor = @ + 1, !.map[p] = Rec(n).new,
                            !.cached = Put(nd.cached, Rec(n).old, c),
                            !.buf[p] = IF c < nd.cursor THEN Replay(c, nd.cursor) ELSE Clean])
    /\ Bump(n, Rec(n).new)
    /\ UNCHANGED <<wal, redoRec, comp, ckpt, pending, cycle, exposed, crashes>>

\* Mutant: the mapping is switched, the copy taken to be on disk.
RedoSetNoCopy(n) ==
    /\ Redoing(n, "set")
    /\ Change(n, [node[n] EXCEPT !.cursor = @ + 1, !.map[Rec(n).page] = Rec(n).new])
    /\ Bump(n, Rec(n).new)
    /\ UNCHANGED <<wal, redoRec, comp, ckpt, pending, cycle, exposed, crashes>>

\* MAP_SET: repeat the copy unless the old block is beyond the end of the
\* files, then switch the mapping.  A missing segment below is an ERROR.
RedoSet(n) ==
    LET nd == node[n]
        old == Rec(n).old
        copies == old < SparseEnd(nd.cached)
    IN
    /\ Redoing(n, "set")
    /\ IF copies /\ ~Exists(nd.cached[old])
       THEN Change(n, [nd EXCEPT !.mode = "failed"]) /\ UNCHANGED next
       ELSE /\ Change(n, [nd EXCEPT !.cursor = @ + 1, !.map[Rec(n).page] = Rec(n).new,
                                    !.cached = IF copies THEN Put(@, Rec(n).new, @[old]) ELSE @,
                                    !.missed = @ \cup {i \in {nd.cursor} :
                                                         nd.buf[Rec(n).page] # Clean}])
            /\ Bump(n, Rec(n).new)
    /\ UNCHANGED <<wal, redoRec, comp, ckpt, pending, cycle, exposed, crashes>>

\* RECLAIM_UNLINK: the segment is removed at once.
RedoUnlink(n) ==
    LET nd == node[n]
    IN
    /\ Redoing(n, "unlink")
    /\ Change(n, [nd EXCEPT !.cursor = @ + 1, !.cached = Unlink(@, Rec(n).old),
                            !.synced = Unlink(@, Rec(n).old)])
    /\ UNCHANGED <<wal, background, exposed, crashes>>

RedoCheckpoint(n) ==
    /\ Redoing(n, "ckpt")
    /\ Change(n, [node[n] EXCEPT !.cursor = @ + 1])
    /\ UNCHANGED <<wal, background, exposed, crashes>>

\* The primary ends recovery with a checkpoint.
RedoDone ==
    /\ node[Primary].mode = "redo" /\ node[Primary].cursor > Len(wal)
    /\ Change(Primary, [node[Primary] EXCEPT !.mode = "eor"])
    /\ UNCHANGED <<wal, background, exposed, crashes>>

-----------------------------------------------------------------------------
Buffers(n) ==
    (\E p \in Pages : FlushBuffer(n, p)) \/ RestartPoint(n)

Recovery(n) ==
    RedoDelta(n) \/ RedoRemap(n) \/ RedoSet(n) \/ RedoUnlink(n) \/ RedoCheckpoint(n)

Checkpoint ==
    \/ CkptPre \/ CkptRedo \/ CkptMap \/ CkptComplete \/ CkptEnd
    \/ \E e \in pending : CkptUnlink(e)

Next ==
    \/ \E n \in Nodes : Buffers(n) \/ Crash(n) \/ Recovery(n)
    \/ \E p \in Pages : PlainChange(p) \/ RemapChange(p) \/ CopyBlock(p)
    \/ CopyAbandoned \/ Relocate \/ \E s \in Segs : Register(s)
    \/ Checkpoint \/ RedoDone

Spec == Init /\ [][Next]_vars

-----------------------------------------------------------------------------
(* Properties.                                                             *)

Content == Nat \cup {Absent, Garbage}

TypeOK ==
    /\ \A n \in Nodes :
         /\ node[n].mode \in {"run", "redo", "eor", "failed"}
         /\ node[n].cached \in [PBlock -> Content] /\ node[n].synced \in [PBlock -> Content]
         /\ node[n].map \in [Pages -> PBlock] /\ node[n].file \in [Pages -> PBlock]
         /\ node[n].buf \in [Pages -> Nat \cup {Garbage, Clean}] /\ node[n].mapAt \in 0 .. Len(wal)
         /\ node[n].missed \subseteq 1 .. Len(wal)
         /\ node[n].cursor \in 1 .. (Len(wal) + 1) /\ node[n].redo \in 0 .. Len(wal)
    /\ next \in [mem : 0 .. (MaxBlock + 1), file : 0 .. (MaxBlock + 1)]
    /\ comp \in [on : BOOLEAN, page : Pages, new : PBlock]
    /\ ckpt \in [phase : {"idle", "pre", "redo", "write", "post"}, todo : SUBSET Pages]
    /\ pending \subseteq Segs \X (0 .. cycle)

LastLsn(p) ==
    LET own == {0} \cup {i \in 1 .. Len(wal) : wal[i].page = p /\ wal[i].type \in {"delta", "remap"}}
    IN  CHOOSE i \in own : \A j \in own : j <= i

CaughtUp(n) == \/ node[n].mode \in {"run", "eor"}
               \/ n \in Standbys /\ node[n].mode = "redo" /\ node[n].cursor > Len(wal)

\* A running primary, and a standby that has replayed all WAL, show every
\* page with its last logged change, whatever was relocated, removed and
\* replayed, unless a restart was exposed.
PagesKept ==
    \A n \in Nodes, p \in Pages :
        (CaughtUp(n) /\ <<n, p>> \notin exposed) => View(n, p) = LastLsn(p)

\* Blocks from which recovery of the primary would start are never in a
\* removed segment: the removal waits for the end of a checkpoint whose redo
\* point is past everything that refers to the segment.
UnlinkWaitsForCheckpoint ==
    \A p \in Pages : \A b \in RestartReads(Primary, p) : Exists(node[Primary].cached[b])

\* Recovery of the primary shows every page with its last change, also the
\* pages that were relocated while a change of them was only in a buffer.
RelocationRecovers ==
    CaughtUp(Primary) => \A p \in Pages : View(Primary, p) = LastLsn(p)

\* A standby can restart from its last restartpoint: what it would read first
\* is still there.
StandbyRestarts ==
    \A n \in Standbys, p \in Pages :
        \A b \in RestartReads(n, p) : Exists(node[n].cached[b])
=============================================================================
