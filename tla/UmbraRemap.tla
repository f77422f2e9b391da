------------------------------ MODULE UmbraRemap ------------------------------
(***************************************************************************)
(* Checkpoint-boundary remap: the life of mapped pages through WAL         *)
(* insertion, buffer writeback, checkpoint, crash and redo.                *)
(*                                                                         *)
(* A page's content is abstracted to the LSN of the last change it holds;  *)
(* an LSN is the index of a record in wal.  A delta record may only be     *)
(* applied to the content its producer saw (rec.prev); applied to anything *)
(* else it yields Garbage.  A physical block that was never written, or    *)
(* whose unsynced write was torn by a crash, is Garbage too.               *)
(*                                                                         *)
(* Files have two values: what the kernel was given and what an fsync has  *)
(* made durable.  A crash keeps either one for every block, or tears it.   *)
(***************************************************************************)
EXTENDS Integers, Sequences, FiniteSets

CONSTANTS
    NPages,     \* number of logical blocks; each has one shared buffer
    Kinds,      \* record kinds the access methods log: subset of AllKinds
    MaxBlock,   \* bound on physical block numbers
    MaxLsn,     \* bound on the number of page records in the WAL
    MaxCkpt,    \* bound on checkpoints between two restarts
    MaxCrash    \* bound on crashes

AllKinds == {"delta", "image"}

ASSUME BoundsAssumption ==
    /\ NPages \in Nat \ {0}
    /\ MaxBlock \in Nat /\ NPages <= MaxBlock
    /\ MaxLsn \in Nat /\ MaxCkpt \in Nat /\ MaxCrash \in Nat
    /\ Kinds \subseteq AllKinds

\* InvalidBlockNumber, and the content of a block nobody wrote or a torn one.
Invalid == -1
Garbage == -1

Pages  == 0 .. (NPages - 1)
PBlock == 0 .. MaxBlock
Content == Nat \cup {Garbage}

VARIABLES
    wal,        \* sequence of page records
    walFlushed, \* XLogFlush position: records up to here survive a crash
    redoRecPtr, \* shared RedoRecPtr: the redo point of the last checkpoint begun
    ctlRedo,    \* redo point of the last completed checkpoint (ControlFile)
    buf,        \* shared buffer of each page
    capture,    \* CkptBufferPblkCaptureEpoch: [epoch, active]
    map,        \* lblk -> pblk in the MAP buffer pool, and its page_lsn;
                \* history: whether page_lsn ever went back
    mapFile,    \* the MAP page: given to the kernel, and durable
    super,      \* next_free_phys_block: committed, reserved_next_free, file;
                \* and the entry's page_lsn
    data,       \* physical blocks: given to the kernel, and durable
    ins,        \* the backend inserting a record for each page
    ckpt,       \* the checkpointer
    mode,       \* "run", or the phases of crash recovery
    taint,      \* history: how a page's remaps were exposed at a crash
    crashes     \* history: crashes so far

vars == <<wal, walFlushed, redoRecPtr, ctlRedo, buf, capture, map, mapFile,
          super, data, ins, ckpt, mode, taint, crashes>>

walVars == <<wal, walFlushed, redoRecPtr, ctlRedo>>
mapVars == <<map, mapFile, super>>

Larger(a, b) == IF a > b THEN a ELSE b

NoBuffer == [valid |-> FALSE, lsn |-> Garbage, dirty |-> FALSE,
             needed |-> FALSE, saved |-> Invalid, epoch |-> 0]
NoInsert == [pc |-> "idle", kind |-> "delta", remap |-> FALSE,
             old |-> Invalid, new |-> Invalid, nextFree |-> 0, clean |-> FALSE,
             lsn |-> 0]
NoCheckpoint == [phase |-> "idle", redo |-> 0, waitFor |-> {},
                 todo |-> {}, ids |-> {}]

-----------------------------------------------------------------------------
(* The relation starts densely mapped: page p in block p, content 0.       *)

Init ==
    LET dense  == [p \in Pages |-> p]
        blocks == [b \in PBlock |-> IF b < NPages THEN 0 ELSE Garbage]
    IN
    /\ wal = <<>> /\ walFlushed = 0 /\ redoRecPtr = 0 /\ ctlRedo = 0
    /\ buf = [p \in Pages |-> NoBuffer]
    /\ capture = [epoch |-> 0, active |-> FALSE]
    /\ map = [pblk |-> dense, lsn |-> 0, regressed |-> FALSE]
    /\ mapFile = [cached |-> dense, synced |-> dense]
    /\ super = [nextFree |-> NPages, reserved |-> NPages, lsn |-> 0,
                cached |-> NPages, synced |-> NPages]
    /\ data = [cached |-> blocks, synced |-> blocks]
    /\ ins = [p \in Pages |-> NoInsert]
    /\ ckpt = NoCheckpoint
    /\ mode = [phase |-> "run", cursor |-> 0, switch |-> FALSE]
    /\ taint = [p \in Pages |-> {}]
    /\ crashes = 0

-----------------------------------------------------------------------------
(* Shared buffers.                                                         *)

\* The startup process holds the content lock between the two halves of a
\* remap redo; an inserting backend holds it until PageSetLSN.
ContentLocked(p) ==
    \/ ins[p].pc # "idle"
    \/ mode.switch /\ wal[mode.cursor].page = p

\* Content a reader of page p would get: the buffer, or the mapped block.
View(p) == IF buf[p].valid THEN buf[p].lsn ELSE data.cached[map.pblk[p]]

ReadBuffer(p) ==
    /\ ~buf[p].valid
    /\ mode.phase = "run"
    /\ buf' = [buf EXCEPT ![p] = [NoBuffer EXCEPT !.valid = TRUE,
                                                  !.lsn = View(p)]]
    /\ UNCHANGED <<walVars, capture, mapVars, data, ins, ckpt, mode, taint, crashes>>

GetSavedCheckpointPblk(p) ==
    IF /\ capture.epoch # 0
       /\ buf[p].needed
       /\ buf[p].epoch = capture.epoch
    THEN buf[p].saved ELSE Invalid

\* Mutant: the flush stops one record short.
XLogFlushShort(lsn) == walFlushed' = Larger(walFlushed, lsn - 1)

XLogFlush(lsn) == walFlushed' = Larger(walFlushed, lsn)

\* Mutant: writing the captured block cleans the buffer (TerminateBufferIO).
FlushBufferCleans(p, flushActive) ==
    LET saved == GetSavedCheckpointPblk(p)
        target == IF saved # Invalid /\ ~flushActive THEN saved ELSE map.pblk[p]
    IN
    /\ buf[p].valid /\ buf[p].dirty
    /\ ~ContentLocked(p)
    /\ XLogFlush(buf[p].lsn)
    /\ data' = [data EXCEPT !.cached[target] = buf[p].lsn]
    /\ buf' = [buf EXCEPT ![p].dirty = FALSE, ![p].needed = FALSE,
                          ![p].saved = Invalid, ![p].epoch = 0]

\* FlushBuffer: XLogFlush up to the page LSN, then write the block the
\* checkpoint captured, the current one, or both.  A flush of the captured
\* block alone leaves the buffer dirty for its current block.
FlushBuffer(p, flushActive) ==
    LET saved == GetSavedCheckpointPblk(p)
        current == map.pblk[p]
        checkpointOnly == saved # Invalid /\ saved # current
        targets == IF ~checkpointOnly THEN {current}
                   ELSE IF flushActive THEN {saved, current} ELSE {saved}
    IN
    /\ buf[p].valid /\ buf[p].dirty
    /\ ~ContentLocked(p)
    /\ XLogFlush(buf[p].lsn)
    /\ data' = [data EXCEPT !.cached =
                    [b \in PBlock |-> IF b \in targets THEN buf[p].lsn ELSE @[b]]]
    /\ buf' = [buf EXCEPT ![p].dirty = checkpointOnly /\ ~flushActive,
                          ![p].needed = FALSE,
                          ![p].saved = Invalid,
                          ![p].epoch = 0]

\* Background writer: SyncOneBuffer outside a checkpoint.
BgWrite(p) ==
    /\ FlushBuffer(p, FALSE)
    /\ UNCHANGED <<wal, redoRecPtr, ctlRedo, capture, mapVars, ins, ckpt, mode, taint, crashes>>

\* GetVictimBuffer: a dirty victim is flushed to its current block as well.
FlushVictim(p) ==
    /\ FlushBuffer(p, TRUE)
    /\ UNCHANGED <<wal, redoRecPtr, ctlRedo, capture, mapVars, ins, ckpt, mode, taint, crashes>>

\* InvalidateVictimBuffer: only a clean, unpinned buffer is given up.
Evict(p) ==
    /\ buf[p].valid /\ ~buf[p].dirty
    /\ ~ContentLocked(p)
    /\ buf' = [buf EXCEPT ![p] = NoBuffer]
    /\ UNCHANGED <<walVars, capture, mapVars, data, ins, ckpt, mode, taint, crashes>>

-----------------------------------------------------------------------------
(* WAL insertion.  The backend holds the page's content lock throughout.   *)

\* XLogRecordAssembleUmbra for a page whose last change is lsn: a delta whose
\* page was last changed before the redo point carries a remap.
NeedsRemap(kind, lsn) == kind = "delta" /\ lsn <= redoRecPtr

\* Modify the locked page, MarkBufferDirty, then assemble the record; a remap
\* looks up the old block, reserves a fresh one (MapGetNewPbkno) and carries
\* the allocator frontier (XLogFillBlockRemapFrontierUmbra).
Assembled(p, kind, clean) ==
    LET remap == NeedsRemap(kind, buf[p].lsn)
    IN
    /\ remap => super.reserved <= MaxBlock
    /\ ins' = [ins EXCEPT ![p] =
                 [pc |-> "assembled", kind |-> kind, remap |-> remap,
                  old |-> IF remap THEN map.pblk[p] ELSE Invalid,
                  new |-> IF remap THEN super.reserved ELSE Invalid,
                  nextFree |-> IF remap THEN Larger(super.nextFree, super.reserved + 1)
                                        ELSE 0,
                  clean |-> clean, lsn |-> 0]]
    /\ super' = [super EXCEPT !.reserved = IF remap THEN @ + 1 ELSE @]

BeginInsert(p, kind) ==
    /\ mode.phase = "run"
    /\ buf[p].valid
    /\ ~ContentLocked(p)
    /\ Len(wal) + Cardinality({q \in Pages : ins[q].pc = "assembled"}) < MaxLsn
    /\ buf' = [buf EXCEPT ![p].dirty = TRUE]
    /\ Assembled(p, kind, ~buf[p].dirty)
    /\ UNCHANGED <<walVars, capture, map, mapFile, data, ckpt, mode, taint, crashes>>

\* XLogInsertRecord refuses a record assembled without remap or image when the
\* redo point has since passed the page; XLogInsert assembles it again.
Stale(p) ==
    /\ ins[p].kind = "delta"
    /\ ~ins[p].remap
    /\ buf[p].lsn <= redoRecPtr

RetryInsert(p) ==
    /\ ins[p].pc = "assembled"
    /\ Stale(p)
    /\ Assembled(p, ins[p].kind, ins[p].clean)
    /\ UNCHANGED <<walVars, buf, capture, map, mapFile, data, ckpt, mode, taint, crashes>>

\* XLogInsertRecord; a remap has DELAY_CHKPT_START set by now.
InsertRecord(p) ==
    /\ ins[p].pc = "assembled"
    /\ ~Stale(p)
    /\ wal' = Append(wal, [page |-> p, kind |-> ins[p].kind,
                           remap |-> ins[p].remap,
                           old |-> ins[p].old, new |-> ins[p].new,
                           nextFree |-> ins[p].nextFree,
                           prev |-> buf[p].lsn, source |-> "pending"])
    /\ ins' = [ins EXCEPT ![p].pc = "inserted", ![p].lsn = Len(wal) + 1]
    /\ UNCHANGED <<walFlushed, redoRecPtr, ctlRedo, buf, capture, mapVars, data, ckpt, mode, taint, crashes>>

\* BufferSaveCheckpointPblk: kept only while the capture epoch is active and
\* the buffer is marked, and only for the first remap of the epoch.
SavesCheckpointPblk(p) ==
    /\ capture.active
    /\ buf[p].needed
    /\ ~(buf[p].epoch = capture.epoch /\ buf[p].saved # Invalid)

\* MapSetMapping: the MAP page takes the LSN of whoever sets an entry last.
SetMapping(p, pblk, lsn) ==
    [map EXCEPT !.pblk[p] = pblk, !.lsn = lsn, !.regressed = @ \/ lsn < map.lsn]

\* Mutant: a record without remap publishes a mapping too.
CommitMappingAlways(p, lsn) == SetMapping(p, ins[p].new, lsn)

CommitMapping(p, lsn) == IF ins[p].remap THEN SetMapping(p, ins[p].new, lsn) ELSE map

\* Mutant: the reservation frontier is left behind.
BumpCommittedOnly(nextFree, lsn) ==
    IF super.nextFree < nextFree
    THEN [super EXCEPT !.nextFree = nextFree, !.lsn = lsn]
    ELSE super

\* MapSBlockBumpNextFreePhysBlock: the frontier and the reservation frontier
\* only grow, and only growth takes the LSN.
BumpNextFree(nextFree, lsn) ==
    IF super.nextFree < nextFree
    THEN [super EXCEPT !.nextFree = nextFree, !.lsn = lsn,
                       !.reserved = Larger(@, nextFree)]
    ELSE super

\* XLogCommitBlockRemapsUmbra, PageSetLSN, unlock.  The record notes, for the
\* properties only, whether the old block held the page when it was remapped.
FinishInsert(p) ==
    LET lsn == ins[p].lsn
        remap == ins[p].remap
        save == remap /\ SavesCheckpointPblk(p)
        kept == capture.active /\ buf[p].needed
    IN
    /\ ins[p].pc = "inserted"
    /\ map' = CommitMapping(p, lsn)
    /\ super' = IF remap THEN BumpNextFree(wal[lsn].nextFree, lsn) ELSE super
    /\ buf' = [buf EXCEPT ![p].lsn = lsn,
                          ![p].saved = IF save THEN ins[p].old ELSE @,
                          ![p].epoch = IF save THEN capture.epoch ELSE @]
    /\ wal' = [wal EXCEPT ![lsn].source =
                CASE ~remap \/ (ins[p].clean /\ ~kept) -> "clean"
                  [] remap /\ ins[p].clean /\ kept -> "overwritten"
                  [] remap /\ ~ins[p].clean /\ kept -> "saved"
                  [] OTHER -> "missed"]
    /\ ckpt' = [ckpt EXCEPT !.waitFor = @ \ {p}]
    /\ ins' = [ins EXCEPT ![p] = NoInsert]
    /\ UNCHANGED <<walFlushed, redoRecPtr, ctlRedo, capture, mapFile, data, mode, taint, crashes>>

\* XLogFlush by a committing transaction or the WAL writer.
FlushWal ==
    /\ walFlushed < Len(wal)
    /\ walFlushed' = Len(wal)
    /\ UNCHANGED <<wal, redoRecPtr, ctlRedo, buf, capture, mapVars, data, ins, ckpt, mode, taint, crashes>>

\* MapBgWriterFlush: XLogFlush up to the MAP page LSN, then write the page.
FlushMapPage ==
    /\ XLogFlush(map.lsn)
    /\ mapFile' = [mapFile EXCEPT !.cached = map.pblk]

MapWriter ==
    /\ mapFile.cached # map.pblk
    /\ FlushMapPage
    /\ UNCHANGED <<wal, redoRecPtr, ctlRedo, buf, capture, map, super, data, ins, ckpt, mode, taint, crashes>>

-----------------------------------------------------------------------------
(* CreateCheckPoint and CheckPointGuts, also run at the end of recovery.   *)

CkptStep(from, to) ==
    /\ ckpt.phase = from
    /\ ckpt' = [ckpt EXCEPT !.phase = to]

\* Insert XLOG_CHECKPOINT_REDO: later records are replayed after a crash.
CkptRedo ==
    /\ mode.phase \in {"run", "eor"}
    /\ ckpt.phase = "idle"
    /\ mode.phase = "run" => capture.epoch < MaxCkpt
    /\ redoRecPtr' = Len(wal)
    /\ ckpt' = [NoCheckpoint EXCEPT !.phase = "redo", !.redo = Len(wal)]
    /\ UNCHANGED <<wal, walFlushed, ctlRedo, buf, capture, mapVars, data, ins, mode, taint, crashes>>

Remapping(pc) == {p \in Pages : ins[p].pc = pc /\ ins[p].remap}

\* Mutant: nobody is waited for.
CkptCollectNobody ==
    /\ CkptStep("redo", "wait")
    /\ UNCHANGED <<walVars, buf, capture, mapVars, data, ins, mode, taint, crashes>>

\* GetVirtualXIDsDelayingChkpt(DELAY_CHKPT_START), then wait for those.  The
\* flag is set between assembly and insertion.
CkptCollect ==
    /\ ckpt.phase = "redo"
    /\ \E early \in SUBSET Remapping("assembled") :
          ckpt' = [ckpt EXCEPT !.phase = "wait",
                               !.waitFor = Remapping("inserted") \cup early]
    /\ UNCHANGED <<walVars, buf, capture, mapVars, data, ins, mode, taint, crashes>>

\* MapCheckpoint: MAP pages first,
CkptMapPages ==
    /\ CkptStep("wait", "super")
    /\ ckpt.waitFor = {}
    /\ FlushMapPage
    /\ UNCHANGED <<wal, redoRecPtr, ctlRedo, buf, capture, map, super, data, ins, mode, taint, crashes>>

\* then superblocks, which only the checkpoint writes.
CkptSuper ==
    /\ CkptStep("super", "capture")
    /\ XLogFlush(super.lsn)
    /\ super' = [super EXCEPT !.cached = super.nextFree]
    /\ UNCHANGED <<wal, redoRecPtr, ctlRedo, buf, capture, map, mapFile, data, ins, mode, taint, crashes>>

\* BufferSync: CheckPointBuffersPblkCaptureBegin,
CkptCapture ==
    /\ ckpt.phase = "capture"
    /\ ckpt' = [ckpt EXCEPT !.phase = "mark", !.todo = Pages]
    /\ capture' = [epoch |-> capture.epoch + 1, active |-> TRUE]
    /\ UNCHANGED <<walVars, buf, mapVars, data, ins, mode, taint, crashes>>

\* mark the buffers that are dirty now,
CkptMark(p) ==
    /\ ckpt.phase = "mark"
    /\ p \in ckpt.todo
    /\ buf' = [buf EXCEPT ![p].needed = @ \/ buf[p].dirty]
    /\ ckpt' = [ckpt EXCEPT
                  !.todo = @ \ {p},
                  !.ids = IF buf[p].dirty THEN @ \cup {p} ELSE @,
                  !.phase = IF ckpt.todo = {p} THEN "write" ELSE @]
    /\ UNCHANGED <<walVars, capture, mapVars, data, ins, mode, taint, crashes>>

\* Mutant: a buffer that somebody else wrote is waited for.
CkptWriteAlways(p) ==
    /\ ckpt.phase = "write"
    /\ p \in ckpt.ids
    /\ ckpt' = [ckpt EXCEPT !.ids = @ \ {p}]
    /\ buf[p].needed /\ FlushBuffer(p, FALSE)
    /\ UNCHANGED <<wal, redoRecPtr, ctlRedo, capture, mapVars, ins, mode, taint, crashes>>

\* write each one unless somebody else has,
CkptWrite(p) ==
    /\ ckpt.phase = "write"
    /\ p \in ckpt.ids
    /\ ckpt' = [ckpt EXCEPT !.ids = @ \ {p}]
    /\ \/ buf[p].needed /\ FlushBuffer(p, FALSE)
       \/ ~buf[p].needed /\ UNCHANGED <<walFlushed, data, buf>>
    /\ UNCHANGED <<wal, redoRecPtr, ctlRedo, capture, mapVars, ins, mode, taint, crashes>>

\* CheckPointBuffersPblkCaptureEnd.
CkptCaptureEnd ==
    /\ CkptStep("write", "sync")
    /\ ckpt.ids = {}
    /\ capture' = [capture EXCEPT !.active = FALSE]
    /\ UNCHANGED <<walVars, buf, mapVars, data, ins, mode, taint, crashes>>

\* Mutant: the data forks are not synced.
CkptSyncMapOnly ==
    /\ CkptStep("sync", "record")
    /\ mapFile' = [mapFile EXCEPT !.synced = mapFile.cached]
    /\ super' = [super EXCEPT !.synced = super.cached]
    /\ UNCHANGED <<walVars, buf, capture, map, data, ins, mode, taint, crashes>>

\* ProcessSyncRequests.
CkptSync ==
    /\ CkptStep("sync", "record")
    /\ data' = [data EXCEPT !.synced = data.cached]
    /\ mapFile' = [mapFile EXCEPT !.synced = mapFile.cached]
    /\ super' = [super EXCEPT !.synced = super.cached]
    /\ UNCHANGED <<walVars, buf, capture, map, ins, mode, taint, crashes>>

\* Insert and flush the checkpoint record, update the control file.
CkptComplete ==
    /\ ckpt.phase = "record"
    /\ ckpt' = NoCheckpoint
    /\ walFlushed' = Len(wal)
    /\ ctlRedo' = ckpt.redo
    /\ mode' = [mode EXCEPT !.phase = "run"]
    /\ UNCHANGED <<wal, redoRecPtr, buf, capture, mapVars, data, ins, taint, crashes>>

\* An I/O error while dumping: the redo point, the marks and an active capture
\* stay as they are.
CkptFail ==
    /\ mode.phase = "run"
    /\ ckpt.phase \in {"super", "capture", "write", "sync"}
    /\ ckpt' = NoCheckpoint
    /\ UNCHANGED <<walVars, buf, capture, mapVars, data, ins, mode, taint, crashes>>

-----------------------------------------------------------------------------
(* Crash and redo.                                                         *)

\* How the remaps of page p that recovery will replay are exposed.
Exposure(p, keep) ==
    LET redone == {i \in (ctlRedo + 1) .. keep : wal[i].page = p}
    IN  ({wal[i].source : i \in {j \in redone : wal[j].remap}}
            \cap {"saved", "missed", "overwritten"})
        \cup {k \in {"image"} : \E i, j \in redone :
                  i < j /\ wal[i].kind = "image" /\ wal[j].remap}

Unsynced == {b \in PBlock : data.synced[b] # data.cached[b]}

\* Power failure: the WAL is cut anywhere past its flushed end; each block of
\* each file keeps its synced or its cached value; a data block may be torn.
Crash ==
    /\ crashes < MaxCrash
    /\ crashes' = crashes + 1
    /\ \E keep \in walFlushed .. Len(wal),
          blocks \in [Unsynced -> {"synced", "cached", "torn"}],
          entries \in [Pages -> {"synced", "cached"}],
          sb \in {super.synced, super.cached} :
        LET blocksAfter == [b \in PBlock |-> IF b \notin Unsynced THEN data.cached[b]
                                             ELSE IF blocks[b] = "torn" THEN Garbage
                                             ELSE IF blocks[b] = "synced" THEN data.synced[b]
                                             ELSE data.cached[b]]
            mapAfter == [p \in Pages |-> IF entries[p] = "synced" THEN mapFile.synced[p]
                                         ELSE mapFile.cached[p]]
        IN
        /\ wal' = SubSeq(wal, 1, keep)
        /\ walFlushed' = keep
        /\ data' = [cached |-> blocksAfter, synced |-> blocksAfter]
        /\ mapFile' = [cached |-> mapAfter, synced |-> mapAfter]
        /\ map' = [map EXCEPT !.pblk = mapAfter, !.lsn = 0]
        /\ super' = [nextFree |-> sb, reserved |-> sb, lsn |-> 0,
                      cached |-> sb, synced |-> sb]
        /\ taint' = [p \in Pages |-> taint[p] \cup Exposure(p, keep)]
    /\ buf' = [p \in Pages |-> NoBuffer]
    /\ ins' = [p \in Pages |-> NoInsert]
    /\ capture' = [epoch |-> 0, active |-> FALSE]
    /\ ckpt' = NoCheckpoint
    /\ redoRecPtr' = ctlRedo
    /\ mode' = [phase |-> "redo", cursor |-> ctlRedo + 1, switch |-> FALSE]
    /\ UNCHANGED ctlRedo

\* A redo routine applied to content c: skipped if the page is already as new
\* as the record, correct only on the content the producer saw.
Replay(c, lsn) == IF c >= lsn THEN c
                  ELSE IF wal[lsn].kind = "image" \/ c = wal[lsn].prev THEN lsn
                  ELSE Garbage

Redoing == mode.phase = "redo" /\ mode.cursor <= Len(wal)

\* Mutant: a record that is already applied is tried again.
RedoPlainAgain ==
    LET lsn == mode.cursor
        p == wal[lsn].page
        c == View(p)
    IN
    /\ Redoing /\ ~wal[lsn].remap
    /\ buf' = [buf EXCEPT ![p].valid = TRUE, ![p].lsn = Replay(c, lsn),
                          ![p].dirty = @ \/ c < lsn]
    /\ mode' = [mode EXCEPT !.cursor = IF c < lsn THEN @ + 1 ELSE @]
    /\ UNCHANGED <<walVars, capture, mapVars, data, ins, ckpt, taint, crashes>>

\* XLogReadBufferForRedoExtendedUmbra without remap metadata: a full image is
\* restored unconditionally, a delta is applied to the page read through the
\* mapping of the moment.
RedoPlain ==
    LET lsn == mode.cursor
        p == wal[lsn].page
        c == View(p)
    IN
    /\ Redoing /\ ~wal[lsn].remap
    /\ buf' = [buf EXCEPT ![p].valid = TRUE,
                          ![p].lsn = IF wal[lsn].kind = "image" THEN lsn
                                     ELSE Replay(c, lsn),
                          ![p].dirty = @ \/ wal[lsn].kind = "image" \/ c < lsn]
    /\ mode' = [mode EXCEPT !.cursor = @ + 1]
    /\ UNCHANGED <<walVars, capture, mapVars, data, ins, ckpt, taint, crashes>>

\* Mutant: the page is read through the mapping of the moment.
RedoRemapCurrent ==
    LET p == wal[mode.cursor].page
    IN
    /\ Redoing /\ wal[mode.cursor].remap /\ ~mode.switch
    /\ data' = [data EXCEPT !.cached[map.pblk[p]] = View(p)]
    /\ buf' = [buf EXCEPT ![p] = [NoBuffer EXCEPT !.valid = TRUE, !.lsn = View(p)]]
    /\ mode' = [mode EXCEPT !.switch = TRUE]
    /\ UNCHANGED <<walVars, capture, mapVars, ins, ckpt, taint, crashes>>

\* A delta with remap metadata: install the old mapping, read the page through
\* it, lock, dirty and flush it ...
RedoRemapOld ==
    LET lsn == mode.cursor
        p == wal[lsn].page
        c == IF buf[p].valid THEN buf[p].lsn ELSE data.cached[wal[lsn].old]
    IN
    /\ Redoing /\ wal[lsn].remap /\ ~mode.switch
    /\ map' = SetMapping(p, wal[lsn].old, lsn)
    /\ data' = [data EXCEPT !.cached[wal[lsn].old] = c]
    /\ buf' = [buf EXCEPT ![p] = [NoBuffer EXCEPT !.valid = TRUE, !.lsn = c]]
    /\ mode' = [mode EXCEPT !.switch = TRUE]
    /\ UNCHANGED <<walVars, capture, mapFile, super, ins, ckpt, taint, crashes>>

\* ... then install the new mapping and apply the delta, which dirties the
\* buffer only if the page was older than the record.
RedoRemapNew ==
    LET lsn == mode.cursor
        p == wal[lsn].page
        c == buf[p].lsn
    IN
    /\ mode.switch
    /\ map' = SetMapping(p, wal[lsn].new, lsn)
    /\ super' = BumpNextFree(wal[lsn].nextFree, lsn)
    /\ buf' = [buf EXCEPT ![p].lsn = Replay(c, lsn), ![p].dirty = c < lsn]
    /\ mode' = [mode EXCEPT !.cursor = @ + 1, !.switch = FALSE]
    /\ UNCHANGED <<walVars, capture, mapFile, data, ins, ckpt, taint, crashes>>

\* PerformRecoveryXLogAction: an end-of-recovery checkpoint comes before writes.
RedoDone ==
    /\ mode.phase = "redo" /\ mode.cursor > Len(wal)
    /\ mode' = [phase |-> "eor", cursor |-> 0, switch |-> FALSE]
    /\ UNCHANGED <<walVars, buf, capture, mapVars, data, ins, ckpt, taint, crashes>>

-----------------------------------------------------------------------------
Next ==
    \/ \E p \in Pages : \/ ReadBuffer(p) \/ BgWrite(p) \/ FlushVictim(p) \/ Evict(p)
                        \/ \E kind \in Kinds : BeginInsert(p, kind)
                        \/ RetryInsert(p) \/ InsertRecord(p) \/ FinishInsert(p)
                        \/ CkptMark(p) \/ CkptWrite(p)
    \/ FlushWal \/ MapWriter
    \/ CkptRedo \/ CkptCollect \/ CkptMapPages \/ CkptSuper \/ CkptCapture
    \/ CkptCaptureEnd \/ CkptSync \/ CkptComplete \/ CkptFail
    \/ Crash \/ RedoPlain \/ RedoRemapOld \/ RedoRemapNew \/ RedoDone

Spec == Init /\ [][Next]_vars

\* A backend in XLogInsert finishes; the checkpointer and the startup process
\* keep running.  Nobody is obliged to start an insert or a checkpoint, except
\* the one that ends recovery.
Fairness ==
    /\ \A p \in Pages : /\ WF_vars(RetryInsert(p) \/ InsertRecord(p) \/ FinishInsert(p))
                        /\ WF_vars(CkptMark(p)) /\ WF_vars(CkptWrite(p))
    /\ WF_vars(CkptRedo /\ mode.phase = "eor")
    /\ WF_vars(CkptCollect \/ CkptMapPages \/ CkptSuper \/ CkptCapture
               \/ CkptCaptureEnd \/ CkptSync \/ CkptComplete)
    /\ WF_vars(RedoPlain \/ RedoRemapOld \/ RedoRemapNew \/ RedoDone)

FairSpec == Spec /\ Fairness

-----------------------------------------------------------------------------
(* Types.                                                                  *)

MaybeBlock == PBlock \cup {Invalid}
Frontier == 0 .. (MaxBlock + 1)

BufferType == [valid : BOOLEAN, lsn : Content, dirty : BOOLEAN, needed : BOOLEAN,
               saved : MaybeBlock, epoch : Nat]
InsertType == [pc : {"idle", "assembled", "inserted"}, kind : AllKinds,
               remap : BOOLEAN, old : MaybeBlock, new : MaybeBlock,
               nextFree : Frontier, clean : BOOLEAN, lsn : Nat]
RecordType == [page : Pages, kind : AllKinds, remap : BOOLEAN, old : MaybeBlock,
               new : MaybeBlock, nextFree : Frontier, prev : Content,
               source : {"pending", "clean", "saved", "missed", "overwritten"}]
CkptType == [phase : {"idle", "redo", "wait", "super", "capture", "mark", "write",
                      "sync", "record"},
             redo : Nat, waitFor : SUBSET Pages, todo : SUBSET Pages,
             ids : SUBSET Pages]

MapType == [pblk : [Pages -> PBlock], lsn : Nat, regressed : BOOLEAN]
MapFileType == [cached : [Pages -> PBlock], synced : [Pages -> PBlock]]
SuperType == [nextFree : Frontier, reserved : Frontier, lsn : Nat,
              cached : Frontier, synced : Frontier]
DataType == [cached : [PBlock -> Content], synced : [PBlock -> Content]]
ModeType == [phase : {"run", "redo", "eor"}, cursor : Nat, switch : BOOLEAN]

\* Every variable keeps its shape.
TypeOK ==
    /\ wal \in Seq(RecordType)
    /\ walFlushed \in Nat /\ redoRecPtr \in Nat /\ ctlRedo \in Nat
    /\ buf \in [Pages -> BufferType]
    /\ capture \in [epoch : Nat, active : BOOLEAN]
    /\ map \in MapType
    /\ mapFile \in MapFileType
    /\ super \in SuperType
    /\ data \in DataType
    /\ ins \in [Pages -> InsertType]
    /\ ckpt \in CkptType
    /\ mode \in ModeType
    /\ taint \in [Pages -> SUBSET {"saved", "missed", "overwritten", "image"}]
    /\ crashes \in Nat

-----------------------------------------------------------------------------
(* Safety.                                                                 *)

LastLsn(p) == LET own == {i \in 1 .. Len(wal) : wal[i].page = p}
              IN IF own = {} THEN 0 ELSE CHOOSE i \in own : \A j \in own : j <= i

\* The last change of page p that is both logged and finished.
Expected(p) == IF ins[p].pc = "inserted" THEN wal[LastLsn(p)].prev ELSE LastLsn(p)

ReadsCorrectly(p) == mode.phase \in {"run", "eor"} => View(p) = Expected(p)

\* None of the exposures at the end of this module has met page p.
Sheltered(p) == taint[p] = {} /\ ~map.regressed

\* Crash recovery brings back every logged change and no later write-back loses
\* one: outside redo a page reads as its last change (remap-without-image redo,
\* FlushBuffer), unless it met one of the exposures.
NoLostUpdate == \A p \in Pages : Sheltered(p) => ReadsCorrectly(p)

\* WAL before data: no block reaches its file before the record of the change
\* it holds is flushed (FlushBuffer calls XLogFlush first), and a crash leaves
\* no block newer than the WAL.
WalBeforeData ==
    /\ walFlushed <= Len(wal)
    /\ \A b \in PBlock : data.cached[b] <= walFlushed /\ data.synced[b] <= walFlushed

\* WAL before MAP: no entry and no superblock frontier reaches the metadata fork
\* before a record that publishes it is flushed (MapFlushWritePage,
\* MapFlushWriteSuperblockEntry), as long as no MAP page_lsn went back.
WalBeforeMapInOrder ==
    /\ ~map.regressed =>
       \A i \in (walFlushed + 1) .. Len(wal) :
          wal[i].remap => mapFile.cached[wal[i].page] # wal[i].new
    /\ \/ super.cached <= NPages
       \/ \E i \in 1 .. walFlushed : wal[i].remap /\ super.cached <= wal[i].nextFree

\* First record of its page that recovery would replay.
FirstRedone(i) ==
    /\ i > ctlRedo
    /\ \A j \in (ctlRedo + 1) .. (i - 1) : wal[j].page # wal[i].page

\* The old block of a remap keeps, in the kernel and on disk, the content the
\* delta was made against for as long as recovery may start before the record
\* (the baseline that XLogReadBufferForRedoExtendedUmbra reads).
BaselineIntact ==
    \A i \in 1 .. Len(wal) :
        (/\ FirstRedone(i)
         /\ wal[i].remap /\ wal[i].source = "clean"
         /\ Sheltered(wal[i].page))
            => /\ data.cached[wal[i].old] = wal[i].prev
               /\ data.synced[wal[i].old] = wal[i].prev

\* Blocks some page, MAP file or replayable record still refers to.
Referenced ==
    {map.pblk[p] : p \in Pages} \cup {mapFile.cached[p] : p \in Pages}
    \cup {mapFile.synced[p] : p \in Pages}
    \cup UNION {{wal[i].old, wal[i].new} :
                   i \in {j \in (ctlRedo + 1) .. Len(wal) : wal[j].remap}}

\* A block reserved for a remap that is not yet in the WAL is referred to by
\* nothing and by no other reservation, also after a crash has lost the
\* reservation frontier (MapGetNewPbkno, reserved_next_free).
FreshIsUnreferenced ==
    \A p \in Remapping("assembled") : Sheltered(p) =>
        /\ ins[p].new \notin Referenced
        /\ \A q \in Pages \ {p} : ins[q].remap => ins[q].new # ins[p].new

\* A completed checkpoint left on disk every mapping and the frontier of every
\* record before its redo point (DELAY_CHKPT_START, MapCheckpoint).
CheckpointCoversMap ==
    \A i \in 1 .. ctlRedo :
        (wal[i].remap /\ Sheltered(wal[i].page)) =>
            /\ super.synced >= wal[i].nextFree
            /\ \/ mapFile.synced[wal[i].page] = wal[i].new
               \/ \E j \in (i + 1) .. Len(wal) :
                     /\ wal[j].page = wal[i].page /\ wal[j].remap
                     /\ mapFile.synced[wal[i].page] = wal[j].new

-----------------------------------------------------------------------------
(* Liveness.                                                               *)

\* A checkpoint ends: waiting for DELAY_CHKPT_START, content locks and buffers
\* that others have written meanwhile never stop CreateCheckPoint.
CheckpointEnds == (ckpt.phase # "idle") ~> (ckpt.phase = "idle")

\* Recovery ends: redo and the end-of-recovery checkpoint reach normal running.
RecoveryEnds == (mode.phase = "redo") ~> (mode.phase = "run")

-----------------------------------------------------------------------------
(* Exposures: five histories after which recovery loses the page.          *)

OnlyExposure(p, e) == taint[p] \subseteq {e} /\ ~map.regressed

\* A remap made after the redo point but before BufferSync marked the dirty
\* buffer still recovers: the old block is the committed baseline.
UncapturedRemapRecovers == \A p \in Pages : OnlyExposure(p, "missed") => ReadsCorrectly(p)

\* A remap whose old block the checkpoint captured and wrote recovers: the
\* buffer remains dirty for its current block.
CapturedRemapRecovers == \A p \in Pages : OnlyExposure(p, "saved") => ReadsCorrectly(p)

\* A torn write of a checkpoint flush does not reach the baseline of a remap.
TornFlushRecovers == \A p \in Pages : OnlyExposure(p, "overwritten") => ReadsCorrectly(p)

\* WAL publication wins before committed MAP publication, whatever the order in
\* which concurrent backends publish their mappings.
WalBeforeMap ==
    \A i \in (walFlushed + 1) .. Len(wal) :
        wal[i].remap => mapFile.cached[wal[i].page] # wal[i].new

\* An image followed by a remap of the same page recovers like the image alone.
ImageThenRemapRecovers == \A p \in Pages : OnlyExposure(p, "image") => ReadsCorrectly(p)
=============================================================================
