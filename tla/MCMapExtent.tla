---------------------------- MODULE MCMapExtent ----------------------------
(***************************************************************************)
(* Instances of MapExtent for TLC.                                         *)
(***************************************************************************)
EXTENDS MapExtent

LastLife == crashes = MaxCrash /\ mode = "running"

(***************************************************************************)
(* View: of the log, only the records a recovery could still replay, and   *)
(* its length; after the last crash nothing that only a crash would bring  *)
(* back: the superblock on disk, the log, the checkpoint.  No action or    *)
(* property reads what is left out, except the start of a checkpoint,      *)
(* which then only adds to exposed and so weakens what is checked.         *)
(***************************************************************************)
Relevant ==
  <<super["mem"], mapFork, op, mode, history, crashes, Len(wal),
    IF LastLife THEN <<>>
    ELSE <<super["disk"], SubSeq(wal, redo + 1, Len(wal)), Len(wal) - redo,
           ckpt, cursor, cycles>> >>
=============================================================================
