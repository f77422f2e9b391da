--------------------------- MODULE MapMaterialize ---------------------------
(***************************************************************************)
(* How physical blocks of a mapped fork come to exist in its sparse        *)
(* segment files, and how the capacity in the superblock entry follows.    *)
(*                                                                         *)
(* Reservation only moves a frontier: a block is created by the write of   *)
(* its page, by zero-extension of a range, by preallocation ahead of the   *)
(* frontier, or by the single extender of MapSBlockEnsurePhysicalNblocks,  *)
(* which fills the gap between the capacity and a wanted size.  File I/O   *)
(* is done without the entry's lock.  Every process keeps a vector of the  *)
(* segments it has opened, and asks that vector whether a block exists.    *)
(***************************************************************************)
EXTENDS Integers, Sequences, FiniteSets, FiniteSetsExt

CONSTANTS
    Backends,   \* processes that remap pages and zero-extend ranges
    Writers,    \* background writer and checkpointer
    MapWriter,  \* the worker that preallocates in the background
    MaxBlock,   \* the allocator's limit
    SegBlocks,  \* RELSEG_SIZE
    RangeLen,   \* blocks of a zero-extended range
    SoftLow, HardLow, Batch   \* preallocation settings

ASSUME MaterializeAssumption ==
    /\ MapWriter \notin Backends \cup Writers
    /\ MaxBlock \in Nat \ {0} /\ SegBlocks \in Nat \ {0} /\ RangeLen \in Nat \ {0}
    /\ SoftLow \in Nat \ {0} /\ HardLow \in 1 .. SoftLow /\ Batch \in Nat \ {0}

Blocks == 0 .. (MaxBlock - 1)
Seg(b) == b \div SegBlocks
Segs == {Seg(b) : b \in Blocks}
Procs == Backends \cup Writers \cup {MapWriter}

VARIABLES
    disk,       \* blocks of the segment files: "absent", "zero" or "page"
    segs,       \* segment files that exist
    cap, next,  \* phys_capacity, reserved_next_free
    extending, target,  \* EXTENDING flag and extending_target
    preallocating,      \* PREALLOC flag
    mapped,     \* blocks that a published MAP entry names
    open,       \* open[p]: segments with an open file in the vector of backend p
    written,    \* blocks whose page was written since they were reserved
    proc        \* what each process is doing

vars == <<disk, segs, cap, next, extending, target, preallocating, mapped,
          open, written, proc>>
files == <<disk, segs, open, written>>
entry == <<cap, next, extending, target, preallocating, mapped>>

Idle == [pc |-> "idle", op |-> "none", blks |-> <<>>, below |-> FALSE, cur |-> 0, want |-> 0]

Init ==
    /\ disk = [b \in Blocks |-> "absent"]
    /\ segs = {0}
    /\ cap = 0 /\ next = 0
    /\ extending = FALSE /\ target = 0 /\ preallocating = FALSE
    /\ mapped = {} /\ written = {}
    /\ open = [p \in Backends |-> {}]
    /\ proc = [p \in Procs |-> Idle]

Goto(p, pc) == proc' = [proc EXCEPT ![p].pc = pc]
Finish(p) == proc' = [proc EXCEPT ![p] = Idle]
Blk(p) == proc[p].blks[Len(proc[p].blks)]

-----------------------------------------------------------------------------
(* Segment files.                                                          *)

\* What the files hold once b has content v: lower blocks of its segment
\* become holes that read as zeros.
Materialized(b, v) ==
    [x \in Blocks |-> IF x = b THEN v
                      ELSE IF Seg(x) = Seg(b) /\ x < b /\ disk[x] = "absent" THEN "zero"
                      ELSE disk[x]]

Opens(p, s) == open' = [q \in Backends |-> open[q] \cup (IF q = p THEN s ELSE {})]

\* umfile_getseg with CREATE, then a write of v at block b.
PutBlock(p, b, v) ==
    /\ disk' = Materialized(b, v)
    /\ segs' = segs \cup {Seg(b)}
    /\ Opens(p, {Seg(b)})

\* The length of the vector of p, num_open_segs.
NumOpen(p) == IF open[p] = {} THEN 0 ELSE Max(open[p]) + 1

\* umfile_ctx_block_exists: an entry of the vector that is not open counts
\* as a missing segment; only beyond the vector is the file looked for.
BlockExists(p, b) ==
    /\ IF Seg(b) < NumOpen(p) THEN Seg(b) \in open[p] ELSE Seg(b) \in segs
    /\ disk[b] # "absent"

\* The segment the probe leaves open.
ProbeOpens(p, b) ==
    Opens(p, IF Seg(b) >= NumOpen(p) THEN {Seg(b)} \cap segs ELSE {})

\* umfile_nblocks of a sparse fork: the end of the highest segment file.
SparseEnd ==
    Max(segs) * SegBlocks +
        Cardinality({b \in Blocks : Seg(b) = Max(segs) /\ disk[b] # "absent"})

-----------------------------------------------------------------------------
(* Reservation and the preallocation it may trigger.                       *)

\* A remap at WAL insertion or smgrzeroextend of a range begins.
Begin(p, op) ==
    /\ p \in Backends /\ proc[p].pc = "idle"
    /\ proc' = [proc EXCEPT ![p] = [Idle EXCEPT !.pc = "reserve", !.op = op]]
    /\ UNCHANGED <<files, entry>>

\* Mutant: the limit is tested one block too late.
ReserveAtLimit(p) ==
    /\ proc[p].pc = "reserve" /\ next <= MaxBlock
    /\ next' = next + 1
    /\ proc' = [proc EXCEPT ![p].pc = "prealloc", ![p].blks = Append(@, next)]
    /\ UNCHANGED <<files, cap, extending, target, preallocating, mapped>>

\* The reservation frontier moves under the entry's lock.
Reserve(p) ==
    /\ proc[p].pc = "reserve" /\ next < MaxBlock
    /\ next' = next + 1
    /\ proc' = [proc EXCEPT ![p].pc = "prealloc", ![p].blks = Append(@, next)]
    /\ UNCHANGED <<files, cap, extending, target, preallocating, mapped>>

\* "cannot allocate more physical blocks"
ReserveFails(p) ==
    /\ proc[p].pc = "reserve" /\ next = MaxBlock
    /\ Finish(p)
    /\ UNCHANGED <<files, entry>>

\* Where an operation goes on after its reservation.
Resume(p) ==
    IF proc[p].op # "range" THEN "publish"
    ELSE IF Len(proc[p].blks) < RangeLen THEN "reserve" ELSE "zero"

Proceed(p) ==
    proc' = [proc EXCEPT ![p] = IF p = MapWriter THEN Idle
                                ELSE [@ EXCEPT !.pc = Resume(p), !.cur = 0, !.want = 0]]

Remaining == IF cap > next THEN cap - next ELSE 0
Larger(a, b) == IF a < b THEN b ELSE a

\* The conditions of MapMaybePreallocateFork, also MapForkNeedsPrealloc.
NeedsPrealloc(background) ==
    /\ next >= SoftLow
    /\ Remaining <= SoftLow
    /\ background \/ Remaining <= HardLow
    /\ ~preallocating

PreallocSkip(p) ==
    /\ proc[p].pc = "prealloc" /\ ~NeedsPrealloc(FALSE)
    /\ Proceed(p)
    /\ UNCHANGED <<files, entry>>

\* The flag is set, the target chosen and the lock released; an ERROR when
\* the target is beyond the last block.  umfile_exists opens segment 0 in an
\* empty vector, umfile_nblocks the highest segment.
PreallocStart(p) ==
    LET goal == Larger(cap, next) + Batch
    IN /\ \/ proc[p].pc = "prealloc" /\ NeedsPrealloc(FALSE)
          \/ p = MapWriter /\ proc[p].pc = "idle" /\ NeedsPrealloc(TRUE)
       /\ IF goal > MaxBlock THEN Finish(p) /\ UNCHANGED <<files, entry>>
          ELSE /\ preallocating' = TRUE
               /\ proc' = [proc EXCEPT ![p].pc = "fallocate", ![p].want = goal,
                                       ![p].cur = SparseEnd]
               /\ Opens(p, {Max(segs)} \cup (IF p \in Backends /\ open[p] = {} THEN {0} \cap segs
                                               ELSE {}))
               /\ UNCHANGED <<disk, segs, written, cap, next, extending, target, mapped>>

\* One turn of umfile_ctx_preallocate_blocks: a segment file is created or
\* grown, no page content is written.
PreallocSegment(p) ==
    LET s == Seg(proc[p].cur)
        end == Min({(s + 1) * SegBlocks, proc[p].want})
    IN /\ proc[p].pc = "fallocate" /\ proc[p].cur < proc[p].want
       /\ PutBlock(p, end - 1, IF disk[end - 1] = "absent" THEN "zero" ELSE disk[end - 1])
       /\ proc' = [proc EXCEPT ![p].cur = end]
       /\ UNCHANGED <<entry, written>>

\* Mutant: the capacity is published although the file system refused.
PreallocFailsPublished(p) ==
    /\ proc[p].pc = "fallocate" /\ proc[p].cur < proc[p].want
    /\ segs' = segs \cup {Seg(proc[p].cur)}
    /\ Opens(p, {Seg(proc[p].cur)})
    /\ cap' = Larger(cap, proc[p].want)
    /\ preallocating' = FALSE
    /\ Proceed(p)
    /\ UNCHANGED <<disk, written, next, extending, target, mapped>>

\* fallocate is not supported (the call returns false and the operation goes
\* on) or raises an ERROR (it ends); an empty segment file may be left behind.
PreallocFails(p) ==
    /\ proc[p].pc = "fallocate" /\ proc[p].cur < proc[p].want
    /\ segs' = segs \cup {Seg(proc[p].cur)}
    /\ Opens(p, {Seg(proc[p].cur)})
    /\ preallocating' = FALSE
    /\ Proceed(p) \/ Finish(p)
    /\ UNCHANGED <<disk, written, cap, next, extending, target, mapped>>

\* The capacity is raised under the lock and the flag cleared.
PreallocPublish(p) ==
    /\ proc[p].pc = "fallocate" /\ proc[p].cur >= proc[p].want
    /\ cap' = Larger(cap, proc[p].want)
    /\ preallocating' = FALSE
    /\ Proceed(p)
    /\ UNCHANGED <<files, next, extending, target, mapped>>

-----------------------------------------------------------------------------
(* Publication and the write of a page.                                    *)

\* The MAP entry is set, the page is left dirty in the buffer pool.
Publish(p) ==
    /\ proc[p].pc = "publish"
    /\ mapped' = mapped \cup {Blk(p)}
    /\ Finish(p)
    /\ UNCHANGED <<files, cap, next, extending, target, preallocating>>

\* A writer takes a mapped page nobody else is writing: umwritev compares the
\* block with the capacity it reads first, a checkpoint flushes a saved block.
BeginWrite(w, b, pc) ==
    /\ w \in Writers /\ proc[w].pc = "idle"
    /\ b \in mapped
    /\ \A q \in Procs : proc[q].pc \in {"write", "bump", "saved", "zeroed"} => Blk(q) # b
    /\ proc' = [proc EXCEPT ![w] = [Idle EXCEPT !.pc = pc, !.op = "write", !.blks = <<b>>,
                                               !.below = pc = "write" /\ b < cap]]
    /\ UNCHANGED <<files, entry>>

\* At or beyond the capacity: umfile_extend.
WriteBeyond(p) ==
    /\ proc[p].pc = "write" /\ ~proc[p].below
    /\ PutBlock(p, Blk(p), "page")
    /\ written' = written \cup {Blk(p)}
    /\ Goto(p, "bump")
    /\ UNCHANGED entry

\* MapSBlockBumpPhysicalNblocks after the write.
Bump(p) ==
    /\ proc[p].pc = "bump"
    /\ cap' = Larger(cap, Blk(p) + 1)
    /\ Finish(p)
    /\ UNCHANGED <<files, next, extending, target, preallocating, mapped>>

\* Below the capacity: umfile_writev, which creates no segment file.
WriteBelow(p) ==
    /\ proc[p].pc = "write" /\ proc[p].below
    /\ IF Seg(Blk(p)) \in segs
       THEN PutBlock(p, Blk(p), "page") /\ written' = written \cup {Blk(p)}
       ELSE UNCHANGED files   \* "could not open file"
    /\ Finish(p)
    /\ UNCHANGED entry

\* UmCheckpointWritePblk: zero-extend the saved block if it does not exist
\* (or the writer's vector, not kept here, does not know its segment), then
\* write it.  The capacity stays.
CheckpointZero(p) ==
    /\ proc[p].pc = "saved"
    /\ \/ disk[Blk(p)] # "absent" /\ UNCHANGED <<disk, segs, open>>
       \/ PutBlock(p, Blk(p), "zero")
    /\ Goto(p, "zeroed")
    /\ UNCHANGED <<entry, written>>

CheckpointWrite(p) ==
    /\ proc[p].pc = "zeroed"
    /\ PutBlock(p, Blk(p), "page")
    /\ written' = written \cup {Blk(p)}
    /\ Finish(p)
    /\ UNCHANGED entry

-----------------------------------------------------------------------------
(* Zero-extension of a range and the single extender.                      *)

\* Mutant: the last block of the range is left to the extender.
ZeroBlockButLast(p) ==
    /\ proc[p].pc = "zero"
    /\ PutBlock(p, proc[p].blks[proc[p].cur + 1], "zero")
    /\ proc' = [proc EXCEPT ![p].cur = @ + 1,
                            ![p].pc = IF proc[p].cur + 2 = RangeLen THEN "ensure" ELSE "zero"]
    /\ UNCHANGED <<entry, written>>

\* um_materialize_pblk_zero_runs, block by block.
ZeroBlock(p) ==
    /\ proc[p].pc = "zero"
    /\ PutBlock(p, proc[p].blks[proc[p].cur + 1], "zero")
    /\ proc' = [proc EXCEPT ![p].cur = @ + 1,
                            ![p].pc = IF proc[p].cur + 1 = RangeLen THEN "ensure" ELSE "zero"]
    /\ UNCHANGED <<entry, written>>

\* MapSBlockEnsurePhysicalNblocks: enough capacity already.
EnsureReady(p) ==
    /\ proc[p].pc = "ensure" /\ cap > Blk(p)
    /\ Goto(p, "apply")
    /\ UNCHANGED <<files, entry>>

\* Another process extends: ask it for more, sleep and try again.
EnsureWait(p) ==
    /\ proc[p].pc = "ensure" /\ cap <= Blk(p)
    /\ extending /\ target < Blk(p) + 1
    /\ target' = Blk(p) + 1
    /\ UNCHANGED <<files, cap, next, extending, preallocating, mapped, proc>>

\* Mutant: the flag is not tested.
EnsureStartAnyway(p) ==
    /\ proc[p].pc = "ensure" /\ cap <= Blk(p)
    /\ extending' = TRUE /\ target' = Blk(p) + 1
    /\ proc' = [proc EXCEPT ![p].pc = "probe", ![p].cur = cap, ![p].want = Blk(p) + 1]
    /\ UNCHANGED <<files, cap, next, preallocating, mapped>>

\* Become the extender.
EnsureStart(p) ==
    /\ proc[p].pc = "ensure" /\ cap <= Blk(p) /\ ~extending
    /\ extending' = TRUE /\ target' = Blk(p) + 1
    /\ proc' = [proc EXCEPT ![p].pc = "probe", ![p].cur = cap, ![p].want = Blk(p) + 1]
    /\ UNCHANGED <<files, cap, next, preallocating, mapped>>

\* Without the lock: look whether the next block exists ...
Probe(p) ==
    /\ proc[p].pc = "probe" /\ proc[p].cur < proc[p].want
    /\ proc' = IF BlockExists(p, proc[p].cur) THEN [proc EXCEPT ![p].cur = @ + 1]
               ELSE [proc EXCEPT ![p].pc = "fill"]
    /\ ProbeOpens(p, proc[p].cur)
    /\ UNCHANGED <<entry, disk, segs, written>>

\* ... and zero-fill it if it does not.
Fill(p) ==
    /\ proc[p].pc = "fill"
    /\ PutBlock(p, proc[p].cur, "zero")
    /\ proc' = [proc EXCEPT ![p].pc = "probe", ![p].cur = @ + 1]
    /\ UNCHANGED <<entry, written>>

\* The file cannot grow: PG_CATCH gives the role of the extender up.
FillFails(p) ==
    /\ proc[p].pc = "fill"
    /\ extending' = FALSE /\ target' = 0
    /\ Finish(p)
    /\ UNCHANGED <<files, cap, next, preallocating, mapped>>

\* Under the lock again: publish, then finish or serve a raised target.
EnsurePublish(p) ==
    LET c == Larger(cap, proc[p].want)
        w == Larger(proc[p].want, target)
    IN /\ proc[p].pc = "probe" /\ proc[p].cur >= proc[p].want
       /\ cap' = c
       /\ IF c >= w
          THEN /\ extending' = FALSE /\ target' = 0
               /\ proc' = [proc EXCEPT ![p].pc = "apply", ![p].cur = 0, ![p].want = 0]
          ELSE /\ target' = w /\ UNCHANGED extending
               /\ proc' = [proc EXCEPT ![p].cur = c, ![p].want = w]
       /\ UNCHANGED <<files, next, preallocating, mapped>>

\* The rest of UmApplyReservedRangeRemap: mappings and frontiers.
Apply(p) ==
    /\ proc[p].pc = "apply"
    /\ mapped' = mapped \cup {proc[p].blks[i] : i \in 1 .. RangeLen}
    /\ cap' = Larger(cap, Blk(p) + 1)
    /\ Finish(p)
    /\ UNCHANGED <<files, next, extending, target, preallocating>>

-----------------------------------------------------------------------------
Start(p) ==
    \/ \E op \in {"remap", "range"} : Begin(p, op)
    \/ \E b \in mapped, pc \in {"write", "saved"} : BeginWrite(p, b, pc)

Step(p) ==
    \/ Reserve(p) \/ ReserveFails(p)
    \/ PreallocSkip(p) \/ PreallocStart(p) \/ PreallocSegment(p)
    \/ PreallocFails(p) \/ PreallocPublish(p)
    \/ Publish(p) \/ WriteBeyond(p) \/ Bump(p) \/ WriteBelow(p)
    \/ CheckpointZero(p) \/ CheckpointWrite(p)
    \/ ZeroBlock(p) \/ EnsureReady(p) \/ EnsureWait(p) \/ EnsureStart(p)
    \/ Probe(p) \/ Fill(p) \/ FillFails(p) \/ EnsurePublish(p) \/ Apply(p)

Next == \E p \in Procs : Start(p) \/ Step(p)

Spec == Init /\ [][Next]_vars

-----------------------------------------------------------------------------
(* Properties.                                                             *)

TypeOK ==
    /\ disk \in [Blocks -> {"absent", "zero", "page"}]
    /\ segs \subseteq Segs /\ mapped \subseteq Blocks /\ written \subseteq Blocks
    /\ cap \in 0 .. MaxBlock /\ next \in 0 .. MaxBlock /\ target \in 0 .. MaxBlock
    /\ extending \in BOOLEAN /\ preallocating \in BOOLEAN
    /\ open \in [Backends -> SUBSET Segs]
    /\ \A p \in Procs :
          /\ proc[p].pc \in {"idle", "reserve", "prealloc", "fallocate", "publish", "write",
                             "bump", "saved", "zeroed", "zero", "ensure", "probe", "fill", "apply"}
          /\ proc[p].blks \in Seq(Blocks) /\ Len(proc[p].blks) <= RangeLen
          /\ {proc[p].cur, proc[p].want} \subseteq 0 .. MaxBlock

OneHolder(flag, pcs) ==
    /\ flag <=> \E p \in Procs : proc[p].pc \in pcs
    /\ \A p, q \in Procs : proc[p].pc \in pcs /\ proc[q].pc \in pcs => p = q

\* The EXTENDING and PREALLOC flags each have exactly one process behind
\* them while they are set and none while they are clear: file I/O on the
\* gap is single-flight, also after an ERROR of the process that held a flag.
SingleFlight ==
    /\ OneHolder(extending, {"probe", "fill"})
    /\ OneHolder(preallocating, {"fallocate"})

\* The capacity is never ahead of the files: a block at or above the last
\* one it counts exists, whichever of writer, extender and preallocator
\* raised it from whatever it had read before its I/O.
CapacityWithinFiles ==
    cap > 0 => \E b \in Blocks : b >= cap - 1 /\ disk[b] # "absent"

\* Blocks given to a range by zero-extension exist in the files by the time
\* their mappings are published, so a read through the MAP meets no end of file.
RangeExistsWhenApplied ==
    \A p \in Procs : proc[p].pc = "apply" =>
        /\ \A i \in 1 .. RangeLen : disk[proc[p].blks[i]] # "absent"
        /\ cap > Blk(p)

\* A page that was written to its block is still there, unless a checkpoint
\* is about to write it again.
WrittenPagesKept ==
    \A b \in written :
        disk[b] = "page" \/ \E p \in Procs : proc[p].pc = "zeroed" /\ Blk(p) = b

\* A block below the capacity can be written without creating its segment.
BelowCapacityIsWritable ==
    \A p \in Procs : (proc[p].pc = "write" /\ proc[p].below) => Seg(Blk(p)) \in segs
=============================================================================
