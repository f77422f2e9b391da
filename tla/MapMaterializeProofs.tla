------------------------ MODULE MapMaterializeProofs ------------------------
(***************************************************************************)
(* For any number of processes and any sizes: the flags of the extender    *)
(* and of preallocation are single-flight, and the blocks of a range exist *)
(* and are counted by the capacity when their mappings are published.      *)
(*                                                                         *)
(* The invariant says, for every stage of an operation, what it has        *)
(* achieved: how many blocks are reserved, how many of them exist, what    *)
(* size the extender is after.  Blocks never cease to exist and the        *)
(* capacity never shrinks, so only the process that moves can break it.    *)
(***************************************************************************)
EXTENDS MapMaterialize, FiniteSetTheorems, TLAPS

Exist(d, blks, n) == \A i \in 1 .. n : d[blks[i]] # "absent"

Achieved(p, pc, op, blks, cur, want, d, c) ==
    /\ blks \in Seq(Blocks)
    /\ pc \in {"idle", "reserve", "prealloc", "fallocate", "publish", "write", "bump",
               "saved", "zeroed", "zero", "ensure", "probe", "fill", "apply"}
    /\ p = MapWriter => pc \in {"idle", "fallocate"} /\ op = "none"
    /\ pc = "reserve" /\ op = "range" => Len(blks) < RangeLen
    /\ pc \in {"prealloc", "fallocate"} /\ op = "range" => Len(blks) <= RangeLen
    /\ pc \notin {"idle", "reserve", "fallocate"} \/ (pc = "fallocate" /\ p # MapWriter)
          => blks # <<>>
    /\ pc \in {"fallocate", "probe", "fill"} => want \in Nat
    /\ pc = "zero" => /\ Len(blks) = RangeLen
                      /\ cur \in 0 .. (RangeLen - 1)
                      /\ Exist(d, blks, cur)
    /\ pc \in {"ensure", "probe", "fill", "apply"} => /\ Len(blks) = RangeLen
                                                     /\ Exist(d, blks, RangeLen)
    /\ pc \in {"probe", "fill"} => want > blks[Len(blks)]
    /\ pc = "apply" => c > blks[Len(blks)]

Stage(p) ==
    /\ proc[p] = [pc |-> proc[p].pc, op |-> proc[p].op, blks |-> proc[p].blks,
                  below |-> proc[p].below, cur |-> proc[p].cur, want |-> proc[p].want]
    /\ Achieved(p, proc[p].pc, proc[p].op, proc[p].blks, proc[p].cur, proc[p].want, disk, cap)

Sizes ==
    /\ cap \in Nat /\ next \in Nat /\ target \in Nat
    /\ disk = [b \in Blocks |-> disk[b]]
    /\ proc = [p \in Procs |-> proc[p]]

IInv == Sizes /\ \A p \in Procs : Stage(p)

\* Blocks stay, capacity and frontier do not shrink.
Grows ==
    /\ Sizes'
    /\ cap <= cap'
    /\ \A b \in Blocks : disk[b] # "absent" => disk'[b] # "absent"

USE MaterializeAssumption

-----------------------------------------------------------------------------
\* A process that does not move keeps what it has achieved.
LEMMA StageKept ==
    ASSUME NEW p \in Procs, Sizes, Stage(p), Grows, proc'[p] = proc[p]
    PROVE  Stage(p)'
<1> DEFINE blks == proc[p].blks
<1>1. blks # <<>> => blks[Len(blks)] \in Nat
    BY DEF Stage, Achieved, Blocks
<1>2. ASSUME NEW i \in 1 .. Len(blks)
      PROVE  blks[i] \in Blocks
    BY DEF Stage, Achieved
<1>3. ASSUME NEW n \in 0 .. Len(blks), Exist(disk, blks, n)
      PROVE  Exist(disk', blks, n)
    BY <1>2, <1>3 DEF Exist, Grows, Stage, Achieved
<1>4. cap > blks[Len(blks)] /\ blks # <<>> => cap' > blks[Len(blks)]
    BY SMTT(40), <1>1 DEF Grows, Sizes
<1> HIDE DEF blks
<1>5. Achieved(p, proc[p].pc, proc[p].op, blks, proc[p].cur, proc[p].want, disk', cap')
    BY <1>3, <1>4 DEF Stage, Achieved, blks
<1> QED
    BY <1>5 DEF Stage, blks

\* Only the process that moves has to be looked at.
LEMMA Moved ==
    ASSUME IInv, NEW p \in Procs, Grows,
           NEW pc, NEW op, NEW blks, NEW below, NEW cur, NEW want,
           proc'[p] = [pc |-> pc, op |-> op, blks |-> blks, below |-> below,
                       cur |-> cur, want |-> want],
           \A q \in Procs \ {p} : proc'[q] = proc[q],
           Achieved(p, pc, op, blks, cur, want, disk', cap')
    PROVE  IInv'
<1>1. ASSUME NEW q \in Procs, q # p PROVE Stage(q)'
    BY <1>1, StageKept DEF IInv
<1>2. Stage(p)'
    BY DEF Stage
<1> QED
    BY <1>1, <1>2 DEF IInv, Grows

\* A block that exists keeps existing when another one is created.
LEMMA MaterializedGrows ==
    ASSUME Sizes, NEW b, NEW v, v # "absent"
    PROVE  /\ Materialized(b, v) = [x \in Blocks |-> Materialized(b, v)[x]]
           /\ \A x \in Blocks : disk[x] # "absent" => Materialized(b, v)[x] # "absent"
           /\ b \in Blocks => Materialized(b, v)[b] # "absent"
    BY DEF Materialized, Sizes

\* Materializing a block takes none away.
LEMMA DiskGrows ==
    ASSUME Sizes, NEW b, NEW v, v # "absent", disk' = Materialized(b, v),
           cap' = cap, next' = next, target' = target,
           proc' = [q \in Procs |-> proc'[q]]
    PROVE  Grows /\ (b \in Blocks => disk'[b] # "absent")
<1>1. /\ disk' = [x \in Blocks |-> disk'[x]]
      /\ \A x \in Blocks : disk[x] # "absent" => disk'[x] # "absent"
      /\ b \in Blocks => disk'[b] # "absent"
    BY MaterializedGrows
<1>2. Sizes'
    BY <1>1 DEF Sizes
<1> QED
    BY <1>1, <1>2 DEF Grows, Sizes

\* An operation that goes on keeps its blocks.
LEMMA Goes ==
    ASSUME IInv, NEW p \in Procs, Grows, NEW pc, NEW cur, NEW want,
           proc' = [proc EXCEPT ![p] = [pc |-> pc, op |-> proc[p].op, blks |-> proc[p].blks,
                                        below |-> proc[p].below, cur |-> cur, want |-> want]],
           Achieved(p, pc, proc[p].op, proc[p].blks, cur, want, disk', cap')
    PROVE  IInv'
<1> DEFINE op == proc[p].op
           blks == proc[p].blks
           below == proc[p].below
<1>1. /\ proc'[p] = [pc |-> pc, op |-> op, blks |-> blks, below |-> below,
                     cur |-> cur, want |-> want]
      /\ \A q \in Procs \ {p} : proc'[q] = proc[q]
    BY DEF IInv, Sizes
<1> HIDE DEF op, blks, below
<1>2. Achieved(p, pc, op, blks, cur, want, disk', cap')
    BY DEF op, blks
<1> QED
    BY <1>1, <1>2, Moved

\* Updates of a process record, field by field.
LEMMA Record ==
    ASSUME IInv, NEW p \in Procs, NEW pc, NEW cur, NEW want
    PROVE  /\ [proc[p] EXCEPT !.pc = pc] =
                  [pc |-> pc, op |-> proc[p].op, blks |-> proc[p].blks,
                   below |-> proc[p].below, cur |-> proc[p].cur, want |-> proc[p].want]
           /\ [proc[p] EXCEPT !.cur = cur] =
                  [pc |-> proc[p].pc, op |-> proc[p].op, blks |-> proc[p].blks,
                   below |-> proc[p].below, cur |-> cur, want |-> proc[p].want]
           /\ [proc[p] EXCEPT !.pc = pc, !.cur = cur] =
                  [pc |-> pc, op |-> proc[p].op, blks |-> proc[p].blks,
                   below |-> proc[p].below, cur |-> cur, want |-> proc[p].want]
           /\ [proc[p] EXCEPT !.cur = cur, !.pc = pc] =
                  [pc |-> pc, op |-> proc[p].op, blks |-> proc[p].blks,
                   below |-> proc[p].below, cur |-> cur, want |-> proc[p].want]
           /\ [proc[p] EXCEPT !.cur = cur, !.want = want] =
                  [pc |-> proc[p].pc, op |-> proc[p].op, blks |-> proc[p].blks,
                   below |-> proc[p].below, cur |-> cur, want |-> want]
<1> DEFINE r == proc[p]
<1>1. r = [pc |-> r.pc, op |-> r.op, blks |-> r.blks, below |-> r.below,
           cur |-> r.cur, want |-> r.want]
    BY DEF IInv, Stage
<1> HIDE DEF r
<1>2. [r EXCEPT !.pc = pc] =
        [pc |-> pc, op |-> r.op, blks |-> r.blks, below |-> r.below, cur |-> r.cur, want |-> r.want]
    BY <1>1
<1>3. [r EXCEPT !.cur = cur] =
        [pc |-> r.pc, op |-> r.op, blks |-> r.blks, below |-> r.below, cur |-> cur, want |-> r.want]
    BY <1>1
<1> DEFINE e == r.pc
           f == r.op
           g == r.blks
           h == r.below
           i == r.cur
           j == r.want
           R == [pc |-> e, op |-> f, blks |-> g, below |-> h, cur |-> i, want |-> j]
<1> HIDE DEF e, f, g, h, i, j
<1>4. ASSUME NEW x, x = [R EXCEPT !.pc = pc, !.cur = cur]
      PROVE  x = [pc |-> pc, op |-> f, blks |-> g, below |-> h, cur |-> cur, want |-> j]
    BY Zenon, <1>4
<1>5. ASSUME NEW x, x = [R EXCEPT !.cur = cur, !.pc = pc]
      PROVE  x = [pc |-> pc, op |-> f, blks |-> g, below |-> h, cur |-> cur, want |-> j]
    BY Zenon, <1>5
<1>6. ASSUME NEW x, x = [R EXCEPT !.cur = cur, !.want = want]
      PROVE  x = [pc |-> e, op |-> f, blks |-> g, below |-> h, cur |-> cur, want |-> want]
    BY Zenon, <1>6
<1>7. R = r
    BY <1>1 DEF e, f, g, h, i, j
<1> HIDE DEF R
<1> QED
    BY <1>2, <1>3, <1>4, <1>5, <1>6, <1>7 DEF r, e, f, g, h, i, j

\* The same for the update of three fields.
LEMMA RecordAll ==
    ASSUME IInv, NEW p \in Procs, NEW pc, NEW cur, NEW want
    PROVE  [proc[p] EXCEPT !.pc = pc, !.cur = cur, !.want = want] =
                  [pc |-> pc, op |-> proc[p].op, blks |-> proc[p].blks,
                   below |-> proc[p].below, cur |-> cur, want |-> want]
<1> DEFINE r == proc[p]
           e == r.pc
           f == r.op
           g == r.blks
           h == r.below
           i == r.cur
           j == r.want
           R == [pc |-> e, op |-> f, blks |-> g, below |-> h, cur |-> i, want |-> j]
<1>1. R = r
    BY DEF IInv, Stage
<1> HIDE DEF r, e, f, g, h, i, j
<1>2. ASSUME NEW x, x = [R EXCEPT !.pc = pc, !.cur = cur, !.want = want]
      PROVE  x = [pc |-> pc, op |-> f, blks |-> g, below |-> h, cur |-> cur, want |-> want]
    BY Zenon, <1>2
<1> HIDE DEF R
<1> QED
    BY <1>1, <1>2 DEF r, e, f, g, h, i, j

\* The larger of two numbers is a number not below either.
LEMMA LargerNat ==
    ASSUME NEW a \in Nat, NEW b \in Nat
    PROVE  Larger(a, b) \in Nat /\ a <= Larger(a, b) /\ b <= Larger(a, b)
    BY DEF Larger

\* The last block of a non-empty sequence of blocks is a block.
LEMMA LastBlock ==
    ASSUME NEW blks \in Seq(Blocks), blks # <<>>
    PROVE  blks[Len(blks)] \in Blocks /\ blks[Len(blks)] \in Nat /\ Len(blks) \in Nat \ {0}
    BY DEF Blocks

-----------------------------------------------------------------------------

\* The initial files satisfy the invariant, and no flag is held.
LEMMA InitIInv == Init => IInv /\ SingleFlight
<1> SUFFICES ASSUME Init PROVE IInv /\ SingleFlight
    OBVIOUS
<1>1. Sizes
    BY DEF Init, Sizes
<1>2. ASSUME NEW p \in Procs PROVE Stage(p)
  <2>1. proc[p] = Idle
    BY DEF Init
  <2>2. Achieved(p, "idle", "none", <<>>, 0, 0, disk, cap)
    BY DEF Achieved
  <2> QED
    BY <2>1, <2>2 DEF Stage, Idle
<1>3. SingleFlight
    BY DEF Init, SingleFlight, OneHolder, Idle
<1> QED
    BY <1>1, <1>2, <1>3 DEF IInv

-----------------------------------------------------------------------------
\* Reservation.
LEMMA BeginStep ==
    ASSUME IInv, NEW p \in Procs, NEW op \in {"remap", "range"}, Begin(p, op)
    PROVE  IInv'
<1>1. Grows
    BY DEF IInv, Sizes, Grows, Begin, files, entry
<1>2. /\ proc'[p] = [pc |-> "reserve", op |-> op, blks |-> <<>>, below |-> FALSE,
                     cur |-> 0, want |-> 0]
      /\ \A q \in Procs \ {p} : proc'[q] = proc[q]
    BY Zenon DEF IInv, Sizes, Begin, Idle
<1>3. Achieved(p, "reserve", op, <<>>, 0, 0, disk', cap')
    BY DEF Achieved, Begin, Procs
<1> QED
    BY <1>1, <1>2, <1>3, Moved

\* The invariant through the reservation of the next block.
LEMMA ReserveStep ==
    ASSUME IInv, NEW p \in Procs, Reserve(p)
    PROVE  IInv'
<1> DEFINE r == proc[p]
<1> DEFINE blks == Append(r.blks, next)
<1>1. Grows
    BY DEF IInv, Sizes, Grows, Reserve, files
<1>2. /\ proc'[p] = [pc |-> "prealloc", op |-> r.op, blks |-> blks, below |-> r.below,
                     cur |-> r.cur, want |-> r.want]
      /\ \A q \in Procs \ {p} : proc'[q] = proc[q]
  <2>1. r = [pc |-> r.pc, op |-> r.op, blks |-> r.blks, below |-> r.below,
             cur |-> r.cur, want |-> r.want]
    BY DEF IInv, Stage
  <2>2. proc' = [proc EXCEPT ![p] = [r EXCEPT !.pc = "prealloc", !.blks = blks]]
    BY Zenon, <2>1 DEF IInv, Sizes, Reserve
  <2> HIDE DEF r
  <2> QED
    BY Zenon, <2>1, <2>2 DEF IInv, Sizes
<1>3. r.blks \in Seq(Blocks) /\ next \in Blocks
    BY DEF IInv, Sizes, Stage, Achieved, Reserve, Blocks
<1>4. /\ blks \in Seq(Blocks) /\ blks # <<>>
      /\ Len(blks) = Len(r.blks) + 1 /\ Len(r.blks) \in Nat
    BY <1>3
<1>5. /\ p # MapWriter
      /\ r.op = "range" => Len(r.blks) < RangeLen
    BY Zenon DEF IInv, Stage, Achieved, Reserve
<1> HIDE DEF blks
<1>6. Achieved(p, "prealloc", r.op, blks, r.cur, r.want, disk', cap')
    BY <1>4, <1>5 DEF Achieved
<1> QED
    BY <1>1, <1>2, <1>6, Moved

\* The invariant when a process ends its operation.
LEMMA FinishStage ==
    ASSUME IInv, NEW p \in Procs, Grows, Finish(p)
    PROVE  IInv'
<1>1. /\ proc'[p] = [pc |-> "idle", op |-> "none", blks |-> <<>>, below |-> FALSE,
                     cur |-> 0, want |-> 0]
      /\ \A q \in Procs \ {p} : proc'[q] = proc[q]
    BY DEF IInv, Sizes, Finish, Idle
<1>2. Achieved(p, "idle", "none", <<>>, 0, 0, disk', cap')
    BY DEF Achieved
<1> QED
    BY <1>1, <1>2, Moved

\* After preallocation an operation goes on where its blocks allow.
LEMMA ProceedStage ==
    ASSUME IInv, NEW p \in Procs, Grows, Proceed(p),
           proc[p].pc \in {"prealloc", "fallocate"}
    PROVE  IInv'
<1>1. CASE p = MapWriter
  <2>1. Finish(p)
    BY <1>1 DEF Proceed, Finish, IInv, Sizes
  <2> QED
    BY <2>1, FinishStage
<1>2. CASE p # MapWriter
  <2> DEFINE r == proc[p]
  <2>1. /\ proc'[p] = [pc |-> Resume(p), op |-> r.op, blks |-> r.blks, below |-> r.below,
                       cur |-> 0, want |-> 0]
        /\ \A q \in Procs \ {p} : proc'[q] = proc[q]
    <3>1. r = [pc |-> r.pc, op |-> r.op, blks |-> r.blks, below |-> r.below,
               cur |-> r.cur, want |-> r.want]
      BY DEF IInv, Stage
    <3>2. proc' = [proc EXCEPT ![p] = [r EXCEPT !.pc = Resume(p), !.cur = 0, !.want = 0]]
      BY <1>2 DEF Proceed
    <3> HIDE DEF r
    <3> QED
      BY Zenon, <3>1, <3>2 DEF IInv, Sizes
  <2>2. /\ r.blks \in Seq(Blocks) /\ r.blks # <<>> /\ Len(r.blks) \in Nat
        /\ r.op = "range" => Len(r.blks) <= RangeLen
    <3>1. Achieved(p, r.pc, r.op, r.blks, r.cur, r.want, disk, cap)
      BY Zenon DEF IInv, Stage
    <3>2. r.pc \in {"prealloc", "fallocate"}
      OBVIOUS
    <3> HIDE DEF r
    <3> QED
      BY <1>2, <3>1, <3>2 DEF Achieved
  <2>3. Achieved(p, Resume(p), r.op, r.blks, 0, 0, disk', cap')
    BY <1>2, <2>2 DEF Achieved, Resume, Exist
  <2> QED
    BY <2>1, <2>3, Moved
<1> QED
    BY <1>1, <1>2
-----------------------------------------------------------------------------
\* Preallocation.
LEMMA PreallocSkipStep ==
    ASSUME IInv, NEW p \in Procs, PreallocSkip(p)
    PROVE  IInv'
<1>1. Grows
    BY DEF IInv, Sizes, Grows, PreallocSkip, files, entry, Proceed
<1> QED
    BY <1>1, ProceedStage DEF PreallocSkip

\* The invariant when a process takes the preallocation flag.
LEMMA PreallocStartStep ==
    ASSUME IInv, NEW p \in Procs, PreallocStart(p)
    PROVE  IInv'
<1> DEFINE r == proc[p]
<1> DEFINE goal == Larger(cap, next) + Batch
<1>1. CASE goal > MaxBlock
  <2>1. Grows /\ Finish(p)
    BY <1>1 DEF IInv, Sizes, Grows, PreallocStart, Finish, files, entry
  <2> QED
    BY <2>1, FinishStage
<1>2. CASE ~(goal > MaxBlock)
  <2>1. Grows
    BY <1>2 DEF IInv, Sizes, Grows, PreallocStart
  <2>2. /\ proc'[p] = [pc |-> "fallocate", op |-> r.op, blks |-> r.blks,
                       below |-> r.below, cur |-> SparseEnd, want |-> goal]
        /\ \A q \in Procs \ {p} : proc'[q] = proc[q]
    <3>1. r = [pc |-> r.pc, op |-> r.op, blks |-> r.blks, below |-> r.below,
               cur |-> r.cur, want |-> r.want]
      BY DEF IInv, Stage
    <3>2. proc' = [proc EXCEPT ![p] = [r EXCEPT !.pc = "fallocate", !.want = goal,
                                               !.cur = SparseEnd]]
      BY <1>2, <3>1 DEF PreallocStart, IInv, Sizes
    <3> HIDE DEF r, goal
    <3> QED
      BY Zenon, <3>1, <3>2 DEF IInv, Sizes
  <2>3. goal \in Nat
    BY LargerNat DEF IInv, Sizes
  <2>4. Achieved(p, r.pc, r.op, r.blks, r.cur, r.want, disk, cap)
    BY Zenon DEF IInv, Stage
  <2>5. r.pc = "prealloc" \/ (p = MapWriter /\ r.pc = "idle")
    BY Zenon DEF PreallocStart
  <2> HIDE DEF r, goal
  <2>6. Achieved(p, "fallocate", r.op, r.blks, SparseEnd, goal, disk', cap')
    BY <2>3, <2>4, <2>5 DEF Achieved
  <2> QED
    BY <2>1, <2>2, <2>6, Moved
<1> QED
    BY <1>1, <1>2

\* The invariant through the preallocation of one segment.
LEMMA PreallocSegmentStep ==
    ASSUME IInv, NEW p \in Procs, PreallocSegment(p)
    PROVE  IInv'
<1> DEFINE r == proc[p]
<1> DEFINE end == Min({(Seg(r.cur) + 1) * SegBlocks, r.want})
<1> DEFINE v == IF disk[end - 1] = "absent" THEN "zero" ELSE disk[end - 1]
<1>1. disk' = Materialized(end - 1, v) /\ v # "absent"
    BY DEF PreallocSegment, PutBlock
<1>2. Grows
  <2>1. /\ cap' = cap /\ next' = next /\ target' = target
        /\ proc' = [q \in Procs |-> proc'[q]]
    BY Zenon DEF PreallocSegment, entry, IInv, Sizes
  <2> HIDE DEF v, end
  <2> QED
    BY <1>1, <2>1, DiskGrows DEF IInv
<1>3. /\ proc'[p] = [pc |-> r.pc, op |-> r.op, blks |-> r.blks,
                     below |-> r.below, cur |-> end, want |-> r.want]
      /\ \A q \in Procs \ {p} : proc'[q] = proc[q]
  <2>1. r = [pc |-> r.pc, op |-> r.op, blks |-> r.blks, below |-> r.below,
             cur |-> r.cur, want |-> r.want]
    BY DEF IInv, Stage
  <2>2. proc' = [proc EXCEPT ![p] = [r EXCEPT !.cur = end]]
    BY DEF PreallocSegment
  <2> HIDE DEF r, end
  <2> QED
    BY <2>1, <2>2 DEF IInv, Sizes
<1>4. Achieved(p, r.pc, r.op, r.blks, r.cur, r.want, disk, cap) /\ r.pc = "fallocate"
    BY Zenon DEF IInv, Stage, PreallocSegment
<1> HIDE DEF r, end
<1>5. Achieved(p, r.pc, r.op, r.blks, end, r.want, disk', cap')
    BY <1>4 DEF Achieved
<1> QED
    BY <1>2, <1>3, <1>5, Moved

\* The invariant when the preallocation fails.
LEMMA PreallocFailsStep ==
    ASSUME IInv, NEW p \in Procs, PreallocFails(p)
    PROVE  IInv'
<1>1. Grows
    BY DEF IInv, Sizes, Grows, PreallocFails, Proceed, Finish
<1> QED
    BY <1>1, ProceedStage, FinishStage DEF PreallocFails

\* The invariant when the new capacity is published.
LEMMA PreallocPublishStep ==
    ASSUME IInv, NEW p \in Procs, PreallocPublish(p)
    PROVE  IInv'
<1>1. proc[p].want \in Nat
    BY Zenon DEF IInv, Stage, Achieved, PreallocPublish
<1>2. Grows
    BY <1>1, LargerNat DEF IInv, Sizes, Grows, PreallocPublish, Proceed, files
<1> QED
    BY <1>2, ProceedStage DEF PreallocPublish

-----------------------------------------------------------------------------
\* Publication and writes.
LEMMA PublishStep ==
    ASSUME IInv, NEW p \in Procs, Publish(p)
    PROVE  IInv'
<1>1. Grows
    BY DEF IInv, Sizes, Grows, Publish, Finish, files
<1> QED
    BY <1>1, FinishStage DEF Publish

\* The invariant when a writer takes a mapped page.
LEMMA BeginWriteStep ==
    ASSUME IInv, NEW w \in Procs, NEW b \in Blocks, NEW pc \in {"write", "saved"},
           BeginWrite(w, b, pc)
    PROVE  IInv'
<1> DEFINE below == pc = "write" /\ b < cap
<1>1. Grows
    BY DEF IInv, Sizes, Grows, BeginWrite, files, entry
<1>2. /\ proc'[w] = [pc |-> pc, op |-> "write", blks |-> <<b>>, below |-> below,
                     cur |-> 0, want |-> 0]
      /\ \A q \in Procs \ {w} : proc'[q] = proc[q]
    BY Zenon DEF IInv, Sizes, BeginWrite, Idle
<1>3. w # MapWriter
    BY DEF BeginWrite
<1>4. <<b>> \in Seq(Blocks) /\ <<b>> # <<>>
    OBVIOUS
<1>5. Achieved(w, pc, "write", <<b>>, 0, 0, disk', cap')
    BY <1>3, <1>4 DEF Achieved
<1> HIDE DEF below
<1> QED
    BY <1>1, <1>2, <1>5, Moved

\* Creating the block of a write.
LEMMA PutGrows ==
    ASSUME IInv, NEW p \in Procs, NEW b, NEW v \in {"zero", "page"}, PutBlock(p, b, v),
           UNCHANGED entry, proc' = [q \in Procs |-> proc'[q]]
    PROVE  Grows /\ (b \in Blocks => disk'[b] # "absent")
<1>1. disk' = Materialized(b, v) /\ cap' = cap /\ next' = next /\ target' = target
    BY DEF PutBlock, entry
<1> QED
    BY <1>1, DiskGrows DEF IInv

\* The invariant through a write at or beyond the capacity.
LEMMA WriteBeyondStep ==
    ASSUME IInv, NEW p \in Procs, WriteBeyond(p)
    PROVE  IInv'
<1>1. proc' = [q \in Procs |-> proc'[q]]
    BY DEF WriteBeyond, Goto, IInv, Sizes
<1>2. Grows
    BY <1>1, PutGrows DEF WriteBeyond
<1>3. proc' = [proc EXCEPT ![p] = [pc |-> "bump", op |-> proc[p].op, blks |-> proc[p].blks,
                   below |-> proc[p].below, cur |-> proc[p].cur, want |-> proc[p].want]]
  <2>1. proc' = [proc EXCEPT ![p] = [proc[p] EXCEPT !.pc = "bump"]]
    BY DEF WriteBeyond, Goto
  <2> QED
    BY Zenon, <2>1, Record
<1> DEFINE r == proc[p]
<1>4. Achieved(p, r.pc, r.op, r.blks, r.cur, r.want, disk, cap) /\ r.pc = "write"
    BY Zenon DEF IInv, Stage, WriteBeyond
<1> HIDE DEF r
<1>5. Achieved(p, "bump", r.op, r.blks, r.cur, r.want, disk', cap')
    BY <1>4 DEF Achieved
<1> QED
    BY Zenon, <1>2, <1>3, <1>5, Goes DEF r

\* The invariant when the writer raises the capacity after its write.
LEMMA BumpStep ==
    ASSUME IInv, NEW p \in Procs, Bump(p)
    PROVE  IInv'
<1> DEFINE b == Blk(p)
<1>1. b \in Nat
    BY Zenon, LastBlock DEF IInv, Stage, Achieved, Bump, Blk
<1>2. cap' = Larger(cap, b + 1) /\ UNCHANGED <<disk, next, target>> /\ Finish(p)
    BY DEF Bump, files
<1> HIDE DEF b
<1>3. Grows
    BY <1>1, <1>2, LargerNat DEF IInv, Sizes, Grows, Finish
<1> QED
    BY <1>2, <1>3, FinishStage

\* The invariant through a write below the capacity.
LEMMA WriteBelowStep ==
    ASSUME IInv, NEW p \in Procs, WriteBelow(p)
    PROVE  IInv'
<1>1. Finish(p) /\ UNCHANGED entry /\ proc' = [q \in Procs |-> proc'[q]]
    BY DEF WriteBelow, Finish, IInv, Sizes
<1>2. CASE Seg(Blk(p)) \in segs
  <2>1. Grows
    BY <1>1, <1>2, PutGrows DEF WriteBelow
  <2> QED
    BY <1>1, <2>1, FinishStage
<1>3. CASE Seg(Blk(p)) \notin segs
  <2>1. Grows
    BY <1>1, <1>3 DEF WriteBelow, IInv, Sizes, Grows, files, entry
  <2> QED
    BY <1>1, <2>1, FinishStage
<1> QED
    BY <1>2, <1>3

\* The invariant when a checkpoint zero-extends a saved block.
LEMMA CheckpointZeroStep ==
    ASSUME IInv, NEW p \in Procs, CheckpointZero(p)
    PROVE  IInv'
<1>1. /\ proc' = [q \in Procs |-> proc'[q]]
      /\ UNCHANGED entry
    BY DEF CheckpointZero, Goto, IInv, Sizes
<1>2. Grows
  <2>1. CASE UNCHANGED <<disk, segs, open>>
    BY <1>1, <2>1 DEF IInv, Sizes, Grows, entry
  <2>2. CASE PutBlock(p, Blk(p), "zero")
    BY <1>1, <2>2, PutGrows
  <2> QED
    BY <2>1, <2>2 DEF CheckpointZero
<1>3. proc' = [proc EXCEPT ![p] = [pc |-> "zeroed", op |-> proc[p].op, blks |-> proc[p].blks,
                   below |-> proc[p].below, cur |-> proc[p].cur, want |-> proc[p].want]]
  <2>1. proc' = [proc EXCEPT ![p] = [proc[p] EXCEPT !.pc = "zeroed"]]
    BY SMTT(30) DEF CheckpointZero, Goto
  <2> QED
    BY Zenon, <2>1, Record
<1> DEFINE r == proc[p]
<1>4. Achieved(p, r.pc, r.op, r.blks, r.cur, r.want, disk, cap) /\ r.pc = "saved"
    BY Zenon DEF IInv, Stage, CheckpointZero
<1> HIDE DEF r
<1>5. Achieved(p, "zeroed", r.op, r.blks, r.cur, r.want, disk', cap')
    BY <1>4 DEF Achieved
<1> QED
    BY Zenon, <1>2, <1>3, <1>5, Goes DEF r

\* The invariant when a checkpoint writes a saved block.
LEMMA CheckpointWriteStep ==
    ASSUME IInv, NEW p \in Procs, CheckpointWrite(p)
    PROVE  IInv'
<1>1. Finish(p) /\ proc' = [q \in Procs |-> proc'[q]]
    BY DEF CheckpointWrite, Finish, IInv, Sizes
<1>2. Grows
    BY <1>1, PutGrows DEF CheckpointWrite
<1> QED
    BY <1>1, <1>2, FinishStage

-----------------------------------------------------------------------------
\* Zero-extension of a range and the single extender.
LEMMA ZeroBlockStep ==
    ASSUME IInv, NEW p \in Procs, ZeroBlock(p)
    PROVE  IInv'
<1> DEFINE r == proc[p]
           n == r.cur + 1
           pc == IF n = RangeLen THEN "ensure" ELSE "zero"
<1>1. Achieved(p, r.pc, r.op, r.blks, r.cur, r.want, disk, cap) /\ r.pc = "zero"
    BY Zenon DEF IInv, Stage, ZeroBlock
<1>2. proc' = [q \in Procs |-> proc'[q]] /\ UNCHANGED entry /\ PutBlock(p, r.blks[n], "zero")
    BY DEF ZeroBlock, IInv, Sizes
<1>3. proc' = [proc EXCEPT ![p] = [pc |-> pc, op |-> proc[p].op, blks |-> proc[p].blks,
                   below |-> proc[p].below, cur |-> n, want |-> proc[p].want]]
  <2>1. proc' = [proc EXCEPT ![p] = [proc[p] EXCEPT !.cur = n, !.pc = pc]]
    BY Zenon DEF ZeroBlock
  <2> HIDE DEF n, pc
  <2>2. [proc[p] EXCEPT !.cur = n, !.pc = pc] =
            [pc |-> pc, op |-> proc[p].op, blks |-> proc[p].blks,
             below |-> proc[p].below, cur |-> n, want |-> proc[p].want]
    BY Zenon, Record
  <2> QED
    BY <2>1, <2>2, Zenon
<1> HIDE DEF r
<1>4. /\ r.blks \in Seq(Blocks) /\ Len(r.blks) = RangeLen
      /\ r.cur \in 0 .. (RangeLen - 1) /\ Exist(disk, r.blks, r.cur) /\ p # MapWriter
    BY <1>1 DEF Achieved
<1>5. n \in 1 .. RangeLen /\ r.blks[n] \in Blocks /\ \A i \in 1 .. RangeLen : r.blks[i] \in Blocks
    BY <1>4
<1>6. Grows /\ disk'[r.blks[n]] # "absent"
    BY <1>2, <1>5, PutGrows
<1>7. Exist(disk', r.blks, n)
  <2>1. ASSUME NEW i \in 1 .. n PROVE disk'[r.blks[i]] # "absent"
    <3>1. CASE i = n
      BY <3>1, <1>6
    <3>2. CASE i # n
      <4>1. i \in 1 .. r.cur /\ i \in 1 .. RangeLen
        BY <3>2, <1>4
      <4> QED
        BY Zenon, <4>1, <1>4, <1>5, <1>6 DEF Exist, Grows
    <3> QED
      BY <3>1, <3>2
  <2> QED
    BY <2>1 DEF Exist
<1>8. Achieved(p, pc, r.op, r.blks, n, r.want, disk', cap')
  <2>1. r.blks # <<>>
    BY <1>4
  <2>2. CASE n = RangeLen
    BY <2>1, <2>2, <1>4, <1>7 DEF Achieved
  <2>3. CASE n # RangeLen
    <3>1. n \in 0 .. (RangeLen - 1)
      BY <2>3, <1>4
    <3> HIDE DEF n
    <3> QED
      BY <2>1, <2>3, <3>1, <1>4, <1>7 DEF Achieved
  <2> QED
    BY <2>2, <2>3
<1> HIDE DEF pc, n
<1> QED
    BY Zenon, <1>3, <1>6, <1>8, Goes DEF r

\* The invariant when the capacity already suffices.
LEMMA EnsureReadyStep ==
    ASSUME IInv, NEW p \in Procs, EnsureReady(p)
    PROVE  IInv'
<1> DEFINE r == proc[p]
<1>1. Achieved(p, r.pc, r.op, r.blks, r.cur, r.want, disk, cap) /\ r.pc = "ensure"
    BY Zenon DEF IInv, Stage, EnsureReady
<1>2. Grows /\ cap' = cap /\ disk' = disk
    BY DEF EnsureReady, IInv, Sizes, Grows, files, entry, Goto
<1>3. proc' = [proc EXCEPT ![p] = [pc |-> "apply", op |-> proc[p].op, blks |-> proc[p].blks,
                   below |-> proc[p].below, cur |-> proc[p].cur, want |-> proc[p].want]]
  <2>1. proc' = [proc EXCEPT ![p] = [proc[p] EXCEPT !.pc = "apply"]]
    BY DEF EnsureReady, Goto
  <2> QED
    BY Zenon, <2>1, Record
<1>4. cap > r.blks[Len(r.blks)]
    BY DEF EnsureReady, Blk
<1> HIDE DEF r
<1>5. Achieved(p, "apply", r.op, r.blks, r.cur, r.want, disk', cap')
    BY <1>1, <1>2, <1>4 DEF Achieved
<1> QED
    BY Zenon, <1>2, <1>3, <1>5, Goes DEF r

\* The invariant when another process is extending.
LEMMA EnsureWaitStep ==
    ASSUME IInv, NEW p \in Procs, EnsureWait(p)
    PROVE  IInv'
<1>1. Blk(p) \in Nat
    BY Zenon, LastBlock DEF IInv, Stage, Achieved, EnsureWait, Blk
<1>2. Grows /\ proc' = proc
    BY <1>1 DEF EnsureWait, IInv, Sizes, Grows, files
<1> QED
    BY SMTT(30), <1>2, StageKept DEF IInv, Grows

\* The invariant when a process takes the extension flag.
LEMMA EnsureStartStep ==
    ASSUME IInv, NEW p \in Procs, EnsureStart(p)
    PROVE  IInv'
<1> DEFINE r == proc[p]
           w == Blk(p) + 1
<1>1. Achieved(p, r.pc, r.op, r.blks, r.cur, r.want, disk, cap) /\ r.pc = "ensure"
    BY Zenon DEF IInv, Stage, EnsureStart
<1>2. Blk(p) \in Nat
    BY Zenon, LastBlock DEF IInv, Stage, Achieved, EnsureStart, Blk
<1>3. Grows /\ disk' = disk
  <2>1. proc' = [q \in Procs |-> proc'[q]]
    BY Zenon DEF EnsureStart, IInv, Sizes
  <2>2. disk' = disk /\ cap' = cap /\ next' = next /\ target' \in Nat
    BY <1>2 DEF EnsureStart, files
  <2> QED
    BY <2>1, <2>2 DEF IInv, Sizes, Grows
<1>4. proc' = [proc EXCEPT ![p] = [pc |-> "probe", op |-> proc[p].op, blks |-> proc[p].blks,
                   below |-> proc[p].below, cur |-> cap, want |-> w]]
  <2>1. proc' = [proc EXCEPT ![p] = [proc[p] EXCEPT !.pc = "probe", !.cur = cap, !.want = w]]
    BY Zenon DEF EnsureStart
  <2> HIDE DEF w
  <2>2. [proc[p] EXCEPT !.pc = "probe", !.cur = cap, !.want = w] =
            [pc |-> "probe", op |-> proc[p].op, blks |-> proc[p].blks,
             below |-> proc[p].below, cur |-> cap, want |-> w]
    BY Zenon, RecordAll
  <2> QED
    BY <2>1, <2>2, Zenon
<1>5. w \in Nat /\ w > r.blks[Len(r.blks)]
    BY <1>2 DEF Blk
<1> HIDE DEF r, w
<1>6. Achieved(p, "probe", r.op, r.blks, cap, w, disk', cap')
    BY <1>1, <1>3, <1>5 DEF Achieved
<1> QED
    BY Zenon, <1>3, <1>4, <1>6, Goes DEF r

\* The invariant when the extender looks whether a block exists.
LEMMA ProbeStep ==
    ASSUME IInv, NEW p \in Procs, Probe(p)
    PROVE  IInv'
<1> DEFINE r == proc[p]
<1>1. Achieved(p, r.pc, r.op, r.blks, r.cur, r.want, disk, cap) /\ r.pc = "probe"
    BY Zenon DEF IInv, Stage, Probe
<1>2. UNCHANGED <<disk, cap, next, target>>
    BY DEF Probe, entry
<1>3. CASE BlockExists(p, proc[p].cur)
  <2>1. proc' = [proc EXCEPT ![p] = [proc[p] EXCEPT !.cur = r.cur + 1]]
    BY <1>3 DEF Probe
  <2>2. proc' = [proc EXCEPT ![p] = [pc |-> r.pc, op |-> proc[p].op, blks |-> proc[p].blks,
                   below |-> proc[p].below, cur |-> r.cur + 1, want |-> r.want]]
    BY Zenon, <2>1, Record
  <2>3. Grows
    BY <1>2, <2>1 DEF IInv, Sizes, Grows
  <2>4. Achieved(p, r.pc, r.op, r.blks, r.cur + 1, r.want, disk', cap')
    <3> DEFINE n == r.cur + 1
    <3> HIDE DEF r, n
    <3>1. Achieved(p, r.pc, r.op, r.blks, n, r.want, disk', cap')
      BY <1>1, <1>2 DEF Achieved
    <3> QED
      BY <3>1 DEF n
  <2> QED
    BY Zenon, <2>2, <2>3, <2>4, Goes
<1>4. CASE ~BlockExists(p, proc[p].cur)
  <2>1. proc' = [proc EXCEPT ![p] = [proc[p] EXCEPT !.pc = "fill"]]
    BY <1>4 DEF Probe
  <2>2. proc' = [proc EXCEPT ![p] = [pc |-> "fill", op |-> proc[p].op, blks |-> proc[p].blks,
                   below |-> proc[p].below, cur |-> r.cur, want |-> r.want]]
    BY Zenon, <2>1, Record
  <2>3. Grows
    BY <1>2, <2>1 DEF IInv, Sizes, Grows
  <2> HIDE DEF r
  <2>4. Achieved(p, "fill", r.op, r.blks, r.cur, r.want, disk', cap')
    BY <1>1, <1>2 DEF Achieved
  <2> QED
    BY Zenon, <2>2, <2>3, <2>4, Goes DEF r
<1> QED
    BY <1>3, <1>4

\* The invariant when the extender fills a missing block.
LEMMA FillStep ==
    ASSUME IInv, NEW p \in Procs, Fill(p)
    PROVE  IInv'
<1> DEFINE r == proc[p]
           n == r.cur + 1
<1>1. Achieved(p, r.pc, r.op, r.blks, r.cur, r.want, disk, cap) /\ r.pc = "fill"
    BY Zenon DEF IInv, Stage, Fill
<1>2. proc' = [q \in Procs |-> proc'[q]]
    BY DEF Fill, IInv, Sizes
<1>3. Grows
    BY Zenon, <1>2, PutGrows DEF Fill
<1>4. proc' = [proc EXCEPT ![p] = [pc |-> "probe", op |-> proc[p].op, blks |-> proc[p].blks,
                   below |-> proc[p].below, cur |-> n, want |-> proc[p].want]]
  <2>1. proc' = [proc EXCEPT ![p] = [proc[p] EXCEPT !.pc = "probe", !.cur = n]]
    BY Zenon DEF Fill
  <2> HIDE DEF n
  <2>2. [proc[p] EXCEPT !.pc = "probe", !.cur = n] =
            [pc |-> "probe", op |-> proc[p].op, blks |-> proc[p].blks,
             below |-> proc[p].below, cur |-> n, want |-> proc[p].want]
    BY Zenon, Record
  <2> QED
    BY <2>1, <2>2, Zenon
<1>5. Achieved(p, "probe", r.op, r.blks, n, r.want, disk', cap')
  <2>1. \A i \in 1 .. RangeLen : Len(r.blks) = RangeLen => r.blks[i] \in Blocks
    <3> HIDE DEF r
    <3> QED
      BY <1>1 DEF Achieved
  <2> HIDE DEF r, n
  <2>2. Exist(disk, r.blks, RangeLen) /\ Len(r.blks) = RangeLen
    BY <1>1 DEF Achieved
  <2>3. Exist(disk', r.blks, RangeLen)
    BY <1>3, <2>1, <2>2 DEF Exist, Grows
  <2> QED
    BY <1>1, <2>2, <2>3 DEF Achieved
<1> HIDE DEF n
<1> QED
    BY Zenon, <1>3, <1>4, <1>5, Goes

\* The invariant when the extension fails.
LEMMA FillFailsStep ==
    ASSUME IInv, NEW p \in Procs, FillFails(p)
    PROVE  IInv'
<1>1. Grows
    BY DEF FillFails, IInv, Sizes, Grows, Finish, files
<1> QED
    BY <1>1, FinishStage DEF FillFails

\* The invariant when the extender publishes the capacity.
LEMMA EnsurePublishStep ==
    ASSUME IInv, NEW p \in Procs, EnsurePublish(p)
    PROVE  IInv'
<1> DEFINE r == proc[p]
           c == Larger(cap, r.want)
           w == Larger(r.want, target)
<1>1. Achieved(p, r.pc, r.op, r.blks, r.cur, r.want, disk, cap) /\ r.pc = "probe"
    BY Zenon DEF IInv, Stage, EnsurePublish
<1>2. disk' = disk /\ cap' = c /\ next' = next
    BY DEF EnsurePublish, files
<1>3. /\ r.want \in Nat /\ r.blks \in Seq(Blocks) /\ r.blks # <<>>
      /\ r.want > r.blks[Len(r.blks)]
  <2> HIDE DEF r
  <2> QED
    BY <1>1 DEF Achieved
<1>4. /\ c \in Nat /\ w \in Nat /\ cap <= c
      /\ c > r.blks[Len(r.blks)] /\ w > r.blks[Len(r.blks)]
  <2>1. cap \in Nat /\ target \in Nat
    BY DEF IInv, Sizes
  <2>2. r.blks[Len(r.blks)] \in Nat
    <3> HIDE DEF r
    <3> QED
      BY <1>3, LastBlock
  <2>3. c \in Nat /\ w \in Nat /\ cap <= c /\ r.want <= c /\ r.want <= w
    BY Zenon, <1>3, <2>1, LargerNat
  <2> HIDE DEF r, c, w
  <2> QED
    BY <1>3, <2>2, <2>3
<1>5. CASE c >= w
  <2>1. proc' = [proc EXCEPT ![p] = [proc[p] EXCEPT !.pc = "apply", !.cur = 0, !.want = 0]]
    BY Zenon, <1>5 DEF EnsurePublish
  <2>2. [proc[p] EXCEPT !.pc = "apply", !.cur = 0, !.want = 0] =
            [pc |-> "apply", op |-> proc[p].op, blks |-> proc[p].blks,
             below |-> proc[p].below, cur |-> 0, want |-> 0]
    BY Zenon, RecordAll
  <2>3. proc' = [proc EXCEPT ![p] = [pc |-> "apply", op |-> proc[p].op, blks |-> proc[p].blks,
                   below |-> proc[p].below, cur |-> 0, want |-> 0]]
    BY <2>1, <2>2, Zenon
  <2>4. target' = 0
    BY <1>5 DEF EnsurePublish
  <2> HIDE DEF r, c, w
  <2>5. Grows
    BY Zenon, <1>2, <1>4, <2>3, <2>4 DEF IInv, Sizes, Grows
  <2>6. Achieved(p, "apply", r.op, r.blks, 0, 0, disk', cap')
    BY <1>1, <1>2, <1>4 DEF Achieved
  <2> QED
    BY Zenon, <2>3, <2>5, <2>6, Goes DEF r
<1>6. CASE ~(c >= w)
  <2>1. proc' = [proc EXCEPT ![p] = [proc[p] EXCEPT !.cur = c, !.want = w]]
    BY Zenon, <1>6 DEF EnsurePublish
  <2>2. target' = w
    BY <1>6 DEF EnsurePublish
  <2> HIDE DEF c, w
  <2>3. [proc[p] EXCEPT !.cur = c, !.want = w] =
            [pc |-> proc[p].pc, op |-> proc[p].op, blks |-> proc[p].blks,
             below |-> proc[p].below, cur |-> c, want |-> w]
    BY Zenon, Record
  <2>4. proc' = [proc EXCEPT ![p] = [pc |-> r.pc, op |-> proc[p].op, blks |-> proc[p].blks,
                   below |-> proc[p].below, cur |-> c, want |-> w]]
    BY <2>1, <2>3, Zenon
  <2> HIDE DEF r
  <2>5. Grows
    BY Zenon, <1>2, <1>4, <2>4, <2>2 DEF IInv, Sizes, Grows
  <2>6. Achieved(p, r.pc, r.op, r.blks, c, w, disk', cap')
    BY <1>1, <1>2, <1>4 DEF Achieved
  <2> QED
    BY Zenon, <2>4, <2>5, <2>6, Goes DEF r
<1> QED
    BY <1>5, <1>6

\* The invariant when a range is applied.
LEMMA ApplyStep ==
    ASSUME IInv, NEW p \in Procs, Apply(p)
    PROVE  IInv'
<1> DEFINE b == Blk(p)
<1>1. b \in Nat
    BY Zenon, LastBlock DEF IInv, Stage, Achieved, Apply, Blk
<1>2. cap' = Larger(cap, b + 1) /\ UNCHANGED <<disk, next, target>> /\ Finish(p)
    BY DEF Apply, files
<1> HIDE DEF b
<1>3. Grows
    BY <1>1, <1>2, LargerNat DEF IInv, Sizes, Grows, Finish
<1> QED
    BY <1>2, <1>3, FinishStage

-----------------------------------------------------------------------------
\* ReserveFails and the whole step.
LEMMA ReserveFailsStep ==
    ASSUME IInv, NEW p \in Procs, ReserveFails(p)
    PROVE  IInv'
<1>1. Grows
    BY DEF ReserveFails, IInv, Sizes, Grows, Finish, files, entry
<1> QED
    BY <1>1, FinishStage DEF ReserveFails

\* The invariant survives a stuttering step.
LEMMA StutterStep ==
    ASSUME IInv, UNCHANGED vars
    PROVE  IInv'
<1>1. Grows /\ proc' = proc
    BY DEF vars, IInv, Sizes, Grows
<1> QED
    BY <1>1, StageKept DEF IInv, Grows

\* Only reserved blocks are mapped.
LEMMA MappedStep ==
    ASSUME IInv, mapped \subseteq Blocks, NEW p \in Procs, Start(p) \/ Step(p)
    PROVE  mapped' \subseteq Blocks
<1>1. CASE Publish(p)
  <2>1. Blk(p) \in Blocks
    BY Zenon, <1>1, LastBlock DEF IInv, Stage, Achieved, Publish, Blk
  <2> QED
    BY SMTT(30), <1>1, <2>1 DEF Publish
<1>2. CASE Apply(p)
  <2> DEFINE r == proc[p]
  <2>1. Achieved(p, r.pc, r.op, r.blks, r.cur, r.want, disk, cap) /\ r.pc = "apply"
    BY Zenon, <1>2 DEF IInv, Stage, Apply
  <2>2. mapped' = mapped \cup {r.blks[i] : i \in 1 .. RangeLen}
    BY <1>2 DEF Apply
  <2> HIDE DEF r
  <2>3. \A i \in 1 .. RangeLen : r.blks[i] \in Blocks
    BY <2>1 DEF Achieved
  <2> QED
    BY <2>2, <2>3
<1>3. CASE ~Publish(p) /\ ~Apply(p)
  <2>1. ASSUME Start(p) PROVE mapped' = mapped
    BY Zenon, <2>1 DEF Start, Begin, BeginWrite, entry
  <2>2. ASSUME Reserve(p) \/ ReserveFails(p) \/ PreallocSkip(p) \/ PreallocStart(p)
                  \/ PreallocSegment(p) \/ PreallocFails(p) \/ PreallocPublish(p)
        PROVE  mapped' = mapped
    BY Zenon, <2>2 DEF Reserve, ReserveFails, PreallocSkip, PreallocStart, PreallocSegment,
                PreallocFails, PreallocPublish, entry
  <2>3. ASSUME WriteBeyond(p) \/ Bump(p) \/ WriteBelow(p) \/ CheckpointZero(p)
                  \/ CheckpointWrite(p) \/ ZeroBlock(p)
        PROVE  mapped' = mapped
    BY <2>3 DEF WriteBeyond, Bump, WriteBelow, CheckpointZero, CheckpointWrite, ZeroBlock, entry
  <2>4. ASSUME EnsureReady(p) \/ EnsureWait(p) \/ EnsureStart(p) \/ Probe(p) \/ Fill(p)
                  \/ FillFails(p) \/ EnsurePublish(p)
        PROVE  mapped' = mapped
    BY <2>4 DEF EnsureReady, EnsureWait, EnsureStart, Probe, Fill, FillFails, EnsurePublish, entry
  <2> QED
    BY <1>3, <2>1, <2>2, <2>3, <2>4 DEF Step
<1> QED
    BY <1>1, <1>2, <1>3

\* Every step keeps the invariant.
LEMMA NextIInv ==
    ASSUME IInv, mapped \subseteq Blocks, [Next]_vars
    PROVE  IInv' /\ (mapped \subseteq Blocks)'
<1>1. CASE UNCHANGED vars
    BY <1>1, StutterStep DEF vars
<1>2. ASSUME NEW p \in Procs, Start(p) PROVE IInv'
  <2>1. ASSUME NEW op \in {"remap", "range"}, Begin(p, op) PROVE IInv'
    BY <2>1, BeginStep
  <2>2. ASSUME NEW b \in mapped, NEW pc \in {"write", "saved"}, BeginWrite(p, b, pc) PROVE IInv'
    BY <2>2, BeginWriteStep
  <2> QED
    BY <1>2, <2>1, <2>2 DEF Start
<1>3. ASSUME NEW p \in Procs, Step(p) PROVE IInv'
    BY SMTT(30), <1>3, ReserveStep, ReserveFailsStep, PreallocSkipStep, PreallocStartStep,
       PreallocSegmentStep, PreallocFailsStep, PreallocPublishStep, PublishStep,
       WriteBeyondStep, BumpStep, WriteBelowStep, CheckpointZeroStep, CheckpointWriteStep,
       ZeroBlockStep, EnsureReadyStep, EnsureWaitStep, EnsureStartStep, ProbeStep, FillStep,
       FillFailsStep, EnsurePublishStep, ApplyStep DEF Step
<1> QED
    BY <1>1, <1>2, <1>3, MappedStep DEF Next

-----------------------------------------------------------------------------
\* Who holds a flag, and how a step of one process may change that.
Moves(p, from, to) ==
    /\ proc[p].pc \in from /\ proc'[p].pc \in to
    /\ \A q \in Procs \ {p} : proc'[q].pc = proc[q].pc

Extender == {"probe", "fill"}
Others == {"idle", "reserve", "prealloc", "publish", "write", "bump", "saved", "zeroed",
           "zero", "ensure", "apply"}

\* The flags stay single when a process moves within a role and no flag changes.
LEMMA FlagsKept ==
    ASSUME SingleFlight, NEW p \in Procs,
           \/ Moves(p, Others, Others)
           \/ Moves(p, Extender, Extender)
           \/ Moves(p, {"fallocate"}, {"fallocate"}),
           UNCHANGED <<extending, preallocating>>
    PROVE  SingleFlight'
    BY SMTT(30) DEF SingleFlight, OneHolder, Moves, Others, Extender

\* Taking the free extension flag keeps it single.
LEMMA ExtendingTaken ==
    ASSUME SingleFlight, NEW p \in Procs, Moves(p, Others, Extender),
           ~extending, extending' = TRUE, UNCHANGED preallocating
    PROVE  SingleFlight'
    BY DEF SingleFlight, OneHolder, Moves, Others, Extender

\* Giving the extension flag back keeps it single.
LEMMA ExtendingGiven ==
    ASSUME SingleFlight, NEW p \in Procs, Moves(p, Extender, Others),
           extending' = FALSE, UNCHANGED preallocating
    PROVE  SingleFlight'
    BY DEF SingleFlight, OneHolder, Moves, Others, Extender

\* Taking the free preallocation flag keeps it single.
LEMMA PreallocTaken ==
    ASSUME SingleFlight, NEW p \in Procs, Moves(p, Others, {"fallocate"}),
           ~preallocating, preallocating' = TRUE, UNCHANGED extending
    PROVE  SingleFlight'
    BY DEF SingleFlight, OneHolder, Moves, Others, Extender

\* Giving the preallocation flag back keeps it single.
LEMMA PreallocGiven ==
    ASSUME SingleFlight, NEW p \in Procs, Moves(p, {"fallocate"}, Others),
           preallocating' = FALSE, UNCHANGED extending
    PROVE  SingleFlight'
    BY DEF SingleFlight, OneHolder, Moves, Others, Extender

\* The next stage of a process that finishes or goes on.
LEMMA FinishMoves ==
    ASSUME IInv, NEW p \in Procs, Finish(p), NEW from, proc[p].pc \in from
    PROVE  Moves(p, from, Others)
    BY DEF IInv, Sizes, Finish, Idle, Moves, Others

\* Goto moves one process only.
LEMMA GotoMoves ==
    ASSUME IInv, NEW p \in Procs, NEW pc, Goto(p, pc), NEW from, proc[p].pc \in from
    PROVE  Moves(p, from, {pc})
<1>1. proc[p] = [pc |-> proc[p].pc, op |-> proc[p].op, blks |-> proc[p].blks,
                 below |-> proc[p].below, cur |-> proc[p].cur, want |-> proc[p].want]
    BY SMTT(30) DEF IInv, Stage
<1>2. proc' = [proc EXCEPT ![p] = [proc[p] EXCEPT !.pc = pc]]
    BY DEF Goto
<1> QED
    BY Zenon, <1>2, Record DEF IInv, Sizes, Moves

\* Proceed moves one process only, to a place outside both roles.
LEMMA ProceedMoves ==
    ASSUME IInv, NEW p \in Procs, Proceed(p), NEW from, proc[p].pc \in from
    PROVE  Moves(p, from, Others)
<1>1. CASE p = MapWriter
    BY <1>1 DEF IInv, Sizes, Proceed, Idle, Moves, Others
<1>2. CASE p # MapWriter
  <2> DEFINE n == Resume(p)
  <2>1. proc' = [proc EXCEPT ![p] = [proc[p] EXCEPT !.pc = n, !.cur = 0, !.want = 0]]
    BY <1>2 DEF Proceed
  <2>2. n \in Others
    BY DEF Resume, Others
  <2> HIDE DEF n
  <2>3. [proc[p] EXCEPT !.pc = n, !.cur = 0, !.want = 0] =
            [pc |-> n, op |-> proc[p].op, blks |-> proc[p].blks,
             below |-> proc[p].below, cur |-> 0, want |-> 0]
    BY Zenon, RecordAll
  <2>4. proc' = [proc EXCEPT ![p] = [pc |-> n, op |-> proc[p].op, blks |-> proc[p].blks,
                   below |-> proc[p].below, cur |-> 0, want |-> 0]]
    BY <2>1, <2>3, Zenon
  <2> QED
    BY <2>2, <2>4 DEF IInv, Sizes, Moves
<1> QED
    BY <1>1, <1>2

\* The flags when an operation begins and reserves.
LEMMA FlightReserve ==
    ASSUME IInv, SingleFlight, NEW p \in Procs,
           \/ \E op \in {"remap", "range"} : Begin(p, op)
           \/ \E b \in mapped, pc \in {"write", "saved"} : BeginWrite(p, b, pc)
           \/ Reserve(p) \/ ReserveFails(p) \/ PreallocSkip(p)
    PROVE  SingleFlight'
<1> SUFFICES Moves(p, Others, Others) /\ UNCHANGED <<extending, preallocating>>
    BY FlagsKept
<1>1. ASSUME NEW op \in {"remap", "range"}, Begin(p, op)
      PROVE  Moves(p, Others, Others) /\ UNCHANGED <<extending, preallocating>>
    BY Zenon, <1>1 DEF Begin, Idle, entry, Moves, Others, IInv, Sizes
<1>2. ASSUME NEW b, NEW pc \in {"write", "saved"}, BeginWrite(p, b, pc)
      PROVE  Moves(p, Others, Others) /\ UNCHANGED <<extending, preallocating>>
    BY Zenon, <1>2 DEF BeginWrite, Idle, entry, Moves, Others, IInv, Sizes
<1>3. CASE Reserve(p)
  <2> DEFINE r == proc[p]
             blks == Append(r.blks, next)
  <2>1. r = [pc |-> r.pc, op |-> r.op, blks |-> r.blks, below |-> r.below,
             cur |-> r.cur, want |-> r.want]
    BY DEF IInv, Stage
  <2>2. proc' = [proc EXCEPT ![p] = [r EXCEPT !.pc = "prealloc", !.blks = blks]]
    BY Zenon, <1>3 DEF Reserve
  <2>3. proc[p].pc \in Others /\ UNCHANGED <<extending, preallocating>>
    BY <1>3 DEF Reserve, Others
  <2> HIDE DEF r, blks
  <2>4. proc'[p].pc = "prealloc" /\ \A q \in Procs \ {p} : proc'[q] = proc[q]
    BY Zenon, <2>1, <2>2 DEF IInv, Sizes
  <2> QED
    BY SMTT(30), <2>3, <2>4 DEF Moves, Others
<1>4. CASE ReserveFails(p)
    BY <1>4, FinishMoves DEF ReserveFails, entry, Others
<1>5. CASE PreallocSkip(p)
    BY <1>5, ProceedMoves DEF PreallocSkip, entry, Others
<1> QED
    BY <1>1, <1>2, <1>3, <1>4, <1>5

\* The flags through the steps of a preallocation.
LEMMA FlightPrealloc ==
    ASSUME IInv, SingleFlight, NEW p \in Procs,
           PreallocStart(p) \/ PreallocSegment(p) \/ PreallocFails(p) \/ PreallocPublish(p)
    PROVE  SingleFlight'
<1>1. CASE PreallocStart(p)
  <2> DEFINE goal == Larger(cap, next) + Batch
             end == SparseEnd
  <2>0. proc[p].pc \in Others /\ ~preallocating
    BY <1>1 DEF PreallocStart, NeedsPrealloc, Others
  <2>1. CASE goal > MaxBlock
    <3>1. Finish(p) /\ UNCHANGED <<extending, preallocating>>
      BY <1>1, <2>1 DEF PreallocStart, entry
    <3> QED
      BY <2>0, <3>1, FinishMoves, FlagsKept
  <2>2. CASE ~(goal > MaxBlock)
    <3>1. proc' = [proc EXCEPT ![p] = [proc[p] EXCEPT !.pc = "fallocate", !.want = goal,
                                                     !.cur = end]]
      BY Zenon, <1>1, <2>2 DEF PreallocStart
    <3>2. preallocating' = TRUE /\ UNCHANGED extending
      BY <1>1, <2>2 DEF PreallocStart
    <3> DEFINE r == proc[p]
    <3>3. r = [pc |-> r.pc, op |-> r.op, blks |-> r.blks, below |-> r.below,
               cur |-> r.cur, want |-> r.want]
      BY SMTT(40) DEF IInv, Stage
    <3> HIDE DEF r, goal, end
    <3>4. proc'[p].pc = "fallocate" /\ \A q \in Procs \ {p} : proc'[q] = proc[q]
      BY Zenon, <3>1, <3>3 DEF IInv, Sizes, r
    <3> QED
      BY <2>0, <3>2, <3>4, PreallocTaken DEF Moves
  <2> QED
    BY <2>1, <2>2
<1>2. CASE PreallocSegment(p)
  <2> DEFINE end == Min({(Seg(proc[p].cur) + 1) * SegBlocks, proc[p].want})
  <2>1. proc' = [proc EXCEPT ![p] = [proc[p] EXCEPT !.cur = end]]
    BY <1>2 DEF PreallocSegment
  <2>2. proc[p].pc = "fallocate" /\ UNCHANGED <<extending, preallocating>>
    BY <1>2 DEF PreallocSegment, entry
  <2> HIDE DEF end
  <2>3. proc'[p].pc = proc[p].pc /\ \A q \in Procs \ {p} : proc'[q] = proc[q]
    <3>1. [proc[p] EXCEPT !.cur = end] =
              [pc |-> proc[p].pc, op |-> proc[p].op, blks |-> proc[p].blks,
               below |-> proc[p].below, cur |-> end, want |-> proc[p].want]
      BY Zenon, Record
    <3> QED
      BY <2>1, <3>1 DEF IInv, Sizes
  <2> QED
    BY SMTT(40), <2>2, <2>3, FlagsKept DEF Moves
<1>3. CASE PreallocFails(p)
  <2>0. proc[p].pc \in {"fallocate"} /\ (Proceed(p) \/ Finish(p))
    BY SMTT(30), <1>3 DEF PreallocFails
  <2>1. Moves(p, {"fallocate"}, Others)
    BY <2>0, FinishMoves, ProceedMoves
  <2> QED
    BY Zenon, <1>3, <2>1, PreallocGiven DEF PreallocFails
<1>4. CASE PreallocPublish(p)
  <2>0. proc[p].pc \in {"fallocate"} /\ Proceed(p)
    BY SMTT(30), <1>4 DEF PreallocPublish
  <2>1. Moves(p, {"fallocate"}, Others)
    BY <2>0, ProceedMoves
  <2> QED
    BY Zenon, <1>4, <2>1, PreallocGiven DEF PreallocPublish
<1> QED
    BY <1>1, <1>2, <1>3, <1>4

\* The flags through publication and the writes of pages.
LEMMA FlightWrite ==
    ASSUME IInv, SingleFlight, NEW p \in Procs,
           Publish(p) \/ WriteBeyond(p) \/ Bump(p) \/ WriteBelow(p)
              \/ CheckpointZero(p) \/ CheckpointWrite(p) \/ EnsureReady(p) \/ Apply(p)
    PROVE  SingleFlight'
<1>1. UNCHANGED <<extending, preallocating>> /\ proc[p].pc \in Others
    BY DEF Publish, WriteBeyond, Bump, WriteBelow, CheckpointZero, CheckpointWrite,
           EnsureReady, Apply, entry, Others
<1>2. CASE Finish(p)
    BY Zenon, <1>1, <1>2, FinishMoves, FlagsKept
<1>3. CASE \E pc \in {"bump", "zeroed", "apply"} : Goto(p, pc)
  <2>1. PICK pc \in {"bump", "zeroed", "apply"} : Goto(p, pc)
    BY <1>3
  <2>2. Moves(p, Others, {pc})
    BY <1>1, <2>1, GotoMoves
  <2>3. Moves(p, Others, Others)
    BY Zenon, <2>2 DEF Moves, Others
  <2> QED
    BY Zenon, <1>1, <2>3, FlagsKept
<1> QED
    BY SMTT(30), <1>2, <1>3 DEF Publish, WriteBeyond, Bump, WriteBelow, CheckpointZero,
      CheckpointWrite,
                      EnsureReady, Apply

\* The flags when a range is zeroed and asks for more capacity.
LEMMA FlightExtend ==
    ASSUME IInv, SingleFlight, NEW p \in Procs,
           ZeroBlock(p) \/ EnsureWait(p) \/ EnsureStart(p)
    PROVE  SingleFlight'
<1>1. CASE ZeroBlock(p)
  <2> DEFINE n == proc[p].cur + 1
             pc == IF n = RangeLen THEN "ensure" ELSE "zero"
  <2>1. proc' = [proc EXCEPT ![p] = [proc[p] EXCEPT !.cur = n, !.pc = pc]]
    BY Zenon, <1>1 DEF ZeroBlock
  <2>2. proc[p].pc \in Others /\ pc \in Others /\ UNCHANGED <<extending, preallocating>>
    BY <1>1 DEF ZeroBlock, entry, Others
  <2> HIDE DEF n, pc
  <2>3. [proc[p] EXCEPT !.cur = n, !.pc = pc] =
            [pc |-> pc, op |-> proc[p].op, blks |-> proc[p].blks,
             below |-> proc[p].below, cur |-> n, want |-> proc[p].want]
    BY Zenon, Record
  <2>4. proc' = [proc EXCEPT ![p] =
            [pc |-> pc, op |-> proc[p].op, blks |-> proc[p].blks,
             below |-> proc[p].below, cur |-> n, want |-> proc[p].want]]
    BY <2>1, <2>3, Zenon
  <2>5. Moves(p, Others, Others)
    BY SMTT(30), <2>2, <2>4 DEF IInv, Sizes, Moves
  <2> QED
    BY <2>2, <2>5, FlagsKept
<1>2. CASE EnsureWait(p)
    BY <1>2 DEF EnsureWait, SingleFlight, OneHolder
<1>3. CASE EnsureStart(p)
  <2> DEFINE w == Blk(p) + 1
  <2>1. proc' = [proc EXCEPT ![p] = [proc[p] EXCEPT !.pc = "probe", !.cur = cap, !.want = w]]
    BY Zenon, <1>3 DEF EnsureStart
  <2>2. /\ proc[p].pc \in Others /\ ~extending /\ extending' = TRUE
        /\ UNCHANGED preallocating
    BY <1>3 DEF EnsureStart, Others
  <2> HIDE DEF w
  <2>3. [proc[p] EXCEPT !.pc = "probe", !.cur = cap, !.want = w] =
            [pc |-> "probe", op |-> proc[p].op, blks |-> proc[p].blks,
             below |-> proc[p].below, cur |-> cap, want |-> w]
    BY Zenon, RecordAll
  <2>4. proc' = [proc EXCEPT ![p] =
            [pc |-> "probe", op |-> proc[p].op, blks |-> proc[p].blks,
             below |-> proc[p].below, cur |-> cap, want |-> w]]
    BY <2>1, <2>3, Zenon
  <2>5. Moves(p, Others, Extender)
    BY <2>2, <2>4 DEF IInv, Sizes, Moves, Extender
  <2> QED
    BY <2>2, <2>5, ExtendingTaken
<1> QED
    BY <1>1, <1>2, <1>3

\* The flags while the extender probes and fills.
LEMMA FlightFill ==
    ASSUME IInv, SingleFlight, NEW p \in Procs,
           Probe(p) \/ Fill(p) \/ FillFails(p)
    PROVE  SingleFlight'
<1>0. proc[p].pc \in Extender
    BY DEF Probe, Fill, FillFails, Extender
<1>1. CASE Probe(p)
  <2> DEFINE n == proc[p].cur + 1
  <2>1. \/ proc' = [proc EXCEPT ![p] = [proc[p] EXCEPT !.cur = n]]
        \/ proc' = [proc EXCEPT ![p] = [proc[p] EXCEPT !.pc = "fill"]]
    BY <1>1 DEF Probe
  <2> HIDE DEF n
  <2>2. proc'[p].pc \in {proc[p].pc, "fill"} /\ \A q \in Procs \ {p} : proc'[q] = proc[q]
    <3>1. [proc[p] EXCEPT !.cur = n] =
              [pc |-> proc[p].pc, op |-> proc[p].op, blks |-> proc[p].blks,
               below |-> proc[p].below, cur |-> n, want |-> proc[p].want]
      BY Zenon, Record
    <3>2. [proc[p] EXCEPT !.pc = "fill"].pc = "fill"
      BY Zenon, Record
    <3> QED
      BY <2>1, <3>1, <3>2 DEF IInv, Sizes
  <2>3. Moves(p, Extender, Extender)
    BY <1>0, <2>2 DEF Moves, Extender
  <2> QED
    BY <1>1, <2>3, FlagsKept DEF Probe, entry
<1>2. CASE Fill(p)
  <2> DEFINE n == proc[p].cur + 1
  <2>1. proc' = [proc EXCEPT ![p] = [proc[p] EXCEPT !.pc = "probe", !.cur = n]]
    BY Zenon, <1>2 DEF Fill
  <2> HIDE DEF n
  <2>2. [proc[p] EXCEPT !.pc = "probe", !.cur = n] =
            [pc |-> "probe", op |-> proc[p].op, blks |-> proc[p].blks,
             below |-> proc[p].below, cur |-> n, want |-> proc[p].want]
    BY Zenon, Record
  <2>3. proc' = [proc EXCEPT ![p] =
            [pc |-> "probe", op |-> proc[p].op, blks |-> proc[p].blks,
             below |-> proc[p].below, cur |-> n, want |-> proc[p].want]]
    BY <2>1, <2>2, Zenon
  <2>4. Moves(p, Extender, Extender)
    BY <1>0, <2>3 DEF IInv, Sizes, Moves, Extender
  <2> QED
    BY <1>2, <2>4, FlagsKept DEF Fill, entry
<1>3. CASE FillFails(p)
    BY Zenon, <1>0, <1>3, FinishMoves, ExtendingGiven DEF FillFails
<1> QED
    BY <1>1, <1>2, <1>3

\* The flags when the extender publishes the capacity.
LEMMA FlightPublish ==
    ASSUME IInv, SingleFlight, NEW p \in Procs, EnsurePublish(p)
    PROVE  SingleFlight'
<1> DEFINE r == proc[p]
           c == Larger(cap, r.want)
           w == Larger(r.want, target)
<1>0. r.pc \in Extender /\ UNCHANGED preallocating
    BY DEF EnsurePublish, Extender
<1>1. CASE c >= w
  <2>1. proc' = [proc EXCEPT ![p] = [proc[p] EXCEPT !.pc = "apply", !.cur = 0, !.want = 0]]
    BY Zenon, <1>1 DEF EnsurePublish
  <2>2. [proc[p] EXCEPT !.pc = "apply", !.cur = 0, !.want = 0] =
            [pc |-> "apply", op |-> proc[p].op, blks |-> proc[p].blks,
             below |-> proc[p].below, cur |-> 0, want |-> 0]
    BY Zenon, RecordAll
  <2>3. proc' = [proc EXCEPT ![p] =
            [pc |-> "apply", op |-> proc[p].op, blks |-> proc[p].blks,
             below |-> proc[p].below, cur |-> 0, want |-> 0]]
    BY <2>1, <2>2, Zenon
  <2>4. extending' = FALSE
    BY <1>1 DEF EnsurePublish
  <2>5. Moves(p, Extender, Others)
    BY <1>0, <2>3 DEF IInv, Sizes, Moves, Others
  <2> QED
    BY Zenon, <1>0, <2>4, <2>5, ExtendingGiven
<1>2. CASE ~(c >= w)
  <2>1. proc' = [proc EXCEPT ![p] = [proc[p] EXCEPT !.cur = c, !.want = w]]
    BY Zenon, <1>2 DEF EnsurePublish
  <2>2. UNCHANGED extending
    BY <1>2 DEF EnsurePublish
  <2> HIDE DEF c, w
  <2>3. [proc[p] EXCEPT !.cur = c, !.want = w] =
            [pc |-> proc[p].pc, op |-> proc[p].op, blks |-> proc[p].blks,
             below |-> proc[p].below, cur |-> c, want |-> w]
    BY Zenon, Record
  <2>4. proc' = [proc EXCEPT ![p] =
            [pc |-> proc[p].pc, op |-> proc[p].op, blks |-> proc[p].blks,
             below |-> proc[p].below, cur |-> c, want |-> w]]
    BY <2>1, <2>3, Zenon
  <2>5. Moves(p, Extender, Extender)
    BY <1>0, <2>4 DEF IInv, Sizes, Moves
  <2> QED
    BY <1>0, <2>2, <2>5, FlagsKept
<1> QED
    BY <1>1, <1>2

\* Every step keeps the flags single.
LEMMA NextFlight ==
    ASSUME IInv, SingleFlight, [Next]_vars
    PROVE  SingleFlight'
<1>1. CASE UNCHANGED vars
    BY <1>1 DEF vars, SingleFlight, OneHolder
<1>2. ASSUME NEW p \in Procs, Start(p) \/ Step(p) PROVE SingleFlight'
    BY <1>2, FlightReserve, FlightPrealloc, FlightWrite, FlightExtend, FlightFill,
       FlightPublish DEF Start, Step
<1> QED
    BY SMTT(30), <1>1, <1>2 DEF Next

-----------------------------------------------------------------------------
(* Theorems.                                                               *)

\* Blocks of a zero-extended range exist, and the capacity counts them, when
\* UmApplyReservedRangeRemap publishes their mappings: for any number of
\* backends and writers, any range length and any preallocation setting.
THEOREM RangeSafe == Spec => []RangeExistsWhenApplied
<1> DEFINE Inv == IInv /\ mapped \subseteq Blocks
<1>1. Init => Inv
    BY InitIInv DEF Init
<1>2. Inv /\ [Next]_vars => Inv'
    BY NextIInv
<1>3. Inv => RangeExistsWhenApplied
  <2> SUFFICES ASSUME IInv, NEW p \in Procs, proc[p].pc = "apply"
               PROVE  /\ \A i \in 1 .. RangeLen : disk[proc[p].blks[i]] # "absent"
                      /\ cap > Blk(p)
    BY DEF RangeExistsWhenApplied
  <2> QED
    BY Zenon DEF IInv, Stage, Achieved, Exist, Blk
<1> QED
    BY <1>1, <1>2, <1>3, PTL DEF Spec

\* File I/O on the gap above the capacity is single-flight: behind each of the
\* EXTENDING and PREALLOC flags of a superblock entry stands exactly one
\* process while the flag is set and none while it is clear, also after an
\* ERROR, for any number of processes.
THEOREM FlagsSafe == Spec => []SingleFlight
<1> DEFINE Inv == IInv /\ mapped \subseteq Blocks /\ SingleFlight
<1>1. Init => Inv
    BY InitIInv DEF Init
<1>2. Inv /\ [Next]_vars => Inv'
    BY NextIInv, NextFlight
<1>3. Inv => SingleFlight
    OBVIOUS
<1> QED
    BY <1>1, <1>2, <1>3, PTL DEF Spec
-----------------------------------------------------------------------------
\* A block at or beyond the last of the first n blocks exists.
Backed(d, n) == n > 0 => \E b \in Blocks : b >= n - 1 /\ d[b] # "absent"

\* What an operation knows of the files when it raises the capacity, and how
\* far its counters go.
Covered(p, pc, op, blks, cur, want, d, frontier) ==
    /\ cur \in 0 .. MaxBlock /\ want \in 0 .. MaxBlock
    /\ Len(blks) <= RangeLen
    /\ pc = "idle" \/ p = MapWriter => blks = <<>>
    /\ pc = "reserve" /\ op # "range" => blks = <<>>
    /\ pc \in {"reserve", "prealloc", "fallocate", "zero"} => Len(blks) <= frontier
    /\ pc \in {"fallocate", "probe", "fill"} => Backed(d, cur)
    /\ pc = "fill" => cur < want
    /\ pc = "bump" => d[blks[Len(blks)]] # "absent"

Coverage(p) == Covered(p, proc[p].pc, proc[p].op, proc[p].blks, proc[p].cur, proc[p].want,
                       disk, next)

\* The first block of a segment file that exists is backed, even when the file
\* is empty.
Files ==
    /\ disk \in [Blocks -> {"absent", "zero", "page"}]
    /\ segs \subseteq Segs
    /\ \E m \in segs : \A s \in segs : s <= m
    /\ \A s \in segs : Backed(disk, s * SegBlocks)
    /\ open \in [Backends -> SUBSET Segs]
    /\ written \subseteq Blocks

Entry ==
    /\ cap \in 0 .. MaxBlock /\ next \in 0 .. MaxBlock /\ target \in 0 .. MaxBlock
    /\ extending \in BOOLEAN /\ preallocating \in BOOLEAN
    /\ mapped \subseteq Blocks
    /\ Backed(disk, cap)

CapInv == IInv /\ Files /\ Entry /\ \A p \in Procs : Coverage(p)

\* Fewer blocks are backed by the same block.
LEMMA BackedDown ==
    ASSUME NEW d, NEW n \in Nat, NEW m \in Nat, m <= n, Backed(d, n)
    PROVE  Backed(d, m)
    BY DEF Backed, Blocks

\* A block that exists backs all blocks up to it.
LEMMA BackedBlock ==
    ASSUME NEW d, NEW b \in Blocks, d[b] # "absent", NEW n \in Nat, n <= b + 1
    PROVE  Backed(d, n)
    BY DEF Backed, Blocks

\* What is backed is within the files.
LEMMA BackedBound ==
    ASSUME NEW d, NEW n \in Nat, Backed(d, n)
    PROVE  n \in 0 .. MaxBlock
    BY DEF Backed, Blocks

\* Files that grow back what they backed.
LEMMA BackedGrows ==
    ASSUME Grows, NEW n, Backed(disk, n)
    PROVE  Backed(disk', n)
    BY DEF Backed, Grows

\* The larger of two backed numbers is backed.
LEMMA LargerBacked ==
    ASSUME NEW d, NEW a, NEW b, Backed(d, a), Backed(d, b)
    PROVE  Backed(d, Larger(a, b))
    BY DEF Larger

\* Blocks of a segment are at or above its first block.
LEMMA SegFloor ==
    ASSUME NEW b \in Nat
    PROVE  /\ Seg(b) \in Nat /\ Seg(b) * SegBlocks \in Nat
           /\ Seg(b) * SegBlocks <= b /\ b < (Seg(b) + 1) * SegBlocks
    BY SMTT(40) DEF Seg

\* Segments of blocks are numbers.
LEMMA SegNat ==
    ASSUME NEW s \in Segs
    PROVE  s \in Nat /\ s * SegBlocks \in Nat
    BY SegFloor DEF Segs, Blocks

\* The highest segment file.
LEMMA TopSegment ==
    ASSUME Files
    PROVE  Max(segs) \in segs /\ \A s \in segs : s <= Max(segs)
<1>1. PICK m \in segs : \A s \in segs : s <= m
    BY DEF Files
<1>2. \E m2 \in segs : \A s \in segs : m2 >= s
    BY <1>1, SegNat DEF Files
<1>3. Max(segs) = CHOOSE x \in segs : \A y \in segs : x >= y
    BY DEF Max
<1>4. Max(segs) \in segs /\ \A s \in segs : Max(segs) >= s
    BY <1>2, <1>3, Zenon
<1> QED
    BY <1>4, SegNat DEF Files

\* The end of the files, by the highest segment file and the number of blocks
\* in it, is backed.
LEMMA SparseBacked ==
    ASSUME Files
    PROVE  SparseEnd \in 0 .. MaxBlock /\ Backed(disk, SparseEnd)
<1> DEFINE m == Max(segs)
           S == {b \in Blocks : Seg(b) = m /\ disk[b] # "absent"}
           k == Cardinality(S)
           f == m * SegBlocks
<1>1. m \in Nat /\ f \in Nat /\ Backed(disk, f)
    BY TopSegment, SegNat DEF Files
<1>2. IsFiniteSet(S) /\ k \in Nat
  <2>1. IsFiniteSet(Blocks)
    BY FS_Interval DEF Blocks
  <2>2. IsFiniteSet(S)
    BY <2>1, FS_Subset
  <2> QED
    BY <2>2, FS_CardinalityType
<1>3. CASE k = 0
    BY <1>1, <1>3, BackedBound DEF SparseEnd
<1>4. CASE k # 0
  <2> DEFINE g == f + k - 2
  <2>0. \A b \in S : b \in Nat /\ f <= b
    <3>1. \A b \in S : b \in Nat /\ Seg(b) = m
      BY DEF Blocks
    <3> QED
      BY <3>1, SegFloor
  <2>1. \E b \in S : f + k <= b + 1
    <3> HIDE DEF f, k, S
    <3>1. SUFFICES ASSUME \A b \in S : ~(f + k <= b + 1)
                   PROVE  FALSE
      OBVIOUS
    <3>2. S \subseteq f .. g
      BY <1>1, <1>2, <2>0, <3>1
    <3>3. g \in Int /\ f \in Int
      BY <1>1, <1>2
    <3> HIDE DEF g
    <3>4. /\ IsFiniteSet(f .. g)
          /\ Cardinality(f .. g) = IF f > g THEN 0 ELSE g - f + 1
      BY <3>3, FS_Interval, Zenon
    <3>5. k <= Cardinality(f .. g)
      BY <3>2, <3>4, FS_Subset DEF k
    <3> QED
      BY <1>1, <1>2, <1>4, <3>4, <3>5 DEF g
  <2>2. PICK b \in S : f + k <= b + 1
    BY <2>1
  <2>3. b \in Blocks /\ disk[b] # "absent"
    OBVIOUS
  <2>4. SparseEnd = f + k
    BY DEF SparseEnd
  <2> HIDE DEF f, k, S
  <2>5. Backed(disk, f + k)
    BY <1>1, <1>2, <2>2, <2>3, BackedBlock
  <2> QED
    BY <1>1, <1>2, <2>4, <2>5, BackedBound
<1> QED
    BY <1>3, <1>4

-----------------------------------------------------------------------------
\* A step that moves only process p, and where it takes it.
Becomes(p, pc, op, blks, cur, want) ==
    /\ proc'[p].pc = pc /\ proc'[p].op = op /\ proc'[p].blks = blks
    /\ proc'[p].cur = cur /\ proc'[p].want = want
    /\ \A q \in Procs \ {p} : proc'[q] = proc[q]

\* A process that does not move stays covered.
LEMMA CoverageKept ==
    ASSUME IInv, NEW p \in Procs, Coverage(p), Grows,
           next \in Nat, next' \in Nat, next <= next', proc'[p] = proc[p]
    PROVE  Coverage(p)'
<1> DEFINE r == proc[p]
<1>1. Covered(p, r.pc, r.op, r.blks, r.cur, r.want, disk, next)
    BY Zenon DEF Coverage
<1>2. /\ r.blks \in Seq(Blocks)
      /\ r.pc = "bump" => r.blks # <<>>
    BY DEF IInv, Stage, Achieved
<1> HIDE DEF r
<1>3. r.pc = "bump" => disk'[r.blks[Len(r.blks)]] # "absent"
    BY <1>1, <1>2, LastBlock DEF Covered, Grows
<1>4. Backed(disk, r.cur) => Backed(disk', r.cur)
    BY BackedGrows
<1>5. Len(r.blks) <= next => Len(r.blks) <= next'
    BY <1>2
<1>6. Covered(p, r.pc, r.op, r.blks, r.cur, r.want, disk', next')
    BY <1>1, <1>3, <1>4, <1>5 DEF Covered
<1> QED
    BY <1>6, Zenon DEF Coverage, r

\* Only the process that moves has to be looked at.
LEMMA CapMoved ==
    ASSUME CapInv, IInv', NEW p \in Procs, Grows, Files', Entry', next <= next',
           NEW pc, NEW op, NEW blks, NEW cur, NEW want,
           Becomes(p, pc, op, blks, cur, want),
           Covered(p, pc, op, blks, cur, want, disk', next')
    PROVE  CapInv'
<1>1. next \in Nat /\ next' \in Nat
    BY DEF CapInv, Entry
<1>2. ASSUME NEW q \in Procs, q # p PROVE Coverage(q)'
    BY <1>1, <1>2, CoverageKept DEF CapInv, Becomes
<1>3. Coverage(p)'
    BY Zenon DEF Coverage, Becomes
<1> QED
    BY <1>2, <1>3 DEF CapInv

\* Nothing is open or created.
LEMMA FilesSame ==
    ASSUME Files, UNCHANGED files
    PROVE  Files'
    BY DEF Files, files

\* The entry stays while the files may grow.
LEMMA EntrySame ==
    ASSUME Entry, UNCHANGED entry, Grows
    PROVE  Entry'
<1>1. Backed(disk, cap) /\ cap' = cap
    BY DEF Entry, entry
<1>2. Backed(disk', cap')
    BY <1>1, BackedGrows
<1> QED
    BY <1>2 DEF Entry, entry

\* The larger of two counts of blocks is one.
LEMMA LargerCount ==
    ASSUME NEW a \in 0 .. MaxBlock, NEW b \in 0 .. MaxBlock
    PROVE  Larger(a, b) \in 0 .. MaxBlock
    BY DEF Larger

\* Opening segments that exist.
LEMMA OpensSegs ==
    ASSUME Files, NEW p, NEW s \in SUBSET Segs, Opens(p, s)
    PROVE  open' \in [Backends -> SUBSET Segs]
    BY DEF Files, Opens

\* A segment file is added.
LEMMA SegmentAdded ==
    ASSUME Files, Grows, NEW s \in Segs, segs' = segs \cup {s},
           Backed(disk', s * SegBlocks)
    PROVE  /\ segs' \subseteq Segs
           /\ \E m \in segs' : \A t \in segs' : t <= m
           /\ \A t \in segs' : Backed(disk', t * SegBlocks)
<1>1. segs' \subseteq Segs
    BY DEF Files
<1>2. \A t \in segs' : Backed(disk', t * SegBlocks)
  <2>1. ASSUME NEW t \in segs PROVE Backed(disk', t * SegBlocks)
    <3> DEFINE n == t * SegBlocks
    <3>1. Backed(disk, n)
      BY DEF Files
    <3> HIDE DEF n
    <3>2. Backed(disk', n)
      BY <3>1, BackedGrows
    <3> QED
      BY <3>2 DEF n
  <2> QED
    BY <2>1
<1>3. PICK m \in segs : \A t \in segs : t <= m
    BY DEF Files
<1>4. \A t \in segs' : t \in Nat
    BY <1>1, SegNat
<1>5. \E x \in segs' : \A t \in segs' : t <= x
  <2>1. CASE s <= m
    BY <2>1, <1>3
  <2>2. CASE ~(s <= m)
    <3>1. \A t \in segs' : t <= s
      BY <2>2, <1>3, <1>4
    <3> QED
      BY <3>1
  <2> QED
    BY <2>1, <2>2
<1> QED
    BY <1>1, <1>2, <1>5

\* The write of a block.
LEMMA PutFiles ==
    ASSUME Files, Grows, NEW p, NEW b \in Blocks, NEW v \in {"zero", "page"}, PutBlock(p, b, v),
           disk'[b] # "absent", written' \subseteq Blocks
    PROVE  Files'
<1>1. b \in Nat /\ Seg(b) \in Segs
    BY DEF Blocks, Segs
<1>2. disk' \in [Blocks -> {"absent", "zero", "page"}]
    BY DEF PutBlock, Materialized, Files
<1>3. Backed(disk', Seg(b) * SegBlocks)
  <2> DEFINE n == Seg(b) * SegBlocks
  <2>1. n \in Nat /\ n <= b + 1
    BY <1>1, SegFloor
  <2> HIDE DEF n
  <2>2. Backed(disk', n)
    BY <2>1, BackedBlock
  <2> QED
    BY <2>2 DEF n
<1>4. open' \in [Backends -> SUBSET Segs]
    BY <1>1, OpensSegs DEF PutBlock
<1>5. segs' = segs \cup {Seg(b)}
    BY DEF PutBlock
<1> QED
    BY <1>1, <1>2, <1>3, <1>4, <1>5, SegmentAdded DEF Files

-----------------------------------------------------------------------------
\* The coverage of an operation, and its blocks.
LEMMA CoverageOf ==
    ASSUME CapInv, NEW p \in Procs
    PROVE  /\ Covered(p, proc[p].pc, proc[p].op, proc[p].blks, proc[p].cur, proc[p].want,
                      disk, next)
           /\ Achieved(p, proc[p].pc, proc[p].op, proc[p].blks, proc[p].cur, proc[p].want,
                       disk, cap)
    BY Zenon DEF CapInv, Coverage, IInv, Stage

\* An operation whose record is given anew.
LEMMA BecomesFields ==
    ASSUME NEW p \in Procs, NEW pc, NEW op, NEW blks, NEW below, NEW cur, NEW want,
           proc'[p] = [pc |-> pc, op |-> op, blks |-> blks, below |-> below,
                       cur |-> cur, want |-> want],
           \A q \in Procs \ {p} : proc'[q] = proc[q]
    PROVE  Becomes(p, pc, op, blks, cur, want)
    BY DEF Becomes

\* The same from the update of the array of records.
LEMMA BecomesRecord ==
    ASSUME IInv, NEW p \in Procs, NEW pc, NEW op, NEW blks, NEW below, NEW cur, NEW want,
           proc' = [proc EXCEPT ![p] = [pc |-> pc, op |-> op, blks |-> blks, below |-> below,
                                        cur |-> cur, want |-> want]]
    PROVE  Becomes(p, pc, op, blks, cur, want)
<1>1. /\ proc'[p] = [pc |-> pc, op |-> op, blks |-> blks, below |-> below,
                     cur |-> cur, want |-> want]
      /\ \A q \in Procs \ {p} : proc'[q] = proc[q]
    BY DEF IInv, Sizes
<1> QED
    BY <1>1, BecomesFields, Zenon

\* A process that ends its operation is covered.
LEMMA FinishCovered ==
    ASSUME CapInv, IInv', NEW p \in Procs, Finish(p), Grows, Files', Entry', next' = next
    PROVE  CapInv'
<1>1. Becomes(p, "idle", "none", <<>>, 0, 0)
  <2>1. proc' = [proc EXCEPT ![p] = [pc |-> "idle", op |-> "none", blks |-> <<>>,
                                     below |-> FALSE, cur |-> 0, want |-> 0]]
    BY Zenon DEF Finish, Idle
  <2> QED
    BY <2>1, BecomesRecord, Zenon DEF CapInv
<1>2. Covered(p, "idle", "none", <<>>, 0, 0, disk', next')
    BY DEF Covered
<1>3. next <= next'
    BY DEF CapInv, Entry
<1> QED
    BY <1>1, <1>2, <1>3, CapMoved

\* A process that moves on with its blocks and counters.
LEMMA GotoBecomes ==
    ASSUME IInv, NEW p \in Procs, NEW pc, Goto(p, pc)
    PROVE  Becomes(p, pc, proc[p].op, proc[p].blks, proc[p].cur, proc[p].want)
<1>1. proc' = [proc EXCEPT ![p] = [proc[p] EXCEPT !.pc = pc]]
    BY DEF Goto
<1>2. proc' = [proc EXCEPT ![p] =
            [pc |-> pc, op |-> proc[p].op, blks |-> proc[p].blks,
             below |-> proc[p].below, cur |-> proc[p].cur, want |-> proc[p].want]]
    BY <1>1, Record, Zenon
<1> QED
    BY <1>2, BecomesRecord, Zenon

\* After preallocation an operation goes on, covered.
LEMMA ProceedCovered ==
    ASSUME CapInv, IInv', NEW p \in Procs, Proceed(p), Grows, Files', Entry', next' = next,
           proc[p].pc \in {"prealloc", "fallocate"}
    PROVE  CapInv'
<1>1. CASE p = MapWriter
  <2>1. Finish(p)
    BY <1>1 DEF Proceed, Finish, CapInv, IInv, Sizes
  <2> QED
    BY <2>1, FinishCovered
<1>2. CASE p # MapWriter
  <2> DEFINE n == Resume(p)
             r == proc[p]
  <2>1. proc' = [proc EXCEPT ![p] = [proc[p] EXCEPT !.pc = n, !.cur = 0, !.want = 0]]
    BY <1>2 DEF Proceed
  <2>2. n = IF r.op # "range" THEN "publish" ELSE IF Len(r.blks) < RangeLen THEN "reserve" ELSE "zero"
    BY DEF Resume
  <2> HIDE DEF n
  <2>3. proc' = [proc EXCEPT ![p] =
            [pc |-> n, op |-> proc[p].op, blks |-> proc[p].blks,
             below |-> proc[p].below, cur |-> 0, want |-> 0]]
    BY <2>1, RecordAll, Zenon DEF CapInv
  <2>4. Becomes(p, n, proc[p].op, proc[p].blks, 0, 0)
    BY <2>3, BecomesRecord, Zenon DEF CapInv
  <2>5. Covered(p, r.pc, r.op, r.blks, r.cur, r.want, disk, next)
    BY CoverageOf, Zenon
  <2>6. r.pc \in {"prealloc", "fallocate"}
    OBVIOUS
  <2>7. next <= next'
    BY DEF CapInv, Entry
  <2> HIDE DEF r
  <2>8. Covered(p, n, r.op, r.blks, 0, 0, disk', next')
    BY <1>2, <2>2, <2>5, <2>6 DEF Covered
  <2> QED
    BY <2>4, <2>7, <2>8, CapMoved, Zenon DEF r
<1> QED
    BY <1>1, <1>2

\* Reservation.
LEMMA CapBegin ==
    ASSUME CapInv, IInv', NEW p \in Procs, NEW op \in {"remap", "range"}, Begin(p, op)
    PROVE  CapInv'
<1>1. Grows /\ next <= next'
    BY DEF CapInv, Entry, IInv, Sizes, Grows, Begin, files, entry
<1>2. Files' /\ Entry'
    BY <1>1, FilesSame, EntrySame DEF CapInv, Begin
<1>3. Becomes(p, "reserve", op, <<>>, 0, 0)
  <2>1. /\ proc'[p] = [pc |-> "reserve", op |-> op, blks |-> <<>>, below |-> FALSE,
                       cur |-> 0, want |-> 0]
        /\ \A q \in Procs \ {p} : proc'[q] = proc[q]
    BY Zenon DEF CapInv, IInv, Sizes, Begin, Idle
  <2> QED
    BY <2>1, BecomesFields, Zenon
<1>4. next' \in Nat
    BY <1>2 DEF Entry
<1>5. Covered(p, "reserve", op, <<>>, 0, 0, disk', next')
    BY <1>4 DEF Covered
<1> QED
    BY <1>1, <1>2, <1>3, <1>5, CapMoved

\* The capacity when a block is reserved.
LEMMA CapReserve ==
    ASSUME CapInv, IInv', NEW p \in Procs, Reserve(p)
    PROVE  CapInv'
<1> DEFINE r == proc[p]
           blks == Append(r.blks, next)
<1>1. Grows
    BY DEF CapInv, IInv, Sizes, Grows, Reserve, files
<1>2. next \in 0 .. MaxBlock /\ next < MaxBlock /\ next' = next + 1
    BY DEF CapInv, Entry, Reserve
<1>3. Files'
    BY FilesSame DEF CapInv, Reserve
<1>4. Entry'
  <2>1. Backed(disk', cap')
    BY <1>1, BackedGrows DEF CapInv, Entry, Reserve
  <2> QED
    BY <1>2, <2>1 DEF CapInv, Entry, Reserve
<1>5. Becomes(p, "prealloc", r.op, blks, r.cur, r.want)
  <2>1. r = [pc |-> r.pc, op |-> r.op, blks |-> r.blks, below |-> r.below,
             cur |-> r.cur, want |-> r.want]
    BY DEF CapInv, IInv, Stage
  <2>2. proc' = [proc EXCEPT ![p] = [r EXCEPT !.pc = "prealloc", !.blks = blks]]
    BY Zenon DEF Reserve
  <2> HIDE DEF r, blks
  <2>3. /\ proc'[p] = [pc |-> "prealloc", op |-> r.op, blks |-> blks, below |-> r.below,
                       cur |-> r.cur, want |-> r.want]
        /\ \A q \in Procs \ {p} : proc'[q] = proc[q]
    BY Zenon, <2>1, <2>2 DEF CapInv, IInv, Sizes
  <2> QED
    BY Zenon, <2>3, BecomesFields
<1>6. /\ Covered(p, r.pc, r.op, r.blks, r.cur, r.want, disk, next)
      /\ Achieved(p, r.pc, r.op, r.blks, r.cur, r.want, disk, cap)
      /\ r.pc = "reserve"
    BY CoverageOf, Zenon DEF Reserve
<1> HIDE DEF r
<1>7. /\ r.blks \in Seq(Blocks) /\ next \in Blocks /\ p # MapWriter
      /\ r.op = "range" => Len(r.blks) < RangeLen
      /\ r.op # "range" => r.blks = <<>>
      /\ Len(r.blks) <= next
      /\ r.cur \in 0 .. MaxBlock /\ r.want \in 0 .. MaxBlock
    BY <1>2, <1>6 DEF Achieved, Covered, Blocks
<1>8. Len(blks) = Len(r.blks) + 1 /\ Len(r.blks) \in Nat
    BY <1>7
<1>9. Len(blks) <= RangeLen /\ Len(blks) <= next'
    BY <1>2, <1>7, <1>8
<1> HIDE DEF blks
<1>10. Covered(p, "prealloc", r.op, blks, r.cur, r.want, disk', next')
    BY <1>7, <1>9 DEF Covered
<1>11. next <= next'
    BY <1>2
<1> QED
    BY <1>1, <1>3, <1>4, <1>5, <1>10, <1>11, CapMoved, Zenon DEF r

\* The capacity when no block is left.
LEMMA CapReserveFails ==
    ASSUME CapInv, IInv', NEW p \in Procs, ReserveFails(p)
    PROVE  CapInv'
<1>1. Grows
    BY DEF CapInv, IInv, Sizes, Grows, ReserveFails, Finish, files, entry
<1>2. Files' /\ Entry'
    BY <1>1, FilesSame, EntrySame DEF CapInv, ReserveFails
<1> QED
    BY <1>1, <1>2, FinishCovered DEF ReserveFails, entry

-----------------------------------------------------------------------------
\* Preallocation.
LEMMA CapPreallocSkip ==
    ASSUME CapInv, IInv', NEW p \in Procs, PreallocSkip(p)
    PROVE  CapInv'
<1>1. Grows
    BY DEF CapInv, IInv, Sizes, Grows, PreallocSkip, files, entry, Proceed
<1>2. Files' /\ Entry'
    BY <1>1, FilesSame, EntrySame DEF CapInv, PreallocSkip
<1> QED
    BY <1>1, <1>2, ProceedCovered DEF PreallocSkip, entry

\* The preallocation starts from the end of the files, which is backed.
LEMMA CapPreallocStart ==
    ASSUME CapInv, IInv', NEW p \in Procs, PreallocStart(p)
    PROVE  CapInv'
<1> DEFINE r == proc[p]
           goal == Larger(cap, next) + Batch
<1>1. CASE goal > MaxBlock
  <2>1. Grows /\ Finish(p) /\ UNCHANGED files /\ UNCHANGED entry
    BY <1>1 DEF CapInv, IInv, Sizes, Grows, PreallocStart, Finish, files, entry
  <2>2. Files' /\ Entry'
    BY <2>1, FilesSame, EntrySame DEF CapInv
  <2> QED
    BY <2>1, <2>2, FinishCovered DEF entry
<1>2. CASE ~(goal > MaxBlock)
  <2>1. Grows /\ next' = next
    BY <1>2 DEF CapInv, IInv, Sizes, Grows, PreallocStart
  <2>2. Becomes(p, "fallocate", r.op, r.blks, SparseEnd, goal)
    <3>1. r = [pc |-> r.pc, op |-> r.op, blks |-> r.blks, below |-> r.below,
               cur |-> r.cur, want |-> r.want]
      BY DEF CapInv, IInv, Stage
    <3>2. proc' = [proc EXCEPT ![p] = [r EXCEPT !.pc = "fallocate", !.want = goal,
                                               !.cur = SparseEnd]]
      BY <1>2, <3>1 DEF PreallocStart, CapInv, IInv, Sizes
    <3> HIDE DEF r, goal
    <3>3. /\ proc'[p] = [pc |-> "fallocate", op |-> r.op, blks |-> r.blks,
                         below |-> r.below, cur |-> SparseEnd, want |-> goal]
          /\ \A q \in Procs \ {p} : proc'[q] = proc[q]
      BY Zenon, <3>1, <3>2 DEF CapInv, IInv, Sizes
    <3> QED
      BY <3>3, BecomesFields, Zenon
  <2>3. Files'
    <3>1. Opens(p, {Max(segs)} \cup (IF p \in Backends /\ open[p] = {} THEN {0} \cap segs ELSE {}))
      BY <1>2 DEF PreallocStart
    <3>2. {Max(segs)} \cup (IF p \in Backends /\ open[p] = {} THEN {0} \cap segs ELSE {})
              \in SUBSET Segs
      BY TopSegment DEF CapInv, Files
    <3>3. open' \in [Backends -> SUBSET Segs]
      BY <3>1, <3>2, OpensSegs, Zenon DEF CapInv
    <3>4. UNCHANGED <<disk, segs, written>>
      BY <1>2 DEF PreallocStart
    <3> QED
      BY <3>3, <3>4 DEF CapInv, Files
  <2>4. Entry'
    <3>1. preallocating' = TRUE /\ UNCHANGED <<disk, cap, next, extending, target, mapped>>
      BY <1>2 DEF PreallocStart
    <3> QED
      BY <3>1 DEF CapInv, Entry
  <2>5. goal \in 0 .. MaxBlock
    <3>1. cap \in Nat /\ next \in Nat
      BY DEF CapInv, Entry
    <3>2. Larger(cap, next) \in Nat
      BY <3>1, LargerNat
    <3> QED
      BY <1>2, <3>2
  <2>6. SparseEnd \in 0 .. MaxBlock /\ Backed(disk', SparseEnd)
    BY <2>1, SparseBacked, BackedGrows DEF CapInv
  <2>7. Covered(p, r.pc, r.op, r.blks, r.cur, r.want, disk, next)
    BY CoverageOf, Zenon
  <2>8. r.pc = "prealloc" \/ (p = MapWriter /\ r.pc = "idle")
    BY Zenon DEF PreallocStart
  <2>9. next \in Nat /\ next <= next'
    BY <2>1 DEF CapInv, Entry
  <2> HIDE DEF r, goal
  <2>10. Covered(p, "fallocate", r.op, r.blks, SparseEnd, goal, disk', next')
    <3>1. Len(r.blks) <= next
      BY <2>7, <2>8, <2>9 DEF Covered
    <3> QED
      BY <2>1, <2>5, <2>6, <2>7, <2>8, <3>1 DEF Covered
  <2> QED
    BY <2>1, <2>2, <2>3, <2>4, <2>9, <2>10, CapMoved
<1> QED
    BY <1>1, <1>2

\* The smaller of two numbers.
LEMMA MinTwo ==
    ASSUME NEW a \in Nat, NEW b \in Nat
    PROVE  Min({a, b}) \in {a, b} /\ Min({a, b}) <= a /\ Min({a, b}) <= b
<1>1. \E x \in {a, b} : \A y \in {a, b} : x <= y
    OBVIOUS
<1>2. Min({a, b}) = CHOOSE x \in {a, b} : \A y \in {a, b} : x <= y
    BY DEF Min
<1>3. Min({a, b}) \in {a, b} /\ \A y \in {a, b} : Min({a, b}) <= y
    BY <1>1, <1>2, Zenon
<1> QED
    BY <1>3

\* A segment is preallocated: its last block backs the new position.
LEMMA CapPreallocSegment ==
    ASSUME CapInv, IInv', NEW p \in Procs, PreallocSegment(p)
    PROVE  CapInv'
<1> DEFINE r == proc[p]
           end == Min({(Seg(r.cur) + 1) * SegBlocks, r.want})
           v == IF disk[end - 1] = "absent" THEN "zero" ELSE disk[end - 1]
<1>1. /\ Covered(p, r.pc, r.op, r.blks, r.cur, r.want, disk, next)
      /\ r.pc = "fallocate" /\ r.cur < r.want
    BY CoverageOf, Zenon DEF PreallocSegment
<1>2. PutBlock(p, end - 1, v) /\ UNCHANGED entry /\ written' = written
    BY DEF PreallocSegment
<1>3. Becomes(p, r.pc, r.op, r.blks, end, r.want)
  <2>1. r = [pc |-> r.pc, op |-> r.op, blks |-> r.blks, below |-> r.below,
             cur |-> r.cur, want |-> r.want]
    BY DEF CapInv, IInv, Stage
  <2>2. proc' = [proc EXCEPT ![p] = [r EXCEPT !.cur = end]]
    BY DEF PreallocSegment
  <2> HIDE DEF r, end
  <2>3. /\ proc'[p] = [pc |-> r.pc, op |-> r.op, blks |-> r.blks,
                       below |-> r.below, cur |-> end, want |-> r.want]
        /\ \A q \in Procs \ {p} : proc'[q] = proc[q]
    BY <2>1, <2>2 DEF CapInv, IInv, Sizes
  <2> QED
    BY <2>3, BecomesFields, Zenon
<1> HIDE DEF r
<1>4. r.cur \in Nat /\ r.want \in 0 .. MaxBlock
    BY <1>1 DEF Covered
<1>5. end \in Nat /\ r.cur < end /\ end <= r.want
  <2> DEFINE a == (Seg(r.cur) + 1) * SegBlocks
  <2>1. a \in Nat /\ r.cur < a
    BY <1>4, SegFloor
  <2> HIDE DEF a
  <2>2. Min({a, r.want}) \in {a, r.want} /\ Min({a, r.want}) <= r.want
    BY <1>4, <2>1, MinTwo
  <2>3. end = Min({a, r.want})
    BY DEF a
  <2> HIDE DEF end
  <2> QED
    BY <1>1, <1>4, <2>1, <2>2, <2>3
<1> HIDE DEF end
<1>6. end - 1 \in Blocks /\ end = (end - 1) + 1
    BY <1>4, <1>5 DEF Blocks
<1>7. v \in {"zero", "page"}
    BY <1>6 DEF CapInv, Files
<1> DEFINE b == end - 1
<1>8. b \in Blocks /\ PutBlock(p, b, v)
    BY <1>2, <1>6
<1> HIDE DEF v, b
<1>9. Grows /\ disk'[b] # "absent"
  <2>1. disk' = Materialized(b, v) /\ v # "absent"
    BY <1>7, <1>8 DEF PutBlock
  <2>2. /\ cap' = cap /\ next' = next /\ target' = target
        /\ proc' = [q \in Procs |-> proc'[q]]
    BY Zenon DEF PreallocSegment, entry, CapInv, IInv, Sizes
  <2> QED
    BY <1>8, <2>1, <2>2, DiskGrows DEF CapInv, IInv
<1>10. Files'
    BY <1>2, <1>7, <1>8, <1>9, PutFiles DEF CapInv, Files
<1>11. Entry'
    BY <1>2, <1>9, EntrySame DEF CapInv
<1>12. Backed(disk', end)
    BY <1>5, <1>6, <1>8, <1>9, BackedBlock DEF b
<1>13. Covered(p, r.pc, r.op, r.blks, end, r.want, disk', next')
  <2>1. end \in 0 .. MaxBlock /\ next' = next
    BY <1>2, <1>4, <1>5 DEF entry
  <2> QED
    BY <1>1, <1>12, <2>1 DEF Covered
<1>14. next <= next'
    BY <1>2 DEF entry, CapInv, Entry
<1> QED
    BY <1>3, <1>9, <1>10, <1>11, <1>13, <1>14, CapMoved

\* A refused preallocation may leave an empty segment file, whose first block
\* is not beyond the position reached.
LEMMA CapPreallocFails ==
    ASSUME CapInv, IInv', NEW p \in Procs, PreallocFails(p)
    PROVE  CapInv'
<1> DEFINE r == proc[p]
<1>1. /\ Covered(p, r.pc, r.op, r.blks, r.cur, r.want, disk, next)
      /\ r.pc = "fallocate" /\ r.cur < r.want
    BY CoverageOf, Zenon DEF PreallocFails
<1>2. /\ Grows /\ next' = next /\ disk' = disk /\ written' = written
      /\ segs' = segs \cup {Seg(r.cur)} /\ Opens(p, {Seg(r.cur)})
    BY DEF CapInv, IInv, Sizes, Grows, PreallocFails, Proceed, Finish
<1>3. Entry'
  <2>1. preallocating' = FALSE /\ UNCHANGED <<disk, cap, next, extending, target, mapped>>
    BY DEF PreallocFails
  <2> QED
    BY <2>1 DEF CapInv, Entry
<1>4. Proceed(p) \/ Finish(p)
    BY DEF PreallocFails
<1>5. proc[p].pc \in {"prealloc", "fallocate"}
    BY <1>1
<1> HIDE DEF r
<1>6. r.cur \in Blocks /\ r.cur \in Nat /\ Backed(disk, r.cur)
    BY <1>1 DEF Covered, Blocks
<1>7. Seg(r.cur) \in Segs
    BY <1>6 DEF Segs
<1>8. Backed(disk', Seg(r.cur) * SegBlocks)
  <2> DEFINE n == Seg(r.cur) * SegBlocks
  <2>1. n \in Nat /\ n <= r.cur
    BY <1>6, SegFloor
  <2> HIDE DEF n
  <2>2. Backed(disk', n)
    BY <1>2, <1>6, <2>1, BackedDown
  <2> QED
    BY <2>2 DEF n
<1>9. Files'
  <2> DEFINE s == Seg(r.cur)
  <2>1. s \in Segs /\ segs' = segs \cup {s} /\ Backed(disk', s * SegBlocks) /\ {s} \in SUBSET Segs
    BY <1>2, <1>7, <1>8
  <2> HIDE DEF s
  <2>2. open' \in [Backends -> SUBSET Segs]
    BY <1>2, <2>1, OpensSegs DEF CapInv, s
  <2> QED
    BY <1>2, <2>1, <2>2, SegmentAdded DEF CapInv, Files
<1> QED
    BY <1>2, <1>3, <1>4, <1>5, <1>9, ProceedCovered, FinishCovered

\* A backed number may become the capacity.
LEMMA CapRaised ==
    ASSUME Entry, NEW n \in 0 .. MaxBlock, Backed(disk, n)
    PROVE  /\ Larger(cap, n) \in 0 .. MaxBlock /\ Larger(cap, n) \in Nat
           /\ cap <= Larger(cap, n) /\ n <= Larger(cap, n) /\ Backed(disk, Larger(cap, n))
<1>1. cap \in 0 .. MaxBlock /\ Backed(disk, cap)
    BY DEF Entry
<1>2. Backed(disk, Larger(cap, n))
    BY <1>1, LargerBacked, Zenon
<1>3. Larger(cap, n) \in 0 .. MaxBlock
    BY <1>1, LargerCount, Zenon
<1>4. cap \in Nat /\ n \in Nat
    BY <1>1
<1>5. Larger(cap, n) \in Nat /\ cap <= Larger(cap, n) /\ n <= Larger(cap, n)
    BY <1>4, LargerNat, Zenon
<1> QED
    BY <1>2, <1>3, <1>5

\* The capacity is raised to what was preallocated.
LEMMA CapPreallocPublish ==
    ASSUME CapInv, IInv', NEW p \in Procs, PreallocPublish(p)
    PROVE  CapInv'
<1> DEFINE r == proc[p]
<1>1. /\ Covered(p, r.pc, r.op, r.blks, r.cur, r.want, disk, next)
      /\ r.pc = "fallocate" /\ r.cur >= r.want
    BY CoverageOf, Zenon DEF PreallocPublish
<1>2. /\ cap' = Larger(cap, r.want) /\ preallocating' = FALSE /\ Proceed(p)
      /\ UNCHANGED files /\ UNCHANGED <<disk, next, extending, target, mapped>>
    BY DEF PreallocPublish, files
<1>3. Files'
    BY <1>2, FilesSame DEF CapInv
<1>4. proc[p].pc \in {"prealloc", "fallocate"}
    BY <1>1
<1> HIDE DEF r
<1>5. r.want \in 0 .. MaxBlock /\ r.want \in Nat /\ Backed(disk, r.want)
  <2>1. r.cur \in Nat /\ r.want \in Nat /\ r.want \in 0 .. MaxBlock /\ Backed(disk, r.cur)
    BY <1>1 DEF Covered
  <2> QED
    BY <1>1, <2>1, BackedDown
<1>6. disk' = disk
    BY <1>2
<1>7. cap' \in 0 .. MaxBlock /\ cap' \in Nat /\ cap <= cap' /\ Backed(disk', cap')
    BY <1>2, <1>5, <1>6, CapRaised, Zenon DEF CapInv
<1>8. Entry'
    BY <1>2, <1>7 DEF CapInv, Entry
<1>9. Grows
  <2>1. proc' = [q \in Procs |-> proc'[q]]
    BY <1>2 DEF CapInv, IInv, Sizes, Proceed
  <2> QED
    BY <1>2, <1>7, <2>1 DEF CapInv, IInv, Sizes, Grows
<1> QED
    BY <1>2, <1>3, <1>4, <1>8, <1>9, ProceedCovered

-----------------------------------------------------------------------------
\* Publication and writes.
LEMMA CapPublish ==
    ASSUME CapInv, IInv', NEW p \in Procs, Publish(p), mapped' \subseteq Blocks
    PROVE  CapInv'
<1>1. Grows
    BY DEF CapInv, IInv, Sizes, Grows, Publish, Finish, files
<1>2. Files'
    BY FilesSame DEF CapInv, Publish
<1>3. UNCHANGED <<disk, cap, next, extending, target, preallocating>> /\ Finish(p)
    BY DEF Publish, files
<1>4. Entry'
    BY <1>3 DEF CapInv, Entry
<1> QED
    BY <1>1, <1>2, <1>3, <1>4, FinishCovered

\* The capacity when a writer takes a mapped page.
LEMMA CapBeginWrite ==
    ASSUME CapInv, IInv', NEW w \in Procs, NEW b \in Blocks, NEW pc \in {"write", "saved"},
           BeginWrite(w, b, pc)
    PROVE  CapInv'
<1> DEFINE below == pc = "write" /\ b < cap
<1>1. Grows /\ next <= next'
    BY DEF CapInv, Entry, IInv, Sizes, Grows, BeginWrite, files, entry
<1>2. Files' /\ Entry'
    BY <1>1, FilesSame, EntrySame DEF CapInv, BeginWrite
<1>3. Becomes(w, pc, "write", <<b>>, 0, 0)
  <2>1. /\ proc'[w] = [pc |-> pc, op |-> "write", blks |-> <<b>>, below |-> below,
                       cur |-> 0, want |-> 0]
        /\ \A q \in Procs \ {w} : proc'[q] = proc[q]
    BY Zenon DEF CapInv, IInv, Sizes, BeginWrite, Idle
  <2> HIDE DEF below
  <2> QED
    BY <2>1, BecomesFields, Zenon
<1>4. w # MapWriter /\ Len(<<b>>) <= RangeLen
    BY DEF BeginWrite
<1>5. Covered(w, pc, "write", <<b>>, 0, 0, disk', next')
    BY <1>4 DEF Covered
<1> QED
    BY <1>1, <1>2, <1>3, <1>5, CapMoved

\* A process writes a block of its operation.
LEMMA CapPut ==
    ASSUME CapInv, NEW p \in Procs, NEW b \in Blocks, NEW v \in {"zero", "page"},
           PutBlock(p, b, v), UNCHANGED entry, proc' = [q \in Procs |-> proc'[q]],
           written' \subseteq Blocks
    PROVE  Grows /\ disk'[b] # "absent" /\ Files' /\ Entry' /\ next' = next /\ next <= next'
<1>1. Grows /\ disk'[b] # "absent"
    BY PutGrows DEF CapInv
<1>2. Files'
    BY <1>1, PutFiles DEF CapInv
<1>3. Entry'
    BY <1>1, EntrySame DEF CapInv
<1> QED
    BY <1>1, <1>2, <1>3 DEF entry, CapInv, Entry

\* The block of a write.
LEMMA BlkBlock ==
    ASSUME IInv, NEW p \in Procs, proc[p].pc \in {"publish", "write", "bump", "saved", "zeroed",
                                                  "ensure", "apply"}
    PROVE  Blk(p) \in Blocks /\ Blk(p) \in Nat
    BY Zenon, LastBlock DEF IInv, Stage, Achieved, Blk

\* The capacity through a write at or beyond it.
LEMMA CapWriteBeyond ==
    ASSUME CapInv, IInv', NEW p \in Procs, WriteBeyond(p)
    PROVE  CapInv'
<1> DEFINE r == proc[p]
<1>1. Blk(p) \in Blocks
    BY BlkBlock DEF WriteBeyond, CapInv
<1>2. /\ PutBlock(p, Blk(p), "page") /\ UNCHANGED entry
      /\ written' = written \cup {Blk(p)} /\ Goto(p, "bump")
    BY DEF WriteBeyond
<1>3. proc' = [q \in Procs |-> proc'[q]]
    BY <1>2 DEF Goto, CapInv, IInv, Sizes
<1>4. /\ Grows /\ disk'[Blk(p)] # "absent" /\ Files' /\ Entry'
      /\ next' = next /\ next <= next'
    BY <1>1, <1>2, <1>3, CapPut DEF CapInv, Files
<1>5. Becomes(p, "bump", r.op, r.blks, r.cur, r.want)
    BY <1>2, GotoBecomes DEF CapInv
<1>6. Covered(p, r.pc, r.op, r.blks, r.cur, r.want, disk, next) /\ r.pc = "write"
    BY CoverageOf, Zenon DEF WriteBeyond
<1>7. disk'[r.blks[Len(r.blks)]] # "absent"
    BY <1>4, Zenon DEF Blk
<1> HIDE DEF r
<1>8. Covered(p, "bump", r.op, r.blks, r.cur, r.want, disk', next')
    BY <1>6, <1>7 DEF Covered
<1> QED
    BY <1>4, <1>5, <1>8, CapMoved DEF r

\* The writer raises the capacity to the block it wrote.
LEMMA CapBump ==
    ASSUME CapInv, IInv', NEW p \in Procs, Bump(p)
    PROVE  CapInv'
<1> DEFINE r == proc[p]
           n == Blk(p) + 1
<1>1. Blk(p) \in Blocks /\ Blk(p) \in Nat
    BY BlkBlock DEF Bump, CapInv
<1>2. /\ cap' = Larger(cap, n) /\ Finish(p) /\ UNCHANGED files
      /\ UNCHANGED <<disk, next, extending, target, preallocating, mapped>>
    BY DEF Bump, files
<1>3. Covered(p, r.pc, r.op, r.blks, r.cur, r.want, disk, next) /\ r.pc = "bump"
    BY CoverageOf, Zenon DEF Bump
<1>4. disk[Blk(p)] # "absent"
    BY <1>3, Zenon DEF Covered, Blk
<1>5. n \in 0 .. MaxBlock /\ Backed(disk, n)
    BY <1>1, <1>4, BackedBlock DEF Blocks
<1> HIDE DEF n
<1>6. disk' = disk
    BY <1>2
<1>7. cap' \in 0 .. MaxBlock /\ cap' \in Nat /\ cap <= cap' /\ Backed(disk', cap')
    BY <1>2, <1>5, <1>6, CapRaised, Zenon DEF CapInv
<1>8. Entry'
    BY <1>2, <1>7 DEF CapInv, Entry
<1>9. Grows
    BY <1>2, <1>7 DEF CapInv, IInv, Sizes, Grows, Finish
<1>10. Files'
    BY <1>2, FilesSame DEF CapInv
<1> QED
    BY <1>2, <1>8, <1>9, <1>10, FinishCovered

\* The capacity through a write below it.
LEMMA CapWriteBelow ==
    ASSUME CapInv, IInv', NEW p \in Procs, WriteBelow(p)
    PROVE  CapInv'
<1>1. Blk(p) \in Blocks
    BY BlkBlock DEF WriteBelow, CapInv
<1>2. Finish(p) /\ UNCHANGED entry /\ proc' = [q \in Procs |-> proc'[q]] /\ next' = next
    BY DEF WriteBelow, Finish, CapInv, IInv, Sizes, entry
<1>3. CASE Seg(Blk(p)) \in segs
  <2>1. PutBlock(p, Blk(p), "page") /\ written' = written \cup {Blk(p)}
    BY <1>3 DEF WriteBelow
  <2>2. Grows /\ Files' /\ Entry'
    BY <1>1, <1>2, <2>1, CapPut DEF CapInv, Files
  <2> QED
    BY <1>2, <2>2, FinishCovered
<1>4. CASE Seg(Blk(p)) \notin segs
  <2>1. UNCHANGED files
    BY <1>4 DEF WriteBelow
  <2>2. Grows
    BY <1>2, <2>1 DEF CapInv, IInv, Sizes, Grows, files, entry
  <2>3. Files' /\ Entry'
    BY <1>2, <2>1, <2>2, FilesSame, EntrySame DEF CapInv
  <2> QED
    BY <1>2, <2>2, <2>3, FinishCovered
<1> QED
    BY <1>3, <1>4

\* The capacity when a checkpoint zero-extends a saved block.
LEMMA CapCheckpointZero ==
    ASSUME CapInv, IInv', NEW p \in Procs, CheckpointZero(p)
    PROVE  CapInv'
<1> DEFINE r == proc[p]
<1>1. Blk(p) \in Blocks
    BY BlkBlock DEF CheckpointZero, CapInv
<1>2. Goto(p, "zeroed") /\ UNCHANGED entry /\ written' = written
    BY DEF CheckpointZero
<1>3. proc' = [q \in Procs |-> proc'[q]]
    BY <1>2 DEF Goto, CapInv, IInv, Sizes
<1>4. Grows /\ Files' /\ Entry' /\ next <= next' /\ next' = next
  <2>1. CASE UNCHANGED <<disk, segs, open>>
    <3>1. Grows
      BY <1>2, <1>3, <2>1 DEF CapInv, IInv, Sizes, Grows, entry
    <3>2. Files'
      BY <1>2, <2>1, FilesSame DEF CapInv, files
    <3>3. Entry' /\ next' = next /\ next <= next'
      BY <1>2, <3>1, EntrySame DEF CapInv, entry, Entry
    <3> QED
      BY <3>1, <3>2, <3>3
  <2>2. CASE PutBlock(p, Blk(p), "zero")
    BY <1>1, <1>2, <1>3, <2>2, CapPut DEF CapInv, Files
  <2> QED
    BY <2>1, <2>2 DEF CheckpointZero
<1>5. Becomes(p, "zeroed", r.op, r.blks, r.cur, r.want)
    BY <1>2, GotoBecomes DEF CapInv
<1>6. Covered(p, r.pc, r.op, r.blks, r.cur, r.want, disk, next) /\ r.pc = "saved"
    BY CoverageOf, Zenon DEF CheckpointZero
<1> HIDE DEF r
<1>7. Covered(p, "zeroed", r.op, r.blks, r.cur, r.want, disk', next')
    BY <1>6 DEF Covered
<1> QED
    BY <1>4, <1>5, <1>7, CapMoved DEF r

\* The capacity when a checkpoint writes a saved block.
LEMMA CapCheckpointWrite ==
    ASSUME CapInv, IInv', NEW p \in Procs, CheckpointWrite(p)
    PROVE  CapInv'
<1>1. Blk(p) \in Blocks
    BY BlkBlock DEF CheckpointWrite, CapInv
<1>2. Finish(p) /\ UNCHANGED entry /\ proc' = [q \in Procs |-> proc'[q]]
    BY DEF CheckpointWrite, Finish, CapInv, IInv, Sizes
<1>3. PutBlock(p, Blk(p), "page") /\ written' = written \cup {Blk(p)}
    BY DEF CheckpointWrite
<1>4. Grows /\ Files' /\ Entry' /\ next' = next
    BY <1>1, <1>2, <1>3, CapPut DEF CapInv, Files
<1> QED
    BY <1>2, <1>4, FinishCovered

-----------------------------------------------------------------------------
\* Zero-extension of a range and the single extender.
LEMMA CapZeroBlock ==
    ASSUME CapInv, IInv', NEW p \in Procs, ZeroBlock(p)
    PROVE  CapInv'
<1> DEFINE r == proc[p]
           n == r.cur + 1
           pc == IF n = RangeLen THEN "ensure" ELSE "zero"
<1>1. /\ Covered(p, r.pc, r.op, r.blks, r.cur, r.want, disk, next)
      /\ Achieved(p, r.pc, r.op, r.blks, r.cur, r.want, disk, cap) /\ r.pc = "zero"
    BY CoverageOf, Zenon DEF ZeroBlock
<1>2. /\ proc' = [q \in Procs |-> proc'[q]] /\ UNCHANGED entry
      /\ PutBlock(p, r.blks[n], "zero") /\ written' = written
    BY DEF ZeroBlock, CapInv, IInv, Sizes
<1>3. Becomes(p, pc, r.op, r.blks, n, r.want)
  <2>1. proc' = [proc EXCEPT ![p] = [proc[p] EXCEPT !.cur = n, !.pc = pc]]
    BY Zenon DEF ZeroBlock
  <2> HIDE DEF n, pc
  <2>2. [proc[p] EXCEPT !.cur = n, !.pc = pc] =
            [pc |-> pc, op |-> proc[p].op, blks |-> proc[p].blks,
             below |-> proc[p].below, cur |-> n, want |-> proc[p].want]
    BY Zenon, Record DEF CapInv
  <2>3. proc' = [proc EXCEPT ![p] =
            [pc |-> pc, op |-> proc[p].op, blks |-> proc[p].blks,
             below |-> proc[p].below, cur |-> n, want |-> proc[p].want]]
    BY <2>1, <2>2, Zenon
  <2> QED
    BY <2>3, BecomesRecord, Zenon DEF CapInv
<1>4. next \in 0 .. MaxBlock
    BY DEF CapInv, Entry
<1> HIDE DEF r
<1>5. /\ r.blks \in Seq(Blocks) /\ Len(r.blks) = RangeLen /\ p # MapWriter
      /\ r.cur \in 0 .. (RangeLen - 1) /\ Len(r.blks) <= next
    BY <1>1 DEF Achieved, Covered
<1>6. n \in 0 .. MaxBlock /\ r.blks[n] \in Blocks
    BY <1>4, <1>5
<1>7. Grows /\ Files' /\ Entry' /\ next' = next /\ next <= next'
    BY <1>2, <1>6, CapPut DEF CapInv, Files
<1>8. pc \in {"ensure", "zero"}
    OBVIOUS
<1> HIDE DEF n, pc
<1>9. Covered(p, pc, r.op, r.blks, n, r.want, disk', next')
    BY <1>1, <1>5, <1>6, <1>7, <1>8 DEF Covered
<1> QED
    BY <1>3, <1>7, <1>9, CapMoved

\* The capacity when it already suffices.
LEMMA CapEnsureReady ==
    ASSUME CapInv, IInv', NEW p \in Procs, EnsureReady(p)
    PROVE  CapInv'
<1> DEFINE r == proc[p]
<1>1. Covered(p, r.pc, r.op, r.blks, r.cur, r.want, disk, next) /\ r.pc = "ensure"
    BY CoverageOf, Zenon DEF EnsureReady
<1>2. Goto(p, "apply") /\ UNCHANGED files /\ UNCHANGED entry
    BY DEF EnsureReady
<1>3. Grows /\ next' = next
    BY <1>2 DEF CapInv, IInv, Sizes, Grows, files, entry, Goto
<1>4. Files' /\ Entry' /\ next <= next'
    BY <1>2, <1>3, FilesSame, EntrySame DEF CapInv, Entry
<1>5. Becomes(p, "apply", r.op, r.blks, r.cur, r.want)
    BY <1>2, GotoBecomes DEF CapInv
<1> HIDE DEF r
<1>6. Covered(p, "apply", r.op, r.blks, r.cur, r.want, disk', next')
    BY <1>1 DEF Covered
<1> QED
    BY <1>3, <1>4, <1>5, <1>6, CapMoved DEF r

\* The capacity when another process is asked for more.
LEMMA CapEnsureWait ==
    ASSUME CapInv, IInv', NEW p \in Procs, EnsureWait(p)
    PROVE  CapInv'
<1>1. Blk(p) \in Blocks
    BY BlkBlock DEF EnsureWait, CapInv
<1>2. /\ target' = Blk(p) + 1 /\ UNCHANGED files
      /\ UNCHANGED <<disk, cap, next, extending, preallocating, mapped, proc>>
    BY DEF EnsureWait, files
<1>3. target' \in 0 .. MaxBlock
    BY <1>1, <1>2 DEF Blocks
<1>4. Files' /\ Entry'
    BY <1>2, <1>3, FilesSame DEF CapInv, Entry
<1>5. \A q \in Procs : Coverage(q)'
    BY <1>2 DEF CapInv, Coverage
<1> QED
    BY <1>4, <1>5 DEF CapInv

\* The extender starts from the capacity, which is backed.
LEMMA CapEnsureStart ==
    ASSUME CapInv, IInv', NEW p \in Procs, EnsureStart(p)
    PROVE  CapInv'
<1> DEFINE r == proc[p]
           w == Blk(p) + 1
<1>1. Covered(p, r.pc, r.op, r.blks, r.cur, r.want, disk, next) /\ r.pc = "ensure"
    BY CoverageOf, Zenon DEF EnsureStart
<1>2. /\ extending' = TRUE /\ target' = w /\ UNCHANGED files
      /\ UNCHANGED <<disk, cap, next, preallocating, mapped>>
    BY DEF EnsureStart, files
<1>3. w \in 0 .. MaxBlock
    BY BlkBlock DEF EnsureStart, CapInv, Blocks
<1>4. proc' = [proc EXCEPT ![p] = [proc[p] EXCEPT !.pc = "probe", !.cur = cap, !.want = w]]
    BY Zenon DEF EnsureStart
<1> HIDE DEF w
<1>5. Becomes(p, "probe", r.op, r.blks, cap, w)
  <2>1. proc' = [proc EXCEPT ![p] =
            [pc |-> "probe", op |-> proc[p].op, blks |-> proc[p].blks,
             below |-> proc[p].below, cur |-> cap, want |-> w]]
    BY <1>4, RecordAll, Zenon DEF CapInv
  <2> QED
    BY <2>1, BecomesRecord, Zenon DEF CapInv
<1>6. Files'
    BY <1>2, FilesSame DEF CapInv
<1>7. Entry' /\ next <= next' /\ next' = next /\ cap \in 0 .. MaxBlock /\ Backed(disk', cap)
    BY <1>2, <1>3 DEF CapInv, Entry
<1>8. Grows
  <2>1. proc' = [q \in Procs |-> proc'[q]]
    BY <1>4, Zenon DEF CapInv, IInv, Sizes
  <2> QED
    BY <1>2, <1>3, <2>1 DEF CapInv, IInv, Sizes, Grows
<1> HIDE DEF r
<1>9. Covered(p, "probe", r.op, r.blks, cap, w, disk', next')
    BY <1>1, <1>3, <1>7 DEF Covered
<1> QED
    BY <1>5, <1>6, <1>7, <1>8, <1>9, CapMoved

\* The extender looks at the next block.
LEMMA CapProbe ==
    ASSUME CapInv, IInv', NEW p \in Procs, Probe(p)
    PROVE  CapInv'
<1> DEFINE r == proc[p]
           n == r.cur + 1
<1>1. /\ Covered(p, r.pc, r.op, r.blks, r.cur, r.want, disk, next)
      /\ r.pc = "probe" /\ r.cur < r.want
    BY CoverageOf, Zenon DEF Probe
<1>2. UNCHANGED entry /\ UNCHANGED <<disk, segs, written>> /\ ProbeOpens(p, r.cur)
    BY DEF Probe
<1>3. proc' = [q \in Procs |-> proc'[q]]
    BY DEF Probe, CapInv, IInv, Sizes
<1>4. Grows /\ next' = next
    BY <1>2, <1>3 DEF CapInv, IInv, Sizes, Grows, entry
<1>5. Entry' /\ next <= next'
    BY <1>2, <1>4, EntrySame DEF CapInv, Entry
<1>6. r.cur \in Blocks /\ r.cur \in Nat /\ n \in 0 .. MaxBlock
  <2>1. r.cur \in 0 .. MaxBlock /\ r.want \in 0 .. MaxBlock
    BY <1>1 DEF Covered
  <2> HIDE DEF r
  <2> QED
    BY <1>1, <2>1 DEF Blocks
<1>7. Files'
  <2> DEFINE s == IF Seg(r.cur) >= NumOpen(p) THEN {Seg(r.cur)} \cap segs ELSE {}
  <2>1. s \in SUBSET Segs
    BY DEF CapInv, Files
  <2>2. Opens(p, s)
    BY <1>2 DEF ProbeOpens
  <2> HIDE DEF s
  <2>3. open' \in [Backends -> SUBSET Segs]
    BY <2>1, <2>2, OpensSegs DEF CapInv
  <2> QED
    BY <1>2, <2>3 DEF CapInv, Files
<1>8. CASE BlockExists(p, r.cur)
  <2>1. proc' = [proc EXCEPT ![p] = [proc[p] EXCEPT !.cur = n]]
    BY <1>8 DEF Probe
  <2>2. Backed(disk', n)
    BY <1>2, <1>6, <1>8, BackedBlock DEF BlockExists
  <2> HIDE DEF n
  <2>3. proc' = [proc EXCEPT ![p] =
            [pc |-> proc[p].pc, op |-> proc[p].op, blks |-> proc[p].blks,
             below |-> proc[p].below, cur |-> n, want |-> proc[p].want]]
    BY <2>1, Record, Zenon DEF CapInv
  <2>4. Becomes(p, r.pc, r.op, r.blks, n, r.want)
    BY <2>3, BecomesRecord, Zenon DEF CapInv
  <2> HIDE DEF r
  <2>5. Covered(p, r.pc, r.op, r.blks, n, r.want, disk', next')
    BY <1>1, <1>4, <1>6, <2>2 DEF Covered
  <2> QED
    BY <1>4, <1>5, <1>7, <2>4, <2>5, CapMoved
<1>9. CASE ~BlockExists(p, r.cur)
  <2>1. proc' = [proc EXCEPT ![p] = [proc[p] EXCEPT !.pc = "fill"]]
    BY <1>9 DEF Probe
  <2>2. proc' = [proc EXCEPT ![p] =
            [pc |-> "fill", op |-> proc[p].op, blks |-> proc[p].blks,
             below |-> proc[p].below, cur |-> proc[p].cur, want |-> proc[p].want]]
    BY <2>1, Record, Zenon DEF CapInv
  <2>3. Becomes(p, "fill", r.op, r.blks, r.cur, r.want)
    BY <2>2, BecomesRecord, Zenon DEF CapInv
  <2>4. Backed(disk, r.cur) => Backed(disk', r.cur)
    BY <1>2
  <2> HIDE DEF r
  <2>5. Covered(p, "fill", r.op, r.blks, r.cur, r.want, disk', next')
    BY <1>1, <1>4, <2>4 DEF Covered
  <2> QED
    BY <1>4, <1>5, <1>7, <2>3, <2>5, CapMoved
<1> QED
    BY <1>8, <1>9

\* The extender fills the next block.
LEMMA CapFill ==
    ASSUME CapInv, IInv', NEW p \in Procs, Fill(p)
    PROVE  CapInv'
<1> DEFINE r == proc[p]
           n == r.cur + 1
<1>1. Covered(p, r.pc, r.op, r.blks, r.cur, r.want, disk, next) /\ r.pc = "fill"
    BY CoverageOf, Zenon DEF Fill
<1>2. /\ PutBlock(p, r.cur, "zero") /\ UNCHANGED entry /\ written' = written
      /\ proc' = [q \in Procs |-> proc'[q]]
    BY DEF Fill, CapInv, IInv, Sizes
<1>3. Becomes(p, "probe", r.op, r.blks, n, r.want)
  <2>1. proc' = [proc EXCEPT ![p] = [proc[p] EXCEPT !.pc = "probe", !.cur = n]]
    BY Zenon DEF Fill
  <2> HIDE DEF n
  <2>2. [proc[p] EXCEPT !.pc = "probe", !.cur = n] =
            [pc |-> "probe", op |-> proc[p].op, blks |-> proc[p].blks,
             below |-> proc[p].below, cur |-> n, want |-> proc[p].want]
    BY Zenon, Record DEF CapInv
  <2>3. proc' = [proc EXCEPT ![p] =
            [pc |-> "probe", op |-> proc[p].op, blks |-> proc[p].blks,
             below |-> proc[p].below, cur |-> n, want |-> proc[p].want]]
    BY <2>1, <2>2, Zenon
  <2> QED
    BY <2>3, BecomesRecord, Zenon DEF CapInv
<1> HIDE DEF r
<1>4. r.cur \in Blocks /\ r.cur \in Nat /\ n \in 0 .. MaxBlock
  <2>1. r.cur \in 0 .. MaxBlock /\ r.want \in 0 .. MaxBlock /\ r.cur < r.want
    BY <1>1 DEF Covered
  <2> QED
    BY <2>1 DEF Blocks
<1>5. Grows /\ disk'[r.cur] # "absent" /\ Files' /\ Entry' /\ next' = next /\ next <= next'
    BY <1>2, <1>4, CapPut DEF CapInv, Files
<1>6. Backed(disk', n)
    BY <1>4, <1>5, BackedBlock
<1> HIDE DEF n
<1>7. Covered(p, "probe", r.op, r.blks, n, r.want, disk', next')
    BY <1>1, <1>4, <1>5, <1>6 DEF Covered
<1> QED
    BY <1>3, <1>5, <1>7, CapMoved

\* The capacity when the extension fails.
LEMMA CapFillFails ==
    ASSUME CapInv, IInv', NEW p \in Procs, FillFails(p)
    PROVE  CapInv'
<1>1. /\ extending' = FALSE /\ target' = 0 /\ Finish(p) /\ UNCHANGED files
      /\ UNCHANGED <<disk, cap, next, preallocating, mapped>>
    BY DEF FillFails, files
<1>2. Grows
    BY <1>1 DEF CapInv, IInv, Sizes, Grows, Finish
<1>3. Files'
    BY <1>1, FilesSame DEF CapInv
<1>4. Entry'
  <2>1. extending' \in BOOLEAN
    BY <1>1, Zenon
  <2>2. target' \in 0 .. MaxBlock
    BY <1>1
  <2> QED
    BY <1>1, <2>1, <2>2 DEF CapInv, Entry
<1> QED
    BY <1>1, <1>2, <1>3, <1>4, FinishCovered

\* The extender publishes what it has made to exist.
LEMMA CapEnsurePublish ==
    ASSUME CapInv, IInv', NEW p \in Procs, EnsurePublish(p)
    PROVE  CapInv'
<1> DEFINE r == proc[p]
           c == Larger(cap, r.want)
           w == Larger(r.want, target)
<1>1. /\ Covered(p, r.pc, r.op, r.blks, r.cur, r.want, disk, next)
      /\ r.pc = "probe" /\ r.cur >= r.want
    BY CoverageOf, Zenon DEF EnsurePublish
<1>2. /\ cap' = c /\ UNCHANGED files
      /\ UNCHANGED <<disk, next, preallocating, mapped>>
    BY DEF EnsurePublish, files
<1>3. /\ c >= w => /\ extending' = FALSE /\ target' = 0
                  /\ proc' = [proc EXCEPT ![p] = [proc[p] EXCEPT !.pc = "apply", !.cur = 0,
                                                                 !.want = 0]]
      /\ ~(c >= w) => /\ target' = w /\ extending' = extending
                      /\ proc' = [proc EXCEPT ![p] = [proc[p] EXCEPT !.cur = c, !.want = w]]
    BY Zenon DEF EnsurePublish
<1>4. Files'
    BY <1>2, FilesSame DEF CapInv
<1> HIDE DEF r
<1>5. r.want \in 0 .. MaxBlock /\ Backed(disk, r.want)
  <2>1. r.cur \in Nat /\ r.want \in Nat /\ r.want \in 0 .. MaxBlock /\ Backed(disk, r.cur)
    BY <1>1 DEF Covered
  <2> QED
    BY <1>1, <2>1, BackedDown
<1>6. c \in 0 .. MaxBlock /\ c \in Nat /\ cap <= c /\ Backed(disk, c)
    BY <1>5, CapRaised, Zenon DEF CapInv
<1>7. w \in 0 .. MaxBlock
    BY <1>5, LargerCount, Zenon DEF CapInv, Entry
<1> HIDE DEF c, w
<1>8. extending' \in BOOLEAN /\ target' \in 0 .. MaxBlock
  <2>1. extending' \in BOOLEAN
    BY <1>3, Zenon DEF CapInv, Entry
  <2>2. target' = 0 \/ target' = w
    BY <1>3, Zenon
  <2>3. target' \in 0 .. MaxBlock
    BY <1>7, <2>2
  <2> QED
    BY <2>1, <2>3
<1>9. Entry'
    BY <1>2, <1>6, <1>8 DEF CapInv, Entry
<1>10. Grows
  <2>1. proc' = [q \in Procs |-> proc'[q]]
    BY <1>3, Zenon DEF CapInv, IInv, Sizes
  <2> QED
    BY <1>2, <1>6, <1>8, <2>1 DEF CapInv, IInv, Sizes, Grows
<1>11. next <= next' /\ next' = next
    BY <1>2 DEF CapInv, Entry
<1>12. CASE c >= w
  <2>0. [proc[p] EXCEPT !.pc = "apply", !.cur = 0, !.want = 0] =
            [pc |-> "apply", op |-> proc[p].op, blks |-> proc[p].blks,
             below |-> proc[p].below, cur |-> 0, want |-> 0]
    BY RecordAll, Zenon DEF CapInv
  <2>1. proc' = [proc EXCEPT ![p] =
            [pc |-> "apply", op |-> proc[p].op, blks |-> proc[p].blks,
             below |-> proc[p].below, cur |-> 0, want |-> 0]]
    BY <1>3, <1>12, <2>0, Zenon
  <2>2. Becomes(p, "apply", r.op, r.blks, 0, 0)
    BY <2>1, BecomesRecord, Zenon DEF CapInv, r
  <2>3. Covered(p, "apply", r.op, r.blks, 0, 0, disk', next')
    BY <1>1 DEF Covered
  <2> QED
    BY <1>4, <1>9, <1>10, <1>11, <2>2, <2>3, CapMoved
<1>13. CASE ~(c >= w)
  <2>1. [proc[p] EXCEPT !.cur = c, !.want = w] =
            [pc |-> proc[p].pc, op |-> proc[p].op, blks |-> proc[p].blks,
             below |-> proc[p].below, cur |-> c, want |-> w]
    BY Record, Zenon DEF CapInv
  <2>2. proc' = [proc EXCEPT ![p] =
            [pc |-> proc[p].pc, op |-> proc[p].op, blks |-> proc[p].blks,
             below |-> proc[p].below, cur |-> c, want |-> w]]
    BY <1>3, <1>13, <2>1, Zenon
  <2>3. Becomes(p, r.pc, r.op, r.blks, c, w)
    BY <2>2, BecomesRecord, Zenon DEF CapInv, r
  <2>4. Backed(disk', c)
    BY <1>2, <1>6
  <2>5. Covered(p, r.pc, r.op, r.blks, c, w, disk', next')
    BY <1>1, <1>6, <1>7, <1>11, <2>4 DEF Covered
  <2> QED
    BY <1>4, <1>9, <1>10, <1>11, <2>3, <2>5, CapMoved
<1> QED
    BY <1>12, <1>13

\* The capacity when a range is applied: it already counts the range.
LEMMA CapApply ==
    ASSUME CapInv, IInv', NEW p \in Procs, Apply(p), mapped' \subseteq Blocks
    PROVE  CapInv'
<1>1. Blk(p) \in Nat
    BY BlkBlock DEF Apply, CapInv
<1>2. /\ cap' = Larger(cap, Blk(p) + 1) /\ Finish(p) /\ UNCHANGED files
      /\ UNCHANGED <<disk, next, extending, target, preallocating>>
    BY DEF Apply, files
<1>3. cap > Blk(p)
    BY Zenon DEF CapInv, IInv, Stage, Achieved, Apply, Blk
<1>4. cap' = cap
    BY <1>1, <1>2, <1>3 DEF Larger, CapInv, Entry
<1>5. Entry'
    BY <1>2, <1>4 DEF CapInv, Entry
<1>6. Grows
    BY <1>2, <1>4 DEF CapInv, IInv, Sizes, Grows, Finish
<1>7. Files'
    BY <1>2, FilesSame DEF CapInv
<1> QED
    BY <1>2, <1>5, <1>6, <1>7, FinishCovered

-----------------------------------------------------------------------------
\* Empty files satisfy the invariant.
LEMMA InitCap == Init => CapInv
<1> SUFFICES ASSUME Init PROVE CapInv
    OBVIOUS
<1>1. IInv
    BY InitIInv
<1>2. Files
  <2>1. 0 \in Segs
    <3>1. 0 \in Blocks /\ Seg(0) \in Nat /\ Seg(0) * SegBlocks <= 0
      BY SegFloor DEF Blocks
    <3>2. Seg(0) = 0
      BY DEF Seg
    <3> QED
      BY <3>1, <3>2 DEF Segs
  <2>2. segs = {0} /\ 0 * SegBlocks = 0 /\ 0 <= 0
    BY DEF Init
  <2>3. Backed(disk, 0)
    BY DEF Backed
  <2>4. \E m \in segs : \A s \in segs : s <= m
    BY <2>2
  <2>5. \A s \in segs : Backed(disk, s * SegBlocks)
    BY <2>2, <2>3
  <2> QED
    BY <2>1, <2>2, <2>4, <2>5 DEF Init, Files
<1>3. Entry
  <2>1. extending \in BOOLEAN /\ preallocating \in BOOLEAN
    BY Zenon DEF Init
  <2>2. cap = 0 /\ next = 0 /\ target = 0 /\ mapped = {}
    BY DEF Init
  <2> QED
    BY <2>1, <2>2 DEF Entry, Backed
<1>4. ASSUME NEW p \in Procs PROVE Coverage(p)
  <2>1. proc[p] = Idle /\ next \in Nat
    BY DEF Init
  <2>2. Covered(p, "idle", "none", <<>>, 0, 0, disk, next)
    BY DEF Covered
  <2> QED
    BY <2>1, <2>2 DEF Coverage, Idle
<1> QED
    BY <1>1, <1>2, <1>3, <1>4 DEF CapInv

\* Every step keeps the capacity within the files.
LEMMA NextCap ==
    ASSUME CapInv, [Next]_vars
    PROVE  CapInv'
<1>1. IInv' /\ mapped' \subseteq Blocks
    BY NextIInv DEF CapInv, Entry
<1>2. CASE UNCHANGED vars
  <2>1. UNCHANGED files /\ UNCHANGED <<disk, cap, next, extending, target, preallocating, mapped>>
        /\ proc' = proc
    BY <1>2 DEF vars, files
  <2>2. Files'
    BY <2>1, FilesSame DEF CapInv
  <2>3. Entry'
    BY <2>1 DEF CapInv, Entry
  <2>4. \A q \in Procs : Coverage(q)'
    BY <2>1 DEF CapInv, Coverage
  <2> QED
    BY <1>1, <2>2, <2>3, <2>4 DEF CapInv
<1>3. ASSUME NEW p \in Procs, Start(p) PROVE CapInv'
  <2>1. ASSUME NEW op \in {"remap", "range"}, Begin(p, op) PROVE CapInv'
    BY <1>1, <2>1, CapBegin
  <2>2. ASSUME NEW b \in mapped, NEW pc \in {"write", "saved"}, BeginWrite(p, b, pc) PROVE CapInv'
    BY <1>1, <2>2, CapBeginWrite DEF CapInv, Entry
  <2> QED
    BY <1>3, <2>1, <2>2 DEF Start
<1>4. ASSUME NEW p \in Procs, Step(p) PROVE CapInv'
  <2>1. CASE Reserve(p) \/ ReserveFails(p) \/ PreallocSkip(p) \/ PreallocStart(p)
                \/ PreallocSegment(p) \/ PreallocFails(p) \/ PreallocPublish(p)
    BY <1>1, <2>1, CapReserve, CapReserveFails, CapPreallocSkip, CapPreallocStart,
       CapPreallocSegment, CapPreallocFails, CapPreallocPublish, Zenon
  <2>2. CASE Publish(p) \/ WriteBeyond(p) \/ Bump(p) \/ WriteBelow(p)
                \/ CheckpointZero(p) \/ CheckpointWrite(p)
    BY <1>1, <2>2, CapPublish, CapWriteBeyond, CapBump, CapWriteBelow, CapCheckpointZero,
       CapCheckpointWrite, Zenon
  <2>3. CASE ZeroBlock(p) \/ EnsureReady(p) \/ EnsureWait(p) \/ EnsureStart(p) \/ Probe(p)
                \/ Fill(p) \/ FillFails(p) \/ EnsurePublish(p) \/ Apply(p)
    BY <1>1, <2>3, CapZeroBlock, CapEnsureReady, CapEnsureWait, CapEnsureStart, CapProbe,
       CapFill, CapFillFails, CapEnsurePublish, CapApply, Zenon
  <2> QED
    BY <1>4, <2>1, <2>2, <2>3 DEF Step
<1> QED
    BY <1>2, <1>3, <1>4 DEF Next

-----------------------------------------------------------------------------
\* Files, frontiers and counters keep their types: no reservation, no wanted
\* size and no position of an extender or preallocator goes past MaxBlock.
THEOREM TypeCorrect == Spec => []TypeOK
<1>1. CapInv => TypeOK
  <2> SUFFICES ASSUME CapInv PROVE TypeOK
    OBVIOUS
  <2>1. ASSUME NEW p \in Procs
        PROVE  /\ proc[p].pc \in {"idle", "reserve", "prealloc", "fallocate", "publish", "write",
                             "bump", "saved", "zeroed", "zero", "ensure", "probe", "fill", "apply"}
               /\ proc[p].blks \in Seq(Blocks) /\ Len(proc[p].blks) <= RangeLen
               /\ {proc[p].cur, proc[p].want} \subseteq 0 .. MaxBlock
    <3> DEFINE r == proc[p]
    <3>1. /\ Covered(p, r.pc, r.op, r.blks, r.cur, r.want, disk, next)
          /\ Achieved(p, r.pc, r.op, r.blks, r.cur, r.want, disk, cap)
      BY CoverageOf, Zenon
    <3> HIDE DEF r
    <3>2. /\ r.pc \in {"idle", "reserve", "prealloc", "fallocate", "publish", "write",
                       "bump", "saved", "zeroed", "zero", "ensure", "probe", "fill", "apply"}
          /\ r.blks \in Seq(Blocks) /\ Len(r.blks) <= RangeLen
          /\ {r.cur, r.want} \subseteq 0 .. MaxBlock
      BY <3>1 DEF Covered, Achieved
    <3> QED
      BY <3>2 DEF r
  <2>2. /\ disk \in [Blocks -> {"absent", "zero", "page"}]
        /\ segs \subseteq Segs /\ mapped \subseteq Blocks /\ written \subseteq Blocks
        /\ cap \in 0 .. MaxBlock /\ next \in 0 .. MaxBlock /\ target \in 0 .. MaxBlock
        /\ extending \in BOOLEAN /\ preallocating \in BOOLEAN
        /\ open \in [Backends -> SUBSET Segs]
    BY DEF CapInv, Files, Entry
  <2> QED
    BY <2>1, <2>2 DEF TypeOK
<1> QED
    BY <1>1, InitCap, NextCap, PTL DEF Spec

\* The capacity published in the superblock entry never runs ahead of the
\* segment files, whichever of writer, extender and preallocator raised it.
THEOREM CapacitySafe == Spec => []CapacityWithinFiles
<1>1. CapInv => CapacityWithinFiles
    BY DEF CapInv, Entry, Backed, CapacityWithinFiles
<1> QED
    BY <1>1, InitCap, NextCap, PTL DEF Spec
=============================================================================
