------------------------------ MODULE MCMapBuffer ------------------------------
(***************************************************************************)
(* MapBuffer for TLC: readers and pages are interchangeable.               *)
(***************************************************************************)
EXTENDS MapBuffer, TLC

Symmetry == Permutations(Readers) \cup Permutations(Pages)

\* A run goes no further than the first usage count below zero.
UntilWrap == ~wrapped

\* The view. A step and an invariant tell versions apart by their distance to
\* the last one only, and the disk is behind the start of the checkpoint or not
\* (while no usage count has wrapped it never goes back to an older version).
Ages ==
    <<state, tag, cache, free, hand, ioLock, proc, ckpt, wrapped, events,
      [s \in Slots |-> IF tag[s] = None THEN 0 ELSE latest[tag[s]] - content[s]],
      [t \in Pages |-> <<latest[t] - disk[t],
                         IF disk[t] < atStart[t] THEN atStart[t] - disk[t] ELSE 0>>]>>
=============================================================================
