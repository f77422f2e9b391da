--------------------------- MODULE MCMapInflight ---------------------------
(* MapInflight with interchangeable backends.                              *)
EXTENDS MapInflightStore, TLC

\* The page that is born changes MaxVersion times, the first page once less.
FewerChanges == page[0] < MaxVersion

Symmetry == Permutations(Backends)
=============================================================================
