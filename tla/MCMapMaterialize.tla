-------------------------- MODULE MCMapMaterialize --------------------------
(* MapMaterialize with interchangeable backends.                           *)
EXTENDS MapMaterialize, TLC

Symmetry == Permutations(Backends)

\* No guard looks at what an existing block holds.
Existence == <<{b \in Blocks : disk[b] # "absent"}, segs, entry, open, proc>>
=============================================================================
