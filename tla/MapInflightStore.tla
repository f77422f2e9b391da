-------------------------- MODULE MapInflightStore --------------------------
(***************************************************************************)
(* MapInflight implements PageStore: a page is stored in the block its MAP *)
(* entry names.                                                            *)
(***************************************************************************)
EXTENDS MapInflight

Nowhere == -2   \* a page without a block

\* What a read through the MAP finds (um_resolve_lblk_for_read).
Stored == [l \in Lblk |-> IF mapping[l] = Invalid THEN Nowhere ELSE disk[mapping[l]]]

Store == INSTANCE PageStore WITH
    Pages <- Lblk, Versions <- 0 .. MaxVersion, Blank <- 0,
    Contents <- 0 .. MaxVersion \cup {Garbage}, Unborn <- Nowhere, stored <- Stored

\* Claims, barriers, remaps, births and the compactor's copies are invisible
\* through the MAP: every step is a change of one page, its remap while it is
\* dirty, its write-back, or changes nothing a reader can see.  Relocation in
\* particular is a stutter (umwritev, XLogCommitBlockRemapsUmbra,
\* MapCompactorRelocateEntry).
ImplementsPageStore == Store!Spec
=============================================================================
