----------------------------- MODULE PageStore ------------------------------
(***************************************************************************)
(* What the storage manager promises the buffer manager about the pages of *)
(* one fork: a page has one stored version, a write-back stores exactly    *)
(* the buffer's, and nothing but a write-back of the page itself changes   *)
(* the stored version of a clean page.  Physical blocks, claims and        *)
(* relocation do not appear.                                               *)
(***************************************************************************)
CONSTANTS
    Pages,      \* logical blocks
    Versions,   \* contents of a buffer
    Blank,      \* the version of a page nobody changed
    Contents,   \* contents of a stored page: a version, or what a fresh block holds
    Unborn      \* no storage yet

VARIABLES page, dirty, stored

vars == <<page, dirty, stored>>

Init ==
    /\ page = [l \in Pages |-> Blank]
    /\ dirty = [l \in Pages |-> FALSE]
    /\ stored \in [Pages -> {Blank, Unborn}]

\* MarkBufferDirty: the buffer of a page gets another version.
Modify(l) ==
    /\ \E v \in Versions : page' = [page EXCEPT ![l] = v]
    /\ dirty' = [dirty EXCEPT ![l] = TRUE]
    /\ UNCHANGED stored

\* MapSetMapping: a dirty page moves to a fresh block, or gets its first one;
\* what is stored is unspecified until the page is written.
Remap(l) ==
    /\ dirty[l]
    /\ \E v \in Contents : stored' = [stored EXCEPT ![l] = v]
    /\ UNCHANGED <<page, dirty>>

\* smgrwritev of the buffer.
Write(l) ==
    /\ stored[l] # Unborn
    /\ stored' = [stored EXCEPT ![l] = page[l]]
    /\ dirty' = [dirty EXCEPT ![l] = FALSE]
    /\ UNCHANGED page

Next == \E l \in Pages : Modify(l) \/ Remap(l) \/ Write(l)

Spec == Init /\ [][Next]_vars
=============================================================================
