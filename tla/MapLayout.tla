----------------------------- MODULE MapLayout -----------------------------
(***************************************************************************)
(* Where the mapping of a logical block is kept in the MAP fork of a       *)
(* relation (storage/map/map.c, include/storage/map.h).                    *)
(*                                                                         *)
(* Block 0 of the MAP fork is the superblock.  From block 1 on it consists *)
(* of groups: one page of the FSM fork, one of the VM fork, then           *)
(* GroupMainPages pages of the main fork (8192 in the code).  A page holds *)
(* EntriesPerPage physical block numbers (2048 in the code), so that page  *)
(* i of a fork maps its logical blocks from i * EntriesPerPage on.         *)
(***************************************************************************)
EXTENDS Integers

CONSTANTS
  EntriesPerPage,   \* MAP_ENTRIES_PER_PAGE
  GroupMainPages,   \* MAP_GROUP_MAIN_PAGES
  MaxBlockNumber

ASSUME LayoutAssumption ==
  /\ EntriesPerPage \in Nat \ {0}
  /\ GroupMainPages \in Nat \ {0}
  /\ MaxBlockNumber \in Nat

Forks == {"fsm", "vm", "main"}

FirstGroup == 1                            \* MAP_BLOCK_FIRST_GROUP
GroupTotalPages == GroupMainPages + 2      \* MAP_GROUP_TOTAL_PAGES

(***************************************************************************)
(* The block of the MAP fork that holds page i of fork f.                  *)
(***************************************************************************)
MapForkPageIndexToMapBlkno(f, i) ==
  CASE f = "fsm"  -> FirstGroup + i * GroupTotalPages
    [] f = "vm"   -> FirstGroup + i * GroupTotalPages + 1
    [] f = "main" -> FirstGroup + (i \div GroupMainPages) * GroupTotalPages
                       + 2 + (i % GroupMainPages)

(***************************************************************************)
(* The inverse: which page of which fork a block of the MAP fork holds.    *)
(* The superblock holds none.                                              *)
(***************************************************************************)
MapDecodeMapBlkno(b) ==
  LET group == (b - FirstGroup) \div GroupTotalPages
      inGroup == (b - FirstGroup) % GroupTotalPages
  IN  CASE b < FirstGroup -> [fork |-> "none", page |-> 0]
        [] b >= FirstGroup /\ inGroup = 0 -> [fork |-> "fsm", page |-> group]
        [] b >= FirstGroup /\ inGroup = 1 -> [fork |-> "vm", page |-> group]
        [] b >= FirstGroup /\ inGroup >= 2 ->
             [fork |-> "main",
              page |-> group * GroupMainPages + (inGroup - 2)]

(***************************************************************************)
(* The place of the entry of logical block l, counted in entries from the  *)
(* start of the MAP fork.  Callers divide it by EntriesPerPage again.  The *)
(* code refuses a block whose MAP page or whose entry number exceeds the   *)
(* largest block number.                                                   *)
(***************************************************************************)
MapLblknoToMapBlkno(f, l) ==
  MapForkPageIndexToMapBlkno(f, l \div EntriesPerPage) * EntriesPerPage
    + (l % EntriesPerPage)

Addressable(f, l) ==
  /\ MapForkPageIndexToMapBlkno(f, l \div EntriesPerPage) <= MaxBlockNumber
  /\ MapLblknoToMapBlkno(f, l) <= MaxBlockNumber

(***************************************************************************)
(* The entries a truncation from old to n logical blocks has to clear: the *)
(* pages it visits, and the entries of page i among them.                  *)
(***************************************************************************)
TruncatedPages(n, old) ==
  IF old <= n THEN {} ELSE n \div EntriesPerPage .. (old - 1) \div EntriesPerPage

TruncatedEntries(n, old, i) ==
  LET first == IF i = n \div EntriesPerPage THEN n % EntriesPerPage ELSE 0
      last == IF i = (old - 1) \div EntriesPerPage
                THEN (old - 1) % EntriesPerPage
                ELSE EntriesPerPage - 1
  IN  first .. last

\* Mutant: only pages that lie wholly within the fork count.
WholePageWithinRange(f, b, n) ==
  /\ MapDecodeMapBlkno(b).fork = f
  /\ (MapDecodeMapBlkno(b).page + 1) * EntriesPerPage <= n

(***************************************************************************)
(* Whether a page of the MAP fork maps any logical block of fork f, whose  *)
(* size is n.  Pages beyond are taken for holes, whatever they hold.       *)
(***************************************************************************)
MapMapPageWithinLogicalRange(f, b, n) ==
  /\ MapDecodeMapBlkno(b).fork = f
  /\ MapDecodeMapBlkno(b).page * EntriesPerPage < n
=============================================================================
