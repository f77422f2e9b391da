-------------------------- MODULE MapLayoutProofs --------------------------
(***************************************************************************)
(* Theorems about the layout of the MAP fork, for every page size and      *)
(* group size: the code keeps no table of what is where, so the two        *)
(* directions of the arithmetic have to agree.                             *)
(***************************************************************************)
EXTENDS MapLayout, TLAPS

(* Division undoes multiplication: the quotient and remainder are unique.  *)
LEMMA DivModUnique ==
  ASSUME NEW d \in Nat \ {0}, NEW q \in Nat, NEW r \in 0 .. d - 1
  PROVE  (q * d + r) \div d = q /\ (q * d + r) % d = r
  OBVIOUS

(* Every number is its quotient times the divisor plus its remainder.      *)
LEMMA DivModSplit ==
  ASSUME NEW d \in Nat \ {0}, NEW x \in Nat
  PROVE  /\ x = (x \div d) * d + (x % d)
         /\ x % d \in 0 .. d - 1
         /\ x \div d \in Nat
  OBVIOUS

(* Two numbers compare as their quotients, then as their remainders.       *)
LEMMA LexOrder ==
  ASSUME NEW d \in Nat \ {0}, NEW q \in Nat, NEW p \in Nat,
         NEW r \in 0 .. d - 1, NEW s \in 0 .. d - 1
  PROVE  q * d + r >= p * d + s <=> q > p \/ (q = p /\ r >= s)
<1>1. CASE q > p
  <2>1. (q - p) * d >= d
    BY <1>1
  <2>2. q * d - p * d = (q - p) * d
    OBVIOUS
  <2> QED BY <1>1, <2>1, <2>2
<1>2. CASE q = p
  BY <1>2
<1>3. CASE q < p
  <2>1. (p - q) * d >= d
    BY <1>3
  <2>2. p * d - q * d = (p - q) * d
    OBVIOUS
  <2> QED BY <1>3, <2>1, <2>2
<1> QED BY <1>1, <1>2, <1>3

(* The group size used by the code's divisions is positive.                *)
LEMMA GroupPositive == GroupTotalPages \in Nat \ {0} /\ GroupTotalPages >= 3
  BY LayoutAssumption DEF GroupTotalPages

(* A MAP block is decoded from its group and its place in the group.       *)
LEMMA DecodeInGroup ==
  ASSUME NEW g \in Nat, NEW k \in 0 .. GroupTotalPages - 1,
         NEW b \in Nat, b = FirstGroup + (g * GroupTotalPages + k)
  PROVE  /\ k = 0 => MapDecodeMapBlkno(b) = [fork |-> "fsm", page |-> g]
         /\ k = 1 => MapDecodeMapBlkno(b) = [fork |-> "vm", page |-> g]
         /\ k >= 2 => MapDecodeMapBlkno(b)
                        = [fork |-> "main", page |-> g * GroupMainPages + (k - 2)]
<1>1. b - FirstGroup = g * GroupTotalPages + k /\ b >= FirstGroup
  BY GroupPositive DEF FirstGroup
<1>2. /\ (b - FirstGroup) \div GroupTotalPages = g
      /\ (b - FirstGroup) % GroupTotalPages = k
  BY <1>1, GroupPositive, DivModUnique
<1>3. ~ (b < FirstGroup)
  BY <1>1 DEF FirstGroup
<1>4. CASE k = 0
  BY <1>1, <1>2, <1>3, <1>4 DEF MapDecodeMapBlkno
<1>5. CASE k = 1
  BY <1>1, <1>2, <1>3, <1>5 DEF MapDecodeMapBlkno
<1>6. CASE k >= 2
  BY <1>1, <1>2, <1>3, <1>6 DEF MapDecodeMapBlkno
<1> QED BY <1>4, <1>5, <1>6

(***************************************************************************)
(* MapDecodeMapBlkno undoes MapForkPageIndexToMapBlkno: whatever fork and  *)
(* page the code computes a MAP block for, the range test of               *)
(* MapReadBuffer, which only has the block, finds the same fork and page.  *)
(***************************************************************************)
THEOREM DecodeInvertsLayout ==
  ASSUME NEW f \in Forks, NEW i \in Nat
  PROVE  MapDecodeMapBlkno(MapForkPageIndexToMapBlkno(f, i))
           = [fork |-> f, page |-> i]
<1>1. CASE f = "fsm"
  <2>1. MapForkPageIndexToMapBlkno(f, i) = FirstGroup + (i * GroupTotalPages + 0)
    BY <1>1, GroupPositive DEF MapForkPageIndexToMapBlkno, FirstGroup
  <2>2. FirstGroup + (i * GroupTotalPages + 0) \in Nat /\ 0 \in 0 .. GroupTotalPages - 1
    BY GroupPositive DEF FirstGroup
  <2> QED BY <2>1, <2>2, <1>1, DecodeInGroup
<1>2. CASE f = "vm"
  <2>1. MapForkPageIndexToMapBlkno(f, i) = FirstGroup + (i * GroupTotalPages + 1)
    BY <1>2, GroupPositive DEF MapForkPageIndexToMapBlkno, FirstGroup
  <2>2. FirstGroup + (i * GroupTotalPages + 1) \in Nat /\ 1 \in 0 .. GroupTotalPages - 1
    BY GroupPositive DEF FirstGroup
  <2> QED BY <2>1, <2>2, <1>2, DecodeInGroup
<1>3. CASE f = "main"
  <2>1. PICK q \in Nat, r \in 0 .. GroupMainPages - 1 :
          /\ q = i \div GroupMainPages
          /\ r = i % GroupMainPages
          /\ i = q * GroupMainPages + r
    BY LayoutAssumption, DivModSplit
  <2>2. MapForkPageIndexToMapBlkno(f, i)
          = FirstGroup + (q * GroupTotalPages + (r + 2))
    BY <1>3, <2>1, GroupPositive, LayoutAssumption
       DEF MapForkPageIndexToMapBlkno, FirstGroup
  <2>3. /\ FirstGroup + (q * GroupTotalPages + (r + 2)) \in Nat
        /\ r + 2 \in 0 .. GroupTotalPages - 1
        /\ r + 2 >= 2
        /\ q * GroupMainPages + (r + 2 - 2) = i
    BY <2>1, GroupPositive, LayoutAssumption DEF FirstGroup, GroupTotalPages
  <2> QED BY <2>2, <2>3, <1>3, DecodeInGroup
<1> QED BY <1>1, <1>2, <1>3 DEF Forks

(***************************************************************************)
(* No two pages of any forks share a block of the MAP fork, and none is    *)
(* the superblock: MapSetMapping for one page never overwrites the         *)
(* mappings of another.                                                    *)
(***************************************************************************)
THEOREM LayoutInjective ==
  ASSUME NEW f \in Forks, NEW g \in Forks, NEW i \in Nat, NEW j \in Nat,
         MapForkPageIndexToMapBlkno(f, i) = MapForkPageIndexToMapBlkno(g, j)
  PROVE  f = g /\ i = j
<1>1. [fork |-> f, page |-> i] = [fork |-> g, page |-> j]
  BY DecodeInvertsLayout
<1> QED BY <1>1

(***************************************************************************)
(* A MAP block lies within the logical range of its own fork exactly when  *)
(* its page maps some block below the fork's size: the range test of       *)
(* MapReadBuffer never takes a page with a live mapping for a hole.        *)
(***************************************************************************)
THEOREM RangeTestExact ==
  ASSUME NEW f \in Forks, NEW i \in Nat, NEW n \in Nat
  PROVE  MapMapPageWithinLogicalRange(f, MapForkPageIndexToMapBlkno(f, i), n)
           <=> \E l \in 0 .. n - 1 : l \div EntriesPerPage = i
<1>1. MapMapPageWithinLogicalRange(f, MapForkPageIndexToMapBlkno(f, i), n)
        <=> i * EntriesPerPage < n
  <2>1. MapDecodeMapBlkno(MapForkPageIndexToMapBlkno(f, i)) = [fork |-> f, page |-> i]
    BY DecodeInvertsLayout
  <2> QED BY <2>1 DEF MapMapPageWithinLogicalRange
<1>2. ASSUME i * EntriesPerPage < n
      PROVE  \E l \in 0 .. n - 1 : l \div EntriesPerPage = i
  <2>1. 0 \in 0 .. EntriesPerPage - 1 /\ EntriesPerPage \in Nat \ {0}
    BY LayoutAssumption
  <2>2. (i * EntriesPerPage + 0) \div EntriesPerPage = i
    BY <2>1, DivModUnique
  <2>3. i * EntriesPerPage + 0 \in 0 .. n - 1
    BY <1>2, <2>1
  <2> QED BY <2>2, <2>3
<1>3. ASSUME NEW l \in 0 .. n - 1, l \div EntriesPerPage = i
      PROVE  i * EntriesPerPage < n
  <2>1. PICK r \in 0 .. EntriesPerPage - 1 : l = i * EntriesPerPage + r
    <3>1. l \in Nat /\ EntriesPerPage \in Nat \ {0}
      BY LayoutAssumption
    <3> QED BY <3>1, <1>3, DivModSplit
  <2> QED BY <2>1, LayoutAssumption
<1> QED BY <1>1, <1>2, <1>3

(***************************************************************************)
(* MapTruncateEntryRange visits exactly the entries of the blocks that a   *)
(* truncation from old to n removes, neither one more nor one less, for    *)
(* every position of the two bounds in their pages.                        *)
(***************************************************************************)
THEOREM TruncationExact ==
  ASSUME NEW n \in Nat, NEW old \in Nat, NEW l \in Nat
  PROVE  l \in n .. old - 1
           <=> /\ l \div EntriesPerPage \in TruncatedPages(n, old)
               /\ l % EntriesPerPage
                     \in TruncatedEntries(n, old, l \div EntriesPerPage)
<1>1. EntriesPerPage \in Nat \ {0}
  BY LayoutAssumption
<1>2. PICK q \in Nat, r \in 0 .. EntriesPerPage - 1 :
        q = l \div EntriesPerPage /\ r = l % EntriesPerPage
        /\ l = q * EntriesPerPage + r
  BY <1>1, DivModSplit
<1>3. PICK q1 \in Nat, r1 \in 0 .. EntriesPerPage - 1 :
        q1 = n \div EntriesPerPage /\ r1 = n % EntriesPerPage
        /\ n = q1 * EntriesPerPage + r1
  BY <1>1, DivModSplit
<1>4. CASE old <= n
  <2>1. l \notin n .. old - 1
    BY <1>4
  <2> QED BY <2>1, <1>4 DEF TruncatedPages
<1>5. CASE old > n
  <2>1. old - 1 \in Nat
    BY <1>5
  <2>2. PICK q2 \in Nat, r2 \in 0 .. EntriesPerPage - 1 :
          q2 = (old - 1) \div EntriesPerPage /\ r2 = (old - 1) % EntriesPerPage
          /\ old - 1 = q2 * EntriesPerPage + r2
    BY <1>1, <2>1, DivModSplit
  <2>3. l >= n <=> q > q1 \/ (q = q1 /\ r >= r1)
    BY <1>1, <1>2, <1>3, LexOrder
  <2>4. old - 1 >= l <=> q2 > q \/ (q2 = q /\ r2 >= r)
    BY <1>1, <1>2, <2>2, LexOrder
  <2>5. l \in n .. old - 1 <=> l >= n /\ old - 1 >= l
    BY <1>5
  <2>6. l \div EntriesPerPage \in TruncatedPages(n, old) <=> q1 <= q /\ q <= q2
    BY SMTT(40), <1>2, <1>3, <1>5, <2>2 DEF TruncatedPages
  <2>7. l % EntriesPerPage \in TruncatedEntries(n, old, l \div EntriesPerPage)
          <=> (q = q1 => r >= r1) /\ (q = q2 => r <= r2)
    BY <1>1, <1>2, <1>3, <2>2 DEF TruncatedEntries
  <2> QED BY <2>3, <2>4, <2>5, <2>6, <2>7
<1> QED BY <1>4, <1>5
=============================================================================
