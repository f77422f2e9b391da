------------------------------ MODULE MapInflight ------------------------------
(***************************************************************************)
(* In-flight claims on MAP entries: foreground remap and birth of pages,   *)
(* buffer writes behind a write barrier, the compactor's raw relocation    *)
(* and the reclaim boundary, all over one fork of one relation.            *)
(*                                                                         *)
(* A set pending bit serialises the three parties on one MAP entry; the    *)
(* physical block chosen by the owner stays local to the owner.  A write   *)
(* barrier is the bit without a local entry, here a claim without a block. *)
(* Every MAP entry is taken to be on a MAP page of its own, the finest     *)
(* interleaving of a scan with its writers.                                *)
(***************************************************************************)
EXTENDS Integers, FiniteSets

CONSTANTS
    Backends,   \* processes that insert WAL for pages and write buffers
    Compactor,  \* the mapcompactor worker
    NBlocks,    \* logical blocks
    NBorn,      \* logical blocks mapped at the start: 0 .. NBorn - 1
    MaxPblk,    \* the allocator's limit
    SegBlocks,  \* RELSEG_SIZE
    MaxVersion  \* bound on the changes of one page

ASSUME InflightAssumption ==
    /\ Compactor \notin Backends
    /\ NBlocks \in Nat \ {0} /\ NBorn \in 0 .. NBlocks
    /\ MaxPblk \in Nat /\ NBorn <= MaxPblk
    /\ SegBlocks \in Nat \ {0} /\ MaxVersion \in Nat

Invalid == -1   \* InvalidBlockNumber
NoClaim == -2   \* no MapInflightLocalEntry
Garbage == -1   \* content of a block nobody wrote
NoSeg == -1     \* no reference check under way

Lblk == 0 .. (NBlocks - 1)
Pblk == 0 .. MaxPblk
Segs == 0 .. MaxPblk
InSeg(b, s) == s * SegBlocks <= b /\ b < (s + 1) * SegBlocks
MaybePblk == Pblk \cup {Invalid}
Proc == Backends \cup {Compactor}

VARIABLES
    mapping,    \* committed MAP entries
    pending,    \* MAP entries whose pending bit is set
    own,        \* backend-local claims: own[p][l] is NoClaim, Invalid or a block
    super,      \* next_free_phys_block, reserved_next_free, reclaim_boundary
    proc,       \* what each process is doing
    page, dirty, \* shared buffer of each page: version, BM_DIRTY
    disk,       \* physical blocks
    scan,       \* the compactor's analysis of the fork
    dead        \* segments registered for unlink

vars == <<mapping, pending, own, super, proc, page, dirty, disk, scan, dead>>
pool == <<page, dirty, disk>>
sweep == <<scan, dead>>

Idle == [pc |-> "idle", lblk |-> 0, old |-> Invalid, new |-> Invalid, copy |-> Garbage]
NoScan == [on |-> FALSE, next |-> 0, boundary |-> 0, todo |-> {}, seen |-> {},
           moved |-> {}, seg |-> NoSeg, left |-> {}]

Init ==
    /\ mapping = [l \in Lblk |-> IF l < NBorn THEN l ELSE Invalid]
    /\ pending = {}
    /\ own = [p \in Proc |-> [l \in Lblk |-> NoClaim]]
    /\ super = [nextFree |-> NBorn, reserved |-> NBorn, boundary |-> NBorn]
    /\ proc = [p \in Proc |-> Idle]
    /\ page = [l \in Lblk |-> 0]
    /\ dirty = [l \in Lblk |-> FALSE]
    /\ disk = [b \in Pblk |-> IF b < NBorn THEN 0 ELSE Garbage]
    /\ scan = NoScan
    /\ dead = {}

-----------------------------------------------------------------------------
(* Claims.                                                                 *)

\* Mutant: an entry whose bit is already set is claimed again.
TryClaimAnyway(p, l) ==
    /\ pending' = pending \cup {l}
    /\ own' = [own EXCEPT ![p][l] = Invalid]

\* MapInflightTryClaim: set the bit, remember the claim without a block.
TryClaim(p, l) ==
    /\ l \notin pending
    /\ own[p][l] = NoClaim
    /\ pending' = pending \cup {l}
    /\ own' = [own EXCEPT ![p][l] = Invalid]

\* MapInflightRelease: a process that owns no claim releases nothing.
Release(p, l) ==
    IF own[p][l] = NoClaim THEN UNCHANGED <<pending, own>>
    ELSE /\ pending' = pending \ {l}
         /\ own' = [own EXCEPT ![p][l] = NoClaim]

\* Mutant: the frontier's limit is not checked.
ReserveUnlimited(p, l) ==
    /\ own' = [own EXCEPT ![p][l] = super.reserved]
    /\ super' = [super EXCEPT !.reserved = @ + 1]

\* Mutant: the reservation frontier stays.
ReserveKeepsFrontier(p, l) ==
    /\ super.reserved < MaxPblk
    /\ own' = [own EXCEPT ![p][l] = super.reserved]
    /\ UNCHANGED super

\* MapTryReserveFreshPblknoInternal under the superblock lock, then
\* MapInflightFinishClaim.
ReserveNext(p, l) ==
    /\ super.reserved < MaxPblk
    /\ own' = [own EXCEPT ![p][l] = super.reserved]
    /\ super' = [super EXCEPT !.reserved = @ + 1]

Goto(p, pc) == proc' = [proc EXCEPT ![p].pc = pc]
Finish(p) == proc' = [proc EXCEPT ![p] = Idle]

-----------------------------------------------------------------------------
(* Foreground: XLogInsert of a change to a page, or its birth.             *)

Inserting == {"looked", "contended", "waiting", "unreserved", "claimed",
              "reserved", "logged", "mapped"}
Writing == {"barring", "barred", "aimed"}

\* The content lock: an inserting backend has it exclusively, a writing one
\* shared, and BM_IO_IN_PROGRESS admits one writer.
Locked(l) == \E b \in Backends : proc[b].pc # "idle" /\ proc[b].lblk = l

\* Modify the locked page, then MapGetNewPbkno: MapTryLookup comes first.
Lookup(b, l) ==
    /\ proc[b].pc = "idle"
    /\ ~Locked(l)
    /\ page[l] < MaxVersion
    /\ proc' = [proc EXCEPT ![b] = [Idle EXCEPT !.pc = "looked", !.lblk = l,
                                                !.old = mapping[l]]]
    /\ page' = [page EXCEPT ![l] = @ + 1]
    /\ dirty' = [dirty EXCEPT ![l] = TRUE]
    /\ UNCHANGED <<mapping, pending, own, super, disk, sweep>>

\* MapInflightLookupOwnedPblk: a birth claimed by an earlier smgrextend.
ReuseOwned(b) ==
    LET l == proc[b].lblk IN
    /\ proc[b].pc = "looked"
    /\ own[b][l] \in Pblk
    /\ proc' = [proc EXCEPT ![b].pc = "reserved", ![b].new = own[b][l]]
    /\ UNCHANGED <<mapping, pending, own, super, pool, sweep>>

Claim(b) ==
    /\ proc[b].pc = "looked"
    /\ TryClaim(b, proc[b].lblk)
    /\ Goto(b, "claimed")
    /\ UNCHANGED <<mapping, super, pool, sweep>>

\* Somebody else owns the entry: MapWaitForForeignInflightToClear is next.
Contended(b) ==
    /\ proc[b].pc = "looked"
    /\ own[b][proc[b].lblk] = NoClaim
    /\ proc[b].lblk \in pending
    /\ Goto(b, "contended")
    /\ UNCHANGED <<mapping, pending, own, super, pool, sweep>>

\* First look at the bit: a bit that is clear by now counts as no wait, and
\* MapGetNewPbkno gives up; a set one is waited for.
FirstCheck(b) ==
    /\ proc[b].pc = "contended"
    /\ Goto(b, IF proc[b].lblk \in pending THEN "waiting" ELSE "unreserved")
    /\ UNCHANGED <<mapping, pending, own, super, pool, sweep>>

\* The bit cleared: look the entry up again.
Retry(b) ==
    /\ proc[b].pc = "waiting"
    /\ proc[b].lblk \notin pending
    /\ proc' = [proc EXCEPT ![b].pc = "looked", ![b].old = mapping[proc[b].lblk]]
    /\ UNCHANGED <<mapping, pending, own, super, pool, sweep>>

\* ERROR: MAP_PENDING_WAIT_RETRIES exhausted, or "failed to reserve".
GiveUp(b) ==
    /\ \/ proc[b].pc = "waiting" /\ proc[b].lblk \in pending
       \/ proc[b].pc = "unreserved"
    /\ Finish(b)
    /\ UNCHANGED <<mapping, pending, own, super, pool, sweep>>

Reserve(b) ==
    /\ proc[b].pc = "claimed"
    /\ ReserveNext(b, proc[b].lblk)
    /\ proc' = [proc EXCEPT ![b].pc = "reserved", ![b].new = super.reserved]
    /\ UNCHANGED <<mapping, pending, pool, sweep>>

\* The frontier is at its limit: PG_CATCH releases the claim.
ReserveLimit(b) ==
    /\ proc[b].pc = "claimed"
    /\ super.reserved = MaxPblk
    /\ Release(b, proc[b].lblk)
    /\ Finish(b)
    /\ UNCHANGED <<mapping, super, pool, sweep>>

\* um_publish_mapped_birth: smgrextend leaves the claim to the page's WAL.
KeepBirth(b) ==
    /\ proc[b].pc = "reserved"
    /\ proc[b].old = Invalid
    /\ Finish(b)
    /\ UNCHANGED <<mapping, pending, own, super, pool, sweep>>

\* XLogResetInsertion after an error: the block becomes a hole.
Abort(b) ==
    /\ proc[b].pc = "reserved"
    /\ Release(b, proc[b].lblk)
    /\ Finish(b)
    /\ UNCHANGED <<mapping, super, pool, sweep>>

Insert(b) ==
    /\ proc[b].pc = "reserved"
    /\ Goto(b, "logged")
    /\ UNCHANGED <<mapping, pending, own, super, pool, sweep>>

\* XLogCommitBlockRemapsUmbra: MapSetMapping,
SetMapping(b) ==
    /\ proc[b].pc = "logged"
    /\ mapping' = [mapping EXCEPT ![proc[b].lblk] = proc[b].new]
    /\ Goto(b, "mapped")
    /\ UNCHANGED <<pending, own, super, pool, sweep>>

\* then MapSBlockBumpNextFreePhysBlock and MapInflightRelease.
Bumped(new) == [super EXCEPT !.nextFree = IF @ < new + 1 THEN new + 1 ELSE @]

Publish(p) ==
    /\ proc[p].pc = "mapped"
    /\ super' = Bumped(proc[p].new)
    /\ Release(p, proc[p].lblk)
    /\ Finish(p)
    /\ UNCHANGED <<mapping, pool, sweep>>

\* MapBackendExitCleanup: MapInflightCleanupOwned.
Exit(b) ==
    /\ proc[b].pc = "idle"
    /\ \E l \in Lblk : own[b][l] # NoClaim
    /\ pending' = pending \ {l \in Lblk : own[b][l] # NoClaim}
    /\ own' = [own EXCEPT ![b] = [l \in Lblk |-> NoClaim]]
    /\ UNCHANGED <<mapping, super, proc, pool, sweep>>

-----------------------------------------------------------------------------
(* umwritev of a dirty buffer.                                             *)

StartWrite(b, l) ==
    /\ proc[b].pc = "idle"
    /\ ~Locked(l)
    /\ dirty[l] /\ mapping[l] # Invalid
    /\ proc' = [proc EXCEPT ![b] = [Idle EXCEPT !.pc = "barring", !.lblk = l]]
    /\ UNCHANGED <<mapping, pending, own, super, pool, sweep>>

\* Mutant: the write goes ahead without the barrier.
BarrierSkipped(b) ==
    /\ proc[b].pc = "barring"
    /\ Goto(b, "barred")
    /\ UNCHANGED <<mapping, pending, own, super, pool, sweep>>

\* um_claim_write_barrier polls until it gets the bit.
ClaimBarrier(b) ==
    /\ proc[b].pc = "barring"
    /\ TryClaim(b, proc[b].lblk)
    /\ Goto(b, "barred")
    /\ UNCHANGED <<mapping, super, pool, sweep>>

BarrierTimeout(b) ==
    /\ proc[b].pc = "barring"
    /\ proc[b].lblk \in pending
    /\ Finish(b)
    /\ UNCHANGED <<mapping, pending, own, super, pool, sweep>>

\* um_resolve_lblk_for_write behind the barrier,
Aim(b) ==
    /\ proc[b].pc = "barred"
    /\ proc' = [proc EXCEPT ![b].pc = "aimed", ![b].old = mapping[proc[b].lblk]]
    /\ UNCHANGED <<mapping, pending, own, super, pool, sweep>>

\* umfile_writev, MapInflightReleaseBarrier.
Write(b) ==
    LET l == proc[b].lblk IN
    /\ proc[b].pc = "aimed"
    /\ disk' = [disk EXCEPT ![proc[b].old] = page[l]]
    /\ dirty' = [dirty EXCEPT ![l] = FALSE]
    /\ Release(b, l)
    /\ Finish(b)
    /\ UNCHANGED <<mapping, super, page, sweep>>

-----------------------------------------------------------------------------
(* The compactor's pass over the fork.                                     *)

CompactorFree == proc[Compactor].pc = "idle" /\ scan.on
Scanned == CompactorFree /\ scan.todo = {} /\ scan.seg = NoSeg

\* MapCompactorAnalyzeFork reads the frontier and the boundary first.
ScanStart ==
    /\ proc[Compactor].pc = "idle" /\ ~scan.on
    /\ super.nextFree # 0
    /\ scan' = [NoScan EXCEPT !.on = TRUE, !.next = super.nextFree, !.todo = Lblk,
                   !.boundary = IF super.boundary > super.nextFree
                                THEN super.nextFree ELSE super.boundary]
    /\ UNCHANGED <<mapping, pending, own, super, proc, pool, dead>>

\* One MAP page under its shared lock, or skipped because it is locked.
ScanEntry(l) ==
    /\ CompactorFree
    /\ l \in scan.todo
    /\ \/ scan' = [scan EXCEPT !.todo = @ \ {l}, !.seen = @ \cup ({mapping[l]} \ {Invalid})]
       \/ scan' = [scan EXCEPT !.todo = @ \ {l}]
    /\ UNCHANGED <<mapping, pending, own, super, proc, pool, dead>>

\* A segment below the boundary that the scan found empty, or that a
\* relocation may have emptied: MapSegmentHasLiveReferences page by page,
CheckStart(s) ==
    /\ Scanned
    /\ \/ /\ (s + 1) * SegBlocks <= scan.boundary
          /\ ~\E b \in scan.seen : InSeg(b, s)
       \/ s \in scan.moved
    /\ s \notin dead
    /\ scan' = [scan EXCEPT !.seg = s, !.left = Lblk]
    /\ UNCHANGED <<mapping, pending, own, super, proc, pool, dead>>

CheckEntry(l) ==
    /\ CompactorFree /\ scan.seg # NoSeg
    /\ l \in scan.left
    /\ scan' = IF mapping[l] # Invalid /\ InSeg(mapping[l], scan.seg)
               THEN [scan EXCEPT !.seg = NoSeg, !.left = {}, !.moved = @ \ {scan.seg}]
               ELSE [scan EXCEPT !.left = @ \ {l}]
    /\ UNCHANGED <<mapping, pending, own, super, proc, pool, dead>>

\* then MapReclaimEnqueueSegment rereads the boundary.
Enqueue ==
    /\ CompactorFree /\ scan.seg # NoSeg /\ scan.left = {}
    /\ dead' = IF (scan.seg + 1) * SegBlocks <= super.boundary
               THEN dead \cup {scan.seg} ELSE dead
    /\ scan' = [scan EXCEPT !.seg = NoSeg, !.moved = @ \ {scan.seg}]
    /\ UNCHANGED <<mapping, pending, own, super, proc, pool>>

\* Mutant: the boundary jumps to the frontier over uncommitted blocks.
AdvancesToFrontier(from, to, seen, b) == b = to

\* MapCompactorAdvanceBoundaryFromSet: up to the first block not seen.
Advances(from, to, seen, b) ==
    /\ from .. (b - 1) \subseteq seen
    /\ b = to \/ b \notin seen

ScanEnd ==
    /\ Scanned
    /\ \E b \in scan.boundary .. scan.next :
          /\ Advances(scan.boundary, scan.next, scan.seen, b)
          /\ super' = [super EXCEPT !.boundary = IF b > @ THEN b ELSE @]
    /\ scan' = NoScan
    /\ UNCHANGED <<mapping, pending, own, proc, pool, dead>>

-----------------------------------------------------------------------------
(* MapCompactorRelocateEntry.                                              *)

\* The pass picks an entry below the boundary; how sparse its extent is is
\* left open.
Pick(l) ==
    /\ Scanned
    /\ mapping[l] # Invalid /\ mapping[l] < scan.boundary
    /\ proc' = [proc EXCEPT ![Compactor] = [Idle EXCEPT !.pc = "picked", !.lblk = l,
                                                        !.old = mapping[l]]]
    /\ UNCHANGED <<mapping, pending, own, super, pool, sweep>>

\* MapTryReserveFreshPblkno with nowait: the claim fails, or is taken.
PickClaim ==
    LET c == proc[Compactor] IN
    /\ c.pc = "picked"
    /\ \/ TryClaim(Compactor, c.lblk) /\ Goto(Compactor, "held")
       \/ c.lblk \in pending /\ Finish(Compactor) /\ UNCHANGED <<pending, own>>
    /\ UNCHANGED <<mapping, super, pool, sweep>>

PickReserve ==
    /\ proc[Compactor].pc = "held"
    /\ ReserveNext(Compactor, proc[Compactor].lblk)
    /\ proc' = [proc EXCEPT ![Compactor].pc = "picked2", ![Compactor].new = super.reserved]
    /\ UNCHANGED <<mapping, pending, pool, sweep>>

\* A busy superblock or the frontier's limit, a busy MAP page, an entry that
\* changed: give the claim back.
PickGiveUp ==
    LET c == proc[Compactor] IN
    /\ c.pc \in {"held", "copied"}
    /\ Release(Compactor, c.lblk)
    /\ Finish(Compactor)
    /\ UNCHANGED <<mapping, super, pool, sweep>>

\* umfile_ctx_read of the old block,
CopyRead ==
    /\ proc[Compactor].pc = "picked2"
    /\ proc' = [proc EXCEPT ![Compactor].pc = "read",
                            ![Compactor].copy = disk[proc[Compactor].old]]
    /\ UNCHANGED <<mapping, pending, own, super, pool, sweep>>

\* umfile_ctx_extend of the new one.
CopyWrite ==
    LET c == proc[Compactor] IN
    /\ c.pc = "read"
    /\ disk' = [disk EXCEPT ![c.new] = c.copy]
    /\ Goto(Compactor, "copied")
    /\ UNCHANGED <<mapping, pending, own, super, page, dirty, sweep>>

\* Mutant: the entry is published before the copy is written.
RelocateBeforeCopy ==
    LET c == proc[Compactor] IN
    /\ c.pc = "read"
    /\ mapping[c.lblk] = c.old
    /\ mapping' = [mapping EXCEPT ![c.lblk] = c.new]
    /\ scan' = [scan EXCEPT !.moved = @ \cup {s \in Segs : InSeg(c.old, s)}]
    /\ Goto(Compactor, "mapped")
    /\ UNCHANGED <<pending, own, super, pool, dead>>

\* Mutant: the entry is not rechecked under the MAP page's lock.
RelocateUnchecked ==
    LET c == proc[Compactor] IN
    /\ c.pc = "copied"
    /\ mapping' = [mapping EXCEPT ![c.lblk] = c.new]
    /\ scan' = [scan EXCEPT !.moved = @ \cup {s \in Segs : InSeg(c.old, s)}]
    /\ Goto(Compactor, "mapped")
    /\ UNCHANGED <<pending, own, super, pool, dead>>

\* Under the MAP page's lock: recheck the entry, log MAP_SET, publish.
Relocate ==
    LET c == proc[Compactor] IN
    /\ c.pc = "copied"
    /\ mapping[c.lblk] = c.old
    /\ mapping' = [mapping EXCEPT ![c.lblk] = c.new]
    /\ scan' = [scan EXCEPT !.moved = @ \cup {s \in Segs : InSeg(c.old, s)}]
    /\ Goto(Compactor, "mapped")
    /\ UNCHANGED <<pending, own, super, pool, dead>>

-----------------------------------------------------------------------------
Foreground(b) ==
    \/ \E l \in Lblk : Lookup(b, l)
    \/ ReuseOwned(b) \/ Claim(b) \/ Contended(b) \/ FirstCheck(b) \/ Retry(b)
    \/ GiveUp(b) \/ Reserve(b) \/ ReserveLimit(b) \/ KeepBirth(b) \/ Abort(b)
    \/ Insert(b) \/ SetMapping(b) \/ Publish(b) \/ Exit(b)

Writer(b) ==
    \/ \E l \in Lblk : StartWrite(b, l)
    \/ ClaimBarrier(b) \/ BarrierTimeout(b) \/ Aim(b) \/ Write(b)

Scan ==
    \/ ScanStart \/ Enqueue \/ ScanEnd
    \/ \E l \in Lblk : ScanEntry(l) \/ CheckEntry(l)
    \/ \E s \in Segs : CheckStart(s)

Relocation ==
    \/ \E l \in Lblk : Pick(l)
    \/ PickClaim \/ PickReserve \/ PickGiveUp \/ CopyRead \/ CopyWrite
    \/ Relocate \/ Publish(Compactor)

Next == (\E b \in Backends : Foreground(b) \/ Writer(b)) \/ Scan \/ Relocation

Spec == Init /\ [][Next]_vars

-----------------------------------------------------------------------------
(* Properties.                                                             *)

ProcState == [pc : Inserting \cup Writing \cup
                   {"idle", "picked", "held", "picked2", "read", "copied"},
              lblk : Lblk, old : MaybePblk, new : MaybePblk,
              copy : 0 .. MaxVersion \cup {Garbage}]
SuperState == [nextFree : Pblk, reserved : Pblk, boundary : Pblk]
ScanState == [on : BOOLEAN, next : Pblk, boundary : Pblk, todo : SUBSET Lblk,
              seen : SUBSET Pblk, moved : SUBSET Segs, seg : Segs \cup {NoSeg},
              left : SUBSET Lblk]

\* Type invariant of the MAP entries, claims, superblock and processes.
TypeOK ==
    /\ mapping \in [Lblk -> MaybePblk]
    /\ pending \in SUBSET Lblk
    /\ own \in [Proc -> [Lblk -> MaybePblk \cup {NoClaim}]]
    /\ super \in SuperState
    /\ proc \in [Proc -> ProcState]
    /\ page \in [Lblk -> 0 .. MaxVersion]
    /\ dirty \in [Lblk -> BOOLEAN]
    /\ disk \in [Pblk -> 0 .. MaxVersion \cup {Garbage}]
    /\ scan \in ScanState
    /\ dead \in SUBSET Segs

\* A pending bit has exactly one owner among foreground, writers and the
\* compactor (MapInflightBufferTryClaim / MapInflightRelease), in spite of
\* claims kept across smgrextend, aborts and process exit.
OneOwnerPerEntry ==
    \A l \in Lblk :
        /\ l \in pending <=> \E p \in Proc : own[p][l] # NoClaim
        /\ \A p, q \in Proc : own[p][l] # NoClaim /\ own[q][l] # NoClaim => p = q

\* The allocator never hands out a block twice: a block in flight is in no
\* other claim, in no MAP entry but its own, and below the reservation
\* frontier (MapTryReserveFreshPblknoInternal).
FreshBlocksAreFresh ==
    /\ \A p, q \in Proc, l, m \in Lblk :
          own[p][l] \in Pblk /\ own[p][l] = own[q][m] => p = q /\ l = m
    /\ \A p \in Proc, l, m \in Lblk :
          own[p][l] \in Pblk /\ mapping[m] = own[p][l] => m = l
    /\ \A p \in Proc, l \in Lblk : own[p][l] < super.reserved

\* No two logical blocks share a physical block, whichever of XLogInsert,
\* smgrextend and the compactor published them.
MappingInjective ==
    \A l, m \in Lblk : mapping[l] # Invalid /\ mapping[l] = mapping[m] => l = m

\* A buffer that is not dirty is on disk where the MAP says it is: neither a
\* write aimed at the old block nor a raw copy of an old image loses it
\* (umwritev's barrier, MapCompactorRelocateEntry's recheck).
CleanPageIsMapped ==
    \A l \in Lblk : mapping[l] # Invalid /\ ~dirty[l] => disk[mapping[l]] = page[l]

\* The old block that a logged remap names holds the same bytes as the block
\* the entry names when the remap is published, so that redo may read either.
OldBaselineIsCurrent ==
    \A b \in Backends :
        proc[b].pc = "logged" /\ proc[b].old # Invalid
            => disk[proc[b].old] = disk[mapping[proc[b].lblk]]

\* Nothing in flight lies below the reclaim boundary, which never passes the
\* committed frontier, which never passes the reservation frontier.
BoundaryBelowInflight ==
    /\ super.boundary <= super.nextFree /\ super.nextFree <= super.reserved
    /\ \A p \in Proc, l \in Lblk :
          own[p][l] \in Pblk /\ mapping[l] # own[p][l] => super.boundary <= own[p][l]

\* A segment registered for unlink is never referenced again, although the
\* check that found it empty looked at one MAP page at a time.
DeadStaysDead ==
    \A l \in Lblk, s \in dead : mapping[l] # Invalid => ~InSeg(mapping[l], s)

\* "Wait for it to publish, then retry": meeting another owner of the entry
\* is never in itself a failure to reserve (MapGetNewPbkno).
ContentionIsNoFailure == \A b \in Backends : proc[b].pc # "unreserved"
=============================================================================
