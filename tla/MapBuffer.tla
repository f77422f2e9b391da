------------------------------- MODULE MapBuffer -------------------------------
(***************************************************************************)
(* The shared cache of MAP pages: clock sweep, pins, eviction of dirty     *)
(* victims, the mapwriter and the checkpoint's flush of MAP pages.         *)
(*                                                                         *)
(* A slot's state word is updated by compare-and-swap, outside its lock:   *)
(* every such update is a step of its own.  What a process does under a    *)
(* slot's buffer_lock is one step.  The word holds a reference count, a    *)
(* usage count and the flags, in this order, and the sweep subtracts from  *)
(* the whole word, so a usage count below zero borrows from the flags.     *)
(***************************************************************************)
EXTENDS Integers, FiniteSets, Sequences

CONSTANTS
    Readers,     \* processes that read and change MAP pages
    MapWriter,   \* the mapwriter worker
    Checkpointer,
    Pages,       \* MAP pages
    NSlots,      \* map_buffers
    UsageLimit,  \* usage_count is not raised from here on (5)
    UsageMod,    \* usage_count wraps here (2^5)
    MaxEvents,   \* bound on changes of pages and failed writes together
    None         \* no slot, no page

Slots == 0 .. (NSlots - 1)
Proc == Readers \cup {MapWriter, Checkpointer}

ASSUME BufferAssumption ==
    /\ None \notin Pages \cup Slots \cup Proc /\ MapWriter # Checkpointer
    /\ {MapWriter, Checkpointer} \cap Readers = {} /\ IsFiniteSet(Readers)
    /\ NSlots \in Nat \ {0} /\ MaxEvents \in Nat
    /\ UsageLimit \in Nat \ {0} /\ UsageMod \in Nat /\ UsageLimit < UsageMod
    /\ UsageMod % 2 = 0

\* Flags by position above the usage count; MAPBUF_NOT_MATERIALIZED is left
\* out, but keeps its place.
DIRTY == 0
IO_IN_PROGRESS == 1
IO_ERROR == 2
JUST_DIRTIED == 3
CHECKPOINT_NEEDED == 5
Flags == 0 .. 5

VARIABLES
    state,     \* each slot's word: refcount, usage count, flags
    tag,       \* the page in each slot
    content,   \* version of the page in each slot
    cache,     \* MapCacheHash
    free,      \* free list
    hand,      \* next_victim_buffer
    ioLock,    \* holder of each slot's io_in_progress_lock
    proc,      \* what each process is doing; its pin (MapPrivateRefCount)
    ckpt,      \* the checkpoint's collected slots
    disk,      \* MAP pages on disk
    latest,    \* ghost: the last version given to each page
    atStart,   \* ghost: latest when the running checkpoint began
    wrapped,   \* ghost: some usage count went below zero
    events     \* changes and failed writes so far

vars == <<state, tag, content, cache, free, hand, ioLock, proc, ckpt, disk, latest,
          atStart, wrapped, events>>
pages == <<tag, content, cache>>
sweep == <<free, hand, wrapped>>
ghosts == <<latest, atStart>>

Idle == [pc |-> "idle", page |-> None, slot |-> None, pin |-> None, tries |-> 0]
NoCheckpoint == [pc |-> "off", next |-> 0, targets |-> {}]

Init ==
    /\ state = [s \in Slots |-> [ref |-> 0, usage |-> 0, flags |-> {}]]
    /\ tag = [s \in Slots |-> None]
    /\ content = [s \in Slots |-> 0]
    /\ cache = [t \in Pages |-> None]
    /\ free = [i \in 1 .. NSlots |-> i - 1]
    /\ hand = 0
    /\ ioLock = [s \in Slots |-> None]
    /\ proc = [p \in Proc |-> Idle]
    /\ ckpt = NoCheckpoint
    /\ disk = [t \in Pages |-> 0]
    /\ latest = [t \in Pages |-> 0]
    /\ atStart = [t \in Pages |-> 0]
    /\ wrapped = FALSE
    /\ events = 0

-----------------------------------------------------------------------------
(* The state word.                                                         *)

Has(s, f) == f \in state[s].flags
SetBits(s, set, clear) ==
    state' = [state EXCEPT ![s].flags = (@ \cup set) \ clear]

\* The flags, a binary number with position 0 lowest, minus one.
Borrow(F) ==
    IF F = {} THEN Flags
    ELSE LET low == CHOOSE f \in F : \A g \in F : f <= g
         IN  (F \ {low}) \cup 0 .. (low - 1)

\* state - MAPBUF_USAGECOUNT_ONE.
MinusUsage(w) ==
    IF w.usage > 0 THEN [w EXCEPT !.usage = @ - 1]
    ELSE [w EXCEPT !.usage = UsageMod - 1, !.flags = Borrow(@)]

\* state | MAPBUF_USAGECOUNT_ONE.
OrUsage(w) == [w EXCEPT !.usage = IF @ % 2 = 0 THEN @ + 1 ELSE @]

At(p, pc) == proc[p].pc = pc
Event == events < MaxEvents /\ events' = events + 1
Goto(p, pc) == proc' = [proc EXCEPT ![p].pc = pc]

-----------------------------------------------------------------------------
(* MapReadBuffer.                                                          *)

\* MapCacheLookup, at the start and after every retry.
Lookup(r, t) ==
    /\ \/ At(r, "idle")
       \/ At(r, "retry") /\ proc[r].page = t
    /\ proc' = [proc EXCEPT ![r].pc = IF cache[t] = None THEN "sweep" ELSE "hit",
                            ![r].page = t, ![r].slot = cache[t],
                            ![r].tries = IF cache[t] = None THEN NSlots ELSE 0]
    /\ UNCHANGED <<state, pages, sweep, ioLock, ckpt, disk, ghosts, events>>

\* MapPinBuffer: the pin, then the usage count, checked on the pinned word.
PinHit(r) ==
    LET s == proc[r].slot IN
    /\ At(r, "hit")
    /\ state' = [state EXCEPT ![s].ref = @ + 1]
    /\ proc' = [proc EXCEPT ![r].pc = IF state[s].usage < UsageLimit THEN "bump" ELSE "verify",
                            ![r].pin = s]
    /\ UNCHANGED <<pages, sweep, ioLock, ckpt, disk, ghosts, events>>

BumpUsage(r) ==
    /\ At(r, "bump")
    /\ state' = [state EXCEPT ![proc[r].slot].usage = (@ + 1) % UsageMod]
    /\ Goto(r, "verify")
    /\ UNCHANGED <<pages, sweep, ioLock, ckpt, disk, ghosts, events>>

\* The slot may have changed its page before the pin.
Verify(r) ==
    /\ At(r, "verify")
    /\ Goto(r, IF tag[proc[r].slot] = proc[r].page THEN "using" ELSE "unpin")
    /\ UNCHANGED <<state, pages, sweep, ioLock, ckpt, disk, ghosts, events>>

Unpin(s) == state' = [state EXCEPT ![s].ref = @ - 1]

UnpinRetry(r) ==
    /\ At(r, "unpin")
    /\ Unpin(proc[r].slot)
    /\ proc' = [proc EXCEPT ![r] = [Idle EXCEPT !.pc = "retry", !.page = proc[r].page]]
    /\ UNCHANGED <<pages, sweep, ioLock, ckpt, disk, ghosts, events>>

\* MapClockGetBuffer takes from the free list first; a slot found in use is
\* dropped from the list.
PopFree(r) ==
    /\ At(r, "sweep")
    /\ free # <<>>
    /\ free' = Tail(free)
    /\ LET s == Head(free)
       IN  proc' = IF state[s].ref = 0 /\ state[s].usage = 0
                   THEN [proc EXCEPT ![r].pc = "victim", ![r].slot = s, ![r].tries = 0] ELSE proc
    /\ UNCHANGED <<state, pages, hand, wrapped, ioLock, ckpt, disk, ghosts, events>>

ClockSweepTick == hand' = (hand + 1) % NSlots

\* The slot under the hand.  A pinned one is passed over; after NSlots of them
\* with none to decrement between: ERROR.
Tick(r) ==
    LET s == hand IN
    /\ At(r, "sweep")
    /\ free = <<>>
    /\ ClockSweepTick
    /\ proc' = IF state[s].ref = 0
               THEN [proc EXCEPT ![r].pc = IF state[s].usage = 0 THEN "victim" ELSE "decrement",
                                 ![r].slot = s, ![r].tries = 0]
               ELSE IF proc[r].tries > 1 THEN [proc EXCEPT ![r].tries = @ - 1]
               ELSE [proc EXCEPT ![r] = Idle]
    /\ UNCHANGED <<state, pages, free, wrapped, ioLock, ckpt, disk, ghosts, events>>

\* The compare-and-swap loop rereads the word, and not the usage count.
Decrement(r) ==
    LET s == proc[r].slot IN
    /\ At(r, "decrement")
    /\ state' = [state EXCEPT ![s] = MinusUsage(@)]
    /\ wrapped' = (wrapped \/ state[s].usage = 0)
    /\ proc' = [proc EXCEPT ![r].pc = "sweep", ![r].slot = None, ![r].tries = NSlots]
    /\ UNCHANGED <<pages, free, hand, ioLock, ckpt, disk, ghosts, events>>

PinVictim(r) ==
    LET s == proc[r].slot IN
    /\ At(r, "victim")
    /\ state' = [state EXCEPT ![s].ref = @ + 1]
    /\ proc' = [proc EXCEPT ![r].pc = "evict", ![r].pin = s]
    /\ UNCHANGED <<pages, sweep, ioLock, ckpt, disk, ghosts, events>>

\* MapCacheInsert of the new page, MapCacheDelete of the slot's old one.
Cached(s, t) ==
    [u \in Pages |-> IF u = t THEN s
                     ELSE IF u = tag[s] /\ cache[u] = s THEN None ELSE cache[u]]

\* The rest of MapReadBuffer, under the slot's lock: the page is read in.
Install(r, s, t) ==
    /\ cache' = Cached(s, t)
    /\ tag' = [tag EXCEPT ![s] = t]
    /\ content' = [content EXCEPT ![s] = disk[t]]
    /\ state' = [state EXCEPT ![s] = OrUsage(@)]
    /\ Goto(r, "using")

\* Mutant: the slot is taken whoever else has pinned it meanwhile.
EvictPinned(r) ==
    LET s == proc[r].slot
        t == proc[r].page
        Keep(pc) == Goto(r, pc) /\ UNCHANGED <<state, pages>>
    IN
    /\ proc[r].pc \in {"evict", "evict2"}
    /\ IF tag[s] = t THEN Keep("using")
       ELSE IF Has(s, DIRTY) THEN Keep(IF At(r, "evict") THEN "start" ELSE "unpin")
       ELSE IF cache[t] \notin {None, s} THEN Keep("unpin")
       ELSE Install(r, s, t)
    /\ UNCHANGED <<sweep, ioLock, ckpt, disk, ghosts, events>>

\* Mutant: the page's entry is taken over from the slot that has it.
EvictTwice(r) ==
    LET s == proc[r].slot
        t == proc[r].page
        Keep(pc) == Goto(r, pc) /\ UNCHANGED <<state, pages>>
    IN
    /\ proc[r].pc \in {"evict", "evict2"}
    /\ IF tag[s] = t THEN Keep("using")
       ELSE IF state[s].ref # 1 THEN Keep("unpin")
       ELSE IF Has(s, DIRTY) THEN Keep(IF At(r, "evict") THEN "start" ELSE "unpin")
       ELSE Install(r, s, t)
    /\ UNCHANGED <<sweep, ioLock, ckpt, disk, ghosts, events>>

\* Under the victim's lock: it may have become the page wanted, been pinned,
\* been dirtied (write it back and look again), or lost the race for the entry.
Evict(r) ==
    LET s == proc[r].slot
        t == proc[r].page
        Keep(pc) == Goto(r, pc) /\ UNCHANGED <<state, pages>>
    IN
    /\ proc[r].pc \in {"evict", "evict2"}
    /\ IF tag[s] = t THEN Keep("using")
       ELSE IF state[s].ref # 1 THEN Keep("unpin")
       ELSE IF Has(s, DIRTY) THEN Keep(IF At(r, "evict") THEN "start" ELSE "unpin")
       ELSE IF cache[t] \notin {None, s} THEN Keep("unpin")
       ELSE Install(r, s, t)
    /\ UNCHANGED <<sweep, ioLock, ckpt, disk, ghosts, events>>

\* The caller changes the page under its lock: MapMarkBufferDirty.
Change(r) ==
    LET s == proc[r].slot
        t == proc[r].page
    IN
    /\ At(r, "using")
    /\ Event
    /\ latest' = [latest EXCEPT ![t] = @ + 1]
    /\ content' = [content EXCEPT ![s] = latest[t] + 1]
    /\ SetBits(s, {DIRTY, JUST_DIRTIED}, {})
    /\ UNCHANGED <<tag, cache, sweep, ioLock, proc, ckpt, disk, atStart>>

Done(r) ==
    /\ At(r, "using")
    /\ Unpin(proc[r].slot)
    /\ proc' = [proc EXCEPT ![r] = Idle]
    /\ UNCHANGED <<pages, sweep, ioLock, ckpt, disk, ghosts, events>>

-----------------------------------------------------------------------------
(* MapFlushBufferCached, by a reader, the mapwriter or the checkpointer.   *)

Required(p) == IF p = Checkpointer THEN {CHECKPOINT_NEEDED} ELSE {}
Return(p) == proc' = [proc EXCEPT ![p] = IF p \in Readers THEN [@ EXCEPT !.pc = "evict2"]
                                         ELSE Idle]

\* MapStartBufferIO: the slot's I/O lock stays with the process; a flag set
\* while nobody has the lock is waited for.
StartBufferIO(p) ==
    LET s == proc[p].slot IN
    /\ At(p, "start")
    /\ ioLock[s] = None /\ ~Has(s, IO_IN_PROGRESS)
    /\ IF {DIRTY} \cup Required(p) \subseteq state[s].flags
       THEN /\ SetBits(s, {IO_IN_PROGRESS}, {IO_ERROR, JUST_DIRTIED})
            /\ ioLock' = [ioLock EXCEPT ![s] = p]
            /\ Goto(p, "writing")
       ELSE Return(p) /\ UNCHANGED <<state, ioLock>>
    /\ UNCHANGED <<pages, sweep, ckpt, disk, ghosts, events>>

\* MapTerminateBufferIO with clear_dirty.
Terminated(F) ==
    F \ ({IO_IN_PROGRESS, IO_ERROR, CHECKPOINT_NEEDED}
         \cup (IF JUST_DIRTIED \in F THEN {} ELSE {DIRTY}))

\* MapFlushWritePage under the slot's lock, then MapTerminateBufferIO; a slot
\* without a page is only cleaned.
WriteBack(p) ==
    LET s == proc[p].slot IN
    /\ At(p, "writing")
    /\ disk' = IF tag[s] = None THEN disk ELSE [disk EXCEPT ![tag[s]] = content[s]]
    /\ state' = [state EXCEPT ![s].flags = Terminated(@)]
    /\ ioLock' = [ioLock EXCEPT ![s] = None]
    /\ Return(p)
    /\ UNCHANGED <<pages, sweep, ckpt, ghosts, events>>

\* The write fails: ERROR releases the locks and leaves the flag.  A failed
\* checkpoint is given up.
WriteFails(p) ==
    /\ At(p, "writing")
    /\ Event
    /\ ioLock' = [ioLock EXCEPT ![proc[p].slot] = None]
    /\ IF p = Checkpointer
       THEN /\ proc' = [proc EXCEPT ![p] = Idle]
            /\ ckpt' = NoCheckpoint /\ atStart' = [t \in Pages |-> 0]
       ELSE Goto(p, "failed") /\ UNCHANGED <<ckpt, atStart>>
    /\ UNCHANGED <<state, pages, sweep, disk, latest>>

\* Mutant: the aborted write counts as done.
CleanupClears(p) ==
    LET s == proc[p].slot IN
    /\ At(p, "failed")
    /\ ioLock[s] = None
    /\ state' = [state EXCEPT ![s].ref = IF proc[p].pin = s THEN @ - 1 ELSE @,
                              ![s].flags = Terminated(@) \cup {IO_ERROR}]
    /\ proc' = [proc EXCEPT ![p] = Idle]
    /\ UNCHANGED <<pages, sweep, ioLock, ckpt, disk, ghosts, events>>

\* Mutant: the pins of the failed process stay.
CleanupKeepsPins(p) ==
    LET s == proc[p].slot IN
    /\ At(p, "failed")
    /\ ioLock[s] = None
    /\ state' = [state EXCEPT ![s].flags = IF IO_IN_PROGRESS \in @
                                           THEN (@ \ {IO_IN_PROGRESS}) \cup {IO_ERROR} ELSE @]
    /\ proc' = [proc EXCEPT ![p] = Idle]
    /\ UNCHANGED <<pages, sweep, ioLock, ckpt, disk, ghosts, events>>

\* MapBackendExitCleanup: MapAbortBufferIO, then the pins.
Cleanup(p) ==
    LET s == proc[p].slot IN
    /\ At(p, "failed")
    /\ ioLock[s] = None
    /\ state' = [state EXCEPT ![s].ref = IF proc[p].pin = s THEN @ - 1 ELSE @,
                              ![s].flags = IF IO_IN_PROGRESS \in @
                                           THEN (@ \ {IO_IN_PROGRESS}) \cup {IO_ERROR} ELSE @]
    /\ proc' = [proc EXCEPT ![p] = Idle]
    /\ UNCHANGED <<pages, sweep, ioLock, ckpt, disk, ghosts, events>>

\* MapBgWriterFlush: a slot that was dirty when it was collected.
WriterFlush(s) ==
    /\ At(MapWriter, "idle")
    /\ Has(s, DIRTY)
    /\ proc' = [proc EXCEPT ![MapWriter] = [Idle EXCEPT !.pc = "start", !.slot = s]]
    /\ UNCHANGED <<state, pages, sweep, ioLock, ckpt, disk, ghosts, events>>

-----------------------------------------------------------------------------
(* MapCheckpoint.                                                          *)

CkptStart ==
    /\ ckpt = NoCheckpoint
    /\ ckpt' = [NoCheckpoint EXCEPT !.pc = "collect"]
    /\ atStart' = latest
    /\ UNCHANGED <<state, pages, sweep, ioLock, proc, disk, latest, events>>

\* Mutant: a slot that is being written already is left to its writer.
CollectIdle ==
    LET s == ckpt.next
        take == Has(s, DIRTY) /\ ~Has(s, IO_IN_PROGRESS) /\ tag[s] # None
    IN
    /\ ckpt.pc = "collect"
    /\ SetBits(s, IF take THEN {CHECKPOINT_NEEDED} ELSE {}, {})
    /\ ckpt' = [pc |-> IF s + 1 = NSlots THEN "flush" ELSE "collect", next |-> s + 1,
                targets |-> IF take THEN ckpt.targets \cup {s} ELSE ckpt.targets]
    /\ UNCHANGED <<pages, sweep, ioLock, proc, disk, ghosts, events>>

\* MapCollectDirtyBufferTargets, slot by slot under its shared lock.
Collect ==
    LET s == ckpt.next
        take == Has(s, DIRTY) /\ tag[s] # None
    IN
    /\ ckpt.pc = "collect"
    /\ SetBits(s, IF take THEN {CHECKPOINT_NEEDED} ELSE {}, {})
    /\ ckpt' = [pc |-> IF s + 1 = NSlots THEN "flush" ELSE "collect", next |-> s + 1,
                targets |-> IF take THEN ckpt.targets \cup {s} ELSE ckpt.targets]
    /\ UNCHANGED <<pages, sweep, ioLock, proc, disk, ghosts, events>>

\* MapFlushDirtyBuffers skips a target that somebody else has written.
CkptFlush(s) ==
    /\ ckpt.pc = "flush" /\ s \in ckpt.targets
    /\ At(Checkpointer, "idle")
    /\ ckpt' = [ckpt EXCEPT !.targets = @ \ {s}]
    /\ proc' = IF {DIRTY, CHECKPOINT_NEEDED} \subseteq state[s].flags
               THEN [proc EXCEPT ![Checkpointer] = [Idle EXCEPT !.pc = "start", !.slot = s]]
               ELSE proc
    /\ UNCHANGED <<state, pages, sweep, ioLock, disk, ghosts, events>>

Flushed == ckpt.pc = "flush" /\ ckpt.targets = {} /\ At(Checkpointer, "idle")

CkptEnd ==
    /\ Flushed
    /\ ckpt' = NoCheckpoint
    /\ atStart' = [t \in Pages |-> 0]
    /\ UNCHANGED <<state, pages, sweep, ioLock, proc, disk, latest, events>>

-----------------------------------------------------------------------------
Reader(r) ==
    \/ \E t \in Pages : Lookup(r, t)
    \/ PinHit(r) \/ BumpUsage(r) \/ Verify(r) \/ UnpinRetry(r) \/ PopFree(r) \/ Tick(r)
    \/ Decrement(r) \/ PinVictim(r) \/ Evict(r) \/ Change(r) \/ Done(r)

Flusher(p) == StartBufferIO(p) \/ WriteBack(p) \/ WriteFails(p) \/ Cleanup(p)

Checkpoint ==
    \/ CkptStart \/ Collect \/ CkptEnd
    \/ \E s \in Slots : CkptFlush(s)

Next ==
    \/ \E r \in Readers : Reader(r)
    \/ \E p \in Proc : Flusher(p)
    \/ \E s \in Slots : WriterFlush(s)
    \/ Checkpoint

Spec == Init /\ [][Next]_vars

-----------------------------------------------------------------------------
(* Properties.                                                             *)

MaybeSlot == Slots \cup {None}
MaybePage == Pages \cup {None}
Word == [ref : 0 .. Cardinality(Readers), usage : 0 .. (UsageMod - 1), flags : SUBSET Flags]
Steps == {"idle", "retry", "sweep", "hit", "bump", "verify", "using", "unpin", "victim",
          "decrement", "evict", "evict2", "start", "writing", "failed"}
ProcState == [pc : Steps, page : MaybePage, slot : MaybeSlot, pin : MaybeSlot,
              tries : 0 .. NSlots]
CkptState == [pc : {"off", "collect", "flush"}, next : 0 .. NSlots, targets : SUBSET Slots]
Version == 0 .. MaxEvents
Versions == [Pages -> Version]

\* Type invariant of the slots, the cache table and the processes.
TypeOK ==
    /\ state \in [Slots -> Word]
    /\ tag \in [Slots -> MaybePage] /\ content \in [Slots -> Version]
    /\ cache \in [Pages -> MaybeSlot]
    /\ free \in Seq(Slots) /\ hand \in Slots
    /\ ioLock \in [Slots -> Proc \cup {None}]
    /\ proc \in [Proc -> ProcState]
    /\ ckpt \in CkptState
    /\ disk \in Versions /\ latest \in Versions /\ atStart \in Versions
    /\ wrapped \in BOOLEAN /\ events \in Version

\* A slot's reference count is the number of processes that have it pinned,
\* whatever failed in between (MapPinBuffer, MapUnpinBuffer,
\* MapBackendExitCleanup).
PinsCounted ==
    \A s \in Slots : state[s].ref = Cardinality({p \in Proc : proc[p].pin = s})

\* A process that MapReadBuffer returned a slot to finds its page there for as
\* long as it keeps the pin: nobody evicts it.
PinnedPageStays ==
    \A r \in Readers : At(r, "using") => tag[proc[r].slot] = proc[r].page

\* A page is in at most one slot, and the cache table points to it, although
\* two processes may miss on it together (MapCacheInsert).
OneSlotPerPage == \A t \in Pages, s \in Slots : tag[s] = t <=> cache[t] = s

Safe(t) ==
    \/ disk[t] = latest[t]
    \/ \E s \in Slots : tag[s] = t /\ content[s] = latest[t] /\ Has(s, DIRTY)

\* While no usage count has wrapped, the last change of a page is on disk or
\* in a slot marked dirty: eviction, the mapwriter, the checkpoint and failed
\* writes lose none (MapReadBuffer, MapTerminateBufferIO).
ChangesKept == ~wrapped => \A t \in Pages : Safe(t)

\* "Keep dirty map pages in cache and let checkpoint/bgwriter flush them":
\* the same without the proviso.
DirtyReachesDisk == \A t \in Pages : Safe(t)

\* While no usage count has wrapped, a MapCheckpoint that is through with its
\* slots has every change made before it began on disk, although pages were
\* evicted, flushed by others and dirtied again while it ran.
CheckpointComplete == Flushed /\ ~wrapped => \A t \in Pages : disk[t] >= atStart[t]
=============================================================================
