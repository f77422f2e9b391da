---------------------------- MODULE MapBufferProofs ----------------------------
(***************************************************************************)
(* Proofs about MapBuffer, for any number of readers, pages and slots.     *)
(*                                                                         *)
(* The inductive invariant has a layer for the pins (each reader has the   *)
(* pin its program counter says, and the words count them), one for the    *)
(* cache table, which rests on it because a slot changes its page only     *)
(* under the one pin it has, and one for the data, which rests on both:    *)
(* a cached page is current, a page that is neither cached nor dirty is    *)
(* current on disk, and what a running checkpoint still owes is in a slot  *)
(* that it will come to.                                                   *)
(***************************************************************************)
EXTENDS MapBuffer, TLAPS

\* The type invariant, with the reference counts unbounded.
AnyWord == [ref : Int, usage : 0 .. (UsageMod - 1), flags : SUBSET Flags]
Typed ==
    /\ state \in [Slots -> AnyWord]
    /\ tag \in [Slots -> MaybePage] /\ content \in [Slots -> Version]
    /\ cache \in [Pages -> MaybeSlot]
    /\ free \in Seq(Slots) /\ hand \in Slots
    /\ ioLock \in [Slots -> Proc \cup {None}]
    /\ proc \in [Proc -> ProcState]
    /\ ckpt \in CkptState
    /\ disk \in Versions /\ latest \in Versions /\ atStart \in Versions
    /\ wrapped \in BOOLEAN /\ events \in Version

\* What a process has in hand at each step: the pin a reader took at its slot,
\* none for the mapwriter and the checkpointer.
Pinning == {"bump", "verify", "using", "unpin", "evict", "evict2", "start", "writing", "failed"}
Aiming == Pinning \cup {"hit", "victim", "decrement"}
ReaderOK(c) ==
    /\ c.pin = IF c.pc \in Pinning THEN c.slot ELSE None
    /\ c.pc \in Aiming => c.slot \in Slots
    /\ c.pc # "idle" => c.page \in Pages
WorkerOK(c) ==
    /\ c.pin = None
    /\ c.pc \in {"idle", "start", "writing", "failed"}
    /\ c.pc # "idle" => c.slot \in Slots
StepOK(p, c) == IF p \in Readers THEN ReaderOK(c) ELSE WorkerOK(c)
Shape == \A p \in Proc : StepOK(p, proc[p])

\* While no usage count has wrapped, a cached page is the last version.
Current == ~wrapped => \A s \in Slots : tag[s] # None => content[s] = latest[tag[s]]

\* The events bound the versions; a checkpoint began in the past.
Behind == \A t \in Pages : latest[t] <= events /\ atStart[t] <= latest[t]

\* What a running checkpoint still owes lies in a dirty slot that it has not
\* looked at yet, or has collected, or is writing.
CkptAt(s) == proc[Checkpointer].pc \in {"start", "writing"} /\ proc[Checkpointer].slot = s
Owed(s) ==
    /\ Has(s, DIRTY)
    /\ \/ ckpt.pc = "collect" /\ ckpt.next <= s
       \/ Has(s, CHECKPOINT_NEEDED) /\ (s \in ckpt.targets \/ CkptAt(s))
Covered ==
    /\ ckpt.pc = "collect" => ckpt.next \in Slots
    /\ ~wrapped /\ ckpt.pc # "off" =>
          \A t \in Pages : disk[t] >= atStart[t] \/ \E s \in Slots : tag[s] = t /\ Owed(s)

\* Two processes have no slot pinned whose count is one.
LonePin ==
    \A s \in Slots : \A p, q \in Proc :
        state[s].ref = 1 /\ proc[p].pin = s /\ proc[q].pin = s => p = q

Pins == Typed /\ Shape /\ LonePin
Table == PinnedPageStays /\ OneSlotPerPage
Data == Current /\ ChangesKept /\ Behind /\ Covered
IInv == Typed /\ Shape /\ PinsCounted /\ Table /\ Data

-----------------------------------------------------------------------------
(* The constants and the state word.                                       *)

\* What the assumption says of the constants, one fact at a time.
LEMMA ConstantFacts ==
    /\ None \notin Pages /\ None \notin Slots /\ None \notin Proc
    /\ Slots \subseteq Nat /\ 0 \in Slots /\ \A s \in Slots : s < NSlots
    /\ Readers \subseteq Proc /\ MapWriter \in Proc /\ Checkpointer \in Proc
    /\ MapWriter \notin Readers /\ Checkpointer \notin Readers
    /\ MapWriter # Checkpointer
    /\ NSlots \in Nat /\ NSlots > 0 /\ UsageMod \in Nat /\ UsageMod > 1 /\ MaxEvents \in Nat
BY BufferAssumption DEF Slots, Proc

\* The number below a set of flags is a set of flags.
LEMMA BorrowType == ASSUME NEW F \in SUBSET Flags PROVE Borrow(F) \in SUBSET Flags
<1>1. CASE F = {}
    BY <1>1 DEF Borrow
<1>2. CASE F # {}
  <2>1. \E f \in F : \A g \in F : f <= g
    <3>1. CASE 0 \in F
        BY <3>1 DEF Flags
    <3>2. CASE 0 \notin F /\ 1 \in F
        BY <3>2 DEF Flags
    <3>3. CASE 0 \notin F /\ 1 \notin F /\ 2 \in F
        BY <3>3 DEF Flags
    <3>4. CASE 0 \notin F /\ 1 \notin F /\ 2 \notin F /\ 3 \in F
        BY <3>4 DEF Flags
    <3>5. CASE 0 \notin F /\ 1 \notin F /\ 2 \notin F /\ 3 \notin F /\ 4 \in F
        BY <3>5 DEF Flags
    <3>6. CASE 0 \notin F /\ 1 \notin F /\ 2 \notin F /\ 3 \notin F /\ 4 \notin F
      <4>1. \A g \in F : g = 5
        BY <3>6 DEF Flags
      <4> QED BY <1>2, <4>1
    <3> QED BY <3>1, <3>2, <3>3, <3>4, <3>5, <3>6
  <2> DEFINE low == CHOOSE f \in F : \A g \in F : f <= g
  <2>2. low \in F
    BY <2>1
  <2>3. Borrow(F) = (F \ {low}) \cup 0 .. (low - 1)
    BY <1>2 DEF Borrow
  <2> HIDE DEF low
  <2> QED BY <2>2, <2>3 DEF Flags
<1> QED BY <1>1, <1>2

\* Taking one usage off a word leaves a word with the same reference count,
\* and the same flags unless it borrows.
LEMMA MinusUsageType ==
    ASSUME NEW w \in AnyWord
    PROVE  MinusUsage(w) \in AnyWord /\ MinusUsage(w).ref = w.ref
                /\ (w.usage # 0 => MinusUsage(w).flags = w.flags)
<1>1. w.usage \in 0 .. (UsageMod - 1) /\ w.flags \in SUBSET Flags /\ w.ref \in Int
    BY DEF AnyWord
<1>2. Borrow(w.flags) \in SUBSET Flags
    BY <1>1, BorrowType
<1>3. CASE w.usage > 0
  <2>1. MinusUsage(w) = [w EXCEPT !.usage = w.usage - 1]
    BY <1>3 DEF MinusUsage
  <2>2. w.usage - 1 \in 0 .. (UsageMod - 1)
    BY <1>1, <1>3, ConstantFacts
  <2> QED BY <2>1, <2>2 DEF AnyWord
<1>4. CASE ~(w.usage > 0)
  <2>1. MinusUsage(w) = [w EXCEPT !.usage = UsageMod - 1, !.flags = Borrow(w.flags)]
    BY <1>4 DEF MinusUsage
  <2>2. UsageMod - 1 \in 0 .. (UsageMod - 1) /\ w.usage = 0
    BY <1>1, <1>4, ConstantFacts
  <2> QED BY <1>2, <2>1, <2>2, Zenon DEF AnyWord
<1> QED BY <1>3, <1>4

\* An even usage count is not the last one.
LEMMA OrUsageType ==
    ASSUME NEW w \in AnyWord
    PROVE  OrUsage(w) \in AnyWord /\ OrUsage(w).ref = w.ref /\ OrUsage(w).flags = w.flags
<1>1. w.usage \in 0 .. (UsageMod - 1) /\ w.flags \in SUBSET Flags /\ w.ref \in Int
    BY DEF AnyWord
<1>2. w.usage % 2 = 0 => w.usage + 1 \in 0 .. (UsageMod - 1)
    BY <1>1, BufferAssumption
<1> QED BY <1>1, <1>2 DEF OrUsage, AnyWord

-----------------------------------------------------------------------------
(* Pins.                                                                   *)

\* A step moves one process, and the words change their counts with its pin.
Moves(p) ==
    /\ proc' \in [Proc -> ProcState]
    /\ \A q \in Proc : q # p => proc'[q] = proc[q]
    /\ StepOK(p, proc'[p])
SameRefs(s) ==
    /\ state' \in [Slots -> AnyWord]
    /\ \A u \in Slots : u # s => state'[u].ref = state[u].ref
SamePins(p) ==
    /\ Moves(p) /\ proc'[p].pin = proc[p].pin
    /\ state' \in [Slots -> AnyWord] /\ \A s \in Slots : state'[s].ref = state[s].ref
Takes(p, s) ==
    /\ Moves(p) /\ proc[p].pin = None /\ proc'[p].pin = s
    /\ SameRefs(s) /\ state'[s].ref = state[s].ref + 1
Drops(p, s) ==
    /\ Moves(p) /\ proc[p].pin = s /\ proc'[p].pin = None
    /\ SameRefs(s) /\ state'[s].ref = state[s].ref - 1
PinStep == \E p \in Proc : SamePins(p) \/ \E s \in Slots : Takes(p, s) \/ Drops(p, s)

\* The shape survives a step in which one process moves and takes or drops at most its own pin.
LEMMA ShapeStep == ASSUME Shape, PinStep PROVE Shape'
BY DEF Shape, PinStep, SamePins, Takes, Drops, Moves

-----------------------------------------------------------------------------
(* What each action does to types and pins.                                *)

\* What types and shape say of a reader.
LEMMA ReaderFacts ==
    ASSUME Typed, Shape, NEW r \in Readers
    PROVE  /\ r \in Proc /\ proc[r] \in ProcState /\ ReaderOK(proc[r])
           /\ proc[r].pc \in Aiming => state[proc[r].slot] \in AnyWord
           /\ None \in MaybeSlot /\ None \in MaybePage /\ None \notin Slots
BY ConstantFacts, Zenon DEF Typed, Shape, StepOK, ReaderOK, MaybeSlot, MaybePage

\* The idle state of a process is one of its states.
LEMMA IdleType == Idle \in ProcState /\ StepOK(Checkpointer, Idle) /\ StepOK(MapWriter, Idle)
BY ConstantFacts DEF Idle, ProcState, Steps, MaybePage, MaybeSlot, StepOK, WorkerOK

\* The checkpoint state between checkpoints has its type.
LEMMA NoCkptType == NoCheckpoint \in CkptState /\ [t \in Pages |-> 0] \in Versions
BY ConstantFacts DEF NoCheckpoint, CkptState, Versions, Version

\* A process that moves on to a step of its own keeps its type.
LEMMA ProcGoto ==
    ASSUME Typed, NEW p \in Proc, NEW a \in Steps, proc' = [proc EXCEPT ![p].pc = a]
    PROVE  /\ proc' \in [Proc -> ProcState]
           /\ \A q \in Proc : q # p => proc'[q] = proc[q]
           /\ proc'[p].pc = a /\ proc'[p].page = proc[p].page /\ proc'[p].slot = proc[p].slot
           /\ proc'[p].pin = proc[p].pin /\ proc'[p].tries = proc[p].tries
BY Zenon DEF Typed, ProcState

\* The steps of MapReadBuffer that leave the words alone.
LEMMA LookPins ==
    ASSUME Typed, Shape, NEW r \in Readers,
           \/ \E t \in Pages : Lookup(r, t)
           \/ Verify(r) \/ PopFree(r) \/ Tick(r)
    PROVE  Typed' /\ SamePins(r)
<1>0. /\ r \in Proc /\ ReaderOK(proc[r]) /\ proc \in [Proc -> ProcState] /\ r \in Readers
      /\ NSlots \in 0 .. NSlots /\ 0 \in 0 .. NSlots /\ None \notin Slots
    BY ReaderFacts, ConstantFacts DEF Typed
<1>1. ASSUME NEW t \in Pages, Lookup(r, t) PROVE Typed' /\ SamePins(r)
  <2>1. cache[t] \in MaybeSlot
    BY DEF Typed
  <2>2. proc' \in [Proc -> ProcState]
    <3> DEFINE a == IF cache[t] = None THEN "sweep" ELSE "hit"
               e == IF cache[t] = None THEN NSlots ELSE 0
    <3>1. a \in Steps /\ e \in 0 .. NSlots /\ t \in MaybePage
      BY <1>0 DEF Steps, MaybePage
    <3>2. proc' = [proc EXCEPT ![r].pc = a, ![r].page = t, ![r].slot = cache[t], ![r].tries = e]
      BY <1>1, Zenon DEF Lookup
    <3> HIDE DEF a, e
    <3> QED BY <1>0, <2>1, <3>1, <3>2, ZenonT(60) DEF ProcState
  <2>3. Moves(r) /\ proc'[r].pin = proc[r].pin
    BY <1>1, <2>1, <2>2, <1>0, ZenonT(60)
       DEF Lookup, Moves, StepOK, ReaderOK, At, Typed, ProcState, Pinning, Aiming, MaybeSlot
  <2> QED BY <1>1, <2>2, <2>3, Zenon DEF Lookup, SamePins, Typed, pages, sweep, ghosts
<1>2. CASE Verify(r)
  <2>1. proc' \in [Proc -> ProcState]
    <3> DEFINE a == IF tag[proc[r].slot] = proc[r].page THEN "using" ELSE "unpin"
    <3>1. a \in Steps
      BY DEF Steps
    <3> QED BY <1>0, <1>2, <3>1, ProcGoto, Zenon DEF Verify, Goto
  <2>2. Moves(r) /\ proc'[r].pin = proc[r].pin
    BY <1>2, <2>1, <1>0
       DEF Verify, Goto, Moves, StepOK, ReaderOK, At, Typed, ProcState, Pinning, Aiming
  <2> QED BY <1>2, <2>1, <2>2 DEF Verify, SamePins, Typed, pages, sweep, ghosts
<1>3. CASE PopFree(r)
  <2>1. Head(free) \in Slots /\ Tail(free) \in Seq(Slots)
    BY <1>3 DEF PopFree, Typed
  <2>2. proc' \in [Proc -> ProcState]
    <3>1. "victim" \in Steps /\ Head(free) \in MaybeSlot
      BY <2>1 DEF Steps, MaybeSlot
    <3> QED BY <1>0, <1>3, <3>1, ZenonT(60) DEF PopFree, ProcState
  <2>3. Moves(r) /\ proc'[r].pin = proc[r].pin
    BY <1>3, <2>1, <2>2, <1>0
       DEF PopFree, Moves, StepOK, ReaderOK, At, Typed, ProcState, Pinning, Aiming
  <2> QED BY <1>3, <2>1, <2>2, <2>3 DEF PopFree, SamePins, Typed, pages, ghosts
<1>4. CASE Tick(r)
  <2>1. hand \in Slots /\ hand' \in Slots /\ NSlots \in Nat
    BY <1>4, ConstantFacts DEF Tick, ClockSweepTick, Typed, Slots
  <2>2. proc' \in [Proc -> ProcState]
    <3> DEFINE a == IF state[hand].usage = 0 THEN "victim" ELSE "decrement"
    <3>1. a \in Steps /\ hand \in MaybeSlot /\ Idle \in ProcState
      BY <1>0, <2>1, IdleType DEF Steps, MaybeSlot
    <3>2. proc[r].tries > 1 => proc[r].tries - 1 \in 0 .. NSlots
      BY <1>0 DEF ProcState
    <3>3. CASE state[hand].ref = 0
      <4>1. proc' = [proc EXCEPT ![r].pc = a, ![r].slot = hand, ![r].tries = 0]
        BY <1>4, <3>3 DEF Tick
      <4> HIDE DEF a
      <4> QED BY <1>0, <3>1, <4>1, Zenon DEF ProcState
    <3>4. CASE state[hand].ref # 0 /\ proc[r].tries > 1
      BY <1>0, <1>4, <3>2, <3>4 DEF Tick, ProcState
    <3>5. CASE state[hand].ref # 0 /\ ~(proc[r].tries > 1)
      BY <1>0, <1>4, <3>1, <3>5, Zenon DEF Tick
    <3> QED BY <3>3, <3>4, <3>5
  <2>3. Moves(r) /\ proc'[r].pin = proc[r].pin
    BY <1>4, <2>1, <2>2, <1>0
       DEF Tick, Moves, StepOK, ReaderOK, At, Typed, ProcState, Pinning, Aiming, Idle
  <2> QED BY <1>4, <2>1, <2>2, <2>3 DEF Tick, SamePins, Typed, pages, ghosts
<1> QED BY <1>1, <1>2, <1>3, <1>4
\* The steps that pin and unpin.
LEMMA CountPins ==
    ASSUME Typed, Shape, NEW r \in Readers,
           PinHit(r) \/ PinVictim(r) \/ UnpinRetry(r) \/ Done(r)
    PROVE  Typed' /\ \E s \in Slots : Takes(r, s) \/ Drops(r, s)
<1> DEFINE s == proc[r].slot
<1>0. /\ r \in Proc /\ ReaderOK(proc[r]) /\ proc \in [Proc -> ProcState] /\ r \in Readers
      /\ None \notin Slots /\ state \in [Slots -> AnyWord] /\ Idle \in ProcState
      /\ proc[r] \in ProcState
    BY ReaderFacts, ConstantFacts, IdleType DEF Typed
<1>1. CASE PinHit(r)
  <2>1. s \in Slots /\ proc[r].pin = None
    BY <1>0, <1>1 DEF PinHit, At, ReaderOK, Pinning, Aiming
  <2>2. SameRefs(s) /\ state'[s].ref = state[s].ref + 1
    BY <1>0, <1>1, <2>1 DEF PinHit, SameRefs, AnyWord
  <2>3. proc' \in [Proc -> ProcState]
    <3> DEFINE a == IF state[s].usage < UsageLimit THEN "bump" ELSE "verify"
    <3>1. a \in Steps /\ s \in MaybeSlot
      BY <2>1 DEF Steps, MaybeSlot
    <3>2. proc' = [proc EXCEPT ![r].pc = a, ![r].pin = s]
      BY <1>1, Zenon DEF PinHit
    <3> HIDE DEF a, s
    <3> QED BY <1>0, <3>1, <3>2, Zenon DEF ProcState
  <2>4. Moves(r) /\ proc'[r].pin = s
    BY <1>0, <1>1, <2>1, <2>3
       DEF PinHit, Moves, StepOK, ReaderOK, At, ProcState, Pinning, Aiming
  <2>5. Takes(r, s)
    BY <2>1, <2>2, <2>4, Zenon DEF Takes
  <2>6. Typed'
    BY <1>1, <2>2, <2>3 DEF PinHit, SameRefs, Typed, pages, sweep, ghosts
  <2> QED BY <2>1, <2>5, <2>6
<1>2. CASE PinVictim(r)
  <2>1. s \in Slots /\ proc[r].pin = None
    BY <1>0, <1>2 DEF PinVictim, At, ReaderOK, Pinning, Aiming
  <2>2. SameRefs(s) /\ state'[s].ref = state[s].ref + 1
    BY <1>0, <1>2, <2>1 DEF PinVictim, SameRefs, AnyWord
  <2>3. proc' \in [Proc -> ProcState]
    <3>1. "evict" \in Steps /\ s \in MaybeSlot
      BY <2>1 DEF Steps, MaybeSlot
    <3>2. proc' = [proc EXCEPT ![r].pc = "evict", ![r].pin = s]
      BY <1>2 DEF PinVictim
    <3> HIDE DEF s
    <3> QED BY <1>0, <3>1, <3>2, Zenon DEF ProcState
  <2>4. Moves(r) /\ proc'[r].pin = s
    BY <1>0, <1>2, <2>1, <2>3, Zenon
       DEF PinVictim, Moves, StepOK, ReaderOK, At, ProcState, Pinning, Aiming
  <2>5. Takes(r, s)
    BY <2>1, <2>2, <2>4 DEF Takes
  <2>6. Typed'
    BY <1>2, <2>2, <2>3 DEF PinVictim, SameRefs, Typed, pages, sweep, ghosts
  <2> QED BY <2>1, <2>5, <2>6
<1>3. CASE UnpinRetry(r)
  <2>1. s \in Slots /\ proc[r].pin = s /\ proc[r].page \in Pages
    BY <1>0, <1>3 DEF UnpinRetry, At, ReaderOK, Pinning, Aiming
  <2>2. SameRefs(s) /\ state'[s].ref = state[s].ref - 1
    BY <1>0, <1>3, <2>1 DEF UnpinRetry, Unpin, SameRefs, AnyWord
  <2> DEFINE c == [Idle EXCEPT !.pc = "retry", !.page = proc[r].page]
  <2>3. c \in ProcState /\ ReaderOK(c) /\ c.pin = None
    <3>1. "retry" \in Steps /\ proc[r].page \in MaybePage
      BY <2>1 DEF Steps, MaybePage
    <3> QED BY <1>0, <2>1, <3>1, Zenon DEF ProcState, ReaderOK, Idle, Pinning, Aiming
  <2>4. proc' = [proc EXCEPT ![r] = c]
    BY <1>3 DEF UnpinRetry
  <2> HIDE DEF c
  <2>5. Moves(r) /\ proc'[r].pin = None
    BY <1>0, <2>3, <2>4 DEF Moves, StepOK
  <2>6. Drops(r, s)
    BY <2>1, <2>2, <2>5 DEF Drops
  <2>7. Typed'
    BY <1>3, <2>2, <2>5 DEF UnpinRetry, SameRefs, Moves, Typed, pages, sweep, ghosts
  <2> QED BY <2>1, <2>6, <2>7
<1>4. CASE Done(r)
  <2>1. s \in Slots /\ proc[r].pin = s
    BY <1>0, <1>4 DEF Done, At, ReaderOK, Pinning, Aiming
  <2>2. SameRefs(s) /\ state'[s].ref = state[s].ref - 1
    BY <1>0, <1>4, <2>1 DEF Done, Unpin, SameRefs, AnyWord
  <2>3. ReaderOK(Idle) /\ Idle.pin = None
    BY DEF ReaderOK, Idle, Pinning, Aiming
  <2>4. Moves(r) /\ proc'[r].pin = None
    BY <1>0, <1>4, <2>3 DEF Done, Moves, StepOK
  <2>5. Drops(r, s)
    BY <2>1, <2>2, <2>4 DEF Drops
  <2>6. Typed'
    BY <1>4, <2>2, <2>4 DEF Done, SameRefs, Moves, Typed, pages, sweep, ghosts
  <2> QED BY <2>1, <2>5, <2>6
<1> QED BY <1>1, <1>2, <1>3, <1>4
\* The steps that change a word and keep the pins.
LEMMA WordPins ==
    ASSUME Typed, Shape, Behind, NEW r \in Readers,
           BumpUsage(r) \/ Decrement(r) \/ Evict(r) \/ Change(r)
    PROVE  Typed' /\ SamePins(r)
<1> DEFINE s == proc[r].slot
<1>0. /\ r \in Proc /\ ReaderOK(proc[r]) /\ proc \in [Proc -> ProcState] /\ r \in Readers
      /\ None \notin Slots /\ state \in [Slots -> AnyWord] /\ proc[r] \in ProcState
      /\ NSlots \in 0 .. NSlots /\ None \in MaybeSlot
    BY ReaderFacts, ConstantFacts DEF Typed
<1>1. CASE BumpUsage(r)
  <2>1. s \in Slots /\ state[s].usage \in 0 .. (UsageMod - 1)
    BY <1>0, <1>1, Zenon DEF BumpUsage, At, ReaderOK, Pinning, Aiming, AnyWord
  <2>2. (state[s].usage + 1) % UsageMod \in 0 .. (UsageMod - 1)
    BY <2>1, ConstantFacts
  <2>3. state' \in [Slots -> AnyWord] /\ \A u \in Slots : state'[u].ref = state[u].ref
    BY <1>0, <1>1, <2>1, <2>2 DEF BumpUsage, AnyWord
  <2>4. "verify" \in Steps
    BY DEF Steps
  <2>5. Moves(r) /\ proc'[r].pin = proc[r].pin
    BY <1>0, <1>1, <2>4, ProcGoto, Zenon
       DEF BumpUsage, Goto, At, Moves, StepOK, ReaderOK, Pinning, Aiming
  <2> QED BY <1>1, <2>3, <2>5 DEF BumpUsage, SamePins, Moves, Typed, pages, sweep, ghosts
<1>2. CASE Decrement(r)
  <2>1. s \in Slots
    BY <1>0, <1>2 DEF Decrement, At, ReaderOK, Pinning, Aiming
  <2>2. MinusUsage(state[s]) \in AnyWord /\ MinusUsage(state[s]).ref = state[s].ref
    BY <1>0, <2>1, MinusUsageType
  <2>3. state' = [state EXCEPT ![s] = MinusUsage(state[s])]
    BY <1>2 DEF Decrement
  <2>4. state' \in [Slots -> AnyWord] /\ \A u \in Slots : state'[u].ref = state[u].ref
    BY <1>0, <2>1, <2>2, <2>3
  <2>5. proc' \in [Proc -> ProcState]
    <3>1. "sweep" \in Steps
      BY DEF Steps
    <3> QED BY <1>0, <1>2, <3>1, Zenon DEF Decrement, ProcState
  <2>6. Moves(r) /\ proc'[r].pin = proc[r].pin
    BY <1>0, <1>2, <2>5
       DEF Decrement, Moves, StepOK, ReaderOK, At, ProcState, Pinning, Aiming
  <2>7. wrapped' \in BOOLEAN
    BY <1>2 DEF Decrement, Typed
  <2> QED BY <1>2, <2>4, <2>6, <2>7 DEF Decrement, SamePins, Moves, Typed, pages, ghosts
<1>3. CASE Evict(r)
  <2> DEFINE t == proc[r].page
  <2>1. s \in Slots /\ t \in Pages /\ proc[r].pin = s /\ proc[r].pc \in {"evict", "evict2"}
    BY <1>0, <1>3, Zenon DEF Evict, ReaderOK, Pinning, Aiming
  <2>2. PICK a \in {"using", "unpin", "start"} : Goto(r, a)
    BY <1>3 DEF Evict, Install
  <2>3. a \in Steps
    BY DEF Steps
  <2>4. Moves(r) /\ proc'[r].pin = proc[r].pin
    BY <1>0, <2>1, <2>2, <2>3, ProcGoto, ZenonT(60)
       DEF Goto, Moves, StepOK, ReaderOK, Pinning, Aiming
  <2>5. (UNCHANGED <<state, pages>>) \/ Install(r, s, t)
    BY <1>3 DEF Evict
  <2>6. CASE UNCHANGED <<state, pages>>
    BY <1>0, <1>3, <2>4, <2>6 DEF Evict, SamePins, Moves, Typed, pages, sweep, ghosts
  <2>7. CASE Install(r, s, t)
    <3>1. OrUsage(state[s]) \in AnyWord /\ OrUsage(state[s]).ref = state[s].ref
      BY <1>0, <2>1, OrUsageType, Zenon
    <3>2. state' = [state EXCEPT ![s] = OrUsage(state[s])]
      BY <2>7 DEF Install
    <3>3. state' \in [Slots -> AnyWord] /\ \A u \in Slots : state'[u].ref = state[u].ref
      BY <1>0, <2>1, <3>1, <3>2
    <3>4. cache' \in [Pages -> MaybeSlot]
      BY <2>1, <2>7, Zenon DEF Install, Cached, Typed, MaybeSlot
    <3>5. tag' \in [Slots -> MaybePage] /\ content' \in [Slots -> Version]
      BY <2>1, <2>7, Zenon DEF Install, Typed, MaybePage, Versions
    <3> QED BY <1>3, <2>4, <3>3, <3>4, <3>5, Zenon
               DEF Evict, SamePins, Moves, Typed, sweep, ghosts
  <2> QED BY <2>5, <2>6, <2>7, Zenon
<1>4. CASE Change(r)
  <2> DEFINE t == proc[r].page
  <2>1. s \in Slots /\ t \in Pages
    BY <1>0, <1>4 DEF Change, At, ReaderOK, Pinning, Aiming
  <2>0. {DIRTY, JUST_DIRTIED} \subseteq Flags
    BY DEF DIRTY, JUST_DIRTIED, Flags
  <2>2. latest[t] + 1 \in Version /\ events' \in Version
    BY <1>4, <2>1, ConstantFacts DEF Change, Event, Behind, Typed, Version, Versions
  <2>3. latest' \in Versions /\ content' \in [Slots -> Version]
    BY <1>4, <2>1, <2>2 DEF Change, Typed, Versions
  <2>4. state' \in [Slots -> AnyWord] /\ \A u \in Slots : state'[u].ref = state[u].ref
    BY <1>0, <1>4, <2>0, <2>1 DEF Change, SetBits, AnyWord
  <2>5. Moves(r) /\ proc'[r].pin = proc[r].pin
    BY <1>0, <1>4, Zenon DEF Change, Moves, StepOK
  <2> QED BY <1>4, <2>2, <2>3, <2>4, <2>5, Zenon DEF Change, SamePins, Moves, Typed, sweep
<1> QED BY <1>1, <1>2, <1>3, <1>4

\* Where a process with work on a slot stands.
LEMMA StepFacts ==
    ASSUME Typed, Shape, NEW p \in Proc, proc[p].pc \in {"start", "writing", "failed"}
    PROVE  /\ proc[p].slot \in Slots /\ proc[p] \in ProcState
           /\ state[proc[p].slot] \in AnyWord /\ state[proc[p].slot].flags \in SUBSET Flags
           /\ proc[p].pin = IF p \in Readers THEN proc[p].slot ELSE None
           /\ p \in Readers => proc[p].page \in Pages
<1>1. proc[p].slot \in Slots
    BY DEF Shape, StepOK, ReaderOK, WorkerOK, Aiming, Pinning
<1>2. proc[p].pin = IF p \in Readers THEN proc[p].slot ELSE None
    BY DEF Shape, StepOK, ReaderOK, WorkerOK, Pinning
<1>3. p \in Readers => proc[p].page \in Pages
    BY DEF Shape, StepOK, ReaderOK
<1> QED BY <1>1, <1>2, <1>3 DEF Typed, AnyWord

\* Coming back from the write of a slot moves no pin.
LEMMA ReturnPins ==
    ASSUME Typed, Shape, NEW p \in Proc, proc[p].pc \in {"start", "writing"}, Return(p)
    PROVE  Moves(p) /\ proc'[p].pin = proc[p].pin
<1>1. CASE p \in Readers
  <2>1. "evict2" \in Steps
    BY DEF Steps
  <2>2. proc' = [proc EXCEPT ![p].pc = "evict2"]
    BY <1>1 DEF Return
  <2> QED BY <1>1, <2>1, <2>2, StepFacts, ProcGoto, ZenonT(60)
             DEF Moves, StepOK, ReaderOK, Pinning, Aiming
<1>2. CASE p \notin Readers
  <2>1. proc' = [proc EXCEPT ![p] = Idle] /\ proc[p].pin = None
    BY <1>2, StepFacts DEF Return
  <2>2. StepOK(p, Idle) /\ Idle.pin = None /\ Idle \in ProcState
    BY <1>2, IdleType DEF Proc, Idle
  <2> QED BY <2>1, <2>2 DEF Moves, Typed
<1> QED BY <1>1, <1>2

\* MapFlushBufferCached keeps the pins of whoever calls it, until an ERROR is
\* cleaned up.
LEMMA FlusherPins ==
    ASSUME Typed, Shape, NEW p \in Proc, Flusher(p)
    PROVE  Typed' /\ (SamePins(p) \/ \E s \in Slots : Drops(p, s))
<1> DEFINE s == proc[p].slot
<1>0. state \in [Slots -> AnyWord] /\ proc \in [Proc -> ProcState]
    BY DEF Typed
<1>1. CASE StartBufferIO(p)
  <2>1. s \in Slots /\ state[s].flags \in SUBSET Flags /\ IO_IN_PROGRESS \in Flags
    BY <1>1, StepFacts DEF StartBufferIO, At, IO_IN_PROGRESS, Flags
  <2>2. CASE {DIRTY} \cup Required(p) \subseteq state[s].flags
    <3>1. state' \in [Slots -> AnyWord] /\ \A u \in Slots : state'[u].ref = state[u].ref
      BY <1>0, <1>1, <2>1, <2>2 DEF StartBufferIO, SetBits, AnyWord
    <3>2. "writing" \in Steps /\ proc' = [proc EXCEPT ![p].pc = "writing"]
      BY <1>1, <2>2 DEF StartBufferIO, Goto, Steps
    <3>3. Moves(p) /\ proc'[p].pin = proc[p].pin
      BY <1>1, <3>2, StepFacts, ProcGoto, ZenonT(60)
         DEF StartBufferIO, At, Moves, StepOK, ReaderOK, WorkerOK, Pinning, Aiming
    <3>4. ioLock' \in [Slots -> Proc \cup {None}]
      BY <1>1, <2>1, <2>2, Zenon DEF StartBufferIO, Typed
    <3> QED BY <1>1, <3>1, <3>3, <3>4, Zenon
               DEF StartBufferIO, SamePins, Moves, Typed, pages, sweep,
                                         ghosts
  <2>3. CASE ~({DIRTY} \cup Required(p) \subseteq state[s].flags)
    <3>1. Return(p) /\ UNCHANGED <<state, ioLock>>
      BY <1>1, <2>3, Zenon DEF StartBufferIO
    <3>2. Moves(p) /\ proc'[p].pin = proc[p].pin
      BY <1>1, <3>1, ReturnPins DEF StartBufferIO, At
    <3> QED BY <1>0, <1>1, <3>1, <3>2, Zenon
               DEF StartBufferIO, SamePins, Moves, Typed, pages, sweep,
                                         ghosts
  <2> QED BY <2>2, <2>3
<1>2. CASE WriteBack(p)
  <2>1. s \in Slots /\ state[s].flags \in SUBSET Flags
    BY <1>2, StepFacts DEF WriteBack, At
  <2>2. Terminated(state[s].flags) \in SUBSET Flags
    BY <2>1 DEF Terminated
  <2>3. state' \in [Slots -> AnyWord] /\ \A u \in Slots : state'[u].ref = state[u].ref
    BY <1>0, <1>2, <2>1, <2>2 DEF WriteBack, AnyWord
  <2>4. Moves(p) /\ proc'[p].pin = proc[p].pin
    BY <1>2, ReturnPins DEF WriteBack, At
  <2>5. ioLock' \in [Slots -> Proc \cup {None}] /\ disk' \in Versions
    BY <1>2, <2>1 DEF WriteBack, Typed, Versions, MaybePage
  <2> QED BY <1>2, <2>3, <2>4, <2>5
             DEF WriteBack, SamePins, Moves, Typed, pages, sweep, ghosts
<1>3. CASE WriteFails(p)
  <2>1. s \in Slots /\ events' \in Version /\ ioLock' \in [Slots -> Proc \cup {None}]
    BY <1>3, StepFacts, ConstantFacts DEF WriteFails, At, Event, Typed, Version
  <2>2. Moves(p) /\ proc'[p].pin = proc[p].pin
    <3>1. CASE p = Checkpointer
      <4>1. proc' = [proc EXCEPT ![p] = Idle] /\ proc[p].pin = None
        BY <1>3, <3>1, StepFacts, ConstantFacts DEF WriteFails, At
      <4>2. Idle.pin = None
        BY DEF Idle
      <4> QED BY <1>0, <3>1, <4>1, <4>2, IdleType DEF Moves
    <3>2. CASE p # Checkpointer
      <4>1. "failed" \in Steps /\ proc' = [proc EXCEPT ![p].pc = "failed"]
        BY <1>3, <3>2 DEF WriteFails, Goto, Steps
      <4> QED BY <1>3, <4>1, StepFacts, ProcGoto, ZenonT(60)
              DEF WriteFails, At, Moves, StepOK, ReaderOK, WorkerOK, Pinning, Aiming
    <3> QED BY <3>1, <3>2
  <2>3. ckpt' \in CkptState /\ atStart' \in Versions
    <3>1. NoCheckpoint \in CkptState /\ [t \in Pages |-> 0] \in Versions
      BY NoCkptType
    <3> QED BY <1>3, <3>1 DEF WriteFails, Typed
  <2> QED BY <1>0, <1>3, <2>1, <2>2, <2>3, Zenon
             DEF WriteFails, SamePins, Moves, Typed, pages, sweep
<1>4. CASE Cleanup(p)
  <2>1. s \in Slots /\ state[s].flags \in SUBSET Flags /\ IO_ERROR \in Flags
              /\ proc[p].pin = IF p \in Readers THEN s ELSE None
    <3>1. proc[p].pc = "failed"
      BY <1>4 DEF Cleanup, At
    <3>2. IO_ERROR \in Flags
      BY DEF IO_ERROR, Flags
    <3> QED BY <3>1, <3>2, StepFacts
  <2>2. /\ state' \in [Slots -> AnyWord]
        /\ \A u \in Slots : u # s => state'[u].ref = state[u].ref
        /\ state'[s].ref = IF proc[p].pin = s THEN state[s].ref - 1 ELSE state[s].ref
    BY SMTT(30), <1>0, <1>4, <2>1 DEF Cleanup, AnyWord
  <2>3. StepOK(p, Idle) /\ Idle.pin = None /\ Idle \in ProcState
    BY IdleType DEF Proc, Idle, StepOK, ReaderOK, Pinning, Aiming
  <2>4. Moves(p) /\ proc'[p].pin = None
    BY <1>0, <1>4, <2>3, Zenon DEF Cleanup, Moves
  <2>5. SamePins(p) \/ Drops(p, s)
    BY <2>1, <2>2, <2>4, ConstantFacts DEF SamePins, Drops, SameRefs
  <2>6. Typed'
    BY <1>4, <2>2, <2>4, Zenon DEF Cleanup, Moves, Typed, pages, sweep, ghosts
  <2> QED BY <2>1, <2>5, <2>6
<1> QED BY <1>1, <1>2, <1>3, <1>4 DEF Flusher

\* A background process that is idle starts the write of a slot.
LEMMA WorkerStart ==
    ASSUME Typed, Shape, NEW p \in {MapWriter, Checkpointer}, NEW s \in Slots,
           proc[p].pc = "idle",
           proc' = [proc EXCEPT ![p] = [Idle EXCEPT !.pc = "start", !.slot = s]]
    PROVE  Moves(p) /\ proc'[p].pin = proc[p].pin /\ proc'[p].pc = "start" /\ proc'[p].slot = s
<1> DEFINE c == [Idle EXCEPT !.pc = "start", !.slot = s]
<1>1. p \in Proc /\ p \notin Readers /\ proc[p].pin = None
    BY ConstantFacts DEF Shape, StepOK, WorkerOK
<1>2. "start" \in Steps /\ s \in MaybeSlot
    BY DEF Steps, MaybeSlot
<1>3. c \in ProcState /\ c.pin = None /\ c.pc = "start" /\ c.slot = s
    BY <1>2, IdleType, Zenon DEF Idle, ProcState
<1>4. StepOK(p, c)
    BY <1>1, <1>3 DEF StepOK, WorkerOK
<1>5. proc' = [proc EXCEPT ![p] = c]
    OBVIOUS
<1> HIDE DEF c
<1> QED BY <1>1, <1>3, <1>4, <1>5, Zenon DEF Moves, Typed

\* The mapwriter and the checkpointer pin nothing.
LEMMA WorkerPins ==
    ASSUME Typed, Shape, Covered, Checkpoint \/ \E s \in Slots : WriterFlush(s)
    PROVE  Typed' /\ \E p \in Proc : SamePins(p)
<1>0. /\ state \in [Slots -> AnyWord] /\ MapWriter \in Proc /\ Checkpointer \in Proc
      /\ ckpt \in CkptState
    BY ConstantFacts DEF Typed
<1>1. ASSUME UNCHANGED proc, state' \in [Slots -> AnyWord],
             \A s \in Slots : state'[s].ref = state[s].ref
      PROVE  SamePins(MapWriter)
    BY <1>0, <1>1 DEF SamePins, Moves, Typed, Shape
<1>2. ASSUME NEW s \in Slots, WriterFlush(s) PROVE Typed' /\ SamePins(MapWriter)
    BY <1>0, <1>2, WorkerStart, Zenon
       DEF WriterFlush, At, SamePins, Moves, Typed, pages, sweep, ghosts
<1>3. CASE CkptStart
  <2>1. ckpt' \in CkptState
    BY <1>3, <1>0, Zenon DEF CkptStart, NoCheckpoint, CkptState
  <2> QED BY <1>0, <1>1, <1>3, <2>1 DEF CkptStart, Typed, pages, sweep
<1>4. CASE Collect
  <2> DEFINE s == ckpt.next
             take == Has(s, DIRTY) /\ tag[s] # None
             a == IF s + 1 = NSlots THEN "flush" ELSE "collect"
             T == IF take THEN ckpt.targets \cup {s} ELSE ckpt.targets
             B == IF take THEN {CHECKPOINT_NEEDED} ELSE {}
  <2>1. s \in Slots /\ CHECKPOINT_NEEDED \in Flags /\ ckpt.targets \in SUBSET Slots
    BY <1>0, <1>4 DEF Collect, Covered, CHECKPOINT_NEEDED, Flags, CkptState
  <2>2. s + 1 \in 0 .. NSlots /\ T \in SUBSET Slots /\ a \in {"off", "collect", "flush"}
    <3>1. s + 1 \in 0 .. NSlots
      BY <2>1, BufferAssumption DEF Slots
    <3> QED BY <2>1, <3>1
  <2>3. ckpt' = [pc |-> a, next |-> s + 1, targets |-> T] /\ SetBits(s, B, {})
    BY <1>4 DEF Collect
  <2>4. B \in SUBSET Flags
    BY <2>1
  <2> HIDE DEF s, a, T, B
  <2>5. ckpt' \in CkptState
    BY <2>2, <2>3 DEF CkptState
  <2>6. state' \in [Slots -> AnyWord] /\ \A u \in Slots : state'[u].ref = state[u].ref
    BY <1>0, <2>1, <2>3, <2>4 DEF SetBits, AnyWord
  <2> QED BY <1>0, <1>1, <1>4, <2>5, <2>6, Zenon DEF Collect, Typed, pages, sweep, ghosts
<1>5. CASE CkptEnd
  <2> QED BY <1>0, <1>1, <1>5, NoCkptType DEF CkptEnd, Typed, pages, sweep
<1>6. ASSUME NEW s \in Slots, CkptFlush(s) PROVE Typed' /\ \E p \in Proc : SamePins(p)
  <2>1. ckpt' \in CkptState
    BY <1>0, <1>6 DEF CkptFlush, CkptState
  <2>2. CASE {DIRTY, CHECKPOINT_NEEDED} \subseteq state[s].flags
    <3>1. Moves(Checkpointer) /\ proc'[Checkpointer].pin = proc[Checkpointer].pin
      BY <1>6, <2>2, WorkerStart, Zenon DEF CkptFlush, At
    <3> QED BY <1>0, <1>6, <2>1, <3>1
               DEF CkptFlush, SamePins, Moves, Typed, pages, sweep, ghosts
  <2>3. CASE ~({DIRTY, CHECKPOINT_NEEDED} \subseteq state[s].flags)
    BY <1>0, <1>1, <1>6, <2>1, <2>3 DEF CkptFlush, Typed, pages, sweep, ghosts
  <2> QED BY <2>2, <2>3
<1> QED BY <1>0, <1>2, <1>3, <1>4, <1>5, <1>6 DEF Checkpoint

\* Every step keeps the types and counts the pin it takes or drops.
LEMMA PinsNext == ASSUME Typed, Shape, Behind, Covered, Next PROVE Typed' /\ Shape' /\ PinStep
<1>0. Typed /\ Shape /\ Readers \subseteq Proc
    BY ConstantFacts
<1>1. Typed' /\ PinStep
  <2>1. ASSUME NEW r \in Readers, Reader(r) PROVE Typed' /\ PinStep
    <3>1. CASE \/ \E t \in Pages : Lookup(r, t)
               \/ Verify(r) \/ PopFree(r) \/ Tick(r)
      BY <1>0, <3>1, LookPins DEF PinStep
    <3>2. CASE PinHit(r) \/ PinVictim(r) \/ UnpinRetry(r) \/ Done(r)
      BY <1>0, <3>2, CountPins DEF PinStep
    <3>3. CASE BumpUsage(r) \/ Decrement(r) \/ Evict(r) \/ Change(r)
      BY <1>0, <3>3, WordPins DEF PinStep
    <3> QED BY <2>1, <3>1, <3>2, <3>3 DEF Reader
  <2>2. ASSUME NEW p \in Proc, Flusher(p) PROVE Typed' /\ PinStep
    BY <1>0, <2>2, FlusherPins DEF PinStep
  <2>3. CASE Checkpoint \/ \E s \in Slots : WriterFlush(s)
    BY <1>0, <2>3, WorkerPins DEF PinStep
  <2> QED BY <2>1, <2>2, <2>3 DEF Next
<1> QED BY <1>0, <1>1, ShapeStep
-----------------------------------------------------------------------------
(* The cache table.                                                        *)

\* Every step of a reader keeps the types and moves only that reader.
LEMMA ReaderMoves == ASSUME Typed, Shape, Behind, NEW r \in Readers, Reader(r) PROVE Moves(r)
<1>1. CASE \/ \E t \in Pages : Lookup(r, t)
           \/ Verify(r) \/ PopFree(r) \/ Tick(r)
    BY <1>1, LookPins DEF SamePins
<1>2. CASE PinHit(r) \/ PinVictim(r) \/ UnpinRetry(r) \/ Done(r)
    BY <1>2, CountPins DEF Takes, Drops
<1>3. CASE BumpUsage(r) \/ Decrement(r) \/ Evict(r) \/ Change(r)
    BY <1>3, WordPins DEF SamePins
<1> QED BY <1>1, <1>2, <1>3, Zenon DEF Reader

\* Every step of the write of a slot keeps the types and moves only the process that writes.
LEMMA FlusherMoves == ASSUME Typed, Shape, NEW p \in Proc, Flusher(p) PROVE Moves(p)
BY FlusherPins DEF SamePins, Drops

\* The table stays as it is while no slot changes its page, and a process that
\* comes to use a slot has looked at its page.
LEMMA TableKept ==
    ASSUME Table, UNCHANGED <<tag, cache>>, NEW p \in Proc,
           \A q \in Proc : q # p => proc'[q] = proc[q],
           p \in Readers /\ proc'[p].pc = "using" => tag[proc'[p].slot] = proc'[p].page
    PROVE  Table'
BY ConstantFacts DEF Table, PinnedPageStays, OneSlotPerPage, At

\* A reader comes to use a slot only with the page it wants in it.
LEMMA TableReader ==
    ASSUME Pins, Table, Behind, NEW r \in Readers, Reader(r), ~Evict(r)
    PROVE  Table' /\ UNCHANGED <<tag, cache, disk, ckpt, atStart>>
<1>0. Typed /\ Shape /\ r \in Proc /\ ReaderOK(proc[r]) /\ proc \in [Proc -> ProcState]
    BY ReaderFacts DEF Pins, Typed
<1>1. Moves(r)
    BY <1>0, ReaderMoves
<1>2. UNCHANGED <<tag, cache, disk, ckpt, atStart>>
    BY Zenon
       DEF Reader, Lookup, PinHit, BumpUsage, Verify, UnpinRetry, PopFree, Tick, Decrement,
           PinVictim, Change, Done, pages, ghosts
<1>3. proc'[r].pc = "using" => tag[proc'[r].slot] = proc'[r].page
  <2>1. ASSUME NEW t \in Pages, Lookup(r, t) PROVE proc'[r].pc # "using"
    BY <1>0, <2>1, Zenon DEF Lookup, ProcState
  <2>2. CASE PinHit(r) \/ PinVictim(r) \/ BumpUsage(r) \/ Decrement(r)
    BY <1>0, <2>2 DEF PinHit, PinVictim, BumpUsage, Decrement, Goto, ProcState
  <2>3. CASE UnpinRetry(r) \/ Done(r)
    <3>1. CASE UnpinRetry(r)
      <4>1. proc'[r] = [Idle EXCEPT !.pc = "retry", !.page = proc[r].page]
        BY <1>0, <3>1 DEF UnpinRetry
      <4>2. [Idle EXCEPT !.pc = "retry", !.page = proc[r].page].pc = "retry"
        BY DEF Idle
      <4> QED BY <4>1, <4>2
    <3>2. CASE Done(r)
      BY <1>0, <3>2 DEF Done, Idle
    <3> QED BY <2>3, <3>1, <3>2
  <2>4. CASE PopFree(r) \/ Tick(r)
    BY <1>0, <2>4 DEF PopFree, Tick, Idle, At, ProcState
  <2>5. CASE Verify(r)
    BY <1>0, <2>5, Zenon DEF Verify, Goto, ProcState
  <2>6. CASE Change(r)
    BY <1>0, <2>6, Zenon DEF Change, At, Pins, Table, PinnedPageStays
  <2> QED BY <2>1, <2>2, <2>3, <2>4, <2>5, <2>6, Zenon DEF Reader
<1> QED BY <1>0, <1>1, <1>2, <1>3, TableKept, Zenon DEF Moves

\* A page is put into a slot under the slot's only pin, and into no slot when
\* the table has it elsewhere.
LEMMA TableEvict ==
    ASSUME Pins, Table, Behind, NEW r \in Readers, Evict(r)
    PROVE  /\ Table' /\ UNCHANGED <<disk, latest, atStart, ckpt, wrapped, events>>
           /\ \/ UNCHANGED <<state, pages>>
              \/ /\ Install(r, proc[r].slot, proc[r].page) /\ ~Has(proc[r].slot, DIRTY)
                 /\ proc[r].slot \in Slots /\ proc[r].page \in Pages
                 /\ \A u \in Slots : tag[u] # proc[r].page
<1> DEFINE s == proc[r].slot
           t == proc[r].page
<1>0. /\ Typed /\ Shape /\ r \in Proc /\ ReaderOK(proc[r]) /\ proc \in [Proc -> ProcState]
      /\ LonePin /\ None \notin Slots /\ None \notin Pages
    BY ReaderFacts, ConstantFacts, Zenon DEF Pins, Typed
<1>1. s \in Slots /\ t \in Pages /\ proc[r].pin = s
    BY <1>0, Zenon DEF Evict, ReaderOK, Pinning, Aiming
<1>2. UNCHANGED <<disk, latest, atStart, ckpt, wrapped, events>>
    BY Zenon DEF Evict, sweep, ghosts
<1>3. Moves(r)
    BY <1>0, ReaderMoves, Zenon DEF Reader
<1>4. CASE tag[s] = t \/ state[s].ref # 1 \/ Has(s, DIRTY) \/ cache[t] \notin {None, s}
  <2>1. UNCHANGED <<state, pages>>
    BY <1>4 DEF Evict
  <2>2. proc'[r].pc = "using" => tag[s] = t
    BY <1>0, <1>4 DEF Evict, Goto, At, ProcState
  <2>3. proc'[r].slot = s /\ proc'[r].page = t
    BY <1>0, <1>4 DEF Evict, Goto, ProcState
  <2> QED BY <1>0, <1>2, <1>3, <2>1, <2>2, <2>3, TableKept, Zenon DEF Moves, pages
<1>5. CASE ~(tag[s] = t \/ state[s].ref # 1 \/ Has(s, DIRTY) \/ cache[t] \notin {None, s})
  <2>1. Install(r, s, t) /\ ~Has(s, DIRTY)
    BY <1>5, Zenon DEF Evict
  <2>2. \A u \in Slots : tag[u] # t
    BY <1>0, <1>1, <1>5 DEF Table, OneSlotPerPage
  <2>3. /\ tag' = [tag EXCEPT ![s] = t]
        /\ cache' = Cached(s, t)
        /\ proc' = [proc EXCEPT ![r].pc = "using"]
    BY <2>1 DEF Install, Goto
  <2>4. PinnedPageStays'
    <3> SUFFICES ASSUME NEW q \in Readers, proc'[q].pc = "using"
                 PROVE  tag'[proc'[q].slot] = proc'[q].page
      BY DEF PinnedPageStays, At
    <3>1. CASE q = r
      BY <1>0, <1>1, <2>3, <3>1 DEF Typed, ProcState
    <3>2. CASE q # r
      <4>1. q \in Proc /\ proc'[q] = proc[q]
        BY <1>3, <3>2, ConstantFacts, Zenon DEF Moves
      <4>2. /\ tag[proc[q].slot] = proc[q].page
            /\ proc[q].slot \in Slots /\ proc[q].pin = proc[q].slot
        BY <1>0, <4>1, Zenon
           DEF Table, PinnedPageStays, At, Shape, StepOK, ReaderOK, Pinning, Aiming
      <4>3. proc[q].slot # s
        BY <1>0, <1>1, <1>5, <3>2, <4>1, <4>2, Zenon DEF LonePin
      <4> QED BY <1>0, <2>3, <4>1, <4>2, <4>3, Zenon DEF Typed
    <3> QED BY <3>1, <3>2
  <2>5. OneSlotPerPage'
    <3> SUFFICES ASSUME NEW v \in Pages, NEW u \in Slots PROVE tag'[u] = v <=> cache'[v] = u
      BY DEF OneSlotPerPage
    <3>1. tag'[u] = IF u = s THEN t ELSE tag[u]
      BY <1>0, <1>1, <2>3 DEF Typed
    <3>2. cache'[v] = IF v = t THEN s ELSE IF v = tag[s] /\ cache[v] = s THEN None ELSE cache[v]
      BY <2>3 DEF Cached
    <3>3. (tag[u] = v <=> cache[v] = u) /\ (tag[s] = v <=> cache[v] = s)
      BY <1>1 DEF Table, OneSlotPerPage
    <3> QED BY <1>0, <1>1, <2>2, <3>1, <3>2, <3>3
  <2> QED BY <1>1, <1>2, <2>1, <2>2, <2>4, <2>5, Zenon DEF Table
<1> QED BY <1>4, <1>5
-----------------------------------------------------------------------------
(* The data.                                                               *)

\* A step that writes no page, and takes no flag away that says it has to be.
Gentle ==
    /\ UNCHANGED <<tag, content, disk, latest, wrapped>>
    /\ \A s \in Slots : /\ Has(s, DIRTY) => Has(s, DIRTY)'
                        /\ Has(s, CHECKPOINT_NEEDED) => Has(s, CHECKPOINT_NEEDED)'

\* A gentle step loses no change.
LEMMA GentleKeeps == ASSUME Current, ChangesKept, Gentle PROVE Current' /\ ChangesKept'
<1>1. Current'
    BY DEF Current, Gentle
<1>2. ASSUME NEW t \in Pages, Safe(t) PROVE Safe(t)'
    BY <1>2, Zenon DEF Safe, Gentle
<1> QED BY <1>1, <1>2 DEF ChangesKept, Gentle

\* What a running checkpoint owes stays covered in a gentle step.
LEMMA GentleCovers ==
    ASSUME Covered, Gentle, UNCHANGED <<ckpt, atStart>>,
           \A s \in Slots : Owed(s) /\ Has(s, CHECKPOINT_NEEDED) /\ CkptAt(s) => CkptAt(s)'
    PROVE  Covered'
<1>1. ASSUME NEW s \in Slots, Owed(s) PROVE Owed(s)'
    BY <1>1 DEF Owed, Gentle
<1> QED BY <1>1 DEF Covered, Gentle

\* No version runs ahead of the count of events in a step that changes no page.
LEMMA BehindKept ==
    ASSUME Typed, Behind, UNCHANGED <<latest, atStart>>, events' \in {events, events + 1}
    PROVE  Behind'
BY DEF Behind, Typed, Versions, Version

\* A flag is set, or cleared, in one word.
LEMMA WordFlags ==
    ASSUME Typed, NEW s \in Slots, NEW F, state' = [state EXCEPT ![s].flags = F]
    PROVE  /\ state'[s].flags = F
           /\ \A u \in Slots : u # s => state'[u].flags = state[u].flags
BY DEF Typed, AnyWord

\* The data layer survives a gentle step beside the checkpoint.
LEMMA DataKept ==
    ASSUME Typed, Data, Gentle, UNCHANGED <<ckpt, atStart>>, events' \in {events, events + 1},
           \A s \in Slots : Owed(s) /\ Has(s, CHECKPOINT_NEEDED) /\ CkptAt(s) => CkptAt(s)'
    PROVE  Data'
<1>1. Current' /\ ChangesKept'
    BY GentleKeeps DEF Data
<1>2. Covered'
    BY GentleCovers DEF Data
<1>3. Behind'
    BY BehindKept DEF Data, Gentle
<1> QED BY <1>1, <1>2, <1>3 DEF Data

\* The steps of a reader that change no page.
LEMMA DataReader ==
    ASSUME Pins, Data, NEW r \in Readers, Reader(r), ~Evict(r), ~Change(r)
    PROVE  Data'
<1>0. /\ Typed /\ Shape /\ Behind /\ r \in Proc /\ Checkpointer \in Proc /\ r # Checkpointer
      /\ ReaderOK(proc[r]) /\ state \in [Slots -> AnyWord]
    BY ReaderFacts, ConstantFacts, Zenon DEF Pins, Data, Typed
<1>1. Moves(r)
    BY <1>0, ReaderMoves, Zenon
<1>2. \A s \in Slots : CkptAt(s) => CkptAt(s)'
    BY <1>0, <1>1 DEF Moves, CkptAt
<1>3. UNCHANGED <<tag, content, disk, latest, atStart, ckpt, events>>
    BY Zenon
       DEF Reader, Lookup, PinHit, BumpUsage, Verify, UnpinRetry, PopFree, Tick, Decrement,
           PinVictim, Done, pages, ghosts
<1>4. CASE Decrement(r)
  <2> DEFINE s == proc[r].slot
  <2>1. s \in Slots /\ state' = [state EXCEPT ![s] = MinusUsage(state[s])]
               /\ wrapped' = (wrapped \/ state[s].usage = 0)
    BY <1>0, <1>4 DEF Decrement, At, ReaderOK, Pinning, Aiming
  <2>2. CASE ~(wrapped \/ state[s].usage = 0)
    <3>1. wrapped' = wrapped /\ state[s].usage # 0
      BY <1>0, <2>1, <2>2, Zenon DEF Typed
    <3>2. \A u \in Slots : state'[u].flags = state[u].flags
      BY <1>0, <2>1, <3>1, MinusUsageType
    <3>3. Gentle
      BY <1>3, <3>1, <3>2, Zenon DEF Gentle, Has
    <3> QED BY <1>0, <1>2, <1>3, <3>3, DataKept, Zenon
  <2>3. CASE wrapped \/ state[s].usage = 0
    <3>1. wrapped'
      BY <2>1, <2>3, Zenon
    <3>2. Behind'
      BY <1>0, <1>3, BehindKept
    <3> QED BY <1>3, <3>1, <3>2, Zenon DEF Data, Current, ChangesKept, Covered
  <2> QED BY <2>2, <2>3
<1>5. CASE ~Decrement(r)
  <2>1. UNCHANGED wrapped
    BY <1>5, Zenon
       DEF Reader, Lookup, PinHit, BumpUsage, Verify, UnpinRetry, PopFree, Tick,
                PinVictim, Done, sweep
  <2>2. \A u \in Slots : state'[u].flags = state[u].flags
    <3>1. CASE UNCHANGED state
      BY <3>1
    <3>2. CASE PinHit(r) \/ PinVictim(r)
      BY <1>0, <3>2 DEF PinHit, PinVictim, AnyWord
    <3>3. CASE BumpUsage(r)
      BY <1>0, <3>3 DEF BumpUsage, AnyWord
    <3>4. CASE UnpinRetry(r) \/ Done(r)
      BY <1>0, <3>4 DEF UnpinRetry, Done, Unpin, AnyWord
    <3> QED BY <1>5, <3>1, <3>2, <3>3, <3>4, Zenon
               DEF Reader, Lookup, Verify, PopFree, Tick
  <2>3. Gentle
    BY <1>3, <2>1, <2>2, Zenon DEF Gentle, Has
  <2> QED BY <1>0, <1>2, <1>3, <2>3, DataKept
<1> QED BY <1>4, <1>5, Zenon
\* A page is dropped when it is clean, and so current on disk; the page that
\* comes in was in no slot, and so current on disk as well.
LEMMA DataEvict == ASSUME Pins, Table, Data, NEW r \in Readers, Evict(r) PROVE Data'
<1> DEFINE s == proc[r].slot
           t == proc[r].page
<1>0. /\ Typed /\ Shape /\ Behind /\ r \in Proc /\ Checkpointer \in Proc /\ r # Checkpointer
      /\ None \notin Pages
    BY ReaderFacts, ConstantFacts DEF Pins, Data
<1>1. Moves(r)
    BY <1>0, ReaderMoves, Zenon DEF Reader
<1>2. \A u \in Slots : CkptAt(u) => CkptAt(u)'
    BY <1>0, <1>1, Zenon DEF Moves, CkptAt
<1>3. UNCHANGED <<disk, latest, atStart, ckpt, wrapped, events>>
    BY <1>0, TableEvict
<1>4. CASE UNCHANGED <<state, pages>>
  <2>1. Gentle
    BY <1>3, <1>4 DEF Gentle, Has, pages
  <2> QED BY <1>0, <1>2, <1>3, <2>1, DataKept
<1>5. ASSUME Install(r, s, t), ~Has(s, DIRTY), s \in Slots, t \in Pages,
             \A u \in Slots : tag[u] # t
      PROVE  Data'
  <2>1. /\ \A u \in Slots : tag'[u] = IF u = s THEN t ELSE tag[u]
        /\ \A u \in Slots : content'[u] = IF u = s THEN disk[t] ELSE content[u]
    BY <1>0, <1>5, Zenon DEF Install, Typed
  <2>2. \A u \in Slots : state'[u].flags = state[u].flags
    <3>1. state[s] \in AnyWord /\ state' = [state EXCEPT ![s] = OrUsage(state[s])]
      BY <1>0, <1>5, Zenon DEF Install, Typed
    <3>2. OrUsage(state[s]).flags = state[s].flags
      BY <3>1, OrUsageType
    <3> QED BY <1>0, <1>5, <3>1, <3>2 DEF Typed
  <2>3. ~wrapped => disk[t] = latest[t]
    BY <1>5, Zenon DEF Data, ChangesKept, Safe
  <2>4. Current'
    BY <1>0, <1>3, <2>1, <2>3, Zenon DEF Data, Current
  <2>5. ASSUME NEW v \in Pages, Safe(v) PROVE Safe(v)'
    BY <1>3, <1>5, <2>1, <2>2, <2>5 DEF Safe, Has
  <2>6. ChangesKept'
    BY <1>3, <2>5, Zenon DEF Data, ChangesKept
  <2>7. ASSUME NEW u \in Slots, Owed(u) PROVE Owed(u)' /\ tag'[u] = tag[u]
    BY <1>2, <1>3, <1>5, <2>1, <2>2, <2>7, Zenon DEF Owed, Has
  <2>8. Covered'
    BY <1>3, <2>7 DEF Data, Covered
  <2>9. Behind'
    BY <1>0, <1>3, BehindKept
  <2> QED BY <2>4, <2>6, <2>8, <2>9 DEF Data
<1> QED BY <1>0, <1>4, <1>5, TableEvict, Zenon

\* A page is changed in the one slot that has it.
LEMMA DataChange == ASSUME Pins, Table, Data, NEW r \in Readers, Change(r) PROVE Data'
<1> DEFINE s == proc[r].slot
           t == proc[r].page
<1>0. /\ Typed /\ Shape /\ Behind /\ r \in Proc /\ ReaderOK(proc[r]) /\ None \notin Pages
      /\ tag \in [Slots -> MaybePage] /\ MaxEvents \in Nat
    BY ReaderFacts, ConstantFacts, Zenon DEF Pins, Data, Typed
<1>1. s \in Slots /\ t \in Pages /\ tag[s] = t
    BY <1>0, Zenon DEF Change, At, ReaderOK, Pinning, Aiming, Table, PinnedPageStays
<1>2. ASSUME NEW u \in Slots, u # s PROVE tag[u] # t
  <2>1. cache[t] = s
    BY <1>1 DEF Table, OneSlotPerPage
  <2>2. tag[u] = t => cache[t] = u
    BY <1>1 DEF Table, OneSlotPerPage
  <2> QED BY <1>2, <2>1, <2>2
<1>3. UNCHANGED <<tag, disk, atStart, ckpt, wrapped, proc>>
    BY DEF Change, sweep
<1>4. /\ \A v \in Pages : latest'[v] = IF v = t THEN latest[t] + 1 ELSE latest[v]
      /\ \A u \in Slots : content'[u] = IF u = s THEN latest[t] + 1 ELSE content[u]
      /\ events' = events + 1
    BY <1>0, <1>1, ZenonT(60) DEF Change, Event, Typed, Versions
<1>5. /\ Has(s, DIRTY)'
      /\ \A u \in Slots : Has(u, DIRTY) => Has(u, DIRTY)'
      /\ \A u \in Slots : Has(u, CHECKPOINT_NEEDED) => Has(u, CHECKPOINT_NEEDED)'
  <2> DEFINE F == (state[s].flags \cup {DIRTY, JUST_DIRTIED}) \ {}
  <2>1. state' = [state EXCEPT ![s].flags = F]
    BY DEF Change, SetBits
  <2>2. DIRTY \in F /\ state[s].flags \subseteq F
    OBVIOUS
  <2> HIDE DEF F
  <2>3. state'[s].flags = F /\ \A u \in Slots : u # s => state'[u].flags = state[u].flags
    BY <1>0, <1>1, <2>1, WordFlags, Zenon
  <2>4. \A u \in Slots : \A f \in state[u].flags : f \in state'[u].flags
    <3> SUFFICES ASSUME NEW u \in Slots, NEW f \in state[u].flags PROVE f \in state'[u].flags
      OBVIOUS
    <3>1. CASE u = s
      BY <2>2, <2>3, <3>1
    <3>2. CASE u # s
      BY <2>3, <3>2, Zenon
    <3> QED BY <3>1, <3>2
  <2> QED BY <1>1, <1>3, <2>2, <2>3, <2>4, Zenon DEF Has
<1>6. Current'
    BY <1>0, <1>1, <1>2, <1>3, <1>4 DEF Data, Current, MaybePage
<1>7. ASSUME NEW v \in Pages, Safe(v) PROVE Safe(v)'
  <2>1. CASE v = t
    BY <1>1, <1>3, <1>4, <1>5, <2>1, ZenonT(60) DEF Safe
  <2>2. CASE v # t
    BY <1>1, <1>3, <1>4, <1>5, <1>7, <2>2, Zenon DEF Safe
  <2> QED BY <2>1, <2>2
<1>8. ChangesKept'
    BY <1>3, <1>7 DEF Data, ChangesKept
<1>9. Behind'
  <2> SUFFICES ASSUME NEW v \in Pages PROVE latest'[v] <= events + 1 /\ atStart[v] <= latest'[v]
    BY <1>3, <1>4 DEF Behind
  <2>1. latest[v] \in Nat /\ atStart[v] \in Nat /\ events \in Nat
    BY <1>0 DEF Typed, Versions, Version
  <2>2. latest[v] <= events /\ atStart[v] <= latest[v]
    BY <1>0, Zenon DEF Behind
  <2>3. latest'[v] \in {latest[v], latest[v] + 1}
    BY <1>4, Zenon
  <2> QED BY <2>1, <2>2, <2>3
<1>10. ASSUME NEW u \in Slots, Owed(u) PROVE Owed(u)'
    BY <1>3, <1>5, <1>10, Zenon DEF Owed, CkptAt
<1>11. Covered'
    BY <1>3, <1>10 DEF Data, Covered
<1> QED BY <1>6, <1>8, <1>9, <1>11, Zenon DEF Data

\* A write brings the page of its slot up to date, whatever it clears.
LEMMA DataWriteBack == ASSUME Pins, Data, NEW p \in Proc, WriteBack(p) PROVE Data'
<1> DEFINE s == proc[p].slot
<1>0. Typed /\ Shape /\ Behind /\ None \notin Pages /\ tag \in [Slots -> MaybePage]
           /\ proc[p].pc = "writing"
    BY ConstantFacts DEF Pins, Data, Typed, WriteBack, At
<1>1. s \in Slots
    BY <1>0, StepFacts, Zenon
<1>2. Moves(p)
    BY <1>0, FlusherMoves, Zenon DEF Flusher
<1>3. UNCHANGED <<tag, content, latest, atStart, ckpt, wrapped, events>>
    BY DEF WriteBack, pages, sweep, ghosts
<1>4. \A u \in Slots : u # s => state'[u].flags = state[u].flags
  <2>1. state' = [state EXCEPT ![s].flags = Terminated(state[s].flags)]
    BY <1>0, <1>1 DEF WriteBack, Typed
  <2> QED BY <1>0, <1>1, <2>1, WordFlags
<1>5. \A v \in Pages : disk'[v] = IF v = tag[s] THEN content[s] ELSE disk[v]
    BY <1>0, <1>1 DEF WriteBack, Typed, Versions, MaybePage
<1>6. Current'
    BY <1>3 DEF Data, Current
<1>7. ASSUME ~wrapped, NEW v \in Pages, v = tag[s] PROVE disk'[v] = latest[v]
    BY <1>0, <1>1, <1>5, <1>7 DEF Data, Current
<1>8. ASSUME ~wrapped, NEW v \in Pages, Safe(v) PROVE Safe(v)'
  <2>1. CASE v = tag[s]
    BY <1>3, <1>7, <1>8, <2>1, Zenon DEF Safe
  <2>2. CASE v # tag[s]
    BY <1>1, <1>3, <1>4, <1>5, <1>8, <2>2, Zenon DEF Safe, Has
  <2> QED BY <2>1, <2>2
<1>9. ChangesKept'
    BY <1>3, <1>8, Zenon DEF Data, ChangesKept
<1>10. ASSUME NEW u \in Slots, u # s, Owed(u) PROVE Owed(u)'
  <2>1. CkptAt(u) => CkptAt(u)'
    BY <1>2, <1>10, ConstantFacts, Zenon DEF Moves, CkptAt
  <2> QED BY <1>3, <1>4, <1>10, <2>1, Zenon DEF Owed, Has
<1>11. ASSUME ~wrapped, NEW v \in Pages, v = tag[s] PROVE disk'[v] >= atStart[v]
    BY <1>0, <1>7, <1>11, Zenon DEF Behind, Typed, Versions, Version
<1>12. Covered'
  <2> SUFFICES ASSUME ~wrapped, ckpt.pc # "off", NEW v \in Pages
               PROVE  disk'[v] >= atStart[v] \/ \E u \in Slots : tag[u] = v /\ Owed(u)'
    BY <1>3 DEF Data, Covered
  <2>1. CASE v = tag[s]
    BY <1>11, <2>1, Zenon
  <2>2. CASE v # tag[s]
    BY <1>1, <1>5, <1>10, <2>2, Zenon DEF Data, Covered
  <2> QED BY <2>1, <2>2
<1>13. Behind'
    BY <1>0, <1>3, BehindKept
<1> QED BY <1>6, <1>9, <1>12, <1>13 DEF Data

\* Without a checkpoint nothing is owed.
LEMMA DataOff ==
    ASSUME Typed, Data, Gentle, ckpt' = NoCheckpoint, atStart' = [t \in Pages |-> 0],
           events' \in {events, events + 1}
    PROVE  Data'
<1>1. Current' /\ ChangesKept'
    BY GentleKeeps, Zenon DEF Data
<1>2. Covered'
    BY DEF Covered, NoCheckpoint
<1>3. Behind'
    BY DEF Data, Behind, Gentle, Typed, Versions, Version
<1> QED BY <1>1, <1>2, <1>3 DEF Data

\* The other steps of a flusher write nothing.
LEMMA DataFlusher == ASSUME Pins, Data, NEW p \in Proc, Flusher(p) PROVE Data'
<1> DEFINE s == proc[p].slot
<1>0. /\ Typed /\ Shape /\ Behind /\ Checkpointer \in Proc /\ state \in [Slots -> AnyWord]
      /\ Checkpointer \notin Readers
    BY ConstantFacts DEF Pins, Data, Typed
<1>1. Moves(p)
    BY <1>0, FlusherMoves
<1>2. p # Checkpointer => \A u \in Slots : CkptAt(u) => CkptAt(u)'
    BY <1>0, <1>1 DEF Moves, CkptAt
<1>3. CASE StartBufferIO(p)
  <2>1. s \in Slots /\ proc[p].pc = "start"
    BY <1>0, <1>3, StepFacts, ZenonT(60) DEF StartBufferIO, At
  <2>2. UNCHANGED <<tag, content, disk, latest, wrapped, ckpt, atStart, events>>
    BY <1>3 DEF StartBufferIO, pages, sweep, ghosts
  <2>3. Gentle
    <3>1. CASE UNCHANGED state
      BY <2>2, <3>1, Zenon DEF Gentle, Has
    <3>2. CASE SetBits(s, {IO_IN_PROGRESS}, {IO_ERROR, JUST_DIRTIED})
      <4> DEFINE F == (state[s].flags \cup {IO_IN_PROGRESS}) \ {IO_ERROR, JUST_DIRTIED}
      <4>1. state' = [state EXCEPT ![s].flags = F]
        BY <3>2 DEF SetBits
      <4>2. /\ DIRTY \in state[s].flags => DIRTY \in F
            /\ CHECKPOINT_NEEDED \in state[s].flags => CHECKPOINT_NEEDED \in F
        BY DEF DIRTY, CHECKPOINT_NEEDED, IO_ERROR, JUST_DIRTIED
      <4> HIDE DEF F
      <4>3. state'[s].flags = F /\ \A u \in Slots : u # s => state'[u].flags = state[u].flags
        BY <1>0, <2>1, <4>1, WordFlags
      <4> QED BY <2>1, <2>2, <4>2, <4>3 DEF Gentle, Has
    <3> QED BY <1>3, <3>1, <3>2, Zenon DEF StartBufferIO
  <2>4. ASSUME NEW u \in Slots, Owed(u), Has(u, CHECKPOINT_NEEDED), CkptAt(u) PROVE CkptAt(u)'
    <3>1. CASE p # Checkpointer
      BY <1>2, <2>4, <3>1
    <3>2. CASE p = Checkpointer
      <4>1. u = s
        BY <2>4, <3>2, Zenon DEF CkptAt
      <4>2. {DIRTY} \cup Required(p) \subseteq state[s].flags
        BY <2>4, <3>2, <4>1 DEF Owed, Has, Required
      <4>3. "writing" \in Steps /\ proc' = [proc EXCEPT ![p].pc = "writing"]
        BY <1>3, <4>2 DEF StartBufferIO, Goto, Steps
      <4>4. proc'[p].pc = "writing" /\ proc'[p].slot = s
        BY <1>0, <4>3, ProcGoto, Zenon
      <4> QED BY <3>2, <4>1, <4>4, Zenon DEF CkptAt
    <3> QED BY <3>1, <3>2
  <2> QED BY <1>0, <2>2, <2>3, <2>4, DataKept
<1>4. CASE WriteBack(p)
    BY <1>4, DataWriteBack
<1>5. CASE WriteFails(p)
  <2>1. UNCHANGED <<state, tag, content, disk, latest, wrapped>> /\ events' = events + 1
    BY <1>5 DEF WriteFails, Event, pages, sweep
  <2>2. Gentle
    BY <2>1 DEF Gentle, Has
  <2>3. CASE p # Checkpointer
    <3>1. UNCHANGED <<ckpt, atStart>>
      BY <1>5, <2>3 DEF WriteFails
    <3> QED BY <1>0, <1>2, <2>1, <2>2, <2>3, <3>1, DataKept, Zenon
  <2>4. CASE p = Checkpointer
    <3>1. ckpt' = NoCheckpoint /\ atStart' = [t \in Pages |-> 0]
      BY <1>5, <2>4 DEF WriteFails
    <3> QED BY <1>0, <2>1, <2>2, <3>1, DataOff
  <2> QED BY <2>3, <2>4
<1>6. CASE Cleanup(p)
  <2>1. s \in Slots /\ proc[p].pc = "failed" /\ state[s] \in AnyWord
    BY <1>0, <1>6, StepFacts, Zenon DEF Cleanup, At
  <2>2. UNCHANGED <<tag, content, disk, latest, wrapped, ckpt, atStart, events>>
    BY <1>6, Zenon DEF Cleanup, pages, sweep, ghosts
  <2>3. \A u \in Slots : CkptAt(u) => CkptAt(u)'
    BY <1>2, <2>1, Zenon DEF CkptAt
  <2>4. Gentle
    <3> DEFINE F == IF IO_IN_PROGRESS \in state[s].flags
                    THEN (state[s].flags \ {IO_IN_PROGRESS}) \cup {IO_ERROR} ELSE state[s].flags
               R == IF proc[p].pin = s THEN state[s].ref - 1 ELSE state[s].ref
    <3>1. state' = [state EXCEPT ![s] = [state[s] EXCEPT !.ref = R, !.flags = F]]
      BY <1>0, <1>6, <2>1, ZenonT(60) DEF Cleanup
    <3>2. /\ DIRTY \in state[s].flags => DIRTY \in F
          /\ CHECKPOINT_NEEDED \in state[s].flags => CHECKPOINT_NEEDED \in F
      BY DEF DIRTY, CHECKPOINT_NEEDED, IO_IN_PROGRESS
    <3> HIDE DEF F, R
    <3>3. state'[s].flags = F /\ \A u \in Slots : u # s => state'[u].flags = state[u].flags
      BY <1>0, <2>1, <3>1 DEF AnyWord
    <3> QED BY <2>1, <2>2, <3>2, <3>3 DEF Gentle, Has
  <2> QED BY <1>0, <2>2, <2>3, <2>4, DataKept, Zenon
<1> QED BY <1>3, <1>4, <1>5, <1>6 DEF Flusher
\* What the checkpoint has looked at it has collected.
LEMMA DataCollect == ASSUME Pins, Data, Collect PROVE Data'
<1> DEFINE s == ckpt.next
           take == Has(s, DIRTY) /\ tag[s] # None
           F == (state[s].flags \cup (IF take THEN {CHECKPOINT_NEEDED} ELSE {})) \ {}
<1>0. /\ Typed /\ s \in Slots /\ ckpt.pc = "collect" /\ None \notin Pages
      /\ \A u \in Slots : u \in Nat /\ u < NSlots
      /\ NSlots \in Nat
    BY ConstantFacts, Zenon DEF Pins, Data, Covered, Collect
<1>1. UNCHANGED <<tag, content, disk, latest, wrapped, proc, atStart, events>>
    BY Zenon DEF Collect, pages, sweep, ghosts
<1>2. /\ ckpt'.pc = IF s + 1 = NSlots THEN "flush" ELSE "collect"
      /\ ckpt'.next = s + 1
      /\ ckpt'.targets = IF take THEN ckpt.targets \cup {s} ELSE ckpt.targets
    BY DEF Collect
<1>3. state' = [state EXCEPT ![s].flags = F]
    BY DEF Collect, SetBits
<1>4. state[s].flags \subseteq F /\ (take => CHECKPOINT_NEEDED \in F)
    OBVIOUS
<1> HIDE DEF F
<1>5. state'[s].flags = F /\ \A u \in Slots : u # s => state'[u].flags = state[u].flags
    BY <1>0, <1>3, WordFlags, Zenon
<1>6. \A u \in Slots : state[u].flags \subseteq state'[u].flags
  <2> SUFFICES ASSUME NEW u \in Slots PROVE state[u].flags \subseteq state'[u].flags
    OBVIOUS
  <2>1. CASE u = s
    BY <1>4, <1>5, <2>1
  <2>2. CASE u # s
    BY <1>5, <2>2
  <2> QED BY <2>1, <2>2
<1>7. Gentle
    BY <1>1, <1>6 DEF Gentle, Has
<1>8. ASSUME NEW u \in Slots, Owed(u), tag[u] \in Pages PROVE Owed(u)'
  <2>1. Has(u, DIRTY)'
    BY <1>7, <1>8 DEF Owed, Gentle
  <2>2. CASE u = s
    <3>1. take
      BY <1>0, <1>8, <2>2, Zenon DEF Owed
    <3>2. CHECKPOINT_NEEDED \in state'[u].flags /\ u \in ckpt'.targets
      BY <1>2, <1>4, <1>5, <2>2, <3>1, Zenon
    <3> QED BY <2>1, <3>2 DEF Owed, Has
  <2>3. CASE u # s /\ ckpt.next <= u
    <3>1. s + 1 <= u /\ s + 1 # NSlots
      BY <1>0, <1>8, <2>3
    <3>2. ckpt'.pc = "collect" /\ ckpt'.next <= u
      BY <1>2, <3>1
    <3> QED BY <2>1, <3>2 DEF Owed
  <2>4. CASE Has(u, CHECKPOINT_NEEDED) /\ (u \in ckpt.targets \/ CkptAt(u))
    <3>1. Has(u, CHECKPOINT_NEEDED)'
      BY <1>7, <1>8, <2>4, Zenon DEF Gentle
    <3>2. u \in ckpt'.targets \/ CkptAt(u)'
      BY <1>1, <1>2, <2>4 DEF CkptAt
    <3> QED BY <2>1, <3>1, <3>2, Zenon DEF Owed
  <2> QED BY <1>8, <2>2, <2>3, <2>4, Zenon DEF Owed
<1>9. Covered'
  <2>1. ckpt'.pc = "collect" => ckpt'.next \in Slots
    BY <1>0, <1>2 DEF Slots
  <2>2. ASSUME ~wrapped', NEW t \in Pages
        PROVE  disk'[t] >= atStart'[t] \/ \E u \in Slots : tag'[u] = t /\ Owed(u)'
    BY <1>0, <1>1, <1>8, <2>2 DEF Data, Covered
  <2> QED BY <2>1, <2>2 DEF Covered
<1>10. Current' /\ ChangesKept'
    BY <1>7, GentleKeeps DEF Data
<1>11. Behind'
    BY <1>0, <1>1, BehindKept DEF Data
<1> QED BY <1>9, <1>10, <1>11, Zenon DEF Data

\* The other steps of the mapwriter and of the checkpoint.
LEMMA DataWorker ==
    ASSUME Pins, Data, Checkpoint \/ \E s \in Slots : WriterFlush(s) PROVE Data'
<1>0. /\ Typed /\ Shape /\ Checkpointer \in Proc /\ MapWriter \in Proc /\ Checkpointer # MapWriter
      /\ Slots \subseteq Nat /\ 0 \in Slots
    BY ConstantFacts DEF Pins
<1>1. ASSUME NEW s \in Slots, WriterFlush(s) PROVE Data'
  <2>1. UNCHANGED <<state, tag, content, disk, latest, wrapped, ckpt, atStart, events>>
    BY <1>1, Zenon DEF WriterFlush, pages, sweep, ghosts
  <2>2. Gentle
    BY <2>1 DEF Gentle, Has
  <2>3. proc'[Checkpointer] = proc[Checkpointer]
    BY <1>0, <1>1, Zenon DEF WriterFlush, Typed
  <2>4. \A u \in Slots : CkptAt(u) => CkptAt(u)'
    BY <2>3 DEF CkptAt
  <2> QED BY <1>0, <2>1, <2>2, <2>4, DataKept
<1>2. CASE CkptStart
  <2>1. UNCHANGED <<state, tag, content, disk, latest, wrapped, proc, events>>
    BY <1>2 DEF CkptStart, pages, sweep
  <2>2. Gentle
    BY <2>1 DEF Gentle, Has
  <2>3. Current' /\ ChangesKept'
    BY <2>2, GentleKeeps DEF Data
  <2>4. atStart' = latest /\ ckpt'.pc = "collect" /\ ckpt'.next = 0
    BY <1>2 DEF CkptStart, NoCheckpoint
  <2>5. Behind'
    BY <1>0, <2>1, <2>4 DEF Data, Behind, Typed, Versions, Version
  <2>6. ASSUME NEW s \in Slots, Has(s, DIRTY) PROVE Owed(s)'
    BY <1>0, <2>1, <2>4, <2>6 DEF Owed, Has
  <2>7. ASSUME ~wrapped, NEW t \in Pages
        PROVE  disk[t] >= latest[t] \/ \E s \in Slots : tag[s] = t /\ Owed(s)'
    <3>1. Safe(t) /\ latest[t] \in Int
      BY <1>0, <2>7 DEF Data, ChangesKept, Typed, Versions, Version
    <3>2. CASE disk[t] = latest[t]
      BY <3>1, <3>2
    <3>3. ASSUME NEW s \in Slots, tag[s] = t, Has(s, DIRTY) PROVE Owed(s)'
      BY <2>6, <3>3
    <3> QED BY <3>1, <3>2, <3>3 DEF Safe
  <2>8. Covered'
    BY <1>0, <2>1, <2>4, <2>7 DEF Covered
  <2> QED BY <2>3, <2>5, <2>8 DEF Data
<1>3. CASE Collect
    BY <1>3, DataCollect
<1>4. CASE CkptEnd
  <2>1. /\ UNCHANGED <<state, tag, content, disk, latest, wrapped, events>>
        /\ ckpt' = NoCheckpoint /\ atStart' = [t \in Pages |-> 0]
    BY <1>4 DEF CkptEnd, pages, sweep
  <2>2. Gentle
    BY <2>1 DEF Gentle, Has
  <2> QED BY <1>0, <2>1, <2>2, DataOff
<1>5. ASSUME NEW s \in Slots, CkptFlush(s) PROVE Data'
  <2>1. UNCHANGED <<state, tag, content, disk, latest, wrapped, atStart, events>>
    BY <1>5 DEF CkptFlush, pages, sweep, ghosts
  <2>2. ckpt.pc = "flush" /\ ckpt'.pc = "flush" /\ ckpt'.targets = ckpt.targets \ {s}
    BY <1>0, <1>5 DEF CkptFlush, Typed, CkptState
  <2>3. Gentle
    BY <2>1 DEF Gentle, Has
  <2>4. ASSUME NEW u \in Slots, Owed(u) PROVE Owed(u)'
    <3>1. Has(u, DIRTY) /\ Has(u, CHECKPOINT_NEEDED) /\ u \in ckpt.targets
      BY <1>5, <2>2, <2>4, Zenon DEF Owed, CkptFlush, At, CkptAt
    <3>2. CASE u # s
      BY <2>1, <2>2, <3>1, <3>2, Zenon DEF Owed, Has
    <3>3. CASE u = s
      <4>1. proc' = [proc EXCEPT ![Checkpointer] = [Idle EXCEPT !.pc = "start", !.slot = s]]
        BY <1>5, <3>1, <3>3 DEF CkptFlush, Has
      <4>2. CkptAt(u)'
        BY <1>0, <1>5, <3>3, <4>1, WorkerStart, ZenonT(60) DEF CkptAt, CkptFlush, At
      <4> QED BY <2>1, <3>1, <4>2 DEF Owed, Has
    <3> QED BY <3>2, <3>3
  <2>5. Covered'
    BY <2>1, <2>2, <2>4 DEF Data, Covered
  <2>6. Current' /\ ChangesKept'
    BY <2>3, GentleKeeps DEF Data
  <2>7. Behind'
    BY <1>0, <2>1, BehindKept DEF Data
  <2> QED BY <2>5, <2>6, <2>7 DEF Data
<1> QED BY <1>1, <1>2, <1>3, <1>4, <1>5 DEF Checkpoint
-----------------------------------------------------------------------------
(* The whole system.                                                       *)

\* Every step keeps the cache table layer.
LEMMA TableNext == ASSUME Pins, Table, Data, Next PROVE Table'
<1>0. /\ Typed /\ Shape /\ Behind /\ MapWriter \in Proc /\ Checkpointer \in Proc
      /\ MapWriter \notin Readers /\ Checkpointer \notin Readers
      /\ proc \in [Proc -> ProcState]
    BY ConstantFacts DEF Pins, Data, Typed
<1>1. ASSUME NEW r \in Readers, Reader(r) PROVE Table'
    BY <1>0, <1>1, TableReader, TableEvict, Zenon
<1>2. ASSUME NEW p \in Proc, Flusher(p) PROVE Table'
  <2>1. UNCHANGED <<tag, cache>>
    BY <1>2, Zenon DEF Flusher, StartBufferIO, WriteBack, WriteFails, Cleanup, pages
  <2>2. \A q \in Proc : q # p => proc'[q] = proc[q]
    BY <1>0, <1>2, FlusherMoves DEF Moves
  <2>3. proc'[p].pc # "using"
    <3>1. Return(p) => proc'[p].pc \in {"evict2", "idle"}
      BY <1>0 DEF Return, Idle, ProcState
    <3>2. \A c \in {"writing", "failed"} : Goto(p, c) => proc'[p].pc = c
      BY <1>0 DEF Goto, ProcState
    <3>3. proc' = [proc EXCEPT ![p] = Idle] => proc'[p].pc = "idle"
      BY <1>0 DEF Idle
    <3> QED BY <1>2, <3>1, <3>2, <3>3, Zenon
            DEF Flusher, StartBufferIO, WriteBack, WriteFails, Cleanup
  <2> QED BY <2>1, <2>2, <2>3, TableKept
<1>3. ASSUME NEW s \in Slots, WriterFlush(s) PROVE Table'
    BY <1>0, <1>3, TableKept DEF WriterFlush, pages
<1>4. CASE Checkpoint
  <2>1. UNCHANGED <<tag, cache>>
    BY <1>4, Zenon DEF Checkpoint, CkptStart, Collect, CkptEnd, CkptFlush, pages
  <2>2. \A q \in Proc : q # Checkpointer => proc'[q] = proc[q]
    BY <1>0, <1>4, Zenon DEF Checkpoint, CkptStart, Collect, CkptEnd, CkptFlush
  <2> QED BY <1>0, <2>1, <2>2, TableKept
<1> QED BY <1>1, <1>2, <1>3, <1>4, Zenon DEF Next

\* Every step keeps the data layer.
LEMMA DataNext == ASSUME Pins, Table, Data, Next PROVE Data'
<1>1. ASSUME NEW r \in Readers, Reader(r) PROVE Data'
    BY <1>1, DataReader, DataEvict, DataChange
<1>2. ASSUME NEW p \in Proc, Flusher(p) PROVE Data'
    BY <1>2, DataFlusher
<1>3. CASE Checkpoint \/ \E s \in Slots : WriterFlush(s)
    BY <1>3, DataWorker
<1> QED BY <1>1, <1>2, <1>3 DEF Next

\* The invariant survives a stuttering step.
LEMMA StutterIInv == ASSUME IInv, UNCHANGED vars PROVE IInv'
<1> USE DEF vars
<1>1. Typed' /\ Shape' /\ PinsCounted'
    BY Zenon DEF IInv, Typed, Shape, PinsCounted
<1>2. Table'
    BY Zenon DEF IInv, Table, PinnedPageStays, OneSlotPerPage, At
<1>3. Data'
  <2>1. Current' /\ Behind'
    BY Zenon DEF IInv, Data, Current, Behind
  <2>2. ChangesKept'
    BY Zenon DEF IInv, Data, ChangesKept, Safe, Has
  <2>3. Covered'
    BY DEF IInv, Data, Covered, Owed, CkptAt, Has
  <2> QED BY <2>1, <2>2, <2>3, Zenon DEF Data
<1> QED BY <1>1, <1>2, <1>3, Zenon DEF IInv

-----------------------------------------------------------------------------
(* The pins are counted.                                                   *)

INSTANCE FiniteSetTheorems

\* There are finitely many processes.
LEMMA ProcFinite == IsFiniteSet(Proc) /\ IsFiniteSet(Readers)
<1>1. IsFiniteSet(Readers)
    BY BufferAssumption
<1>2. IsFiniteSet(Readers \cup {MapWriter})
    BY <1>1, FS_AddElement
<1>3. IsFiniteSet((Readers \cup {MapWriter}) \cup {Checkpointer})
    BY <1>2, FS_AddElement
<1>4. Proc = (Readers \cup {MapWriter}) \cup {Checkpointer}
    BY DEF Proc
<1> QED BY <1>1, <1>3, <1>4

\* The processes that have a slot pinned; workers are never among them.
Holders(s) == {p \in Proc : proc[p].pin = s}

\* Finitely many processes hold a slot, before and after a step.
LEMMA HoldersFinite == ASSUME NEW s PROVE IsFiniteSet(Holders(s)) /\ IsFiniteSet(Holders(s)')
BY ProcFinite, FS_Subset DEF Holders

\* The reference counts follow the set of holders through a step.
LEMMA PinsStep == ASSUME PinsCounted, PinStep, Typed PROVE PinsCounted'
<1> SUFFICES ASSUME NEW s \in Slots PROVE state'[s].ref = Cardinality(Holders(s)')
    BY DEF PinsCounted, Holders
<1>1. state[s].ref = Cardinality(Holders(s)) /\ IsFiniteSet(Holders(s)) /\ None \notin Slots
    BY HoldersFinite, ConstantFacts, Zenon DEF PinsCounted, Holders
<1>2. PICK p \in Proc : SamePins(p) \/ \E u \in Slots : Takes(p, u) \/ Drops(p, u)
    BY Zenon DEF PinStep
<1>3. CASE SamePins(p)
  <2>1. \A q \in Proc : proc'[q].pin = proc[q].pin
    BY <1>3 DEF SamePins, Moves
  <2>2. Holders(s)' = Holders(s)
    BY <2>1 DEF Holders
  <2> QED BY <1>1, <1>3, <2>2 DEF SamePins
<1>4. ASSUME NEW u \in Slots, Takes(p, u) PROVE state'[s].ref = Cardinality(Holders(s)')
  <2>1. /\ \A q \in Proc : q # p => proc'[q].pin = proc[q].pin
        /\ proc[p].pin = None /\ proc'[p].pin = u
    BY <1>4, Zenon DEF Takes, Moves
  <2>2. CASE u = s
    <3>1. Holders(s)' = Holders(s) \cup {p} /\ p \notin Holders(s)
      BY <1>1, <2>1, <2>2 DEF Holders
    <3>2. Cardinality(Holders(s) \cup {p}) = Cardinality(Holders(s)) + 1
      BY <1>1, <3>1, FS_AddElement, Zenon
    <3> QED BY <1>1, <1>4, <2>2, <3>1, <3>2, Zenon DEF Takes
  <2>3. CASE u # s
    <3>1. Holders(s)' = Holders(s)
      BY <1>1, <2>1, <2>3, Zenon DEF Holders
    <3> QED BY <1>1, <1>4, <2>3, <3>1, Zenon DEF Takes, SameRefs
  <2> QED BY <2>2, <2>3, Zenon
<1>5. ASSUME NEW u \in Slots, Drops(p, u) PROVE state'[s].ref = Cardinality(Holders(s)')
  <2>1. /\ \A q \in Proc : q # p => proc'[q].pin = proc[q].pin
        /\ proc[p].pin = u /\ proc'[p].pin = None
    BY <1>5, Zenon DEF Drops, Moves
  <2>2. CASE u = s
    <3>1. Holders(s)' = Holders(s) \ {p} /\ p \in Holders(s)
      BY <1>1, <2>1, <2>2 DEF Holders
    <3>2. Cardinality(Holders(s) \ {p}) = Cardinality(Holders(s)) - 1
      BY <1>1, <3>1, FS_RemoveElement, Zenon
    <3> QED BY <1>1, <1>5, <2>2, <3>1, <3>2, Zenon DEF Drops
  <2>3. CASE u # s
    <3>1. Holders(s)' = Holders(s)
      BY <1>1, <2>1, <2>3 DEF Holders
    <3> QED BY <1>1, <1>5, <2>3, <3>1, Zenon DEF Drops, SameRefs
  <2> QED BY <2>2, <2>3
<1> QED BY <1>2, <1>3, <1>4, <1>5, Zenon

\* A slot with one pin is pinned by nobody else.
LEMMA OnePin == ASSUME PinsCounted PROVE LonePin
<1> SUFFICES ASSUME NEW s \in Slots, NEW p \in Proc, NEW q \in Proc,
                    state[s].ref = 1, proc[p].pin = s, proc[q].pin = s
             PROVE  p = q
    BY DEF LonePin
<1>1. Cardinality(Holders(s)) = 1 /\ IsFiniteSet(Holders(s))
    BY HoldersFinite, Zenon DEF PinsCounted, Holders
<1>2. PICK x : Holders(s) = {x}
    BY <1>1, FS_Singleton, Zenon
<1>3. p \in Holders(s) /\ q \in Holders(s)
    BY DEF Holders
<1> QED BY <1>2, <1>3

\* A number within bounds is in their range.
LEMMA InRange == ASSUME NEW a \in Nat, NEW m \in Nat, a <= m PROVE a \in 0 .. m
OBVIOUS

\* Only readers pin, so no count exceeds their number.
LEMMA TypedOK == Typed /\ Shape /\ PinsCounted => TypeOK
<1> SUFFICES ASSUME Typed, Shape, PinsCounted PROVE TypeOK
    OBVIOUS
<1>1. ASSUME NEW s \in Slots PROVE state[s] \in Word
  <2>1. Holders(s) \subseteq Readers
    BY ConstantFacts DEF Holders, Shape, StepOK, WorkerOK
  <2>2. Cardinality(Holders(s)) \in Nat /\ Cardinality(Holders(s)) <= Cardinality(Readers)
             /\ Cardinality(Readers) \in Nat
    BY <2>1, ProcFinite, FS_Subset, FS_CardinalityType, Zenon
  <2>3. state[s].ref = Cardinality(Holders(s)) /\ state[s] \in AnyWord
    BY DEF PinsCounted, Holders, Typed
  <2>4. state[s].ref \in 0 .. Cardinality(Readers)
    BY <2>2, <2>3, InRange, Zenon
  <2> QED BY <2>3, <2>4, Zenon DEF AnyWord, Word
<1> QED BY <1>1 DEF Typed, TypeOK

\* The empty pool satisfies the invariant.
LEMMA InitIInv == Init => IInv
<1> SUFFICES ASSUME Init PROVE IInv
    OBVIOUS
<1>0. /\ Idle \in ProcState
      /\ NSlots \in Nat /\ UsageMod \in Nat /\ UsageMod > 1 /\ MaxEvents \in Nat
      /\ 0 \in Slots /\ None \notin Pages /\ None \notin Slots
    BY IdleType, ConstantFacts
<1>1. Typed
  <2>1. state \in [Slots -> AnyWord]
    BY <1>0 DEF Init, AnyWord
  <2>2. free \in Seq(Slots)
    BY <1>0 DEF Init, Slots
  <2>3. ckpt \in CkptState
    BY NoCkptType DEF Init
  <2>4. 0 \in Version
    BY <1>0 DEF Version
  <2> QED BY <1>0, <2>1, <2>2, <2>3, <2>4, ZenonT(60)
             DEF Init, Typed, Versions, MaybePage, MaybeSlot
<1>2. Shape
  <2>1. \A r \in Readers : ReaderOK(Idle)
    BY DEF ReaderOK, Idle, Pinning, Aiming
  <2>2. WorkerOK(Idle)
    BY DEF WorkerOK, Idle
  <2> QED BY <2>1, <2>2, Zenon DEF Init, Shape, StepOK
<1>3. PinsCounted
  <2>1. \A s \in Slots : Holders(s) = {}
    BY <1>0 DEF Holders, Init, Idle
  <2>2. \A s \in Slots : state[s].ref = 0
    BY Zenon DEF Init
  <2> QED BY <2>1, <2>2, FS_EmptySet, ZenonT(60) DEF PinsCounted, Holders
<1>4. Table
    BY <1>0, ConstantFacts, Zenon
       DEF Init, Table, PinnedPageStays, OneSlotPerPage, At, Idle
<1>5. Data
    BY <1>0 DEF Init, Data, Current, ChangesKept, Safe, Behind, Covered, NoCheckpoint
<1> QED BY <1>1, <1>2, <1>3, <1>4, <1>5 DEF IInv

\* The invariant holds in every reachable state.
LEMMA IInvHolds == Spec => []IInv
<1>1. IInv /\ [Next]_vars => IInv'
  <2>1. ASSUME IInv, Next PROVE IInv'
    <3>1. Typed /\ Shape /\ PinsCounted /\ Table /\ Data /\ Behind /\ Covered /\ Pins
      BY <2>1, OnePin DEF IInv, Pins, Data
    <3>2. Typed' /\ Shape' /\ PinsCounted'
      BY <2>1, <3>1, PinsNext, PinsStep
    <3>3. Table' /\ Data'
      BY <2>1, <3>1, TableNext, DataNext
    <3> QED BY <3>2, <3>3 DEF IInv
  <2> QED BY <2>1, StutterIInv
<1> QED BY <1>1, InitIInv, PTL DEF Spec

-----------------------------------------------------------------------------
(* The properties.                                                         *)

\* Types: no reference count ever leaves 0 .. the number of readers, so the
\* pins of MapPinBuffer neither overflow nor go below zero.
THEOREM TypeCorrect == Spec => []TypeOK
<1>1. IInv => TypeOK
    BY TypedOK DEF IInv
<1> QED BY <1>1, IInvHolds, PTL

\* However readers retry, lose races, fail in a write and clean up, a slot's
\* reference count is the number of processes that have it pinned.
THEOREM PinsSafe == Spec => []PinsCounted
<1>1. IInv => PinsCounted
    BY DEF IInv
<1> QED BY <1>1, IInvHolds, PTL

\* Nobody takes the slot away from a process that MapReadBuffer gave it to.
THEOREM PinnedSafe == Spec => []PinnedPageStays
<1>1. IInv => PinnedPageStays
    BY DEF IInv, Table
<1> QED BY <1>1, IInvHolds, PTL

\* A page is never in two slots, and the cache table knows the one it is in.
THEOREM TableSafe == Spec => []OneSlotPerPage
<1>1. IInv => OneSlotPerPage
    BY DEF IInv, Table
<1> QED BY <1>1, IInvHolds, PTL

\* As long as no usage count has wrapped, eviction, the mapwriter, the
\* checkpoint and failed writes lose no change of a MAP page.
THEOREM ChangesSafe == Spec => []ChangesKept
<1>1. IInv => ChangesKept
    BY Zenon DEF IInv, Data
<1> QED BY <1>1, IInvHolds, PTL

\* A checkpoint through with its slots owes nothing: it has looked at every
\* slot, flushed every target and is writing none.
THEOREM CheckpointSafe == Spec => []CheckpointComplete
<1>1. IInv => CheckpointComplete
    BY Zenon DEF IInv, Data, Covered, Owed, CkptAt, CheckpointComplete, Flushed, At
<1> QED BY <1>1, IInvHolds, PTL
=============================================================================
