-------------------------- MODULE UmbraRemapProofs --------------------------
(***************************************************************************)
(* Proofs about UmbraRemap for every number of pages, blocks, records,     *)
(* checkpoints and crashes: type correctness, and WAL before data.         *)
(***************************************************************************)
EXTENDS UmbraRemap, TLAPS

\* A remap, pending or logged, names two blocks.
RemapsNamed ==
    /\ \A p \in Pages : ins[p].remap => ins[p].old \in PBlock /\ ins[p].new \in PBlock
    /\ \A i \in 1 .. Len(wal) :
          wal[i].remap => wal[i].old \in PBlock /\ wal[i].new \in PBlock

\* Where the backends and the startup process stand in the WAL.
Positions ==
    /\ \A p \in Pages : ins[p].pc = "inserted" => ins[p].lsn \in 1 .. Len(wal)
    /\ mode.phase = "redo" => mode.cursor >= 1 /\ ckpt.phase = "idle"
    /\ mode.switch => /\ mode.phase = "redo"
                      /\ mode.cursor <= Len(wal)
                      /\ wal[mode.cursor].remap
    /\ mode.phase # "run" => \A p \in Pages : ins[p].pc = "idle"

TypeInv == TypeOK /\ RemapsNamed /\ Positions

\* No LSN in memory is past the end of the WAL; recovery finds it all flushed.
LsnsBehind ==
    /\ \A p \in Pages : buf[p].lsn <= Len(wal)
    /\ map.lsn <= Len(wal) /\ super.lsn <= Len(wal)
    /\ mode.phase # "run" => walFlushed = Len(wal)

LsnInv == TypeInv /\ WalBeforeData /\ LsnsBehind

\* What the assumption on the bounds gives, in the form the provers use.
LEMMA ConstantFacts ==
    /\ NPages \in Nat /\ MaxBlock \in Nat /\ NPages <= MaxBlock
    /\ \A p \in Pages : p \in PBlock
    /\ Kinds \subseteq AllKinds
    /\ NoBuffer \in BufferType /\ NoInsert \in InsertType /\ NoCheckpoint \in CkptType
BY BoundsAssumption DEF Pages, PBlock, NoBuffer, NoInsert, NoCheckpoint, BufferType,
   InsertType, CkptType, Content, MaybeBlock, Frontier, Invalid, Garbage, AllKinds

\* Positions in the WAL are natural numbers and hold records.
LEMMA LenNat == TypeOK => Len(wal) \in Nat /\ \A i \in 1 .. Len(wal) : wal[i] \in RecordType
BY DEF TypeOK

\* A cluster just checkpointed has its types.
LEMMA InitType == Init => TypeInv
<1> SUFFICES ASSUME Init PROVE TypeInv
    OBVIOUS
<1>1. wal \in Seq(RecordType) /\ Len(wal) = 0
    BY DEF Init
<1>2. TypeOK
    BY <1>1, ConstantFacts DEF Init, TypeOK, Frontier, Content, Garbage, PBlock, Pages,
       MapType, MapFileType, SuperType, DataType, ModeType
<1>3. RemapsNamed
    BY <1>1 DEF Init, RemapsNamed, NoInsert
<1>4. Positions
    BY <1>1 DEF Init, Positions, NoInsert
<1> QED BY <1>2, <1>3, <1>4 DEF TypeInv

\* The buffer, WAL position and data blocks after a flush have their types.
LEMMA FlushType ==
    ASSUME NEW p \in Pages, NEW active \in BOOLEAN, TypeOK, FlushBuffer(p, active)
    PROVE  /\ walFlushed' \in Nat
           /\ data' \in DataType
           /\ buf' \in [Pages -> BufferType]
<1>1. buf[p] \in BufferType
    BY DEF TypeOK
<1>2. walFlushed' \in Nat
    BY <1>1 DEF FlushBuffer, XLogFlush, Larger, TypeOK, BufferType, Content, Garbage
<1>3. data' \in DataType
    BY <1>1, Zenon DEF FlushBuffer, TypeOK, BufferType, DataType
<1>4. buf' \in [Pages -> BufferType]
    BY <1>1, ZenonT(40) DEF FlushBuffer, TypeOK, BufferType, MaybeBlock, Invalid
<1> QED BY <1>2, <1>3, <1>4

\* What a read through the buffer or the MAP returns has its type.
LEMMA ViewType ==
    ASSUME TypeOK, NEW p \in Pages
    PROVE  View(p) \in Content
BY DEF View, TypeOK, BufferType, DataType, MapType

\* An assembled record has its type, and only its own page's entry changes.
LEMMA AssembledType ==
    ASSUME TypeInv, NEW p \in Pages, NEW kind \in AllKinds, NEW clean \in BOOLEAN,
           Assembled(p, kind, clean)
    PROVE  /\ ins' \in [Pages -> InsertType]
           /\ super' \in SuperType
           /\ super'.lsn = super.lsn
           /\ ins'[p].pc = "assembled"
           /\ ins'[p].remap => ins'[p].old \in PBlock /\ ins'[p].new \in PBlock
           /\ \A q \in Pages \ {p} : ins'[q] = ins[q]
<1> DEFINE remap == NeedsRemap(kind, buf[p].lsn)
           rec == [pc |-> "assembled", kind |-> kind, remap |-> remap,
                   old |-> IF remap THEN map.pblk[p] ELSE Invalid,
                   new |-> IF remap THEN super.reserved ELSE Invalid,
                   nextFree |-> IF remap THEN Larger(super.nextFree, super.reserved + 1)
                                         ELSE 0,
                   clean |-> clean, lsn |-> 0]
<1>1. remap \in BOOLEAN
    BY DEF NeedsRemap
<1>2. super.reserved \in Frontier /\ super.nextFree \in Frontier /\ map.pblk[p] \in PBlock
    BY DEF TypeInv, TypeOK, SuperType, MapType
<1>3. remap => super.reserved \in PBlock /\ super.reserved + 1 \in Frontier
    BY <1>2, ConstantFacts DEF Assembled, PBlock, Frontier
<1>4. (IF remap THEN Larger(super.nextFree, super.reserved + 1) ELSE 0) \in Frontier
    BY <1>2, <1>3, ConstantFacts DEF Larger, Frontier
<1>5. rec \in InsertType
    BY <1>1, <1>2, <1>3, <1>4 DEF InsertType, MaybeBlock
<1>6. ins' = [ins EXCEPT ![p] = rec]
    BY DEF Assembled
<1>7. super' \in SuperType /\ super'.lsn = super.lsn
    BY <1>2, <1>3 DEF Assembled, TypeInv, TypeOK, SuperType
<1> HIDE DEF rec
<1>8. ins' \in [Pages -> InsertType] /\ ins'[p] = rec /\ \A q \in Pages \ {p} : ins'[q] = ins[q]
    BY <1>5, <1>6 DEF TypeInv, TypeOK
<1>9. rec.pc = "assembled" /\ (rec.remap => rec.old \in PBlock /\ rec.new \in PBlock)
    BY <1>2, <1>3 DEF rec
<1> QED BY <1>7, <1>8, <1>9

\* Redo steps to the next record.
LEMMA CursorType ==
    ASSUME NEW m \in ModeType
    PROVE  [m EXCEPT !.cursor = @ + 1, !.switch = FALSE] \in ModeType
<1>1. m.cursor + 1 \in Nat
    BY DEF ModeType
<1> QED BY <1>1, Zenon DEF ModeType

\* Publication of an entry (MapSetMapping) keeps the types.
LEMMA SetMappingType ==
    ASSUME TypeOK, NEW p \in Pages, NEW b \in PBlock, NEW lsn \in Nat
    PROVE  /\ SetMapping(p, b, lsn) \in MapType
           /\ SetMapping(p, b, lsn).lsn = lsn
BY Zenon DEF SetMapping, TypeOK, MapType

\* The bump of the committed frontier keeps the types.
LEMMA BumpType ==
    ASSUME TypeOK, NEW f \in Frontier, NEW lsn \in Nat
    PROVE  /\ BumpNextFree(f, lsn) \in SuperType
           /\ BumpNextFree(f, lsn).lsn \in {lsn, super.lsn}
BY ConstantFacts, Zenon DEF BumpNextFree, TypeOK, Larger, Frontier, SuperType

\* The end of XLogInsert keeps the types.
LEMMA FinishType ==
    ASSUME TypeInv, NEW p \in Pages, FinishInsert(p)
    PROVE  TypeInv' /\ Len(wal') = Len(wal) /\ map'.lsn \in {map.lsn, ins[p].lsn}
           /\ super'.lsn \in {super.lsn, ins[p].lsn}
<1> USE ConstantFacts DEF TypeInv
<1> DEFINE lsn == ins[p].lsn
           save == ins[p].remap /\ SavesCheckpointPblk(p)
<1>1. ins[p] \in InsertType /\ lsn \in 1 .. Len(wal) /\ buf[p] \in BufferType
    BY DEF FinishInsert, TypeOK, Positions
<1>2. wal[lsn] \in RecordType /\ wal[lsn].nextFree \in Frontier /\ lsn \in Nat
    <2>1. wal[lsn] \in RecordType /\ lsn \in Nat
        BY <1>1, LenNat
    <2> QED BY <2>1 DEF RecordType
<1>3. PICK src \in {"clean", "saved", "missed", "overwritten"} :
          wal' = [wal EXCEPT ![lsn].source = src]
    BY Zenon DEF FinishInsert
<1>4. /\ wal' \in Seq(RecordType) /\ Len(wal') = Len(wal)
      /\ \A i \in 1 .. Len(wal) : /\ wal'[i].remap = wal[i].remap
                                  /\ wal'[i].old = wal[i].old
                                  /\ wal'[i].new = wal[i].new
    <2> DEFINE rec == [wal[lsn] EXCEPT !.source = src]
    <2>1. rec \in RecordType /\ rec.remap = wal[lsn].remap /\ rec.old = wal[lsn].old
          /\ rec.new = wal[lsn].new
        BY <1>2 DEF RecordType
    <2>2. wal' = [wal EXCEPT ![lsn] = rec]
        BY <1>3
    <2> HIDE DEF rec
    <2> QED BY <1>1, <2>1, <2>2 DEF TypeOK
<1>5. map' \in MapType
      /\ map'.lsn \in {map.lsn, lsn}
    BY <1>1, <1>2, SetMappingType DEF FinishInsert, CommitMapping, TypeOK, RemapsNamed
<1>6. super' \in SuperType
      /\ super'.lsn \in {super.lsn, lsn}
    BY <1>1, <1>2, BumpType DEF FinishInsert, TypeOK
<1>7. buf' \in [Pages -> BufferType]
    BY <1>1, <1>2, ZenonT(40) DEF FinishInsert, TypeOK, BufferType, InsertType, Content
<1>8. ckpt' \in CkptType /\ ckpt'.phase = ckpt.phase
    BY Zenon DEF FinishInsert, TypeOK, CkptType
<1>9. ins' \in [Pages -> InsertType] /\ ins' = [ins EXCEPT ![p] = NoInsert]
    BY DEF FinishInsert, TypeOK
<1>10. TypeOK'
    BY <1>4, <1>5, <1>6, <1>7, <1>8, <1>9 DEF FinishInsert, TypeOK
<1>11. RemapsNamed'
    BY <1>4, <1>9 DEF RemapsNamed, NoInsert, TypeOK
<1>12. Positions'
    BY SMTT(40), <1>4, <1>8, <1>9 DEF FinishInsert, Positions, NoInsert, TypeOK
<1> QED BY <1>4, <1>5, <1>6, <1>10, <1>11, <1>12

\* A crash keeps the types.
LEMMA CrashType == TypeInv /\ Crash => TypeInv'
<1> SUFFICES ASSUME TypeInv, Crash PROVE TypeInv'
    OBVIOUS
<1> USE ConstantFacts DEF TypeInv
<1>1. PICK keep \in walFlushed .. Len(wal) : wal' = SubSeq(wal, 1, keep) /\ walFlushed' = keep
      /\ taint' = [p \in Pages |-> taint[p] \cup Exposure(p, keep)]
    BY DEF Crash
<1>2. wal' \in Seq(RecordType) /\ Len(wal') = keep /\ \A i \in 1 .. keep : wal'[i] = wal[i]
    BY <1>1 DEF TypeOK
<1>3. data' \in DataType
    BY DEF Crash, TypeOK, Content, DataType
<1>4. /\ mapFile' \in MapFileType
      /\ map' \in MapType
    <2>1. PICK entries \in [Pages -> {"synced", "cached"}] :
              LET after == [p \in Pages |-> IF entries[p] = "synced" THEN mapFile.synced[p]
                                            ELSE mapFile.cached[p]]
              IN  /\ mapFile' = [cached |-> after, synced |-> after]
                  /\ map' = [map EXCEPT !.pblk = after, !.lsn = 0]
        BY Zenon DEF Crash
    <2> DEFINE after == [p \in Pages |-> IF entries[p] = "synced" THEN mapFile.synced[p]
                                         ELSE mapFile.cached[p]]
    <2>2. after \in [Pages -> PBlock]
        BY DEF TypeOK, MapFileType
    <2>3. mapFile' = [cached |-> after, synced |-> after]
          /\ map' = [map EXCEPT !.pblk = after, !.lsn = 0]
        BY <2>1
    <2> HIDE DEF after
    <2> QED BY <2>2, <2>3, Zenon DEF TypeOK, MapType, MapFileType
<1>5. super' \in SuperType
    BY DEF Crash, TypeOK, SuperType
<1>6. taint' \in [Pages -> SUBSET {"saved", "missed", "overwritten", "image"}]
    BY <1>1 DEF TypeOK, Exposure
<1>7. /\ buf' \in [Pages -> BufferType] /\ ins' = [p \in Pages |-> NoInsert]
      /\ ins' \in [Pages -> InsertType]
      /\ capture' \in [epoch : Nat, active : BOOLEAN] /\ ckpt' \in CkptType
      /\ redoRecPtr' \in Nat /\ ctlRedo' \in Nat /\ crashes' \in Nat
      /\ mode' \in ModeType
    BY DEF Crash, TypeOK, ModeType
<1>8. TypeOK'
    BY <1>1, <1>2, <1>3, <1>4, <1>5, <1>6, <1>7 DEF TypeOK
<1>9. RemapsNamed'
    BY <1>1, <1>2, <1>7 DEF RemapsNamed, NoInsert, TypeOK
<1>10. Positions'
    BY <1>7 DEF Crash, Positions, NoInsert, NoCheckpoint, TypeOK
<1> QED BY <1>8, <1>9, <1>10

\* Every step keeps the types.
LEMMA NextType == TypeInv /\ [Next]_vars => TypeInv'
<1> SUFFICES ASSUME TypeInv, [Next]_vars PROVE TypeInv'
    OBVIOUS
<1> USE ConstantFacts DEF TypeInv
<1>1. ASSUME NEW p \in Pages, ReadBuffer(p) PROVE TypeInv'
    <2>1. buf' \in [Pages -> BufferType]
        BY <1>1, ViewType, Zenon DEF ReadBuffer, TypeOK, BufferType, NoBuffer
    <2>2. TypeOK'
        BY <1>1, <2>1 DEF ReadBuffer, TypeOK, walVars, mapVars
    <2>3. RemapsNamed' /\ Positions'
        BY <1>1 DEF ReadBuffer, TypeOK, RemapsNamed, Positions, walVars, mapVars
    <2> QED BY <2>2, <2>3
<1>2. ASSUME NEW p \in Pages, BgWrite(p) PROVE TypeInv'
    <2>1. TypeOK'
        BY <1>2, FlushType, Zenon DEF BgWrite, TypeOK, mapVars
    <2>2. RemapsNamed' /\ Positions'
        BY <1>2 DEF BgWrite, TypeOK, RemapsNamed, Positions, walVars, mapVars
    <2> QED BY <2>1, <2>2
<1>3. ASSUME NEW p \in Pages, FlushVictim(p) PROVE TypeInv'
    <2>1. TypeOK'
        BY <1>3, FlushType, Zenon DEF FlushVictim, TypeOK, mapVars
    <2>2. RemapsNamed' /\ Positions'
        BY <1>3 DEF FlushVictim, TypeOK, RemapsNamed, Positions, walVars, mapVars
    <2> QED BY <2>1, <2>2
<1>4. ASSUME NEW p \in Pages, Evict(p) PROVE TypeInv'
    <2>1. TypeOK'
        BY <1>4 DEF Evict, TypeOK, walVars, mapVars, BufferType, CkptType
    <2>2. RemapsNamed'
        BY <1>4 DEF Evict, TypeOK, RemapsNamed, walVars, mapVars
    <2>3. Positions'
        BY <1>4 DEF Evict, TypeOK, Positions, walVars, mapVars
    <2> QED BY <2>1, <2>2, <2>3
<1>5. ASSUME NEW p \in Pages, RetryInsert(p) PROVE TypeInv'
    <2>1. ins[p].kind \in AllKinds /\ ins[p].clean \in BOOLEAN
        BY DEF TypeOK, InsertType
    <2>2. Assembled(p, ins[p].kind, ins[p].clean)
        BY <1>5 DEF RetryInsert
    <2>3. TypeOK'
        BY SMTT(40), <1>5, <2>1, <2>2, AssembledType DEF RetryInsert, TypeOK, walVars
    <2>4. RemapsNamed'
        BY <1>5, <2>1, <2>2, AssembledType DEF RetryInsert, RemapsNamed, walVars
    <2>5. Positions'
        BY <1>5, <2>1, <2>2, AssembledType DEF RetryInsert, Positions, walVars
    <2> QED BY <2>3, <2>4, <2>5
<1>6. ASSUME NEW p \in Pages, InsertRecord(p) PROVE TypeInv'
    <2> DEFINE rec == [page |-> p, kind |-> ins[p].kind, remap |-> ins[p].remap,
                       old |-> ins[p].old, new |-> ins[p].new,
                       nextFree |-> ins[p].nextFree,
                       prev |-> buf[p].lsn, source |-> "pending"]
    <2>1. rec \in RecordType
        BY DEF TypeOK, RecordType, InsertType, BufferType
    <2>2. wal' = Append(wal, rec)
        BY <1>6 DEF InsertRecord
    <2>3. wal' \in Seq(RecordType) /\ Len(wal') = Len(wal) + 1
        BY <2>1, <2>2 DEF TypeOK
    <2>0. ins[p] \in InsertType
        BY DEF TypeOK
    <2>4. ins' \in [Pages -> InsertType]
        <3>1. ins' = [ins EXCEPT ![p].pc = "inserted", ![p].lsn = Len(wal) + 1]
            BY <1>6 DEF InsertRecord
        <3>2. Len(wal) + 1 \in Nat /\ ins \in [Pages -> InsertType]
            BY LenNat DEF TypeOK
        <3> QED BY <2>0, <3>1, <3>2, Zenon DEF InsertType
    <2>5. TypeOK'
        BY <1>6, <2>3, <2>4 DEF InsertRecord, TypeOK, mapVars
    <2>6. RemapsNamed'
        BY <1>6 DEF InsertRecord, TypeOK, RemapsNamed, walVars, mapVars
    <2>7. Positions'
        BY <1>6 DEF InsertRecord, TypeOK, Positions, walVars, mapVars
    <2> QED BY <2>5, <2>6, <2>7
<1>7. ASSUME NEW p \in Pages, FinishInsert(p) PROVE TypeInv'
    BY <1>7, FinishType
<1>8. ASSUME NEW p \in Pages, CkptMark(p) PROVE TypeInv'
    <2>0. buf[p] \in BufferType
        BY DEF TypeOK
    <2>1. buf' \in [Pages -> BufferType]
        BY <1>8, <2>0, Zenon DEF CkptMark, TypeOK, BufferType
    <2>2. ckpt' \in CkptType
        BY <1>8, Zenon DEF CkptMark, TypeOK, CkptType
    <2>3. TypeOK'
        BY <1>8, <2>1, <2>2 DEF CkptMark, TypeOK, walVars, mapVars
    <2>4. RemapsNamed' /\ Positions'
        BY <1>8 DEF CkptMark, TypeOK, RemapsNamed, Positions, walVars, mapVars
    <2> QED BY <2>3, <2>4
<1>9. ASSUME NEW p \in Pages, CkptWrite(p) PROVE TypeInv'
    <2>1. ckpt' \in CkptType
        BY <1>9, Zenon DEF CkptWrite, TypeOK, CkptType
    <2>2. /\ walFlushed' \in Nat
          /\ data' \in DataType
          /\ buf' \in [Pages -> BufferType]
        <3>1. CASE FlushBuffer(p, FALSE)
            BY <3>1, FlushType, Zenon
        <3>2. CASE UNCHANGED <<walFlushed, data, buf>>
            BY <3>2 DEF TypeOK
        <3> QED BY <1>9, <3>1, <3>2, Zenon DEF CkptWrite
    <2>3. TypeOK'
        BY <1>9, <2>1, <2>2 DEF CkptWrite, TypeOK, mapVars
    <2>4. RemapsNamed' /\ Positions'
        BY <1>9 DEF CkptWrite, TypeOK, RemapsNamed, Positions, walVars, mapVars
    <2> QED BY <2>3, <2>4
<1>10. ASSUME NEW p \in Pages, NEW kind \in Kinds, BeginInsert(p, kind) PROVE TypeInv'
    <2>1. kind \in AllKinds /\ (~buf[p].dirty) \in BOOLEAN /\ buf[p] \in BufferType
        BY DEF TypeOK
    <2>2. Assembled(p, kind, ~buf[p].dirty)
        BY <1>10 DEF BeginInsert
    <2>3. buf' \in [Pages -> BufferType]
        BY <1>10, <2>1, Zenon DEF BeginInsert, TypeOK, BufferType
    <2>4. TypeOK'
        BY <1>10, <2>1, <2>2, <2>3, AssembledType, Zenon DEF BeginInsert, TypeOK, walVars
    <2>5. RemapsNamed'
        BY <1>10, <2>1, <2>2, AssembledType, Zenon DEF BeginInsert, RemapsNamed, walVars
    <2>6. Positions'
        BY <1>10, <2>1, <2>2, AssembledType, Zenon DEF BeginInsert, Positions, walVars
    <2> QED BY <2>4, <2>5, <2>6
<1>11. CASE FlushWal
    <2>1. TypeOK'
        BY <1>11 DEF FlushWal, TypeOK, walVars, mapVars, BufferType, CkptType
    <2>2. RemapsNamed'
        BY <1>11 DEF FlushWal, TypeOK, RemapsNamed, walVars, mapVars
    <2>3. Positions'
        BY <1>11 DEF FlushWal, TypeOK, Positions, walVars, mapVars
    <2> QED BY <2>1, <2>2, <2>3
<1>12. CASE MapWriter
    <2>1. TypeOK'
        BY <1>12, Zenon DEF MapWriter, FlushMapPage, XLogFlush, Larger, TypeOK, walVars, mapVars,
           BufferType, CkptType, MapType, MapFileType
    <2>2. RemapsNamed'
        BY <1>12 DEF MapWriter, FlushMapPage, XLogFlush, Larger, TypeOK, RemapsNamed, walVars,
           mapVars
    <2>3. Positions'
        BY <1>12 DEF MapWriter, FlushMapPage, XLogFlush, Larger, TypeOK, Positions, walVars,
           mapVars
    <2> QED BY <2>1, <2>2, <2>3
<1>13. CASE CkptRedo
    <2>1. ckpt' \in CkptType /\ redoRecPtr' \in Nat
        BY <1>13, LenNat, Zenon DEF CkptRedo, CkptType, NoCheckpoint
    <2>2. TypeOK'
        BY <1>13, <2>1 DEF CkptRedo, TypeOK, mapVars
    <2>3. RemapsNamed' /\ Positions'
        BY <1>13 DEF CkptRedo, TypeOK, RemapsNamed, Positions, mapVars
    <2> QED BY <2>2, <2>3
<1>14. CASE CkptCollect
    <2>0. ckpt \in CkptType
        BY DEF TypeOK
    <2>1. ckpt' \in CkptType
        BY ZenonT(60), <1>14, <2>0 DEF CkptCollect, CkptType, Remapping
    <2>2. TypeOK'
        BY <1>14, <2>1 DEF CkptCollect, TypeOK, walVars, mapVars
    <2>3. RemapsNamed' /\ Positions'
        BY <1>14 DEF CkptCollect, TypeOK, RemapsNamed, Positions, walVars, mapVars
    <2> QED BY <2>2, <2>3
<1>15. CASE CkptMapPages
    <2>1. TypeOK'
        BY <1>15, Zenon DEF CkptMapPages, CkptStep, FlushMapPage, XLogFlush, Larger, TypeOK, walVars,
           mapVars, BufferType, CkptType, MapType, MapFileType
    <2>2. RemapsNamed'
        BY <1>15 DEF CkptMapPages, CkptStep, FlushMapPage, XLogFlush, Larger, TypeOK,
           RemapsNamed, walVars, mapVars
    <2>3. Positions'
        BY <1>15 DEF CkptMapPages, CkptStep, FlushMapPage, XLogFlush, Larger, TypeOK,
           Positions, walVars, mapVars
    <2> QED BY <2>1, <2>2, <2>3
<1>16. CASE CkptSuper
    <2>1. TypeOK'
        BY <1>16, Zenon DEF CkptSuper, CkptStep, XLogFlush, Larger, TypeOK, walVars, mapVars,
           BufferType, CkptType, SuperType
    <2>2. RemapsNamed'
        BY <1>16 DEF CkptSuper, CkptStep, XLogFlush, Larger, TypeOK, RemapsNamed, walVars,
           mapVars
    <2>3. Positions'
        BY <1>16 DEF CkptSuper, CkptStep, XLogFlush, Larger, TypeOK, Positions, walVars, mapVars
    <2> QED BY <2>1, <2>2, <2>3
<1>17. CASE CkptCapture
    <2>0. ckpt \in CkptType /\ capture \in [epoch : Nat, active : BOOLEAN]
        BY DEF TypeOK
    <2>a. ckpt' \in CkptType
        BY <1>17, <2>0, Zenon DEF CkptCapture, CkptType
    <2>1. ckpt' \in CkptType /\ capture' \in [epoch : Nat, active : BOOLEAN]
        BY <1>17, <2>0, <2>a DEF CkptCapture
    <2>2. TypeOK'
        BY <1>17, <2>1 DEF CkptCapture, TypeOK, walVars, mapVars
    <2>3. RemapsNamed' /\ Positions'
        BY <1>17 DEF CkptCapture, TypeOK, RemapsNamed, Positions, walVars, mapVars
    <2> QED BY <2>2, <2>3
<1>18. CASE CkptCaptureEnd
    <2>1. TypeOK'
        BY <1>18, Zenon DEF CkptCaptureEnd, CkptStep, TypeOK, walVars, mapVars, BufferType, CkptType
    <2>2. RemapsNamed'
        BY <1>18 DEF CkptCaptureEnd, CkptStep, TypeOK, RemapsNamed, walVars, mapVars
    <2>3. Positions'
        BY <1>18 DEF CkptCaptureEnd, CkptStep, TypeOK, Positions, walVars, mapVars
    <2> QED BY <2>1, <2>2, <2>3
<1>19. CASE CkptSync
    <2>1. TypeOK'
        BY <1>19, Zenon DEF CkptSync, CkptStep, TypeOK, walVars, mapVars, BufferType, CkptType,
           DataType, MapFileType, SuperType
    <2>2. RemapsNamed'
        BY <1>19 DEF CkptSync, CkptStep, TypeOK, RemapsNamed, walVars, mapVars
    <2>3. Positions'
        BY <1>19 DEF CkptSync, CkptStep, TypeOK, Positions, walVars, mapVars
    <2> QED BY <2>1, <2>2, <2>3
<1>20. CASE CkptComplete
    <2>1. /\ ckpt' \in CkptType /\ walFlushed' \in Nat /\ ctlRedo' \in Nat
          /\ mode' \in ModeType
        <3>1. ckpt.redo \in Nat /\ Len(wal) \in Nat
            BY LenNat DEF TypeOK, CkptType
        <3> QED BY <1>20, <3>1 DEF CkptComplete, TypeOK, ModeType
    <2>2. TypeOK'
        BY <1>20, <2>1 DEF CkptComplete, TypeOK, mapVars
    <2>3. RemapsNamed' /\ Positions'
        BY <1>20 DEF CkptComplete, TypeOK, RemapsNamed, Positions, mapVars
    <2> QED BY <2>2, <2>3
<1>21. CASE CkptFail
    <2>1. TypeOK'
        BY <1>21 DEF CkptFail, TypeOK, walVars, mapVars, BufferType, CkptType
    <2>2. RemapsNamed'
        BY <1>21 DEF CkptFail, TypeOK, RemapsNamed, walVars, mapVars
    <2>3. Positions'
        BY <1>21 DEF CkptFail, TypeOK, Positions, walVars, mapVars
    <2> QED BY <2>1, <2>2, <2>3
<1>22. CASE Crash
    BY <1>22, CrashType
<1>23. CASE RedoPlain
    <2> DEFINE lsn == mode.cursor
               q == wal[lsn].page
    <2>1. lsn \in 1 .. Len(wal) /\ wal[lsn] \in RecordType
        BY SMTT(40), <1>23 DEF RedoPlain, Redoing, TypeOK, Positions, ModeType
    <2>2. q \in Pages /\ buf[q] \in BufferType
        BY <2>1 DEF RecordType, TypeOK
    <2>3. View(q) \in Content /\ Replay(View(q), lsn) \in Content
        BY <2>1, <2>2, ViewType DEF Replay, Content, Garbage
    <2>4. buf' \in [Pages -> BufferType]
        BY <1>23, <2>1, <2>2, <2>3, ZenonT(40) DEF RedoPlain, TypeOK, BufferType, Content, ModeType
    <2>5. TypeOK'
        <3>1. mode' \in ModeType
            <4>1. mode' = [mode EXCEPT !.cursor = @ + 1]
                BY <1>23 DEF RedoPlain
            <4> QED BY <4>1 DEF TypeOK, ModeType
        <3> QED BY <1>23, <2>4, <3>1, Zenon DEF RedoPlain, TypeOK, walVars, mapVars
    <2>6. RemapsNamed' /\ Positions'
        BY SMTT(40), <1>23 DEF RedoPlain, Redoing, TypeOK, RemapsNamed, Positions, walVars,
          mapVars,
           ModeType
    <2> QED BY <2>5, <2>6
<1>24. CASE RedoRemapOld
    <2> DEFINE lsn == mode.cursor
               q == wal[lsn].page
               c == IF buf[q].valid THEN buf[q].lsn ELSE data.cached[wal[lsn].old]
    <2>1. lsn \in 1 .. Len(wal) /\ wal[lsn] \in RecordType /\ wal[lsn].remap
        BY <1>24 DEF RedoRemapOld, Redoing, TypeOK, Positions, ModeType
    <2>2. q \in Pages /\ buf[q] \in BufferType /\ wal[lsn].old \in PBlock
        BY <2>1 DEF RecordType, TypeOK, RemapsNamed
    <2>3. c \in Content
        BY <2>2 DEF TypeOK, BufferType, DataType
    <2>4. buf' \in [Pages -> BufferType]
        BY <1>24, <2>2, <2>3, ZenonT(40) DEF RedoRemapOld, TypeOK, BufferType, NoBuffer
    <2>5. data' \in DataType
        BY <1>24, <2>2, <2>3, Zenon DEF RedoRemapOld, TypeOK, DataType
    <2>6. map' \in MapType
        BY SMTT(40), <1>24, <2>1, <2>2, SetMappingType DEF RedoRemapOld
    <2>7. TypeOK'
        BY <1>24, <2>4, <2>5, <2>6, Zenon DEF RedoRemapOld, TypeOK, walVars, ModeType
    <2>8. RemapsNamed'
        BY <1>24 DEF RedoRemapOld, RemapsNamed, walVars
    <2>9. Positions'
        BY SMTT(40), <1>24, <2>1 DEF RedoRemapOld, Redoing, TypeOK, Positions, walVars
    <2> QED BY <2>7, <2>8, <2>9
<1>25. CASE RedoRemapNew
    <2> DEFINE lsn == mode.cursor
               q == wal[lsn].page
    <2>1. lsn \in 1 .. Len(wal) /\ wal[lsn] \in RecordType /\ wal[lsn].remap
        BY <1>25 DEF RedoRemapNew, TypeOK, Positions, ModeType
    <2>2. q \in Pages /\ buf[q] \in BufferType /\ wal[lsn].new \in PBlock
          /\ wal[lsn].nextFree \in Frontier
        BY <2>1 DEF RecordType, TypeOK, RemapsNamed
    <2>3. Replay(buf[q].lsn, lsn) \in Content
        BY SMTT(40), <2>1, <2>2 DEF Replay, Content, Garbage, BufferType
    <2>4. buf' \in [Pages -> BufferType]
        <3>1. buf' = [buf EXCEPT ![q].lsn = Replay(buf[q].lsn, lsn),
                                 ![q].dirty = buf[q].lsn < lsn]
            BY <1>25 DEF RedoRemapNew
        <3>2. buf \in [Pages -> BufferType]
            BY DEF TypeOK
        <3>3. (buf[q].lsn < lsn) \in BOOLEAN
            BY <2>1, <2>2, LenNat DEF BufferType, Content, Garbage
        <3> HIDE DEF lsn, q
        <3> QED BY <2>2, <2>3, <3>1, <3>2, <3>3, ZenonT(40) DEF BufferType
    <2>5. map' \in MapType
        BY SMTT(40), <1>25, <2>1, <2>2, SetMappingType DEF RedoRemapNew
    <2>6. super' \in SuperType
        BY SMTT(40), <1>25, <2>1, <2>2, BumpType DEF RedoRemapNew
    <2>7. TypeOK'
        <3>1. mode' \in ModeType
            <4>1. mode' = [mode EXCEPT !.cursor = @ + 1, !.switch = FALSE]
                BY <1>25 DEF RedoRemapNew
            <4>2. mode \in ModeType
                BY DEF TypeOK
            <4> QED BY <4>1, <4>2, CursorType, ZenonT(40)
        <3> QED BY <1>25, <2>4, <2>5, <2>6, <3>1, ZenonT(40) DEF RedoRemapNew, TypeOK, walVars
    <2>8. RemapsNamed'
        BY <1>25 DEF RedoRemapNew, RemapsNamed, walVars
    <2>9. Positions'
        BY SMTT(40), <1>25, <2>1 DEF RedoRemapNew, TypeOK, Positions, walVars
    <2> QED BY <2>7, <2>8, <2>9
<1>26. CASE RedoDone
    <2>1. TypeOK'
        BY <1>26 DEF RedoDone, TypeOK, walVars, mapVars, BufferType, CkptType, ModeType
    <2>2. RemapsNamed'
        BY <1>26 DEF RedoDone, TypeOK, RemapsNamed, walVars, mapVars
    <2>3. Positions'
        BY <1>26 DEF RedoDone, TypeOK, Positions, walVars, mapVars
    <2> QED BY <2>1, <2>2, <2>3
<1>27. CASE UNCHANGED vars
    BY <1>27 DEF vars, TypeOK, RemapsNamed, Positions
<1> QED BY <1>1, <1>2, <1>3, <1>4, <1>5, <1>6, <1>7, <1>8, <1>9, <1>10, <1>11, <1>12, <1>13,
           <1>14, <1>15, <1>16, <1>17, <1>18, <1>19, <1>20, <1>21, <1>22, <1>23, <1>24, <1>25,
           <1>26, <1>27 DEF Next

\* Every variable keeps its shape (all of Next's actions).
THEOREM TypeCorrect == Spec => []TypeOK
<1>1. TypeInv => TypeOK
    BY DEF TypeInv
<1> QED BY <1>1, InitType, NextType, PTL DEF Spec

-----------------------------------------------------------------------------
(* WAL before data.                                                        *)

\* A flush writes nothing past the WAL position it has flushed to.
LEMMA FlushLsn ==
    ASSUME LsnInv, NEW p \in Pages, NEW active \in BOOLEAN, FlushBuffer(p, active)
    PROVE  /\ walFlushed' \in Int
           /\ walFlushed' >= walFlushed /\ walFlushed' <= Len(wal)
           /\ \A b \in PBlock : data'.cached[b] <= walFlushed'
                                /\ data'.synced[b] <= walFlushed'
           /\ \A q \in Pages : buf'[q].lsn = buf[q].lsn
<1> USE DEF LsnInv, TypeInv
<1>1. buf[p] \in BufferType /\ buf[p].lsn <= Len(wal) /\ Len(wal) \in Nat /\ walFlushed \in Nat
    BY LenNat DEF TypeOK, LsnsBehind
<1>2. buf[p].lsn \in Int
    BY <1>1 DEF BufferType, Content, Garbage
<1>3. walFlushed' = Larger(walFlushed, buf[p].lsn)
    BY DEF FlushBuffer, XLogFlush
<1>4. walFlushed' >= walFlushed /\ walFlushed' <= Len(wal) /\ buf[p].lsn <= walFlushed'
      /\ walFlushed' \in Int
    BY <1>1, <1>2, <1>3 DEF Larger, WalBeforeData
<1>5. data'.synced = data.synced /\ \A b \in PBlock : data'.cached[b] \in {data.cached[b], buf[p].lsn}
    BY DEF FlushBuffer, TypeOK, DataType
<1>6. \A b \in PBlock : data.cached[b] \in Int /\ data.synced[b] \in Int
    BY DEF TypeOK, DataType, Content, Garbage
<1>7. \A b \in PBlock : data'.cached[b] <= walFlushed' /\ data'.synced[b] <= walFlushed'
    BY <1>1, <1>2, <1>4, <1>5, <1>6 DEF WalBeforeData
<1>8. \A q \in Pages : buf'[q].lsn = buf[q].lsn
    BY <1>1 DEF FlushBuffer, TypeOK, BufferType
<1> QED BY <1>4, <1>7, <1>8

\* Nothing on disk is ahead of the WAL at the start.
LEMMA InitLsn == Init => LsnInv
<1> SUFFICES ASSUME Init PROVE LsnInv
    OBVIOUS
<1>1. WalBeforeData
    BY DEF Init, WalBeforeData, Garbage
<1>2. LsnsBehind
    BY SMTT(40) DEF Init, LsnsBehind, NoBuffer, Garbage
<1> QED BY InitType, <1>1, <1>2 DEF LsnInv

\* Every step keeps data and MAP pages on disk behind the flushed WAL.
LEMMA NextLsn == LsnInv /\ [Next]_vars => LsnInv'
<1> SUFFICES ASSUME LsnInv, [Next]_vars PROVE WalBeforeData' /\ LsnsBehind'
    BY NextType DEF LsnInv
<1> USE DEF LsnInv, TypeInv
<1>0. /\ Len(wal) \in Nat /\ walFlushed \in Nat
      /\ map.lsn \in Nat /\ super.lsn \in Nat
      /\ \A p \in Pages : buf[p].lsn \in Int
      /\ \A b \in PBlock : data.cached[b] \in Int /\ data.synced[b] \in Int
    BY LenNat DEF TypeOK, MapType, SuperType, BufferType, DataType, Content, Garbage
<1>1. ASSUME NEW p \in Pages, ReadBuffer(p) PROVE WalBeforeData' /\ LsnsBehind'
    <2>1. \A q \in Pages : buf'[q].lsn \in {buf[q].lsn, View(p)}
        BY <1>1 DEF ReadBuffer, TypeOK
    <2>2. View(p) <= Len(wal)
        BY <1>0, <1>1 DEF View, ReadBuffer, WalBeforeData, TypeOK, MapType
    <2> QED BY <1>0, <1>1, <2>1, <2>2 DEF ReadBuffer, WalBeforeData, LsnsBehind, walVars,
               mapVars
<1>2. ASSUME NEW p \in Pages, BgWrite(p) PROVE WalBeforeData' /\ LsnsBehind'
    <2>1. FlushBuffer(p, FALSE)
        BY <1>2, Zenon DEF BgWrite
    <2>2. /\ walFlushed' \in Int /\ walFlushed' >= walFlushed /\ walFlushed' <= Len(wal)
          /\ \A b \in PBlock : data'.cached[b] <= walFlushed' /\ data'.synced[b] <= walFlushed'
          /\ \A q \in Pages : buf'[q].lsn = buf[q].lsn
        BY <2>1, FlushLsn, Zenon
    <2> QED BY <1>0, <1>2, <2>2 DEF BgWrite, WalBeforeData, LsnsBehind, mapVars
<1>3. ASSUME NEW p \in Pages, FlushVictim(p) PROVE WalBeforeData' /\ LsnsBehind'
    <2>1. FlushBuffer(p, TRUE)
        BY <1>3, Zenon DEF FlushVictim
    <2>2. /\ walFlushed' \in Int /\ walFlushed' >= walFlushed /\ walFlushed' <= Len(wal)
          /\ \A b \in PBlock : data'.cached[b] <= walFlushed' /\ data'.synced[b] <= walFlushed'
          /\ \A q \in Pages : buf'[q].lsn = buf[q].lsn
        BY <2>1, FlushLsn, Zenon
    <2> QED BY <1>0, <1>3, <2>2 DEF FlushVictim, WalBeforeData, LsnsBehind, mapVars
<1>4. ASSUME NEW p \in Pages, Evict(p) PROVE WalBeforeData' /\ LsnsBehind'
    BY SMTT(40), <1>0, <1>4 DEF Evict, WalBeforeData, LsnsBehind, walVars, mapVars, TypeOK,
      NoBuffer,
       Garbage
<1>5. ASSUME NEW p \in Pages, RetryInsert(p) PROVE WalBeforeData' /\ LsnsBehind'
    <2>1. super'.lsn = super.lsn
        BY <1>5, AssembledType DEF RetryInsert, TypeOK, InsertType
    <2> QED BY <1>0, <1>5, <2>1 DEF RetryInsert, WalBeforeData, LsnsBehind, walVars
<1>6. ASSUME NEW p \in Pages, InsertRecord(p) PROVE WalBeforeData' /\ LsnsBehind'
    <2>1. Len(wal') = Len(wal) + 1
        BY <1>6 DEF InsertRecord, TypeOK
    <2>2. mode.phase = "run"
        BY <1>6 DEF InsertRecord, Positions
    <2> QED BY <1>0, <1>6, <2>1, <2>2 DEF InsertRecord, WalBeforeData, LsnsBehind, mapVars
<1>7. ASSUME NEW p \in Pages, FinishInsert(p) PROVE WalBeforeData' /\ LsnsBehind'
    <2>1. Len(wal') = Len(wal) /\ map'.lsn \in {map.lsn, ins[p].lsn}
          /\ super'.lsn \in {super.lsn, ins[p].lsn}
        BY <1>7, FinishType
    <2>2. ins[p].lsn <= Len(wal) /\ ins[p].lsn \in Nat
        BY <1>0, <1>7 DEF FinishInsert, Positions
    <2>3. \A q \in Pages : buf'[q].lsn \in {buf[q].lsn, ins[p].lsn}
        BY <1>7 DEF FinishInsert, TypeOK, BufferType
    <2> QED BY <1>0, <1>7, <2>1, <2>2, <2>3, Zenon DEF FinishInsert, WalBeforeData, LsnsBehind
<1>8. ASSUME NEW p \in Pages, CkptMark(p) PROVE WalBeforeData' /\ LsnsBehind'
    <2>1. \A q \in Pages : buf'[q].lsn = buf[q].lsn
        BY <1>8 DEF CkptMark, TypeOK, BufferType
    <2> QED BY <1>0, <1>8, <2>1 DEF CkptMark, WalBeforeData, LsnsBehind, walVars, mapVars
<1>9. ASSUME NEW p \in Pages, CkptWrite(p) PROVE WalBeforeData' /\ LsnsBehind'
    <2>1. CASE FlushBuffer(p, FALSE)
        <3>1. /\ walFlushed' \in Int /\ walFlushed' >= walFlushed /\ walFlushed' <= Len(wal)
              /\ \A b \in PBlock : data'.cached[b] <= walFlushed' /\ data'.synced[b] <= walFlushed'
              /\ \A q \in Pages : buf'[q].lsn = buf[q].lsn
            BY <2>1, FlushLsn, Zenon
        <3> QED BY <1>0, <1>9, <3>1 DEF CkptWrite, WalBeforeData, LsnsBehind, mapVars
    <2>2. CASE UNCHANGED <<walFlushed, data, buf>>
        BY <1>9, <2>2 DEF CkptWrite, WalBeforeData, LsnsBehind, mapVars
    <2> QED BY <1>9, <2>1, <2>2, Zenon DEF CkptWrite
<1>10. ASSUME NEW p \in Pages, NEW kind \in Kinds, BeginInsert(p, kind)
       PROVE WalBeforeData' /\ LsnsBehind'
    <2>1. kind \in AllKinds /\ (~buf[p].dirty) \in BOOLEAN /\ Assembled(p, kind, ~buf[p].dirty)
        BY <1>10, ConstantFacts DEF BeginInsert
    <2>2. super'.lsn = super.lsn
        BY <2>1, AssembledType, Zenon
    <2>3. \A q \in Pages : buf'[q].lsn = buf[q].lsn
        BY <1>10 DEF BeginInsert, TypeOK, BufferType
    <2> QED BY <1>0, <1>10, <2>2, <2>3 DEF BeginInsert, WalBeforeData, LsnsBehind, walVars
<1>11. CASE FlushWal
    BY <1>0, <1>11 DEF FlushWal, WalBeforeData, LsnsBehind, mapVars
<1>12. CASE MapWriter
    BY <1>0, <1>12 DEF MapWriter, FlushMapPage, XLogFlush, Larger, WalBeforeData, LsnsBehind
<1>13. CASE CkptRedo
    BY <1>13 DEF CkptRedo, WalBeforeData, LsnsBehind, mapVars
<1>14. CASE CkptCollect
    BY <1>14 DEF CkptCollect, WalBeforeData, LsnsBehind, walVars, mapVars
<1>15. CASE CkptMapPages
    BY <1>0, <1>15 DEF CkptMapPages, FlushMapPage, XLogFlush, Larger, WalBeforeData, LsnsBehind
<1>16. CASE CkptSuper
    <2>1. super'.lsn = super.lsn
        BY <1>16 DEF CkptSuper, TypeOK, SuperType
    <2> QED BY <1>0, <1>16, <2>1 DEF CkptSuper, XLogFlush, Larger, WalBeforeData, LsnsBehind
<1>17. CASE CkptCapture
    BY <1>17 DEF CkptCapture, WalBeforeData, LsnsBehind, walVars, mapVars
<1>18. CASE CkptCaptureEnd
    BY <1>18 DEF CkptCaptureEnd, WalBeforeData, LsnsBehind, walVars, mapVars
<1>19. CASE CkptSync
    <2>1. super'.lsn = super.lsn /\ data'.synced = data.cached /\ data'.cached = data.cached
        BY <1>19 DEF CkptSync, TypeOK, SuperType, DataType
    <2> QED BY <1>0, <1>19, <2>1 DEF CkptSync, WalBeforeData, LsnsBehind, walVars
<1>20. CASE CkptComplete
    BY <1>0, <1>20 DEF CkptComplete, WalBeforeData, LsnsBehind, mapVars
<1>21. CASE CkptFail
    BY <1>21 DEF CkptFail, WalBeforeData, LsnsBehind, walVars, mapVars
<1>22. CASE Crash
    <2>1. PICK keep \in walFlushed .. Len(wal) : wal' = SubSeq(wal, 1, keep) /\ walFlushed' = keep
        BY <1>22 DEF Crash
    <2>2. Len(wal') = keep /\ keep \in Nat /\ keep >= walFlushed
        BY <1>0, <2>1 DEF TypeOK
    <2>3. \A b \in PBlock : /\ data'.cached[b] \in {data.cached[b], data.synced[b], Garbage}
                            /\ data'.synced[b] \in {data.cached[b], data.synced[b], Garbage}
        BY <1>22 DEF Crash
    <2>4. WalBeforeData'
        BY SMTT(40), <1>0, <2>1, <2>2, <2>3 DEF WalBeforeData, Garbage
    <2>5. \A p \in Pages : buf'[p].lsn = -1
        BY <1>22 DEF Crash, NoBuffer, Garbage
    <2>6. map'.lsn = 0 /\ super'.lsn = 0
        BY <1>22 DEF Crash, TypeOK, MapType
    <2>7. LsnsBehind'
        BY <2>1, <2>2, <2>5, <2>6 DEF LsnsBehind
    <2> QED BY <2>4, <2>7
<1>23. CASE RedoPlain
    <2> DEFINE lsn == mode.cursor
               q == wal[lsn].page
    <2>1. lsn \in 1 .. Len(wal) /\ wal[lsn] \in RecordType /\ q \in Pages
        BY SMTT(40), <1>0, <1>23, LenNat DEF RedoPlain, Redoing, TypeOK, ModeType, Positions,
          RecordType
    <2>2. View(q) \in Int /\ View(q) <= Len(wal)
        BY SMTT(40), <1>0, <2>1 DEF View, WalBeforeData, LsnsBehind, TypeOK, MapType
    <2>3. Replay(View(q), lsn) <= Len(wal) /\ lsn <= Len(wal)
        BY SMTT(40), <1>0, <2>1, <2>2 DEF Replay, Garbage
    <2>4. \A p \in Pages : buf'[p].lsn \in {buf[p].lsn, lsn, Replay(View(q), lsn)}
        <3>1. PICK d : buf' = [buf EXCEPT ![q].valid = TRUE,
                     ![q].lsn = IF wal[lsn].kind = "image" THEN lsn ELSE Replay(View(q), lsn),
                     ![q].dirty = d]
            BY <1>23, Zenon DEF RedoPlain
        <3>2. buf \in [Pages -> BufferType]
            BY DEF TypeOK
        <3> HIDE DEF lsn, q
        <3> QED BY <2>1, <3>1, <3>2 DEF BufferType
    <2>5. mode'.phase = mode.phase
        BY <1>23 DEF RedoPlain, TypeOK, ModeType
    <2> HIDE DEF lsn, q
    <2> QED BY <1>0, <1>23, <2>3, <2>4, <2>5, ZenonT(40) DEF RedoPlain, WalBeforeData, LsnsBehind,
               walVars, mapVars
<1>24. CASE RedoRemapOld
    <2> DEFINE lsn == mode.cursor
               q == wal[lsn].page
               c == IF buf[q].valid THEN buf[q].lsn ELSE data.cached[wal[lsn].old]
    <2>1. /\ lsn \in 1 .. Len(wal) /\ wal[lsn] \in RecordType /\ q \in Pages
          /\ wal[lsn].old \in PBlock
        BY SMTT(40), <1>0, <1>24, LenNat DEF RedoRemapOld, Redoing, TypeOK, ModeType, Positions,
           RecordType, RemapsNamed
    <2>2. c \in Int /\ c <= Len(wal) /\ walFlushed = Len(wal)
        BY <1>0, <1>24, <2>1 DEF RedoRemapOld, Redoing, WalBeforeData, LsnsBehind
    <2>3. \A p \in Pages : buf'[p].lsn \in {buf[p].lsn, c}
        BY <1>24, <2>1, ZenonT(40) DEF RedoRemapOld, TypeOK, NoBuffer
    <2>4. data'.synced = data.synced /\ \A b \in PBlock : data'.cached[b] \in {data.cached[b], c}
        BY <1>24, <2>1, ZenonT(40) DEF RedoRemapOld, TypeOK, DataType
    <2>5. map'.lsn = lsn /\ lsn \in Nat /\ lsn <= Len(wal)
        BY SMTT(40), <1>0, <1>24, <2>1, SetMappingType DEF RedoRemapOld
    <2>6. mode'.phase = mode.phase
        BY <1>24 DEF RedoRemapOld, TypeOK, ModeType
    <2> HIDE DEF lsn, q, c
    <2> QED BY <1>0, <1>24, <2>2, <2>3, <2>4, <2>5, <2>6, Zenon DEF RedoRemapOld, WalBeforeData,
               LsnsBehind, walVars
<1>25. CASE RedoRemapNew
    <2> DEFINE lsn == mode.cursor
               q == wal[lsn].page
    <2>1. /\ lsn \in 1 .. Len(wal) /\ wal[lsn] \in RecordType /\ q \in Pages
          /\ wal[lsn].new \in PBlock /\ wal[lsn].nextFree \in Frontier
        BY <1>0, <1>25, LenNat DEF RedoRemapNew, TypeOK, ModeType, Positions, RecordType,
           RemapsNamed
    <2>2. Replay(buf[q].lsn, lsn) <= Len(wal)
        BY <1>0, <2>1 DEF Replay, Garbage, LsnsBehind
    <2>3. \A p \in Pages : buf'[p].lsn \in {buf[p].lsn, Replay(buf[q].lsn, lsn)}
        BY ZenonT(60), <1>25, <2>1 DEF RedoRemapNew, TypeOK, BufferType
    <2>4. map'.lsn = lsn /\ super'.lsn \in {lsn, super.lsn} /\ lsn \in Nat /\ lsn <= Len(wal)
        BY SMTT(40), <1>0, <1>25, <2>1, SetMappingType, BumpType DEF RedoRemapNew
    <2>5. mode'.phase = mode.phase
        BY <1>25 DEF RedoRemapNew, TypeOK, ModeType
    <2> HIDE DEF lsn, q
    <2> QED BY <1>0, <1>25, <2>2, <2>3, <2>4, <2>5, ZenonT(40) DEF RedoRemapNew, WalBeforeData,
               LsnsBehind, walVars
<1>26. CASE RedoDone
    BY <1>26 DEF RedoDone, WalBeforeData, LsnsBehind, walVars, mapVars
<1>27. CASE UNCHANGED vars
    BY <1>27 DEF vars, WalBeforeData, LsnsBehind
<1> QED BY <1>1, <1>2, <1>3, <1>4, <1>5, <1>6, <1>7, <1>8, <1>9, <1>10, <1>11, <1>12, <1>13,
           <1>14, <1>15, <1>16, <1>17, <1>18, <1>19, <1>20, <1>21, <1>22, <1>23, <1>24, <1>25,
           <1>26, <1>27 DEF Next

\* No data block, cached or durable, ever holds a change whose record is not
\* flushed: through normal writeback, checkpoint writes to captured blocks,
\* crashes that cut the WAL, and the writes redo itself makes to old blocks.
THEOREM WalFirst == Spec => []WalBeforeData
<1>1. LsnInv => WalBeforeData
    BY DEF LsnInv
<1> QED BY <1>1, InitLsn, NextLsn, PTL DEF Spec
=============================================================================
