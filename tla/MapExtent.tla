----------------------------- MODULE MapExtent -----------------------------
(***************************************************************************)
(* The logical size of a fork and the MAP pages that map its blocks, as    *)
(* the relation grows, is truncated, is checkpointed and crashes           *)
(* (storage/smgr/umbra.c, storage/map/map.c, mapsuper.c, mapflush.c,       *)
(* access/transam/umbra_xlog.c, xlogutils.c, catalog/storage.c).           *)
(*                                                                         *)
(* The size is kept in the superblock of the MAP fork, the mappings in its *)
(* pages.  Both are cached, and reach the disk separately: MAP pages at    *)
(* any time, the superblock at the end of the MAP phase of a checkpoint.   *)
(* MapReadBuffer takes a page that lies wholly beyond the size for a hole, *)
(* so the meaning of a page on disk depends on the size of the moment.     *)
(*                                                                         *)
(* One main fork is modelled; its pages lie in the MAP fork as MapLayout   *)
(* says.  Changes of a block that already has a home are the subject of    *)
(* UmbraRemap: a record of such a change matters here only because its     *)
(* redo reads the block.  Records are durable when they are inserted       *)
(* (UmbraRemap treats the flush of the log).                               *)
(*                                                                         *)
(* A relation created under wal_level = minimal starts without the MAP: it *)
(* is accessed with lblk = pblk, and its MAP is built when the transaction *)
(* commits (umpreparependingsync, umclearskipwalpending).                  *)
(***************************************************************************)
EXTENDS MapLayout, Sequences, FiniteSetsExt, TLC

CONSTANTS
  MaxBlocks,    \* bound: logical blocks of the fork
  MaxPblk,      \* bound: physical blocks handed out
  MaxWal,       \* bound: records inserted
  MaxCkpt,      \* bound: checkpoints started
  MaxCrash,     \* bound: crashes
  Unmapped,     \* InvalidBlockNumber in an entry
  NotCached,    \* no buffer holds the page
  Zeros         \* a page of the file that was extended and never written

ASSUME ExtentAssumption ==
  /\ {MaxBlocks, MaxPblk} \subseteq Nat \ {0}
  /\ {MaxWal, MaxCkpt, MaxCrash} \subseteq Nat

VARIABLES
  super,    \* [mem, disk] of the superblock: [size, next, pending]
  cache,    \* MAP block -> cached page, or NotCached
  dirty,    \* MAP blocks whose cached page differs from the file
  file,     \* the MAP file: [nblocks, page]
  op,       \* what the backend that grows or truncates the fork is doing
  ckpt,     \* phase, redo point and pages of the running checkpoint
  wal,      \* records
  redo,     \* redo point of the last completed checkpoint
  mode,     \* "running", "recovering", or why recovery stopped
  cursor,   \* next record to replay
  home,     \* history: the mapping a block got when the size reached it
  touched,  \* history: blocks with a record of their content
  exposed,  \* history: blocks mapped beyond the size at a redo point or an eviction
  top,      \* history: the largest size attempted since the last truncation
  cycles, crashes

mapFork == <<cache, dirty, file>>
server == <<redo, mode, cursor, cycles, crashes>>
history == <<home, touched, exposed, top>>
vars == <<super, mapFork, op, ckpt, wal, server, history>>

Blocks == 0 .. MaxBlocks - 1
Pblks == 0 .. MaxPblk - 1
Indexes == 0 .. (MaxBlocks - 1) \div EntriesPerPage
Page(i) == MapForkPageIndexToMapBlkno("main", i)
MapBlocks == {Page(i) : i \in Indexes}
Entries == 0 .. EntriesPerPage - 1
Hole == [e \in Entries |-> Unmapped]
PageOf(l) == MapLblknoToMapBlkno("main", l) \div EntriesPerPage
EntryOf(l) == MapLblknoToMapBlkno("main", l) % EntriesPerPage

Idle == [kind |-> "idle"]
NoCkpt == [phase |-> "none", redo |-> 0, pages |-> {}]

TypeOK ==
  /\ super \in [{"mem", "disk"} -> [size : 0 .. MaxBlocks, next : 0 .. MaxPblk,
                                     pending : BOOLEAN]]
  /\ cache \in [MapBlocks -> [Entries -> Pblks \cup {Unmapped}] \cup {NotCached}]
  /\ dirty \subseteq {b \in MapBlocks : cache[b] # NotCached}
  /\ file.nblocks \in Nat
  /\ \A b \in MapBlocks :
       /\ file.page[b] \in [Entries -> Pblks \cup {Unmapped}] \cup {Zeros}
       /\ b \in dirty => b < file.nblocks
  /\ ckpt.pages \subseteq dirty
  /\ redo \in 0 .. Len(wal)
  /\ cursor \in 0 .. Len(wal) + 1

Init ==
  /\ \E skip \in BOOLEAN :
       /\ super = [w \in {"mem", "disk"} |->
                     [size |-> 0, next |-> 0, pending |-> skip /\ w = "mem"]]
       /\ op = IF skip THEN [kind |-> "skipping", end |-> 0] ELSE Idle
  /\ cache = [b \in MapBlocks |-> NotCached]
  /\ dirty = {}
  /\ file = [nblocks |-> 1, page |-> [b \in MapBlocks |-> Zeros]]
  /\ ckpt = NoCkpt
  /\ wal = <<>>
  /\ redo = 0
  /\ mode = "running"
  /\ cursor = 0
  /\ home = [l \in Blocks |-> Unmapped]
  /\ touched = {}
  /\ exposed = {}
  /\ top = 0
  /\ cycles = 0
  /\ crashes = 0

-----------------------------------------------------------------------------
(***************************************************************************)
(* MapReadBuffer: the cached page if there is one; else the page of the    *)
(* file, unless it lies beyond the end of the file or of the fork.  A page *)
(* of zeros within the fork is reported as corruption.                     *)
(***************************************************************************)
ReadFile(b, size) ==
  IF b < file.nblocks /\ MapMapPageWithinLogicalRange("main", b, size)
    THEN file.page[b] ELSE Hole

MapReadBuffer(b) ==
  IF cache[b] # NotCached THEN cache[b] ELSE ReadFile(b, super["mem"].size)

Readable(S) == \A b \in S : MapReadBuffer(b) # Zeros

MapTryLookup(l) ==
  LET page == MapReadBuffer(PageOf(l))
  IN  IF page = Zeros THEN Unmapped ELSE page[EntryOf(l)]

(***************************************************************************)
(* MapSetMapping and MapTruncate change cached pages and mark them dirty.  *)
(* The first time, the file is extended with zeros up to the page.         *)
(***************************************************************************)
Change(new) ==
  /\ cache' = [b \in MapBlocks |-> IF b \in DOMAIN new THEN new[b] ELSE cache[b]]
  /\ dirty' = dirty \cup DOMAIN new
  /\ file' = [file EXCEPT !.nblocks = Max({@} \cup {b + 1 : b \in DOMAIN new})]

Entry(m, page, b, e) ==
  LET here == {l \in DOMAIN m : PageOf(l) = b /\ EntryOf(l) = e}
  IN  IF here = {} THEN page[e] ELSE m[CHOOSE l \in here : TRUE]

SetMappings(m) ==
  Change([b \in {PageOf(l) : l \in DOMAIN m} |->
            [e \in Entries |-> Entry(m, MapReadBuffer(b), b, e)]])

PagesToClear(n, old) ==
  {b \in {Page(i) : i \in TruncatedPages(n, old)} : b < file.nblocks}

MapTruncate(n, old) ==
  Change([b \in PagesToClear(n, old) |->
            [e \in Entries |->
               IF e \in TruncatedEntries(n, old, MapDecodeMapBlkno(b).page)
                 THEN Unmapped ELSE MapReadBuffer(b)[e]]])

Bump(s, size, next) ==
  [s EXCEPT !.size = Max({@, size}), !.next = Max({@, next})]

-----------------------------------------------------------------------------
(***************************************************************************)
(* Growing the fork by n blocks (umzeroextend).  Two or more unmapped      *)
(* blocks take the range path: one record maps them all, and the size is   *)
(* bumped before checkpoints are let in again.                             *)
(***************************************************************************)
ZeroExtend(n) ==
  LET first == super["mem"].size
      range == first .. first + n - 1
  IN  /\ mode = "running"
      /\ op = Idle
      /\ first + n <= MaxBlocks
      /\ Readable({PageOf(l) : l \in range})
      /\ op' = [kind |-> IF n >= 2 /\ \A l \in range : MapTryLookup(l) = Unmapped
                           THEN "range" ELSE "block",
                at |-> first, end |-> first + n, map |-> <<>>]
      /\ top' = Max({top, first + n})
      /\ UNCHANGED <<super, mapFork, ckpt, wal, server, home, touched,
                     exposed>>

RangeRemap ==
  LET m == [l \in op.at .. op.end - 1 |-> super["mem"].next + (l - op.at)]
      next == super["mem"].next + (op.end - op.at)
  IN  /\ op.kind = "range"
      /\ op.at < op.end
      /\ next <= MaxPblk
      /\ Len(wal) < MaxWal
      /\ wal' = Append(wal, [kind |-> "set", map |-> m])
      /\ SetMappings(m)
      /\ super' = [super EXCEPT !["mem"] = Bump(@, 0, next)]
      /\ op' = [op EXCEPT !.at = op.end, !.kind = "ranged", !.map = m]
      /\ UNCHANGED <<ckpt, server, history>>

(***************************************************************************)
(* The other path visits the blocks one by one.  A block without a mapping *)
(* gets one (um_publish_mapped_birth), a block that has one keeps it.  Any *)
(* other backend may evict the MAP page between two visits.                *)
(***************************************************************************)
BlockBirth ==
  LET l == op.at
      m == l :> super["mem"].next
  IN  /\ op.kind = "block"
      /\ l < op.end
      /\ Readable({PageOf(l)})
      /\ MapTryLookup(l) = Unmapped
      /\ super["mem"].next < MaxPblk
      /\ Len(wal) < MaxWal
      /\ wal' = Append(wal, [kind |-> "set", map |-> m])
      /\ SetMappings(m)
      /\ super' = [super EXCEPT !["mem"] = Bump(@, 0, super["mem"].next + 1)]
      /\ op' = [op EXCEPT !.at = l + 1, !.map = m @@ @]
      /\ UNCHANGED <<ckpt, server, history>>

BlockReuse ==
  LET b == PageOf(op.at)
  IN  /\ op.kind = "block"
      /\ op.at < op.end
      /\ Readable({b})
      /\ MapTryLookup(op.at) # Unmapped
      /\ cache' = [cache EXCEPT ![b] = MapReadBuffer(b)]
      /\ op' = [op EXCEPT !.at = @ + 1, !.map = (op.at :> MapTryLookup(op.at)) @@ @]
      /\ UNCHANGED <<super, dirty, file, ckpt, wal, server, history>>

(***************************************************************************)
(* The blocks have been written as zeros; the size is raised.              *)
(***************************************************************************)
BumpSize ==
  /\ op.kind \in {"ranged", "block"}
  /\ op.at = op.end
  /\ super' = [super EXCEPT !["mem"] = Bump(@, op.end, 0)]
  /\ home' = op.map @@ home
  /\ op' = Idle
  /\ UNCHANGED <<mapFork, ckpt, wal, server, touched, exposed, top>>

(***************************************************************************)
(* Writing the blocks, or growing the file for them, fails with an ERROR.  *)
(***************************************************************************)
ExtendFails ==
  /\ op.kind = "block"
  /\ op.at = op.end
  /\ op' = Idle
  /\ UNCHANGED <<super, mapFork, ckpt, wal, server, history>>

(***************************************************************************)
(* The first record of the content of a block that has its mapping: the    *)
(* record carries none.                                                    *)
(***************************************************************************)
InitPage(l) ==
  /\ mode = "running"
  /\ op = Idle
  /\ l < super["mem"].size
  /\ l \notin touched
  /\ Readable({PageOf(l)})
  /\ MapTryLookup(l) # Unmapped
  /\ Len(wal) < MaxWal
  /\ wal' = Append(wal, [kind |-> "page", block |-> l, pblk |-> Unmapped])
  /\ cache' = [cache EXCEPT ![PageOf(l)] = MapReadBuffer(PageOf(l))]
  /\ touched' = touched \cup {l}
  /\ UNCHANGED <<super, dirty, file, op, ckpt, server, home, exposed, top>>

(***************************************************************************)
(* log_newpage of a block without mapping: the block after the last, which *)
(* umextend has claimed, or one that lost its mapping.  The record carries *)
(* the mapping; it is published, and the size raised, before checkpoints   *)
(* are let in again (XLogCommitBlockRemapsUmbra).                          *)
(***************************************************************************)
LogNewPage(l) ==
  LET next == super["mem"].next
  IN  /\ mode = "running"
      /\ op = Idle
      /\ l <= super["mem"].size
      /\ Readable({PageOf(l)})
      /\ MapTryLookup(l) = Unmapped
      /\ next < MaxPblk
      /\ Len(wal) < MaxWal
      /\ wal' = Append(wal, [kind |-> "page", block |-> l, pblk |-> next])
      /\ SetMappings(l :> next)
      /\ super' = [super EXCEPT !["mem"] = Bump(@, l + 1, next + 1)]
      /\ home' = [home EXCEPT ![l] = next]
      /\ touched' = touched \cup {l}
      /\ top' = Max({top, l + 1})
      /\ UNCHANGED <<op, ckpt, server, exposed>>

-----------------------------------------------------------------------------
(***************************************************************************)
(* A relation that skips WAL grows by direct access.  At commit its cached *)
(* MAP pages and superblock are dropped, one record is logged for the      *)
(* dense mapping, the entries are set one by one and the size is set.      *)
(***************************************************************************)
DirectExtend ==
  /\ mode = "running"
  /\ op.kind = "skipping"
  /\ op.end < MaxBlocks
  /\ op' = [op EXCEPT !.end = @ + 1]
  /\ UNCHANGED <<super, mapFork, ckpt, wal, server, history>>

MapInvalidateRelation ==
  /\ op.kind = "skipping"
  /\ super' = [super EXCEPT !["mem"] = super["disk"]]
  /\ cache' = [b \in MapBlocks |-> NotCached]
  /\ dirty' = {}
  /\ ckpt' = [ckpt EXCEPT !.pages = {}]
  /\ op' = [op EXCEPT !.kind = "rebuilding"]
  /\ UNCHANGED <<file, wal, server, history>>

DenseLog ==
  /\ op.kind = "rebuilding"
  /\ Len(wal) < MaxWal
  /\ wal' = IF op.end > 0 THEN Append(wal, [kind |-> "dense", size |-> op.end]) ELSE wal
  /\ op' = [kind |-> "dense", at |-> 0, end |-> op.end]
  /\ UNCHANGED <<super, mapFork, ckpt, server, history>>

DenseBlock ==
  /\ op.kind = "dense"
  /\ op.at < op.end
  /\ Readable({PageOf(op.at)})
  /\ SetMappings(op.at :> op.at)
  /\ op' = [op EXCEPT !.at = @ + 1]
  /\ UNCHANGED <<super, ckpt, wal, server, history>>

DenseSize ==
  /\ op.kind = "dense"
  /\ op.at = op.end
  /\ super' = [super EXCEPT !["mem"] = [Bump(@, 0, op.end) EXCEPT !.size = op.end]]
  /\ op' = [op EXCEPT !.kind = "built"]
  /\ UNCHANGED <<mapFork, ckpt, wal, server, history>>

(***************************************************************************)
(* With the data the MAP pages and the superblock are synced.  Then the    *)
(* flag is cleared, and both are synced again before the transaction       *)
(* commits.                                                                *)
(***************************************************************************)
MapCheckpointRelation ==
  /\ dirty = {}
  /\ super' = [super EXCEPT !["disk"] = super["mem"]]

DenseSync ==
  /\ op.kind = "built"
  /\ MapCheckpointRelation
  /\ op' = [op EXCEPT !.kind = "synced"]
  /\ UNCHANGED <<mapFork, ckpt, wal, server, history>>

ClearPending ==
  /\ op.kind = "synced"
  /\ super' = [super EXCEPT !["mem"].pending = FALSE]
  /\ op' = [op EXCEPT !.kind = "clearing"]
  /\ UNCHANGED <<mapFork, ckpt, wal, server, history>>

Commit ==
  /\ home' = [l \in Blocks |-> IF l < op.end THEN l ELSE home[l]]
  /\ touched' = 0 .. op.end - 1
  /\ top' = op.end
  /\ op' = Idle
  /\ UNCHANGED <<mapFork, ckpt, wal, server, exposed>>

\* Mutant: the cleared flag is left to the next checkpoint.
ClearSyncSkipped ==
  /\ op.kind = "clearing"
  /\ dirty = {}
  /\ Commit
  /\ UNCHANGED super

ClearSync ==
  /\ op.kind = "clearing"
  /\ MapCheckpointRelation
  /\ Commit

-----------------------------------------------------------------------------
(***************************************************************************)
(* Truncation to n blocks (RelationTruncate): the record, then the entries *)
(* beyond n, then the size.  Checkpoints neither start nor complete in     *)
(* between, and the pages are pinned (umpretruncate).                      *)
(***************************************************************************)
TruncateLog(n) ==
  LET pages == PagesToClear(n, super["mem"].size)
  IN  /\ mode = "running"
      /\ op = Idle
      /\ n < super["mem"].size
      /\ Len(wal) < MaxWal
      /\ Readable(pages)
      /\ wal' = Append(wal, [kind |-> "truncate", size |-> n])
      /\ cache' = [b \in MapBlocks |-> IF b \in pages THEN MapReadBuffer(b) ELSE cache[b]]
      /\ op' = [kind |-> "logged", size |-> n, pinned |-> pages]
      /\ home' = [l \in Blocks |-> IF l < n THEN home[l] ELSE Unmapped]
      /\ touched' = {l \in touched : l < n}
      /\ exposed' = {l \in exposed : l < n}
      /\ top' = n
      /\ UNCHANGED <<super, dirty, file, ckpt, server>>

TruncateEntries ==
  /\ op.kind = "logged"
  /\ MapTruncate(op.size, super["mem"].size)
  /\ op' = [op EXCEPT !.kind = "cleared"]
  /\ UNCHANGED <<super, ckpt, wal, server, history>>

TruncateSize ==
  /\ op.kind = "cleared"
  /\ super' = [super EXCEPT !["mem"].size = op.size]
  /\ op' = Idle
  /\ UNCHANGED <<mapFork, ckpt, wal, server, history>>

-----------------------------------------------------------------------------
(***************************************************************************)
(* MAP buffers: written by the mapwriter, the checkpoint or an evicting    *)
(* backend, and evicted when clean.  Truncation holds a pin on its pages;  *)
(* the claims of a range keep its pages in place while RangeRemap runs.    *)
(* A page beyond the size that is evicted between two visits of a block by *)
(* block path is a hole when it is read again: its new entries are lost.   *)
(***************************************************************************)
MapFlushBuffer(b) ==
  /\ mode \in {"running", "recovering"}
  /\ b \in dirty
  /\ file' = [file EXCEPT !.page[b] = cache[b]]
  /\ dirty' = dirty \ {b}
  /\ ckpt' = [ckpt EXCEPT !.pages = @ \ {b}]
  /\ UNCHANGED <<super, cache, op, wal, server, history>>

\* Mutant: a dirty page is evicted without being written.
EvictDirty(b) ==
  /\ mode \in {"running", "recovering"}
  /\ cache[b] # NotCached
  /\ cache' = [cache EXCEPT ![b] = NotCached]
  /\ UNCHANGED <<super, dirty, file, op, ckpt, wal, server, history>>

Evict(b) ==
  /\ mode \in {"running", "recovering"}
  /\ cache[b] # NotCached
  /\ b \notin dirty
  /\ op.kind \in {"logged", "cleared"} => b \notin op.pinned
  /\ cache' = [cache EXCEPT ![b] = NotCached]
  /\ exposed' = exposed \cup
       {l \in Blocks : /\ PageOf(l) = b
                       /\ op.kind \in {"block", "dense"}
                       /\ super["mem"].size <= l /\ l < op.at}
  /\ UNCHANGED <<super, dirty, file, op, ckpt, wal, server, home, touched, top>>

(***************************************************************************)
(* A checkpoint: the redo point, which waits for a backend in a section    *)
(* that delays it; the MAP pages dirty at that moment; the superblock; the *)
(* end, which waits for a truncation.                                      *)
(***************************************************************************)
\* Mutant: truncation does not delay the start of a checkpoint.
DelaysStartRangeOnly == op.kind = "ranged"

DelaysStart == op.kind \in {"ranged", "dense", "logged", "cleared"}

CkptRedo ==
  /\ mode = "running"
  /\ ckpt.phase = "none"
  /\ cycles < MaxCkpt
  /\ ~DelaysStart
  /\ ckpt' = [phase |-> "redo", redo |-> Len(wal), pages |-> {}]
  /\ cycles' = cycles + 1
  /\ exposed' = exposed \cup {l \in Blocks : /\ l >= super["mem"].size
                                            /\ MapTryLookup(l) # Unmapped}
  /\ UNCHANGED <<super, mapFork, op, wal, redo, mode, cursor, crashes, home,
                 touched, top>>

MapCheckpointPages ==
  /\ ckpt.phase = "redo"
  /\ ckpt' = [ckpt EXCEPT !.phase = "pages", !.pages = dirty]
  /\ UNCHANGED <<super, mapFork, op, wal, server, history>>

MapCheckpointSuper ==
  /\ ckpt.phase = "pages"
  /\ ckpt.pages = {}
  /\ super' = [super EXCEPT !["disk"] = super["mem"]]
  /\ ckpt' = [ckpt EXCEPT !.phase = "super"]
  /\ UNCHANGED <<mapFork, op, wal, server, history>>

CkptComplete ==
  /\ ckpt.phase = "super"
  /\ op.kind \notin {"logged", "cleared"}
  /\ redo' = ckpt.redo
  /\ ckpt' = NoCkpt
  /\ UNCHANGED <<super, mapFork, op, wal, mode, cursor, cycles, crashes,
                 history>>

-----------------------------------------------------------------------------
(***************************************************************************)
(* A crash loses every cache.  Recovery replays from the last redo point.  *)
(* A relation whose creating transaction had not committed is never        *)
(* accessed again; its records are replayed all the same.                  *)
(***************************************************************************)
Uncommitted ==
  {"skipping", "rebuilding", "dense", "built", "synced", "clearing", "aborted"}

Crash ==
  /\ mode \in {"running", "recovering"}
  /\ crashes < MaxCrash
  /\ crashes' = crashes + 1
  /\ super' = [super EXCEPT !["mem"] = super["disk"]]
  /\ cache' = [b \in MapBlocks |-> NotCached]
  /\ dirty' = {}
  /\ op' = IF op.kind \in Uncommitted THEN [kind |-> "aborted"] ELSE Idle
  /\ ckpt' = NoCkpt
  /\ mode' = "recovering"
  /\ cursor' = redo + 1
  /\ UNCHANGED <<file, wal, redo, cycles, history>>

Replay(kind) ==
  /\ mode = "recovering"
  /\ cursor <= Len(wal)
  /\ wal[cursor].kind = kind

Replayed ==
  /\ cursor' = cursor + 1
  /\ UNCHANGED <<op, ckpt, wal, redo, mode, cycles, crashes, history>>

\* Mutant: redo leaves the allocator where the superblock had it.
RedoSetNoNext ==
  /\ Replay("set")
  /\ LET m == wal[cursor].map
     IN  /\ Readable({PageOf(l) : l \in DOMAIN m})
         /\ SetMappings(m)
         /\ super' = [super EXCEPT !["mem"] = Bump(@, Max(DOMAIN m) + 1, 0)]
  /\ Replayed

(***************************************************************************)
(* MAP_SET and RANGE_REMAP: the mappings, the allocator and the size.      *)
(***************************************************************************)
RedoSet ==
  /\ Replay("set")
  /\ LET m == wal[cursor].map
     IN  /\ Readable({PageOf(l) : l \in DOMAIN m})
         /\ SetMappings(m)
         /\ super' = [super EXCEPT !["mem"] =
                        Bump(@, Max(DOMAIN m) + 1,
                             Max({m[l] : l \in DOMAIN m}) + 1)]
  /\ Replayed

(***************************************************************************)
(* A record that initialises a block.  Its own mapping, if it has one, is  *)
(* installed and the size raised.  A block beyond the size makes           *)
(* XLogReadBufferExtended extend the fork up to it, which takes existing   *)
(* mappings only.                                                          *)
(***************************************************************************)
Missing(l) == super["mem"].size .. l

RedoPage ==
  /\ Replay("page")
  /\ LET l == wal[cursor].block
         p == wal[cursor].pblk
     IN  IF p # Unmapped
           THEN /\ Readable({PageOf(l)})
                /\ SetMappings(l :> p)
                /\ super' = [super EXCEPT !["mem"] = Bump(@, l + 1, p + 1)]
           ELSE /\ Readable({PageOf(k) : k \in Missing(l)})
                /\ \A k \in Missing(l) : MapTryLookup(k) # Unmapped
                /\ cache' = [b \in MapBlocks |->
                               IF b \in {PageOf(k) : k \in Missing(l)}
                                 THEN MapReadBuffer(b) ELSE cache[b]]
                /\ super' = [super EXCEPT !["mem"] = Bump(@, l + 1, 0)]
                /\ UNCHANGED <<dirty, file>>
  /\ Replayed

(***************************************************************************)
(* smgr_redo of a truncation: entries between the new size and the size of *)
(* the superblock are cleared, then the size is set, be it smaller or not. *)
(***************************************************************************)
RedoTruncate ==
  /\ Replay("truncate")
  /\ LET n == wal[cursor].size
     IN  /\ Readable(PagesToClear(n, super["mem"].size))
         /\ MapTruncate(n, super["mem"].size)
         /\ super' = [super EXCEPT !["mem"].size = n]
  /\ Replayed

(***************************************************************************)
(* SKIP_WAL_DENSE_MAP: the caches of the relation are dropped, the blocks  *)
(* get the identity mapping and the size is set.                           *)
(***************************************************************************)
RedoDense ==
  /\ Replay("dense")
  /\ LET n == wal[cursor].size
         old == super["disk"]
         m == [l \in 0 .. n - 1 |-> l]
         pages == {PageOf(l) : l \in DOMAIN m}
     IN  /\ \A b \in pages : ReadFile(b, old.size) # Zeros
         /\ cache' = [b \in MapBlocks |->
                        IF b \in pages
                          THEN [e \in Entries |-> Entry(m, ReadFile(b, old.size), b, e)]
                          ELSE NotCached]
         /\ dirty' = pages
         /\ file' = [file EXCEPT !.nblocks = Max({@} \cup {b + 1 : b \in pages})]
         /\ super' = [super EXCEPT !["mem"] = [Bump(old, 0, n) EXCEPT !.size = n]]
  /\ Replayed

(***************************************************************************)
(* The startup process gives up: on a MAP page of zeros within the size    *)
(* (ERROR in MapReadBuffer), or on a block to extend that has no mapping   *)
(* (PANIC in um_publish_mapped_birth).                                     *)
(***************************************************************************)
PagesRead(r) ==
  CASE r.kind = "set" -> {PageOf(l) : l \in DOMAIN r.map}
    [] r.kind = "dense" -> {PageOf(l) : l \in 0 .. r.size - 1}
    [] r.kind = "truncate" -> PagesToClear(r.size, super["mem"].size)
    [] r.kind = "page" /\ r.pblk # Unmapped -> {PageOf(r.block)}
    [] r.kind = "page" /\ r.pblk = Unmapped -> {PageOf(k) : k \in Missing(r.block)}

RedoFindsZeros ==
  /\ mode = "recovering"
  /\ cursor <= Len(wal)
  /\ ~Readable(PagesRead(wal[cursor]))
  /\ mode' = "zeros"
  /\ UNCHANGED <<super, mapFork, op, ckpt, wal, redo, cursor, cycles, crashes, history>>

RedoFindsNoMapping ==
  /\ Replay("page")
  /\ wal[cursor].pblk = Unmapped
  /\ Readable(PagesRead(wal[cursor]))
  /\ \E k \in Missing(wal[cursor].block) : MapTryLookup(k) = Unmapped
  /\ mode' = "unmapped"
  /\ UNCHANGED <<super, mapFork, op, ckpt, wal, redo, cursor, cycles, crashes, history>>

RecoveryDone ==
  /\ mode = "recovering"
  /\ cursor = Len(wal) + 1
  /\ mode' = "running"
  /\ cursor' = 0
  /\ UNCHANGED <<super, mapFork, op, ckpt, wal, redo, cycles, crashes,
                 history>>

-----------------------------------------------------------------------------
Next ==
  \/ \E n \in 1 .. 2 : ZeroExtend(n)
  \/ RangeRemap \/ BlockBirth \/ BlockReuse \/ BumpSize \/ ExtendFails
  \/ \E l \in Blocks : InitPage(l) \/ LogNewPage(l)
  \/ DirectExtend \/ MapInvalidateRelation \/ DenseLog \/ DenseBlock \/ DenseSize
  \/ DenseSync \/ ClearPending \/ ClearSync
  \/ \E n \in Blocks : TruncateLog(n)
  \/ TruncateEntries \/ TruncateSize
  \/ \E b \in MapBlocks : MapFlushBuffer(b) \/ Evict(b)
  \/ CkptRedo \/ MapCheckpointPages \/ MapCheckpointSuper \/ CkptComplete
  \/ Crash \/ RedoSet \/ RedoDense \/ RedoPage \/ RedoTruncate
  \/ RedoFindsZeros \/ RedoFindsNoMapping \/ RecoveryDone

Spec == Init /\ [][Next]_vars

-----------------------------------------------------------------------------
Settled == mode = "running" /\ op = Idle

(***************************************************************************)
(* MappingsKept: while the server runs, a block that got a home when the   *)
(* fork grew over it still has it, through evictions, checkpoints, crashes *)
(* and truncations of other blocks, although a page beyond the size is     *)
(* taken for a hole.  So does a block written before the MAP was built.    *)
(* The exceptions are a block that was mapped before, and the size raised  *)
(* after, the redo point of a checkpoint, and one whose page was evicted   *)
(* between the two.                                                        *)
(***************************************************************************)
MappingsKept ==
  Settled => \A l \in Blocks \ exposed :
               l < super["mem"].size /\ home[l] # Unmapped => MapTryLookup(l) = home[l]

(***************************************************************************)
(* EveryMappingKept: the same without the exceptions.                      *)
(***************************************************************************)
EveryMappingKept ==
  Settled => \A l \in Blocks :
               l < super["mem"].size /\ home[l] # Unmapped => MapTryLookup(l) = home[l]

(***************************************************************************)
(* SizeRecovered: after every crash the size covers each block whose       *)
(* content was logged and not truncated since, and never exceeds what the  *)
(* last truncation and the growth after it, failed or not, add up to: a    *)
(* truncated tail does not come back.                                      *)
(***************************************************************************)
SizeRecovered ==
  Settled => /\ \A l \in touched : l < super["mem"].size
             /\ super["mem"].size <= top

(***************************************************************************)
(* NoSharedBlock: no two entries hold the same physical block and none     *)
(* holds one the allocator has yet to hand out, the entries beyond the     *)
(* size that a failed extension or a skipped truncation left included.     *)
(* (While a dense map is built nobody allocates.)                          *)
(***************************************************************************)
NoSharedBlock ==
  mode = "running" /\ op.kind # "dense" =>
    \A l \in Blocks : MapTryLookup(l) # Unmapped =>
      /\ MapTryLookup(l) < super["mem"].next
      /\ \A k \in Blocks \ {l} : MapTryLookup(k) # MapTryLookup(l)

(***************************************************************************)
(* SuperblockBehindPages: recovery never meets a MAP page of zeros within  *)
(* the size it read from the superblock.                                   *)
(***************************************************************************)
SuperblockBehindPages == mode # "zeros"

(***************************************************************************)
(* SkipWalLeft: a relation whose transaction has committed is not taken    *)
(* for one that still skips WAL, neither then nor after a crash            *)
(* (umclearskipwalpending).                                                *)
(***************************************************************************)
SkipWalLeft == Settled => ~super["mem"].pending

(***************************************************************************)
(* BirthsRecovered: recovery finds the mapping of every block it has to    *)
(* extend the fork over.                                                   *)
(***************************************************************************)
BirthsRecovered == mode # "unmapped"
=============================================================================
