------------------------------- MODULE GCHeap -------------------------------
(***************************************************************************)
(* The page heap of MMgc (MMgc/GCHeap.cpp): the table of HeapBlocks with   *)
(* its boundary tags, the free lists, the regions reserved from the        *)
(* operating system, expansion, allocations that get a region of their     *)
(* own, and Decommit.                                                      *)
(*                                                                         *)
(* Pages are numbered from 1; 0 is NULL.  Indices in the block table and   *)
(* block ids count from 1 as well.  The heap is one record, and each       *)
(* method of the class an operator that takes the record and returns it.   *)
(* An allocation over HeapLimit fails: the callbacks that free memory are  *)
(* other steps, and the retry after them is the client's next Alloc.  That *)
(* a kCanFail request over a limit gives back what it got is a Free.       *)
(* useVirtualMemory, returnMemory and m_oomHandling hold, and decommitting *)
(* succeeds: the code aborts when it does not.                             *)
(***************************************************************************)
EXTENDS Integers, Sequences, FiniteSets, SequencesExt, FiniteSetsExt

CONSTANTS
  Pages,             \* pages of the address space
  Bases,             \* where the system places a new reservation
  Requests,          \* what clients ask for: <<size, alignment>>
  MaxItems,          \* bound on the items clients hold
  MaxDrift,          \* bound on how far numDecommitted may fall below zero
  Threads,           \* who calls Decommit
  Faults,            \* the system calls that may fail: "reserve", "commit"
  InitialSize, HeapLimit, HeapSoftLimit,
  TrimVirtualMemory,   \* GCHeapConfig
  SloppyCommits,     \* the values sloppyCommit may have
  MinHeapIncrement, DefaultReserve, OSAllocThreshold,
  UniqueThreshold, HugeThreshold, FreeListCompression,
  HeapBlocksPerPage, RegionsPerPage,
  NewPagesDirty,     \* AVMPI_areNewPagesDirty
  Word,              \* one more than the largest size_t
  None

ASSUME GCHeapAssumption ==
  /\ Bases \subseteq 1..Pages /\ Requests \subseteq (Nat \ {0}) \X (Nat \ {0})
  /\ Faults \subseteq {"reserve", "commit"}
  /\ SloppyCommits \cup {TrimVirtualMemory, NewPagesDirty} \subseteq BOOLEAN
  /\ InitialSize \in Nat \ {0} /\ MinHeapIncrement \in Nat \ {0}
  /\ Word > 100 * Pages /\ None \notin Threads

VARIABLES
  heap,    \* the members of GCHeap, and what the system knows of its pages
  items,   \* address -> size of what clients hold
  lock,    \* m_spinlock, when a Decommit holds it from one state to the next
  plan     \* the locals of each thread's Decommit
vars == <<heap, items, lock, plan>>

NumFreeLists ==
  (HugeThreshold - UniqueThreshold) \div FreeListCompression + UniqueThreshold

CeilDiv(n, d) == (n + d - 1) \div d
RoundUp(n, d) == CeilDiv(n, d) * d

(* numHeapBlocksToNumBlocks. *)
TablePages(n) == CeilDiv(n, HeapBlocksPerPage)

(* alignmentSlop. *)
Slop(addr, alignment) == (alignment - (addr % alignment)) % alignment

PagesFrom(addr, n) == addr .. addr + n - 1

(***************************************************************************)
(* HeapBlocks.  An entry inside a block is Cleared; a sentinel differs     *)
(* from it by the size of its predecessor.                                 *)
(***************************************************************************)
Cleared == [base |-> 0, size |-> 0, prev |-> 0, used |-> TRUE, committed |-> FALSE,
            dirty |-> FALSE]
Sentinel(prev) == [Cleared EXCEPT !.prev = prev]

Headers(h) == {b \in DOMAIN h.blocks : h.blocks[b].size # 0}
End(h, b) == b + h.blocks[b].size
PagesOf(h, b) == PagesFrom(h.blocks[b].base, h.blocks[b].size)

(* RemoveFromList. *)
RemoveFromList(h, b) ==
  [h EXCEPT !.blocks[b].used = TRUE,
            !.freelists = [l \in DOMAIN @ |-> SelectSeq(@[l], LAMBDA x : x # b)]]

InsertInList(h, b, l, k) ==
  [h EXCEPT !.blocks[b].used = FALSE, !.freelists[l] = InsertAt(@, k, b)]

(* GetFreeListIndex. *)
FreeListIndex(size) ==
  IF size <= UniqueThreshold THEN size
  ELSE IF size >= HugeThreshold THEN NumFreeLists
       ELSE (size - UniqueThreshold) \div FreeListCompression + UniqueThreshold

(* Split: block b keeps n pages, the rest becomes block b + n. *)
Split(h, b, n) ==
  LET e == h.blocks[b] IN
  [h EXCEPT !.blocks[b].size = n,
            !.blocks[b + n] = [e EXCEPT !.base = @ + n, !.size = @ - n, !.prev = n,
                                        !.used = TRUE],
            !.blocks[End(h, b)].prev = e.size - n]

(* Block b absorbs block c, which follows it. *)
Absorb(h, b, c) == [h EXCEPT !.blocks[b].size = @ + h.blocks[c].size, !.blocks[c] = Cleared]

(* sizePrevious of the entry after b; a mutation leaves it alone.          *)
NoLinkNext(h, b) == h
LinkNext(h, b) == [h EXCEPT !.blocks[End(h, b)].prev = h.blocks[b].size]

CommittedFree(h, b) == ~h.blocks[b].used /\ h.blocks[b].committed

(* The place of block b in its list, which is sorted by size. *)
SortedPlace(h, b, l) ==
  LET larger == SelectInSeq(h.freelists[l],
                            LAMBDA x : h.blocks[x].size >= h.blocks[b].size)
  IN  IF h.blocks[b].size < UniqueThreshold \/ larger = 0
      THEN Len(h.freelists[l]) + 1 ELSE larger

(* The neighbours of block b, and the block that b becomes part of when    *)
(* the one before it is among those that can be merged with it.            *)
Neighbours(h, b) == {b - h.blocks[b].prev, End(h, b)} \ {b}
MergedInto(h, b, joins) ==
  LET p == b - h.blocks[b].prev IN IF p \in joins THEN p ELSE b

(* Block b is merged with the one before it, or with the one after it.     *)
MergePrev(h, b, joins) ==
  LET p == MergedInto(h, b, joins)
  IN  IF p # b THEN Absorb(RemoveFromList(h, p), p, b) ELSE h
MergeNext(h, b, joins) ==
  LET n == End(h, b)
  IN  IF n \in joins THEN Absorb(RemoveFromList(h, n), b, n) ELSE h

(* Block b enters list l: at the place its size has there, once the entry  *)
(* after it knows that size.                                               *)
Enlist(h, b, l) == InsertInList(h, b, l, SortedPlace(h, b, l))
ToFreeList(h, b) == Enlist(LinkNext(h, b), b, FreeListIndex(h.blocks[b].size))

(* AddToFreeList: coalesces committed neighbours. *)
AddToFreeList(h, b, makeDirty) ==
  LET joins == IF h.blocks[b].committed THEN {c \in Neighbours(h, b) : CommittedFree(h, c)}
               ELSE {}
      Dirty(g, c, n) ==
        g.blocks[c].dirty \/ makeDirty \/ (n \in joins /\ g.blocks[n].dirty)
      JoinNext(g, c) ==
        ToFreeList([MergeNext(g, c, joins) EXCEPT !.blocks[c].dirty = Dirty(g, c, End(g, c))], c)
  IN  JoinNext(MergePrev(h, b, joins), MergedInto(h, b, joins))

(* Mutation of FreeBlock: what the client wrote is forgotten. *)
FreeBlockClean(h, b) == AddToFreeList(h, b, FALSE)

(* FreeBlock. *)
FreeBlock(h, b) == AddToFreeList(h, b, TRUE)

(***************************************************************************)
(* Regions, the last one first                                             *)
(***************************************************************************)
LargeItem == 0   \* kLargeItemBlockId

AddrToRegion(h, addr) ==
  SelectInSeq(h.regions, LAMBDA r : addr >= r.base /\ addr < r.reserveTop)

(* BaseAddrToBlock; 0 for a large item or a foreign address. *)
BaseAddrToBlock(h, addr) ==
  LET i == AddrToRegion(h, addr)
  IN  IF i = 0 THEN 0
      ELSE LET r == h.regions[i]
           IN IF r.blockId = LargeItem THEN 0 ELSE r.blockId + (addr - r.base)

(* LargeAllocSize. *)
LargeAllocSize(h, addr) == h.regions[AddrToRegion(h, addr)].commitTop - addr

(* Size. *)
SizeOf(h, addr) ==
  LET b == BaseAddrToBlock(h, addr)
  IN  IF b # 0 THEN h.blocks[b].size
      ELSE IF AddrToRegion(h, addr) # 0 THEN LargeAllocSize(h, addr) ELSE 0

AlwaysFreeRegion(h) == TRUE   \* a mutation of HaveFreeRegion
HaveFreeRegion(h) == h.nextRegion # 0 \/ h.freeRegion # 0

(* NewRegion: the entry comes from the free ones, or from the region page. *)
NewRegion(h, base, reserveTop, commitTop, blockId) ==
  [h EXCEPT !.regions = <<[base |-> base, reserveTop |-> reserveTop,
                           commitTop |-> commitTop, blockId |-> blockId]>> \o @,
            !.freeRegion = IF @ # 0 THEN @ - 1 ELSE 0,
            !.nextRegion = IF h.freeRegion # 0 THEN @ ELSE @ - 1]

(* RemoveRegion and FreeRegion. *)
RemoveRegion(h, i) ==
  [h EXCEPT !.regions = RemoveAt(@, i), !.freeRegion = @ + 1]

(* What the system is told of pages. *)
Reserve(h, addr, n) == [h EXCEPT !.reserved = @ \cup PagesFrom(addr, n)]
Release(h, addr, n) ==
  [h EXCEPT !.reserved = @ \ PagesFrom(addr, n), !.backed = @ \ PagesFrom(addr, n),
            !.soiled = @ \ PagesFrom(addr, n)]
CommitPages(h, S) ==
  [h EXCEPT !.backed = @ \cup S, !.soiled = IF NewPagesDirty THEN @ \cup S ELSE @]

(* Whether the system grants pages at an address, and where it finds new ones. *)
Grants(h, addr, n) ==
  LET free == PagesFrom(addr, n) \subseteq (1..Pages) \ h.reserved
  IN  {free} \cup (IF "reserve" \in Faults THEN {FALSE} ELSE {})
Finds(h, n) ==
  LET places == {a \in Bases : PagesFrom(a, n) \subseteq (1..Pages) \ h.reserved}
  IN  IF places = {} \/ "reserve" \in Faults THEN places \cup {0} ELSE places
Commits == IF "commit" \in Faults THEN BOOLEAN ELSE {TRUE}

(***************************************************************************)
(* Totals                                                                  *)
(***************************************************************************)
TotalHeapSize(h) == Len(h.blocks) - h.numDecommitted + h.largeAllocs
FreeHeapSize(h) == TotalHeapSize(h) - h.numAlloc
HardLimitExceeded(h, n) == TotalHeapSize(h) + n > HeapLimit

(***************************************************************************)
(* Expansion                                                               *)
(***************************************************************************)

(* Room for a sentinel and a region page; a mutation is one short.         *)
NoExtraBlocks(h) == IF h.nextRegion = 0 THEN 1 ELSE 0
ExtraBlocks(h) == IF h.nextRegion = 0 THEN 2 ELSE 1

(* The size to commit, which must have room for a longer block table, and  *)
(* whether the table, of tableSize pages, moves to the new memory.         *)
SizeWithTable(h, askSize, tableSize) ==
  LET Needs(s) == TablePages(Len(h.blocks) + s + ExtraBlocks(h))
      grow[i \in 0..Pages] ==
        IF i = 0 THEN [size |-> RoundUp(askSize, MinHeapIncrement), table |-> tableSize]
        ELSE LET g == grow[i - 1]
             IN IF Needs(g.size) <= g.table THEN g
                ELSE [size |-> RoundUp(askSize + Needs(g.size) + ExtraBlocks(h),
                                       MinHeapIncrement),
                      table |-> Needs(g.size)]
      Size(g) == [size |-> g.size, moves |-> g.table # tableSize]
  IN  Size(grow[CHOOSE i \in 0..Pages : Needs(grow[i].size) <= grow[i].table])
ExpansionSize(h, askSize) ==
  IF h.blocks = <<>> THEN [size |-> RoundUp(askSize, MinHeapIncrement), moves |-> TRUE]
  ELSE SizeWithTable(h, askSize, SizeOf(h, h.table))

(* What the new block b serves for before it is free: the block table, if  *)
(* it moves, and a region page, if the last one is used up.                *)
TakeTable(h, b, base, n) ==
  [Split(h, b, n) EXCEPT !.numAlloc = @ + n, !.table = base,
                         !.soiled = @ \cup PagesFrom(base, n)]
TakeRegionPage(h, b) ==
  [Split(h, b, 1) EXCEPT !.numAlloc = @ + 1, !.numRegionBlocks = @ + 1,
                         !.nextRegion = RegionsPerPage,
                         !.soiled = @ \cup {h.blocks[b].base}]

(* The old block table is freed once it has been copied. *)
FreeTable(h, table) ==
  LET b == BaseAddrToBlock(h, table)
  IN  FreeBlock([h EXCEPT !.numAlloc = @ - h.blocks[b].size], b)

(* The part of ExpandHeapInternal after gotMemory: size pages at base, of  *)
(* which avail belong to the region before; [addr, n] is a new region.     *)
GotMemory(h, size, moves, base, contiguous, avail, addr, n) ==
  LET old == IF contiguous THEN SubSeq(h.blocks, 1, Len(h.blocks) - 1) ELSE h.blocks
      b == Len(old) + 1
      len == Len(old) + size + 1
      prev == IF contiguous THEN b - Max(Headers(h)) ELSE 0
      block == [base |-> base, size |-> size, prev |-> prev, used |-> TRUE,
                committed |-> TRUE, dirty |-> NewPagesDirty]
      extended == [CommitPages(h, PagesFrom(base, size)) EXCEPT
                     !.blocks = old \o <<block>> \o [i \in 1..size - 1 |-> Cleared]
                                    \o <<Sentinel(size)>>]
      paged == h.nextRegion = 0
      table == IF moves THEN TablePages(len) ELSE 0
      Tabled(g) == IF moves THEN TakeTable(g, b, base, table) ELSE g
      Paged(g) == IF paged THEN TakeRegionPage(g, b + table) ELSE g
      Listed(g) == AddToFreeList(g, b + table + (IF paged THEN 1 ELSE 0), FALSE)
      Moved(g) == IF moves /\ h.table # 0 THEN FreeTable(g, h.table) ELSE g
      InRegion(g) == IF addr = 0 THEN g
                     ELSE NewRegion(g, addr, addr + n, addr + size - avail, len - (size - avail))
  IN  InRegion(Moved(Listed(Paged(Tabled(extended)))))

(* Reservation of a region of its own, and its commit. *)
ExpandElsewhere(h, size, moves) ==
  LET small == IF size < DefaultReserve THEN Finds(h, DefaultReserve) ELSE {0}
      places == (small \ {0}) \X {DefaultReserve}
                \cup (IF 0 \in small THEN Finds(h, size) \X {size} ELSE {})
      Use(a, n) == GotMemory(Reserve(h, a, n), size, moves, a, FALSE, 0, a, n)
  IN  {IF p[1] # 0 /\ ok THEN Use(p[1], p[2]) ELSE h : p \in places, ok \in Commits}

(* The region at the head of the list is committed up to top; a mutation   *)
(* leaves commitTop where it was.                                          *)
KeepCommitTop(h, top) == h
CommitUpTo(h, top) == [h EXCEPT !.regions[1].commitTop = top]

(* Expansion by the size and table of e: every outcome.  A failing step    *)
(* gives back what it reserved; the first Release is called with pages for *)
(* bytes, and munmap rounds up.                                            *)
ExpandBy(h, e) ==
  LET r == Head(h.regions)
      avail == r.reserveTop - r.commitTop
      last == Max(Headers(h))
      contiguous == h.blocks[last].base + h.blocks[last].size = r.commitTop
      FromRegion == CommitUpTo(h, r.commitTop + e.size)
      Bridge(n) ==
        LET g == CommitUpTo(Reserve(h, r.reserveTop, n), r.reserveTop)
        IN  {GotMemory(g, e.size, e.moves, r.commitTop, contiguous, avail, r.reserveTop, n)}
            \cup {Release(Reserve(h, r.reserveTop, n), r.reserveTop, k) :
                    k \in IF "commit" \notin Faults THEN {}
                          ELSE {e.size - avail} \cup (IF avail # 0 THEN {1} ELSE {})}
      byDefault == IF DefaultReserve > e.size THEN Grants(h, r.reserveTop, DefaultReserve)
                   ELSE {FALSE}
      exactly == IF FALSE \in byDefault THEN Grants(h, r.reserveTop, e.size - avail) ELSE {}
      sizes == (IF TRUE \in byDefault THEN {DefaultReserve} ELSE {})
               \cup (IF TRUE \in exactly THEN {e.size - avail} ELSE {})
  IN  IF HardLimitExceeded(h, e.size) THEN {h}
      ELSE IF h.regions # <<>> /\ e.size <= avail
      THEN {IF ok THEN GotMemory(FromRegion, e.size, e.moves, r.commitTop, contiguous, 0, 0, 0)
            ELSE h : ok \in Commits}
      ELSE (IF h.regions = <<>> THEN {} ELSE UNION {Bridge(n) : n \in sizes})
           \cup (IF h.regions = <<>> \/ FALSE \in exactly
                 THEN ExpandElsewhere(h, e.size, e.moves) ELSE {})

(* ExpandHeap. *)
ExpandHeap(h, askSize) == ExpandBy(h, ExpansionSize(h, askSize))

(***************************************************************************)
(* Allocation                                                              *)
(***************************************************************************)

(* Commit. *)
Commit(h, b) ==
  [CommitPages(h, PagesOf(h, b)) EXCEPT
     !.numDecommitted = @ - h.blocks[b].size,
     !.blocks[b].committed = TRUE, !.blocks[b].dirty = NewPagesDirty]

(* PruneDecommittedBlock. *)
Prune(h, b, available, request) ==
  IF available > Max({request, MinHeapIncrement}) /\ available > request
  THEN LET n == h.blocks[b].size - (available - request)
       IN AddToFreeList(Split(h, b, n), b + n, FALSE)
  ELSE h

(* The free blocks between b and c, or around b, without a gap. *)
FreeRun(h, b) ==
  {c \in Headers(h) :
     \A x \in Min({b, c})..Max({b, c}) : h.blocks[x] # Cleared => ~h.blocks[x].used}

(* The first and last block of the sequence AllocBlock finds around the    *)
(* decommitted block b; <<0, 0>> if it is not large enough.                *)
Sequence(h, b, size, alignment) ==
  LET Enough(c, last) == End(h, last) - c >= size + Slop(h.blocks[c].base, alignment)
      From(first, lasts) == IF lasts = {} THEN <<0, 0>> ELSE <<first, Min(lasts)>>
      Ends(run, first) == From(first, {c \in run : c >= first /\ Enough(first, c)})
      Within(run) == Ends(run, Max({Min(run)} \cup {c \in run : c <= b /\ Enough(c, b)}))
  IN  Within(FreeRun(h, b))

(* The blocks of a sequence that are committed one by one.  Mutations      *)
(* forget the first block, or commit them all.                             *)
ToCommitAfterFirst(h, run) == {c \in run : ~h.blocks[c].committed} \ {Min(run)}
ToCommitAll(h, run) == run
ToCommit(h, run) == {c \in run : ~h.blocks[c].committed}

(* CreateCommittedBlock for the blocks from b to last. *)
CreateCommittedBlock(h, b, last, size, alignment) ==
  LET want == size + Slop(h.blocks[b].base, alignment)
      run == {c \in Headers(h) : b <= c /\ c <= last}
      taken == FoldSet(LAMBDA c, g : RemoveFromList(g, c), h, run)
      pruned == IF h.blocks[last].committed THEN taken
                ELSE Prune(taken, last, End(taken, last) - b, want)
      dirty == \E c \in run : h.blocks[c].dirty
      single == FoldSet(LAMBDA c, g : Commit(g, c), pruned, ToCommit(h, run))
      joined(g) == LinkNext(FoldSet(LAMBDA c, f : Absorb(f, b, c), g, run \ {b}), b)
  IN  IF b = last THEN Commit(pruned, b)
      ELSE [IF h.sloppy THEN Commit(joined(pruned), b) ELSE joined(single)
            EXCEPT !.blocks[b].dirty = dirty]

(* The pages of block b after the first n become free again. *)
FreeRest(h, b, n) ==
  IF h.blocks[b].size > n THEN AddToFreeList(Split(h, b, n), b + n, FALSE) ELSE h

(* AllocCommittedBlock: the block is unlinked.  Yields its index. *)
AllocCommittedBlock(h, b, size, alignment) ==
  LET slop == Slop(h.blocks[b].base, alignment)
      aligned == IF slop > 0 THEN AddToFreeList(Split(h, b, slop), b, FALSE) ELSE h
  IN  [heap |-> FreeRest(aligned, b + slop, size), block |-> b + slop]

(* AllocBlock: the first committed block that is large enough, or else the *)
(* first sequence with a decommitted one. *)
AllocBlock(h, size, alignment) ==
  LET listed == FlattenSeq([l \in 1..NumFreeLists |-> IF l < FreeListIndex(size) THEN <<>>
                                              ELSE h.freelists[l]])
      fits == SelectInSeq(listed, LAMBDA b :
                /\ h.blocks[b].committed
                /\ h.blocks[b].size >= size + Slop(h.blocks[b].base, alignment))
      suits == SelectInSeq(listed, LAMBDA b :
                /\ ~h.blocks[b].committed
                /\ Sequence(h, b, size, alignment) # <<0, 0>>)
      FromSequence(s) ==
        AllocCommittedBlock(CreateCommittedBlock(h, s[1], s[2], size, alignment),
                            s[1], size, alignment)
  IN  IF fits # 0
      THEN AllocCommittedBlock(RemoveFromList(h, listed[fits]), listed[fits], size, alignment)
      ELSE IF suits # 0 THEN FromSequence(Sequence(h, listed[suits], size, alignment))
      ELSE [heap |-> h, block |-> 0]

(* EnsureFreeRegion(true). *)
EnsureFreeRegion(h) ==
  LET WithPage(a) ==
        IF a.block # 0
        THEN {[a.heap EXCEPT !.nextRegion = RegionsPerPage,
                             !.soiled = @ \cup {a.heap.blocks[a.block].base}]}
        ELSE ExpandHeap(h, 1)
  IN  IF HaveFreeRegion(h) THEN {h} ELSE WithPage(AllocBlock(h, 1, 1))

(* LargeAlloc; a failing commit releases size pages only. *)
LargeAlloc(h, size, alignment) ==
  LET Use(g, a, n) ==
        LET aligned == a + Slop(a, alignment)
            r == Reserve(g, a, n)
        IN  {IF ok
             THEN [heap |-> [NewRegion(CommitPages(r, PagesFrom(aligned, size)), a, a + n,
                                       aligned + size, LargeItem)
                             EXCEPT !.largeAllocs = @ + size], addr |-> aligned]
             ELSE [heap |-> Release(r, a, size), addr |-> 0] : ok \in Commits}
      At(g, a) ==
        IF a = 0 THEN {[heap |-> g, addr |-> 0]}
        ELSE IF Slop(a, alignment) = 0 THEN Use(g, a, size)
        ELSE UNION {IF c = 0 THEN {[heap |-> g, addr |-> 0]} ELSE Use(g, c, size + alignment - 1) :
                      c \in Finds(g, size + alignment - 1)}
  IN  UNION {IF HaveFreeRegion(g) THEN UNION {At(g, a) : a \in Finds(g, size)}
             ELSE {[heap |-> g, addr |-> 0]} : g \in EnsureFreeRegion(h)}

(* AllocHelper, with expansion allowed. *)
AllocHelper(h, size, alignment) ==
  LET Result(a) == [heap |-> a.heap, addr |-> IF a.block = 0 THEN 0
                                              ELSE a.heap.blocks[a.block].base]
      Expanded ==
        IF HardLimitExceeded(h, size) THEN {[heap |-> h, addr |-> 0]}
        ELSE IF size >= OSAllocThreshold THEN LargeAlloc(h, size, alignment)
        ELSE {Result(AllocBlock(g, size, alignment)) : g \in ExpandHeap(h, size)}
      Found(a) == IF a.addr # 0 THEN {a} ELSE Expanded
  IN  Found(Result(AllocBlock(h, size, alignment)))

(***************************************************************************)
(* Giving memory back                                                      *)
(***************************************************************************)

(* What refers to entries after b refers to them shift lower: the free     *)
(* lists and the regions.  Mutations renumber only one of the two.         *)
RenumberLists(h, b, shift) ==
  [h EXCEPT !.freelists = [l \in DOMAIN @ |-> [k \in DOMAIN @[l] |->
                             IF @[l][k] > b THEN @[l][k] - shift ELSE @[l][k]]]]
RenumberRegions(h, b, shift) ==
  [h EXCEPT !.regions = [k \in DOMAIN @ |->
                           IF @[k].blockId > b THEN [@[k] EXCEPT !.blockId = @ - shift]
                           ELSE @[k]]]
Renumber(h, b, shift) == RenumberRegions(RenumberLists(h, b, shift), b, shift)

(* RemoveBlock: the entries of block b, which fills its region, leave the  *)
(* table.  Between two blocks a sentinel remains, and of two sentinels one.*)
RemoveBlock(h, b) ==
  LET e == h.blocks[b]
      n == End(h, b)
      i == AddrToRegion(h, e.base)
      r == h.regions[i]
      need == e.prev # 0 /\ h.blocks[n].size # 0
      surplus == e.prev = 0 /\ h.blocks[n].size = 0
      rest == <<[h.blocks[n] EXCEPT !.prev = IF need THEN 0 ELSE e.prev]>>
                \o SubSeq(h.blocks, n + 1, Len(h.blocks))
      entries == SubSeq(h.blocks, 1, b - 1)
                   \o (IF need THEN <<Sentinel(e.prev)>> ELSE <<>>)
                   \o (IF surplus THEN Tail(rest) ELSE rest)
      g == Renumber([h EXCEPT !.blocks = entries], b, Len(h.blocks) - Len(entries))
  IN  RemoveRegion(Release(g, r.base, r.reserveTop - r.base), i)

NeverDecommittedFree(h, b) == FALSE   \* a mutation: neighbours are not merged
DecommittedFree(h, b) == h.blocks[b].size # 0 /\ ~h.blocks[b].used /\ ~h.blocks[b].committed

(* The place of a decommitted block in the last list: after the smaller    *)
(* and the committed ones.                                                 *)
ToLastList(h, b) ==
  LET larger == SelectInSeq(h.freelists[NumFreeLists], LAMBDA x :
                  /\ h.blocks[x].size >= h.blocks[b].size /\ ~h.blocks[x].committed)
  IN  InsertInList(h, b, NumFreeLists,
                   IF larger = 0 THEN Len(h.freelists[NumFreeLists]) + 1 ELSE larger)

(* The part of Decommit that decommits the unlinked block b.               *)
DecommitPages(h, b) ==
  LET gone == [h EXCEPT !.blocks[b].committed = FALSE, !.blocks[b].dirty = FALSE,
                        !.numDecommitted = @ + h.blocks[b].size,
                        !.soiled = @ \ PagesOf(h, b), !.backed = @ \ PagesOf(h, b)]
      joins == {c \in Neighbours(h, b) : DecommittedFree(h, c)}
      front == MergedInto(h, b, joins)
      merged == MergeNext(MergePrev(gone, b, joins), front, joins)
  IN  ToLastList(LinkNext(merged, front), front)

(* The block Decommit takes next: from the end of the last list.           *)
DecommitCandidate(h) ==
  LET listed == Reverse(FlattenSeq(h.freelists))
      i == SelectInSeq(listed, LAMBDA b : h.blocks[b].committed)
  IN  IF i = 0 THEN 0 ELSE listed[i]

(* Block b, shortened to what is left, is released with its region or      *)
(* decommitted.  Yields the heap and what is left to decommit.             *)
GiveBack(h, b, p) ==
  LET e == h.blocks[b]
      r == h.regions[AddrToRegion(h, e.base)]
      whole == /\ TrimVirtualMemory /\ p.freeSize * 100 > p.heapSize * 50
               /\ e.base = r.base /\ r.reserveTop <= e.base + e.size
      n == r.reserveTop - e.base
  IN  IF whole THEN [heap |-> RemoveBlock(FreeRest(h, b, n), b), left |-> p.left - n]
      ELSE [heap |-> DecommitPages(h, b), left |-> p.left - e.size]

(* The body of the loop, for the locals p of Decommit. *)
DecommitBody(h, b, p) == GiveBack(FreeRest(RemoveFromList(h, b), b, p.left), b, p)

(* How much Decommit tries to give back; 0 if it returns early.  The       *)
(* differences are unsigned.                                               *)
DecommitSize(h) ==
  LET heapSize == TotalHeapSize(h)
      freeSize == FreeHeapSize(h)
      Over(limit) == heapSize > limit /\ heapSize - freeSize < limit
      excess == IF freeSize * 100 > heapSize * 25
                THEN (freeSize * 100 - heapSize * 25) \div 100
                ELSE IF Over(HeapLimit) THEN heapSize - HeapLimit + 1
                ELSE IF HeapSoftLimit # 0 /\ Over(HeapSoftLimit)
                     THEN heapSize - HeapSoftLimit + 1 ELSE 0
      size == IF excess < MinHeapIncrement /\ freeSize > MinHeapIncrement
              THEN MinHeapIncrement ELSE excess
  IN  IF excess = 0 /\ ~(freeSize * 100 > heapSize * 25) THEN 0
      ELSE IF (heapSize - size) % Word < InitialSize THEN (heapSize - InitialSize) % Word
      ELSE size

(***************************************************************************)
(* The heap and its clients                                                *)
(***************************************************************************)
EmptyHeap(sloppyCommit) ==
  [sloppy |-> sloppyCommit, blocks |-> <<>>, table |-> 0,
   freelists |-> [l \in 1..NumFreeLists |-> <<>>],
   regions |-> <<>>, freeRegion |-> 0, nextRegion |-> 0, numRegionBlocks |-> 0,
   numDecommitted |-> 0, numAlloc |-> 0, largeAllocs |-> 0,
   reserved |-> {},   \* pages the system has reserved for the heap
   backed |-> {},     \* those it has committed
   soiled |-> {}]     \* those of them that may hold something else than zeros

Init ==
  /\ \E sloppy \in SloppyCommits :
       heap \in ExpandHeap(EmptyHeap(sloppy), InitialSize) \ {EmptyHeap(sloppy)}
  /\ items = <<>> /\ lock = None /\ plan = [t \in Threads |-> None]

(* Alloc; the client writes to what it gets.  A failed request may be made *)
(* again.                                                                  *)
Alloc(size, alignment) ==
  /\ lock = None /\ Cardinality(DOMAIN items) < MaxItems
  /\ heap.numDecommitted >= -MaxDrift
  /\ \E a \in AllocHelper(heap, size, alignment) :
       IF a.addr = 0 THEN heap' = a.heap /\ UNCHANGED items
       ELSE /\ heap' = [a.heap EXCEPT !.numAlloc = @ + size,
                                      !.soiled = @ \cup PagesFrom(a.addr, size)]
            /\ items' = [x \in DOMAIN items \cup {a.addr} |->
                           IF x = a.addr THEN size ELSE items[x]]
  /\ UNCHANGED <<lock, plan>>

(* LargeFree: the region begins before the item if that was aligned; a     *)
(* mutation releases from the item on.                                     *)
FromItem(h, addr) == addr
FromBase(h, addr) == h.regions[AddrToRegion(h, addr)].base

LargeFree(h, addr) ==
  LET i == AddrToRegion(h, addr)
      n == h.regions[i].reserveTop - FromBase(h, addr)
  IN  RemoveRegion([Release(h, FromBase(h, addr), n) EXCEPT
                      !.largeAllocs = @ - LargeAllocSize(h, addr)], i)

(* FreeInternal; a mutation takes the size from what the block merged into. *)
FreeInternalLate(h, addr) ==
  LET b == BaseAddrToBlock(h, addr)
      g == IF b # 0 THEN FreeBlock(h, b) ELSE LargeFree(h, addr)
  IN  [g EXCEPT !.numAlloc = @ - SizeOf(IF b # 0 THEN g ELSE h, addr)]
FreeInternal(h, addr) ==
  LET b == BaseAddrToBlock(h, addr)
      g == [h EXCEPT !.numAlloc = @ - SizeOf(h, addr)]
  IN  IF b # 0 THEN FreeBlock(g, b) ELSE LargeFree(g, addr)

Free(addr) ==
  /\ lock = None
  /\ heap' = FreeInternal(heap, addr)
  /\ items' = [x \in DOMAIN items \ {addr} |-> items[x]]
  /\ UNCHANGED <<lock, plan>>

(* Decommit reads the sizes before it takes the lock. *)
DecommitPlan(t) ==
  /\ plan[t] = None /\ DecommitSize(heap) # 0
  /\ plan' = [plan EXCEPT ![t] = [left |-> DecommitSize(heap),
                                  heapSize |-> TotalHeapSize(heap),
                                  freeSize |-> FreeHeapSize(heap)]]
  /\ UNCHANGED <<heap, items, lock>>

DecommitLock(t) ==
  /\ plan[t] # None /\ lock = None
  /\ lock' = t
  /\ UNCHANGED <<heap, items, plan>>

DecommitBlock(t) ==
  LET b == DecommitCandidate(heap)
  IN  /\ lock = t /\ plan[t].left > 0 /\ b # 0
      /\ \E d \in {DecommitBody(heap, b, plan[t])} :
           heap' = d.heap /\ plan' = [plan EXCEPT ![t].left = d.left]
      /\ UNCHANGED <<items, lock>>

DecommitDone(t) ==
  /\ lock = t /\ (plan[t].left = 0 \/ DecommitCandidate(heap) = 0)
  /\ lock' = None /\ plan' = [plan EXCEPT ![t] = None]
  /\ UNCHANGED <<heap, items>>

Next ==
  \/ \E r \in Requests : Alloc(r[1], r[2])
  \/ \E addr \in DOMAIN items : Free(addr)
  \/ \E t \in Threads : \/ DecommitPlan(t) \/ DecommitLock(t)
                        \/ DecommitBlock(t) \/ DecommitDone(t)

Spec == Init /\ [][Next]_vars

(***************************************************************************)
(* Properties                                                              *)
(***************************************************************************)
(* Types; among them that region entries are never taken from a page that  *)
(* is used up.                                                             *)
TypeOK ==
  /\ DOMAIN items \subseteq 1..Pages
  /\ lock \in Threads \cup {None}
  /\ heap.reserved \subseteq 1..Pages /\ heap.soiled \subseteq heap.reserved
  /\ heap.soiled \subseteq heap.backed
  /\ heap.freeRegion \in Nat /\ heap.nextRegion \in 0..RegionsPerPage

(* An item keeps its size and its memory until it is freed: the address    *)
(* leads to the block or the region it was given, and to no other.         *)
ItemsIntact ==
  /\ \A a \in DOMAIN items :
       LET b == BaseAddrToBlock(heap, a)
       IN  /\ SizeOf(heap, a) = items[a] /\ PagesFrom(a, items[a]) \subseteq heap.reserved
           /\ b # 0 => heap.blocks[b].base = a /\ heap.blocks[b].used
                       /\ heap.blocks[b].committed
  /\ \A a, c \in DOMAIN items : a < c => a + items[a] <= c

(* Pages that AllocCommittedBlock tells the client are zero, because the   *)
(* block is not dirty, have not been written to since they were committed. *)
CleanIsZero ==
  \A b \in Headers(heap) :
    ~heap.blocks[b].used /\ heap.blocks[b].committed /\ ~heap.blocks[b].dirty =>
      PagesOf(heap, b) \cap heap.soiled = {}

(* What ValidateHeapBlocks asserts: however blocks were split, merged and  *)
(* moved, the boundary tags chain them, a sentinel lies in each gap, and   *)
(* the region of a block leads back to its entry.                          *)
BoundaryTags ==
  \A b \in Headers(heap) :
    /\ heap.blocks[End(heap, b)].prev = heap.blocks[b].size
    /\ \A x \in b + 1 .. End(heap, b) - 1 : heap.blocks[x] = Cleared
    /\ BaseAddrToBlock(heap, heap.blocks[b].base) = b
    /\ LET c == End(heap, b) IN
       IF heap.blocks[c].size # 0
       THEN heap.blocks[c].base = heap.blocks[b].base + heap.blocks[b].size
       ELSE \/ c = Len(heap.blocks)
            \/ heap.blocks[c + 1].size # 0 /\ heap.blocks[c + 1].prev = 0

(* "make sure last block ends at commitTop" (GCHeap.cpp:1200), of which    *)
(* the FIXME above it says that it does not always hold: the block before  *)
(* a sentinel, the ones RemoveBlock adds included, ends where the commits  *)
(* of its region do.                                                       *)
EndsAtCommitTop ==
  \A b \in Headers(heap) :
    LET top == heap.blocks[b].base + heap.blocks[b].size IN
    heap.blocks[End(heap, b)].size = 0 =>
      heap.regions[AddrToRegion(heap, top - 1)].commitTop = top

(* The pages the block table lies in have room for all its entries, those  *)
(* that ExpandHeapInternal adds for sentinels and region pages included.   *)
TableFits == Len(heap.blocks) <= SizeOf(heap, heap.table) * HeapBlocksPerPage

(* The block table is well-formed after any sequence of splits, merges,    *)
(* expansions and removed regions.                                         *)
TableWellFormed == TypeOK /\ BoundaryTags /\ EndsAtCommitTop /\ TableFits

(* The free lists hold each free block once, in the list AllocBlock looks  *)
(* for its size in, and nothing else, also after entries have slid down.   *)
FreeListsExact ==
  LET listed == FlattenSeq(heap.freelists) IN
  /\ IsInjective(listed)
  /\ ToSet(listed) = {b \in Headers(heap) : ~heap.blocks[b].used}
  /\ \A l \in 1..NumFreeLists : \A b \in ToSet(heap.freelists[l]) :
       heap.blocks[b].committed => l = FreeListIndex(heap.blocks[b].size)

(* What CheckFreelist asserts: merging is eager, so that no two free       *)
(* neighbours are in the same committed state.                             *)
Coalesced ==
  \A b \in Headers(heap) :
    LET n == heap.blocks[End(heap, b)] IN
    ~heap.blocks[b].used /\ ~n.used => n.committed # heap.blocks[b].committed

(* What AllocBlock searches is what is free.                               *)
FreeListsSound == FreeListsExact /\ Coalesced

(* Exactly the pages of committed blocks and of large items are committed  *)
(* by the system: none is used without, none is kept for nothing.          *)
PagesBacked ==
  heap.backed = UNION {PagesOf(heap, b) : b \in {c \in Headers(heap) : heap.blocks[c].committed}}
                \cup UNION {PagesFrom(a, items[a]) : a \in {c \in DOMAIN items :
                                                          BaseAddrToBlock(heap, c) = 0}}

(* Address space that was reserved belongs to a region, and a region's is  *)
(* reserved: nothing is released twice, and a failure leaves nothing       *)
(* behind, as the comments in ExpandHeapInternal say.                      *)
ReservationsOwned ==
  heap.reserved = UNION {r.base .. r.reserveTop - 1 : r \in ToSet(heap.regions)}

(* What the heap believes of its pages is what the system has done to them.*)
PagesKnown == PagesBacked /\ ReservationsOwned

(* numDecommitted, which GetTotalHeapSize subtracts, is the size of the    *)
(* blocks that are not committed.                                          *)
DecommittedCounted ==
  heap.numDecommitted =
    MapThenSumSet(LAMBDA b : IF heap.blocks[b].committed THEN 0 ELSE heap.blocks[b].size,
                  Headers(heap))

(* What DestroyInstance asserts of numAlloc when no client holds anything  *)
(* more, stated for any items: the rest is the block table and the region  *)
(* pages.                                                                  *)
NothingLeaks ==
  heap.numAlloc = SizeOf(heap, heap.table) + heap.numRegionBlocks
                  + MapThenSumSet(LAMBDA a : items[a], DOMAIN items)

(* The counters that limits, Decommit and the leak check rest on.  The one *)
(* of decommitted pages is exact only without sloppyCommit.                *)
CountersExact == NothingLeaks /\ (heap.sloppy \/ DecommittedCounted)

(* GetUsedHeapSize is what is in use: "this space counts as used space"    *)
(* (GCHeap.cpp:2161).  EnsureFreeRegion does not count the page it takes.  *)
UsedCounted ==
  heap.numAlloc = heap.largeAllocs +
    MapThenSumSet(LAMBDA b : IF heap.blocks[b].used THEN heap.blocks[b].size ELSE 0,
                  Headers(heap))

(* "Don't decommit more than our initial config size" (GCHeap.cpp:762):    *)
(* Decommit does not take the heap below it.                               *)
KeepsInitialSize ==
  [][\A t \in Threads : DecommitBlock(t) =>
       TotalHeapSize(heap') >= Min({InitialSize, TotalHeapSize(heap)})]_vars
=============================================================================
