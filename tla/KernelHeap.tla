----------------------------- MODULE KernelHeap -----------------------------
(***************************************************************************)
(* The kernel heap (mm/kmalloc/kmalloc.cpp) on the two page allocators: an  *)
(* address-ordered free list, first fit with splitting, coalescing on free,  *)
(* and a heap that grows by whole pages, each with a frame of its own and,   *)
(* when the page starts a new page table, a frame for the table.  Addresses  *)
(* and sizes count in ALIGN units of 8 bytes.                               *)
(*                                                                         *)
(* Alloc gives the interrupt flag back to its caller after growing the heap, *)
(* so the second search and the update of the links it found run with other  *)
(* callers in between.  An update through links that are stale by then sets  *)
(* damaged, and nothing is modelled after it.                               *)
(***************************************************************************)
EXTENDS PageRuns

CONSTANTS HeapCallers,
          PageUnits,    \* units per page
          Header,       \* HEADER_SIZE, 3 units
          Canary,       \* the canary behind the user's area, 1 unit
          GrowChunk,    \* pages a growing heap asks for at least
          InitPages,    \* pages Init maps
          OtherPages,   \* pages at the start of the pool another user holds
          HeapBase,     \* first page of the virtual pool
          HeapPages,    \* pages of the virtual pool
          HeapFrames,   \* frames of the machine
          TableSpan,    \* pages one page table maps
          HeapSizes     \* sizes callers ask for

ASSUME HeapAssumption ==
    /\ {PageUnits, Header, Canary, GrowChunk, InitPages, OtherPages, HeapBase, TableSpan}
         \subseteq Nat \ {0}
    /\ {HeapPages, HeapFrames} \subseteq Nat
    /\ OtherPages + InitPages < HeapPages
    /\ HeapSizes \subseteq Nat \ {0}

VARIABLES freeList,          \* sequence of blocks, [start, count] in units
          live,              \* blocks callers hold
          heapLow, heapHigh, \* heap_low and heap_high
          mappedPages,       \* heap pages with a frame
          tables,            \* page tables that exist
          framesUsed,        \* number of frames in use
          vmaFree,           \* free virtual ranges; its nodes do not run out
          otherHolds,        \* the other user still holds its range
          wanted,            \* the block size a caller searches again for, or 0
          found,             \* the block that search stopped at and the one before
          damaged

heapVars == <<freeList, live, heapLow, heapHigh, mappedPages, tables,
              framesUsed, vmaFree, otherHolds, wanted, found, damaged>>

Block(s, z) == PageRange(s, z)
Nothing == << >>
Total(n) == n + Canary + Header
Table(p) == p \div TableSpan
NewTables(P) == {Table(p) : p \in P} \ tables

\* Kmalloc::Init, at boot, when there are frames for everything it maps.
HeapInit ==
    LET v == HeapBase + OtherPages
        P == Run(v, InitPages)
    IN
    /\ freeList = << Block(v * PageUnits, InitPages * PageUnits) >>
    /\ live = {}
    /\ heapLow = v * PageUnits
    /\ heapHigh = (v + InitPages) * PageUnits
    /\ mappedPages = P
    /\ tables = {Table(p) : p \in P}
    /\ framesUsed = InitPages + Cardinality(tables) /\ framesUsed <= HeapFrames
    /\ vmaFree = << PageRange(v + InitPages, HeapPages - OtherPages - InitPages) >>
    /\ otherHolds = TRUE
    /\ wanted = [t \in HeapCallers |-> 0]
    /\ found = [t \in HeapCallers |-> Nothing]
    /\ damaged = FALSE

-----------------------------------------------------------------------------
Fit(total) == {i \in 1..Len(freeList) : freeList[i].count >= total}

\* The free list and the block handed out when free block i serves a request:
\* it is split when the rest can hold a header and one unit.
Carved(i, total) ==
    LET b == freeList[i]
        given == IF b.count >= total + Header + 1 THEN total ELSE b.count
    IN [list |-> TakeFrom(freeList, i, given), block |-> Block(b.start, given)]

HandOut(i, total) ==
    LET c == Carved(i, total) IN
    /\ freeList' = c.list
    /\ live' = live \cup {c.block}

\* Mutant: the block in front is not looked at.
CoalescedRight(l, b) ==
    LET p == Before(l, b.start)
    IN Merged(l, p, b.start, b.count, FALSE, TouchesRight(l, p, b.start, b.count))

\* insert_and_coalesce: into address order, then one with the block behind and
\* with the block in front when they touch.
Coalesced(l, b) ==
    LET p == Before(l, b.start)
    IN Merged(l, p, b.start, b.count, TouchesLeft(l, p, b.start),
              TouchesRight(l, p, b.start, b.count))

-----------------------------------------------------------------------------
\* A free block serves the request.
AllocFits(t, n) ==
    /\ wanted[t] = 0
    /\ Fit(Total(n)) # {}
    /\ HandOut(Min(Fit(Total(n))), Total(n))
    /\ UNCHANGED <<heapLow, heapHigh, mappedPages, tables, framesUsed, vmaFree, otherHolds,
                   wanted, found, damaged>>

GrowPages(total) == Max({(total + PageUnits - 1) \div PageUnits, GrowChunk})

\* The frames the first m pages from page v on take, and how many of the c
\* pages of a new range get one before the frames run out.
FramesFor(v, m) == m + Cardinality(NewTables(Run(v, m)))
Mappable(v, c) == Max({m \in 0..c : framesUsed + FramesFor(v, m) <= HeapFrames})

\* The first m pages of a new range become a free block.
GrowBy(v, c, m) ==
    /\ freeList' = Coalesced(freeList, Block(v * PageUnits, m * PageUnits))
    /\ mappedPages' = mappedPages \cup Run(v, m)
    /\ tables' = tables \cup NewTables(Run(v, m))
    /\ heapLow' = Min({heapLow, v * PageUnits})
    /\ heapHigh' = Max({heapHigh, (v + m) * PageUnits})

\* No block fits: the heap grows by the pages that can be mapped.  The rest of
\* the virtual range stays taken, and so does the frame whose page table could
\* not be allocated.  Without a virtual range or a first page Alloc fails.
AllocGrows(t, n) ==
    LET c == GrowPages(Total(n)) IN
    /\ wanted[t] = 0
    /\ Fit(Total(n)) = {} /\ Fitting(vmaFree, c) # {}
    /\ LET i == Min(Fitting(vmaFree, c))
           v == vmaFree[i].start
           m == Mappable(v, c)
       IN /\ vmaFree' = TakeFrom(vmaFree, i, c)
          /\ framesUsed' = IF m = c THEN framesUsed + FramesFor(v, m) ELSE HeapFrames
          /\ IF m = 0
             THEN UNCHANGED <<freeList, mappedPages, tables, heapLow, heapHigh, wanted>>
             ELSE GrowBy(v, c, m) /\ wanted' = [wanted EXCEPT ![t] = Total(n)]
    /\ UNCHANGED <<live, otherHolds, found, damaged>>

\* Free block i with the one before it: the two links the second search keeps.
Links(i) == <<IF i = 1 THEN Nothing ELSE freeList[i - 1], freeList[i]>>

\* The search after the heap has grown; another caller may have taken the room,
\* or too few pages were mapped, and Alloc fails.
AllocAgain(t) ==
    /\ wanted[t] # 0 /\ found[t] = Nothing
    /\ IF Fit(wanted[t]) # {}
       THEN found' = [found EXCEPT ![t] = Links(Min(Fit(wanted[t])))] /\ UNCHANGED wanted
       ELSE wanted' = [wanted EXCEPT ![t] = 0] /\ UNCHANGED found
    /\ UNCHANGED <<freeList, live, heapLow, heapHigh, mappedPages, tables, framesUsed,
                   vmaFree, otherHolds, damaged>>

\* The block found is split or taken through the links found with it.
AllocTakes(t) ==
    LET same == {i \in 1..Len(freeList) : Links(i) = found[t]} IN
    /\ found[t] # Nothing
    /\ found' = [found EXCEPT ![t] = Nothing]
    /\ wanted' = [wanted EXCEPT ![t] = 0]
    /\ IF same # {}
       THEN HandOut(Min(same), wanted[t]) /\ UNCHANGED damaged
       ELSE damaged' = TRUE /\ UNCHANGED <<freeList, live>>
    /\ UNCHANGED <<heapLow, heapHigh, mappedPages, tables, framesUsed, vmaFree, otherHolds>>

\* Free of a block its holder was given: magic and canary are in order.
Free(b) ==
    /\ live' = live \ {b}
    /\ freeList' = Coalesced(freeList, b)
    /\ UNCHANGED <<heapLow, heapHigh, mappedPages, tables, framesUsed, vmaFree, otherHolds,
                   wanted, found, damaged>>

\* The other user of the pool returns its range, which lies below the heap.
OtherReturns ==
    /\ otherHolds /\ otherHolds' = FALSE
    /\ vmaFree' = Returned(vmaFree, 1, HeapBase, OtherPages).list
    /\ UNCHANGED <<freeList, live, heapLow, heapHigh, mappedPages, tables, framesUsed,
                   wanted, found, damaged>>

HeapNext ==
    /\ ~damaged
    /\ \/ \E t \in HeapCallers, n \in HeapSizes : AllocFits(t, n) \/ AllocGrows(t, n)
       \/ \E t \in HeapCallers : AllocAgain(t) \/ AllocTakes(t)
       \/ \E b \in live : Free(b)
       \/ OtherReturns

HeapSpec == HeapInit /\ [][HeapNext]_heapVars

-----------------------------------------------------------------------------
FreeBlocks == {freeList[i] : i \in 1..Len(freeList)}
Units(b) == b.start..(b.start + b.count - 1)

\* Every unit of a mapped page is in exactly one block, free or held, and no
\* block reaches an unmapped page: splitting, coalescing and growing, also by
\* part of a range, never lose, share or invent memory.
HeapTiled ==
    \A p \in HeapBase..(HeapBase + HeapPages - 1) :
      \A u \in (p * PageUnits)..((p + 1) * PageUnits - 1) :
        Cardinality({i \in 1..Len(freeList) : u \in Units(freeList[i])})
        + Cardinality({b \in live : u \in Units(b)})
        = IF p \in mappedPages THEN 1 ELSE 0

\* The free list stays in address order with no two blocks touching, so that a
\* request fails only when no run of free units is long enough.
FreeListCoalesced ==
    \A i \in 1..(Len(freeList) - 1) :
        freeList[i].start + freeList[i].count < freeList[i + 1].start

\* Alloc and Free treat a block outside heap_low..heap_high as corruption: the
\* bounds cover every block however the ranges of a growing heap come in.
BoundsCoverHeap ==
    \A b \in FreeBlocks \cup live : heapLow <= b.start /\ b.start + b.count <= heapHigh

\* Blocks tile the mapped pages, free ones are merged, and the bounds that Alloc and
\* Free trust cover them all.
HeapIsSound == HeapTiled /\ FreeListCoalesced /\ BoundsCoverHeap
=============================================================================
