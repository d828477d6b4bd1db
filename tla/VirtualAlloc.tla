---------------------------- MODULE VirtualAlloc ----------------------------
(***************************************************************************)
(* The allocator of kernel virtual addresses (mm/virtualalloc.cpp): a list  *)
(* of free ranges in ascending order whose nodes come from a fixed pool.    *)
(* Its callers return whole ranges.  handed and lost are kept for the       *)
(* properties: the ranges callers hold and the pages of ranges dropped for   *)
(* want of a node.                                                          *)
(***************************************************************************)
EXTENDS PageRuns

CONSTANTS PoolBase,    \* first page of the pool
          PoolPages,   \* total_virtual_pages
          NodePools,   \* the sizes of the node pool to consider
          RangeSizes   \* page counts callers ask for

ASSUME PoolAssumption == /\ PoolBase \in Nat \ {0} /\ PoolPages \in Nat \ {0}
                         /\ NodePools \subseteq Nat \ {0}
                         /\ RangeSizes \subseteq Nat \ {0}

VARIABLES nodePool,  \* MAX_VMA_NODES
          freeVma, freeNodes, handed, lost

virtVars == <<nodePool, freeVma, freeNodes, handed, lost>>

Pool == Run(PoolBase, PoolPages)

\* PageAlloc::Virtual
Virtual ==
    /\ nodePool \in NodePools
    /\ freeNodes = nodePool - 1
    /\ freeVma = << PageRange(PoolBase, PoolPages) >>
    /\ handed = {} /\ lost = {}

VirtualAllocPages(c) ==
    /\ Fitting(freeVma, c) # {}
    /\ LET i == Min(Fitting(freeVma, c)) IN
         /\ freeVma' = TakeFrom(freeVma, i, c)
         /\ freeNodes' = IF freeVma[i].count = c THEN freeNodes + 1 ELSE freeNodes
         /\ handed' = handed \cup {PageRange(freeVma[i].start, c)}
    /\ UNCHANGED <<nodePool, lost>>

VirtualFreePages(r) ==
    LET ret == Returned(freeVma, freeNodes, r.start, r.count) IN
    /\ freeVma' = ret.list
    /\ freeNodes' = ret.nodes
    /\ handed' = handed \ {r}
    /\ lost' = IF ret.kept THEN lost ELSE lost \cup Pages(r)
    /\ UNCHANGED nodePool

VirtNext == \/ \E c \in RangeSizes : VirtualAllocPages(c)
            \/ \E r \in handed : VirtualFreePages(r)

VirtSpec == Virtual /\ [][VirtNext]_virtVars

-----------------------------------------------------------------------------
\* A page of the pool is free once, held by one caller or lost, and nothing
\* outside the pool is ever listed or handed out: the first-fit split of
\* VirtualAllocPages and the merges of VirtualFreePages neither drop, repeat
\* nor invent a page.  The list stays ascending and fully merged, and every node
\* of the pool is in the list or free.
PoolTiled ==
    /\ \A p \in Pool :
         Cardinality({i \in 1..Len(freeVma) : p \in Pages(freeVma[i])})
         + Cardinality({r \in handed : p \in Pages(r)})
         + (IF p \in lost THEN 1 ELSE 0) = 1
    /\ \A i \in 1..Len(freeVma) : Pages(freeVma[i]) \subseteq Pool
    /\ \A r \in handed : Pages(r) \subseteq Pool
    /\ \A i \in 1..(Len(freeVma) - 1) :
         freeVma[i].start + freeVma[i].count < freeVma[i + 1].start
    /\ Len(freeVma) + freeNodes = nodePool

\* VirtualFreePages takes its node before it looks at the right neighbour, so
\* it needs one node more than the list can have ranges; a pool of more than
\* half as many nodes as pages never loses a range.
NothingLostWithEnoughNodes == nodePool > PoolPages \div 2 => lost = {}

\* The pool is tiled, and with enough nodes by free and held ranges alone.
RangesAreSound == PoolTiled /\ NothingLostWithEnoughNodes
=============================================================================
