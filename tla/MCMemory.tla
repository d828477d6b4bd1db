------------------------------ MODULE MCMemory ------------------------------
(* The four parts of memory management, each on memory of its own.  A        *)
(* behaviour is one of the Scenarios.  User memory is explored for MaxSteps,  *)
(* and for MaxSegmentSteps when nothing but the shared segment is mapped.     *)
EXTENDS TLC, PhysAlloc, VirtualAlloc, KernelHeap, AddressSpace

CONSTANTS Scenarios, MaxSteps, MaxSegmentSteps

VARIABLES scenario, steps

Entry(b, l, u) == [base |-> b, length |-> l, usable |-> u]
MCMemMaps == { {Entry(0, 5, TRUE), Entry(5, 2, FALSE), Entry(7, 9, TRUE)}, {Entry(1, 12, TRUE)} }
MCFrameBuffers == { [base |-> 13, length |-> 2] }

\* Page tables of two pages, directories of two tables, pointer tables of two directories.
MCReach == [l \in 0..3 |-> 2^l]

\* The Files of the shared segment differ in name only.
Sym == Permutations(ShmFiles)

\* Programs map the shared segment, besides their image and stack, and open no other File.
SegmentOnly ==
    /\ \A t \in Procs : \A i \in 1..Len(vm[t]) :
         vm[t][i].flags = "map" /\ vm[t][i].start # StackPage => vm[t][i].file \in ShmFiles
    /\ \A f \in Files \ ShmFiles : fileState[f] = "none"

memVars == <<scenario, steps, physVars, virtVars, heapVars, userVars>>

MemoryInit ==
    /\ scenario \in Scenarios /\ steps = 0
    /\ Physical /\ Virtual /\ HeapInit /\ UserInit
    /\ scenario # "frames" => bootInfo.map = NoMap
    /\ scenario # "ranges" => nodePool = Max(NodePools)
    /\ scenario \notin {"user", "segment"} => frameCount = Max(FrameCounts)

MemoryNext ==
    /\ UNCHANGED scenario
    /\ \/ scenario = "frames" /\ PhysNext /\ UNCHANGED <<steps, virtVars, heapVars, userVars>>
       \/ scenario = "ranges" /\ VirtNext /\ UNCHANGED <<steps, physVars, heapVars, userVars>>
       \/ scenario = "heap" /\ HeapNext /\ UNCHANGED <<steps, physVars, virtVars, userVars>>
       \/ /\ \/ scenario = "user" /\ steps < MaxSteps
             \/ scenario = "segment" /\ steps < MaxSegmentSteps
          /\ steps' = steps + 1 /\ UserNext
          /\ scenario = "segment" => SegmentOnly'
          /\ UNCHANGED <<physVars, virtVars, heapVars>>

MemorySpec == MemoryInit /\ [][MemoryNext]_memVars
=============================================================================
