---------------------------- MODULE AddressSpace ----------------------------
(***************************************************************************)
(* User memory: the regions of each task (usrlndtrnstn/syscall/mm.cpp), its  *)
(* page tables (mm/mappage.cpp), demand paging (intidt/isrservices.cpp), and *)
(* what fork, execve and exit do to them, over one bitmap of frames.         *)
(*                                                                         *)
(* Addresses are page numbers.  A task's page tables are a tree: below the   *)
(* root (PML4) the nodes of level 3 (PDPT), 2 (PD), 1 (PT) and 0, the pages. *)
(* System calls and faults run with interrupts off and are atomic.  A fault  *)
(* that cannot be served stops the machine, so the model has no step for it. *)
(*                                                                         *)
(* A region may be backed by a regular file, by the shared memory segment    *)
(* (one name; every shm_open of it makes a File) or by /dev/fb0, whose       *)
(* frames lie behind those of the bitmap.                                    *)
(***************************************************************************)
EXTENDS PageRuns

CONSTANTS Procs, First,   \* tasks, and the one that runs at the start
          LastPage,       \* the page below USER_MAX_ADDR
          HeapStart,      \* USER_HEAP_START
          FrameCounts,    \* numbers of frames the machine may have
          Reach,          \* pages below one node of each level
          Lengths,        \* lengths of mmap, munmap, mprotect, brk and shm_open requests
          Offsets,        \* offsets of mappings of files
          Files, NoFile,
          ShmFiles,       \* the Files that are shared memory
          Screens,        \* the Files named /dev/fb0
          KernelPages,    \* pages of the kernel's virtual pool
          KernelNodes     \* free list nodes of that pool

\* USER_STACK_TOP lies a page below USER_MAX_ADDR.  brk alone gets to the page at
\* USER_MAX_ADDR; behind it begins the kernel's half.
StackPage == LastPage - 1
TopPage == LastPage + 1
UserPages == 1..TopPage
Node(l, p) == <<l, p \div Reach[l]>>
Nodes == {Node(l, p) : l \in 0..3, p \in UserPages}
Tables == {x \in Nodes : x[1] > 0}
Entries == [x \in Tables |-> {Node(x[1] - 1, p) : p \in {q \in UserPages : Node(x[1], q) = x}}]

ASSUME UserAssumption ==
    /\ First \in Procs
    /\ NoFile \notin Files /\ ShmFiles \cup Screens \subseteq Files /\ ShmFiles \cap Screens = {}
    /\ LastPage \in Nat /\ LastPage >= 3 /\ HeapStart \in 2..LastPage
    /\ {KernelPages} \cup FrameCounts \cup Lengths \subseteq Nat \ {0}
    /\ KernelNodes \in Nat /\ Offsets \subseteq Nat
    /\ Reach \in [0..3 -> Nat \ {0}] /\ Reach[0] = 1
    \* pages below one table are below the same table of the next level
    /\ \A l \in 1..2, p, q \in UserPages : Node(l, p) = Node(l, q) => Node(l + 1, p) = Node(l + 1, q)

VARIABLES frameCount, \* frames of the machine
          vm,        \* per task: regions [start, end, prot, flags, file, off]
          nextAddr,  \* per task: MMapNextAddr
          cr3,       \* per task: frame of the root, 0 for a task that is not there
          tree,      \* per task and node: its frame, or 0 when not present
          usedFrames,
          fd,        \* per task: the files its descriptors name
          refs,      \* RefCount of each file
          fileState, \* "none", "open", "deleted"
          shm,       \* the ShmRegion: its first frame (0 when not Used) and its pages
          kernelFree, kernelNodes, \* the kernel's free virtual ranges and list nodes
          kernelHolds,             \* ranges VirtualAllocPages gave to the kernel
          torn,      \* frames have been freed that a page or the segment still names
          starved    \* MapPages has left a table without an entry

userVars == <<frameCount, vm, nextAddr, cr3, tree, usedFrames, fd, refs, fileState, shm,
              kernelFree, kernelNodes, kernelHolds, torn, starved>>

AllFrames == 1..frameCount
Segment == IF shm.frame = 0 THEN {} ELSE Run(shm.frame, shm.pages)
Shared(f) == f \in Segment \/ f > frameCount
PoolStart == LastPage + 10
Prots == {"r", "rw"}
Region(s, e, prot, flags, f, off) ==
    [start |-> s, end |-> e, prot |-> prot, flags |-> flags, file |-> f, off |-> off]

\* The regions of a new image; execve gives its stack the flags of an anonymous mmap.
FreshRegions(flags) == << Region(1, 2, "rw", "code", NoFile, 0),
                          Region(StackPage, StackPage + 1, "rw", flags, NoFile, 0) >>
EmptyTree == [x \in Nodes |-> 0]

\* The n-th lowest frame of a set: what n single allocations in a row end with.
Nth(S, n) == CHOOSE f \in S : Cardinality({x \in S : x < f}) = n - 1

-----------------------------------------------------------------------------
\* Page tables.  m is [used, map, ok, half] of one task; half says that a mapping
\* that failed has left a table without an entry.

\* Paging::MapPages at one level: the table of p is there, or is made and linked.
Link(m, l, p) ==
    LET f == FirstRun(AllFrames \ m.used, 1) IN
    IF ~m.ok \/ m.map[Node(l, p)] # 0 THEN m
    ELSE IF f = 0 THEN [m EXCEPT !.ok = FALSE]
    ELSE [m EXCEPT !.used = @ \cup {f}, !.map[Node(l, p)] = f]

\* Paging::MapPages for one page: from the root down, with what was linked left
\* behind on failure.  In the kernel's half a directory entry is a large page of
\* the direct map, where it gives up.
MapPage(m, p, f) ==
    LET pt == Link(Link(Link(m, 3, p), 2, p), 1, p) IN
    IF ~m.ok \/ p \notin UserPages THEN [m EXCEPT !.ok = FALSE]
    ELSE IF ~pt.ok THEN [pt EXCEPT !.half = (pt.map # m.map)]
    ELSE [pt EXCEPT !.map[Node(0, p)] = f]

\* Paging::MapPages for n pages from p on, on frames from f on.
MapPages(m, p, f, n) ==
    LET after[k \in 0..n] == IF k = 0 THEN m ELSE MapPage(after[k - 1], p + k - 1, f + k - 1)
    IN after[n]

\* A page on a frame of its own; without one nothing is mapped.
Populate(m, p) ==
    LET f == FirstRun(AllFrames \ m.used, 1) IN
    IF ~m.ok \/ f = 0 THEN [m EXCEPT !.ok = FALSE]
    ELSE MapPage([m EXCEPT !.used = @ \cup {f}], p, f)

Memory(t) == [used |-> usedFrames, map |-> tree[t], ok |-> TRUE, half |-> FALSE]
Install(t, m) ==
    /\ usedFrames' = m.used
    /\ tree' = [tree EXCEPT ![t] = m.map]
    /\ starved' = (starved \/ m.half)

\* The tables of level l above the pages cut with no entry but those gone.
Emptied(map, cut, l, gone) ==
    {x \in {Node(l, p) : p \in cut} : \A y \in Entries[x] : map[y] = 0 \/ y \in gone}

\* UnmapRange and Paging::UnmapPage for the pages P, freeing the frames of the
\* pages in F; PT, PD and PDPT go, in this order, when they have no entry left.
UnmapPages(m, P, F) ==
    LET cut == {p \in P : m.map[Node(0, p)] # 0}
        pages == {Node(0, p) : p \in cut}
        pts == Emptied(m.map, cut, 1, pages)
        pds == Emptied(m.map, cut, 2, pts)
        pdpts == Emptied(m.map, cut, 3, pds)
        tables == pts \cup pds \cup pdpts
    IN [m EXCEPT !.map = [x \in Nodes |-> IF x \in pages \cup tables THEN 0 ELSE @[x]],
                 !.used = @ \ ({m.map[Node(0, p)] : p \in cut \cap F}
                               \cup {m.map[x] : x \in tables})]

\* UnmapPage ends with VirtualFreePages on the address it unmapped, user
\* address or not: page by page into the kernel's list.
KernelTakesBack(P) ==
    LET after[p \in 0..TopPage] ==
          IF p = 0 THEN [list |-> kernelFree, nodes |-> kernelNodes, kept |-> TRUE]
          ELSE IF p \in P THEN Returned(after[p - 1].list, after[p - 1].nodes, p, 1)
          ELSE after[p - 1]
    IN /\ kernelFree' = after[TopPage].list
       /\ kernelNodes' = after[TopPage].nodes

\* FreeUserAddressSpace: every frame the tables name, shared or not; those behind
\* the bitmap are passed over.
FramesOf(t) == {cr3[t]} \cup {tree[t][x] : x \in Nodes}

\* The task has a page of the segment.
MapsSegment(t) == \E p \in UserPages : tree[t][Node(0, p)] \in Segment

-----------------------------------------------------------------------------
\* Regions of one task: a list in ascending order.
Overlaps(v, s, e) == v.start < e /\ s < v.end
Collides(l, s, e) == \E i \in 1..Len(l) : Overlaps(l[i], s, e)

\* Jumping from collision to collision ends at the lowest gap.
FindFreeRegion(t, n) ==
    LET from == Max({nextAddr[t], HeapStart})
        fits == {s \in from..(LastPage + 1 - n) : ~Collides(vm[t], s, s + n)}
    IN IF fits = {} THEN 0 ELSE Min(fits)

CanMerge(a, b) ==
    /\ a.end = b.start
    /\ a.prot = b.prot /\ a.flags = b.flags /\ a.file = b.file
    /\ a.file # NoFile => a.off + (a.end - a.start) = b.off

\* TryMergeNext(l[i]); the file's RefCount is not given back.
MergeNext(l, i) ==
    IF i \in 1..(Len(l) - 1) /\ CanMerge(l[i], l[i + 1])
    THEN SubSeq(l, 1, i - 1) \o << [l[i] EXCEPT !.end = l[i + 1].end] >>
         \o SubSeq(l, i + 2, Len(l))
    ELSE l

InsertVmaSorted(l, v) ==
    LET p == Max({q \in 0..Len(l) : \A i \in 1..q : l[i].start < v.start})
        put == SubSeq(l, 1, p) \o <<v>> \o SubSeq(l, p + 1, Len(l))
    IN MergeNext(MergeNext(put, p + 1), p)

\* MMapNextAddr moves to the end of the new region, grown on the right.
EndOf(l, a) == LET i == CHOOSE i \in 1..Len(l) : l[i].start <= a /\ a < l[i].end IN l[i].end

\* Sys_MMap: a = 0 lets the kernel choose; a mapping of a regular file takes a
\* reference, one of the segment, which has to fit, or of the screen does not.
Sys_MMap(t, a, n, prot, f, off) ==
    LET s == IF a = 0 THEN FindFreeRegion(t, n) ELSE a
        l == InsertVmaSorted(vm[t], Region(s, s + n, prot, "map", f, off))
    IN /\ cr3[t] # 0
       /\ f # NoFile => f \in fd[t] /\ fileState[f] = "open"
       /\ f \in ShmFiles => off + n <= shm.pages
       /\ s # 0 /\ s + n <= LastPage + 1
       /\ a # 0 => ~Collides(vm[t], s, s + n)
       /\ vm' = [vm EXCEPT ![t] = l]
       /\ nextAddr' = [nextAddr EXCEPT ![t] = Max({@, EndOf(l, s)})]
       /\ refs' = IF f \in Files \ (ShmFiles \cup Screens) THEN [refs EXCEPT ![f] = @ + 1] ELSE refs
       /\ UNCHANGED <<cr3, tree, usedFrames, fd, fileState, shm,
                      kernelFree, kernelNodes, kernelHolds, torn, starved>>

-----------------------------------------------------------------------------
\* What munmap of a..e-1 leaves of region v.
Remains(v, a, e) ==
    IF ~Overlaps(v, a, e) THEN <<v>>
    ELSE (IF v.start < a THEN << [v EXCEPT !.end = a] >> ELSE << >>)
         \o (IF v.end > e
             THEN << [v EXCEPT !.start = e,
                               !.off = IF v.file = NoFile THEN @ ELSE @ + (e - v.start)] >>
             ELSE << >>)

CutRegions(l, a, e) ==
    LET after[k \in 0..Len(l)] == IF k = 0 THEN << >> ELSE after[k - 1] \o Remains(l[k], a, e)
    IN after[Len(l)]

\* Pages of a..e-1 inside regions whose file passes the test.
CutPages(l, a, e) ==
    {p \in a..(e - 1) : \E i \in 1..Len(l) : l[i].start <= p /\ p < l[i].end}
AnonPages(l) ==
    {p \in UserPages : \E i \in 1..Len(l) :
        l[i].file = NoFile /\ l[i].start <= p /\ p < l[i].end}

\* FreeVmaStruct for each region that goes whole; cutting the middle out of a
\* region makes two of one and takes no second reference.
RefsAfterCut(l, a, e) ==
    [f \in Files |-> refs[f] - Cardinality({i \in 1..Len(l) :
                                 l[i].file = f /\ a <= l[i].start /\ l[i].end <= e})]

Sys_Munmap(t, a, n) ==
    LET l == vm[t]
        P == CutPages(l, a, a + n)
        present == {p \in P : tree[t][Node(0, p)] # 0}
    IN /\ cr3[t] # 0 /\ a + n <= LastPage + 1
       /\ Collides(l, a, a + n)
       /\ vm' = [vm EXCEPT ![t] = CutRegions(l, a, a + n)]
       /\ Install(t, UnmapPages(Memory(t), P, AnonPages(l)))
       /\ KernelTakesBack(present)
       /\ refs' = RefsAfterCut(l, a, a + n)
       /\ UNCHANGED <<nextAddr, cr3, fd, fileState, shm, kernelHolds, torn>>

-----------------------------------------------------------------------------
\* SplitVMA of l[i] at page x.
Split(l, i, x) ==
    SubSeq(l, 1, i - 1)
    \o << [l[i] EXCEPT !.end = x],
          [l[i] EXCEPT !.start = x,
                       !.off = IF l[i].file = NoFile THEN @ ELSE @ + (x - l[i].start)] >>
    \o SubSeq(l, i + 1, Len(l))
RefsAfterSplit(r, v) == IF v.file = NoFile THEN r ELSE [r EXCEPT ![v.file] = @ + 1]

\* One turn of the loop of Sys_Mprotect on [list, refs, scan, done].
ProtectStep(st, e, prot) ==
    LET l == st.list
        found == {i \in 1..Len(l) : l[i].start <= st.scan /\ st.scan < l[i].end}
    IN IF st.done \/ st.scan >= e \/ found = {} THEN [st EXCEPT !.done = TRUE]
       ELSE LET i == Min(found) IN
            IF st.scan > l[i].start
            THEN [st EXCEPT !.list = Split(l, i, st.scan), !.refs = RefsAfterSplit(@, l[i])]
            ELSE LET cut == e < l[i].end
                     parts == IF cut THEN Split(l, i, e) ELSE l
                     merged == MergeNext([parts EXCEPT ![i].prot = prot], i)
                 IN [list |-> merged, scan |-> merged[i].end, done |-> FALSE,
                     refs |-> IF cut THEN RefsAfterSplit(st.refs, l[i]) ELSE st.refs]

\* Sys_Mprotect changes regions up to the first gap.  It passes the physical
\* CR3 to SetFlags, which reads it as an address of the user's half: the machine
\* stops there, or reads an entry that is not present and leaves the page
\* tables alone, which is the outcome modelled.
Sys_Mprotect(t, a, n, prot) ==
    LET e == a + n
        after[k \in 0..(2 * LastPage)] ==
          IF k = 0 THEN [list |-> vm[t], refs |-> refs, scan |-> a, done |-> FALSE]
          ELSE ProtectStep(after[k - 1], e, prot)
    IN /\ cr3[t] # 0 /\ e <= LastPage + 1
       /\ vm' = [vm EXCEPT ![t] = after[2 * LastPage].list]
       /\ refs' = after[2 * LastPage].refs
       /\ UNCHANGED <<nextAddr, cr3, tree, usedFrames, fd, fileState, shm,
                      kernelFree, kernelNodes, kernelHolds, torn, starved>>

-----------------------------------------------------------------------------
\* Sys_Brk grows from MMapNextAddr on without a region and without a limit.  When
\* MapPages fails half way, for want of a table or at the kernel's half, all the
\* frames are freed and the pages mapped so far stay.
Sys_Brk(t, n) ==
    LET f == FirstRun(AllFrames \ usedFrames, n)
        m == MapPages([Memory(t) EXCEPT !.used = @ \cup Run(f, n)], nextAddr[t], f, n)
        left == [m EXCEPT !.used = @ \ Run(f, n)]
    IN /\ cr3[t] # 0 /\ f # 0
       /\ IF m.ok
          THEN Install(t, m) /\ nextAddr' = [nextAddr EXCEPT ![t] = @ + n] /\ UNCHANGED torn
          ELSE /\ Install(t, left) /\ UNCHANGED nextAddr
               /\ torn' = (torn \/ \E p \in UserPages : left.map[Node(0, p)] # tree[t][Node(0, p)])
       /\ UNCHANGED <<vm, cr3, fd, refs, fileState, shm, kernelFree, kernelNodes, kernelHolds>>

\* HandleUserPageFault on a page of region v that is not present: a frame of the
\* segment or of the screen, or one of its own.
Served(m, v, p) ==
    IF v.file \in ShmFiles THEN MapPage(m, p, shm.frame + v.off + (p - v.start))
    ELSE IF v.file \in Screens THEN MapPage(m, p, frameCount + 1 + (p - v.start))
    ELSE Populate(m, p)

PageFault(t, p) ==
    /\ cr3[t] # 0 /\ tree[t][Node(0, p)] = 0
    /\ \E i \in 1..Len(vm[t]) :
         LET v == vm[t][i] IN
         /\ v.start <= p /\ p < v.end
         /\ v.file # NoFile => fileState[v.file] = "open"
         /\ Served(Memory(t), v, p).ok
         /\ Install(t, Served(Memory(t), v, p))
    /\ UNCHANGED <<vm, nextAddr, cr3, fd, refs, fileState, shm,
                   kernelFree, kernelNodes, kernelHolds, torn>>

-----------------------------------------------------------------------------
\* CloneUserAddressSpace visits the root, then each table before what is below it,
\* and takes a frame for each; pages of the segment and of the screen are copied too.
Present(t) == {x \in Nodes : tree[t][x] # 0}
FirstPage(x) == x[2] * Reach[x[1]]
Precedes(x, y) == FirstPage(x) < FirstPage(y) \/ (FirstPage(x) = FirstPage(y) /\ x[1] > y[1])

\* Mutant: the node's own frame is not counted.
CloneRankBefore(t, x) == 1 + Cardinality({y \in Present(t) : Precedes(y, x)})

CloneRank(t, x) == 1 + Cardinality({y \in Present(t) : y = x \/ Precedes(y, x)})
CloneSize(t) == 1 + Cardinality(Present(t))

\* Sys_Fork: descriptors are counted first; a clone that runs out of frames
\* keeps all it took.
Sys_Fork(t, u) ==
    LET free == AllFrames \ usedFrames
        fits == Cardinality(free) >= CloneSize(t)
    IN /\ cr3[t] # 0 /\ cr3[u] = 0
       /\ \A f \in fd[t] : fileState[f] = "open"
       /\ refs' = [f \in Files |-> IF f \in fd[t] THEN refs[f] + 1 ELSE refs[f]]
       /\ IF fits
          THEN /\ usedFrames' = usedFrames \cup {Nth(free, k) : k \in 1..CloneSize(t)}
               /\ cr3' = [cr3 EXCEPT ![u] = Nth(free, 1)]
               /\ tree' = [tree EXCEPT ![u] = [x \in Nodes |->
                     IF tree[t][x] = 0 THEN 0 ELSE Nth(free, CloneRank(t, x))]]
               /\ vm' = [vm EXCEPT ![u] = vm[t]]
               /\ nextAddr' = [nextAddr EXCEPT ![u] = nextAddr[t]]
               /\ fd' = [fd EXCEPT ![u] = fd[t]]
          ELSE /\ usedFrames' = AllFrames
               /\ UNCHANGED <<cr3, tree, vm, nextAddr, fd>>
       /\ UNCHANGED <<fileState, shm, kernelFree, kernelNodes, kernelHolds, torn, starved>>

\* CreateUserAddressSpace: a root without user entries, when there is a frame for it.
NewRoot == FirstRun(AllFrames \ usedFrames, 1)
NewSpace == [used |-> usedFrames \cup {NewRoot}, map |-> EmptyTree, ok |-> NewRoot # 0,
             half |-> FALSE]

\* LoadELF64 into a new root: the image is one page.
NewImage == Populate(NewSpace, 1)

\* The stack page of the new image; whether it could be mapped is not looked at.
NewStack(image) == Populate(image, StackPage)

\* Sys_Execve: a new root with the image's page and the stack's page, then the
\* old space goes.  Without a frame for the stack it returns and leaves what it
\* built; when the image does not fit, what was built is freed.
Sys_Execve(t) ==
    LET whole == NewStack(NewImage)
    IN /\ cr3[t] # 0
       /\ NewImage.ok
       /\ IF FirstRun(AllFrames \ NewImage.used, 1) = 0
          THEN /\ usedFrames' = NewImage.used
               /\ UNCHANGED <<cr3, tree, vm, nextAddr, torn, starved>>
          ELSE /\ usedFrames' = whole.used \ FramesOf(t)
               /\ cr3' = [cr3 EXCEPT ![t] = NewRoot]
               /\ tree' = [tree EXCEPT ![t] = whole.map]
               /\ vm' = [vm EXCEPT ![t] = FreshRegions("map")]
               /\ nextAddr' = [nextAddr EXCEPT ![t] = HeapStart]
               /\ torn' = (torn \/ MapsSegment(t))
               /\ starved' = (starved \/ whole.half)
       /\ UNCHANGED <<fd, refs, fileState, shm, kernelFree, kernelNodes, kernelHolds>>

-----------------------------------------------------------------------------
\* The ShmRegion counts the Files open on it, and Release frees its frames when
\* the last one is closed, mapped or not.
InUse(states) == \E f \in ShmFiles : states[f] = "open"
Released(states) == IF InUse(states) THEN {} ELSE Segment
SegmentAfter(states) == IF InUse(states) THEN shm ELSE [frame |-> 0, pages |-> 0]

\* DestroyTask of a reaped child: descriptors are given back and closed at zero,
\* FreeUserAddressSpace frees every frame the tables name; the regions'
\* references stay.
Destroy(t) ==
    LET r == [f \in Files |-> IF f \in fd[t] THEN refs[f] - 1 ELSE refs[f]]
        closed == {f \in fd[t] : r[f] <= 0}
        states == [f \in Files |-> IF f \in closed THEN "deleted" ELSE fileState[f]]
    IN /\ t # First /\ cr3[t] # 0
       /\ \A f \in fd[t] : fileState[f] = "open"
       /\ refs' = [f \in Files |-> IF f \in closed THEN r[f] - 1 ELSE r[f]]
       /\ fileState' = states
       /\ usedFrames' = usedFrames \ (Released(states) \cup FramesOf(t))
       /\ shm' = SegmentAfter(states)
       /\ torn' = (torn \/ IF InUse(states) THEN MapsSegment(t)
                           ELSE \E u \in Procs \ {t} : MapsSegment(u))
       /\ cr3' = [cr3 EXCEPT ![t] = 0]
       /\ tree' = [tree EXCEPT ![t] = EmptyTree]
       /\ vm' = [vm EXCEPT ![t] = << >>]
       /\ fd' = [fd EXCEPT ![t] = {}]
       /\ nextAddr' = [nextAddr EXCEPT ![t] = 0]
       /\ UNCHANGED <<kernelFree, kernelNodes, kernelHolds, starved>>

-----------------------------------------------------------------------------
Opened(t, f) ==
    /\ cr3[t] # 0 /\ fileState[f] = "none"
    /\ fileState' = [fileState EXCEPT ![f] = "open"]
    /\ refs' = [refs EXCEPT ![f] = 1]
    /\ fd' = [fd EXCEPT ![t] = @ \cup {f}]
    /\ UNCHANGED <<vm, nextAddr, cr3, tree, kernelFree, kernelNodes, kernelHolds, torn, starved>>

Open(t, f) ==
    /\ f \notin ShmFiles
    /\ Opened(t, f)
    /\ UNCHANGED <<usedFrames, shm>>

\* Sys_ShmOpen: the segment that is there, whatever its size, or a new one of n
\* frames in a row.
Sys_ShmOpen(t, f, n) ==
    LET s == FirstRun(AllFrames \ usedFrames, n) IN
    /\ f \in ShmFiles
    /\ Opened(t, f)
    /\ IF InUse(fileState) THEN UNCHANGED <<usedFrames, shm>>
       ELSE /\ s # 0
            /\ usedFrames' = usedFrames \cup Run(s, n)
            /\ shm' = [frame |-> s, pages |-> n]

\* Sys_Close counts down while positive and closes at exactly zero, where
\* VFSManager::Close counts once more.
Sys_Close(t, f) ==
    LET r == IF refs[f] > 0 THEN refs[f] - 1 ELSE refs[f]
        states == [fileState EXCEPT ![f] = IF r = 0 THEN "deleted" ELSE @]
    IN /\ cr3[t] # 0 /\ f \in fd[t] /\ fileState[f] = "open"
       /\ fd' = [fd EXCEPT ![t] = @ \ {f}]
       /\ refs' = [refs EXCEPT ![f] = IF r = 0 THEN -1 ELSE r]
       /\ fileState' = states
       /\ usedFrames' = usedFrames \ Released(states)
       /\ shm' = SegmentAfter(states)
       /\ torn' = (torn \/ (~InUse(states) /\ \E u \in Procs : MapsSegment(u)))
       /\ UNCHANGED <<vm, nextAddr, cr3, tree, kernelFree, kernelNodes, kernelHolds, starved>>

\* The kernel asks its virtual allocator for one page.
KernelAlloc ==
    /\ Fitting(kernelFree, 1) # {}
    /\ LET i == Min(Fitting(kernelFree, 1)) IN
         /\ kernelFree' = TakeFrom(kernelFree, i, 1)
         /\ kernelNodes' = IF kernelFree[i].count = 1 THEN kernelNodes + 1 ELSE kernelNodes
         /\ kernelHolds' = kernelHolds \cup {kernelFree[i].start}
    /\ UNCHANGED <<vm, nextAddr, cr3, tree, usedFrames, fd, refs, fileState, shm, torn, starved>>

\* TaskUserConstructor, for the first process: a root, the stack's page, the image's.
Construct(t) ==
    LET whole == Populate(Populate(NewSpace, StackPage), 1)
    IN /\ cr3[t] = 0
       /\ whole.ok
       /\ Install(t, whole)
       /\ cr3' = [cr3 EXCEPT ![t] = NewRoot]
       /\ vm' = [vm EXCEPT ![t] = FreshRegions("stack")]
       /\ nextAddr' = [nextAddr EXCEPT ![t] = HeapStart]
       /\ UNCHANGED <<fd, refs, fileState, shm, kernelFree, kernelNodes, kernelHolds, torn>>

UserInit ==
    /\ frameCount \in FrameCounts /\ usedFrames = {}
    /\ vm = [t \in Procs |-> << >>] /\ nextAddr = [t \in Procs |-> 0]
    /\ cr3 = [t \in Procs |-> 0] /\ tree = [t \in Procs |-> EmptyTree]
    /\ fd = [t \in Procs |-> {}]
    /\ refs = [f \in Files |-> 0] /\ fileState = [f \in Files |-> "none"]
    /\ shm = [frame |-> 0, pages |-> 0]
    /\ kernelFree = << PageRange(PoolStart, KernelPages) >> /\ kernelNodes = KernelNodes
    /\ kernelHolds = {} /\ torn = FALSE /\ starved = FALSE

UserCall ==
    \/ \E t \in Procs, a \in 0..LastPage, n \in Lengths, prot \in Prots :
         \/ Sys_MMap(t, a, n, prot, NoFile, 0)
         \/ \E f \in Files, off \in Offsets : Sys_MMap(t, a, n, prot, f, off)
         \/ a > 0 /\ Sys_Mprotect(t, a, n, prot)
    \/ \E t \in Procs, a \in UserPages, n \in Lengths : Sys_Munmap(t, a, n)
    \/ \E t \in Procs, n \in Lengths : Sys_Brk(t, n)
    \/ \E t \in Procs, p \in UserPages : PageFault(t, p)
    \/ \E t, u \in Procs : Sys_Fork(t, u)
    \/ \E t \in Procs : Sys_Execve(t) \/ Destroy(t)
    \/ \E t \in Procs, f \in Files : Open(t, f) \/ Sys_Close(t, f)
    \/ \E t \in Procs, f \in ShmFiles, n \in Lengths : Sys_ShmOpen(t, f, n)
    \/ Construct(First)
    \/ KernelAlloc

UserNext == UserCall /\ UNCHANGED frameCount
UserSpec == UserInit /\ [][UserNext]_userVars

-----------------------------------------------------------------------------
\* The regions InsertVmaSorted, munmap and mprotect keep are not empty, in
\* ascending order and disjoint; the searches of mmap and of the page fault rely
\* on it.
RegionsInOrder ==
    \A t \in Procs :
      /\ \A i \in 1..Len(vm[t]) : vm[t][i].start < vm[t][i].end
      /\ \A i \in 1..(Len(vm[t]) - 1) : vm[t][i].end <= vm[t][i + 1].start

\* The frames a task's page tables name, those of the segment and of the screen apart.
Own(t) == {f \in FramesOf(t) : f # 0 /\ ~Shared(f)}

\* Every frame a task's page tables name, as root, table or page, is marked in use
\* and named once, over all tasks, the frames of the segment, which are in use while
\* it is, and of the screen apart: those only pages name.  Faults, brk, munmap, fork,
\* execve and exit together never free a frame that is still mapped or map one twice,
\* but for the three cases the code has: a brk that fails half way, an exit or execve
\* of a task with a page of the segment, and the last close of a segment still mapped.
FramesPrivate ==
    ~torn =>
      /\ Segment \subseteq usedFrames
      /\ \A t \in Procs :
           /\ Own(t) \subseteq usedFrames
           /\ cr3[t] # 0 => cr3[t] \in Own(t)
           /\ \A x \in Present(t) :
                \/ x[1] = 0 /\ Shared(tree[t][x])
                \/ /\ tree[t][x] \in Own(t) \ {cr3[t]}
                   /\ \A y \in Present(t) \ {x} : tree[t][y] # tree[t][x]
           /\ \A u \in Procs \ {t} : Own(t) \cap Own(u) = {}

\* What is present can be reached from the root, so that exit frees it, and a table
\* has an entry, so that UnmapPage neither leaks a table nor frees one in use.  A PD
\* or PDPT without an entry can only be what MapPages left when it failed.
TablesMatchPages ==
    \A t \in Procs, x \in Tables :
      LET used == \E y \in Entries[x] : tree[t][y] # 0 IN
      /\ used => tree[t][x] # 0
      /\ tree[t][x] # 0 /\ (x[1] = 1 \/ ~starved) => used

\* Regions, pages, tables and frames of all tasks agree after any sequence of mmap,
\* munmap, mprotect, brk, faults, fork, execve and exit.
UserMemoryIsSound == RegionsInOrder /\ FramesPrivate /\ TablesMatchPages

\* The virtual allocator gives the kernel addresses of its own pool.
\* UnmapPage returns user addresses to it, and TLC refutes it (README, section 5).
KernelRangesInPool == \A p \in kernelHolds : p \in Run(PoolStart, KernelPages)
=============================================================================
