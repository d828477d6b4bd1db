----------------------------- MODULE FileProofs -----------------------------
(***************************************************************************)
(* Descriptors, Files, Inodes, regions and the inode cache (OpenFiles),    *)
(* for any number of tasks, slots, objects, inodes and cache entries, and  *)
(* names and listings (Directories), at the end of the module.             *)
(*                                                                         *)
(* Exact(st, h, l, m) is the invariant as a relation between the objects   *)
(* st, the tables h and the references l and m that no slot and no File    *)
(* has.  In the middle of a call a reference is on its way: it is then     *)
(* counted in l, and a call is a chain of lemmas that move one reference   *)
(* from a slot to l, from l to a slot, or give one of l back.  With every  *)
(* call at its end l and m are the history variables again.                *)
(***************************************************************************)
EXTENDS OpenFiles, Directories, NumberLemmas, FiniteSetTheorems, TLAPS

\* The objects and the tables, by type.
FileRecords == [kind : {"none", "disk", "pipe", "shm"}, refs : Nat,
                of : NodeIds \cup RegionIds \cup {Null}, writes : BOOLEAN]
NodeRecords == [ino : Inodes \cup {NoName, PipeIno}, refs : Nat, writeClosed : BOOLEAN, buffer : BOOLEAN]
RegionRecords == [name : Names \cup {NoName}, refs : Nat]
States == [files : [FileIds -> FileRecords], nodes : [NodeIds -> NodeRecords],
           cache : [Cached -> NodeIds \cup {Null}], regions : [RegionIds -> RegionRecords]]
Tables == [Users -> [FdNums -> FileIds \cup {Null}]]

\* The slots of the tables h that name f, and the Files of an Inode and of a region.
SlotsOf(h, f) == {x \in Users \X FdNums : h[x[1]][x[2]] = f}
FilesOfNode(st, n) == {f \in FileIds : st.files[f].kind \in {"disk", "pipe"} /\ st.files[f].of = n}
FilesOfRegion(st, r) == {f \in FileIds : st.files[f].kind = "shm" /\ st.files[f].of = r}

\* A File is counted by the slots of h and by l[f] references that no slot has.
FileCounted(st, h, l, f) ==
    IF st.files[f].kind = "none" THEN l[f] = 0
    ELSE st.files[f].refs = Cardinality(SlotsOf(h, f)) + l[f] /\ st.files[f].refs # 0

FileNames(st, f) ==
    /\ st.files[f].kind \in {"disk", "pipe"} => st.files[f].of \in NodeIds
    /\ st.files[f].kind = "pipe" => st.nodes[st.files[f].of].buffer
    /\ st.files[f].kind = "shm" => st.files[f].of \in RegionIds

NodeCounted(st, n) == st.nodes[n].refs = Cardinality(FilesOfNode(st, n))
RegionCounted(st, m, r) ==
    /\ st.regions[r].refs = m[r] + Cardinality(FilesOfRegion(st, r))
    /\ st.regions[r].refs = 0 <=> st.regions[r].name = NoName

Held(st, h) == \A t \in Users, s \in FdNums : h[t][s] # Null => st.files[h[t][s]].kind # "none"

Exact(st, h, l, m) ==
    /\ st \in States /\ h \in Tables /\ l \in [FileIds -> Nat] /\ m \in [RegionIds -> Nat]
    /\ maxFd \in Nat \ {0}
    /\ Held(st, h)
    /\ \A f \in FileIds : FileCounted(st, h, l, f) /\ FileNames(st, f)
    /\ \A n \in NodeIds : NodeCounted(st, n)
    /\ \A r \in RegionIds : RegionCounted(st, m, r)

\* What is counted is finite.
LEMMA SlotsAreFinite ==
    ASSUME maxFd \in Nat, NEW h, NEW f
    PROVE  IsFiniteSet(SlotsOf(h, f)) /\ Cardinality(SlotsOf(h, f)) \in Nat
<1>1. IsFiniteSet(Users) /\ IsFiniteSet(FdNums)
    BY FilesAssumption, FS_Interval DEF FdNums
<1>2. IsFiniteSet(Users \X FdNums)
    BY <1>1, FS_Product
<1>3. SlotsOf(h, f) \in SUBSET (Users \X FdNums)
    BY DEF SlotsOf
<1>4. IsFiniteSet(SlotsOf(h, f))
    BY <1>2, <1>3, FS_Subset
<1> QED BY <1>4, FS_CardinalityType

LEMMA FilesAreFinite ==
    ASSUME NEW S, S \subseteq FileIds
    PROVE  IsFiniteSet(S) /\ Cardinality(S) \in Nat
<1>1. S \in SUBSET FileIds /\ IsFiniteSet(FileIds)
    BY FilesAssumption
<1>2. IsFiniteSet(S)
    BY <1>1, FS_Subset
<1> QED BY <1>2, FS_CardinalityType

\* h2 is h with v in one slot; what that does to the number of slots c of a File.
SlotSet(h, h2, t, s, v) ==
    /\ h2 \in Tables /\ h2[t][s] = v
    /\ \A u \in Users, i \in FdNums : <<u, i>> # <<t, s>> => h2[u][i] = h[u][i]
CountMoves(c, d, old, v, f) ==
    /\ c \in Nat /\ d \in Nat
    /\ f = v /\ old # f => d = c + 1
    /\ f # v /\ old # f => d = c
    /\ f # v /\ old = f => d + 1 = c

\* One slot of one table gets another value.
LEMMA SlotChanges ==
    ASSUME NEW h \in Tables, NEW t \in Users, NEW s \in FdNums, NEW v \in FileIds \cup {Null},
           maxFd \in Nat
    PROVE  /\ SlotSet(h, [h EXCEPT ![t][s] = v], t, s, v)
           /\ \A f : CountMoves(Cardinality(SlotsOf(h, f)), Cardinality(SlotsOf([h EXCEPT ![t][s] = v], f)),
                                h[t][s], v, f)
<1>0. PICK h2 : h2 = [h EXCEPT ![t][s] = v]
    OBVIOUS
<1>1. /\ h2 \in Tables /\ h2[t][s] = v
      /\ \A u \in Users, i \in FdNums : <<u, i>> # <<t, s>> => h2[u][i] = h[u][i]
    BY <1>0 DEF Tables
<1> SUFFICES ASSUME NEW f
             PROVE  CountMoves(Cardinality(SlotsOf(h, f)), Cardinality(SlotsOf(h2, f)), h[t][s], v, f)
    BY <1>0, <1>1 DEF SlotSet
<1>10. PICK c, d : c = Cardinality(SlotsOf(h, f)) /\ d = Cardinality(SlotsOf(h2, f))
    OBVIOUS
<1>11. PICK x : x = <<t, s>>
    OBVIOUS
<1>2. x = <<t, s>> /\ x \in Users \X FdNums /\ x[1] = t /\ x[2] = s
    BY <1>11
<1>3. ASSUME NEW y \in Users \X FdNums, y # x PROVE h2[y[1]][y[2]] = h[y[1]][y[2]]
    <2>1. y[1] \in Users /\ y[2] \in FdNums /\ y = <<y[1], y[2]>>
        OBVIOUS
    <2> QED BY <1>1, <1>2, <1>3, <2>1, Zenon
<1>4. c \in Nat /\ d \in Nat /\ IsFiniteSet(SlotsOf(h, f)) /\ IsFiniteSet(SlotsOf(h2, f))
    BY <1>10, SlotsAreFinite
<1>5. x \in SlotsOf(h, f) <=> h[t][s] = f
    BY <1>2 DEF SlotsOf
<1>6. x \in SlotsOf(h2, f) <=> v = f
    BY <1>1, <1>2 DEF SlotsOf
<1>7. ASSUME f = v, h[t][s] # f PROVE d = c + 1
    <2>1. SlotsOf(h2, f) = SlotsOf(h, f) \cup {x}
        BY <1>2, <1>3, <1>6, <1>7 DEF SlotsOf
    <2>2. x \notin SlotsOf(h, f)
        BY <1>5, <1>7
    <2>3. Cardinality(SlotsOf(h, f) \cup {x}) = Cardinality(SlotsOf(h, f)) + 1
        BY <1>4, <2>2, FS_AddElement
    <2> QED BY <1>10, <2>1, <2>3
<1>8. ASSUME f # v, h[t][s] # f PROVE d = c
    <2>1. SlotsOf(h2, f) = SlotsOf(h, f)
        BY <1>3, <1>5, <1>6, <1>8 DEF SlotsOf
    <2> QED BY <1>10, <2>1
<1>9. ASSUME f # v, h[t][s] = f PROVE d + 1 = c
    <2>1. SlotsOf(h2, f) = SlotsOf(h, f) \ {x}
        BY <1>2, <1>3, <1>6, <1>9 DEF SlotsOf
    <2>2. x \in SlotsOf(h, f)
        BY <1>5, <1>9
    <2>3. Cardinality(SlotsOf(h, f) \ {x}) = Cardinality(SlotsOf(h, f)) - 1
        BY <1>4, <2>2, FS_RemoveElement
    <2> QED BY <1>4, <1>10, <2>1, <2>3
<1> QED BY <1>4, <1>7, <1>8, <1>9, <1>10 DEF CountMoves

\* A reference passes from nobody to a slot that is free, and back.
LEMMA SlotTaken ==
    ASSUME NEW st, NEW h, NEW l, NEW m, Exact(st, h, l, m), NEW t \in Users, NEW s \in FdNums, h[t][s] = Null,
           NEW f \in FileIds, l[f] # 0
    PROVE  Exact(st, [h EXCEPT ![t][s] = f], [l EXCEPT ![f] = @ - 1], m)
<1>1. PICK h2, l2 : h2 = [h EXCEPT ![t][s] = f] /\ l2 = [l EXCEPT ![f] = @ - 1]
    OBVIOUS
<1>2. h \in Tables /\ l \in [FileIds -> Nat] /\ maxFd \in Nat /\ st.files[f].kind # "none" /\ f # Null
    BY FilesAssumption DEF Exact, FileCounted
<1>3. /\ h2 \in Tables /\ h2[t][s] = f
      /\ \A u \in Users, i \in FdNums : <<u, i>> # <<t, s>> => h2[u][i] = h[u][i]
    <2>1. f \in FileIds \cup {Null}
        OBVIOUS
    <2>2. SlotSet(h, h2, t, s, f)
        BY <1>1, <1>2, <2>1, SlotChanges, Zenon
    <2> QED BY <2>2, Zenon DEF SlotSet
<1>4. l2 \in [FileIds -> Nat] /\ l2[f] = l[f] - 1 /\ l2[f] + 1 = l[f] /\ \A g \in FileIds \ {f} : l2[g] = l[g]
    BY <1>1, <1>2
<1>5. Held(st, h2)
    BY <1>2, <1>3 DEF Held, Exact
<1>6. ASSUME NEW g \in FileIds PROVE FileCounted(st, h2, l2, g)
    <2>1. PICK c, d : c = Cardinality(SlotsOf(h, g)) /\ d = Cardinality(SlotsOf(h2, g))
        OBVIOUS
    <2>2. /\ c \in Nat /\ d \in Nat /\ (g = f => d = c + 1) /\ (g # f => d = c)
        <3>1. h[t][s] # g
            BY FilesAssumption
        <3>2. CountMoves(c, d, h[t][s], h2[t][s], g)
            BY <1>1, <1>2, <1>3, <2>1, SlotChanges
        <3> QED BY <1>3, <3>1, <3>2 DEF CountMoves
    <2>3. FileCounted(st, h, l, g)
        BY DEF Exact
    <2> QED BY <1>2, <1>4, <2>1, <2>2, <2>3 DEF FileCounted
<1> QED BY <1>1, <1>3, <1>4, <1>5, <1>6 DEF Exact

LEMMA SlotLeft ==
    ASSUME NEW st, NEW h, NEW l, NEW m, Exact(st, h, l, m), NEW t \in Users, NEW s \in FdNums,
           NEW f \in FileIds, h[t][s] = f
    PROVE  Exact(st, [h EXCEPT ![t][s] = Null], [l EXCEPT ![f] = @ + 1], m)
<1>1. PICK h2, l2 : h2 = [h EXCEPT ![t][s] = Null] /\ l2 = [l EXCEPT ![f] = @ + 1]
    OBVIOUS
<1>2. h \in Tables /\ l \in [FileIds -> Nat] /\ maxFd \in Nat /\ st.files[f].kind # "none" /\ f # Null
    BY FilesAssumption DEF Exact, Held
<1>3. /\ h2 \in Tables /\ h2[t][s] = Null
      /\ \A u \in Users, i \in FdNums : <<u, i>> # <<t, s>> => h2[u][i] = h[u][i]
    <2>1. Null \in FileIds \cup {Null}
        OBVIOUS
    <2>2. SlotSet(h, h2, t, s, Null)
        BY <1>1, <1>2, <2>1, SlotChanges, Zenon
    <2> QED BY <2>2, Zenon DEF SlotSet
<1>4. l2 \in [FileIds -> Nat] /\ l2[f] = l[f] + 1 /\ \A g \in FileIds \ {f} : l2[g] = l[g]
    BY <1>1, <1>2
<1>5. Held(st, h2)
    BY <1>2, <1>3 DEF Held, Exact
<1>6. ASSUME NEW g \in FileIds PROVE FileCounted(st, h2, l2, g)
    <2>1. PICK c, d : c = Cardinality(SlotsOf(h, g)) /\ d = Cardinality(SlotsOf(h2, g))
        OBVIOUS
    <2>2. /\ c \in Nat /\ d \in Nat /\ (g = f => d + 1 = c) /\ (g # f => d = c)
        <3>1. g # Null
            BY FilesAssumption
        <3>2. CountMoves(c, d, h[t][s], h2[t][s], g)
            BY <1>1, <1>2, <1>3, <2>1, SlotChanges
        <3> QED BY <1>3, <3>1, <3>2 DEF CountMoves
    <2>3. FileCounted(st, h, l, g)
        BY DEF Exact
    <2> QED BY <1>2, <1>4, <2>1, <2>2, <2>3 DEF FileCounted
<1> QED BY <1>1, <1>3, <1>4, <1>5, <1>6 DEF Exact

\* The counts without that of f itself, which the callers of VFSManager::Close
\* have already changed.
ExactBut(st, h, l, m, f) ==
    /\ st \in States /\ h \in Tables /\ l \in [FileIds -> Nat] /\ m \in [RegionIds -> Nat]
    /\ maxFd \in Nat \ {0}
    /\ Held(st, h)
    /\ \A g \in FileIds : (g # f => FileCounted(st, h, l, g)) /\ FileNames(st, g)
    /\ \A n \in NodeIds : NodeCounted(st, n)
    /\ \A r \in RegionIds : RegionCounted(st, m, r)

Gone(st, f) ==
    [(IF st.files[f].kind = "shm" THEN Release(st, st.files[f].of) ELSE InodeClosed(st, f))
     EXCEPT !.files[f] = FreeFile]

\* The unused objects are objects.
LEMMA FreeOnes == FreeFile \in FileRecords /\ FreeNode \in NodeRecords /\ FreeRegion \in RegionRecords
BY DEF FreeFile, FreeNode, FreeRegion, FileRecords, NodeRecords, RegionRecords

\* The fields of a state, and of one that has a new value in one of them.
Parts(st, F, N, C, R) == st \in States /\ st.files = F /\ st.nodes = N /\ st.cache = C /\ st.regions = R
LEMMA FieldSet ==
    ASSUME NEW st \in States
    PROVE  /\ \A F \in [FileIds -> FileRecords] :
                 Parts([st EXCEPT !.files = F], F, st.nodes, st.cache, st.regions)
           /\ \A N \in [NodeIds -> NodeRecords] :
                 Parts([st EXCEPT !.nodes = N], st.files, N, st.cache, st.regions)
           /\ \A C \in [Cached -> NodeIds \cup {Null}] :
                 Parts([st EXCEPT !.cache = C], st.files, st.nodes, C, st.regions)
           /\ \A R \in [RegionIds -> RegionRecords] :
                 Parts([st EXCEPT !.regions = R], st.files, st.nodes, st.cache, R)
BY DEF States, Parts
LEMMA ItemSet ==
    ASSUME NEW st \in States
    PROVE  /\ \A f \in FileIds, v \in FileRecords :
                 Parts([st EXCEPT !.files[f] = v], [st.files EXCEPT ![f] = v], st.nodes, st.cache, st.regions)
           /\ \A n \in NodeIds, v \in NodeRecords :
                 Parts([st EXCEPT !.nodes[n] = v], st.files, [st.nodes EXCEPT ![n] = v], st.cache, st.regions)
           /\ \A r \in RegionIds, v \in RegionRecords :
                 Parts([st EXCEPT !.regions[r] = v], st.files, st.nodes, st.cache, [st.regions EXCEPT ![r] = v])
<1>1. ASSUME NEW f \in FileIds, NEW v \in FileRecords
      PROVE  Parts([st EXCEPT !.files[f] = v], [st.files EXCEPT ![f] = v], st.nodes, st.cache, st.regions)
    <2>1. [st.files EXCEPT ![f] = v] \in [FileIds -> FileRecords]
        BY DEF States
    <2> QED BY <2>1, FieldSet, Zenon
<1>2. ASSUME NEW n \in NodeIds, NEW v \in NodeRecords
      PROVE  Parts([st EXCEPT !.nodes[n] = v], st.files, [st.nodes EXCEPT ![n] = v], st.cache, st.regions)
    <2>1. [st.nodes EXCEPT ![n] = v] \in [NodeIds -> NodeRecords]
        BY DEF States
    <2> QED BY <2>1, FieldSet
<1>3. ASSUME NEW r \in RegionIds, NEW v \in RegionRecords
      PROVE  Parts([st EXCEPT !.regions[r] = v], st.files, st.nodes, st.cache, [st.regions EXCEPT ![r] = v])
    <2>1. [st.regions EXCEPT ![r] = v] \in [RegionIds -> RegionRecords]
        BY DEF States
    <2> QED BY <2>1, FieldSet
<1> QED BY <1>1, <1>2, <1>3, Zenon

\* VFSManager::Close of the last reference to a region's File, ...
LEMMA RegionGone ==
    ASSUME NEW st \in States, NEW f \in FileIds, st.files[f].kind = "shm", st.files[f].of \in RegionIds,
           st.regions[st.files[f].of].refs # 0
    PROVE  /\ Gone(st, f) \in States
           /\ Gone(st, f).files = [st.files EXCEPT ![f] = FreeFile]
           /\ Gone(st, f).nodes = st.nodes /\ Gone(st, f).cache = st.cache
           /\ \E v \in RegionRecords :
                 /\ Gone(st, f).regions = [st.regions EXCEPT ![st.files[f].of] = v]
                 /\ v.refs = st.regions[st.files[f].of].refs - 1
                 /\ v.name = IF v.refs = 0 THEN NoName ELSE st.regions[st.files[f].of].name
<1>1. PICK r \in RegionIds : r = st.files[f].of
    OBVIOUS
<1>2. PICK o \in RegionRecords : o = st.regions[r] /\ o.refs # 0
    BY <1>1 DEF States
<1>8. PICK v : v = IF st.regions[r].refs = 1 THEN FreeRegion
                     ELSE [name |-> st.regions[r].name, refs |-> st.regions[r].refs - 1]
    OBVIOUS
<1>3. v = IF o.refs = 1 THEN FreeRegion ELSE [name |-> o.name, refs |-> o.refs - 1]
    BY <1>2, <1>8
<1>4. /\ v \in RegionRecords /\ v.refs = o.refs - 1
      /\ v.name = IF v.refs = 0 THEN NoName ELSE o.name
    BY <1>2, <1>3, FreeOnes DEF RegionRecords, FreeRegion
<1>5. Release(st, r) = [st EXCEPT !.regions[r] = v]
    BY <1>8, Zenon DEF Release
<1>6. Gone(st, f) = [[st EXCEPT !.regions[r] = v] EXCEPT !.files[f] = FreeFile]
    BY <1>1, <1>5 DEF Gone
<1>7. /\ Gone(st, f) \in States
      /\ Gone(st, f).files = [st.files EXCEPT ![f] = FreeFile]
      /\ Gone(st, f).nodes = st.nodes /\ Gone(st, f).cache = st.cache
      /\ Gone(st, f).regions = [st.regions EXCEPT ![r] = v]
    <2>1. PICK st2 : st2 = [st EXCEPT !.regions[r] = v]
        OBVIOUS
    <2>2. Parts(st2, st.files, st.nodes, st.cache, [st.regions EXCEPT ![r] = v])
        BY <1>4, <2>1, ItemSet, Zenon
    <2>3. st2 \in States /\ FreeFile \in FileRecords
        BY <2>2, FreeOnes DEF Parts
    <2>4. Parts(Gone(st, f), [st2.files EXCEPT ![f] = FreeFile], st2.nodes, st2.cache, st2.regions)
        <3>1. Parts([st2 EXCEPT !.files[f] = FreeFile],
                    [st2.files EXCEPT ![f] = FreeFile], st2.nodes, st2.cache, st2.regions)
            BY <2>3, ItemSet, Zenon
        <3>2. Gone(st, f) = [st2 EXCEPT !.files[f] = FreeFile]
            BY <1>6, <2>1
        <3> QED BY <3>1, <3>2, Zenon
    <2> QED BY <2>2, <2>4 DEF Parts
<1> QED BY <1>1, <1>2, <1>4, <1>7

\* RemoveCachedInode empties at most one entry.
LEMMA CacheLoses ==
    ASSUME NEW st \in States, NEW i
    PROVE  /\ RemoveCachedInode(st, i) \in [Cached -> NodeIds \cup {Null}]
           /\ \A j \in Cached : RemoveCachedInode(st, i)[j] \in {st.cache[j], Null}
BY DEF RemoveCachedInode, States

\* The Inode n of f has lost f and is v now, in st2.
NodeLeft(st, st2, f, n, v) ==
    /\ st2.nodes = [st.nodes EXCEPT ![n] = v]
    /\ v.refs = st.nodes[n].refs - 1
    /\ v.refs # 0 => /\ v.buffer = st.nodes[n].buffer /\ v.ino = st.nodes[n].ino
                     /\ v.writeClosed = (st.nodes[n].writeClosed \/
                           (st.files[f].kind = "pipe" /\ st.files[f].writes))
                     /\ st2.cache = st.cache
    /\ v.refs = 0 => /\ st2.cache = RemoveCachedInode(st, st.nodes[n].ino)
                     /\ v.ino = IF \E i \in Cached : st2.cache[i] = n THEN st.nodes[n].ino ELSE NoName

\* ... and to that of an Inode.
LEMMA NodeGone ==
    ASSUME NEW st \in States, NEW f \in FileIds, st.files[f].kind \in {"disk", "pipe"},
           NEW n \in NodeIds, n = st.files[f].of, st.nodes[n].refs # 0
    PROVE  /\ Gone(st, f) \in States
           /\ Gone(st, f).files = [st.files EXCEPT ![f] = FreeFile]
           /\ Gone(st, f).regions = st.regions
           /\ \E v \in NodeRecords : NodeLeft(st, Gone(st, f), f, n, v)
<1>1. PICK o \in NodeRecords : o = st.nodes[n] /\ o.refs \in Nat /\ o.refs # 0
    BY DEF States, NodeRecords
<1>2. PICK told : told = IF st.files[f].kind = "pipe" THEN PipeClosed(o, st.files[f]) ELSE o
    OBVIOUS
<1>3. /\ told \in NodeRecords /\ told.refs = o.refs /\ told.ino = o.ino
      /\ o.refs # 1 => told.buffer = o.buffer
      /\ told.writeClosed = (o.writeClosed \/ (st.files[f].kind = "pipe" /\ st.files[f].writes))
    <2>1. st.files[f].writes \in BOOLEAN /\ o.writeClosed \in BOOLEAN /\ o.buffer \in BOOLEAN
        BY DEF States, FileRecords, NodeRecords
    <2>2. CASE st.files[f].kind = "pipe"
        <3>1. told = [o EXCEPT !.writeClosed = @ \/ st.files[f].writes, !.buffer = @ /\ o.refs # 1]
            BY <1>2, <2>2 DEF PipeClosed
        <3>2. (o.writeClosed \/ st.files[f].writes) \in BOOLEAN /\ (o.buffer /\ o.refs # 1) \in BOOLEAN
            OBVIOUS
        <3>3. /\ told \in NodeRecords /\ told.refs = o.refs /\ told.ino = o.ino
              /\ told.buffer = (o.buffer /\ o.refs # 1)
              /\ told.writeClosed = (o.writeClosed \/ st.files[f].writes)
            BY <3>1, <3>2 DEF NodeRecords
        <3> QED BY <2>1, <2>2, <3>3
    <2>3. CASE st.files[f].kind # "pipe"
        BY <1>2, <2>1, <2>3
    <2> QED BY <2>2, <2>3
<1>4. CASE o.refs > 1
    <2>1. PICK v : v = [told EXCEPT !.refs = @ - 1]
        OBVIOUS
    <2>2. /\ v \in NodeRecords /\ v.refs = o.refs - 1 /\ v.refs # 0 /\ v.ino = o.ino /\ v.buffer = o.buffer
          /\ v.writeClosed = told.writeClosed
        <3>1. PICK less : less = o.refs - 1 /\ less \in Nat /\ less # 0
            BY <1>1, <1>4
        <3>2. told \in NodeRecords /\ told.refs = o.refs
            BY <1>3
        <3>3. v = [told EXCEPT !.refs = less]
            BY <2>1, <3>1, <3>2
        <3>4. /\ v \in NodeRecords /\ v.refs = less /\ v.ino = told.ino
              /\ v.buffer = told.buffer /\ v.writeClosed = told.writeClosed
            BY <3>1, <3>2, <3>3 DEF NodeRecords
        <3>5. told.ino = o.ino /\ told.buffer = o.buffer
            BY <1>3, <1>4
        <3> QED BY <3>1, <3>4, <3>5, Zenon
    <2>3. InodeClosed(st, f) = [st EXCEPT !.nodes[n] = v]
        BY <1>1, <1>2, <1>3, <1>4, <2>1 DEF InodeClosed
    <2>4. Gone(st, f) = [[st EXCEPT !.nodes[n] = v] EXCEPT !.files[f] = FreeFile]
        BY <2>3 DEF Gone
    <2>5. /\ Gone(st, f) \in States
          /\ Gone(st, f).files = [st.files EXCEPT ![f] = FreeFile]
          /\ Gone(st, f).nodes = [st.nodes EXCEPT ![n] = v]
          /\ Gone(st, f).cache = st.cache /\ Gone(st, f).regions = st.regions
        <3>1. PICK st2 : st2 = [st EXCEPT !.nodes[n] = v]
            OBVIOUS
        <3>2. Parts(st2, st.files, [st.nodes EXCEPT ![n] = v], st.cache, st.regions)
            BY <2>2, <3>1, ItemSet, Zenon
        <3>3. st2 \in States /\ FreeFile \in FileRecords
            BY <3>2, FreeOnes DEF Parts
        <3>4. Parts(Gone(st, f), [st2.files EXCEPT ![f] = FreeFile], st2.nodes, st2.cache, st2.regions)
            <4>1. Parts([st2 EXCEPT !.files[f] = FreeFile],
                        [st2.files EXCEPT ![f] = FreeFile], st2.nodes, st2.cache, st2.regions)
                BY <3>3, ItemSet, Zenon
            <4>2. Gone(st, f) = [st2 EXCEPT !.files[f] = FreeFile]
                BY <2>4, <3>1
            <4> QED BY <4>1, <4>2, Zenon
        <3> QED BY <3>2, <3>4 DEF Parts
    <2>6. NodeLeft(st, Gone(st, f), f, n, v)
        BY <1>1, <1>3, <2>2, <2>5 DEF NodeLeft
    <2> QED BY <2>2, <2>5, <2>6
<1>5. CASE o.refs = 1
    <2>1. PICK left : left = RemoveCachedInode(st, o.ino) /\ left \in [Cached -> NodeIds \cup {Null}]
        BY CacheLoses
    <2>2. PICK v : v = [FreeNode EXCEPT !.ino = IF \E i \in Cached : left[i] = n THEN o.ino ELSE NoName]
        OBVIOUS
    <2>3. /\ v \in NodeRecords /\ v.refs = 0
          /\ v.ino = IF \E i \in Cached : left[i] = n THEN o.ino ELSE NoName
        BY <1>1, <2>2 DEF NodeRecords, FreeNode
    <2>4. InodeClosed(st, f) = [st EXCEPT !.cache = left, !.nodes[n] = v]
        <3>1. PICK kept : kept = IF \E i \in Cached : left[i] = n THEN told.ino ELSE NoName
            OBVIOUS
        <3>2. InodeClosed(st, f) = [st EXCEPT !.cache = left, !.nodes[n] = [FreeNode EXCEPT !.ino = kept]]
            <4>1. ~(told.refs > 1) /\ RemoveCachedInode(st, told.ino) = left
                BY <1>3, <1>5, <2>1
            <4>2. told = IF st.files[f].kind = "pipe" THEN PipeClosed(st.nodes[n], st.files[f]) ELSE st.nodes[n]
                BY <1>1, <1>2, Zenon
            <4> QED BY <3>1, <4>1, <4>2, Zenon DEF InodeClosed
        <3>3. kept = IF \E i \in Cached : left[i] = n THEN o.ino ELSE NoName
            BY <1>3, <3>1, Zenon
        <3> QED BY <2>2, <3>2, <3>3, Zenon
    <2>5. Gone(st, f) = [[st EXCEPT !.cache = left, !.nodes[n] = v] EXCEPT !.files[f] = FreeFile]
        BY <2>4 DEF Gone
    <2>6. /\ Gone(st, f) \in States
          /\ Gone(st, f).files = [st.files EXCEPT ![f] = FreeFile]
          /\ Gone(st, f).nodes = [st.nodes EXCEPT ![n] = v]
          /\ Gone(st, f).cache = left /\ Gone(st, f).regions = st.regions
        <3>1. PICK st1, st2 : st1 = [st EXCEPT !.cache = left] /\ st2 = [st1 EXCEPT !.nodes[n] = v]
            OBVIOUS
        <3>2. st2 = [st EXCEPT !.cache = left, !.nodes[n] = v]
            BY <3>1
        <3>3. Parts(st1, st.files, st.nodes, left, st.regions)
            BY <2>1, <3>1, FieldSet, Zenon
        <3>4. st1 \in States
            BY <3>3 DEF Parts
        <3>5. Parts(st2, st1.files, [st1.nodes EXCEPT ![n] = v], st1.cache, st1.regions)
            BY <2>3, <3>1, <3>4, ItemSet, Zenon
        <3>6. st2 \in States /\ FreeFile \in FileRecords
            BY <3>5, FreeOnes DEF Parts
        <3>7. Parts(Gone(st, f), [st2.files EXCEPT ![f] = FreeFile], st2.nodes, st2.cache, st2.regions)
            <4>1. Parts([st2 EXCEPT !.files[f] = FreeFile],
                        [st2.files EXCEPT ![f] = FreeFile], st2.nodes, st2.cache, st2.regions)
                BY <3>6, ItemSet, Zenon
            <4>2. Gone(st, f) = [st2 EXCEPT !.files[f] = FreeFile]
                BY <2>5, <3>2
            <4> QED BY <4>1, <4>2, Zenon
        <3> QED BY <3>3, <3>5, <3>7 DEF Parts
    <2>7. v.refs = st.nodes[n].refs - 1
        BY <1>1, <1>5, <2>3
    <2>8. NodeLeft(st, Gone(st, f), f, n, v)
        BY <1>1, <2>1, <2>3, <2>6, <2>7 DEF NodeLeft
    <2> QED BY <2>3, <2>6, <2>8
<1> QED BY <1>1, <1>4, <1>5

\* The last reference to f goes, and what f names is counted down.
LEMMA GoneIsExact ==
    ASSUME NEW st, NEW h, NEW l, NEW m, NEW f \in FileIds, ExactBut(st, h, l, m, f),
           st.files[f].kind # "none", Cardinality(SlotsOf(h, f)) = 0
    PROVE  Exact(Gone(st, f), h, [l EXCEPT ![f] = 0], m)
<1>1. PICK st2, l2 : st2 = Gone(st, f) /\ l2 = [l EXCEPT ![f] = 0]
    OBVIOUS
<1>2. /\ st \in States /\ h \in Tables /\ l \in [FileIds -> Nat] /\ m \in [RegionIds -> Nat]
      /\ maxFd \in Nat \ {0}
      /\ st.files[f].kind \in {"disk", "pipe", "shm"} /\ FileNames(st, f)
    BY DEF ExactBut, States, FileRecords
<1>3. l2 \in [FileIds -> Nat] /\ l2[f] = 0 /\ \A g \in FileIds \ {f} : l2[g] = l[g]
    BY <1>1, <1>2
<1>4. SlotsOf(h, f) = {}
    BY <1>2, SlotsAreFinite, FS_EmptySet
<1>5. ASSUME NEW S, S \subseteq FileIds, f \in S
      PROVE  Cardinality(S) \in Nat /\ Cardinality(S) # 0 /\ Cardinality(S \ {f}) = Cardinality(S) - 1
    <2>1. IsFiniteSet(S) /\ Cardinality(S) \in Nat
        BY <1>5, FilesAreFinite
    <2> QED BY <1>5, <2>1, FS_EmptySet, FS_RemoveElement
<1>6. ASSUME st2.files = [st.files EXCEPT ![f] = FreeFile], st2 \in States
      PROVE  /\ Held(st2, h)
             /\ \A g \in FileIds : FileCounted(st2, h, l2, g)
             /\ \A n : FilesOfNode(st2, n) = FilesOfNode(st, n) \ {f}
             /\ \A r : FilesOfRegion(st2, r) = FilesOfRegion(st, r) \ {f}
             /\ st2.files[f].kind = "none" /\ \A g \in FileIds \ {f} : st2.files[g] = st.files[g]
    <2>1. st2.files[f] = FreeFile /\ \A g \in FileIds \ {f} : st2.files[g] = st.files[g]
        BY <1>2, <1>6 DEF States
    <2>2. st2.files[f].kind = "none"
        BY <2>1 DEF FreeFile
    <2>3. \A n : FilesOfNode(st2, n) = FilesOfNode(st, n) \ {f}
        BY <2>1, <2>2 DEF FilesOfNode
    <2>4. \A r : FilesOfRegion(st2, r) = FilesOfRegion(st, r) \ {f}
        BY <2>1, <2>2 DEF FilesOfRegion
    <2>5. \A g \in FileIds : FileCounted(st2, h, l2, g)
        BY <1>3, <2>1, <2>2 DEF FileCounted, ExactBut
    <2>6. ASSUME NEW t \in Users, NEW s \in FdNums, h[t][s] # Null PROVE st2.files[h[t][s]].kind # "none"
        <3>1. PICK x : x = <<t, s>>
            OBVIOUS
        <3>2. x \in Users \X FdNums /\ x[1] = t /\ x[2] = s
            BY <3>1
        <3>3. h[t][s] # f
            BY <1>4, <3>2 DEF SlotsOf
        <3>4. h[t][s] \in FileIds /\ st.files[h[t][s]].kind # "none"
            BY <1>2, <2>6 DEF Tables, Held, ExactBut
        <3> QED BY <2>1, <3>3, <3>4
    <2> QED BY <2>1, <2>2, <2>3, <2>4, <2>5, <2>6 DEF Held
<1>7. CASE st.files[f].kind = "shm"
    <2>1. PICK r \in RegionIds : r = st.files[f].of /\ f \in FilesOfRegion(st, r)
        BY <1>2, <1>7 DEF FileNames, FilesOfRegion
    <2>2. PICK c \in Nat : /\ c = Cardinality(FilesOfRegion(st, r)) /\ c # 0
                           /\ Cardinality(FilesOfRegion(st, r) \ {f}) = c - 1
        <3>1. FilesOfRegion(st, r) \subseteq FileIds
            BY DEF FilesOfRegion
        <3> QED BY <1>5, <2>1, <3>1
    <2>3. st.regions[r].refs = m[r] + c /\ st.regions[r].refs # 0
        <3>1. st.regions[r].refs = m[r] + c /\ m[r] \in Nat
            BY <1>2, <2>2 DEF ExactBut, RegionCounted
        <3> QED BY <2>2, <3>1
    <2>4. /\ st2 \in States /\ st2.files = [st.files EXCEPT ![f] = FreeFile]
          /\ st2.nodes = st.nodes /\ st2.cache = st.cache
          /\ \E v \in RegionRecords :
                 /\ st2.regions = [st.regions EXCEPT ![r] = v]
                 /\ v.refs = st.regions[r].refs - 1
                 /\ v.name = IF v.refs = 0 THEN NoName ELSE st.regions[r].name
        BY <1>1, <1>2, <1>7, <2>1, <2>3, RegionGone
    <2>5. PICK v \in RegionRecords : /\ st2.regions = [st.regions EXCEPT ![r] = v]
                                     /\ v.refs = st.regions[r].refs - 1
                                     /\ v.name = IF v.refs = 0 THEN NoName ELSE st.regions[r].name
        BY <2>4
    <2>6. st2.regions[r] = v /\ \A q \in RegionIds \ {r} : st2.regions[q] = st.regions[q]
        BY <1>2, <2>5 DEF States
    <2>7. ASSUME NEW n \in NodeIds PROVE NodeCounted(st2, n)
        <3>1. FilesOfNode(st2, n) = FilesOfNode(st, n)
            BY <1>6, <1>7, <2>4 DEF FilesOfNode
        <3> QED BY <2>4, <3>1 DEF NodeCounted, ExactBut
    <2>8. RegionCounted(st2, m, r)
        <3>1. Cardinality(FilesOfRegion(st2, r)) = c - 1
            BY <1>6, <2>2, <2>4
        <3>2. m[r] \in Nat
            BY <1>2
        <3>3. v.refs = m[r] + (c - 1)
            BY <2>2, <2>3, <2>5, <3>2
        <3>4. v.refs # 0 => v.name # NoName
            BY <2>3, <2>5 DEF ExactBut, RegionCounted
        <3> QED BY <2>5, <2>6, <3>1, <3>3, <3>4 DEF RegionCounted
    <2>9. ASSUME NEW q \in RegionIds, q # r PROVE RegionCounted(st2, m, q)
        <3>1. FilesOfRegion(st2, q) = FilesOfRegion(st, q)
            BY <1>6, <2>1, <2>4, <2>9 DEF FilesOfRegion
        <3> QED BY <2>6, <2>9, <3>1 DEF RegionCounted, ExactBut
    <2>10. \A g \in FileIds : FileNames(st2, g)
        BY <1>6, <2>4 DEF FileNames, ExactBut
    <2> QED BY <1>1, <1>2, <1>3, <1>6, <2>4, <2>7, <2>8, <2>9, <2>10 DEF Exact
<1>8. CASE st.files[f].kind \in {"disk", "pipe"}
    <2>1. PICK n \in NodeIds : n = st.files[f].of /\ f \in FilesOfNode(st, n)
        BY <1>2, <1>8 DEF FileNames, FilesOfNode
    <2>2. PICK c \in Nat : /\ c = Cardinality(FilesOfNode(st, n)) /\ c # 0
                           /\ Cardinality(FilesOfNode(st, n) \ {f}) = c - 1
        <3>1. FilesOfNode(st, n) \subseteq FileIds
            BY DEF FilesOfNode
        <3> QED BY <1>5, <2>1, <3>1
    <2>3. st.nodes[n].refs = c
        BY <2>2 DEF ExactBut, NodeCounted
    <2>4. /\ st2 \in States /\ st2.files = [st.files EXCEPT ![f] = FreeFile] /\ st2.regions = st.regions
          /\ \E v \in NodeRecords : NodeLeft(st, st2, f, n, v)
        <3>1. st.nodes[n].refs # 0
            BY <2>2, <2>3
        <3> QED BY <1>1, <1>2, <1>8, <2>1, <3>1, NodeGone, Zenon
    <2>5. PICK v \in NodeRecords : /\ st2.nodes = [st.nodes EXCEPT ![n] = v]
                                   /\ v.refs = st.nodes[n].refs - 1
                                   /\ v.refs # 0 => v.buffer = st.nodes[n].buffer
        BY <2>4 DEF NodeLeft
    <2>6. st2.nodes[n] = v /\ \A k \in NodeIds \ {n} : st2.nodes[k] = st.nodes[k]
        BY <1>2, <2>5 DEF States
    <2>7. NodeCounted(st2, n)
        BY <1>6, <2>2, <2>3, <2>4, <2>5, <2>6 DEF NodeCounted
    <2>8. ASSUME NEW k \in NodeIds, k # n PROVE NodeCounted(st2, k)
        <3>1. FilesOfNode(st2, k) = FilesOfNode(st, k)
            BY <1>6, <2>1, <2>4, <2>8 DEF FilesOfNode
        <3> QED BY <2>6, <2>8, <3>1 DEF NodeCounted, ExactBut
    <2>9. ASSUME NEW q \in RegionIds PROVE RegionCounted(st2, m, q)
        <3>1. FilesOfRegion(st2, q) = FilesOfRegion(st, q)
            BY <1>6, <1>8, <2>4 DEF FilesOfRegion
        <3> QED BY <2>4, <3>1 DEF RegionCounted, ExactBut
    <2>10. ASSUME NEW g \in FileIds PROVE FileNames(st2, g)
        <3>1. CASE g = f
            BY <1>6, <2>4, <3>1 DEF FileNames
        <3>2. CASE g # f
            <4>1. FileNames(st, g) /\ st2.files[g] = st.files[g]
                BY <1>6, <2>4, <3>2 DEF ExactBut
            <4>2. ASSUME st.files[g].kind = "pipe", st.files[g].of = n PROVE st2.nodes[n].buffer
                <5>1. g \in FilesOfNode(st2, n)
                    BY <1>6, <2>4, <3>2, <4>1, <4>2 DEF FilesOfNode
                <5>2. Cardinality(FilesOfNode(st2, n)) # 0
                    <6>1. FilesOfNode(st2, n) \subseteq FileIds
                        BY DEF FilesOfNode
                    <6> QED BY <5>1, <6>1, FilesAreFinite, FS_EmptySet
                <5>3. v.refs # 0
                    BY <2>6, <2>7, <5>2 DEF NodeCounted
                <5> QED BY <2>5, <2>6, <4>1, <4>2, <5>3 DEF FileNames
            <4> QED BY <2>6, <4>1, <4>2 DEF FileNames
        <3> QED BY <3>1, <3>2
    <2> QED BY <1>1, <1>2, <1>3, <1>6, <2>4, <2>7, <2>8, <2>9, <2>10 DEF Exact
<1> QED BY <1>2, <1>7, <1>8

\* VFSManager::Close and the callers that count before they call it: each gives
\* back one reference that no slot has.
LEMMA ClosesExactly ==
    ASSUME NEW st, NEW h, NEW l, NEW m, Exact(st, h, l, m), NEW f \in FileIds, l[f] # 0
    PROVE  /\ Exact(VfsClose(st, f), h, [l EXCEPT ![f] = @ - 1], m)
           /\ Exact(Drop(st, f), h, [l EXCEPT ![f] = @ - 1], m)
<1>1. /\ st \in States /\ h \in Tables /\ l \in [FileIds -> Nat] /\ m \in [RegionIds -> Nat]
      /\ maxFd \in Nat \ {0} /\ st.files[f].kind # "none" /\ st.files[f] \in FileRecords
    BY DEF Exact, FileCounted, States
<1>2. PICK c \in Nat, k \in Nat : c = Cardinality(SlotsOf(h, f)) /\ k = st.files[f].refs
    BY <1>1, SlotsAreFinite DEF FileRecords
<1>3. k = c + l[f] /\ k # 0 /\ l[f] \in Nat
    BY <1>1, <1>2 DEF Exact, FileCounted
<1>4. PICK st2, v : st2 = [st EXCEPT !.files[f].refs = k - 1] /\ v = [st.files[f] EXCEPT !.refs = k - 1]
    OBVIOUS
<1>5. v \in FileRecords /\ v.refs = k - 1 /\ v.kind = st.files[f].kind /\ v.of = st.files[f].of /\ v.writes = st.files[f].writes
    BY <1>1, <1>2, <1>3, <1>4 DEF FileRecords
<1>6. Parts(st2, [st.files EXCEPT ![f] = v], st.nodes, st.cache, st.regions)
    <2>1. Parts([st EXCEPT !.files[f] = v], [st.files EXCEPT ![f] = v], st.nodes, st.cache, st.regions)
        BY <1>1, <1>5, ItemSet, Zenon
    <2>2. st2 = [st EXCEPT !.files[f] = v]
        BY <1>4
    <2> QED BY <2>1, <2>2, Zenon
<1>7. /\ st2 \in States /\ st2.files[f] = v /\ \A g \in FileIds \ {f} : st2.files[g] = st.files[g]
      /\ st2.nodes = st.nodes /\ st2.cache = st.cache /\ st2.regions = st.regions
    BY <1>1, <1>6 DEF Parts, States
<1>8. /\ \A g \in FileIds : st2.files[g].kind = st.files[g].kind /\ st2.files[g].of = st.files[g].of
      /\ \A n : FilesOfNode(st2, n) = FilesOfNode(st, n)
      /\ \A r : FilesOfRegion(st2, r) = FilesOfRegion(st, r)
    <2>1. \A g \in FileIds : st2.files[g].kind = st.files[g].kind /\ st2.files[g].of = st.files[g].of
        BY <1>5, <1>7
    <2> QED BY <2>1 DEF FilesOfNode, FilesOfRegion
<1>9. ExactBut(st2, h, l, m, f)
    <2>1. Held(st2, h)
        BY <1>1, <1>8 DEF Held, Exact, Tables
    <2>2. \A g \in FileIds : (g # f => FileCounted(st2, h, l, g)) /\ FileNames(st2, g)
        BY <1>7, <1>8 DEF FileCounted, FileNames, Exact
    <2>3. (\A n \in NodeIds : NodeCounted(st2, n)) /\ \A r \in RegionIds : RegionCounted(st2, m, r)
        BY <1>7, <1>8 DEF NodeCounted, RegionCounted, Exact
    <2> QED BY <1>1, <1>7, <2>1, <2>2, <2>3 DEF ExactBut
<1>10. PICK l2 : l2 = [l EXCEPT ![f] = @ - 1]
    OBVIOUS
<1>11. l2 \in [FileIds -> Nat] /\ l2[f] = l[f] - 1 /\ \A g \in FileIds \ {f} : l2[g] = l[g]
    BY <1>1, <1>3, <1>10
<1>12. ASSUME k # 1 PROVE Exact(st2, h, l2, m)
    <2>1. FileCounted(st2, h, l2, f)
        <3>1. PICK a \in Nat : a = l[f] /\ a # 0
            BY <1>3
        <3>2. k - 1 = c + (a - 1) /\ k - 1 # 0
            BY <1>3, <1>12, <3>1
        <3>3. st2.files[f].refs = k - 1 /\ st2.files[f].kind # "none" /\ l2[f] = a - 1
            BY <1>1, <1>5, <1>7, <1>11, <3>1
        <3> QED BY <1>2, <3>2, <3>3 DEF FileCounted
    <2>2. ASSUME NEW g \in FileIds, g # f PROVE FileCounted(st2, h, l2, g)
        BY <1>9, <1>11, <2>2 DEF FileCounted, ExactBut
    <2> QED BY <1>9, <1>11, <2>1, <2>2 DEF Exact, ExactBut
<1>13. ASSUME k = 1 PROVE l2 = [l EXCEPT ![f] = 0] /\ c = 0
    <2>1. PICK a \in Nat : a = l[f] /\ a # 0
        BY <1>3
    <2>2. a = 1 /\ c = 0 /\ a - 1 = 0
        BY <1>3, <1>13, <2>1
    <2> QED BY <1>10, <2>1, <2>2
<1>14. ExactBut(st, h, l, m, f)
    BY DEF Exact, ExactBut
<1>15. Exact(VfsClose(st, f), h, l2, m)
    <2>1. CASE k = 1
        <3>1. VfsClose(st, f) = Gone(st, f)
            BY <1>2, <2>1 DEF VfsClose, Gone
        <3>2. Exact(Gone(st, f), h, [l EXCEPT ![f] = 0], m)
            BY <1>1, <1>2, <1>13, <1>14, <2>1, GoneIsExact
        <3> QED BY <1>13, <2>1, <3>1, <3>2
    <2>2. CASE k # 1
        <3>1. VfsClose(st, f) = st2
            BY <1>2, <1>3, <1>4, <2>2 DEF VfsClose
        <3> QED BY <1>12, <2>2, <3>1
    <2> QED BY <2>1, <2>2
<1>16. Exact(Drop(st, f), h, l2, m)
    <2>1. st.files[f].refs > 0 /\ (IF st.files[f].refs > 0 THEN st.files[f].refs - 1 ELSE st.files[f].refs) = k - 1
        BY <1>2, <1>3
    <2>2. Drop(st, f) = IF k - 1 = 0 THEN VfsClose(st2, f) ELSE st2
        BY <1>4, <2>1, Zenon DEF Drop
    <2>3. CASE k = 1
        <3>1. VfsClose(st2, f) = Gone(st2, f)
            BY <1>5, <1>7, <2>3 DEF VfsClose, Gone
        <3>2. Exact(Gone(st2, f), h, [l EXCEPT ![f] = 0], m)
            BY <1>1, <1>2, <1>8, <1>9, <1>13, <2>3, GoneIsExact
        <3>3. Drop(st, f) = VfsClose(st2, f)
            BY <2>2, <2>3
        <3> QED BY <1>13, <2>3, <3>1, <3>2, <3>3
    <2>4. CASE k # 1
        BY <1>2, <1>12, <2>2, <2>4
    <2> QED BY <2>3, <2>4
<1> QED BY <1>10, <1>15, <1>16

-----------------------------------------------------------------------------
\* A File that was unused is opened, with one reference that no slot has yet.
Opens(st, st2, f, v) ==
    /\ st.files[f].kind = "none" /\ v \in FileRecords /\ v.kind # "none" /\ v.refs = 1
    /\ st2 \in States /\ st2.files = [st.files EXCEPT ![f] = v]
CountsHold(st, h, l) == Held(st, h) /\ \A g \in FileIds : FileCounted(st, h, l, g)
OneMore(yes) == IF yes THEN 1 ELSE 0

Grown(st, st2, h, l, f, v) ==
    /\ CountsHold(st2, h, [l EXCEPT ![f] = 1])
    /\ [l EXCEPT ![f] = 1] \in [FileIds -> Nat]
    /\ \A n : /\ Cardinality(FilesOfNode(st, n)) \in Nat
              /\ Cardinality(FilesOfNode(st2, n)) =
                   Cardinality(FilesOfNode(st, n)) + OneMore(v.kind \in {"disk", "pipe"} /\ v.of = n)
    /\ \A r : /\ Cardinality(FilesOfRegion(st, r)) \in Nat
              /\ Cardinality(FilesOfRegion(st2, r)) =
                   Cardinality(FilesOfRegion(st, r)) + OneMore(v.kind = "shm" /\ v.of = r)

\* What a new File changes in the counts.
LEMMA FileAdded ==
    ASSUME NEW st \in States, NEW st2, NEW h \in Tables, NEW l \in [FileIds -> Nat], maxFd \in Nat,
           NEW f \in FileIds, NEW v, Opens(st, st2, f, v), CountsHold(st, h, l)
    PROVE  Grown(st, st2, h, l, f, v)
<1>1. st2.files[f] = v /\ \A g \in FileIds \ {f} : st2.files[g] = st.files[g]
    BY DEF Opens, States
<1>2. PICK l2 : l2 = [l EXCEPT ![f] = 1]
    OBVIOUS
<1>3. l2[f] = 1 /\ l2 \in [FileIds -> Nat] /\ \A g \in FileIds \ {f} : l2[g] = l[g]
    BY <1>2
<1>4. SlotsOf(h, f) = {}
    <2>1. ASSUME NEW x \in Users \X FdNums, h[x[1]][x[2]] = f PROVE FALSE
        <3>1. x[1] \in Users /\ x[2] \in FdNums
            OBVIOUS
        <3>2. f # Null
            BY FilesAssumption
        <3> QED BY <2>1, <3>1, <3>2 DEF CountsHold, Held, Opens
    <2> QED BY <2>1 DEF SlotsOf
<1>5. Cardinality(SlotsOf(h, f)) = 0
    BY <1>4, FS_EmptySet
<1>6. ASSUME NEW g \in FileIds PROVE FileCounted(st2, h, l2, g)
    <2>1. CASE g = f
        BY <1>1, <1>3, <1>5, <2>1 DEF FileCounted, Opens
    <2>2. CASE g # f
        BY <1>1, <1>3, <2>2 DEF FileCounted, CountsHold
    <2> QED BY <2>1, <2>2
<1>7. Held(st2, h)
    BY <1>1 DEF Held, CountsHold, Opens, Tables
<1>8. ASSUME NEW S, S \subseteq FileIds, f \notin S
      PROVE  Cardinality(S) \in Nat /\ Cardinality(S \cup {f}) = Cardinality(S) + 1
    BY <1>8, FilesAreFinite, FS_AddElement
<1>9. ASSUME NEW n
      PROVE  /\ Cardinality(FilesOfNode(st, n)) \in Nat
             /\ Cardinality(FilesOfNode(st2, n)) =
                  Cardinality(FilesOfNode(st, n)) + OneMore(v.kind \in {"disk", "pipe"} /\ v.of = n)
    <2>1. FilesOfNode(st, n) \subseteq FileIds /\ f \notin FilesOfNode(st, n)
        BY DEF FilesOfNode, Opens
    <2>2. CASE v.kind \in {"disk", "pipe"} /\ v.of = n
        <3>1. FilesOfNode(st2, n) = FilesOfNode(st, n) \cup {f}
            BY <1>1, <2>2 DEF FilesOfNode
        <3> QED BY <1>8, <2>1, <2>2, <3>1 DEF OneMore
    <2>3. CASE ~(v.kind \in {"disk", "pipe"} /\ v.of = n)
        <3>1. FilesOfNode(st2, n) = FilesOfNode(st, n)
            BY <1>1, <2>1, <2>3 DEF FilesOfNode
        <3>2. OneMore(v.kind \in {"disk", "pipe"} /\ v.of = n) = 0
            BY <2>3, Zenon DEF OneMore
        <3>3. Cardinality(FilesOfNode(st, n)) \in Nat
            BY <1>8, <2>1
        <3> QED BY <3>1, <3>2, <3>3
    <2> QED BY <2>2, <2>3
<1>10. ASSUME NEW r
       PROVE  /\ Cardinality(FilesOfRegion(st, r)) \in Nat
              /\ Cardinality(FilesOfRegion(st2, r)) =
                  Cardinality(FilesOfRegion(st, r)) + OneMore(v.kind = "shm" /\ v.of = r)
    <2>1. FilesOfRegion(st, r) \subseteq FileIds /\ f \notin FilesOfRegion(st, r)
        BY DEF FilesOfRegion, Opens
    <2>2. CASE v.kind = "shm" /\ v.of = r
        <3>1. FilesOfRegion(st2, r) = FilesOfRegion(st, r) \cup {f}
            BY <1>1, <2>2 DEF FilesOfRegion
        <3> QED BY <1>8, <2>1, <2>2, <3>1 DEF OneMore
    <2>3. CASE ~(v.kind = "shm" /\ v.of = r)
        <3>1. FilesOfRegion(st2, r) = FilesOfRegion(st, r)
            BY <1>1, <2>1, <2>3 DEF FilesOfRegion
        <3>2. OneMore(v.kind = "shm" /\ v.of = r) = 0
            BY <2>3, Zenon DEF OneMore
        <3>3. Cardinality(FilesOfRegion(st, r)) \in Nat
            BY <1>8, <2>1
        <3> QED BY <3>1, <3>2, <3>3
    <2> QED BY <2>2, <2>3
<1>11. CountsHold(st2, h, l2)
    BY <1>6, <1>7 DEF CountsHold
<1> QED BY <1>2, <1>3, <1>9, <1>10, <1>11, Zenon DEF Grown

\* AddCachedInode fills at most one entry, which was empty.
LEMMA CacheGains ==
    ASSUME NEW c \in [Cached -> NodeIds \cup {Null}], NEW n \in NodeIds
    PROVE  /\ AddCachedInode(c, n) \in [Cached -> NodeIds \cup {Null}]
           /\ \A j \in Cached : AddCachedInode(c, n)[j] = c[j] \/ (c[j] = Null /\ AddCachedInode(c, n)[j] = n)
           /\ \A i, j \in Cached : AddCachedInode(c, n)[i] # c[i] /\ AddCachedInode(c, n)[j] # c[j] => i = j
<1>1. PICK E : E = {i \in Cached : c[i] = Null}
    OBVIOUS
<1>2. CASE E = {}
    BY <1>1, <1>2 DEF AddCachedInode
<1>3. CASE E # {}
    <2>1. PICK k : k = Min(E)
        OBVIOUS
    <2>2. k \in Cached /\ c[k] = Null
        <3>1. E \subseteq Nat
            BY <1>1, FilesAssumption DEF Cached
        <3>2. k \in E
            BY <1>3, <2>1, <3>1, LeastMember
        <3> QED BY <1>1, <3>2
    <2>3. AddCachedInode(c, n) = [c EXCEPT ![k] = n]
        BY <1>1, <1>3, <2>1, Zenon DEF AddCachedInode
    <2> QED BY <2>2, <2>3
<1> QED BY <1>2, <1>3

\* VFSManager::Open: the Inode and its count.
LEMMA NodeOpened ==
    ASSUME NEW st \in States, NEW i \in Inodes, NEW n \in NodeIds,
           GetCachedInode(st, i) = {} => st.nodes[n].refs = 0
    PROVE  \E v, C :
              /\ v \in NodeRecords
              /\ Parts(WithNode(st, i, n), st.files, [st.nodes EXCEPT ![n] = v], C, st.regions)
              /\ v.refs = st.nodes[n].refs + 1
              /\ GetCachedInode(st, i) # {} => /\ C = st.cache
                                               /\ v.ino = st.nodes[n].ino /\ v.buffer = st.nodes[n].buffer
                                               /\ v.writeClosed = st.nodes[n].writeClosed
              /\ GetCachedInode(st, i) = {} => C = AddCachedInode(st.cache, n) /\ v.ino = i
<1>1. st.nodes[n] \in NodeRecords /\ st.cache \in [Cached -> NodeIds \cup {Null}]
    BY DEF States
<1>2. CASE GetCachedInode(st, i) # {}
    <2>1. PICK v : v = [st.nodes[n] EXCEPT !.refs = @ + 1]
        OBVIOUS
    <2>2. /\ v \in NodeRecords /\ v.refs = st.nodes[n].refs + 1 /\ v.ino = st.nodes[n].ino
          /\ v.buffer = st.nodes[n].buffer /\ v.writeClosed = st.nodes[n].writeClosed
        BY <1>1, <2>1 DEF NodeRecords
    <2>3. WithNode(st, i, n) = [st EXCEPT !.nodes[n] = v]
        BY <1>2, <2>1 DEF WithNode
    <2>4. Parts([st EXCEPT !.nodes[n] = v], st.files, [st.nodes EXCEPT ![n] = v], st.cache, st.regions)
        BY <2>2, ItemSet, Zenon
    <2> QED BY <1>2, <2>2, <2>3, <2>4, Zenon
<1>3. CASE GetCachedInode(st, i) = {}
    <2>1. PICK v : v = [FreeNode EXCEPT !.ino = i, !.refs = 1]
        OBVIOUS
    <2>2. v \in NodeRecords /\ v.refs = 1 /\ v.ino = i
        BY <2>1 DEF NodeRecords, FreeNode
    <2>3. PICK C : C = AddCachedInode(st.cache, n) /\ C \in [Cached -> NodeIds \cup {Null}]
        BY <1>1, CacheGains
    <2>4. WithNode(st, i, n) = [st EXCEPT !.nodes[n] = v, !.cache = C]
        BY <1>3, <2>1, <2>3 DEF WithNode
    <2>5. PICK st1 : st1 = [st EXCEPT !.nodes[n] = v]
        OBVIOUS
    <2>6. Parts(st1, st.files, [st.nodes EXCEPT ![n] = v], st.cache, st.regions)
        BY <2>2, <2>5, ItemSet, Zenon
    <2>7. st1 \in States
        BY <2>6 DEF Parts
    <2>8. Parts([st1 EXCEPT !.cache = C], st1.files, st1.nodes, C, st1.regions)
        BY <2>3, <2>7, FieldSet, Zenon
    <2>9. WithNode(st, i, n) = [st1 EXCEPT !.cache = C]
        BY <2>4, <2>5
    <2>10. Parts(WithNode(st, i, n), st.files, [st.nodes EXCEPT ![n] = v], C, st.regions)
        BY <2>6, <2>8, <2>9 DEF Parts
    <2>11. v.refs = st.nodes[n].refs + 1
        BY <1>3, <2>2
    <2> QED BY <1>3, <2>2, <2>3, <2>10, <2>11, Zenon
<1> QED BY <1>2, <1>3

\* Sys_Open and Sys_Execve up to the File.
LEMMA OpenIsExact ==
    ASSUME NEW h, NEW l, NEW m, Exact(Now, h, l, m), NEW i \in Inodes, NEW f \in FileIds, NEW n \in NodeIds,
           Now.files[f].kind = "none", GetCachedInode(Now, i) = {} => Now.nodes[n].refs = 0
    PROVE  Exact(VfsOpen(i, f, n), h, [l EXCEPT ![f] = 1], m)
<1> PICK st : st = Now
    OBVIOUS
<1>1. /\ st \in States /\ h \in Tables /\ l \in [FileIds -> Nat] /\ m \in [RegionIds -> Nat]
      /\ maxFd \in Nat \ {0} /\ CountsHold(st, h, l)
    BY DEF Exact, CountsHold
<1>2. PICK v, C :
              /\ v \in NodeRecords
              /\ Parts(WithNode(st, i, n), st.files, [st.nodes EXCEPT ![n] = v], C, st.regions)
              /\ v.refs = st.nodes[n].refs + 1
              /\ GetCachedInode(st, i) # {} => /\ C = st.cache
                                               /\ v.ino = st.nodes[n].ino /\ v.buffer = st.nodes[n].buffer
                                               /\ v.writeClosed = st.nodes[n].writeClosed
              /\ GetCachedInode(st, i) = {} => C = AddCachedInode(st.cache, n) /\ v.ino = i
    <2>1. GetCachedInode(st, i) = {} => st.nodes[n].refs = 0
        OBVIOUS
    <2> QED BY <1>1, <2>1, NodeOpened, Zenon
<1>3. PICK w : w = NewFile("disk", n, FALSE)
    OBVIOUS
<1>4. w \in FileRecords /\ w.kind = "disk" /\ w.of = n /\ w.refs = 1
    BY <1>3 DEF NewFile, FileRecords
<1>5. PICK st1, st2 : st1 = WithNode(st, i, n) /\ st2 = [st1 EXCEPT !.files[f] = w]
    OBVIOUS
<1>6. st2 = VfsOpen(i, f, n)
    BY <1>3, <1>5 DEF VfsOpen
<1>7. Parts(st2, [st.files EXCEPT ![f] = w], [st.nodes EXCEPT ![n] = v], C, st.regions)
    <2>1. Parts(st1, st.files, [st.nodes EXCEPT ![n] = v], C, st.regions)
        BY <1>2, <1>5
    <2>2. st1 \in States
        BY <2>1 DEF Parts
    <2>3. Parts(st2, [st1.files EXCEPT ![f] = w], st1.nodes, st1.cache, st1.regions)
        BY <1>4, <1>5, <2>2, ItemSet, Zenon
    <2> QED BY <2>1, <2>3 DEF Parts
<1>8. Opens(st, st2, f, w)
    BY <1>4, <1>7 DEF Opens, Parts
<1>9. /\ CountsHold(st2, h, [l EXCEPT ![f] = 1]) /\ [l EXCEPT ![f] = 1] \in [FileIds -> Nat]
      /\ \A k : /\ Cardinality(FilesOfNode(st, k)) \in Nat
                /\ Cardinality(FilesOfNode(st2, k)) =
                     Cardinality(FilesOfNode(st, k)) + OneMore(w.kind \in {"disk", "pipe"} /\ w.of = k)
      /\ \A r : /\ Cardinality(FilesOfRegion(st, r)) \in Nat
                /\ Cardinality(FilesOfRegion(st2, r)) =
                     Cardinality(FilesOfRegion(st, r)) + OneMore(w.kind = "shm" /\ w.of = r)
    <2>1. maxFd \in Nat
        BY <1>1
    <2>2. Grown(st, st2, h, l, f, w)
        BY <1>1, <1>8, <2>1, FileAdded, Zenon
    <2> QED BY <2>2, Zenon DEF Grown
<1>10. /\ st2 \in States /\ st2.nodes[n] = v /\ \A k \in NodeIds \ {n} : st2.nodes[k] = st.nodes[k]
       /\ st2.regions = st.regions /\ st2.files[f] = w /\ \A g \in FileIds \ {f} : st2.files[g] = st.files[g]
    BY <1>1, <1>7 DEF Parts, States
<1>11. ASSUME NEW k \in NodeIds PROVE NodeCounted(st2, k)
    <2>1. NodeCounted(st, k)
        BY DEF Exact
    <2>2. CASE k = n
        <3>1. Cardinality(FilesOfNode(st2, n)) = Cardinality(FilesOfNode(st, n)) + 1
            BY <1>4, <1>9 DEF OneMore
        <3> QED BY <1>2, <1>10, <2>1, <2>2, <3>1 DEF NodeCounted
    <2>3. CASE k # n
        <3>1. OneMore(w.kind \in {"disk", "pipe"} /\ w.of = k) = 0
            BY <1>4, <2>3, Zenon DEF OneMore
        <3>2. Cardinality(FilesOfNode(st2, k)) = Cardinality(FilesOfNode(st, k))
            BY <1>9, <3>1
        <3> QED BY <1>10, <2>1, <2>3, <3>2 DEF NodeCounted
    <2> QED BY <2>2, <2>3
<1>12. ASSUME NEW r \in RegionIds PROVE RegionCounted(st2, m, r)
    <2>1. OneMore(w.kind = "shm" /\ w.of = r) = 0
        BY <1>4, Zenon DEF OneMore
    <2>2. Cardinality(FilesOfRegion(st2, r)) = Cardinality(FilesOfRegion(st, r))
        BY <1>9, <2>1
    <2>3. RegionCounted(st, m, r)
        BY DEF Exact
    <2> QED BY <1>10, <2>2, <2>3 DEF RegionCounted
<1>13. ASSUME NEW g \in FileIds PROVE FileNames(st2, g)
    <2>1. CASE g = f
        BY <1>4, <1>10, <2>1 DEF FileNames
    <2>2. CASE g # f
        <3>1. FileNames(st, g) /\ st2.files[g] = st.files[g]
            BY <1>10, <2>2 DEF Exact
        <3>2. ASSUME st.files[g].kind = "pipe", st.files[g].of = n PROVE st2.nodes[n].buffer
            <4>1. g \in FilesOfNode(st, n)
                BY <3>2 DEF FilesOfNode
            <4>2. Cardinality(FilesOfNode(st, n)) # 0
                <5>1. FilesOfNode(st, n) \subseteq FileIds
                    BY DEF FilesOfNode
                <5> QED BY <4>1, <5>1, FilesAreFinite, FS_EmptySet
            <4>3. st.nodes[n].refs # 0
                BY <4>2 DEF Exact, NodeCounted
            <4> QED BY <1>2, <1>10, <3>1, <3>2, <4>3 DEF FileNames
        <3> QED BY <1>10, <3>1, <3>2 DEF FileNames
    <2> QED BY <2>1, <2>2
<1> QED BY <1>1, <1>6, <1>9, <1>10, <1>11, <1>12, <1>13 DEF Exact, CountsHold

\* Sys_Dup2: a slot more is counted.
LEMMA CountIsExact ==
    ASSUME NEW st, NEW h, NEW l, NEW m, Exact(st, h, l, m), NEW f \in FileIds, st.files[f].kind # "none"
    PROVE  Exact([st EXCEPT !.files[f].refs = @ + 1], h, [l EXCEPT ![f] = @ + 1], m)
<1>1. /\ st \in States /\ h \in Tables /\ l \in [FileIds -> Nat] /\ m \in [RegionIds -> Nat]
      /\ maxFd \in Nat \ {0} /\ st.files[f] \in FileRecords
    BY DEF Exact, States
<1>2. PICK c \in Nat, k \in Nat, a \in Nat :
          c = Cardinality(SlotsOf(h, f)) /\ k = st.files[f].refs /\ a = l[f] /\ k = c + a
    <2>1. FileCounted(st, h, l, f)
        BY DEF Exact
    <2> QED BY <1>1, <2>1, SlotsAreFinite DEF FileRecords, FileCounted
<1>3. PICK st2, v, l2 : /\ st2 = [st EXCEPT !.files[f].refs = @ + 1] /\ v = [st.files[f] EXCEPT !.refs = k + 1]
                        /\ l2 = [l EXCEPT ![f] = @ + 1]
    OBVIOUS
<1>4. /\ v \in FileRecords /\ v.refs = k + 1 /\ v.kind = st.files[f].kind /\ v.of = st.files[f].of
      /\ l2 \in [FileIds -> Nat] /\ l2[f] = a + 1 /\ \A g \in FileIds \ {f} : l2[g] = l[g]
    <2>1. v \in FileRecords /\ v.refs = k + 1 /\ v.kind = st.files[f].kind /\ v.of = st.files[f].of
        BY <1>1, <1>2, <1>3 DEF FileRecords
    <2>2. l2 \in [FileIds -> Nat] /\ l2[f] = a + 1 /\ \A g \in FileIds \ {f} : l2[g] = l[g]
        <3>1. l2 = [l EXCEPT ![f] = a + 1] /\ a + 1 \in Nat
            BY <1>2, <1>3
        <3> QED BY ONLY <1>1, <3>1, f \in FileIds
    <2> QED BY <2>1, <2>2
<1>5. Parts(st2, [st.files EXCEPT ![f] = v], st.nodes, st.cache, st.regions)
    <2>1. Parts([st EXCEPT !.files[f] = v], [st.files EXCEPT ![f] = v], st.nodes, st.cache, st.regions)
        BY <1>1, <1>4, ItemSet, Zenon
    <2>2. st2 = [st EXCEPT !.files[f].refs = k + 1]
        BY <1>2, <1>3
    <2>3. st2 = [st EXCEPT !.files[f] = v]
        BY <1>3, <2>2
    <2> QED BY <2>1, <2>3, Zenon
<1>6. /\ st2 \in States /\ st2.files[f] = v /\ \A g \in FileIds \ {f} : st2.files[g] = st.files[g]
      /\ st2.nodes = st.nodes /\ st2.cache = st.cache /\ st2.regions = st.regions
    BY <1>1, <1>5 DEF Parts, States
<1>7. \A g \in FileIds : st2.files[g].kind = st.files[g].kind /\ st2.files[g].of = st.files[g].of
    BY <1>4, <1>6
<1>8. /\ \A n : FilesOfNode(st2, n) = FilesOfNode(st, n)
      /\ \A r : FilesOfRegion(st2, r) = FilesOfRegion(st, r)
    BY <1>7 DEF FilesOfNode, FilesOfRegion
<1>9. Held(st2, h)
    BY <1>1, <1>7 DEF Held, Exact, Tables
<1>10. FileCounted(st2, h, l2, f)
    <2>1. k + 1 = c + (a + 1) /\ k + 1 # 0
        BY <1>2
    <2> QED BY <1>2, <1>4, <1>6, <2>1 DEF FileCounted
<1>11. ASSUME NEW g \in FileIds, g # f PROVE FileCounted(st2, h, l2, g)
    BY <1>4, <1>6, <1>11 DEF FileCounted, Exact
<1>12. \A g \in FileIds : FileNames(st2, g)
    BY <1>6, <1>7 DEF FileNames, Exact
<1>13. (\A n \in NodeIds : NodeCounted(st2, n)) /\ \A r \in RegionIds : RegionCounted(st2, m, r)
    BY <1>6, <1>8 DEF NodeCounted, RegionCounted, Exact
<1> QED BY <1>1, <1>3, <1>4, <1>6, <1>9, <1>10, <1>11, <1>12, <1>13 DEF Exact

\* Sys_Pipe: one Inode and its two Files.
PipeNode == [ino |-> PipeIno, refs |-> 2, writeClosed |-> FALSE, buffer |-> TRUE]
PipeMade(st, r, w, n) ==
    [st EXCEPT !.nodes[n] = PipeNode, !.files[r] = NewFile("pipe", n, FALSE), !.files[w] = NewFile("pipe", n, TRUE)]

LEMMA PipeParts ==
    ASSUME NEW st \in States, NEW r \in FileIds, NEW w \in FileIds, NEW n \in NodeIds
    PROVE  \E st1 :
              /\ Parts(st1, [st.files EXCEPT ![r] = NewFile("pipe", n, FALSE)], [st.nodes EXCEPT ![n] = PipeNode],
                       st.cache, st.regions)
              /\ Parts(PipeMade(st, r, w, n), [st1.files EXCEPT ![w] = NewFile("pipe", n, TRUE)], st1.nodes,
                       st1.cache, st1.regions)
<1>1. PICK a, b : a = NewFile("pipe", n, FALSE) /\ b = NewFile("pipe", n, TRUE)
    OBVIOUS
<1>2. a \in FileRecords /\ b \in FileRecords
    BY <1>1 DEF NewFile, FileRecords
<1>3. PipeNode \in NodeRecords
    BY DEF PipeNode, NodeRecords
<1>4. PICK s0, s1, s2 : /\ s0 = [st EXCEPT !.nodes[n] = PipeNode] /\ s1 = [s0 EXCEPT !.files[r] = a]
                        /\ s2 = [s1 EXCEPT !.files[w] = b]
    OBVIOUS
<1>5. Parts(s0, st.files, [st.nodes EXCEPT ![n] = PipeNode], st.cache, st.regions)
    BY <1>3, <1>4, ItemSet, Zenon
<1>6. s0 \in States
    BY <1>5 DEF Parts
<1>7. Parts(s1, [s0.files EXCEPT ![r] = a], s0.nodes, s0.cache, s0.regions)
    BY <1>2, <1>4, <1>6, ItemSet, Zenon
<1>8. s1 \in States
    BY <1>7 DEF Parts
<1>9. Parts(s2, [s1.files EXCEPT ![w] = b], s1.nodes, s1.cache, s1.regions)
    BY <1>2, <1>4, <1>8, ItemSet, Zenon
<1>10. s2 = PipeMade(st, r, w, n)
    BY <1>1, <1>4 DEF PipeMade
<1>11. Parts(s1, [st.files EXCEPT ![r] = a], [st.nodes EXCEPT ![n] = PipeNode], st.cache, st.regions)
    BY <1>5, <1>7 DEF Parts
<1> QED BY <1>1, <1>9, <1>10, <1>11, Zenon

LEMMA PipeIsExact ==
    ASSUME NEW st, NEW h, NEW l, NEW m, Exact(st, h, l, m), NEW r \in FileIds, NEW w \in FileIds, r # w,
           NEW n \in NodeIds, st.files[r].kind = "none", st.files[w].kind = "none", st.nodes[n].refs = 0
    PROVE  Exact(PipeMade(st, r, w, n), h, [[l EXCEPT ![r] = 1] EXCEPT ![w] = 1], m)
<1>1. /\ st \in States /\ h \in Tables /\ l \in [FileIds -> Nat] /\ m \in [RegionIds -> Nat]
      /\ maxFd \in Nat /\ maxFd \in Nat \ {0} /\ CountsHold(st, h, l)
    BY DEF Exact, CountsHold
<1>2. PICK a, b, st2, l1, l2 : /\ a = NewFile("pipe", n, FALSE) /\ b = NewFile("pipe", n, TRUE)
                               /\ st2 = PipeMade(st, r, w, n)
                               /\ l1 = [l EXCEPT ![r] = 1] /\ l2 = [l1 EXCEPT ![w] = 1]
    OBVIOUS
<1>3. /\ a \in FileRecords /\ a.kind = "pipe" /\ a.of = n /\ a.refs = 1
      /\ b \in FileRecords /\ b.kind = "pipe" /\ b.of = n /\ b.refs = 1
    BY <1>2 DEF NewFile, FileRecords
<1>4. PICK st1 : /\ Parts(st1, [st.files EXCEPT ![r] = a], [st.nodes EXCEPT ![n] = PipeNode], st.cache, st.regions)
                 /\ Parts(st2, [st1.files EXCEPT ![w] = b], st1.nodes, st1.cache, st1.regions)
    BY <1>1, <1>2, PipeParts, Zenon
<1>5. Opens(st, st1, r, a)
    BY <1>3, <1>4 DEF Opens, Parts
<1>6. Grown(st, st1, h, l, r, a)
    BY <1>1, <1>5, FileAdded, Zenon
<1>7. /\ CountsHold(st1, h, l1) /\ l1 \in [FileIds -> Nat] /\ st1 \in States
    BY <1>2, <1>4, <1>6, Zenon DEF Grown, Parts
<1>8. Opens(st1, st2, w, b)
    <2>1. st1.files[w] = st.files[w]
        BY <1>1, <1>4 DEF Parts, States
    <2> QED BY <1>3, <1>4, <2>1 DEF Opens, Parts
<1>9. Grown(st1, st2, h, l1, w, b)
    BY <1>1, <1>7, <1>8, FileAdded, Zenon
<1>10. CountsHold(st2, h, l2) /\ l2 \in [FileIds -> Nat] /\ st2 \in States
    BY <1>2, <1>4, <1>9, Zenon DEF Grown, Parts
<1>11. /\ st2.nodes[n] = PipeNode /\ \A k \in NodeIds \ {n} : st2.nodes[k] = st.nodes[k]
       /\ st2.regions = st.regions /\ st2.files[r] = a /\ st2.files[w] = b
       /\ \A g \in FileIds \ {r, w} : st2.files[g] = st.files[g]
    BY <1>1, <1>4 DEF Parts, States
<1>12. ASSUME NEW k \in NodeIds PROVE NodeCounted(st2, k)
    <2>1. NodeCounted(st, k)
        BY DEF Exact
    <2>2. PICK x, y, z : /\ x = Cardinality(FilesOfNode(st, k)) /\ y = Cardinality(FilesOfNode(st1, k))
                         /\ z = Cardinality(FilesOfNode(st2, k))
        OBVIOUS
    <2>3. /\ x \in Nat /\ y = x + OneMore(a.kind \in {"disk", "pipe"} /\ a.of = k)
          /\ z = y + OneMore(b.kind \in {"disk", "pipe"} /\ b.of = k)
        BY <1>6, <1>9, <2>2, Zenon DEF Grown
    <2>4. CASE k = n
        <3>1. y = x + 1 /\ z = y + 1
            BY <1>3, <2>3, <2>4 DEF OneMore
        <3>2. x = 0
            BY <2>1, <2>2, <2>4 DEF NodeCounted
        <3>3. st2.nodes[k].refs = 2
            BY <1>11, <2>4 DEF PipeNode
        <3> QED BY <2>2, <3>1, <3>2, <3>3 DEF NodeCounted
    <2>5. CASE k # n
        <3>1. /\ OneMore(a.kind \in {"disk", "pipe"} /\ a.of = k) = 0
              /\ OneMore(b.kind \in {"disk", "pipe"} /\ b.of = k) = 0
            BY <1>3, <2>5, Zenon DEF OneMore
        <3>2. z = x
            BY <2>3, <3>1
        <3> QED BY <1>11, <2>1, <2>2, <2>5, <3>2 DEF NodeCounted
    <2> QED BY <2>4, <2>5
<1>13. ASSUME NEW k \in RegionIds PROVE RegionCounted(st2, m, k)
    <2>1. RegionCounted(st, m, k)
        BY DEF Exact
    <2>2. PICK x, y, z : /\ x = Cardinality(FilesOfRegion(st, k)) /\ y = Cardinality(FilesOfRegion(st1, k))
                         /\ z = Cardinality(FilesOfRegion(st2, k))
        OBVIOUS
    <2>3. /\ x \in Nat /\ y = x + OneMore(a.kind = "shm" /\ a.of = k)
          /\ z = y + OneMore(b.kind = "shm" /\ b.of = k)
        BY <1>6, <1>9, <2>2, Zenon DEF Grown
    <2>4. OneMore(a.kind = "shm" /\ a.of = k) = 0 /\ OneMore(b.kind = "shm" /\ b.of = k) = 0
        BY <1>3, Zenon DEF OneMore
    <2>5. z = x
        BY <2>3, <2>4
    <2> QED BY <1>11, <2>1, <2>2, <2>5 DEF RegionCounted
<1>14. ASSUME NEW g \in FileIds PROVE FileNames(st2, g)
    <2>0. st2.nodes[n].buffer
        BY <1>11 DEF PipeNode
    <2>1. CASE g \in {r, w}
        BY <1>3, <1>11, <2>0, <2>1 DEF FileNames
    <2>2. CASE g \notin {r, w}
        <3>1. FileNames(st, g) /\ st2.files[g] = st.files[g]
            BY <1>11, <2>2 DEF Exact
        <3> QED BY <1>11, <2>0, <3>1 DEF FileNames
    <2> QED BY <2>1, <2>2
<1> QED BY <1>1, <1>2, <1>10, <1>12, <1>13, <1>14 DEF Exact, CountsHold

\* SharedMemoryManager::Open and the File that Sys_ShmOpen gives the region.
ShmMade(st, name, r, f) ==
    [st EXCEPT !.regions[r] = [name |-> name, refs |-> @.refs + 1], !.files[f] = NewFile("shm", r, FALSE)]

LEMMA RegionParts ==
    ASSUME NEW st \in States, NEW name \in Names, NEW r \in RegionIds, NEW f \in FileIds, NEW v \in FileRecords
    PROVE  \E o : /\ o \in RegionRecords /\ o.name = name /\ o.refs = st.regions[r].refs + 1 /\ o.refs # 0
                  /\ Parts([st EXCEPT !.regions[r] = [name |-> name, refs |-> @.refs + 1], !.files[f] = v],
                           [st.files EXCEPT ![f] = v], st.nodes, st.cache, [st.regions EXCEPT ![r] = o])
<1>1. st.regions[r] \in RegionRecords
    BY DEF States
<1>2. PICK o : o = [name |-> name, refs |-> st.regions[r].refs + 1]
    OBVIOUS
<1>3. o \in RegionRecords /\ o.name = name /\ o.refs = st.regions[r].refs + 1 /\ o.refs # 0
    BY <1>1, <1>2 DEF RegionRecords
<1>4. PICK s1, s2 : s1 = [st EXCEPT !.regions[r] = o] /\ s2 = [s1 EXCEPT !.files[f] = v]
    OBVIOUS
<1>5. s2 = [st EXCEPT !.regions[r] = [name |-> name, refs |-> @.refs + 1], !.files[f] = v]
    BY <1>2, <1>4
<1>6. Parts(s1, st.files, st.nodes, st.cache, [st.regions EXCEPT ![r] = o])
    BY <1>3, <1>4, ItemSet, Zenon
<1>7. s1 \in States
    BY <1>6 DEF Parts
<1>8. Parts(s2, [s1.files EXCEPT ![f] = v], s1.nodes, s1.cache, s1.regions)
    BY <1>4, <1>7, ItemSet, Zenon
<1>9. Parts(s2, [st.files EXCEPT ![f] = v], st.nodes, st.cache, [st.regions EXCEPT ![r] = o])
    BY <1>6, <1>8 DEF Parts
<1> QED BY <1>3, <1>5, <1>9, Zenon

LEMMA ShmIsExact ==
    ASSUME NEW st, NEW h, NEW l, NEW m, Exact(st, h, l, m), NEW name \in Names, NEW r \in RegionIds,
           NEW f \in FileIds, st.files[f].kind = "none"
    PROVE  Exact(ShmMade(st, name, r, f), h, [l EXCEPT ![f] = 1], m)
<1>1. /\ st \in States /\ h \in Tables /\ l \in [FileIds -> Nat] /\ m \in [RegionIds -> Nat]
      /\ maxFd \in Nat /\ maxFd \in Nat \ {0} /\ CountsHold(st, h, l)
    BY DEF Exact, CountsHold
<1>2. PICK v, st2, l2 : v = NewFile("shm", r, FALSE) /\ st2 = ShmMade(st, name, r, f) /\ l2 = [l EXCEPT ![f] = 1]
    OBVIOUS
<1>3. v \in FileRecords /\ v.kind = "shm" /\ v.of = r /\ v.refs = 1
    BY <1>2 DEF NewFile, FileRecords
<1>4. PICK o : /\ o \in RegionRecords /\ o.name = name /\ o.refs = st.regions[r].refs + 1 /\ o.refs # 0
               /\ Parts(st2, [st.files EXCEPT ![f] = v], st.nodes, st.cache, [st.regions EXCEPT ![r] = o])
    <2>1. st2 = [st EXCEPT !.regions[r] = [name |-> name, refs |-> @.refs + 1], !.files[f] = v]
        BY <1>2, Zenon DEF ShmMade
    <2> QED BY <1>1, <1>3, <2>1, RegionParts, Zenon
<1>5. Opens(st, st2, f, v)
    BY <1>3, <1>4 DEF Opens, Parts
<1>6. Grown(st, st2, h, l, f, v)
    BY <1>1, <1>5, FileAdded, Zenon
<1>7. CountsHold(st2, h, l2) /\ l2 \in [FileIds -> Nat] /\ st2 \in States
    BY <1>2, <1>4, <1>6, Zenon DEF Grown, Parts
<1>8. /\ st2.regions[r] = o /\ \A q \in RegionIds \ {r} : st2.regions[q] = st.regions[q]
      /\ st2.nodes = st.nodes /\ st2.files[f] = v /\ \A g \in FileIds \ {f} : st2.files[g] = st.files[g]
    BY <1>1, <1>4 DEF Parts, States
<1>9. ASSUME NEW k \in NodeIds PROVE NodeCounted(st2, k)
    <2>1. OneMore(v.kind \in {"disk", "pipe"} /\ v.of = k) = 0
        BY <1>3, Zenon DEF OneMore
    <2>2. Cardinality(FilesOfNode(st2, k)) = Cardinality(FilesOfNode(st, k))
        BY <1>6, <2>1 DEF Grown
    <2>3. NodeCounted(st, k)
        BY DEF Exact
    <2> QED BY <1>8, <2>2, <2>3 DEF NodeCounted
<1>10. ASSUME NEW q \in RegionIds PROVE RegionCounted(st2, m, q)
    <2>1. RegionCounted(st, m, q)
        BY DEF Exact
    <2>2. PICK x, y : x = Cardinality(FilesOfRegion(st, q)) /\ y = Cardinality(FilesOfRegion(st2, q))
        OBVIOUS
    <2>3. x \in Nat /\ y = x + OneMore(v.kind = "shm" /\ v.of = q)
        BY <1>6, <2>2, Zenon DEF Grown
    <2>4. CASE q = r
        <3>1. y = x + 1
            BY <1>3, <2>3, <2>4 DEF OneMore
        <3>2. o.refs = (m[r] + x) + 1 /\ m[r] \in Nat /\ o.name # NoName
            BY <1>1, <1>4, <2>1, <2>2, <2>4, FilesAssumption DEF RegionCounted
        <3>3. o.refs = m[r] + y
            BY <2>3, <3>1, <3>2
        <3> QED BY <1>4, <1>8, <2>2, <2>4, <3>2, <3>3 DEF RegionCounted
    <2>5. CASE q # r
        <3>1. OneMore(v.kind = "shm" /\ v.of = q) = 0
            BY <1>3, <2>5, Zenon DEF OneMore
        <3>2. y = x
            BY <2>3, <3>1
        <3> QED BY <1>8, <2>1, <2>2, <2>5, <3>2 DEF RegionCounted
    <2> QED BY <2>4, <2>5
<1>11. ASSUME NEW g \in FileIds PROVE FileNames(st2, g)
    <2>1. CASE g = f
        BY <1>3, <1>8, <2>1 DEF FileNames
    <2>2. CASE g # f
        <3>1. FileNames(st, g) /\ st2.files[g] = st.files[g]
            BY <1>8, <2>2 DEF Exact
        <3> QED BY <1>8, <3>1 DEF FileNames
    <2> QED BY <2>1, <2>2
<1> QED BY <1>1, <1>2, <1>7, <1>9, <1>10, <1>11 DEF Exact, CountsHold

\* Without a slot the File is deleted and the region keeps its reference.
LEMMA ForgottenIsExact ==
    ASSUME NEW st, NEW h, NEW l, NEW m, Exact(st, h, l, m), NEW name \in Names, NEW r \in RegionIds,
           NEW f \in FileIds, st.files[f].kind = "none"
    PROVE  Exact([ShmMade(st, name, r, f) EXCEPT !.files[f] = FreeFile], h, l, [m EXCEPT ![r] = @ + 1])
<1>1. /\ st \in States /\ h \in Tables /\ l \in [FileIds -> Nat] /\ m \in [RegionIds -> Nat]
      /\ maxFd \in Nat \ {0} /\ Held(st, h)
    BY DEF Exact
<1>2. PICK v, st1, st2, m2 : /\ v = NewFile("shm", r, FALSE) /\ st1 = ShmMade(st, name, r, f)
                             /\ st2 = [st1 EXCEPT !.files[f] = FreeFile] /\ m2 = [m EXCEPT ![r] = @ + 1]
    OBVIOUS
<1>3. v \in FileRecords
    BY <1>2 DEF NewFile, FileRecords
<1>4. PICK o : /\ o \in RegionRecords /\ o.name = name /\ o.refs = st.regions[r].refs + 1 /\ o.refs # 0
               /\ Parts(st1, [st.files EXCEPT ![f] = v], st.nodes, st.cache, [st.regions EXCEPT ![r] = o])
    <2>1. st1 = [st EXCEPT !.regions[r] = [name |-> name, refs |-> @.refs + 1], !.files[f] = v]
        BY <1>2, Zenon DEF ShmMade
    <2> QED BY <1>1, <1>3, <2>1, RegionParts, Zenon
<1>5. st1 \in States
    BY <1>4 DEF Parts
<1>6. Parts(st2, [st1.files EXCEPT ![f] = FreeFile], st1.nodes, st1.cache, st1.regions)
    BY <1>2, <1>5, FreeOnes, ItemSet, Zenon
<1>7. /\ st2 \in States /\ st2.nodes = st.nodes /\ st2.files[f] = FreeFile
      /\ \A g \in FileIds \ {f} : st2.files[g] = st.files[g]
      /\ st2.regions[r] = o /\ \A q \in RegionIds \ {r} : st2.regions[q] = st.regions[q]
    BY <1>1, <1>4, <1>6 DEF Parts, States
<1>8. st2.files[f].kind = "none"
    BY <1>7 DEF FreeFile
<1>9. /\ \A n : FilesOfNode(st2, n) = FilesOfNode(st, n)
      /\ \A q : FilesOfRegion(st2, q) = FilesOfRegion(st, q)
    BY <1>7, <1>8 DEF FilesOfNode, FilesOfRegion
<1>10. Held(st2, h)
    BY <1>1, <1>7 DEF Held, Tables
<1>11. ASSUME NEW g \in FileIds PROVE FileCounted(st2, h, l, g) /\ FileNames(st2, g)
    <2>1. FileCounted(st, h, l, g) /\ FileNames(st, g)
        BY DEF Exact
    <2>2. CASE g = f
        BY <1>8, <2>1, <2>2 DEF FileCounted, FileNames
    <2>3. CASE g # f
        BY <1>7, <2>1, <2>3 DEF FileCounted, FileNames
    <2> QED BY <2>2, <2>3
<1>12. \A n \in NodeIds : NodeCounted(st2, n)
    BY <1>7, <1>9 DEF NodeCounted, Exact
<1>13. m2 \in [RegionIds -> Nat] /\ m2[r] = m[r] + 1 /\ \A q \in RegionIds \ {r} : m2[q] = m[q]
    BY <1>1, <1>2
<1>14. ASSUME NEW q \in RegionIds PROVE RegionCounted(st2, m2, q)
    <2>1. RegionCounted(st, m, q)
        BY DEF Exact
    <2>2. CASE q = r
        <3>1. PICK x : x = Cardinality(FilesOfRegion(st, r))
            OBVIOUS
        <3>2. x \in Nat
            <4>1. FilesOfRegion(st, r) \subseteq FileIds
                BY DEF FilesOfRegion
            <4> QED BY <3>1, <4>1, FilesAreFinite
        <3>3. o.refs = (m[r] + x) + 1 /\ m[r] \in Nat /\ o.name # NoName
            BY <1>1, <1>4, <2>1, <2>2, <3>1, FilesAssumption DEF RegionCounted
        <3>4. o.refs = m2[r] + x
            BY <1>13, <3>2, <3>3
        <3> QED BY <1>4, <1>7, <1>9, <2>2, <3>1, <3>3, <3>4 DEF RegionCounted
    <2>3. CASE q # r
        BY <1>7, <1>9, <1>13, <2>1, <2>3 DEF RegionCounted
    <2> QED BY <2>2, <2>3
<1> QED BY <1>1, <1>2, <1>7, <1>10, <1>11, <1>12, <1>13, <1>14 DEF Exact

-----------------------------------------------------------------------------
\* Sys_Fork: every slot of the table is counted once more, ...
LEMMA NamingIsNatural ==
    ASSUME NEW t, NEW f, maxFd \in Nat
    PROVE  IsFiniteSet({s \in FdNums : fds[t][s] = f}) /\ Naming(t, f) \in Nat
<1>1. IsFiniteSet(FdNums)
    BY FS_Interval DEF FdNums
<1>2. {s \in FdNums : fds[t][s] = f} \in SUBSET FdNums
    OBVIOUS
<1>3. IsFiniteSet({s \in FdNums : fds[t][s] = f})
    BY <1>1, <1>2, FS_Subset
<1> QED BY <1>3, FS_CardinalityType DEF Naming

LEMMA SharedIsExact ==
    ASSUME NEW l, NEW m, Exact(Now, fds, l, m), NEW t \in Users
    PROVE  Exact([Now EXCEPT !.files = Shared(t)], fds, [f \in FileIds |-> l[f] + Naming(t, f)], m)
<1>0. PICK st, h : st = Now /\ h = fds
    OBVIOUS
<1>1. /\ st \in States /\ h \in Tables /\ l \in [FileIds -> Nat] /\ m \in [RegionIds -> Nat]
      /\ maxFd \in Nat /\ maxFd \in Nat \ {0} /\ Exact(st, h, l, m) /\ st.files = files
    BY <1>0 DEF Exact, Now
<1>2. PICK st2, l2, F : /\ F = Shared(t) /\ st2 = [st EXCEPT !.files = F]
                        /\ l2 = [f \in FileIds |-> l[f] + Naming(t, f)]
    OBVIOUS
<1>3. ASSUME NEW f \in FileIds
      PROVE  /\ F[f] \in FileRecords /\ F[f].refs = st.files[f].refs + Naming(t, f)
             /\ F[f].kind = st.files[f].kind /\ F[f].of = st.files[f].of /\ F[f].writes = st.files[f].writes
    <2>1. PICK v, k : v = st.files[f] /\ k = v.refs + Naming(t, f)
        OBVIOUS
    <2>2. Naming(t, f) \in Nat /\ v \in FileRecords
        BY <1>1, <2>1, NamingIsNatural DEF States
    <2>3. k \in Nat
        BY <2>1, <2>2 DEF FileRecords
    <2>4. F[f] = [v EXCEPT !.refs = k]
        BY <1>1, <1>2, <2>1 DEF Shared
    <2>5. F[f] \in FileRecords /\ F[f].refs = k /\ F[f].kind = v.kind /\ F[f].of = v.of /\ F[f].writes = v.writes
        BY ONLY <2>2, <2>3, <2>4 DEF FileRecords
    <2> QED BY <2>1, <2>5
<1>4. F \in [FileIds -> FileRecords]
    <2>1. F = [f \in FileIds |-> F[f]]
        BY <1>2 DEF Shared
    <2> QED BY <1>3, <2>1, Zenon
<1>5. Parts(st2, F, st.nodes, st.cache, st.regions)
    BY <1>1, <1>2, <1>4, FieldSet, Zenon
<1>6. st2 \in States /\ st2.files = F /\ st2.nodes = st.nodes /\ st2.regions = st.regions
    BY <1>5 DEF Parts
<1>7. /\ \A n : FilesOfNode(st2, n) = FilesOfNode(st, n)
      /\ \A r : FilesOfRegion(st2, r) = FilesOfRegion(st, r)
    BY <1>3, <1>6 DEF FilesOfNode, FilesOfRegion
<1>8. l2 \in [FileIds -> Nat] /\ \A f \in FileIds : l2[f] = l[f] + Naming(t, f)
    <2>1. \A f \in FileIds : Naming(t, f) \in Nat
        BY <1>1, NamingIsNatural
    <2> QED BY <1>1, <1>2, <2>1
<1>9. Held(st2, h)
    BY <1>1, <1>3, <1>6 DEF Held, Tables, Exact
<1>10. ASSUME NEW f \in FileIds PROVE FileCounted(st2, h, l2, f)
    <2>1. FileCounted(st, h, l, f)
        BY <1>1 DEF Exact
    <2>2. PICK k : k = Naming(t, f)
        OBVIOUS
    <2>3. k \in Nat /\ l2[f] = l[f] + k /\ st2.files[f].refs = st.files[f].refs + k
          /\ st2.files[f].kind = st.files[f].kind
        BY <1>1, <1>3, <1>6, <1>8, <2>2, NamingIsNatural
    <2>4. CASE st.files[f].kind = "none"
        <3>1. {s \in FdNums : fds[t][s] = f} = {}
            BY <1>0, <1>1, <2>4, FilesAssumption DEF Exact, Held
        <3>2. k = 0
            BY <2>2, <3>1, FS_EmptySet DEF Naming
        <3> QED BY <2>1, <2>3, <2>4, <3>2 DEF FileCounted
    <2>5. CASE st.files[f].kind # "none"
        <3>1. PICK c, a, x : c = Cardinality(SlotsOf(h, f)) /\ a = l[f] /\ x = st.files[f].refs
            OBVIOUS
        <3>2. c \in Nat /\ a \in Nat /\ x = c + a /\ x # 0
            BY <1>1, <2>1, <2>5, <3>1, SlotsAreFinite DEF FileCounted
        <3>3. x + k = c + (a + k) /\ x + k # 0
            BY <2>3, <3>2
        <3> QED BY <2>3, <2>5, <3>1, <3>3 DEF FileCounted
    <2> QED BY <2>4, <2>5
<1>11. \A f \in FileIds : FileNames(st2, f)
    BY <1>1, <1>3, <1>6 DEF FileNames, Exact
<1>12. (\A n \in NodeIds : NodeCounted(st2, n)) /\ \A r \in RegionIds : RegionCounted(st2, m, r)
    BY <1>1, <1>6, <1>7 DEF NodeCounted, RegionCounted, Exact
<1>13. Exact(st2, h, l2, m)
    BY <1>1, <1>6, <1>8, <1>9, <1>10, <1>11, <1>12 DEF Exact
<1> QED BY <1>0, <1>2, <1>13

\* ... and the copy takes what was counted.
LEMMA ForkedIsExact ==
    ASSUME NEW st, NEW l \in [FileIds -> Nat], NEW m, NEW t \in Users, NEW u \in Users,
           Exact(st, fds, [f \in FileIds |-> l[f] + Naming(t, f)], m), \A s \in FdNums : fds[u][s] = Null
    PROVE  Exact(st, [fds EXCEPT ![u] = fds[t]], l, m)
<1>0. PICK h, h2, l1 : /\ h = fds /\ h2 = [fds EXCEPT ![u] = fds[t]]
                       /\ l1 = [f \in FileIds |-> l[f] + Naming(t, f)]
    OBVIOUS
<1>1. /\ st \in States /\ h \in Tables /\ m \in [RegionIds -> Nat]
      /\ maxFd \in Nat /\ maxFd \in Nat \ {0} /\ Exact(st, h, l1, m)
    BY <1>0 DEF Exact
<1>2. h2 \in Tables /\ h2[u] = h[t] /\ \A x \in Users \ {u} : h2[x] = h[x]
    BY <1>0, <1>1 DEF Tables
<1>3. Held(st, h2)
    BY <1>1, <1>2 DEF Held, Exact
<1>4. ASSUME NEW f \in FileIds PROVE FileCounted(st, h2, l, f)
    <2>1. FileCounted(st, h, l1, f)
        BY <1>1 DEF Exact
    <2>2. PICK S, k, c : S = {s \in FdNums : h[t][s] = f} /\ k = Cardinality(S) /\ c = Cardinality(SlotsOf(h, f))
        OBVIOUS
    <2>3. IsFiniteSet(S) /\ k \in Nat /\ k = Naming(t, f)
        <3>1. k = Naming(t, f)
            BY <1>0, <2>2 DEF Naming
        <3> QED BY <1>0, <1>1, <2>2, <3>1, NamingIsNatural
    <2>4. l1[f] = l[f] + k
        BY <1>0, <2>3
    <2>5. SlotsOf(h2, f) = SlotsOf(h, f) \cup ({u} \X S) /\ SlotsOf(h, f) \cap ({u} \X S) = {}
        <3>0. f # Null
            BY FilesAssumption
        <3>1. ASSUME NEW x \in Users \X FdNums
              PROVE  /\ h2[x[1]][x[2]] = f <=> (h[x[1]][x[2]] = f \/ x \in {u} \X S)
                     /\ ~(h[x[1]][x[2]] = f /\ x \in {u} \X S)
            <4>1. x[1] \in Users /\ x[2] \in FdNums /\ (x \in {u} \X S <=> x[1] = u /\ x[2] \in S)
                OBVIOUS
            <4>2. CASE x[1] = u
                <5>1. h[x[1]][x[2]] = Null
                    BY <1>0, <4>1, <4>2
                <5>2. h2[x[1]][x[2]] = f <=> x[2] \in S
                    BY <1>2, <2>2, <4>1, <4>2
                <5> QED BY <3>0, <4>1, <4>2, <5>1, <5>2
            <4>3. CASE x[1] # u
                BY <1>2, <4>1, <4>3
            <4> QED BY <4>2, <4>3
        <3>2. {u} \X S \subseteq Users \X FdNums
            BY <2>2
        <3> QED BY <3>1, <3>2 DEF SlotsOf
    <2>6. Cardinality(SlotsOf(h2, f)) = c + k
        <3>1. IsFiniteSet({u} \X S) /\ Cardinality({u} \X S) = 1 * k
            <4>1. IsFiniteSet({u}) /\ Cardinality({u}) = 1
                BY FS_Singleton, Zenon
            <4>2. IsFiniteSet({u} \X S) /\ Cardinality({u} \X S) = Cardinality({u}) * Cardinality(S)
                BY <2>3, <4>1, FS_Product, Zenon
            <4> QED BY <2>2, <4>1, <4>2
        <3>2. IsFiniteSet(SlotsOf(h, f)) /\ c \in Nat
            BY <1>1, <2>2, SlotsAreFinite
        <3>3. Cardinality(SlotsOf(h, f) \cup ({u} \X S)) =
                 Cardinality(SlotsOf(h, f)) + Cardinality({u} \X S) - Cardinality(SlotsOf(h, f) \cap ({u} \X S))
            BY <3>1, <3>2, FS_Union
        <3>4. Cardinality(SlotsOf(h, f) \cap ({u} \X S)) = 0
            BY <2>5, FS_EmptySet
        <3>5. PICK d : d = Cardinality(SlotsOf(h2, f))
            OBVIOUS
        <3>6. d = c + (1 * k) - 0
            BY <2>2, <2>5, <3>1, <3>3, <3>4, <3>5
        <3>7. d = c + k
            BY ONLY <2>3, <3>2, <3>6
        <3> QED BY <3>5, <3>7
    <2>7. c \in Nat /\ l[f] \in Nat
        BY <1>1, <2>2, SlotsAreFinite
    <2>8. CASE st.files[f].kind = "none"
        <3>1. l[f] = 0
            BY <2>1, <2>3, <2>4, <2>7, <2>8 DEF FileCounted
        <3> QED BY <2>8, <3>1 DEF FileCounted
    <2>9. CASE st.files[f].kind # "none"
        <3>1. st.files[f].refs = c + (l[f] + k) /\ st.files[f].refs # 0
            BY <2>1, <2>2, <2>4, <2>9 DEF FileCounted
        <3>2. st.files[f].refs = (c + k) + l[f]
            BY <2>3, <2>7, <3>1
        <3> QED BY <2>6, <2>9, <3>1, <3>2 DEF FileCounted
    <2> QED BY <2>8, <2>9
<1>5. Exact(st, h2, l, m)
    BY <1>1, <1>2, <1>3, <1>4 DEF Exact
<1> QED BY <1>0, <1>5

-----------------------------------------------------------------------------
\* A reference on its way from one holder to another.
LEMMA TokenBack ==
    ASSUME NEW l \in [FileIds -> Nat], NEW f \in FileIds
    PROVE  /\ [l EXCEPT ![f] = @ + 1][f] # 0 /\ [[l EXCEPT ![f] = @ + 1] EXCEPT ![f] = @ - 1] = l
           /\ [l EXCEPT ![f] = 1][f] # 0
           /\ l[f] = 0 => [[l EXCEPT ![f] = 1] EXCEPT ![f] = @ - 1] = l
<1>1. PICK a \in Nat : a = l[f]
    OBVIOUS
<1>2. (a + 1) - 1 = a /\ a + 1 # 0 /\ 1 - 1 = 0
    OBVIOUS
<1>3. PICK p, q : p = [l EXCEPT ![f] = @ + 1] /\ q = [l EXCEPT ![f] = 1]
    OBVIOUS
<1>4. /\ p \in [FileIds -> Nat] /\ p[f] = a + 1 /\ \A g \in FileIds \ {f} : p[g] = l[g]
      /\ q \in [FileIds -> Nat] /\ q[f] = 1 /\ \A g \in FileIds \ {f} : q[g] = l[g]
    BY <1>1, <1>3
<1>5. [p EXCEPT ![f] = @ - 1] = l
    BY <1>1, <1>2, <1>4
<1>6. a = 0 => [q EXCEPT ![f] = @ - 1] = l
    BY <1>1, <1>2, <1>4
<1> QED BY <1>1, <1>2, <1>3, <1>4, <1>5, <1>6

LEMMA SlotCloses ==
    ASSUME NEW st, NEW h, NEW l, NEW m, Exact(st, h, l, m), NEW t \in Users, NEW s \in FdNums,
           NEW f \in FileIds, h[t][s] = f
    PROVE  /\ Exact(Drop(st, f), [h EXCEPT ![t][s] = Null], l, m)
           /\ Exact(VfsClose(st, f), [h EXCEPT ![t][s] = Null], l, m)
<1>1. PICK h2, l2 : h2 = [h EXCEPT ![t][s] = Null] /\ l2 = [l EXCEPT ![f] = @ + 1]
    OBVIOUS
<1>2. Exact(st, h2, l2, m)
    BY <1>1, SlotLeft, Zenon
<1>3. l2[f] # 0 /\ [l2 EXCEPT ![f] = @ - 1] = l
    BY <1>1, TokenBack DEF Exact
<1>4. /\ Exact(Drop(st, f), h2, [l2 EXCEPT ![f] = @ - 1], m)
      /\ Exact(VfsClose(st, f), h2, [l2 EXCEPT ![f] = @ - 1], m)
    BY <1>2, <1>3, ClosesExactly, Zenon
<1> QED BY <1>1, <1>3, <1>4

\* A new File goes into a free slot.
LEMMA SlotOpens ==
    ASSUME NEW st, NEW h, NEW l \in [FileIds -> Nat], NEW m, NEW f \in FileIds, NEW l2,
           (l2 = [l EXCEPT ![f] = 1] /\ l[f] = 0) \/ l2 = [l EXCEPT ![f] = @ + 1],
           Exact(st, h, l2, m), NEW t \in Users, NEW s \in FdNums, h[t][s] = Null
    PROVE  Exact(st, [h EXCEPT ![t][s] = f], l, m)
<1>1. l2[f] # 0 /\ [l2 EXCEPT ![f] = @ - 1] = l
    BY TokenBack
<1>2. Exact(st, [h EXCEPT ![t][s] = f], [l2 EXCEPT ![f] = @ - 1], m)
    BY <1>1, SlotTaken, Zenon
<1> QED BY <1>1, <1>2

LEMMA Becomes ==
    ASSUME NEW st, NEW h, NEW l, NEW m, Exact(st, h, l, m),
           Become(st), fds' = h, lost' = l, lostRegion' = m, maxFd' = maxFd
    PROVE  Exact(Now, fds, lost, lostRegion)'
<1>1. Now' = st
    BY DEF Exact, States, Become, Now
<1>2. FdNums' = FdNums
    BY DEF FdNums
<1>3. Tables' = Tables
    BY <1>2 DEF Tables
<1>4. Held(Now, fds)'
    BY <1>1, <1>2 DEF Exact, Held
<1>5. ASSUME NEW f PROVE SlotsOf(fds, f)' = SlotsOf(h, f)
    BY <1>2 DEF SlotsOf
<1>6. ASSUME NEW f \in FileIds PROVE FileCounted(Now, fds, lost, f)' /\ FileNames(Now, f)'
    <2>1. FileCounted(st, h, l, f) /\ FileNames(st, f)
        BY DEF Exact
    <2>2. FileCounted(Now, fds, lost, f)'
        BY <1>1, <1>5, <2>1 DEF FileCounted
    <2>3. FileNames(Now, f)'
        BY <1>1, <2>1 DEF FileNames
    <2> QED BY <2>2, <2>3
<1>7. ASSUME NEW n \in NodeIds PROVE NodeCounted(Now, n)'
    <2>1. NodeCounted(st, n)
        BY DEF Exact
    <2> QED BY <1>1, <2>1 DEF NodeCounted, FilesOfNode
<1>8. ASSUME NEW r \in RegionIds PROVE RegionCounted(Now, lostRegion, r)'
    <2>1. RegionCounted(st, m, r)
        BY DEF Exact
    <2> QED BY <1>1, <2>1 DEF RegionCounted, FilesOfRegion
<1> QED BY <1>1, <1>3, <1>4, <1>6, <1>7, <1>8 DEF Exact

\* The allocator returns an object that is unused.
LEMMA OneOfThem == ASSUME NEW S, NEW x \in OneOf(S) PROVE x \in S
<1>1. S # {} /\ x = CHOOSE y \in S : TRUE
    BY DEF OneOf
<1> QED BY <1>1

LEMMA FreeSlot ==
    ASSUME NEW t, NEW S, S \subseteq FdNums, maxFd \in Nat, S # {}
    PROVE  Min(S) \in S
<1>1. S \subseteq Nat
    BY DEF FdNums
<1> QED BY <1>1, LeastMember

-----------------------------------------------------------------------------
\* The counts are exact, and a task that is not running has no descriptor.
FileInv ==
    /\ Exact(Now, fds, lost, lostRegion)
    /\ running \subseteq Users
    /\ \A t \in Users \ running, s \in FdNums : fds[t][s] = Null

LEMMA OpenStep ==
    ASSUME FileInv, NEW t \in Users, NEW i \in Inodes, NEW f \in FileIds, NEW n \in NodeIds,
           f \in OneOf(UnusedFiles(Now)), n \in NodesFor(i)
    PROVE  Exact(VfsOpen(i, f, n), fds, [lost EXCEPT ![f] = 1], lostRegion) /\ lost[f] = 0
<1>1. Exact(Now, fds, lost, lostRegion)
    BY DEF FileInv
<1>2. Now.files[f].kind = "none"
    <2>1. f \in UnusedFiles(Now)
        BY OneOfThem
    <2> QED BY <2>1 DEF UnusedFiles
<1>3. ASSUME GetCachedInode(Now, i) = {} PROVE Now.nodes[n].refs = 0
    <2>1. n \in OneOf(UnusedNodes(Now))
        BY <1>3, Zenon DEF NodesFor
    <2>2. n \in UnusedNodes(Now)
        BY <2>1, OneOfThem
    <2> QED BY <2>2 DEF UnusedNodes
<1>4. Exact(VfsOpen(i, f, n), fds, [lost EXCEPT ![f] = 1], lostRegion)
    BY <1>1, <1>2, <1>3, OpenIsExact, Zenon
<1>5. lost[f] = 0
    BY <1>1, <1>2 DEF Exact, FileCounted
<1> QED BY <1>4, <1>5

\* What does not hand out a descriptor to a task that is not running.
LEMMA OthersKeepNone ==
    ASSUME FileInv, maxFd' = maxFd, NEW t \in running, running \subseteq running', running' \subseteq Users,
           NEW H, fds' = [fds EXCEPT ![t] = H]
    PROVE  \A u \in Users \ running', s \in FdNums' : fds'[u][s] = Null
BY DEF FileInv, FdNums, Exact, Tables

LEMMA OneSlot ==
    ASSUME NEW h \in Tables, NEW t \in Users, NEW s \in FdNums, NEW v
    PROVE  \E H : [h EXCEPT ![t][s] = v] = [h EXCEPT ![t] = H]
BY DEF Tables

LEMMA OpenKeeps ==
    ASSUME FileInv, maxFd' = maxFd, NEW t \in Users, NEW i \in Inodes, NEW f \in FileIds, NEW n \in NodeIds,
           Sys_Open(t, i, f, n)
    PROVE  FileInv'
<1>1. /\ t \in running /\ f \in OneOf(UnusedFiles(Now)) /\ n \in NodesFor(i)
      /\ running' = running /\ lost' = lost /\ lostRegion' = lostRegion
    BY DEF Sys_Open
<1>2. PICK st, l2 : st = VfsOpen(i, f, n) /\ l2 = [lost EXCEPT ![f] = 1]
    OBVIOUS
<1>3. Exact(st, fds, l2, lostRegion) /\ lost[f] = 0
    BY <1>1, <1>2, OpenStep, Zenon
<1>4. lost \in [FileIds -> Nat] /\ maxFd \in Nat /\ fds \in Tables /\ running \subseteq Users
    BY DEF FileInv, Exact
<1>5. CASE Empty(t) # {}
    <2>1. PICK s : s = FirstFd(t)
        OBVIOUS
    <2>2. s \in FdNums /\ fds[t][s] = Null
        <3>1. Empty(t) \subseteq FdNums
            BY DEF Empty
        <3>2. s \in Empty(t)
            BY <1>4, <1>5, <2>1, <3>1, FreeSlot DEF FirstFd
        <3> QED BY <3>2 DEF Empty
    <2>3. Become(st) /\ fds' = [fds EXCEPT ![t][s] = f]
        BY <1>2, <1>5, <2>1, Zenon DEF Sys_Open
    <2>4. Exact(st, [fds EXCEPT ![t][s] = f], lost, lostRegion)
        BY <1>2, <1>3, <1>4, <2>2, SlotOpens, Zenon
    <2>5. Exact(Now, fds, lost, lostRegion)'
        BY <1>1, <2>3, <2>4, Becomes
    <2>6. \A u \in Users \ running', q \in FdNums' : fds'[u][q] = Null
        BY <1>1, <1>4, <2>2, <2>3, OneSlot, OthersKeepNone
    <2> QED BY <1>1, <1>4, <2>5, <2>6 DEF FileInv
<1>6. CASE Empty(t) = {}
    <2>1. Become(VfsClose(st, f)) /\ fds' = fds
        BY <1>2, <1>6, Zenon DEF Sys_Open
    <2>2. l2[f] # 0 /\ [l2 EXCEPT ![f] = @ - 1] = lost
        BY <1>2, <1>3, <1>4, TokenBack
    <2>3. Exact(VfsClose(st, f), fds, [l2 EXCEPT ![f] = @ - 1], lostRegion)
        BY <1>3, <2>2, ClosesExactly, Zenon
    <2>4. Exact(VfsClose(st, f), fds, lost, lostRegion)
        BY <2>2, <2>3
    <2>5. Exact(Now, fds, lost, lostRegion)'
        BY <1>1, <2>1, <2>4, Becomes
    <2> QED BY <1>1, <2>1, <2>5 DEF FileInv, FdNums
<1> QED BY <1>5, <1>6

LEMMA ExecKeeps ==
    ASSUME FileInv, maxFd' = maxFd, NEW t \in Users, NEW i \in Inodes, NEW f \in FileIds, NEW n \in NodeIds,
           ExecImage(t, i, f, n)
    PROVE  FileInv'
<1>1. /\ t \in running /\ f \in OneOf(UnusedFiles(Now)) /\ n \in NodesFor(i)
      /\ running' = running /\ fds' = fds /\ lost' = [lost EXCEPT ![f] = 1] /\ lostRegion' = lostRegion
      /\ Become(VfsOpen(i, f, n))
    BY DEF ExecImage
<1>2. Exact(VfsOpen(i, f, n), fds, [lost EXCEPT ![f] = 1], lostRegion)
    BY <1>1, OpenStep, Zenon
<1>3. Exact(Now, fds, lost, lostRegion)'
    BY <1>1, <1>2, Becomes
<1> QED BY <1>1, <1>3 DEF FileInv, FdNums

LEMMA CloseKeeps ==
    ASSUME FileInv, maxFd' = maxFd, NEW t \in Users, NEW s \in FdNums, Sys_Close(t, s)
    PROVE  FileInv'
<1>1. PICK f : f = fds[t][s]
    OBVIOUS
<1>2. /\ t \in running /\ Become(Drop(Now, f)) /\ fds' = [fds EXCEPT ![t][s] = Null]
      /\ running' = running /\ lost' = lost /\ lostRegion' = lostRegion
    BY <1>1 DEF Sys_Close
<1>3. f \in FileIds /\ fds \in Tables /\ Exact(Now, fds, lost, lostRegion) /\ running \subseteq Users
    BY <1>1 DEF Sys_Close, FileInv, Exact, Tables
<1>4. Exact(Drop(Now, f), [fds EXCEPT ![t][s] = Null], lost, lostRegion)
    BY <1>1, <1>3, SlotCloses, Zenon
<1>5. Exact(Now, fds, lost, lostRegion)'
    BY <1>2, <1>4, Becomes
<1>6. \A u \in Users \ running', q \in FdNums' : fds'[u][q] = Null
    BY <1>2, <1>3, OneSlot, OthersKeepNone
<1> QED BY <1>2, <1>3, <1>5, <1>6 DEF FileInv

LEMMA DupKeeps ==
    ASSUME FileInv, maxFd' = maxFd, NEW t \in Users, NEW old \in FdNums, NEW new \in FdNums, Sys_Dup2(t, old, new)
    PROVE  FileInv'
<1>1. PICK g, f, closed : /\ g = fds[t][old] /\ f = fds[t][new]
                          /\ closed = IF fds[t][new] = Null THEN Now ELSE Drop(Now, fds[t][new])
    OBVIOUS
<1>2. /\ t \in running /\ g # Null /\ old # new
      /\ Become([closed EXCEPT !.files[g].refs = @ + 1]) /\ fds' = [fds EXCEPT ![t][new] = g]
      /\ running' = running /\ lost' = lost /\ lostRegion' = lostRegion
    BY <1>1 DEF Sys_Dup2
<1>3. /\ g \in FileIds /\ f \in FileIds \cup {Null} /\ fds \in Tables /\ running \subseteq Users
      /\ Exact(Now, fds, lost, lostRegion) /\ lost \in [FileIds -> Nat]
    BY <1>1, <1>2 DEF FileInv, Exact, Tables
<1>4. PICK h : h = [fds EXCEPT ![t][new] = Null]
    OBVIOUS
<1>5. h \in Tables /\ h[t][new] = Null /\ h[t][old] = g /\ [h EXCEPT ![t][new] = g] = [fds EXCEPT ![t][new] = g]
    BY <1>1, <1>2, <1>3, <1>4 DEF Tables
<1>6. Exact(closed, h, lost, lostRegion)
    <2>1. CASE f = Null
        <3>1. closed = Now
            BY <1>1, <2>1
        <3>2. h = fds
            BY <1>1, <1>3, <1>4, <2>1 DEF Tables
        <3> QED BY <1>3, <3>1, <3>2
    <2>2. CASE f # Null
        <3>1. closed = Drop(Now, f)
            BY <1>1, <2>2
        <3>2. f \in FileIds
            BY <1>3, <2>2
        <3>3. Exact(Drop(Now, f), [fds EXCEPT ![t][new] = Null], lost, lostRegion)
            BY <1>1, <1>3, <3>2, SlotCloses, Zenon
        <3> QED BY <1>4, <3>1, <3>3
    <2> QED BY <2>1, <2>2
<1>7. closed.files[g].kind # "none"
    BY <1>2, <1>5, <1>6 DEF Exact, Held
<1>8. PICK st, l2 : st = [closed EXCEPT !.files[g].refs = @ + 1] /\ l2 = [lost EXCEPT ![g] = @ + 1]
    OBVIOUS
<1>9. Exact(st, h, l2, lostRegion)
    BY <1>3, <1>6, <1>7, <1>8, CountIsExact, Zenon
<1>10. Exact(st, [h EXCEPT ![t][new] = g], lost, lostRegion)
    BY <1>3, <1>5, <1>8, <1>9, SlotOpens, Zenon
<1>11. Become(st) /\ fds' = [h EXCEPT ![t][new] = g]
    BY <1>2, <1>5, <1>8
<1>12. Exact(Now, fds, lost, lostRegion)'
    BY <1>2, <1>10, <1>11, Becomes
<1>13. \A u \in Users \ running', q \in FdNums' : fds'[u][q] = Null
    BY <1>2, <1>3, OneSlot, OthersKeepNone
<1> QED BY <1>2, <1>3, <1>12, <1>13 DEF FileInv

LEMMA PipeKeeps ==
    ASSUME FileInv, maxFd' = maxFd, NEW t \in Users, NEW r \in FileIds, NEW w \in FileIds, NEW n \in NodeIds,
           Sys_Pipe(t, r, w, n)
    PROVE  FileInv'
<1>1. PICK a, b, st : a = FirstFd(t) /\ b = Min(Empty(t) \ {FirstFd(t)}) /\ st = PipeMade(Now, r, w, n)
    OBVIOUS
<1>2. /\ t \in running /\ r \in OneOf(UnusedFiles(Now)) /\ w \in OneOf(UnusedFiles(Now) \ {r})
      /\ n \in OneOf(UnusedNodes(Now)) /\ Cardinality(Empty(t)) >= 2
      /\ Become(st) /\ fds' = [fds EXCEPT ![t][a] = r, ![t][b] = w]
      /\ running' = running /\ lost' = lost /\ lostRegion' = lostRegion
    BY <1>1 DEF Sys_Pipe, PipeMade, PipeNode
<1>3. /\ fds \in Tables /\ running \subseteq Users /\ maxFd \in Nat
      /\ Exact(Now, fds, lost, lostRegion) /\ lost \in [FileIds -> Nat]
    BY DEF FileInv, Exact
<1>4. /\ Now.files[r].kind = "none" /\ Now.files[w].kind = "none" /\ r # w /\ Now.nodes[n].refs = 0
    <2>1. r \in UnusedFiles(Now) /\ w \in UnusedFiles(Now) \ {r} /\ n \in UnusedNodes(Now)
        BY <1>2, OneOfThem
    <2> QED BY <2>1 DEF UnusedFiles, UnusedNodes
<1>5. lost[r] = 0 /\ lost[w] = 0
    BY <1>3, <1>4 DEF Exact, FileCounted
<1>6. a \in Empty(t) /\ b \in Empty(t) /\ b # a
    <2>1. Empty(t) \subseteq FdNums /\ Empty(t) \ {a} \subseteq FdNums
        BY DEF Empty
    <2>2. Empty(t) \ {a} # {}
        <3>1. ASSUME Empty(t) \subseteq {a} PROVE FALSE
            <4>1. IsFiniteSet({a}) /\ Cardinality({a}) = 1
                BY FS_Singleton, Zenon
            <4>2. Empty(t) \in SUBSET {a}
                BY <3>1
            <4>3. Cardinality(Empty(t)) <= Cardinality({a}) /\ IsFiniteSet(Empty(t))
                BY <4>1, <4>2, FS_Subset
            <4>4. Cardinality(Empty(t)) \in Nat
                BY <4>3, FS_CardinalityType
            <4> QED BY <1>2, <4>1, <4>3, <4>4
        <3> QED BY <3>1
    <2>3. Empty(t) # {}
        BY <2>2
    <2>4. a \in Empty(t)
        BY <1>1, <1>3, <2>1, <2>3, FreeSlot DEF FirstFd
    <2>5. b \in Empty(t) \ {a}
        BY <1>1, <1>3, <2>1, <2>2, FreeSlot
    <2> QED BY <2>4, <2>5
<1>7. a \in FdNums /\ b \in FdNums /\ fds[t][a] = Null /\ fds[t][b] = Null
    BY <1>6 DEF Empty
<1>8. PICK l1, l2, h1 : l1 = [lost EXCEPT ![r] = 1] /\ l2 = [l1 EXCEPT ![w] = 1] /\ h1 = [fds EXCEPT ![t][b] = w]
    OBVIOUS
<1>9. l1 \in [FileIds -> Nat] /\ l1[w] = 0
    BY <1>3, <1>4, <1>5, <1>8
<1>10. Exact(st, fds, l2, lostRegion)
    BY <1>1, <1>3, <1>4, <1>8, PipeIsExact, Zenon
<1>11. Exact(st, h1, l1, lostRegion)
    BY <1>7, <1>8, <1>9, <1>10, SlotOpens, Zenon
<1>12. h1 \in Tables /\ h1[t][a] = Null
    BY <1>3, <1>6, <1>7, <1>8 DEF Tables
<1>13. Exact(st, [h1 EXCEPT ![t][a] = r], lost, lostRegion)
    BY <1>3, <1>5, <1>7, <1>8, <1>11, <1>12, SlotOpens, Zenon
<1>14. [fds EXCEPT ![t][a] = r, ![t][b] = w] = [h1 EXCEPT ![t][a] = r]
    BY <1>3, <1>6, <1>7, <1>8 DEF Tables
<1>15. Exact(Now, fds, lost, lostRegion)'
    BY <1>2, <1>13, <1>14, Becomes
<1>16. \A u \in Users \ running', q \in FdNums' : fds'[u][q] = Null
    <2>1. \E H : fds' = [fds EXCEPT ![t] = H]
        BY <1>2, <1>3, <1>7 DEF Tables
    <2> QED BY <1>2, <1>3, <2>1, OthersKeepNone
<1> QED BY <1>2, <1>3, <1>15, <1>16 DEF FileInv

LEMMA ShmKeeps ==
    ASSUME FileInv, maxFd' = maxFd, NEW t \in Users, NEW name \in Names, NEW create \in BOOLEAN, NEW f \in FileIds,
           Sys_ShmOpen(t, name, create, f)
    PROVE  FileInv'
<1>1. PICK r, opened : r = Min(RegionsFor(name, create)) /\ opened = ShmMade(Now, name, r, f)
    OBVIOUS
<1>2. /\ t \in running /\ f \in OneOf(UnusedFiles(Now)) /\ RegionsFor(name, create) # {}
      /\ running' = running /\ lost' = lost
    BY DEF Sys_ShmOpen
<1>3. \/ /\ Empty(t) # {} /\ Become(opened) /\ fds' = [fds EXCEPT ![t][FirstFd(t)] = f] /\ lostRegion' = lostRegion
      \/ /\ Empty(t) = {} /\ Sacrificed(t) # {}
         /\ Become(VfsClose(opened, fds[t][Min(Sacrificed(t))]))
         /\ fds' = [fds EXCEPT ![t][Min(Sacrificed(t))] = f] /\ lostRegion' = lostRegion
      \/ /\ Become([opened EXCEPT !.files[f] = FreeFile])
         /\ lostRegion' = [lostRegion EXCEPT ![r] = @ + 1] /\ fds' = fds
    BY <1>1, Zenon DEF Sys_ShmOpen, ShmMade
<1>4. /\ fds \in Tables /\ running \subseteq Users /\ maxFd \in Nat
      /\ Exact(Now, fds, lost, lostRegion) /\ lost \in [FileIds -> Nat]
    BY DEF FileInv, Exact
<1>5. Now.files[f].kind = "none"
    <2>1. f \in UnusedFiles(Now)
        BY <1>2, OneOfThem
    <2> QED BY <2>1 DEF UnusedFiles
<1>6. lost[f] = 0
    BY <1>4, <1>5 DEF Exact, FileCounted
<1>7. r \in RegionIds
    <2>1. RegionsFor(name, create) \subseteq RegionIds
        BY DEF RegionsFor, Named, UnusedRegions
    <2>2. RegionsFor(name, create) \subseteq Nat
        BY <2>1, FilesAssumption DEF RegionIds
    <2>3. r \in RegionsFor(name, create)
        BY <1>1, <1>2, <2>2, LeastMember
    <2> QED BY <2>1, <2>3
<1>8. PICK l2 : l2 = [lost EXCEPT ![f] = 1]
    OBVIOUS
<1>9. Exact(opened, fds, l2, lostRegion)
    BY <1>1, <1>4, <1>5, <1>7, <1>8, ShmIsExact, Zenon
<1>10. CASE Empty(t) # {} /\ Become(opened) /\ fds' = [fds EXCEPT ![t][FirstFd(t)] = f] /\ lostRegion' = lostRegion
    <2>1. PICK s : s = FirstFd(t)
        OBVIOUS
    <2>2. s \in FdNums /\ fds[t][s] = Null
        <3>1. Empty(t) \subseteq FdNums
            BY DEF Empty
        <3>2. s \in Empty(t)
            BY <1>4, <1>10, <2>1, <3>1, FreeSlot DEF FirstFd
        <3> QED BY <3>2 DEF Empty
    <2>3. Exact(opened, [fds EXCEPT ![t][s] = f], lost, lostRegion)
        BY <1>4, <1>6, <1>8, <1>9, <2>2, SlotOpens, Zenon
    <2>4. fds' = [fds EXCEPT ![t][s] = f]
        BY <1>10, <2>1
    <2>5. Exact(Now, fds, lost, lostRegion)'
        BY <1>2, <1>10, <2>3, <2>4, Becomes
    <2>6. \A u \in Users \ running', q \in FdNums' : fds'[u][q] = Null
        BY <1>2, <1>4, <2>2, <2>4, OneSlot, OthersKeepNone
    <2> QED BY <1>2, <1>4, <2>5, <2>6 DEF FileInv
<1>11. CASE /\ Empty(t) = {} /\ Sacrificed(t) # {}
            /\ Become(VfsClose(opened, fds[t][Min(Sacrificed(t))]))
            /\ fds' = [fds EXCEPT ![t][Min(Sacrificed(t))] = f] /\ lostRegion' = lostRegion
    <2>1. PICK s, g : s = Min(Sacrificed(t)) /\ g = fds[t][s]
        OBVIOUS
    <2>2. s \in FdNums
        <3>1. Sacrificed(t) \subseteq FdNums
            BY DEF Sacrificed
        <3>2. s \in Sacrificed(t)
            BY <1>4, <1>11, <2>1, <3>1, FreeSlot
        <3> QED BY <3>1, <3>2
    <2>3. g \in FileIds
        <3>1. g # Null
            BY <1>11, <2>1, <2>2 DEF Empty
        <3> QED BY <1>4, <2>1, <2>2, <3>1 DEF Tables
    <2>4. PICK h, st : h = [fds EXCEPT ![t][s] = Null] /\ st = VfsClose(opened, g)
        OBVIOUS
    <2>5. Exact(st, h, l2, lostRegion)
        BY <1>9, <2>1, <2>2, <2>3, <2>4, SlotCloses, Zenon
    <2>6. h \in Tables /\ h[t][s] = Null /\ [h EXCEPT ![t][s] = f] = [fds EXCEPT ![t][s] = f]
        BY <1>4, <2>2, <2>4 DEF Tables
    <2>7. Exact(st, [h EXCEPT ![t][s] = f], lost, lostRegion)
        BY <1>4, <1>6, <1>8, <2>2, <2>5, <2>6, SlotOpens, Zenon
    <2>8. Become(st) /\ fds' = [fds EXCEPT ![t][s] = f] /\ fds' = [h EXCEPT ![t][s] = f]
        BY <1>11, <2>1, <2>4, <2>6
    <2>9. Exact(Now, fds, lost, lostRegion)'
        BY <1>2, <1>11, <2>7, <2>8, Becomes
    <2>10. \A u \in Users \ running', q \in FdNums' : fds'[u][q] = Null
        BY <1>2, <1>4, <2>2, <2>8, OneSlot, OthersKeepNone
    <2> QED BY <1>2, <1>4, <2>9, <2>10 DEF FileInv
<1>12. CASE /\ Become([opened EXCEPT !.files[f] = FreeFile])
            /\ lostRegion' = [lostRegion EXCEPT ![r] = @ + 1] /\ fds' = fds
    <2>1. Exact([opened EXCEPT !.files[f] = FreeFile], fds, lost, [lostRegion EXCEPT ![r] = @ + 1])
        BY <1>1, <1>4, <1>5, <1>7, ForgottenIsExact, Zenon
    <2>2. Exact(Now, fds, lost, lostRegion)'
        BY <1>2, <1>12, <2>1, Becomes
    <2> QED BY <1>2, <1>12, <2>2 DEF FileInv, FdNums
<1> QED BY <1>3, <1>10, <1>11, <1>12

LEMMA ForkKeeps ==
    ASSUME FileInv, maxFd' = maxFd, NEW t \in Users, NEW u \in Users, ForkFiles(t, u)
    PROVE  FileInv'
<1>1. PICK st : st = [Now EXCEPT !.files = Shared(t)]
    OBVIOUS
<1>2. /\ t \in running /\ u \notin running /\ Become(st)
      /\ running' = running \cup {u} /\ fds' = [fds EXCEPT ![u] = fds[t]]
      /\ lost' = lost /\ lostRegion' = lostRegion
    BY <1>1 DEF ForkFiles
<1>3. /\ fds \in Tables /\ running \subseteq Users /\ maxFd \in Nat
      /\ Exact(Now, fds, lost, lostRegion) /\ lost \in [FileIds -> Nat]
    BY DEF FileInv, Exact
<1>4. Exact(st, fds, [f \in FileIds |-> lost[f] + Naming(t, f)], lostRegion)
    BY <1>1, <1>3, SharedIsExact
<1>5. \A s \in FdNums : fds[u][s] = Null
    BY <1>2 DEF FileInv
<1>6. Exact(st, [fds EXCEPT ![u] = fds[t]], lost, lostRegion)
    BY <1>3, <1>4, <1>5, ForkedIsExact, Zenon
<1>7. Exact(Now, fds, lost, lostRegion)'
    BY <1>2, <1>6, Becomes
<1>8. \A x \in Users \ running', q \in FdNums' : fds'[x][q] = Null
    BY <1>2, <1>3 DEF FileInv, FdNums, Tables
<1> QED BY <1>2, <1>3, <1>7, <1>8 DEF FileInv

LEMMA ForkFailedKeeps ==
    ASSUME FileInv, maxFd' = maxFd, NEW t \in Users, ForkFailed(t)
    PROVE  FileInv'
<1>1. PICK st : st = [Now EXCEPT !.files = Shared(t)]
    OBVIOUS
<1>2. /\ Become(st) /\ running' = running /\ fds' = fds /\ lostRegion' = lostRegion
      /\ lost' = [f \in FileIds |-> lost[f] + Naming(t, f)]
    BY <1>1 DEF ForkFailed
<1>3. Exact(Now, fds, lost, lostRegion)
    BY DEF FileInv
<1>4. Exact(st, fds, [f \in FileIds |-> lost[f] + Naming(t, f)], lostRegion)
    BY <1>1, <1>3, SharedIsExact
<1>5. Exact(Now, fds, lost, lostRegion)'
    BY <1>2, <1>4, Becomes
<1> QED BY <1>2, <1>5 DEF FileInv, FdNums

-----------------------------------------------------------------------------
\* DestroyTask: the objects after the first k slots of t, and what is left of the
\* table then.
DropAt(t, st, k) == IF fds[t][k - 1] = Null THEN st ELSE Drop(st, fds[t][k - 1])
Dropping(t, g, n) ==
    /\ g = [k \in 0..n |-> g[k]] /\ g[0] = Now
    /\ \A k \in 1..n : g[k] = DropAt(t, g[k - 1], k)
Cleared(t, k) == [fds EXCEPT ![t] = [s \in FdNums |-> IF s < k THEN Null ELSE fds[t][s]]]

\* The steps of DestroyTask exist for any number of slots, ...
LEMMA DroppingExists ==
    ASSUME NEW t, NEW n \in Nat
    PROVE  \E g : Dropping(t, g, n)
<1>1. PICK S : S = {k \in 0..n : \E g : Dropping(t, g, k)}
    OBVIOUS
<1>2. 0 \in S
    <2>1. PICK g : g = [k \in 0..0 |-> Now]
        OBVIOUS
    <2>2. Dropping(t, g, 0)
        BY <2>1 DEF Dropping
    <2> QED BY <1>1, <2>2
<1>3. ASSUME NEW k \in 0..(n - 1), k \in S PROVE k + 1 \in S
    <2>1. PICK g : Dropping(t, g, k)
        BY <1>1, <1>3
    <2>2. PICK v : v = DropAt(t, g[k], k + 1)
        OBVIOUS
    <2>3. PICK e : e = [j \in 0..(k + 1) |-> IF j = k + 1 THEN v ELSE g[j]]
        OBVIOUS
    <2>4. k \in Nat /\ k + 1 \in 0..n
        OBVIOUS
    <2>5. e[k + 1] = v /\ \A j \in 0..k : e[j] = g[j]
        BY <2>3, <2>4
    <2>6. ASSUME NEW j \in 1..(k + 1) PROVE e[j] = DropAt(t, e[j - 1], j)
        <3>1. CASE j = k + 1
            <4>1. j - 1 = k /\ e[j - 1] = g[k]
                BY <2>4, <2>5, <3>1
            <4> QED BY <2>2, <2>5, <3>1, <4>1
        <3>2. CASE j # k + 1
            <4>1. j \in 1..k /\ j \in 0..k /\ j - 1 \in 0..k
                BY <2>4, <3>2
            <4>2. g[j] = DropAt(t, g[j - 1], j)
                BY <2>1, <4>1 DEF Dropping
            <4> QED BY <2>5, <4>1, <4>2
        <3> QED BY <3>1, <3>2
    <2>7. e[0] = Now
        <3>1. g[0] = Now /\ 0 \in 0..k
            BY <2>1, <2>4 DEF Dropping
        <3> QED BY <2>5, <3>1
    <2>8. e = [j \in 0..(k + 1) |-> e[j]]
        BY <2>3
    <2>9. Dropping(t, e, k + 1)
        BY <2>6, <2>7, <2>8, Zenon DEF Dropping
    <2> QED BY <1>1, <2>4, <2>9
<1>4. 0..n \subseteq S
    BY <1>2, <1>3, InductionUpTo
<1>5. n \in 0..n
    OBVIOUS
<1> QED BY <1>1, <1>4, <1>5

\* ... and are what DestroyFiles takes.
LEMMA DestroyDrops ==
    ASSUME NEW t, maxFd \in Nat, DestroyFiles(t)
    PROVE  \E g : Dropping(t, g, maxFd) /\ Become(g[maxFd])
<1>1. PICK g : /\ g = (CHOOSE a : a = [k \in 0..maxFd |-> IF k = 0 THEN Now ELSE DropAt(t, a[k - 1], k)])
               /\ Become(g[maxFd])
    BY DEF DestroyFiles, DropAt
<1>2. PICK e : Dropping(t, e, maxFd)
    BY DroppingExists
<1>3. e = [k \in 0..maxFd |-> IF k = 0 THEN Now ELSE DropAt(t, e[k - 1], k)]
    <2>0. PICK b : b = [k \in 0..maxFd |-> IF k = 0 THEN Now ELSE DropAt(t, e[k - 1], k)]
        OBVIOUS
    <2>1. ASSUME NEW k \in 0..maxFd PROVE e[k] = b[k]
        <3>1. CASE k = 0
            BY <1>2, <2>0, <3>1 DEF Dropping
        <3>2. CASE k # 0
            <4>1. k \in 1..maxFd
                BY <3>2
            <4> QED BY <1>2, <2>0, <3>2, <4>1 DEF Dropping
        <3> QED BY <3>1, <3>2
    <2>2. e = [k \in 0..maxFd |-> e[k]]
        BY <1>2 DEF Dropping
    <2> QED BY <2>0, <2>1, <2>2
<1>4. g = [k \in 0..maxFd |-> IF k = 0 THEN Now ELSE DropAt(t, g[k - 1], k)]
    BY <1>1, <1>3, Zenon
<1>5. ASSUME NEW k \in 1..maxFd PROVE g[k] = DropAt(t, g[k - 1], k)
    <2>1. k \in 0..maxFd /\ k # 0
        OBVIOUS
    <2> QED BY <1>4, <2>1, Zenon
<1>6. g[0] = Now
    <2>1. 0 \in 0..maxFd
        OBVIOUS
    <2> QED BY <1>4, <2>1, Zenon
<1>7. g = [k \in 0..maxFd |-> g[k]]
    <2>1. PICK b : b = [k \in 0..maxFd |-> IF k = 0 THEN Now ELSE DropAt(t, g[k - 1], k)]
        OBVIOUS
    <2>2. b = [k \in 0..maxFd |-> b[k]]
        BY <2>1
    <2> QED BY <1>4, <2>1, <2>2, Zenon
<1> QED BY <1>1, <1>5, <1>6, <1>7, Zenon DEF Dropping

\* The counts are exact after every slot.
LEMMA DropsAreExact ==
    ASSUME FileInv, NEW t \in Users, NEW g, Dropping(t, g, maxFd)
    PROVE  \A k \in 0..maxFd : Exact(g[k], Cleared(t, k), lost, lostRegion)
<1>1. /\ fds \in Tables /\ running \subseteq Users /\ maxFd \in Nat
      /\ Exact(Now, fds, lost, lostRegion)
    BY DEF FileInv, Exact
<1>4. PICK S : S = {k \in 0..maxFd : Exact(g[k], Cleared(t, k), lost, lostRegion)}
    OBVIOUS
<1>5. 0 \in S
    <2>1. Cleared(t, 0) = fds
        <3>1. PICK H : H = [s \in FdNums |-> IF s < 0 THEN Null ELSE fds[t][s]]
            OBVIOUS
        <3>2. ASSUME NEW s \in FdNums PROVE H[s] = fds[t][s]
            BY <1>1, <3>1 DEF FdNums
        <3>3. H = fds[t]
            BY <1>1, <3>1, <3>2 DEF Tables
        <3>4. [fds EXCEPT ![t] = H] = fds
            BY <1>1, <3>3 DEF Tables
        <3> QED BY <3>1, <3>4, Zenon DEF Cleared
    <2>2. g[0] = Now
        BY DEF Dropping
    <2> QED BY <1>1, <1>4, <2>1, <2>2
<1>6. ASSUME NEW k \in 0..(maxFd - 1), k \in S PROVE k + 1 \in S
    <2>1. k \in FdNums /\ k \in Nat /\ k + 1 \in 1..maxFd /\ k + 1 \in 0..maxFd /\ (k + 1) - 1 = k
        BY <1>1 DEF FdNums
    <2>2. PICK h, h2, f : h = Cleared(t, k) /\ h2 = Cleared(t, k + 1) /\ f = fds[t][k]
        OBVIOUS
    <2>3. Exact(g[k], h, lost, lostRegion) /\ h \in Tables
        BY <1>4, <1>6, <2>2 DEF Exact
    <2>4. g[k + 1] = IF f = Null THEN g[k] ELSE Drop(g[k], f)
        <3>1. g[k + 1] = DropAt(t, g[(k + 1) - 1], k + 1)
            BY <2>1 DEF Dropping
        <3>2. g[k + 1] = IF fds[t][(k + 1) - 1] = Null THEN g[(k + 1) - 1] ELSE Drop(g[(k + 1) - 1], fds[t][(k + 1) - 1])
            BY <3>1, Zenon DEF DropAt
        <3> QED BY <2>1, <2>2, <3>2
    <2>5. PICK H, H2 : /\ H = [s \in FdNums |-> IF s < k THEN Null ELSE fds[t][s]]
                       /\ H2 = [s \in FdNums |-> IF s < k + 1 THEN Null ELSE fds[t][s]]
        OBVIOUS
    <2>6. h = [fds EXCEPT ![t] = H] /\ h2 = [fds EXCEPT ![t] = H2]
        BY <2>2, <2>5, Zenon DEF Cleared
    <2>7. H[k] = f /\ H2 = [H EXCEPT ![k] = Null]
        <3>1. H[k] = f
            BY <2>1, <2>2, <2>5
        <3>2. ASSUME NEW s \in FdNums PROVE H2[s] = IF s = k THEN Null ELSE H[s]
            <4>1. s \in Nat /\ (s < k + 1 <=> s = k \/ s < k)
                BY <2>1 DEF FdNums
            <4> QED BY <2>5, <4>1
        <3> QED BY <2>1, <2>5, <3>1, <3>2
    <2>8. h[t][k] = f /\ h2 = [h EXCEPT ![t][k] = Null]
        <3>1. h[t] = H
            BY <1>1, <2>6 DEF Tables
        <3>2. [h EXCEPT ![t][k] = Null] = [h EXCEPT ![t] = [H EXCEPT ![k] = Null]]
            BY <3>1
        <3>3. [h EXCEPT ![t] = H2] = h2
            BY <1>1, <2>6 DEF Tables
        <3> QED BY <2>7, <3>1, <3>2, <3>3
    <2>9. CASE f = Null
        <3>1. h2 = h
            BY <2>3, <2>8, <2>9 DEF Tables
        <3>2. Exact(g[k + 1], h2, lost, lostRegion)
            BY <2>3, <2>4, <2>9, <3>1
        <3> QED BY <1>4, <2>1, <2>2, <3>2
    <2>10. CASE f # Null
        <3>1. f \in FileIds
            BY <1>1, <2>1, <2>2, <2>10 DEF Tables
        <3>2. Exact(Drop(g[k], f), h2, lost, lostRegion)
            BY <2>1, <2>3, <2>8, <3>1, SlotCloses, Zenon
        <3>3. Exact(g[k + 1], h2, lost, lostRegion)
            BY <2>4, <2>10, <3>2
        <3> QED BY <1>4, <2>1, <2>2, <3>3
    <2> QED BY <2>9, <2>10
<1>7. 0..maxFd \subseteq S
    BY <1>1, <1>5, <1>6, InductionUpTo
<1> QED BY <1>4, <1>7

LEMMA DestroyKeeps ==
    ASSUME FileInv, maxFd' = maxFd, NEW t \in Users, DestroyFiles(t)
    PROVE  FileInv'
<1>1. /\ fds \in Tables /\ running \subseteq Users /\ maxFd \in Nat
      /\ Exact(Now, fds, lost, lostRegion)
    BY DEF FileInv, Exact
<1>2. /\ running' = running \ {t} /\ fds' = [fds EXCEPT ![t] = NoFd]
      /\ lost' = lost /\ lostRegion' = lostRegion
    BY DEF DestroyFiles
<1>3. PICK g : Dropping(t, g, maxFd) /\ Become(g[maxFd])
    BY <1>1, DestroyDrops
<1>8. Cleared(t, maxFd) = [fds EXCEPT ![t] = NoFd]
    <2>1. PICK H : H = [s \in FdNums |-> IF s < maxFd THEN Null ELSE fds[t][s]]
        OBVIOUS
    <2>2. ASSUME NEW s \in FdNums PROVE H[s] = Null
        <3>1. s < maxFd
            BY <1>1 DEF FdNums
        <3> QED BY <2>1, <3>1
    <2>3. H = NoFd
        BY <2>1, <2>2 DEF NoFd
    <2> QED BY <2>1, <2>3, Zenon DEF Cleared
<1>9. Exact(g[maxFd], [fds EXCEPT ![t] = NoFd], lost, lostRegion)
    <2>1. maxFd \in 0..maxFd
        BY <1>1
    <2>2. Exact(g[maxFd], Cleared(t, maxFd), lost, lostRegion)
        BY <1>3, <2>1, DropsAreExact
    <2> QED BY <1>8, <2>2
<1>10. Exact(Now, fds, lost, lostRegion)'
    BY <1>2, <1>3, <1>9, Becomes
<1>11. \A x \in Users \ running', q \in FdNums' : fds'[x][q] = Null
    <2>1. FdNums' = FdNums
        BY DEF FdNums
    <2>2. ASSUME NEW x \in Users, x \notin running', NEW q \in FdNums PROVE fds'[x][q] = Null
        <3>1. CASE x = t
            BY <1>1, <1>2, <3>1 DEF Tables, NoFd
        <3>2. CASE x # t
            BY <1>1, <1>2, <2>2, <3>2 DEF Tables, FileInv
        <3> QED BY <3>1, <3>2
    <2> QED BY <2>1, <2>2
<1> QED BY <1>1, <1>2, <1>10, <1>11 DEF FileInv

-----------------------------------------------------------------------------
\* The first task and its terminal.
LEMMA FilesInitially == FilesInit => FileInv
<1> SUFFICES ASSUME FilesInit PROVE FileInv
    OBVIOUS
<1>1. PICK f \in FileIds, n \in NodeIds :
         /\ fds = [t \in Users |-> IF t = Shell THEN [NoFd EXCEPT ![0] = f] ELSE NoFd]
         /\ files = [x \in FileIds |-> IF x = f THEN NewFile("disk", n, FALSE) ELSE FreeFile]
         /\ nodes = [x \in NodeIds |-> IF x = n THEN [FreeNode EXCEPT !.ino = Tty, !.refs = 1] ELSE FreeNode]
         /\ cache = [i \in Cached |-> IF i = 1 THEN n ELSE Null]
    <2>1. PICK f \in OneOf(FileIds), n \in OneOf(NodeIds) :
             /\ fds = [t \in Users |-> IF t = Shell THEN [NoFd EXCEPT ![0] = f] ELSE NoFd]
             /\ files = [x \in FileIds |-> IF x = f THEN NewFile("disk", n, FALSE) ELSE FreeFile]
             /\ nodes = [x \in NodeIds |-> IF x = n THEN [FreeNode EXCEPT !.ino = Tty, !.refs = 1] ELSE FreeNode]
             /\ cache = [i \in Cached |-> IF i = 1 THEN n ELSE Null]
        BY Zenon DEF FilesInit
    <2>2. f \in FileIds /\ n \in NodeIds
        BY OneOfThem
    <2> QED BY <2>1, <2>2, Zenon
<1>2. /\ maxFd \in Nat /\ maxFd \in Nat \ {0} /\ 0 \in FdNums /\ Shell \in Users /\ Null \notin FileIds
      /\ running = {Shell} /\ regions = [r \in RegionIds |-> FreeRegion]
      /\ lost = [x \in FileIds |-> 0] /\ lostRegion = [r \in RegionIds |-> 0]
    BY FilesAssumption DEF FilesInit, FdNums
<1>3. PICK st : st = Now
    OBVIOUS
<1>4. st.files = files /\ st.nodes = nodes /\ st.cache = cache /\ st.regions = regions
    BY <1>3 DEF Now
<1>5. PICK v, nd : v = NewFile("disk", n, FALSE) /\ nd = [FreeNode EXCEPT !.ino = Tty, !.refs = 1]
    OBVIOUS
<1>6. /\ v \in FileRecords /\ v.kind = "disk" /\ v.refs = 1 /\ v.of = n
      /\ nd \in NodeRecords /\ nd.refs = 1 /\ nd.ino = Tty
    BY <1>5, FilesAssumption DEF NewFile, FileRecords, FreeNode, NodeRecords
<1>7. FreeFile.kind = "none" /\ FreeNode.refs = 0 /\ FreeRegion.refs = 0 /\ FreeRegion.name = NoName
    BY DEF FreeFile, FreeNode, FreeRegion
<1>8. /\ st.files[f] = v /\ \A g \in FileIds \ {f} : st.files[g].kind = "none"
      /\ st.nodes[n] = nd /\ \A k \in NodeIds \ {n} : st.nodes[k].refs = 0
      /\ \A r \in RegionIds : st.regions[r].refs = 0 /\ st.regions[r].name = NoName
    BY <1>1, <1>2, <1>4, <1>5, <1>7
<1>9. st \in States
    <2>1. files \in [FileIds -> FileRecords]
        BY <1>1, <1>5, <1>6, FreeOnes
    <2>2. nodes \in [NodeIds -> NodeRecords]
        BY <1>1, <1>5, <1>6, FreeOnes
    <2>3. cache \in [Cached -> NodeIds \cup {Null}] /\ regions \in [RegionIds -> RegionRecords]
        BY <1>1, <1>2, FreeOnes
    <2> QED BY <1>3, <2>1, <2>2, <2>3 DEF States, Now
<1>10. /\ fds \in Tables /\ fds[Shell][0] = f
       /\ \A t \in Users, s \in FdNums : <<t, s>> # <<Shell, 0>> => fds[t][s] = Null
    BY <1>1, <1>2 DEF Tables, NoFd
<1>11. Held(st, fds)
    BY <1>6, <1>8, <1>10 DEF Held
<1>12. Cardinality(SlotsOf(fds, f)) = 1
    <2>1. PICK x : x = <<Shell, 0>>
        OBVIOUS
    <2>2. x \in Users \X FdNums /\ x[1] = Shell /\ x[2] = 0
        BY <1>2, <2>1
    <2>3. ASSUME NEW y \in Users \X FdNums, y # x PROVE fds[y[1]][y[2]] # f
        <3>1. y[1] \in Users /\ y[2] \in FdNums /\ y = <<y[1], y[2]>>
            OBVIOUS
        <3>2. fds[y[1]][y[2]] = Null
            BY <1>10, <2>1, <2>3, <3>1, Zenon
        <3> QED BY <1>2, <3>2
    <2>4. SlotsOf(fds, f) = {x}
        BY <1>10, <2>2, <2>3 DEF SlotsOf
    <2> QED BY <2>4, FS_Singleton, Zenon
<1>13. ASSUME NEW g \in FileIds PROVE FileCounted(st, fds, lost, g) /\ FileNames(st, g)
    <2>1. CASE g = f
        BY <1>2, <1>6, <1>8, <1>12, <2>1 DEF FileCounted, FileNames
    <2>2. CASE g # f
        BY <1>2, <1>8, <2>2 DEF FileCounted, FileNames
    <2> QED BY <2>1, <2>2
<1>14. ASSUME NEW k \in NodeIds PROVE NodeCounted(st, k)
    <2>1. CASE k = n
        <3>1. FilesOfNode(st, k) = {f}
            BY <1>6, <1>8, <2>1 DEF FilesOfNode
        <3>2. Cardinality({f}) = 1
            BY FS_Singleton, Zenon
        <3> QED BY <1>6, <1>8, <2>1, <3>1, <3>2 DEF NodeCounted
    <2>2. CASE k # n
        <3>1. FilesOfNode(st, k) = {}
            BY <1>6, <1>8, <2>2 DEF FilesOfNode
        <3> QED BY <1>8, <2>2, <3>1, FS_EmptySet DEF NodeCounted
    <2> QED BY <2>1, <2>2
<1>15. ASSUME NEW r \in RegionIds PROVE RegionCounted(st, lostRegion, r)
    <2>1. FilesOfRegion(st, r) = {}
        BY <1>6, <1>8 DEF FilesOfRegion
    <2>2. Cardinality(FilesOfRegion(st, r)) = 0 /\ lostRegion[r] = 0
        BY <1>2, <2>1, FS_EmptySet
    <2> QED BY <1>8, <2>2 DEF RegionCounted
<1>16. lost \in [FileIds -> Nat] /\ lostRegion \in [RegionIds -> Nat]
    BY <1>2
<1>17. Exact(st, fds, lost, lostRegion)
    BY <1>2, <1>9, <1>10, <1>11, <1>13, <1>14, <1>15, <1>16 DEF Exact
<1>18. \A t \in Users \ running, s \in FdNums : fds[t][s] = Null
    BY <1>1, <1>2 DEF NoFd
<1> QED BY <1>2, <1>3, <1>17, <1>18 DEF FileInv

\* Every call keeps the invariant.
LEMMA FilesStep == FileInv /\ [FilesNext]_fileVars => FileInv'
<1> SUFFICES ASSUME FileInv, [FilesNext]_fileVars PROVE FileInv'
    OBVIOUS
<1>1. CASE FileCall /\ maxFd' = maxFd
    <2>1. CASE \E t \in Users, i \in Inodes, f \in FileIds, n \in NodeIds : Sys_Open(t, i, f, n) \/ ExecImage(t, i, f, n)
        BY <1>1, <2>1, OpenKeeps, ExecKeeps
    <2>2. CASE \E t \in Users, s \in FdNums : Sys_Close(t, s)
        BY <1>1, <2>2, CloseKeeps
    <2>3. CASE \E t \in Users, a, b \in FdNums : Sys_Dup2(t, a, b)
        BY <1>1, <2>3, DupKeeps
    <2>4. CASE \E t \in Users, r, w \in FileIds, n \in NodeIds : Sys_Pipe(t, r, w, n)
        BY <1>1, <2>4, PipeKeeps
    <2>5. CASE \E t \in Users, name \in Names, create \in BOOLEAN, f \in FileIds : Sys_ShmOpen(t, name, create, f)
        BY <1>1, <2>5, ShmKeeps
    <2>6. CASE \E t \in Users : ForkFailed(t) \/ DestroyFiles(t)
        BY <1>1, <2>6, ForkFailedKeeps, DestroyKeeps
    <2>7. CASE \E t, u \in Users : ForkFiles(t, u)
        BY <1>1, <2>7, ForkKeeps
    <2> QED BY <1>1, <2>1, <2>2, <2>3, <2>4, <2>5, <2>6, <2>7 DEF FileCall
<1>2. CASE UNCHANGED fileVars
    <2>1. /\ maxFd' = maxFd /\ running' = running /\ fds' = fds /\ files' = files /\ nodes' = nodes
          /\ cache' = cache /\ regions' = regions /\ lost' = lost /\ lostRegion' = lostRegion
        BY <1>2 DEF fileVars, objects
    <2>2. Become(Now)
        BY <2>1 DEF Become, Now
    <2>3. Exact(Now, fds, lost, lostRegion)'
        BY <2>1, <2>2, Becomes DEF FileInv
    <2> QED BY <2>1, <2>3 DEF FileInv, FdNums
<1> QED BY <1>1, <1>2 DEF FilesNext

\* What the invariant says of the descriptors, the Files and the Inodes.
LEMMA FilesAreExact == FileInv => ReferencesAreExact
<1> SUFFICES ASSUME FileInv PROVE ReferencesAreExact
    OBVIOUS
<1>1. PICK st : st = Now
    OBVIOUS
<1>2. /\ st.files = files /\ st.nodes = nodes /\ st.regions = regions
      /\ st \in States /\ fds \in Tables /\ running \subseteq Users /\ maxFd \in Nat
      /\ Exact(st, fds, lost, lostRegion)
    BY <1>1 DEF Now, FileInv, Exact
<1>3. \A f \in FileIds : files[f].kind \in {"none", "disk", "pipe", "shm"}
    BY <1>2 DEF States, FileRecords
<1>4. ASSUME NEW f \in FileIds PROVE Descriptors(f) = Cardinality(SlotsOf(fds, f))
    <2>1. ASSUME NEW x \in Users \X FdNums, fds[x[1]][x[2]] = f PROVE x \in running \X FdNums
        <3>1. x[1] \in Users /\ x[2] \in FdNums /\ f # Null
            BY FilesAssumption
        <3>2. x[1] \in running
            BY <2>1, <3>1 DEF FileInv
        <3> QED BY <3>1, <3>2
    <2>2. {x \in running \X FdNums : fds[x[1]][x[2]] = f} = SlotsOf(fds, f)
        BY <1>2, <2>1 DEF SlotsOf
    <2> QED BY <2>2 DEF Descriptors
<1>5. ASSUME NEW f \in LiveFiles PROVE files[f].refs = Descriptors(f) + lost[f] /\ files[f].refs > 0
    <2>1. f \in FileIds /\ files[f].kind # "none" /\ files[f].refs \in Nat
        BY <1>2 DEF LiveFiles, States, FileRecords
    <2>2. FileCounted(st, fds, lost, f)
        BY <1>2, <2>1 DEF Exact
    <2>3. files[f].refs = Cardinality(SlotsOf(fds, f)) + lost[f] /\ files[f].refs # 0
        BY <1>2, <2>1, <2>2 DEF FileCounted
    <2> QED BY <1>4, <2>1, <2>3
<1>6. ASSUME NEW n \in NodeIds
      PROVE  /\ nodes[n].refs = Cardinality({f \in LiveFiles : files[f].kind # "shm" /\ files[f].of = n})
             /\ FilesOfNode(st, n) # {} => nodes[n].refs > 0
    <2>1. {f \in LiveFiles : files[f].kind # "shm" /\ files[f].of = n} = FilesOfNode(st, n)
        BY <1>2, <1>3 DEF LiveFiles, FilesOfNode
    <2>2. nodes[n].refs = Cardinality(FilesOfNode(st, n))
        BY <1>2 DEF Exact, NodeCounted
    <2>3. FilesOfNode(st, n) \subseteq FileIds
        BY DEF FilesOfNode
    <2>4. IsFiniteSet(FilesOfNode(st, n)) /\ Cardinality(FilesOfNode(st, n)) \in Nat
        BY <2>3, FilesAreFinite
    <2>5. FilesOfNode(st, n) # {} => Cardinality(FilesOfNode(st, n)) # 0
        BY <2>4, FS_EmptySet
    <2>6. FilesOfNode(st, n) # {} => nodes[n].refs > 0
        BY <2>2, <2>4, <2>5
    <2> QED BY <2>1, <2>2, <2>6
<1>7. ASSUME NEW r \in RegionIds
      PROVE  /\ regions[r].refs = lostRegion[r] +
                   Cardinality({f \in LiveFiles : files[f].kind = "shm" /\ files[f].of = r})
             /\ FilesOfRegion(st, r) # {} => regions[r].name # NoName
    <2>1. {f \in LiveFiles : files[f].kind = "shm" /\ files[f].of = r} = FilesOfRegion(st, r)
        BY <1>2 DEF LiveFiles, FilesOfRegion
    <2>2. /\ regions[r].refs = lostRegion[r] + Cardinality(FilesOfRegion(st, r))
          /\ regions[r].refs = 0 <=> regions[r].name = NoName
        BY <1>2 DEF Exact, RegionCounted
    <2>3. FilesOfRegion(st, r) \subseteq FileIds
        BY DEF FilesOfRegion
    <2>4. IsFiniteSet(FilesOfRegion(st, r)) /\ Cardinality(FilesOfRegion(st, r)) \in Nat
        BY <2>3, FilesAreFinite
    <2>5. FilesOfRegion(st, r) # {} => Cardinality(FilesOfRegion(st, r)) # 0
        BY <2>4, FS_EmptySet
    <2>6. lostRegion[r] \in Nat
        BY <1>2 DEF Exact
    <2>7. PICK a \in Nat, c \in Nat : a = lostRegion[r] /\ c = Cardinality(FilesOfRegion(st, r))
        BY <2>4, <2>6
    <2>8. ASSUME FilesOfRegion(st, r) # {} PROVE regions[r].name # NoName
        <3>1. a + c # 0
            BY <2>5, <2>7, <2>8
        <3> QED BY <2>2, <2>7, <3>1
    <2> QED BY <2>1, <2>2, <2>8
<1>8. ASSUME NEW t \in Users, NEW s \in FdNums, fds[t][s] # Null PROVE fds[t][s] \in LiveFiles
    <2>1. fds[t][s] \in FileIds
        BY <1>2, <1>8 DEF Tables
    <2> QED BY <1>2, <1>8, <2>1 DEF LiveFiles, Exact, Held
<1>9. ASSUME NEW f \in LiveFiles
      PROVE  IF files[f].kind = "shm" THEN regions[files[f].of].name # NoName
             ELSE /\ nodes[files[f].of].refs > 0
                  /\ files[f].kind = "pipe" => nodes[files[f].of].buffer
    <2>1. f \in FileIds /\ files[f].kind \in {"disk", "pipe", "shm"}
        BY <1>3 DEF LiveFiles
    <2>2. FileNames(st, f)
        BY <1>2, <2>1 DEF Exact
    <2>3. CASE files[f].kind = "shm"
        <3>1. files[f].of \in RegionIds /\ f \in FilesOfRegion(st, files[f].of)
            BY <1>2, <2>1, <2>2, <2>3 DEF FileNames, FilesOfRegion
        <3> QED BY <1>7, <2>3, <3>1
    <2>4. CASE files[f].kind \in {"disk", "pipe"}
        <3>1. files[f].of \in NodeIds /\ f \in FilesOfNode(st, files[f].of)
            BY <1>2, <2>1, <2>2, <2>4 DEF FileNames, FilesOfNode
        <3>2. files[f].kind = "pipe" => nodes[files[f].of].buffer
            BY <1>2, <2>2 DEF FileNames
        <3>3. nodes[files[f].of].refs > 0
            BY <1>6, <3>1, Zenon
        <3> QED BY <2>4, <3>2, <3>3
    <2> QED BY <2>1, <2>3, <2>4
<1>10. NothingNamedIsDeleted
    BY <1>8, <1>9, Zenon DEF NothingNamedIsDeleted
<1>11. CountsAreExact
    BY <1>5, <1>6, <1>7, Zenon DEF CountsAreExact
<1> QED BY <1>10, <1>11 DEF ReferencesAreExact

\* Through opens, closes, dup2, pipes, shared memory, forks that fail or do not and
\* the end of tasks, in any order, RefCount of a File is the number of its
\* descriptors, that of an Inode and of a region the number of their Files, and
\* nothing that is named is deleted (Sys_Close, Sys_Dup2, DestroyTask and
\* VFSManager::Close, which count twice between them).
THEOREM CountsStayExact == FilesSpec => []ReferencesAreExact
<1>1. FilesInit => FileInv
    BY FilesInitially
<1>2. FileInv /\ [FilesNext]_fileVars => FileInv'
    BY FilesStep
<1>3. FileInv => ReferencesAreExact
    BY FilesAreExact
<1> QED BY <1>1, <1>2, <1>3, PTL DEF FilesSpec

-----------------------------------------------------------------------------
\* The end of file and the cache.  A pipe has one File to write with, and what is
\* deleted leaves the cache, but for the volume behind rootfs.
WritesTo(st, f, n) == st.files[f].kind = "pipe" /\ st.files[f].of = n /\ st.files[f].writes
OneWriter(st) == \A n \in NodeIds, f, g \in FileIds : WritesTo(st, f, n) /\ WritesTo(st, g, n) => f = g
EofExact(st) ==
    \A n \in NodeIds : st.nodes[n].ino = PipeIno =>
        (st.nodes[n].writeClosed <=> ~\E f \in FileIds : WritesTo(st, f, n))
EntrySound(st, i) ==
    st.cache[i] # Null =>
       /\ st.nodes[st.cache[i]].ino \in Inodes
       /\ st.nodes[st.cache[i]].refs > 0 \/ st.nodes[st.cache[i]].ino \in BehindRoot
       /\ \A j \in Cached \ {i} : st.cache[j] # Null /\ st.nodes[st.cache[j]].ino = st.nodes[st.cache[i]].ino
             => st.nodes[st.cache[i]].ino \in BehindRoot
Obeyed(st) == OneWriter(st) /\ EofExact(st) /\ \A i \in Cached : EntrySound(st, i)

\* No File of a pipe, no Inode and no entry changes.
SamePipe(a, b) ==
    a.kind = "pipe" \/ b.kind = "pipe" => a.kind = b.kind /\ a.of = b.of /\ a.writes = b.writes
LEMMA PipesUntouched ==
    ASSUME NEW st, NEW st2, Obeyed(st), st2.nodes = st.nodes, st2.cache = st.cache,
           \A f \in FileIds : SamePipe(st.files[f], st2.files[f])
    PROVE  Obeyed(st2)
<1>1. ASSUME NEW f \in FileIds, NEW n PROVE WritesTo(st2, f, n) <=> WritesTo(st, f, n)
    BY DEF WritesTo, SamePipe
<1>2. OneWriter(st2)
    BY <1>1 DEF Obeyed, OneWriter
<1>3. EofExact(st2)
    BY <1>1 DEF Obeyed, EofExact
<1>4. \A i \in Cached : EntrySound(st2, i)
    BY DEF Obeyed, EntrySound
<1> QED BY <1>2, <1>3, <1>4 DEF Obeyed

\* The entry that goes is one of that number.
LEMMA EntryRemoved ==
    ASSUME NEW st \in States, NEW i
    PROVE  \/ Hits(st, i) = {} /\ RemoveCachedInode(st, i) = st.cache
           \/ \E k \in Hits(st, i) : RemoveCachedInode(st, i) = [st.cache EXCEPT ![k] = Null]
<1>1. CASE Hits(st, i) = {}
    BY <1>1 DEF RemoveCachedInode
<1>2. CASE Hits(st, i) # {}
    <2>1. Hits(st, i) \subseteq Nat
        BY FilesAssumption DEF Hits, Cached
    <2>2. Min(Hits(st, i)) \in Hits(st, i)
        BY <1>2, <2>1, LeastMember
    <2> QED BY <1>2, <2>2 DEF RemoveCachedInode
<1> QED BY <1>1, <1>2

\* The last reference goes: the writing end says so, and the Inode leaves the cache.
LEMMA GoneObeys ==
    ASSUME NEW st \in States, NEW f \in FileIds, FileNames(st, f), Obeyed(st), st.files[f].kind # "none",
           st.files[f].kind = "shm" => st.regions[st.files[f].of].refs # 0,
           st.files[f].kind # "shm" => st.nodes[st.files[f].of].refs # 0
    PROVE  Obeyed(Gone(st, f))
<1>0. PICK st2 : st2 = Gone(st, f)
    OBVIOUS
<1>1. st.files[f].kind \in {"disk", "pipe", "shm"} /\ FreeFile.kind = "none" /\ st.files[f].writes \in BOOLEAN
    BY DEF States, FileRecords, FreeFile
<1>2. CASE st.files[f].kind = "shm"
    <2>1. st.files[f].of \in RegionIds
        BY <1>2 DEF FileNames
    <2>2. st2.files = [st.files EXCEPT ![f] = FreeFile] /\ st2.nodes = st.nodes /\ st2.cache = st.cache
        BY <1>0, <1>2, <2>1, RegionGone
    <2>3. st2.files[f] = FreeFile /\ \A g \in FileIds \ {f} : st2.files[g] = st.files[g]
        BY <2>2 DEF States
    <2>4. \A g \in FileIds : SamePipe(st.files[g], st2.files[g])
        BY <1>1, <1>2, <2>3 DEF SamePipe
    <2> QED BY <1>0, <2>2, <2>4, PipesUntouched
<1>3. CASE st.files[f].kind \in {"disk", "pipe"}
    <2>1. PICK n \in NodeIds : n = st.files[f].of
        BY <1>3 DEF FileNames
    <2>2. /\ st2 \in States /\ st2.files = [st.files EXCEPT ![f] = FreeFile]
          /\ \E v \in NodeRecords : NodeLeft(st, st2, f, n, v)
        <3>1. st.nodes[n].refs # 0
            BY <1>3, <2>1
        <3> QED BY <1>0, <1>3, <2>1, <3>1, NodeGone, Zenon
    <2>3. PICK v \in NodeRecords : NodeLeft(st, st2, f, n, v)
        BY <2>2
    <2>4. /\ st2.nodes[n] = v /\ \A k \in NodeIds \ {n} : st2.nodes[k] = st.nodes[k]
          /\ st2.files[f] = FreeFile /\ \A g \in FileIds \ {f} : st2.files[g] = st.files[g]
        BY <2>2, <2>3 DEF NodeLeft, States
    <2>5. PICK o \in NodeRecords : o = st.nodes[n]
        BY DEF States
    <2>6. ASSUME NEW g \in FileIds, NEW k \in NodeIds PROVE WritesTo(st2, g, k) <=> g # f /\ WritesTo(st, g, k)
        BY <1>1, <2>4 DEF WritesTo
    <2>7. OneWriter(st2)
        BY <2>6 DEF OneWriter, Obeyed
    <2>8. ASSUME NEW i \in Cached, st.cache[i] = n PROVE o.ino \in Inodes
        BY <2>5, <2>8, FilesAssumption DEF Obeyed, EntrySound
    <2>9. CASE v.refs # 0
        <3>1. /\ v.ino = o.ino /\ st2.cache = st.cache /\ v.refs = o.refs - 1
              /\ v.writeClosed = (o.writeClosed \/ (st.files[f].kind = "pipe" /\ st.files[f].writes))
            BY <2>3, <2>5, <2>9 DEF NodeLeft
        <3>2. v.writeClosed <=> (o.writeClosed \/ WritesTo(st, f, n))
            BY <2>1, <3>1 DEF WritesTo
        <3>3. EofExact(st2)
            <4>1. ASSUME NEW k \in NodeIds, st2.nodes[k].ino = PipeIno
                  PROVE  st2.nodes[k].writeClosed <=> ~\E g \in FileIds : WritesTo(st2, g, k)
                <5>1. CASE k = n
                    <6>1. o.writeClosed <=> ~\E g \in FileIds : WritesTo(st, g, n)
                        BY <2>4, <2>5, <3>1, <4>1, <5>1 DEF Obeyed, EofExact
                    <6>2. \A g \in FileIds : WritesTo(st, f, n) /\ WritesTo(st, g, n) => g = f
                        BY DEF Obeyed, OneWriter
                    <6>3. v.writeClosed <=> ~\E g \in FileIds : g # f /\ WritesTo(st, g, n)
                        BY <3>2, <6>1, <6>2, Zenon
                    <6> QED BY <2>4, <2>6, <5>1, <6>3
                <5>2. CASE k # n
                    <6>1. st2.nodes[k] = st.nodes[k] /\ ~WritesTo(st, f, k)
                        BY <2>1, <2>4, <5>2 DEF WritesTo
                    <6>2. st.nodes[k].writeClosed <=> ~\E g \in FileIds : WritesTo(st, g, k)
                        BY <4>1, <6>1 DEF Obeyed, EofExact
                    <6> QED BY <2>6, <6>1, <6>2
                <5> QED BY <5>1, <5>2
            <4> QED BY <4>1 DEF EofExact
        <3>4. v.refs > 0
            BY <2>9 DEF NodeRecords
        <3>5. \A k \in NodeIds : st2.nodes[k].ino = st.nodes[k].ino
            BY <2>4, <2>5, <3>1
        <3>6. ASSUME NEW i \in Cached PROVE EntrySound(st2, i)
            <4>1. EntrySound(st, i)
                BY DEF Obeyed
            <4>2. \A j \in Cached : st.cache[j] \in NodeIds \cup {Null}
                BY DEF States
            <4>3. ASSUME st.cache[i] # Null
                  PROVE  st2.nodes[st.cache[i]].refs > 0 \/ st2.nodes[st.cache[i]].ino \in BehindRoot
                BY <2>4, <3>4, <3>5, <4>1, <4>2, <4>3 DEF EntrySound
            <4> QED BY <3>1, <3>5, <4>1, <4>2, <4>3 DEF EntrySound
        <3> QED BY <1>0, <2>7, <3>3, <3>6 DEF Obeyed
    <2>10. CASE v.refs = 0
        <3>1. /\ st2.cache = RemoveCachedInode(st, o.ino)
              /\ v.ino = IF \E i \in Cached : st2.cache[i] = n THEN o.ino ELSE NoName
            BY <2>3, <2>5, <2>10 DEF NodeLeft
        <3>2. /\ \A j \in Cached : st.cache[j] \in NodeIds \cup {Null} /\ st2.cache[j] \in {st.cache[j], Null}
              /\ Null \notin NodeIds
            BY <3>1, CacheLoses, FilesAssumption DEF States
        <3>3. v.ino # PipeIno
            <4>1. CASE \E i \in Cached : st2.cache[i] = n
                <5>1. PICK i \in Cached : st2.cache[i] = n
                    BY <4>1
                <5>2. st.cache[i] = n
                    BY <3>2, <5>1
                <5>3. o.ino \in Inodes
                    BY <2>8, <5>2
                <5> QED BY <3>1, <4>1, <5>3, FilesAssumption
            <4>2. CASE ~\E i \in Cached : st2.cache[i] = n
                <5>1. v.ino = NoName
                    BY <3>1, <4>2, Zenon
                <5> QED BY <5>1 DEF NoName, PipeIno
            <4> QED BY <4>1, <4>2
        <3>4. EofExact(st2)
            <4>1. ASSUME NEW k \in NodeIds, st2.nodes[k].ino = PipeIno
                  PROVE  st2.nodes[k].writeClosed <=> ~\E g \in FileIds : WritesTo(st2, g, k)
                <5>1. k # n /\ st2.nodes[k] = st.nodes[k]
                    BY <2>4, <3>3, <4>1
                <5>2. ~WritesTo(st, f, k)
                    BY <2>1, <5>1 DEF WritesTo
                <5>3. st.nodes[k].writeClosed <=> ~\E g \in FileIds : WritesTo(st, g, k)
                    BY <4>1, <5>1 DEF Obeyed, EofExact
                <5> QED BY <2>6, <5>1, <5>2, <5>3
            <4> QED BY <4>1 DEF EofExact
        <3>5. ASSUME NEW i \in Cached, st2.cache[i] # Null PROVE st2.cache[i] = st.cache[i] /\ st.cache[i] \in NodeIds
            BY <3>2, <3>5
        <3>6. ASSUME NEW i \in Cached, st2.cache[i] = n PROVE v.ino = o.ino /\ o.ino \in BehindRoot
            <4>1. v.ino = o.ino
                BY <3>1, <3>6
            <4>2. st.cache[i] = n
                BY <3>2, <3>6
            <4>3. i \in Hits(st, o.ino)
                BY <2>5, <3>2, <4>2 DEF Hits
            <4>4. PICK k \in Hits(st, o.ino) : st2.cache = [st.cache EXCEPT ![k] = Null]
                BY <3>1, <4>3, EntryRemoved
            <4>5. k \in Cached /\ st.cache[k] # Null /\ st.nodes[st.cache[k]].ino = o.ino
                BY <4>4 DEF Hits
            <4>6. st2.cache[k] = Null
                BY <4>4, <4>5 DEF States
            <4>7. k # i
                BY <3>2, <3>6, <4>6
            <4>8. EntrySound(st, i)
                BY DEF Obeyed
            <4>9. o.ino \in BehindRoot
                BY <2>5, <3>2, <4>2, <4>5, <4>7, <4>8 DEF EntrySound
            <4> QED BY <4>1, <4>9
        <3>7. ASSUME NEW i \in Cached, st2.cache[i] # Null
              PROVE  st2.nodes[st2.cache[i]].ino = st.nodes[st.cache[i]].ino
            <4>1. CASE st2.cache[i] = n
                BY <2>4, <2>5, <3>5, <3>6, <3>7, <4>1
            <4>2. CASE st2.cache[i] # n
                BY <2>4, <3>5, <3>7, <4>2
            <4> QED BY <4>1, <4>2
        <3>8. ASSUME NEW i \in Cached PROVE EntrySound(st2, i)
            <4>1. SUFFICES ASSUME st2.cache[i] # Null
                           PROVE  /\ st2.nodes[st2.cache[i]].ino \in Inodes
                                  /\ st2.nodes[st2.cache[i]].refs > 0 \/ st2.nodes[st2.cache[i]].ino \in BehindRoot
                                  /\ \A j \in Cached \ {i} :
                                        st2.cache[j] # Null /\ st2.nodes[st2.cache[j]].ino = st2.nodes[st2.cache[i]].ino
                                           => st2.nodes[st2.cache[i]].ino \in BehindRoot
                BY Zenon DEF EntrySound
            <4>2. st2.cache[i] = st.cache[i] /\ st.cache[i] \in NodeIds /\ EntrySound(st, i) /\ st.cache[i] # Null
                BY <3>2, <3>5, <4>1 DEF Obeyed
            <4>3. st2.nodes[st2.cache[i]].ino = st.nodes[st.cache[i]].ino
                BY <3>7, <4>1
            <4>4. st2.nodes[st2.cache[i]].ino \in Inodes
                BY <4>2, <4>3 DEF EntrySound
            <4>5. st2.nodes[st2.cache[i]].refs > 0 \/ st2.nodes[st2.cache[i]].ino \in BehindRoot
                <5>1. CASE st2.cache[i] = n
                    BY <2>4, <3>6, <5>1
                <5>2. CASE st2.cache[i] # n
                    <6>1. st2.nodes[st2.cache[i]] = st.nodes[st.cache[i]]
                        BY <2>4, <4>2, <5>2
                    <6> QED BY <4>2, <4>3, <6>1 DEF EntrySound
                <5> QED BY <5>1, <5>2
            <4>6. ASSUME NEW j \in Cached \ {i}, st2.cache[j] # Null,
                         st2.nodes[st2.cache[j]].ino = st2.nodes[st2.cache[i]].ino
                  PROVE  st2.nodes[st2.cache[i]].ino \in BehindRoot
                <5>1. st.cache[j] # Null /\ st.nodes[st.cache[j]].ino = st.nodes[st.cache[i]].ino
                    BY <3>5, <3>7, <4>3, <4>6
                <5> QED BY <4>2, <4>3, <5>1 DEF EntrySound
            <4> QED BY <4>4, <4>5, <4>6, Zenon
        <3> QED BY <1>0, <2>7, <3>4, <3>8 DEF Obeyed
    <2> QED BY <2>9, <2>10
<1> QED BY <1>1, <1>2, <1>3

\* Closing, by VFSManager::Close alone or with the callers that count first.
LEMMA CloseObeys ==
    ASSUME NEW st, NEW h, NEW l, NEW m, Exact(st, h, l, m), Obeyed(st), NEW f \in FileIds, st.files[f].kind # "none"
    PROVE  Obeyed(VfsClose(st, f)) /\ Obeyed(Drop(st, f))
<1>1. st \in States /\ st.files[f] \in FileRecords /\ FileNames(st, f)
    BY DEF Exact, States
<1>2. PICK k \in Nat : k = st.files[f].refs /\ k # 0
    BY <1>1 DEF Exact, FileCounted, FileRecords
<1>3. PICK st2, v : st2 = [st EXCEPT !.files[f].refs = k - 1] /\ v = [st.files[f] EXCEPT !.refs = k - 1]
    OBVIOUS
<1>4. /\ v \in FileRecords /\ v.refs = k - 1 /\ v.kind = st.files[f].kind /\ v.of = st.files[f].of
      /\ v.writes = st.files[f].writes
    BY <1>1, <1>2, <1>3 DEF FileRecords
<1>5. Parts(st2, [st.files EXCEPT ![f] = v], st.nodes, st.cache, st.regions)
    <2>1. Parts([st EXCEPT !.files[f] = v], [st.files EXCEPT ![f] = v], st.nodes, st.cache, st.regions)
        BY <1>1, <1>4, ItemSet, Zenon
    <2>2. st2 = [st EXCEPT !.files[f] = v]
        BY <1>3
    <2> QED BY <2>1, <2>2, Zenon
<1>6. /\ st2 \in States /\ st2.files[f] = v /\ \A g \in FileIds \ {f} : st2.files[g] = st.files[g]
      /\ st2.nodes = st.nodes /\ st2.cache = st.cache /\ st2.regions = st.regions
    BY <1>1, <1>5 DEF Parts, States
<1>7. Obeyed(st2)
    <2>1. \A g \in FileIds : SamePipe(st.files[g], st2.files[g])
        BY <1>4, <1>6 DEF SamePipe
    <2> QED BY <1>6, <2>1, PipesUntouched
<1>8. FileNames(st2, f)
    BY <1>1, <1>4, <1>6 DEF FileNames
<1>9. /\ st.files[f].kind = "shm" => st.regions[st.files[f].of].refs # 0
      /\ st.files[f].kind # "shm" => st.nodes[st.files[f].of].refs # 0
    <2>1. CASE st.files[f].kind = "shm"
        <3>1. PICK r \in RegionIds : r = st.files[f].of /\ f \in FilesOfRegion(st, r)
            BY <1>1, <2>1 DEF FileNames, FilesOfRegion
        <3>2. FilesOfRegion(st, r) \subseteq FileIds
            BY DEF FilesOfRegion
        <3>3. PICK a \in Nat, c \in Nat : a = m[r] /\ c = Cardinality(FilesOfRegion(st, r)) /\ c # 0
            BY <3>1, <3>2, FilesAreFinite, FS_EmptySet DEF Exact
        <3>4. st.regions[r].refs = a + c
            BY <3>3 DEF Exact, RegionCounted
        <3>5. a + c # 0
            BY <3>3
        <3> QED BY <2>1, <3>1, <3>4, <3>5
    <2>2. CASE st.files[f].kind \in {"disk", "pipe"}
        <3>1. PICK n \in NodeIds : n = st.files[f].of /\ f \in FilesOfNode(st, n)
            BY <1>1, <2>2 DEF FileNames, FilesOfNode
        <3>2. FilesOfNode(st, n) \subseteq FileIds
            BY DEF FilesOfNode
        <3>3. Cardinality(FilesOfNode(st, n)) # 0
            BY <3>1, <3>2, FilesAreFinite, FS_EmptySet
        <3>4. st.nodes[n].refs # 0
            BY <3>3 DEF Exact, NodeCounted
        <3> QED BY <2>2, <3>1, <3>4
    <2> QED BY <1>1, <2>1, <2>2 DEF FileRecords
<1>10. Obeyed(Gone(st, f))
    BY <1>1, <1>9, GoneObeys, Zenon
<1>11. Obeyed(Gone(st2, f))
    <2>1. /\ st2.files[f].kind = st.files[f].kind /\ st2.files[f].of = st.files[f].of
          /\ st2.nodes = st.nodes /\ st2.regions = st.regions
        BY <1>4, <1>6
    <2>2. /\ st2.files[f].kind = "shm" => st2.regions[st2.files[f].of].refs # 0
          /\ st2.files[f].kind # "shm" => st2.nodes[st2.files[f].of].refs # 0
          /\ st2.files[f].kind # "none"
        BY <1>9, <2>1
    <2> QED BY <1>6, <1>7, <1>8, <2>2, GoneObeys, Zenon
<1>12. Obeyed(VfsClose(st, f))
    <2>1. CASE k = 1
        <3>1. VfsClose(st, f) = Gone(st, f)
            BY <1>2, <2>1 DEF VfsClose, Gone
        <3> QED BY <1>10, <3>1
    <2>2. CASE k # 1
        <3>1. VfsClose(st, f) = st2
            BY <1>2, <1>3, <2>2 DEF VfsClose
        <3> QED BY <1>7, <3>1
    <2> QED BY <2>1, <2>2
<1>13. Obeyed(Drop(st, f))
    <2>1. st.files[f].refs > 0 /\ (IF st.files[f].refs > 0 THEN st.files[f].refs - 1 ELSE st.files[f].refs) = k - 1
        BY <1>2
    <2>2. Drop(st, f) = IF k - 1 = 0 THEN VfsClose(st2, f) ELSE st2
        BY <1>3, <2>1, Zenon DEF Drop
    <2>3. CASE k = 1
        <3>1. VfsClose(st2, f) = Gone(st2, f)
            BY <1>4, <1>6, <2>3 DEF VfsClose, Gone
        <3>2. Drop(st, f) = VfsClose(st2, f)
            BY <2>2, <2>3
        <3> QED BY <1>11, <3>1, <3>2
    <2>4. CASE k # 1
        BY <1>2, <1>7, <2>2, <2>4
    <2> QED BY <2>3, <2>4
<1> QED BY <1>12, <1>13

\* An Inode that no File names and no entry of the cache either.
Unlisted(st, n) == st.nodes[n].refs = 0 /\ \A i \in Cached : st.cache[i] # n

\* What nobody counts nobody writes to.
LEMMA NobodyWrites ==
    ASSUME NEW st, NEW h, NEW l, NEW m, Exact(st, h, l, m), NEW n \in NodeIds, st.nodes[n].refs = 0, NEW f \in FileIds
    PROVE  ~WritesTo(st, f, n)
<1>1. FilesOfNode(st, n) \subseteq FileIds
    BY DEF FilesOfNode
<1>2. Cardinality(FilesOfNode(st, n)) = 0
    BY DEF Exact, NodeCounted
<1>3. FilesOfNode(st, n) = {}
    BY <1>1, <1>2, FilesAreFinite, FS_EmptySet
<1> QED BY <1>3 DEF FilesOfNode, WritesTo

LEMMA PipeObeys ==
    ASSUME NEW st, NEW h, NEW l, NEW m, Exact(st, h, l, m), Obeyed(st), NEW r \in FileIds, NEW w \in FileIds, r # w,
           NEW n \in NodeIds, st.files[r].kind = "none", st.files[w].kind = "none", Unlisted(st, n)
    PROVE  Obeyed(PipeMade(st, r, w, n))
<1>1. st \in States /\ \A j \in Cached : st.cache[j] \in NodeIds \cup {Null}
    BY DEF Exact, States
<1>2. PICK a, b, st2 : /\ a = NewFile("pipe", n, FALSE) /\ b = NewFile("pipe", n, TRUE)
                       /\ st2 = PipeMade(st, r, w, n)
    OBVIOUS
<1>3. a.kind = "pipe" /\ a.of = n /\ ~a.writes /\ b.kind = "pipe" /\ b.of = n /\ b.writes
    BY <1>2 DEF NewFile
<1>4. PICK st1 : /\ Parts(st1, [st.files EXCEPT ![r] = a], [st.nodes EXCEPT ![n] = PipeNode], st.cache, st.regions)
                 /\ Parts(st2, [st1.files EXCEPT ![w] = b], st1.nodes, st1.cache, st1.regions)
    BY <1>1, <1>2, PipeParts, Zenon
<1>5. /\ st2.nodes[n] = PipeNode /\ \A k \in NodeIds \ {n} : st2.nodes[k] = st.nodes[k]
      /\ st2.files[r] = a /\ st2.files[w] = b /\ st2.cache = st.cache
      /\ \A g \in FileIds \ {r, w} : st2.files[g] = st.files[g]
    BY <1>1, <1>4 DEF Parts, States
<1>6. ASSUME NEW k \in NodeIds, NEW g \in FileIds
      PROVE  WritesTo(st2, g, k) <=> IF k = n THEN g = w ELSE WritesTo(st, g, k)
    <2>1. ~WritesTo(st, g, n)
        BY NobodyWrites DEF Unlisted
    <2>2. CASE g = r
        BY <1>3, <1>5, <2>1, <2>2 DEF WritesTo
    <2>3. CASE g = w
        BY <1>3, <1>5, <2>1, <2>3 DEF WritesTo
    <2>4. CASE g \notin {r, w}
        BY <1>5, <2>1, <2>4 DEF WritesTo
    <2> QED BY <2>2, <2>3, <2>4
<1>7. OneWriter(st2)
    BY <1>6 DEF OneWriter, Obeyed
<1>8. EofExact(st2)
    <2>1. ASSUME NEW k \in NodeIds, st2.nodes[k].ino = PipeIno
          PROVE  st2.nodes[k].writeClosed <=> ~\E g \in FileIds : WritesTo(st2, g, k)
        <3>1. CASE k = n
            <4>1. ~st2.nodes[k].writeClosed
                BY <1>5, <3>1 DEF PipeNode
            <4>2. WritesTo(st2, w, k)
                BY <1>6, <3>1
            <4> QED BY <4>1, <4>2
        <3>2. CASE k # n
            <4>1. st.nodes[k].writeClosed <=> ~\E g \in FileIds : WritesTo(st, g, k)
                BY <1>5, <2>1, <3>2 DEF Obeyed, EofExact
            <4> QED BY <1>5, <1>6, <3>2, <4>1
        <3> QED BY <3>1, <3>2
    <2> QED BY <2>1 DEF EofExact
<1>9. ASSUME NEW i \in Cached PROVE EntrySound(st2, i)
    <2>1. EntrySound(st, i)
        BY DEF Obeyed
    <2>2. \A j \in Cached : st.cache[j] # Null => st2.nodes[st.cache[j]] = st.nodes[st.cache[j]]
        BY <1>1, <1>5 DEF Unlisted
    <2> QED BY <1>5, <2>1, <2>2 DEF EntrySound
<1> QED BY <1>2, <1>7, <1>8, <1>9 DEF Obeyed

\* VFSManager::Open: the Inode of the cache, or one that is unlisted until now.
LEMMA OpenObeys ==
    ASSUME NEW h, NEW l, NEW m, Exact(Now, h, l, m), Obeyed(Now), NEW i \in Inodes, NEW f \in FileIds, NEW n \in NodeIds,
           Now.files[f].kind = "none", GetCachedInode(Now, i) = {} => Unlisted(Now, n)
    PROVE  Obeyed(VfsOpen(i, f, n))
<1> PICK st : st = Now
    OBVIOUS
<1>1. /\ st \in States /\ Exact(st, h, l, m) /\ Obeyed(st) /\ st.files[f].kind = "none"
      /\ (GetCachedInode(st, i) = {} => Unlisted(st, n)) /\ st.cache \in [Cached -> NodeIds \cup {Null}]
      /\ \A j \in Cached : st.cache[j] \in NodeIds \cup {Null}
    BY DEF Exact, States
<1>2. PICK v, C :
              /\ v \in NodeRecords
              /\ Parts(WithNode(st, i, n), st.files, [st.nodes EXCEPT ![n] = v], C, st.regions)
              /\ v.refs = st.nodes[n].refs + 1
              /\ GetCachedInode(st, i) # {} => /\ C = st.cache
                                               /\ v.ino = st.nodes[n].ino /\ v.buffer = st.nodes[n].buffer
                                               /\ v.writeClosed = st.nodes[n].writeClosed
              /\ GetCachedInode(st, i) = {} => C = AddCachedInode(st.cache, n) /\ v.ino = i
    <2>1. GetCachedInode(st, i) = {} => st.nodes[n].refs = 0
        BY <1>1 DEF Unlisted
    <2> QED BY <1>1, <2>1, NodeOpened, ZenonT(30)
<1>3. PICK w : w = NewFile("disk", n, FALSE)
    OBVIOUS
<1>4. w \in FileRecords /\ w.kind = "disk"
    BY <1>3 DEF NewFile, FileRecords
<1>5. PICK st1, st2 : st1 = WithNode(st, i, n) /\ st2 = [st1 EXCEPT !.files[f] = w]
    OBVIOUS
<1>6. st2 = VfsOpen(i, f, n)
    BY <1>3, <1>5 DEF VfsOpen
<1>7. Parts(st2, [st.files EXCEPT ![f] = w], [st.nodes EXCEPT ![n] = v], C, st.regions)
    <2>1. Parts(st1, st.files, [st.nodes EXCEPT ![n] = v], C, st.regions)
        BY <1>2, <1>5
    <2>2. st1 \in States
        BY <2>1 DEF Parts
    <2>3. Parts(st2, [st1.files EXCEPT ![f] = w], st1.nodes, st1.cache, st1.regions)
        BY <1>4, <1>5, <2>2, ItemSet, Zenon
    <2> QED BY <2>1, <2>3 DEF Parts
<1>8. /\ st2.nodes[n] = v /\ \A k \in NodeIds \ {n} : st2.nodes[k] = st.nodes[k]
      /\ st2.files[f] = w /\ \A g \in FileIds \ {f} : st2.files[g] = st.files[g]
      /\ st2.cache = C /\ v.refs > 0
    <2>1. v.refs > 0
        BY <1>1, <1>2 DEF States, NodeRecords
    <2> QED BY <1>1, <1>7, <2>1 DEF Parts, States
<1>9. ASSUME NEW g \in FileIds, NEW k PROVE WritesTo(st2, g, k) <=> WritesTo(st, g, k)
    BY <1>1, <1>4, <1>8 DEF WritesTo
<1>10. OneWriter(st2)
    BY <1>1, <1>9 DEF OneWriter, Obeyed
<1>11. EofExact(st2)
    <2>1. ASSUME NEW k \in NodeIds, st2.nodes[k].ino = PipeIno
          PROVE  st2.nodes[k].writeClosed <=> ~\E g \in FileIds : WritesTo(st2, g, k)
        <3>1. st.nodes[k].ino = PipeIno /\ st2.nodes[k].writeClosed = st.nodes[k].writeClosed
            <4>1. CASE k = n
                <5>1. GetCachedInode(st, i) # {}
                    BY <1>2, <1>8, <2>1, <4>1, FilesAssumption
                <5> QED BY <1>2, <1>8, <2>1, <4>1, <5>1
            <4>2. CASE k # n
                BY <1>8, <2>1, <4>2
            <4> QED BY <4>1, <4>2
        <3>2. st.nodes[k].writeClosed <=> ~\E g \in FileIds : WritesTo(st, g, k)
            BY <1>1, <3>1 DEF Obeyed, EofExact
        <3> QED BY <1>9, <3>1, <3>2
    <2> QED BY <2>1 DEF EofExact
<1>12. ASSUME NEW j \in Cached PROVE EntrySound(st2, j)
    <2>1. \A x \in Cached : EntrySound(st, x)
        BY <1>1 DEF Obeyed
    <2>2. CASE GetCachedInode(st, i) # {}
        <3>1. C = st.cache /\ \A k \in NodeIds : st2.nodes[k].ino = st.nodes[k].ino
            BY <1>2, <1>8, <2>2
        <3>2. \A k \in NodeIds : st.nodes[k].refs > 0 => st2.nodes[k].refs > 0
            BY <1>8
        <3> QED BY <1>1, <1>8, <2>1, <3>1, <3>2 DEF EntrySound
    <2>3. CASE GetCachedInode(st, i) = {}
        <3>1. /\ C = AddCachedInode(st.cache, n) /\ v.ino = i /\ st.nodes[n].refs = 0
              /\ \A x \in Cached : st.cache[x] # n
            BY <1>1, <1>2, <2>3 DEF Unlisted
        <3>2. /\ \A x \in Cached : C[x] = st.cache[x] \/ (st.cache[x] = Null /\ C[x] = n)
              /\ \A x, y \in Cached : C[x] # st.cache[x] /\ C[y] # st.cache[y] => x = y
            BY <1>1, <3>1, CacheGains
        <3>3. ASSUME NEW x \in Cached, C[x] = st.cache[x], C[x] # Null PROVE st2.nodes[C[x]] = st.nodes[st.cache[x]]
            BY <1>1, <1>8, <3>1, <3>3
        <3>4. ASSUME NEW x \in Cached, C[x] = st.cache[x], C[x] # Null, st.nodes[st.cache[x]].ino = i
              PROVE  i \in BehindRoot
            BY <2>3, <3>4 DEF GetCachedInode, Hits
        <3>5. ASSUME NEW x \in Cached, C[x] # st.cache[x] PROVE C[x] = n /\ st2.nodes[C[x]].ino = i
            BY <1>8, <3>1, <3>2, <3>5
        <3>6. CASE C[j] # st.cache[j]
            <4>1. C[j] = n /\ st2.nodes[C[j]].ino = i /\ st2.nodes[C[j]].refs > 0
                BY <1>8, <3>5, <3>6
            <4>2. ASSUME NEW x \in Cached \ {j}, C[x] # Null, st2.nodes[C[x]].ino = i PROVE i \in BehindRoot
                <5>1. C[x] = st.cache[x]
                    BY <3>2, <3>6
                <5>2. st.nodes[st.cache[x]].ino = i
                    BY <3>3, <4>2, <5>1
                <5> QED BY <3>4, <4>2, <5>1, <5>2
            <4> QED BY <1>8, <4>1, <4>2 DEF EntrySound
        <3>7. CASE C[j] = st.cache[j]
            <4>1. SUFFICES ASSUME C[j] # Null
                           PROVE  /\ st2.nodes[C[j]].ino \in Inodes
                                  /\ st2.nodes[C[j]].refs > 0 \/ st2.nodes[C[j]].ino \in BehindRoot
                                  /\ \A x \in Cached \ {j} : C[x] # Null /\ st2.nodes[C[x]].ino = st2.nodes[C[j]].ino
                                        => st2.nodes[C[j]].ino \in BehindRoot
                BY <1>8 DEF EntrySound
            <4>2. st2.nodes[C[j]] = st.nodes[st.cache[j]] /\ st.cache[j] # Null /\ EntrySound(st, j)
                BY <2>1, <3>3, <3>7, <4>1
            <4>3. ASSUME NEW x \in Cached \ {j}, C[x] # Null, st2.nodes[C[x]].ino = st2.nodes[C[j]].ino
                  PROVE  st2.nodes[C[j]].ino \in BehindRoot
                <5>1. CASE C[x] = st.cache[x]
                    <6>1. st2.nodes[C[x]] = st.nodes[st.cache[x]] /\ st.cache[x] # Null
                        BY <3>3, <4>3, <5>1
                    <6> QED BY <4>2, <4>3, <6>1 DEF EntrySound
                <5>2. CASE C[x] # st.cache[x]
                    <6>1. st.nodes[st.cache[j]].ino = i
                        BY <3>5, <4>2, <4>3, <5>2
                    <6> QED BY <3>4, <3>7, <4>1, <4>2, <6>1
                <5> QED BY <5>1, <5>2
            <4>4. st2.nodes[C[j]].ino \in Inodes /\ (st2.nodes[C[j]].refs > 0 \/ st2.nodes[C[j]].ino \in BehindRoot)
                BY <4>2 DEF EntrySound
            <4> QED BY <4>3, <4>4, Zenon
        <3> QED BY <3>6, <3>7
    <2> QED BY <2>2, <2>3
<1> QED BY <1>6, <1>10, <1>11, <1>12 DEF Obeyed

-----------------------------------------------------------------------------
\* Every step leaves it so, unless the cache names a deleted Inode.
LEMMA BecomesObeyed ==
    ASSUME NEW st, Obeyed(st), Become(st)
    PROVE  Obeyed(Now)'
<1>1. PICK st2 : st2 = Now'
    OBVIOUS
<1>2. st2.files = st.files /\ st2.nodes = st.nodes /\ st2.cache = st.cache
    BY <1>1 DEF Now, Become
<1>3. \A f \in FileIds : SamePipe(st.files[f], st2.files[f])
    BY <1>2 DEF SamePipe
<1>4. Obeyed(st2)
    BY <1>2, <1>3, PipesUntouched
<1> QED BY <1>1, <1>4

LEMMA NewIsUnlisted ==
    ASSUME FileInv, ~NamesDeleted, NEW n \in NodeIds, n \in UnusedNodes(Now)
    PROVE  Unlisted(Now, n)
<1>1. Now.nodes = nodes /\ Now.cache = cache
    BY DEF Now
<1>2. nodes[n].refs = 0
    BY <1>1 DEF UnusedNodes
<1> QED BY <1>1, <1>2, FilesAssumption DEF Unlisted, NamesDeleted

LEMMA OpenedObeys ==
    ASSUME FileInv, Obeyed(Now), ~NamesDeleted, NEW i \in Inodes, NEW f \in FileIds, NEW n \in NodeIds,
           f \in OneOf(UnusedFiles(Now)), n \in NodesFor(i)
    PROVE  Obeyed(VfsOpen(i, f, n))
<1>1. Exact(Now, fds, lost, lostRegion)
    BY DEF FileInv
<1>2. Now.files[f].kind = "none"
    <2>1. f \in UnusedFiles(Now)
        BY OneOfThem
    <2> QED BY <2>1 DEF UnusedFiles
<1>3. ASSUME GetCachedInode(Now, i) = {} PROVE Unlisted(Now, n)
    <2>1. n \in OneOf(UnusedNodes(Now))
        BY <1>3, Zenon DEF NodesFor
    <2>2. n \in UnusedNodes(Now)
        BY <2>1, OneOfThem
    <2> QED BY <2>2, NewIsUnlisted
<1> QED BY <1>1, <1>2, <1>3, OpenObeys, Zenon

\* Fork counts, and the files of pipes stay what they are.
LEMMA SharedObeys ==
    ASSUME FileInv, Obeyed(Now), NEW t
    PROVE  Obeyed([Now EXCEPT !.files = Shared(t)])
<1>1. PICK st, F, st2 : st = Now /\ F = Shared(t) /\ st2 = [st EXCEPT !.files = F]
    OBVIOUS
<1>2. st \in States /\ st.files = files /\ st2.files = F /\ st2.nodes = st.nodes /\ st2.cache = st.cache
    BY <1>1 DEF FileInv, Exact, States, Now
<1>3. ASSUME NEW f \in FileIds PROVE SamePipe(st.files[f], F[f])
    <2>1. PICK v, k : v = st.files[f] /\ k = v.refs + Naming(t, f)
        OBVIOUS
    <2>2. v \in FileRecords
        BY <1>2, <2>1 DEF States
    <2>3. F[f] = [v EXCEPT !.refs = k]
        BY <1>1, <1>2, <2>1 DEF Shared
    <2>4. F[f].kind = v.kind /\ F[f].of = v.of /\ F[f].writes = v.writes
        BY ONLY <2>2, <2>3 DEF FileRecords
    <2> QED BY <2>1, <2>4 DEF SamePipe
<1>4. \A f \in FileIds : SamePipe(st.files[f], st2.files[f])
    BY <1>2, <1>3
<1> QED BY <1>1, <1>2, <1>4, PipesUntouched

LEMMA FilesObey ==
    ASSUME FileInv, Obeyed(Now), ~NamesDeleted, FileCall
    PROVE  Obeyed(Now)'
<1>1. /\ Exact(Now, fds, lost, lostRegion) /\ fds \in Tables /\ lost \in [FileIds -> Nat] /\ maxFd \in Nat
      /\ Now \in States
    BY DEF FileInv, Exact
<1>2. ASSUME NEW t \in Users, NEW i \in Inodes, NEW f \in FileIds, NEW n \in NodeIds, Sys_Open(t, i, f, n)
      PROVE  Obeyed(Now)'
    <2>1. f \in OneOf(UnusedFiles(Now)) /\ n \in NodesFor(i)
        BY <1>2 DEF Sys_Open
    <2>2. PICK st, l2 : st = VfsOpen(i, f, n) /\ l2 = [lost EXCEPT ![f] = 1]
        OBVIOUS
    <2>3. Obeyed(st)
        BY <2>1, <2>2, OpenedObeys, Zenon
    <2>4. Exact(st, fds, l2, lostRegion)
        BY <2>1, <2>2, OpenStep, Zenon
    <2>5. st.files[f].kind # "none"
        BY <1>1, <2>2, <2>4, TokenBack DEF Exact, FileCounted
    <2>6. Obeyed(VfsClose(st, f))
        BY <2>3, <2>4, <2>5, CloseObeys, Zenon
    <2>7. Become(st) \/ Become(VfsClose(st, f))
        BY <1>2, <2>2 DEF Sys_Open
    <2> QED BY <2>3, <2>6, <2>7, BecomesObeyed
<1>3. ASSUME NEW t \in Users, NEW i \in Inodes, NEW f \in FileIds, NEW n \in NodeIds, ExecImage(t, i, f, n)
      PROVE  Obeyed(Now)'
    <2>1. f \in OneOf(UnusedFiles(Now)) /\ n \in NodesFor(i) /\ Become(VfsOpen(i, f, n))
        BY <1>3 DEF ExecImage
    <2>2. Obeyed(VfsOpen(i, f, n))
        BY <2>1, OpenedObeys, Zenon
    <2> QED BY <2>1, <2>2, BecomesObeyed
<1>4. ASSUME NEW t \in Users, NEW s \in FdNums, fds[t][s] # Null
      PROVE  fds[t][s] \in FileIds /\ Now.files[fds[t][s]].kind # "none"
    BY <1>1, <1>4 DEF Tables, Exact, Held
<1>5. ASSUME NEW t \in Users, NEW s \in FdNums, Sys_Close(t, s) PROVE Obeyed(Now)'
    <2>1. PICK f : f = fds[t][s]
        OBVIOUS
    <2>2. f \in FileIds /\ Now.files[f].kind # "none" /\ Become(Drop(Now, f))
        BY <1>4, <1>5, <2>1 DEF Sys_Close
    <2>3. Obeyed(Drop(Now, f))
        BY <1>1, <2>2, CloseObeys, Zenon
    <2> QED BY <2>2, <2>3, BecomesObeyed
<1>6. ASSUME NEW t \in Users, NEW old \in FdNums, NEW new \in FdNums, Sys_Dup2(t, old, new) PROVE Obeyed(Now)'
    <2>1. PICK g, f, closed : /\ g = fds[t][old] /\ f = fds[t][new]
                              /\ closed = IF fds[t][new] = Null THEN Now ELSE Drop(Now, fds[t][new])
        OBVIOUS
    <2>2. Become([closed EXCEPT !.files[g].refs = @ + 1]) /\ g # Null
        BY <1>6, <2>1 DEF Sys_Dup2
    <2>3. g \in FileIds
        BY <1>4, <2>1, <2>2
    <2>4. closed \in States /\ Obeyed(closed)
        <3>1. CASE f = Null
            BY <1>1, <2>1, <3>1
        <3>2. CASE f # Null
            <4>1. f \in FileIds /\ Now.files[f].kind # "none" /\ closed = Drop(Now, f)
                BY <1>4, <2>1, <3>2
            <4>2. Obeyed(closed)
                BY <1>1, <4>1, CloseObeys, Zenon
            <4>3. Exact(Drop(Now, f), [fds EXCEPT ![t][new] = Null], lost, lostRegion)
                <5>1. fds[t][new] = f
                    BY <2>1
                <5> QED BY <1>1, <4>1, <5>1, SlotCloses, Zenon
            <4> QED BY <4>1, <4>2, <4>3 DEF Exact
        <3> QED BY <3>1, <3>2
    <2>5. PICK k, v, st : /\ k = closed.files[g].refs + 1 /\ v = [closed.files[g] EXCEPT !.refs = k]
                          /\ st = [closed EXCEPT !.files[g].refs = @ + 1]
        OBVIOUS
    <2>6. closed.files[g] \in FileRecords
        BY <2>3, <2>4 DEF States
    <2>7. /\ v \in FileRecords /\ v.kind = closed.files[g].kind /\ v.of = closed.files[g].of
          /\ v.writes = closed.files[g].writes
        BY <2>5, <2>6 DEF FileRecords
    <2>8. st = [closed EXCEPT !.files[g] = v]
        BY <2>5
    <2>9. Parts(st, [closed.files EXCEPT ![g] = v], closed.nodes, closed.cache, closed.regions)
        <3>1. Parts([closed EXCEPT !.files[g] = v], [closed.files EXCEPT ![g] = v], closed.nodes, closed.cache,
                    closed.regions)
            BY <2>3, <2>4, <2>7, ItemSet, Zenon
        <3> QED BY <2>8, <3>1, Zenon
    <2>10. /\ st.nodes = closed.nodes /\ st.cache = closed.cache
           /\ \A x \in FileIds : SamePipe(closed.files[x], st.files[x])
        BY <2>4, <2>7, <2>9 DEF Parts, States, SamePipe
    <2>11. Obeyed(st) /\ Become(st)
        BY <2>2, <2>4, <2>5, <2>10, PipesUntouched
    <2> QED BY <2>11, BecomesObeyed
<1>7. ASSUME NEW t \in Users, NEW r \in FileIds, NEW w \in FileIds, NEW n \in NodeIds, Sys_Pipe(t, r, w, n)
      PROVE  Obeyed(Now)'
    <2>1. /\ r \in OneOf(UnusedFiles(Now)) /\ w \in OneOf(UnusedFiles(Now) \ {r}) /\ n \in OneOf(UnusedNodes(Now))
          /\ Become(PipeMade(Now, r, w, n))
        BY <1>7 DEF Sys_Pipe, PipeMade, PipeNode
    <2>2. r \in UnusedFiles(Now) /\ w \in UnusedFiles(Now) \ {r} /\ n \in UnusedNodes(Now)
        BY <2>1, OneOfThem
    <2>3. Now.files[r].kind = "none" /\ Now.files[w].kind = "none" /\ r # w
        BY <2>2 DEF UnusedFiles
    <2>4. Unlisted(Now, n)
        BY <2>2, NewIsUnlisted
    <2>5. Obeyed(PipeMade(Now, r, w, n))
        BY <1>1, <2>3, <2>4, PipeObeys, Zenon
    <2> QED BY <2>1, <2>5, BecomesObeyed
<1>8. ASSUME NEW t \in Users, NEW name \in Names, NEW create \in BOOLEAN, NEW f \in FileIds,
             Sys_ShmOpen(t, name, create, f)
      PROVE  Obeyed(Now)'
    <2>1. PICK r, opened, v : /\ r = Min(RegionsFor(name, create)) /\ opened = ShmMade(Now, name, r, f)
                              /\ v = NewFile("shm", r, FALSE)
        OBVIOUS
    <2>2. /\ f \in OneOf(UnusedFiles(Now)) /\ RegionsFor(name, create) # {}
          /\ \/ Become(opened)
             \/ Empty(t) = {} /\ Sacrificed(t) # {} /\ Become(VfsClose(opened, fds[t][Min(Sacrificed(t))]))
             \/ Become([opened EXCEPT !.files[f] = FreeFile])
        BY <1>8, <2>1, Zenon DEF Sys_ShmOpen, ShmMade
    <2>3. Now.files[f].kind = "none"
        <3>1. f \in UnusedFiles(Now)
            BY <2>2, OneOfThem
        <3> QED BY <3>1 DEF UnusedFiles
    <2>4. r \in RegionIds
        <3>1. RegionsFor(name, create) \subseteq RegionIds
            BY DEF RegionsFor, Named, UnusedRegions
        <3>2. RegionsFor(name, create) \subseteq Nat
            BY <3>1, FilesAssumption DEF RegionIds
        <3>3. r \in RegionsFor(name, create)
            BY <2>1, <2>2, <3>2, LeastMember
        <3> QED BY <3>1, <3>3
    <2>5. v \in FileRecords /\ v.kind = "shm" /\ FreeFile.kind = "none"
        BY <2>1, <2>4 DEF NewFile, FileRecords, FreeFile
    <2>6. \E o : Parts(opened, [Now.files EXCEPT ![f] = v], Now.nodes, Now.cache, o)
        <3>1. opened = [Now EXCEPT !.regions[r] = [name |-> name, refs |-> @.refs + 1], !.files[f] = v]
            BY <2>1, Zenon DEF ShmMade
        <3> QED BY <1>1, <2>4, <2>5, <3>1, RegionParts, Zenon
    <2>7. /\ opened \in States /\ opened.files = [Now.files EXCEPT ![f] = v]
          /\ opened.nodes = Now.nodes /\ opened.cache = Now.cache
        BY <2>6 DEF Parts
    <2>8. Obeyed(opened)
        <3>1. \A x \in FileIds : SamePipe(Now.files[x], opened.files[x])
            BY <1>1, <2>3, <2>5, <2>7 DEF States, SamePipe
        <3> QED BY <2>7, <3>1, PipesUntouched
    <2>9. Obeyed([opened EXCEPT !.files[f] = FreeFile])
        <3>1. PICK st : st = [opened EXCEPT !.files[f] = FreeFile]
            OBVIOUS
        <3>2. Parts(st, [opened.files EXCEPT ![f] = FreeFile], opened.nodes, opened.cache, opened.regions)
            BY <2>7, <3>1, FreeOnes, ItemSet, Zenon
        <3>3. /\ st.nodes = opened.nodes /\ st.cache = opened.cache
              /\ \A x \in FileIds : SamePipe(opened.files[x], st.files[x])
            BY <1>1, <2>5, <2>7, <3>2 DEF Parts, States, SamePipe
        <3> QED BY <2>8, <3>1, <3>3, PipesUntouched
    <2>10. ASSUME Empty(t) = {}, Sacrificed(t) # {} PROVE Obeyed(VfsClose(opened, fds[t][Min(Sacrificed(t))]))
        <3>1. PICK s, g : s = Min(Sacrificed(t)) /\ g = fds[t][s]
            OBVIOUS
        <3>2. s \in FdNums
            <4>1. Sacrificed(t) \subseteq FdNums
                BY DEF Sacrificed
            <4>2. s \in Sacrificed(t)
                BY <1>1, <2>10, <3>1, <4>1, FreeSlot
            <4> QED BY <4>1, <4>2
        <3>3. g # Null
            BY <2>10, <3>1, <3>2 DEF Empty
        <3>4. Exact(opened, fds, [lost EXCEPT ![f] = 1], lostRegion)
            BY <1>1, <2>1, <2>3, <2>4, ShmIsExact, Zenon
        <3>5. g \in FileIds /\ opened.files[g].kind # "none"
            BY <1>4, <3>1, <3>2, <3>3, <3>4 DEF Exact, Held
        <3>6. Obeyed(VfsClose(opened, g))
            BY <2>8, <3>4, <3>5, CloseObeys, Zenon
        <3> QED BY <3>1, <3>6
    <2> QED BY <2>2, <2>8, <2>9, <2>10, BecomesObeyed, Zenon
<1>9. ASSUME NEW t \in Users, NEW u \in Users, ForkFiles(t, u) \/ ForkFailed(t) PROVE Obeyed(Now)'
    <2>1. Become([Now EXCEPT !.files = Shared(t)])
        BY <1>9 DEF ForkFiles, ForkFailed
    <2> QED BY <2>1, SharedObeys, BecomesObeyed
<1>10. ASSUME NEW t \in Users, DestroyFiles(t) PROVE Obeyed(Now)'
    <2>1. PICK g : Dropping(t, g, maxFd) /\ Become(g[maxFd])
        BY <1>1, <1>10, DestroyDrops
    <2>2. \A k \in 0..maxFd : Exact(g[k], Cleared(t, k), lost, lostRegion)
        BY <2>1, DropsAreExact
    <2>3. PICK S : S = {k \in 0..maxFd : Obeyed(g[k])}
        OBVIOUS
    <2>4. 0 \in S
        BY <1>1, <2>1, <2>3 DEF Dropping
    <2>5. ASSUME NEW k \in 0..(maxFd - 1), k \in S PROVE k + 1 \in S
        <3>1. k \in FdNums /\ k \in Nat /\ k \in 0..maxFd /\ k + 1 \in 1..maxFd /\ k + 1 \in 0..maxFd /\ (k + 1) - 1 = k
            BY <1>1 DEF FdNums
        <3>2. PICK f, h : f = fds[t][k] /\ h = Cleared(t, k)
            OBVIOUS
        <3>3. g[k + 1] = IF f = Null THEN g[k] ELSE Drop(g[k], f)
            <4>1. g[k + 1] = DropAt(t, g[(k + 1) - 1], k + 1)
                BY <2>1, <3>1 DEF Dropping
            <4>2. g[k + 1] = IF fds[t][(k + 1) - 1] = Null THEN g[(k + 1) - 1]
                             ELSE Drop(g[(k + 1) - 1], fds[t][(k + 1) - 1])
                BY <4>1, Zenon DEF DropAt
            <4> QED BY <3>1, <3>2, <4>2
        <3>4. Obeyed(g[k])
            BY <2>3, <2>5
        <3>5. CASE f = Null
            BY <2>3, <3>1, <3>3, <3>4, <3>5
        <3>6. CASE f # Null
            <4>1. f \in FileIds
                BY <1>4, <3>1, <3>2, <3>6
            <4>2. Exact(g[k], h, lost, lostRegion)
                BY <2>2, <3>1, <3>2
            <4>3. h[t][k] = f
                <5>1. PICK H : H = [s \in FdNums |-> IF s < k THEN Null ELSE fds[t][s]]
                    OBVIOUS
                <5>2. h = [fds EXCEPT ![t] = H]
                    BY <3>2, <5>1, Zenon DEF Cleared
                <5>3. H[k] = f
                    BY <3>1, <3>2, <5>1
                <5> QED BY <1>1, <5>2, <5>3 DEF Tables
            <4>4. g[k].files[f].kind # "none"
                BY <3>1, <3>6, <4>2, <4>3 DEF Exact, Held
            <4>5. Obeyed(Drop(g[k], f))
                BY <3>4, <4>1, <4>2, <4>4, CloseObeys, Zenon
            <4> QED BY <2>3, <3>1, <3>3, <3>6, <4>5
        <3> QED BY <3>5, <3>6
    <2>6. 0..maxFd \subseteq S
        BY <1>1, <2>4, <2>5, InductionUpTo
    <2>7. Obeyed(g[maxFd])
        <3>1. maxFd \in 0..maxFd
            BY <1>1
        <3> QED BY <2>3, <2>6, <3>1
    <2> QED BY <2>1, <2>7, BecomesObeyed
<1> QED BY <1>2, <1>3, <1>5, <1>6, <1>7, <1>8, <1>9, <1>10 DEF FileCall

LEMMA FilesObeyInitially == FilesInit => Obeyed(Now)
<1> SUFFICES ASSUME FilesInit PROVE Obeyed(Now)
    OBVIOUS
<1>1. PICK f \in OneOf(FileIds), n \in OneOf(NodeIds) :
         /\ files = [x \in FileIds |-> IF x = f THEN NewFile("disk", n, FALSE) ELSE FreeFile]
         /\ nodes = [x \in NodeIds |-> IF x = n THEN [FreeNode EXCEPT !.ino = Tty, !.refs = 1] ELSE FreeNode]
         /\ cache = [i \in Cached |-> IF i = 1 THEN n ELSE Null]
    BY Zenon DEF FilesInit
<1>2. n \in NodeIds /\ Tty \in Inodes /\ PipeIno \notin Inodes
    BY OneOfThem, FilesAssumption
<1>3. PICK nd, v : nd = [FreeNode EXCEPT !.ino = Tty, !.refs = 1] /\ v = NewFile("disk", n, FALSE)
    OBVIOUS
<1>4. nd.ino = Tty /\ nd.refs = 1 /\ FreeNode.ino = NoName /\ FreeFile.kind = "none" /\ v.kind = "disk"
    BY <1>3 DEF FreeNode, FreeFile, NewFile
<1>5. PICK st : st = Now
    OBVIOUS
<1>6. /\ \A g \in FileIds : st.files[g].kind # "pipe"
      /\ st.nodes[n].ino = Tty /\ st.nodes[n].refs > 0
      /\ \A k \in NodeIds : st.nodes[k].ino \in {Tty, NoName}
      /\ \A i \in Cached : st.cache[i] = IF i = 1 THEN n ELSE Null
    <2>1. st.files = files /\ st.nodes = nodes /\ st.cache = cache
        BY <1>5 DEF Now
    <2>2. \A g \in FileIds : files[g] = v \/ files[g] = FreeFile
        BY <1>1, <1>3, Zenon
    <2>3. nodes[n] = nd /\ \A k \in NodeIds : nodes[k] = nd \/ nodes[k] = FreeNode
        BY <1>1, <1>2, <1>3, Zenon
    <2>4. \A i \in Cached : cache[i] = IF i = 1 THEN n ELSE Null
        BY <1>1, Zenon
    <2> QED BY <1>4, <2>1, <2>2, <2>3, <2>4
<1>7. OneWriter(st)
    BY <1>6 DEF OneWriter, WritesTo
<1>8. EofExact(st)
    <2>1. Tty # PipeIno /\ NoName # PipeIno
        BY <1>2 DEF NoName, PipeIno
    <2> QED BY <1>6, <2>1 DEF EofExact
<1>9. \A i \in Cached : EntrySound(st, i)
    BY <1>2, <1>6 DEF EntrySound
<1> QED BY <1>5, <1>7, <1>8, <1>9 DEF Obeyed

LEMMA ObeyedSays == Obeyed(Now) => CountsAreObeyed
<1> SUFFICES ASSUME Obeyed(Now) PROVE CountsAreObeyed
    OBVIOUS
<1>1. Now.files = files /\ Now.nodes = nodes /\ Now.cache = cache
    BY DEF Now
<1>2. EndOfFileIsExact
    <2>1. ASSUME NEW n \in NodeIds
          PROVE  (\E f \in LiveFiles : files[f].kind = "pipe" /\ files[f].of = n /\ files[f].writes)
                    <=> \E f \in FileIds : WritesTo(Now, f, n)
        BY <1>1 DEF LiveFiles, WritesTo
    <2>2. ASSUME NEW n \in NodeIds, nodes[n].ino = PipeIno
          PROVE  nodes[n].writeClosed <=> ~\E f \in FileIds : WritesTo(Now, f, n)
        BY <1>1, <2>2 DEF Obeyed, EofExact
    <2> QED BY <2>1, <2>2 DEF EndOfFileIsExact
<1>3. CacheIsSound
    BY <1>1 DEF Obeyed, EntrySound, CacheIsSound
<1> QED BY <1>2, <1>3 DEF CountsAreObeyed

\* The end of file of a pipe follows the last descriptor of its writing end, and the
\* inode cache holds one Inode of a number and no deleted one, but for the volume
\* behind rootfs (PipeFileSystem::Close, AddCachedInode, RemoveCachedInode).
THEOREM CountsStayObeyed == FilesSpec => []CountsAreObeyed
<1>1. FilesInit => FileInv /\ Obeyed(Now)
    BY FilesInitially, FilesObeyInitially
<1>2. FileInv /\ Obeyed(Now) /\ [FilesNext]_fileVars => FileInv' /\ Obeyed(Now)'
    <2> SUFFICES ASSUME FileInv, Obeyed(Now), [FilesNext]_fileVars PROVE Obeyed(Now)'
        BY FilesStep
    <2>1. CASE ~NamesDeleted /\ FileCall
        BY <2>1, FilesObey
    <2>2. CASE UNCHANGED fileVars
        <3>1. Become(Now)
            BY <2>2 DEF fileVars, objects, Become, Now
        <3> QED BY <3>1, BecomesObeyed
    <2> QED BY <2>1, <2>2 DEF FilesNext
<1>3. Obeyed(Now) => CountsAreObeyed
    BY ObeyedSays
<1> QED BY <1>1, <1>2, <1>3, PTL DEF FilesSpec

(***************************************************************************)
(* Names (Directories), for any tree on the volume, any detours and any    *)
(* sizes of names and buffers.  The loops of the code are recursive        *)
(* functions of the model; each is shown to have the values it describes   *)
(* (Recursion of NumberLemmas) and then followed by induction.  Text is    *)
(* STRING under a name, for the provers.                                   *)
(***************************************************************************)
Text == STRING

\* What a sequence of two parts, and the first elements of one, hold.
Joins(x, a, b) ==
    /\ Len(x) = Len(a) + Len(b)
    /\ \A i \in 1..Len(a) : x[i] = a[i]
    /\ \A i \in 1..Len(b) : x[Len(a) + i] = b[i]

\* A sequence of two parts holds the one and then the other.
LEMMA Joined ==
    ASSUME NEW S, NEW a \in Seq(S), NEW b \in Seq(S)
    PROVE  a \o b \in Seq(S) /\ Joins(a \o b, a, b)
<1>1. a \o b \in Seq(S) /\ Len(a \o b) = Len(a) + Len(b)
    OBVIOUS
<1>2. \A i \in 1..Len(a) : (a \o b)[i] = a[i]
    OBVIOUS
<1>3. ASSUME NEW i \in 1..Len(b) PROVE (a \o b)[Len(a) + i] = b[i]
    OBVIOUS
<1> QED BY <1>1, <1>2, <1>3 DEF Joins

\* What the part of a sequence from one place to another holds.
LEMMA Piece ==
    ASSUME NEW S, NEW s \in Seq(S), NEW i \in Nat, NEW j \in Nat, i <= j, j <= Len(s)
    PROVE  /\ SubSeq(s, i + 1, j) \in Seq(S) /\ Len(SubSeq(s, i + 1, j)) = j - i
           /\ \A k \in 1..(j - i) : SubSeq(s, i + 1, j)[k] = s[i + k]
<1>1. SubSeq(s, i + 1, j) \in Seq(S) /\ Len(SubSeq(s, i + 1, j)) = j - i
    OBVIOUS
<1>2. ASSUME NEW k \in 1..(j - i) PROVE SubSeq(s, i + 1, j)[k] = s[i + k]
    OBVIOUS
<1> QED BY <1>1, <1>2

\* The stack of CanonicalizePath.
Walks(h, parts) ==
    /\ h \in [0..Len(parts) -> Seq(Text)] /\ h[0] = <<>>
    /\ \A k \in 1..Len(parts) : h[k] = Component(h[k - 1], parts[k])
    /\ CanonicalizePath(parts) = h[Len(parts)]

\* A component leaves a stack of texts, and a name is pushed.
LEMMA ComponentTypes ==
    ASSUME NEW st \in Seq(Text), NEW part \in Text
    PROVE  /\ Component(st, part) \in Seq(Text)
           /\ IsName(part) => Component(st, part) = Append(st, part)
<1>1. Append(st, part) \in Seq(Text)
    OBVIOUS
<1>2. st # <<>> => Front(st) \in Seq(Text)
    BY DEF Front
<1> QED BY <1>1, <1>2 DEF Component, IsName

\* The recursion of CanonicalizePath has the stacks it describes.
LEMMA WalkExists ==
    ASSUME NEW parts \in Seq(Text)
    PROVE  \E h : Walks(h, parts)
<1>1. PICK n \in Nat : n = Len(parts)
    OBVIOUS
<1>2. PICK F : F = [x \in Seq(Text) \X (1..n) |-> Component(x[1], parts[x[2]])]
    OBVIOUS
<1>3. F \in [Seq(Text) \X (1..n) -> Seq(Text)]
    <2>1. ASSUME NEW x \in Seq(Text) \X (1..n) PROVE Component(x[1], parts[x[2]]) \in Seq(Text)
        <3>1. x[1] \in Seq(Text) /\ x[2] \in 1..n
            OBVIOUS
        <3>2. parts[x[2]] \in Text
            BY <1>1, <3>1
        <3> QED BY <3>1, <3>2, ComponentTypes
    <2> QED BY <1>2, <2>1
<1>4. <<>> \in Seq(Text)
    OBVIOUS
<1>5. PICK e \in [0..n -> Seq(Text)] : e[0] = <<>> /\ \A i \in 1..n : e[i] = F[<<e[i - 1], i>>]
    <2>1. PICK A, c : A = Seq(Text) /\ c = <<>>
        OBVIOUS
    <2>2. c \in A /\ F \in [A \X (1..n) -> A]
        BY <1>3, <1>4, <2>1
    <2>3. \E h \in [0..n -> A] : Solves(h, n, c, F)
        BY <2>2, Recursion
    <2> QED BY <2>1, <2>3 DEF Solves
<1>6. ASSUME NEW i \in 1..n PROVE e[i] = Component(e[i - 1], parts[i])
    <2>1. i - 1 \in 0..n
        OBVIOUS
    <2>2. <<e[i - 1], i>> \in Seq(Text) \X (1..n)
        BY <1>5, <2>1
    <2>3. F[<<e[i - 1], i>>] = Component(e[i - 1], parts[i])
        BY <1>2, <2>2
    <2> QED BY <1>5, <2>3
<1>7. PICK h : /\ h = (CHOOSE a : a = [k \in 0..n |-> IF k = 0 THEN <<>> ELSE Component(a[k - 1], parts[k])])
               /\ CanonicalizePath(parts) = h[n]
    BY <1>1, Zenon DEF CanonicalizePath
<1>8. e = [k \in 0..n |-> IF k = 0 THEN <<>> ELSE Component(e[k - 1], parts[k])]
    <2>0. PICK b : b = [k \in 0..n |-> IF k = 0 THEN <<>> ELSE Component(e[k - 1], parts[k])]
        OBVIOUS
    <2>1. ASSUME NEW k \in 0..n PROVE e[k] = b[k]
        <3>1. CASE k = 0
            BY <1>5, <2>0, <3>1
        <3>2. CASE k # 0
            <4>1. k \in 1..n
                BY <3>2
            <4> QED BY <1>6, <2>0, <3>2, <4>1
        <3> QED BY <3>1, <3>2
    <2>2. b = [k \in 0..n |-> b[k]]
        BY <2>0
    <2> QED BY <1>5, <2>0, <2>1, <2>2
<1>9. h = [k \in 0..n |-> IF k = 0 THEN <<>> ELSE Component(h[k - 1], parts[k])]
    BY <1>7, <1>8, Zenon
<1>10. PICK S : S = {k \in 0..n : h[k] = e[k]}
    OBVIOUS
<1>11. 0 \in S
    <2>1. 0 \in 0..n
        OBVIOUS
    <2>2. h[0] = <<>>
        BY <1>9, <2>1, Zenon
    <2> QED BY <1>5, <1>10, <2>1, <2>2
<1>12. ASSUME NEW k \in 0..(n - 1), k \in S PROVE k + 1 \in S
    <2>1. k + 1 \in 0..n /\ k + 1 # 0 /\ (k + 1) - 1 = k /\ k + 1 \in 1..n
        OBVIOUS
    <2>2. h[k + 1] = Component(h[(k + 1) - 1], parts[k + 1])
        BY <1>9, <2>1, Zenon
    <2>3. h[k] = e[k]
        BY <1>10, <1>12
    <2>4. e[k + 1] = Component(e[k], parts[k + 1])
        BY <1>6, <2>1
    <2>5. h[k + 1] = e[k + 1]
        BY <2>1, <2>2, <2>3, <2>4
    <2> QED BY <1>10, <2>1, <2>5
<1>13. h[n] = e[n]
    <2>1. n \in S
        <3>1. 0..n \subseteq S
            BY <1>11, <1>12, InductionUpTo
        <3>2. n \in 0..n
            OBVIOUS
        <3> QED BY <3>1, <3>2
    <2> QED BY <1>10, <2>1
<1>14. Walks(e, parts)
    BY <1>1, <1>5, <1>6, <1>7, <1>13 DEF Walks
<1> QED BY <1>14

\* What is assumed of volumes and detours.
Proper(path) == path \in Seq(Text) /\ \A i \in 1..Len(path) : IsName(path[i])

Levels(w, level) ==
    /\ level \in [0..Len(w) -> 0..Len(w)] /\ level[0] = 0 /\ level[Len(w)] = 0
    /\ \A k \in 1..Len(w) : level[k] = level[k - 1] + Down(w[k])

\* A directory has a path of names, and lists its dots and then names.
LEMMA VolumeKnown ==
    ASSUME NEW d \in DOMAIN Volume
    PROVE  /\ Proper(d) /\ Volume[d] \in Seq(Text) /\ Len(Volume[d]) >= 2
           /\ Volume[d][1] = "." /\ Volume[d][2] = ".."
           /\ \A i \in 3..Len(Volume[d]) : IsName(Volume[d][i])
           /\ \A i \in 1..Len(Volume[d]) : Volume[d][i] \in DOMAIN NameLen
<1>1. d \in Seq(Text) /\ (\A i \in DOMAIN d : IsName(d[i])) /\ Volume[d] \in Seq(Text)
    BY DirectoriesAssumption, Zenon DEF Text
<1>2. DOMAIN d = 1..Len(d)
    BY <1>1
<1>3. Proper(d)
    BY <1>1, <1>2 DEF Proper
<1> QED BY <1>1, <1>3, DirectoriesAssumption, Zenon

\* A detour has levels that begin and end at zero.
LEMMA DetourKnown ==
    ASSUME NEW w \in Detours
    PROVE  w \in Seq(Text) /\ \E level : Levels(w, level)
<1>1. w \in Seq(Text)
    BY DirectoriesAssumption, Zenon DEF Text
<1>2. PICK level \in [0..Len(w) -> 0..Len(w)] :
                /\ level[0] = 0 /\ level[Len(w)] = 0
                /\ \A k \in 1..Len(w) : level[k] = level[k - 1] + Down(w[k])
    BY DirectoriesAssumption, Zenon
<1>3. Levels(w, level)
    BY <1>2, Zenon DEF Levels
<1> QED BY <1>1, <1>3

\* One component moves the stack by Down, and leaves what is below the level it
\* started from alone.
LEMMA ComponentMoves ==
    ASSUME NEW st \in Seq(Text), NEW part \in Text, NEW c \in Nat, NEW l \in Nat, NEW m \in Nat,
           Len(st) = c + l, m = l + Down(part)
    PROVE  /\ Len(Component(st, part)) = c + m
           /\ \A i \in 1..c : Component(st, part)[i] = st[i]
<1>1. CASE part \in {"", "."}
    <2>1. Component(st, part) = st /\ Down(part) = 0
        BY <1>1 DEF Component, Down
    <2> QED BY <2>1
<1>2. CASE part = ".."
    <2>1. Down(part) = -1
        BY <1>2 DEF Down
    <2>2. l = m + 1 /\ Len(st) = c + m + 1
        BY <2>1
    <2>3. st # <<>>
        BY <2>2
    <2>4. Component(st, part) = Front(st)
        BY <1>2, <2>3 DEF Component
    <2>5. Len(st) - 1 = c + m /\ c + m \in Nat
        BY <2>2
    <2>6. Component(st, part) = SubSeq(st, 1, c + m)
        BY <2>4, <2>5 DEF Front
    <2>7. Len(SubSeq(st, 1, c + m)) = c + m /\ \A i \in 1..(c + m) : SubSeq(st, 1, c + m)[i] = st[i]
        BY <2>2, <2>5
    <2>8. \A i \in 1..c : i \in 1..(c + m)
        OBVIOUS
    <2> QED BY <2>6, <2>7, <2>8
<1>3. CASE part \notin {"", ".", ".."}
    <2>1. Component(st, part) = Append(st, part) /\ Down(part) = 1
        BY <1>3 DEF Component, Down
    <2>2. m = l + 1
        BY <2>1
    <2> QED BY <2>1, <2>2
<1> QED BY <1>1, <1>2, <1>3

\* The path written with a detour after its first c names.
Spelled(parts, path, w, c) ==
    /\ parts \in Seq(Text) /\ Len(parts) = Len(path) + Len(w)
    /\ \A j \in 1..c : parts[j] = path[j]
    /\ \A j \in 1..Len(w) : parts[c + j] = w[j]
    /\ \A j \in 1..(Len(path) - c) : parts[c + Len(w) + j] = path[c + j]

\* A spelling is the first names of the path, the detour and the other names.
LEMMA SpelledParts ==
    ASSUME NEW path \in Seq(Text), NEW w \in Seq(Text), NEW c \in 0..Len(path), NEW parts,
           parts = SubSeq(path, 1, c) \o w \o From(path, c)
    PROVE  Spelled(parts, path, w, c)
<1>1. PICK n \in Nat, m \in Nat : n = Len(path) /\ m = Len(w)
    OBVIOUS
<1>2. PICK a : a = SubSeq(path, 1, c)
    OBVIOUS
<1>3. PICK b : b = SubSeq(path, c + 1, n)
    OBVIOUS
<1>4. c \in Nat /\ c <= n
    BY <1>1
<1>5. a \in Seq(Text) /\ Len(a) = c /\ \A j \in 1..c : a[j] = path[j]
    BY <1>1, <1>2, <1>4
<1>6. b \in Seq(Text) /\ Len(b) = n - c /\ \A j \in 1..(n - c) : b[j] = path[c + j]
    BY <1>1, <1>3, <1>4
<1>7. PICK x : x = a \o w
    OBVIOUS
<1>a. x \in Seq(Text) /\ Joins(x, a, w)
    BY <1>5, <1>7, Joined
<1>8. x \in Seq(Text) /\ Len(x) = c + m
    BY <1>1, <1>5, <1>a DEF Joins
<1>9. \A j \in 1..c : x[j] = a[j]
    BY <1>5, <1>a DEF Joins
<1>10. ASSUME NEW j \in 1..m PROVE x[c + j] = w[j]
    BY <1>1, <1>5, <1>a DEF Joins
<1>11. parts = x \o b
    BY <1>1, <1>2, <1>3, <1>7 DEF From
<1>b. parts \in Seq(Text) /\ Joins(parts, x, b)
    BY <1>6, <1>8, <1>11, Joined
<1>12. parts \in Seq(Text) /\ Len(parts) = (c + m) + (n - c)
    BY <1>6, <1>8, <1>b DEF Joins
<1>13. \A j \in 1..(c + m) : parts[j] = x[j]
    BY <1>8, <1>b DEF Joins
<1>14. ASSUME NEW j \in 1..(n - c) PROVE parts[(c + m) + j] = b[j]
    BY <1>6, <1>8, <1>b DEF Joins
<1>15. (c + m) + (n - c) = n + m
    BY <1>4
<1>16. ASSUME NEW j \in 1..c PROVE parts[j] = path[j]
    <2>1. j \in 1..(c + m)
        BY <1>4
    <2> QED BY <1>5, <1>9, <1>13, <2>1
<1>17. ASSUME NEW j \in 1..m PROVE parts[c + j] = w[j]
    <2>1. c + j \in 1..(c + m)
        BY <1>4
    <2> QED BY <1>10, <1>13, <2>1
<1>18. ASSUME NEW j \in 1..(n - c) PROVE parts[c + m + j] = path[c + j]
    BY <1>6, <1>14
<1> QED BY <1>1, <1>12, <1>15, <1>16, <1>17, <1>18 DEF Spelled

\* A stack begins with the first k names of the path, and has l more.
Begins(path, st, k, l) == st \in Seq(Text) /\ Len(st) = k + l /\ \A i \in 1..k : st[i] = path[i]

\* Every spelling of a path is resolved to the path (CanonicalizePath).
LEMMA SpellingsAgree ==
    ASSUME NEW path, Proper(path), NEW parts \in Spellings(path)
    PROVE  CanonicalizePath(parts) = path
<1>1. PICK c \in 0..Len(path), w \in Detours : parts = SubSeq(path, 1, c) \o w \o From(path, c)
    BY DEF Spellings
<1>2. path \in Seq(Text) /\ w \in Seq(Text)
    BY DetourKnown DEF Proper
<1>3. PICK n \in Nat, m \in Nat : n = Len(path) /\ m = Len(w)
    BY <1>2
<1>4. PICK level : Levels(w, level)
    BY DetourKnown
<1>5. c \in Nat /\ c <= n
    BY <1>3
<1>6. /\ parts \in Seq(Text) /\ Len(parts) = n + m
      /\ \A j \in 1..c : parts[j] = path[j]
      /\ \A j \in 1..m : parts[c + j] = w[j]
      /\ \A j \in 1..(n - c) : parts[c + m + j] = path[c + j]
    <2>1. Spelled(parts, path, w, c)
        BY <1>1, <1>2, SpelledParts
    <2> QED BY <1>3, <2>1 DEF Spelled
<1>7. PICK h : Walks(h, parts)
    BY <1>6, WalkExists
<1>8. /\ h \in [0..(n + m) -> Seq(Text)] /\ h[0] = <<>> /\ CanonicalizePath(parts) = h[n + m]
      /\ \A k \in 1..(n + m) : h[k] = Component(h[k - 1], parts[k])
    BY <1>6, <1>7 DEF Walks
<1>a. ASSUME NEW st, NEW k \in Nat, k + 1 \in 1..n, Begins(path, st, k, 0)
      PROVE  Begins(path, Component(st, path[k + 1]), k + 1, 0)
    <2>1. path[k + 1] \in Text /\ IsName(path[k + 1])
        BY <1>2, <1>3, <1>a DEF Proper
    <2>2. Component(st, path[k + 1]) = Append(st, path[k + 1]) /\ st \in Seq(Text) /\ Len(st) = k
        <3>1. st \in Seq(Text) /\ Len(st) = k
            BY <1>a DEF Begins
        <3> QED BY <2>1, <3>1, ComponentTypes
    <2>3. \A i \in 1..k : st[i] = path[i]
        BY <1>a DEF Begins
    <2>4. PICK x : x = path[k + 1]
        OBVIOUS
    <2>5. /\ Append(st, x) \in Seq(Text) /\ Len(Append(st, x)) = k + 1 /\ Append(st, x)[k + 1] = x
          /\ \A i \in 1..k : Append(st, x)[i] = st[i]
        BY <2>1, <2>2, <2>4
    <2>6. ASSUME NEW i \in 1..(k + 1) PROVE Append(st, x)[i] = path[i]
        <3>1. i \in 1..k \/ i = k + 1
            OBVIOUS
        <3> QED BY <2>3, <2>4, <2>5, <3>1
    <2>7. Begins(path, Append(st, x), k + 1, 0)
        BY <2>5, <2>6 DEF Begins
    <2> QED BY <2>2, <2>4, <2>7
<1>9. Begins(path, h[c], c, 0)
    <2>1. PICK S : S = {k \in 0..c : Begins(path, h[k], k, 0)}
        OBVIOUS
    <2>2. 0 \in S
        BY <1>5, <1>8, <2>1 DEF Begins
    <2>3. ASSUME NEW k \in 0..(c - 1), k \in S PROVE k + 1 \in S
        <3>1. k + 1 \in 1..(n + m) /\ (k + 1) - 1 = k /\ k + 1 \in 1..c /\ k + 1 \in 1..n /\ k \in Nat /\ k + 1 \in 0..c
            BY <1>5
        <3>2. h[k + 1] = Component(h[k], path[k + 1])
            BY <1>6, <1>8, <3>1
        <3>3. Begins(path, h[k], k, 0)
            BY <2>1, <2>3
        <3>4. Begins(path, h[k + 1], k + 1, 0)
            BY <1>a, <3>1, <3>2, <3>3, Zenon
        <3> QED BY <2>1, <3>1, <3>4
    <2>4. 0..c \subseteq S
        BY <1>5, <2>2, <2>3, InductionUpTo
    <2>5. c \in 0..c
        BY <1>5
    <2> QED BY <2>1, <2>4, <2>5
<1>10. Begins(path, h[c + m], c, 0)
    <2>0. /\ level \in [0..m -> 0..m] /\ level[0] = 0 /\ level[m] = 0
          /\ \A k \in 1..m : level[k] = level[k - 1] + Down(w[k])
        BY <1>3, <1>4 DEF Levels
    <2>1. PICK S : S = {k \in 0..m : Begins(path, h[c + k], c, level[k])}
        OBVIOUS
    <2>2. 0 \in S
        <3>1. c + 0 = c /\ 0 \in 0..m
            BY <1>5
        <3> QED BY <1>9, <2>0, <2>1, <3>1
    <2>3. ASSUME NEW k \in 0..(m - 1), k \in S PROVE k + 1 \in S
        <3>1. /\ c + (k + 1) \in 1..(n + m) /\ (c + (k + 1)) - 1 = c + k /\ k + 1 \in 1..m /\ k + 1 \in 0..m
              /\ (k + 1) - 1 = k /\ k \in 0..m /\ c + k \in 0..(n + m)
            BY <1>5
        <3>2. h[c + (k + 1)] = Component(h[c + k], w[k + 1])
            BY <1>6, <1>8, <3>1
        <3>3. Begins(path, h[c + k], c, level[k])
            BY <2>1, <2>3
        <3>4. PICK st, part, l, e : st = h[c + k] /\ part = w[k + 1] /\ l = level[k] /\ e = level[k + 1]
            OBVIOUS
        <3>5. l \in Nat /\ e \in Nat /\ e = l + Down(part)
            BY <2>0, <3>1, <3>4
        <3>6. part \in Text
            BY <1>2, <1>3, <3>1, <3>4
        <3>7. st \in Seq(Text) /\ Len(st) = c + l /\ \A i \in 1..c : st[i] = path[i]
            BY <3>3, <3>4 DEF Begins
        <3>8. Len(Component(st, part)) = c + e /\ \A i \in 1..c : Component(st, part)[i] = st[i]
            BY <1>5, <3>5, <3>6, <3>7, ComponentMoves
        <3>9. Component(st, part) \in Seq(Text)
            BY <3>6, <3>7, ComponentTypes
        <3>10. Begins(path, h[c + (k + 1)], c, level[k + 1])
            BY <3>2, <3>4, <3>7, <3>8, <3>9 DEF Begins
        <3> QED BY <2>1, <3>1, <3>10
    <2>4. 0..m \subseteq S
        BY <2>2, <2>3, InductionUpTo
    <2>5. m \in 0..m
        OBVIOUS
    <2>6. Begins(path, h[c + m], c, level[m])
        BY <2>1, <2>4, <2>5
    <2> QED BY <2>0, <2>6
<1>11. Begins(path, h[n + m], n, 0)
    <2>1. PICK S : S = {k \in 0..(n - c) : Begins(path, h[c + m + k], c + k, 0)}
        OBVIOUS
    <2>2. 0 \in S
        <3>1. c + m + 0 = c + m /\ c + 0 = c /\ 0 \in 0..(n - c)
            BY <1>5
        <3> QED BY <1>10, <2>1, <3>1
    <2>3. ASSUME NEW k \in 0..((n - c) - 1), k \in S PROVE k + 1 \in S
        <3>1. /\ c + m + (k + 1) \in 1..(n + m) /\ (c + m + (k + 1)) - 1 = c + m + k /\ k + 1 \in 1..(n - c)
              /\ c + k \in Nat /\ (c + k) + 1 \in 1..n /\ c + (k + 1) = (c + k) + 1 /\ k + 1 \in 0..(n - c)
            BY <1>5
        <3>2. h[c + m + (k + 1)] = Component(h[c + m + k], path[(c + k) + 1])
            <4>1. parts[c + m + (k + 1)] = path[c + (k + 1)]
                BY <1>6, <3>1
            <4>2. h[c + m + (k + 1)] = Component(h[(c + m + (k + 1)) - 1], parts[c + m + (k + 1)])
                BY <1>8, <3>1
            <4> QED BY <3>1, <4>1, <4>2
        <3>3. Begins(path, h[c + m + k], c + k, 0)
            BY <2>1, <2>3
        <3>4. Begins(path, h[c + m + (k + 1)], (c + k) + 1, 0)
            BY <1>a, <3>1, <3>2, <3>3, Zenon
        <3> QED BY <2>1, <3>1, <3>4
    <2>4. n - c \in Nat
        BY <1>5
    <2>5. 0..(n - c) \subseteq S
        BY <2>2, <2>3, <2>4, InductionUpTo
    <2>6. n - c \in 0..(n - c) /\ c + m + (n - c) = n + m /\ c + (n - c) = n
        BY <1>5
    <2> QED BY <2>1, <2>5, <2>6
<1>12. PICK st : st = h[n + m]
    OBVIOUS
<1>13. st \in Seq(Text) /\ Len(st) = n /\ \A i \in 1..n : st[i] = path[i]
    BY <1>11, <1>12 DEF Begins
<1>14. st = path
    BY <1>2, <1>3, <1>13
<1> QED BY <1>8, <1>12, <1>14

-----------------------------------------------------------------------------
\* The mount points.
Mounts == {<<>>, <<"dev">>, <<"pipe">>}

\* MountFS keeps what is mounted.
LEMMA MountAdds ==
    ASSUME NEW S, NEW table \in Seq(S), NEW m \in S
    PROVE  MountFS(table, m) \in Seq(S) /\ ToSet(table) \subseteq ToSet(MountFS(table, m))
<1>1. Append(table, m) \in Seq(S)
    OBVIOUS
<1>2. ToSet(table) \subseteq ToSet(Append(table, m))
    <2>1. DOMAIN table = 1..Len(table) /\ DOMAIN Append(table, m) = 1..(Len(table) + 1)
        OBVIOUS
    <2>2. ASSUME NEW j \in 1..Len(table) PROVE j \in DOMAIN Append(table, m) /\ Append(table, m)[j] = table[j]
        BY <2>1
    <2> QED BY <2>1, <2>2 DEF ToSet
<1> QED BY <1>1, <1>2, Zenon DEF MountFS

\* The table of KernelMain: the root is in it, and nothing but the three mounts.
LEMMA MountsKnown ==
    /\ MountPoints \in Seq(Mounts) /\ Root \in ToSet(MountPoints)
    /\ ToSet(MountPoints) = {MountPoints[i] : i \in 1..Len(MountPoints)}
    /\ ToSet(MountPoints) \subseteq Mounts
<1>1. <<>> \in Seq(Mounts) /\ {<<>>, <<"dev">>, <<"pipe">>} \subseteq Mounts
    BY DEF Mounts
<1>2. PICK a : a = MountFS(<<>>, Root)
    OBVIOUS
<1>3. a = <<Root>>
    <2>1. Append(<<>>, Root) = <<Root>>
        OBVIOUS
    <2>2. ~(Len(<<>>) >= MaxMountPoints) /\ ToSet(<<>>) = {}
        BY DirectoriesAssumption DEF ToSet
    <2> QED BY <1>2, <2>1, <2>2 DEF MountFS
<1>4. a \in Seq(Mounts) /\ Root \in ToSet(a)
    BY <1>1, <1>3 DEF ToSet, Root
<1>5. PICK b : b = MountFS(a, <<"dev">>)
    OBVIOUS
<1>6. b \in Seq(Mounts) /\ ToSet(a) \subseteq ToSet(b)
    BY <1>1, <1>4, <1>5, MountAdds
<1>7. PICK c : c = MountFS(b, <<"pipe">>)
    OBVIOUS
<1>8. c \in Seq(Mounts) /\ ToSet(b) \subseteq ToSet(c)
    BY <1>1, <1>6, <1>7, MountAdds
<1>9. MountPoints = c
    BY <1>2, <1>5, <1>7 DEF MountPoints
<1>10. DOMAIN c = 1..Len(c) /\ \A i \in 1..Len(c) : c[i] \in Mounts
    BY <1>8
<1> QED BY <1>4, <1>6, <1>8, <1>9, <1>10 DEF ToSet

\* The first element of a sequence, as a sequence.
LEMMA FirstAlone ==
    ASSUME NEW S, NEW s \in Seq(S), Len(s) >= 1
    PROVE  SubSeq(s, 1, 1) = <<s[1]>>
<1>1. PICK a, b : a = SubSeq(s, 1, 1) /\ b = <<s[1]>>
    OBVIOUS
<1>2. a \in Seq(S) /\ Len(a) = 1 /\ a[1] = s[1]
    BY <1>1
<1>3. b \in Seq(S) /\ Len(b) = 1 /\ b[1] = s[1]
    BY <1>1
<1>4. \A i \in 1..1 : i = 1
    OBVIOUS
<1>5. a = b
    BY <1>2, <1>3, <1>4
<1> QED BY <1>1, <1>5

\* A mount point is a prefix of a path if the path begins with its name.
LEMMA MountPrefix ==
    ASSUME NEW path \in Seq(Text)
    PROVE  /\ IsPrefix(Root, path) /\ Len(Root) = 0
           /\ \A x : Len(<<x>>) = 1 /\ (IsPrefix(<<x>>, path) <=> path # <<>> /\ path[1] = x)
<1>1. IsPrefix(Root, path) /\ Len(Root) = 0
    BY DEF IsPrefix, Root
<1>2. ASSUME NEW x PROVE Len(<<x>>) = 1 /\ (IsPrefix(<<x>>, path) <=> path # <<>> /\ path[1] = x)
    <2>1. Len(<<x>>) = 1 /\ SubSeq(<<x>>, 1, 1) = <<x>>
        <3>1. PICK s : s = <<x>>
            OBVIOUS
        <3>2. s \in Seq({x}) /\ Len(s) = 1 /\ s[1] = x
            BY <3>1
        <3>3. SubSeq(s, 1, 1) = <<s[1]>>
            BY <3>2, FirstAlone
        <3> QED BY <3>1, <3>2, <3>3
    <2>2. CASE path = <<>>
        BY <2>1, <2>2 DEF IsPrefix
    <2>3. CASE path # <<>>
        <3>1. Len(path) \in Nat /\ 1 <= Len(path)
            BY <2>3
        <3>2. SubSeq(path, 1, 1) = <<path[1]>>
            BY <3>1, FirstAlone
        <3>3. <<x>> = <<path[1]>> <=> path[1] = x
            OBVIOUS
        <3> QED BY <2>1, <2>3, <3>1, <3>2, <3>3 DEF IsPrefix
    <2> QED BY <2>2, <2>3
<1> QED BY <1>1, <1>2

\* FindMountPoint finds Root unless another mount point stands above the path.
LEMMA MountFound ==
    ASSUME NEW path \in Seq(Text)
    PROVE  /\ FindMountPoint(path) \in ToSet(MountPoints) /\ IsPrefix(FindMountPoint(path), path)
           /\ \A k \in ToSet(MountPoints) : IsPrefix(k, path) => Len(k) <= Len(FindMountPoint(path))
<1>1. PICK M : M = ToSet(MountPoints)
    OBVIOUS
<1>2. M \subseteq Mounts /\ Root \in M
    BY <1>1, MountsKnown
<1>3. ASSUME NEW k \in M PROVE Len(k) \in {0, 1} /\ (k = Root \/ Len(k) = 1)
    BY <1>2, MountPrefix DEF Mounts, Root
<1>4. \E m \in M : IsPrefix(m, path) /\ \A k \in M : IsPrefix(k, path) => Len(k) <= Len(m)
    <2>1. CASE \E m \in M : IsPrefix(m, path) /\ Len(m) = 1
        <3>1. PICK m \in M : IsPrefix(m, path) /\ Len(m) = 1
            BY <2>1
        <3>2. ASSUME NEW k \in M PROVE Len(k) <= Len(m)
            <4>1. Len(k) = 0 \/ Len(k) = 1
                BY <1>3
            <4> QED BY <3>1, <4>1
        <3> QED BY <3>1, <3>2
    <2>2. CASE ~\E m \in M : IsPrefix(m, path) /\ Len(m) = 1
        <3>1. ASSUME NEW k \in M, IsPrefix(k, path) PROVE Len(k) <= Len(Root)
            <4>1. k = Root
                BY <1>3, <2>2, <3>1
            <4> QED BY <4>1, MountPrefix
        <3>2. IsPrefix(Root, path)
            BY MountPrefix
        <3> QED BY <1>2, <3>1, <3>2
    <2> QED BY <2>1, <2>2
<1>5. FindMountPoint(path) = CHOOSE m \in M : IsPrefix(m, path) /\ \A k \in M : IsPrefix(k, path) => Len(k) <= Len(m)
    BY <1>1, Zenon DEF FindMountPoint
<1>6. /\ FindMountPoint(path) \in M /\ IsPrefix(FindMountPoint(path), path)
      /\ \A k \in M : IsPrefix(k, path) => Len(k) <= Len(FindMountPoint(path))
    BY <1>4, <1>5, Zenon
<1> QED BY <1>1, <1>6, Zenon

\* A path belongs to Root if it begins with the name of no other mount point.
LEMMA BelowRoot ==
    ASSUME NEW path \in Seq(Text)
    PROVE  FindMountPoint(path) = Root
             <=> \A k \in ToSet(MountPoints) : k = Root \/ path = <<>> \/ path[1] # k[1]
<1>1. PICK M, f : M = ToSet(MountPoints) /\ f = FindMountPoint(path)
    OBVIOUS
<1>2. M \subseteq Mounts /\ Root \in M
    BY <1>1, MountsKnown
<1>3. /\ f \in M /\ IsPrefix(f, path)
      /\ \A k \in M : IsPrefix(k, path) => Len(k) <= Len(f)
    BY <1>1, MountFound, Zenon
<1>4. ASSUME NEW k \in M, k # Root
      PROVE  k = <<k[1]>>
    BY <1>2, <1>4 DEF Mounts, Root
<1>5. ASSUME NEW k \in M, k # Root
      PROVE  Len(k) = 1 /\ (IsPrefix(k, path) <=> path # <<>> /\ path[1] = k[1])
    <2>1. PICK x : x = k[1]
        OBVIOUS
    <2>2. k = <<x>>
        BY <1>4, <1>5, <2>1
    <2>3. Len(<<x>>) = 1 /\ (IsPrefix(<<x>>, path) <=> path # <<>> /\ path[1] = x)
        BY MountPrefix
    <2> QED BY <2>1, <2>2, <2>3
<1>6. Len(Root) = 0
    BY MountPrefix
<1>7. CASE f = Root
    <2>1. ASSUME NEW k \in M, k # Root, path # <<>>, path[1] = k[1] PROVE FALSE
        <3>1. Len(k) = 1 /\ IsPrefix(k, path)
            BY <1>5, <2>1
        <3>2. Len(k) <= Len(f)
            BY <1>3, <3>1
        <3> QED BY <1>6, <1>7, <3>1, <3>2
    <2> QED BY <1>1, <1>7, <2>1
<1>8. CASE f # Root
    BY <1>1, <1>3, <1>5, <1>8
<1> QED BY <1>7, <1>8

\* The names of the mount points, shown by the loop of RootFS::ReadDir.
MountWords == {"dev", "pipe"}

\* One turn of the loop over the mount points shows the name and keeps the others.
LEMMA ShownKeeps ==
    ASSUME NEW names \in Seq(MountWords), NEW m \in Mounts
    PROVE  /\ Shown(names, m) \in Seq(MountWords) /\ ToSet(names) \subseteq ToSet(Shown(names, m))
           /\ m # Root => m[1] \in ToSet(Shown(names, m))
<1>1. ASSUME m # Root PROVE Head(m) = m[1] /\ m[1] \in MountWords
    BY <1>1 DEF Mounts, Root, MountWords
<1>2. CASE m = Root \/ Head(m) \in ToSet(names)
    <2>1. Shown(names, m) = names
        BY <1>2 DEF Shown
    <2> QED BY <1>1, <1>2, <2>1
<1>3. CASE ~(m = Root \/ Head(m) \in ToSet(names))
    <2>1. PICK x \in MountWords : x = Head(m) /\ x = m[1]
        BY <1>1, <1>3
    <2>2. Shown(names, m) = Append(names, x)
        BY <1>3, <2>1 DEF Shown
    <2>3. Append(names, x) \in Seq(MountWords)
        OBVIOUS
    <2>4. DOMAIN names = 1..Len(names) /\ DOMAIN Append(names, x) = 1..(Len(names) + 1) /\ Len(names) \in Nat
        OBVIOUS
    <2>5. Append(names, x)[Len(names) + 1] = x /\ Len(names) + 1 \in 1..(Len(names) + 1)
        BY <2>4
    <2>6. ASSUME NEW j \in 1..Len(names) PROVE j \in 1..(Len(names) + 1) /\ Append(names, x)[j] = names[j]
        BY <2>4
    <2> QED BY <2>1, <2>2, <2>3, <2>4, <2>5, <2>6 DEF ToSet
<1> QED BY <1>2, <1>3

\* The name of every mount point but the root is shown.
LEMMA NamesShown ==
    /\ MountNames \in Seq(MountWords)
    /\ \A k \in ToSet(MountPoints) : k # Root => k[1] \in ToSet(MountNames)
<1>1. PICK n \in Nat : n = Len(MountPoints)
    BY MountsKnown
<1>a. \A i \in 1..n : MountPoints[i] \in Mounts
    BY <1>1, MountsKnown
<1>2. PICK F : F = [x \in Seq(MountWords) \X (1..n) |-> Shown(x[1], MountPoints[x[2]])]
    OBVIOUS
<1>3. F \in [Seq(MountWords) \X (1..n) -> Seq(MountWords)]
    <2>1. ASSUME NEW x \in Seq(MountWords) \X (1..n) PROVE Shown(x[1], MountPoints[x[2]]) \in Seq(MountWords)
        <3>1. x[1] \in Seq(MountWords) /\ x[2] \in 1..n
            OBVIOUS
        <3>2. MountPoints[x[2]] \in Mounts
            BY <1>a, <3>1
        <3> QED BY <3>1, <3>2, ShownKeeps
    <2> QED BY <1>2, <2>1
<1>4. <<>> \in Seq(MountWords)
    OBVIOUS
<1>5. PICK e \in [0..n -> Seq(MountWords)] : e[0] = <<>> /\ \A i \in 1..n : e[i] = F[<<e[i - 1], i>>]
    <2>1. PICK A, c : A = Seq(MountWords) /\ c = <<>>
        OBVIOUS
    <2>2. c \in A /\ F \in [A \X (1..n) -> A]
        BY <1>3, <1>4, <2>1
    <2>3. \E h \in [0..n -> A] : Solves(h, n, c, F)
        BY <2>2, Recursion
    <2> QED BY <2>1, <2>3 DEF Solves
<1>6. ASSUME NEW i \in 1..n PROVE e[i] = Shown(e[i - 1], MountPoints[i])
    <2>1. i - 1 \in 0..n
        OBVIOUS
    <2>2. <<e[i - 1], i>> \in Seq(MountWords) \X (1..n)
        BY <1>5, <2>1
    <2>3. F[<<e[i - 1], i>>] = Shown(e[i - 1], MountPoints[i])
        BY <1>2, <2>2
    <2> QED BY <1>5, <2>3
<1>7. PICK h : /\ h = (CHOOSE a : a = [k \in 0..n |-> IF k = 0 THEN <<>> ELSE Shown(a[k - 1], MountPoints[k])])
               /\ MountNames = h[n]
    BY <1>1, Zenon DEF MountNames
<1>8. e = [k \in 0..n |-> IF k = 0 THEN <<>> ELSE Shown(e[k - 1], MountPoints[k])]
    <2>0. PICK b : b = [k \in 0..n |-> IF k = 0 THEN <<>> ELSE Shown(e[k - 1], MountPoints[k])]
        OBVIOUS
    <2>1. ASSUME NEW k \in 0..n PROVE e[k] = b[k]
        <3>1. CASE k = 0
            BY <1>5, <2>0, <3>1
        <3>2. CASE k # 0
            <4>1. k \in 1..n
                BY <3>2
            <4> QED BY <1>6, <2>0, <3>2, <4>1
        <3> QED BY <3>1, <3>2
    <2>2. b = [k \in 0..n |-> b[k]]
        BY <2>0
    <2> QED BY <1>5, <2>0, <2>1, <2>2
<1>9. h = [k \in 0..n |-> IF k = 0 THEN <<>> ELSE Shown(h[k - 1], MountPoints[k])]
    BY <1>7, <1>8, Zenon
<1> DEFINE Good(k) == h[k] \in Seq(MountWords) /\ \A i \in 1..k : MountPoints[i] # Root => MountPoints[i][1] \in ToSet(h[k])
<1>10. PICK S : S = {k \in 0..n : Good(k)}
    OBVIOUS
<1>11. 0 \in S
    <2>1. 0 \in 0..n
        OBVIOUS
    <2>2. h[0] = <<>>
        BY <1>9, <2>1, Zenon
    <2>3. ~\E i \in 1..0 : TRUE
        OBVIOUS
    <2>4. h[0] \in Seq(MountWords)
        BY <1>4, <2>2, Zenon
    <2>5. Good(0)
        BY <2>3, <2>4, Zenon
    <2> QED BY <1>10, <2>1, <2>5, Zenon
<1>12. ASSUME NEW k \in 0..(n - 1), k \in S PROVE k + 1 \in S
    <2>1. k + 1 \in 0..n /\ k + 1 # 0 /\ (k + 1) - 1 = k /\ k + 1 \in 1..n
        OBVIOUS
    <2>2. h[k + 1] = Shown(h[(k + 1) - 1], MountPoints[k + 1])
        BY <1>9, <2>1, Zenon
    <2>3. PICK names, m, new : names = h[k] /\ m = MountPoints[k + 1] /\ new = h[k + 1]
        OBVIOUS
    <2>4. names \in Seq(MountWords) /\ m \in Mounts /\ new = Shown(names, m)
        BY <1>a, <1>10, <1>12, <2>1, <2>2, <2>3
    <2>5. /\ new \in Seq(MountWords) /\ ToSet(names) \subseteq ToSet(new)
          /\ m # Root => m[1] \in ToSet(new)
        BY <2>4, ShownKeeps
    <2>6. ASSUME NEW i \in 1..(k + 1), MountPoints[i] # Root PROVE MountPoints[i][1] \in ToSet(new)
        <3>1. CASE i = k + 1
            BY <2>3, <2>5, <2>6, <3>1
        <3>2. CASE i # k + 1
            <4>1. i \in 1..k
                BY <3>2
            <4>2. MountPoints[i][1] \in ToSet(names)
                BY <1>10, <1>12, <2>3, <2>6, <4>1
            <4> QED BY <2>5, <4>2
        <3> QED BY <3>1, <3>2
    <2>7. Good(k + 1)
        BY <2>3, <2>5, <2>6
    <2> QED BY <1>10, <2>1, <2>7
<1>13. Good(n)
    <2>1. 0..n \subseteq S
        BY <1>11, <1>12, InductionUpTo
    <2>2. n \in 0..n
        OBVIOUS
    <2> QED BY <1>10, <2>1, <2>2
<1> QED BY <1>1, <1>7, <1>13, MountsKnown

\* Names whose sizes are known, and the room they need.
Sized(names) == names \in Seq(Text) /\ \A i \in 1..Len(names) : names[i] \in DOMAIN NameLen

\* The room that names need is counted from zero.
LEMMA NeedKnown ==
    ASSUME NEW names, Sized(names)
    PROVE  Need(names, RawSize) \in [0..Len(names) -> Nat] /\ Need(names, RawSize)[0] = 0
<1>1. PICK n \in Nat : n = Len(names)
    BY DEF Sized
<1>2. PICK z : z = [i \in 1..n |-> RawSize[names[i]]]
    OBVIOUS
<1>3. ASSUME NEW i \in 1..n PROVE z[i] \in Nat /\ z[i] = RawSize[names[i]]
    <2>1. names[i] \in DOMAIN NameLen
        BY <1>1 DEF Sized
    <2>2. NameLen[names[i]] \in Nat
        BY <2>1, DirectoriesAssumption
    <2> QED BY <1>2, <2>1, <2>2 DEF RawSize
<1>4. PICK F : F = [x \in Nat \X (1..n) |-> x[1] + z[x[2]]]
    OBVIOUS
<1>5. F \in [Nat \X (1..n) -> Nat]
    BY <1>3, <1>4
<1>6. PICK e \in [0..n -> Nat] : e[0] = 0 /\ \A i \in 1..n : e[i] = F[<<e[i - 1], i>>]
    <2>1. \E h \in [0..n -> Nat] : Solves(h, n, 0, F)
        BY <1>5, Recursion
    <2> QED BY <2>1 DEF Solves
<1>7. ASSUME NEW i \in 1..n PROVE e[i] = e[i - 1] + RawSize[names[i]]
    <2>1. i - 1 \in 0..n
        OBVIOUS
    <2>2. <<e[i - 1], i>> \in Nat \X (1..n)
        BY <1>6, <2>1
    <2>3. F[<<e[i - 1], i>>] = e[i - 1] + z[i]
        BY <1>4, <2>2
    <2> QED BY <1>3, <1>6, <2>3
<1>8. PICK h : /\ h = (CHOOSE a : a = [k \in 0..n |-> IF k = 0 THEN 0 ELSE a[k - 1] + RawSize[names[k]]])
               /\ Need(names, RawSize) = h
    BY <1>1, Zenon DEF Need
<1>9. e = [k \in 0..n |-> IF k = 0 THEN 0 ELSE e[k - 1] + RawSize[names[k]]]
    <2>0. PICK b : b = [k \in 0..n |-> IF k = 0 THEN 0 ELSE e[k - 1] + RawSize[names[k]]]
        OBVIOUS
    <2>1. ASSUME NEW k \in 0..n PROVE e[k] = b[k]
        <3>1. CASE k = 0
            BY <1>6, <2>0, <3>1
        <3>2. CASE k # 0
            <4>1. k \in 1..n
                BY <3>2
            <4> QED BY <1>7, <2>0, <3>2, <4>1
        <3> QED BY <3>1, <3>2
    <2>2. b = [k \in 0..n |-> b[k]]
        BY <2>0
    <2> QED BY <1>6, <2>0, <2>1, <2>2
<1>10. h = [k \in 0..n |-> IF k = 0 THEN 0 ELSE h[k - 1] + RawSize[names[k]]]
    BY <1>8, <1>9, Zenon
<1>11. PICK S : S = {k \in 0..n : h[k] = e[k]}
    OBVIOUS
<1>12. h[0] = 0
    <2>1. 0 \in 0..n
        OBVIOUS
    <2> QED BY <1>10, <2>1, Zenon
<1>13. ASSUME NEW k \in 0..(n - 1), k \in S PROVE k + 1 \in S
    <2>1. k + 1 \in 0..n /\ k + 1 # 0 /\ (k + 1) - 1 = k /\ k + 1 \in 1..n
        OBVIOUS
    <2>2. h[k + 1] = h[(k + 1) - 1] + RawSize[names[k + 1]]
        BY <1>10, <2>1, Zenon
    <2>3. h[k] = e[k]
        BY <1>11, <1>13
    <2>4. e[k + 1] = e[k] + RawSize[names[k + 1]]
        BY <1>7, <2>1
    <2> QED BY <1>11, <2>1, <2>2, <2>3, <2>4
<1>14. ASSUME NEW k \in 0..n PROVE h[k] \in Nat
    <2>1. 0 \in S
        BY <1>6, <1>11, <1>12
    <2>2. 0..n \subseteq S
        BY <1>13, <2>1, InductionUpTo
    <2> QED BY <1>6, <1>11, <2>2
<1>15. h \in [0..n -> Nat]
    <2>1. h = [k \in 0..n |-> h[k]]
        <3>1. PICK b : b = [k \in 0..n |-> IF k = 0 THEN 0 ELSE h[k - 1] + RawSize[names[k]]]
            OBVIOUS
        <3>2. b = [k \in 0..n |-> b[k]]
            BY <3>1
        <3> QED BY <1>10, <3>1, <3>2, Zenon
    <2> QED BY <1>14, <2>1
<1> QED BY <1>1, <1>8, <1>12, <1>15

\* As many names as fit are some of them, and leave room.
LEMMA FittingKnown ==
    ASSUME NEW names, Sized(names), NEW room \in Nat
    PROVE  Fitting(names, RawSize, room) \in 0..Len(names) /\ RoomAfter(names, room) \in Nat
<1>1. PICK n \in Nat : n = Len(names)
    BY DEF Sized
<1>2. PICK need \in [0..n -> Nat] : need = Need(names, RawSize) /\ need[0] = 0
    BY <1>1, NeedKnown
<1>3. PICK S : S = {k \in 0..n : need[k] <= room}
    OBVIOUS
<1>4. S \subseteq 0..n /\ 0 \in S
    BY <1>2, <1>3
<1>5. Max(S) \in S
    BY <1>4, GreatestMember
<1>6. Fitting(names, RawSize, room) = Max(S)
    BY <1>1, <1>2, <1>3, Zenon DEF Fitting
<1>7. PICK k : k = Max(S)
    OBVIOUS
<1>8. k \in 0..n /\ need[k] <= room /\ need[k] \in Nat
    BY <1>2, <1>3, <1>5, <1>7
<1>9. RoomAfter(names, room) = room - need[k]
    BY <1>2, <1>6, <1>7 DEF RoomAfter
<1> QED BY <1>1, <1>6, <1>7, <1>8, <1>9

\* What is read of a list goes on at a position of it.
GoesOn(raw, list, at) ==
    /\ raw \in Seq(Text) /\ at + Len(raw) <= Len(list)
    /\ \A i \in 1..Len(raw) : raw[i] = list[at + i]

\* What is taken from a position goes on there, and leaves room.
LEMMA TakenGoesOn ==
    ASSUME NEW list, Sized(list), NEW at \in 0..Len(list), NEW room \in Nat
    PROVE  /\ GoesOn(Taken(From(list, at), RawSize, room), list, at)
           /\ RoomAfter(From(list, at), room) \in Nat
<1>1. list \in Seq(Text)
    BY DEF Sized
<1>2. PICK n \in Nat : n = Len(list)
    BY <1>1
<1>3. at \in Nat /\ at <= n
    BY <1>2
<1>4. PICK rest : rest = SubSeq(list, at + 1, n)
    OBVIOUS
<1>5. rest \in Seq(Text) /\ Len(rest) = n - at /\ \A k \in 1..(n - at) : rest[k] = list[at + k]
    BY <1>1, <1>2, <1>3, <1>4, Piece
<1>6. Sized(rest)
    <2>1. ASSUME NEW i \in 1..Len(rest) PROVE rest[i] \in DOMAIN NameLen
        <3>1. i \in 1..(n - at) /\ at + i \in 1..n
            BY <1>3, <1>5
        <3> QED BY <1>2, <1>5, <3>1 DEF Sized
    <2> QED BY <1>5, <2>1 DEF Sized
<1>7. PICK k : k = Fitting(rest, RawSize, room)
    OBVIOUS
<1>8. k \in 0..(n - at) /\ RoomAfter(rest, room) \in Nat
    BY <1>5, <1>6, <1>7, FittingKnown
<1>9. PICK raw : raw = SubSeq(rest, 1, k)
    OBVIOUS
<1>10. raw \in Seq(Text) /\ Len(raw) = k /\ \A i \in 1..k : raw[i] = rest[i]
    BY <1>3, <1>5, <1>8, <1>9
<1>11. ASSUME NEW i \in 1..k PROVE raw[i] = list[at + i]
    <2>1. i \in 1..(n - at)
        BY <1>3, <1>8
    <2> QED BY <1>5, <1>10, <2>1
<1>12. at + k <= n
    BY <1>3, <1>8
<1>13. From(list, at) = rest
    BY <1>2, <1>4 DEF From
<1>14. Taken(From(list, at), RawSize, room) = raw
    BY <1>7, <1>9, <1>13 DEF Taken
<1> QED BY <1>2, <1>8, <1>10, <1>11, <1>12, <1>13, <1>14 DEF GoesOn

\* Behind the end of a list nothing is taken, and no room.
LEMMA NothingBehind ==
    ASSUME NEW list, Sized(list), NEW at \in Nat, at >= Len(list), NEW room \in Nat
    PROVE  Taken(From(list, at), RawSize, room) = <<>> /\ RoomAfter(From(list, at), room) \in Nat
<1>1. list \in Seq(Text)
    BY DEF Sized
<1>2. From(list, at) = <<>>
    BY <1>1 DEF From
<1>3. Sized(<<>>) /\ Len(<<>>) = 0
    BY DEF Sized
<1>4. Fitting(<<>>, RawSize, room) \in 0..0 /\ RoomAfter(<<>>, room) \in Nat
    BY <1>3, FittingKnown
<1>5. Fitting(<<>>, RawSize, room) = 0
    BY <1>4
<1>6. SubSeq(<<>>, 1, 0) = <<>>
    OBVIOUS
<1> QED BY <1>2, <1>4, <1>5, <1>6 DEF Taken

\* What rootfs adds to the volume.
LEMMA VirtualKnown ==
    /\ Sized(Virtual) /\ Len(Virtual) >= 2 /\ Virtual[1] = "." /\ Virtual[2] = ".."
    /\ \A i \in 3..Len(Virtual) : Virtual[i] \in ToSet(MountNames)
<1>1. MountNames \in Seq(MountWords)
    BY NamesShown
<1>2. PICK names, n : names = MountNames /\ n = Len(names)
    OBVIOUS
<1>3. n \in Nat /\ names \in Seq(Text) /\ \A i \in 1..n : names[i] \in MountWords
    <2>1. MountWords \subseteq Text
        BY DirectoriesAssumption DEF MountWords, Text
    <2>2. names \in Seq(MountWords) /\ n = Len(names)
        BY <1>1, <1>2
    <2> QED BY <2>1, <2>2
<1>4. PICK dots : dots = <<".", "..">>
    OBVIOUS
<1>5. dots \in Seq(Text) /\ Len(dots) = 2 /\ dots[1] = "." /\ dots[2] = ".."
    <2>1. "." \in Text /\ ".." \in Text
        BY DirectoriesAssumption DEF Text
    <2> QED BY <1>4, <2>1
<1>6. PICK v : v = dots \o names
    OBVIOUS
<1>7. v \in Seq(Text) /\ Joins(v, dots, names)
    BY <1>3, <1>5, <1>6, Joined
<1>8. v \in Seq(Text) /\ Len(v) = 2 + n /\ (\A i \in 1..2 : v[i] = dots[i]) /\ \A i \in 1..n : v[2 + i] = names[i]
    BY <1>2, <1>5, <1>7 DEF Joins
<1>9. v[1] = "." /\ v[2] = ".."
    BY <1>5, <1>8
<1>10. ASSUME NEW i \in 3..Len(v) PROVE v[i] \in MountWords /\ v[i] \in ToSet(MountNames)
    <2>1. PICK j \in 1..n : i = 2 + j
        <3>1. i - 2 \in 1..n /\ i = 2 + (i - 2)
            BY <1>3, <1>8
        <3> QED BY <3>1
    <2>2. v[i] = names[j]
        BY <1>8, <2>1
    <2>3. j \in DOMAIN names
        BY <1>2, <1>3
    <2> QED BY <1>2, <1>3, <2>2, <2>3 DEF ToSet
<1>11. {".", "..", "dev", "pipe"} \subseteq DOMAIN NameLen
    BY DirectoriesAssumption
<1>12. ASSUME NEW i \in 1..Len(v) PROVE v[i] \in DOMAIN NameLen
    <2>1. i = 1 \/ i = 2 \/ i \in 3..Len(v)
        BY <1>3, <1>8
    <2> QED BY <1>9, <1>10, <1>11, <2>1 DEF MountWords
<1>13. Virtual = v
    BY <1>2, <1>4, <1>6 DEF Virtual, Dots
<1>14. Len(v) >= 2
    BY <1>3, <1>8
<1> QED BY <1>8, <1>9, <1>10, <1>12, <1>13, <1>14 DEF Sized

\* The listing of a directory of the volume.
LEMMA ListingKnown ==
    ASSUME NEW d \in DOMAIN Volume
    PROVE  /\ Sized(Volume[d]) /\ Listing(d) \in Seq(Text)
           /\ d # Root => Listing(d) = Volume[d]
           /\ d = Root => /\ Len(Listing(d)) = Len(Virtual) + (Len(Volume[d]) - 2)
                          /\ \A i \in 1..Len(Virtual) : Listing(d)[i] = Virtual[i]
                          /\ \A i \in 3..Len(Volume[d]) : Listing(d)[Len(Virtual) + (i - 2)] = Volume[d][i]
<1>1. Sized(Volume[d]) /\ Volume[d] \in Seq(Text) /\ Len(Volume[d]) >= 2
    BY VolumeKnown DEF Sized
<1>2. CASE d # Root
    BY <1>1, <1>2 DEF Listing
<1>3. CASE d = Root
    <2>1. PICK v, w, n : v = Virtual /\ w = Volume[d] /\ n = Len(w)
        OBVIOUS
    <2>2. w \in Seq(Text) /\ n \in Nat /\ n >= 2 /\ v \in Seq(Text) /\ n = Len(w)
        BY <1>1, <2>1, VirtualKnown DEF Sized
    <2>3. PICK b : b = SubSeq(w, 2 + 1, n)
        OBVIOUS
    <2>4. b \in Seq(Text) /\ Len(b) = n - 2 /\ \A k \in 1..(n - 2) : b[k] = w[2 + k]
        BY <2>2, <2>3, Piece
    <2>5. PICK l : l = v \o b
        OBVIOUS
    <2>6. l \in Seq(Text) /\ Joins(l, v, b)
        BY <2>2, <2>4, <2>5, Joined
    <2>7. Listing(d) = l
        BY <1>3, <2>1, <2>3, <2>5 DEF Listing, From
    <2>8. ASSUME NEW i \in 3..n PROVE l[Len(v) + (i - 2)] = w[i]
        <3>1. i - 2 \in 1..(n - 2) /\ 2 + (i - 2) = i
            BY <2>2
        <3>2. l[Len(v) + (i - 2)] = b[i - 2]
            BY <2>4, <2>6, <3>1 DEF Joins
        <3> QED BY <2>4, <3>1, <3>2
    <2>9. Len(l) = Len(v) + (n - 2) /\ \A i \in 1..Len(v) : l[i] = v[i]
        BY <2>4, <2>6 DEF Joins
    <2> QED BY <1>1, <1>3, <2>1, <2>6, <2>7, <2>8, <2>9
<1> QED BY <1>2, <1>3

\* ReadDir goes on at the position: in the names that rootfs adds, from them into
\* the volume, and in the volume.
LEMMA ReadDirGoesOn ==
    ASSUME NEW d \in DOMAIN Volume, NEW at \in 0..Len(Listing(d)), NEW room \in Nat
    PROVE  GoesOn(ReadDir(d, at, room), Listing(d), at)
<1>1. CASE d # Root
    <2>1. Sized(Volume[d]) /\ Listing(d) = Volume[d]
        BY <1>1, ListingKnown
    <2>2. GoesOn(Taken(From(Volume[d], at), RawSize, room), Volume[d], at)
        BY <2>1, TakenGoesOn
    <2> QED BY <1>1, <2>1, <2>2 DEF ReadDir, Ext2ReadDir
<1>2. CASE d = Root
    <2>1. PICK v, w, l, V, W : v = Virtual /\ w = Volume[d] /\ l = Listing(d) /\ V = Len(v) /\ W = Len(w)
        OBVIOUS
    <2>2. Sized(v) /\ Sized(w) /\ l \in Seq(Text) /\ V \in Nat /\ W \in Nat /\ W >= 2
        <3>1. v \in Seq(Text) /\ w \in Seq(Text) /\ Len(w) >= 2 /\ Sized(v) /\ Sized(w)
            BY <2>1, VirtualKnown, VolumeKnown, ListingKnown DEF Sized
        <3>2. l \in Seq(Text)
            BY <2>1, ListingKnown
        <3> QED BY <2>1, <3>1, <3>2
    <2>3. /\ Len(l) = V + (W - 2) /\ \A i \in 1..V : l[i] = v[i]
          /\ \A i \in 3..W : l[V + (i - 2)] = w[i]
        BY <1>2, <2>1, ListingKnown
    <2>4. PICK own, left, now : /\ own = Taken(From(v, at), RawSize, room) /\ left = RoomAfter(From(v, at), room)
                                /\ now = at + Len(own)
        OBVIOUS
    <2>5. PICK more : more = Taken(From(w, (now - V) + 2), RawSize, left)
        OBVIOUS
    <2>6. ReadDir(d, at, room) = IF now < V THEN own ELSE own \o more
        BY <1>2, <2>1, <2>4, <2>5 DEF ReadDir, RootReadDir, Ext2ReadDir
    <2>7. at \in Nat /\ at <= V + (W - 2)
        BY <2>1, <2>2, <2>3
    <2>8. own \in Seq(Text) /\ left \in Nat /\ (at <= V => GoesOn(own, v, at)) /\ (at > V => own = <<>>)
        <3>1. CASE at <= V
            <4>1. at \in 0..Len(v)
                BY <2>1, <2>7, <3>1
            <4>2. GoesOn(own, v, at) /\ left \in Nat
                BY <2>2, <2>4, <4>1, TakenGoesOn
            <4> QED BY <2>1, <2>2, <2>7, <3>1, <4>2 DEF GoesOn
        <3>2. CASE at > V
            <4>1. own = <<>> /\ left \in Nat
                <5>1. at >= Len(v)
                    BY <2>1, <2>2, <2>7, <3>2
                <5> QED BY <2>2, <2>4, <2>7, <5>1, NothingBehind
            <4> QED BY <2>2, <2>7, <3>2, <4>1
        <3> QED BY <2>2, <2>7, <3>1, <3>2
    <2>9. PICK o : o = Len(own)
        OBVIOUS
    <2>10. o \in Nat /\ now = at + o
        BY <2>4, <2>8, <2>9
    <2>11. ASSUME NEW i \in 1..o PROVE at + i <= V /\ own[i] = l[at + i]
        <3>1. at <= V
            BY <2>2, <2>7, <2>8, <2>9
        <3>2. at + o <= V /\ own[i] = v[at + i]
            BY <2>1, <2>8, <2>9, <3>1 DEF GoesOn
        <3>3. at + i \in 1..V
            BY <2>2, <2>7, <2>10, <3>2
        <3>4. at + i <= V
            BY <3>3
        <3> QED BY <2>3, <3>2, <3>3, <3>4
    <2>12. at <= V => now <= V
        BY <2>1, <2>8, <2>9, <2>10 DEF GoesOn
    <2>13. CASE now < V
        <3>1. at + o <= Len(l)
            BY <2>2, <2>3, <2>10, <2>13
        <3> QED BY <2>1, <2>6, <2>8, <2>9, <2>11, <2>13, <3>1 DEF GoesOn
    <2>14. CASE ~(now < V)
        <3>1. now >= V /\ now <= V + (W - 2) /\ now \in Nat
            <4>1. CASE at <= V
                BY <2>2, <2>7, <2>10, <2>12, <2>14, <4>1
            <4>2. CASE at > V
                <5>1. o = 0
                    BY <2>8, <2>9, <4>2
                <5> QED BY <2>2, <2>7, <2>10, <4>2, <5>1
            <4> QED BY <2>2, <2>7, <4>1, <4>2
        <3>2. PICK p : p = (now - V) + 2
            OBVIOUS
        <3>3. p \in 0..W /\ p \in Nat /\ p >= 2
            BY <2>2, <3>1, <3>2
        <3>4. GoesOn(more, w, p)
            BY <2>1, <2>2, <2>5, <2>8, <3>2, <3>3, TakenGoesOn
        <3>5. PICK m : m = Len(more)
            OBVIOUS
        <3>6. more \in Seq(Text) /\ m \in Nat /\ p + m <= W /\ \A i \in 1..m : more[i] = w[p + i]
            BY <2>1, <3>4, <3>5 DEF GoesOn
        <3>7. ASSUME NEW i \in 1..m PROVE more[i] = l[at + (o + i)]
            <4>1. p + i \in 3..W /\ V + ((p + i) - 2) = at + (o + i)
                BY <2>2, <2>7, <2>10, <3>2, <3>3, <3>6
            <4>2. l[V + ((p + i) - 2)] = w[p + i]
                BY <2>3, <4>1
            <4> QED BY <3>6, <4>1, <4>2
        <3>8. PICK raw : raw = own \o more
            OBVIOUS
        <3>9. raw \in Seq(Text) /\ Joins(raw, own, more)
            BY <2>8, <3>6, <3>8, Joined
        <3>10. Len(raw) = o + m /\ (\A i \in 1..o : raw[i] = own[i]) /\ \A i \in 1..m : raw[o + i] = more[i]
            BY <2>9, <3>5, <3>9 DEF Joins
        <3>11. at + (o + m) <= Len(l)
            BY <2>2, <2>3, <2>7, <2>10, <3>2, <3>6
        <3>12. ASSUME NEW i \in 1..(o + m) PROVE raw[i] = l[at + i]
            <4>1. CASE i \in 1..o
                BY <2>11, <3>10, <4>1
            <4>2. CASE i \notin 1..o
                <5>1. PICK j \in 1..m : i = o + j
                    <6>1. i - o \in 1..m /\ i = o + (i - o)
                        BY <2>10, <3>6, <4>2
                    <6> QED BY <6>1
                <5> QED BY <3>7, <3>10, <5>1
            <4> QED BY <4>1, <4>2
        <3> QED BY <2>1, <2>6, <2>14, <3>8, <3>9, <3>10, <3>11, <3>12 DEF GoesOn
    <2> QED BY <2>13, <2>14
<1> QED BY <1>1, <1>2

\* A path that the mount points do not cut off is resolved to itself at Root.
LEMMA ResolvedAtRoot ==
    ASSUME NEW path, Proper(path), NEW parts \in Spellings(path)
    PROVE  /\ ResolvePath(parts).fs = FindMountPoint(path)
           /\ FindMountPoint(path) = Root => ResolvePath(parts) = [fs |-> Root, rel |-> path]
<1>1. CanonicalizePath(parts) = path
    BY SpellingsAgree
<1>2. path \in Seq(Text)
    BY DEF Proper
<1>3. PICK m : m = FindMountPoint(path)
    OBVIOUS
<1>4. ResolvePath(parts) = [fs |-> m, rel |-> SubSeq(path, Len(m) + 1, Len(path))]
    BY <1>1, <1>3, Zenon DEF ResolvePath
<1>5. ASSUME m = Root PROVE SubSeq(path, Len(m) + 1, Len(path)) = path
    <2>1. Len(m) + 1 = 1
        BY <1>5, MountPrefix, <1>2
    <2>2. SubSeq(path, 1, Len(path)) = path
        BY <1>2
    <2> QED BY <2>1, <2>2
<1> QED BY <1>3, <1>4, <1>5

\* A name that the volume lists in a directory is found there.
LEMMA ListedIsFound ==
    ASSUME NEW d \in DOMAIN Volume, FindMountPoint(d) = Root, NEW i \in 3..Len(Volume[d]), NEW n,
           n = Volume[d][i], d = Root => n \notin ToSet(MountNames), NEW parts \in Spellings(Append(d, n))
    PROVE  Lookup(ResolvePath(parts))
<1>1. /\ Proper(d) /\ Volume[d] \in Seq(Text) /\ Len(Volume[d]) >= 2 /\ IsName(n)
    BY VolumeKnown
<1>2. d \in Seq(Text) /\ n \in Text
    BY <1>1 DEF Proper
<1>3. PICK P : P = Append(d, n)
    OBVIOUS
<1>4. /\ P \in Seq(Text) /\ Len(P) = Len(d) + 1 /\ P[Len(d) + 1] = n /\ Len(d) \in Nat
      /\ \A j \in 1..Len(d) : P[j] = d[j]
    BY <1>2, <1>3
<1>5. Proper(P)
    <2>1. ASSUME NEW j \in 1..Len(P) PROVE IsName(P[j])
        <3>1. j \in 1..Len(d) \/ j = Len(d) + 1
            BY <1>4
        <3> QED BY <1>1, <1>4, <3>1 DEF Proper
    <2> QED BY <1>4, <2>1 DEF Proper
<1>6. P # <<>>
    BY <1>4
<1>7. FindMountPoint(P) = Root
    <2>1. ASSUME NEW k \in ToSet(MountPoints), k # Root PROVE P[1] # k[1]
        <3>1. CASE d = Root
            <4>1. P[1] = n
                BY <1>4, <3>1, MountPrefix, <1>2
            <4> QED BY <2>1, <3>1, <4>1, NamesShown
        <3>2. CASE d # Root
            <4>1. d # <<>>
                BY <3>2 DEF Root
            <4>2. d[1] # k[1]
                BY <1>2, <2>1, <4>1, BelowRoot
            <4>3. 1 \in 1..Len(d)
                BY <1>2, <4>1
            <4> QED BY <1>4, <4>2, <4>3
        <3> QED BY <3>1, <3>2
    <2> QED BY <1>4, <2>1, BelowRoot
<1>8. ResolvePath(parts) = [fs |-> Root, rel |-> P]
    BY <1>3, <1>5, <1>7, ResolvedAtRoot
<1>9. Front(P) = d /\ Last(P) = n
    BY <1>2, <1>3 DEF Front, Last
<1>10. n \in ToSet(Volume[d]) \ ToSet(Dots)
    <2>1. i \in DOMAIN Volume[d]
        BY <1>1
    <2>2. n \in ToSet(Volume[d])
        BY <2>1 DEF ToSet
    <2>3. ToSet(Dots) = {".", ".."}
        BY DEF ToSet, Dots
    <2> QED BY <1>1, <2>2, <2>3 DEF IsName
<1>11. Holds(P)
    BY <1>6, <1>9, <1>10 DEF Holds
<1>12. PICK at : at = ResolvePath(parts)
    OBVIOUS
<1>13. at.fs = Root /\ at.rel = P
    BY <1>8, <1>12
<1>14. Root # <<"dev">>
    BY DEF Root
<1>15. Lookup(at)
    BY <1>11, <1>13, <1>14 DEF Lookup
<1> QED BY <1>12, <1>15, Zenon

\* What was read of the open directory is what stands before the position.
DirInv ==
    /\ dir = NoDir => pos = 0 /\ read = <<>>
    /\ dir # NoDir => /\ dir \in DOMAIN Volume /\ FindMountPoint(dir) = Root
                      /\ pos \in 0..Len(Listing(dir)) /\ read = SubSeq(Listing(dir), 1, pos)

\* Every call keeps the invariant.
LEMMA DirInvStep ==
    ASSUME DirInv, [DirNext]_dirVars
    PROVE  DirInv'
<1>1. CASE UNCHANGED dirVars
    BY <1>1 DEF DirInv, dirVars
<1>2. ASSUME NEW d \in DOMAIN Volume, NEW parts \in Spellings(d), OpenDirectory(parts)
      PROVE  DirInv'
    <2>1. Proper(d) /\ d \in Seq(Text)
        BY VolumeKnown DEF Proper
    <2>2. FindMountPoint(d) = Root /\ dir' = d /\ pos' = 0 /\ read' = <<>>
        <3>1. ResolvePath(parts).fs = FindMountPoint(d)
            BY <2>1, ResolvedAtRoot
        <3>2. ResolvePath(parts).fs = Root /\ dir' = ResolvePath(parts).rel
            BY <1>2 DEF OpenDirectory
        <3>3. ResolvePath(parts) = [fs |-> Root, rel |-> d]
            BY <2>1, <3>1, <3>2, ResolvedAtRoot
        <3>4. pos' = 0 /\ read' = <<>>
            BY <1>2 DEF OpenDirectory, DirInv
        <3> QED BY <3>1, <3>2, <3>3, <3>4
    <2>3. PICK l : l = Listing(d)
        OBVIOUS
    <2>4. l \in Seq(Text) /\ 0 \in 0..Len(l)
        BY <2>3, ListingKnown
    <2>5. SubSeq(l, 1, 0) = <<>>
        BY <2>4
    <2>6. dir' # NoDir
        <3>1. Len(NoDir) = 1 /\ NoDir[1] = "/"
            BY DEF NoDir
        <3>2. ASSUME d = NoDir PROVE IsName("/")
            BY <2>1, <3>1, <3>2 DEF Proper
        <3> QED BY <2>2, <3>2 DEF IsName
    <2> QED BY <2>2, <2>3, <2>4, <2>5, <2>6 DEF DirInv
<1>3. ASSUME NEW size \in UserBufs, NEW delivered \in BOOLEAN, Sys_Getdents64(size, delivered)
      PROVE  DirInv'
    <2>1. PICK room : room = IF size > KernelNameBuf THEN size ELSE KernelNameBuf
        OBVIOUS
    <2>2. room \in Nat
        BY <2>1, DirectoriesAssumption
    <2>3. PICK raw : raw = ReadDir(dir, pos, room)
        OBVIOUS
    <2>4. dir # NoDir /\ pos' = pos + Len(raw) /\ read' = read \o raw /\ dir' = dir
        BY <1>3, <2>1, <2>3 DEF Sys_Getdents64
    <2>5. PICK l, p : l = Listing(dir) /\ p = pos
        OBVIOUS
    <2>6. dir \in DOMAIN Volume /\ FindMountPoint(dir) = Root /\ p \in 0..Len(l) /\ read = SubSeq(l, 1, p)
        BY <2>4, <2>5 DEF DirInv
    <2>7. l \in Seq(Text) /\ GoesOn(raw, l, p)
        BY <2>2, <2>3, <2>5, <2>6, ListingKnown, ReadDirGoesOn
    <2>8. PICK k : k = Len(raw)
        OBVIOUS
    <2>9. raw \in Seq(Text) /\ k \in Nat /\ p + k <= Len(l) /\ \A i \in 1..k : raw[i] = l[p + i]
        BY <2>7, <2>8 DEF GoesOn
    <2>10. p \in Nat /\ p + k \in 0..Len(l)
        BY <2>6, <2>7, <2>9
    <2>11. PICK old : old = SubSeq(l, 1, p)
        OBVIOUS
    <2>12. old \in Seq(Text) /\ Len(old) = p /\ \A i \in 1..p : old[i] = l[i]
        BY <2>6, <2>7, <2>10, <2>11
    <2>13. PICK a, b : a = old \o raw /\ b = SubSeq(l, 1, p + k)
        OBVIOUS
    <2>14. a \in Seq(Text) /\ Joins(a, old, raw)
        BY <2>9, <2>12, <2>13, Joined
    <2>15. Len(a) = p + k /\ (\A i \in 1..p : a[i] = old[i]) /\ \A i \in 1..k : a[p + i] = raw[i]
        BY <2>8, <2>12, <2>14 DEF Joins
    <2>16. b \in Seq(Text) /\ Len(b) = p + k /\ \A i \in 1..(p + k) : b[i] = l[i]
        BY <2>7, <2>10, <2>13
    <2>17. ASSUME NEW i \in 1..(p + k) PROVE a[i] = b[i]
        <3>1. CASE i \in 1..p
            BY <2>12, <2>15, <2>16, <3>1
        <3>2. CASE i \notin 1..p
            <4>1. PICK j \in 1..k : i = p + j
                <5>1. i - p \in 1..k /\ i = p + (i - p)
                    BY <2>9, <2>10, <3>2
                <5> QED BY <5>1
            <4> QED BY <2>9, <2>15, <2>16, <4>1
        <3> QED BY <3>1, <3>2
    <2>18. a = b
        BY <2>14, <2>15, <2>16, <2>17
    <2>19. read' = SubSeq(l, 1, pos') /\ pos' \in 0..Len(l)
        BY <2>4, <2>5, <2>6, <2>8, <2>10, <2>11, <2>13, <2>18
    <2>20. Listing(dir') = l /\ dir' # NoDir /\ dir' \in DOMAIN Volume /\ FindMountPoint(dir') = Root
        BY <2>4, <2>5, <2>6
    <2> QED BY <2>19, <2>20 DEF DirInv
<1>4. CASE CloseDirectory
    BY <1>4 DEF CloseDirectory, DirInv
<1> QED BY <1>1, <1>2, <1>3, <1>4 DEF DirNext

\* The invariant says that the listing is exact and that names lead to entries.
LEMMA DirInvSuffices ==
    ASSUME DirInv
    PROVE  ListingIsExact
<1>1. SUFFICES ASSUME dir # NoDir
               PROVE  \A n \in ToSet(read) \ ToSet(Dots) : \A parts \in Spellings(Append(dir, n)) :
                        Lookup(ResolvePath(parts)) \/ (dir = Root /\ n \in ToSet(MountNames))
    BY DEF ListingIsExact, DirInv
<1>2. SUFFICES ASSUME NEW n \in ToSet(read) \ ToSet(Dots), NEW parts \in Spellings(Append(dir, n)),
                      dir = Root => n \notin ToSet(MountNames)
               PROVE  Lookup(ResolvePath(parts))
    OBVIOUS
<1>3. PICK l, p : l = Listing(dir) /\ p = pos
    OBVIOUS
<1>4. /\ dir \in DOMAIN Volume /\ FindMountPoint(dir) = Root /\ p \in 0..Len(l) /\ read = SubSeq(l, 1, p)
    BY <1>1, <1>3 DEF DirInv
<1>5. l \in Seq(Text)
    BY <1>3, <1>4, ListingKnown
<1>6. PICK i \in 1..Len(l) : n = l[i]
    <2>1. PICK a, L : a = SubSeq(l, 1, p) /\ L = Len(l)
        OBVIOUS
    <2>2. p \in Nat /\ p <= L /\ L \in Nat
        BY <1>4, <1>5, <2>1
    <2>3. a \in Seq(Text) /\ Len(a) = p /\ \A i \in 1..p : a[i] = l[i]
        BY <1>5, <2>1, <2>2
    <2>4. DOMAIN a = 1..p
        BY <2>3
    <2>5. PICK i \in 1..p : n = a[i]
        BY <1>2, <1>4, <2>1, <2>4 DEF ToSet
    <2>6. i \in 1..L
        BY <2>2
    <2> QED BY <2>1, <2>3, <2>5, <2>6
<1>7. n \notin {".", ".."}
    <2>1. ToSet(Dots) = {".", ".."}
        BY DEF ToSet, Dots
    <2> QED BY <1>2, <2>1
<1>8. PICK w : w = Volume[dir]
    OBVIOUS
<1>9. w \in Seq(Text) /\ Len(w) \in Nat /\ Len(w) >= 2 /\ w[1] = "." /\ w[2] = ".."
    BY <1>4, <1>8, VolumeKnown
<1>10. PICK j \in 3..Len(w) : n = w[j]
    <2>1. CASE dir # Root
        <3>1. l = w
            BY <1>3, <1>4, <1>8, <2>1, ListingKnown
        <3>2. i = 1 \/ i = 2 \/ i \in 3..Len(w)
            BY <1>9, <3>1
        <3> QED BY <1>6, <1>7, <1>9, <3>1, <3>2
    <2>2. CASE dir = Root
        <3>1. PICK v, V : v = Virtual /\ V = Len(v)
            OBVIOUS
        <3>2. /\ Len(l) = V + (Len(w) - 2) /\ \A k \in 1..V : l[k] = v[k]
              /\ \A k \in 3..Len(w) : l[V + (k - 2)] = w[k]
            BY <1>3, <1>4, <1>8, <2>2, <3>1, ListingKnown
        <3>3. /\ V \in Nat /\ V >= 2 /\ v[1] = "." /\ v[2] = ".."
              /\ \A k \in 3..V : v[k] \in ToSet(MountNames)
            BY <3>1, VirtualKnown DEF Sized
        <3>4. CASE i <= V
            <4>1. i \in 1..V /\ (i = 1 \/ i = 2 \/ i \in 3..V)
                BY <3>3, <3>4
            <4>2. n = v[i]
                BY <1>6, <3>2, <4>1
            <4> QED BY <1>2, <1>7, <2>2, <3>3, <4>1, <4>2
        <3>5. CASE ~(i <= V)
            <4>1. PICK k : k = (i - V) + 2
                OBVIOUS
            <4>2. k \in 3..Len(w) /\ V + (k - 2) = i
                BY <1>9, <3>2, <3>3, <3>5, <4>1
            <4>3. n = w[k]
                BY <1>6, <3>2, <4>2
            <4> QED BY <4>2, <4>3
        <3> QED BY <3>4, <3>5
    <2> QED BY <2>1, <2>2
<1> QED BY <1>2, <1>4, <1>8, <1>10, ListedIsFound

\* However calls of getdents64 cut a listing, for any tree, any detours, any table of
\* mount points and any sizes of buffers, ReadDir passes over no entry and repeats
\* none, and every name it produces leads to its entry by every spelling of the path.
THEOREM ListingStaysExact == DirSpec => []ListingIsExact
<1>1. DirInit => DirInv
    BY DEF DirInit, DirInv
<1>2. DirInv /\ [DirNext]_dirVars => DirInv'
    BY DirInvStep
<1>3. DirInv => ListingIsExact
    BY DirInvSuffices
<1> QED BY <1>1, <1>2, <1>3, PTL DEF DirSpec
=============================================================================
