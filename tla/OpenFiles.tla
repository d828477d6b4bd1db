------------------------------ MODULE OpenFiles ------------------------------
(***************************************************************************)
(* Descriptors and what they count: FDTable of each task, File, Inode and  *)
(* the cache of inodes (filesys/vfs/vfs.cpp), the ends of a pipe, and the  *)
(* regions of shared memory (mm/shm/shm.cpp).  A File is counted by the    *)
(* descriptors that name it, an Inode by the Files that name it, a region  *)
(* by its Files.                                                           *)
(*                                                                         *)
(* A call is one step: system calls run with interrupts off, and with a    *)
(* disk that is polled (NVMe) none of these calls turns them on, so that   *)
(* g_VFSLock is never contended either.  An AHCI disk yields inside the    *)
(* ext2 driver's Close, which is outside this module.  Inodes belong to    *)
(* ext2 or devfs, whose Close keeps the number: FAT32 is not meant.  The   *)
(* ext2 volume is reached through rootfs: Open looks its Inodes up under   *)
(* RootFS, but PopulateInode (ext2_driver.cpp:53) has put the driver into  *)
(* FSOwner, so that they are never found and each open makes another.      *)
(* References of mapped regions are in AddressSpace.                       *)
(***************************************************************************)
EXTENDS Integers, FiniteSets, FiniteSetsExt

CONSTANTS Users, Shell,    \* the tasks, and the first of them
          FdCounts,        \* values of MAX_FILE_IN_PROCESS
          StdFds,          \* descriptors the last resort of shm_open spares
          Inodes, Tty,     \* numbers of inodes, among them the tty in devfs
          BehindRoot,      \* those of the volume behind rootfs
          CacheSize,       \* MAX_VFS_CACHED_INODES
          Names, MaxRegions, \* names and number of the shared regions
          FileIds, NodeIds, Null,    \* addresses of File and Inode objects, and nullptr
          MaxLost          \* bound on the objects that may lose a reference

NoName == "unused"
PipeIno == "pipe"

ASSUME FilesAssumption ==
    /\ Shell \in Users /\ Tty \in Inodes \ BehindRoot
    /\ IsFiniteSet(Users) /\ IsFiniteSet(FileIds)
    /\ NoName \notin Names /\ {NoName, PipeIno} \cap Inodes = {}
    /\ {CacheSize, MaxRegions} \cup FdCounts \subseteq Nat \ {0}
    /\ StdFds \in Nat /\ MaxLost \in Nat
    /\ Null \notin FileIds \cup NodeIds

VARIABLES maxFd,       \* the size of every FDTable
          running,     \* the tasks that have not been destroyed
          fds,         \* FDTable: per task and slot a File, or Null
          files,       \* File: [kind, refs, of, writes]
          nodes,       \* Inode: [ino, refs, writeClosed, buffer]
          cache,       \* g_InodeCache: an Inode, or Null
          regions,     \* ShmRegions: [name, refs]
          lost, lostRegion  \* history: references that nobody will give back

objects == <<files, nodes, cache, regions>>
fileVars == <<maxFd, running, fds, objects, lost, lostRegion>>

FdNums == 0..(maxFd - 1)
Cached == 1..CacheSize
RegionIds == 1..MaxRegions

NoFd == [s \in FdNums |-> Null]
FreeFile == [kind |-> "none", refs |-> 0, of |-> Null, writes |-> FALSE]
FreeNode == [ino |-> NoName, refs |-> 0, writeClosed |-> FALSE, buffer |-> FALSE]
FreeRegion == [name |-> NoName, refs |-> 0]
NewFile(kind, of, writes) == [kind |-> kind, refs |-> 1, of |-> of, writes |-> writes]

-----------------------------------------------------------------------------
\* The objects as one value, for the operations that change several.
Now == [files |-> files, nodes |-> nodes, cache |-> cache, regions |-> regions]
Become(st) ==
    /\ files' = st.files /\ nodes' = st.nodes /\ cache' = st.cache /\ regions' = st.regions

\* Which unused object the allocator returns makes no difference.
OneOf(S) == IF S = {} THEN {} ELSE {CHOOSE x \in S : TRUE}
UnusedFiles(st) == {f \in FileIds : st.files[f].kind = "none"}
UnusedNodes(st) == {n \in NodeIds : st.nodes[n].refs = 0}

\* The places of the cache that hold an inode of this owner and number.
Hits(st, ino) == {i \in Cached : st.cache[i] # Null /\ st.nodes[st.cache[i]].ino = ino}

\* GetCachedInode, asked by the file system of the mount point.
GetCachedInode(st, ino) == IF ino \in BehindRoot THEN {} ELSE Hits(st, ino)

\* AddCachedInode: a full cache only warns.
AddCachedInode(c, n) ==
    LET empty == {i \in Cached : c[i] = Null}
    IN IF empty = {} THEN c ELSE [c EXCEPT ![Min(empty)] = n]

\* Mutant: the deleted inode stays in the cache.
RemoveCachedInodeNot(st, ino) == st.cache

\* RemoveCachedInode goes by the number, not by the object.
RemoveCachedInode(st, ino) ==
    IF Hits(st, ino) = {} THEN st.cache ELSE [st.cache EXCEPT ![Min(Hits(st, ino))] = Null]

\* SharedMemoryManager::Release.
Release(st, r) ==
    [st EXCEPT !.regions[r] = IF @.refs = 1 THEN FreeRegion ELSE [name |-> @.name, refs |-> @.refs - 1]]

\* PipeFileSystem::Close: the writing end marks the end of file; the buffer goes
\* with the last File of the pipe, before the Inode is counted down.
PipeClosed(nd, f) ==
    [nd EXCEPT !.writeClosed = @ \/ f.writes, !.buffer = @ /\ nd.refs # 1]

\* The driver's Close, then the Inode loses a File and goes with the last one.
\* Its memory keeps the number, of which only the cache may make use.
InodeClosed(st, f) ==
    LET n == st.files[f].of
        told == IF st.files[f].kind = "pipe" THEN PipeClosed(st.nodes[n], st.files[f])
                ELSE st.nodes[n]
    IN IF told.refs > 1
       THEN [st EXCEPT !.nodes[n] = [told EXCEPT !.refs = @ - 1]]
       ELSE LET left == RemoveCachedInode(st, told.ino)
            IN [st EXCEPT !.cache = left,
                          !.nodes[n] = [FreeNode EXCEPT !.ino =
                             IF \E i \in Cached : left[i] = n THEN told.ino ELSE NoName]]

\* VFSManager::Close counts the File down itself.
VfsClose(st, f) ==
    LET r == st.files[f].refs - 1
        gone == [(IF st.files[f].kind = "shm" THEN Release(st, st.files[f].of)
                  ELSE InodeClosed(st, f)) EXCEPT !.files[f] = FreeFile]
    IN IF r > 0 THEN [st EXCEPT !.files[f].refs = r] ELSE gone

\* Sys_Close, Sys_Dup2 and DestroyTask count down while positive and call
\* VFSManager::Close at zero, which counts once more and finds -1.
Drop(st, f) ==
    LET r == IF st.files[f].refs > 0 THEN st.files[f].refs - 1 ELSE st.files[f].refs
        counted == [st EXCEPT !.files[f].refs = r]
    IN IF r = 0 THEN VfsClose(counted, f) ELSE counted

-----------------------------------------------------------------------------
\* VFSManager::Open after Lookup: the cached Inode, or a new one that enters the
\* cache, and a new File f.
NodesFor(i) ==
    IF GetCachedInode(Now, i) # {} THEN {cache[Min(GetCachedInode(Now, i))]}
    ELSE OneOf(UnusedNodes(Now))

WithNode(st, i, n) ==
    IF GetCachedInode(st, i) # {} THEN [st EXCEPT !.nodes[n].refs = @ + 1]
    ELSE [st EXCEPT !.nodes[n] = [FreeNode EXCEPT !.ino = i, !.refs = 1],
                    !.cache = AddCachedInode(@, n)]

VfsOpen(i, f, n) == [WithNode(Now, i, n) EXCEPT !.files[f] = NewFile("disk", n, FALSE)]

\* A call may still lose references: a bound of the model.
MayLose == Cardinality({f \in FileIds : lost[f] > 0})
           + Cardinality({r \in RegionIds : lostRegion[r] > 0}) < MaxLost

Empty(t) == {s \in FdNums : fds[t][s] = Null}
FirstFd(t) == Min(Empty(t))

\* Sys_Open: with no slot left the File is closed again.
Sys_Open(t, i, f, n) ==
    /\ t \in running
    /\ f \in OneOf(UnusedFiles(Now)) /\ n \in NodesFor(i)
    /\ IF Empty(t) # {}
       THEN Become(VfsOpen(i, f, n)) /\ fds' = [fds EXCEPT ![t][FirstFd(t)] = f]
       ELSE Become(VfsClose(VfsOpen(i, f, n), f)) /\ UNCHANGED fds
    /\ UNCHANGED <<running, lost, lostRegion>>

\* Sys_Execve opens the image and tells only the driver when it has read it:
\* the File and its reference to the Inode stay for ever.
ExecImage(t, i, f, n) ==
    /\ t \in running
    /\ f \in OneOf(UnusedFiles(Now)) /\ n \in NodesFor(i)
    /\ MayLose
    /\ Become(VfsOpen(i, f, n))
    /\ lost' = [lost EXCEPT ![f] = 1]
    /\ UNCHANGED <<running, fds, lostRegion>>

Sys_Close(t, s) ==
    /\ t \in running /\ fds[t][s] # Null
    /\ Become(Drop(Now, fds[t][s]))
    /\ fds' = [fds EXCEPT ![t][s] = Null]
    /\ UNCHANGED <<running, lost, lostRegion>>

Sys_Dup2(t, old, new) ==
    LET closed == IF fds[t][new] = Null THEN Now ELSE Drop(Now, fds[t][new]) IN
    /\ t \in running /\ fds[t][old] # Null /\ old # new
    /\ Become([closed EXCEPT !.files[fds[t][old]].refs = @ + 1])
    /\ fds' = [fds EXCEPT ![t][new] = fds[t][old]]
    /\ UNCHANGED <<running, lost, lostRegion>>

\* Sys_Pipe: one Inode, outside the cache, with a File for each end.  When the
\* numbers cannot be copied to the user all of it is deleted again.
Sys_Pipe(t, r, w, n) ==
    LET second == Min(Empty(t) \ {FirstFd(t)}) IN
    /\ t \in running
    /\ r \in OneOf(UnusedFiles(Now)) /\ w \in OneOf(UnusedFiles(Now) \ {r})
    /\ n \in OneOf(UnusedNodes(Now))
    /\ Cardinality(Empty(t)) >= 2
    /\ Become([Now EXCEPT
         !.nodes[n] = [ino |-> PipeIno, refs |-> 2, writeClosed |-> FALSE, buffer |-> TRUE],
         !.files[r] = NewFile("pipe", n, FALSE), !.files[w] = NewFile("pipe", n, TRUE)])
    /\ fds' = [fds EXCEPT ![t][FirstFd(t)] = r, ![t][second] = w]
    /\ UNCHANGED <<running, lost, lostRegion>>

-----------------------------------------------------------------------------
\* SharedMemoryManager::Open: the region of that name, or a new one.
Named(name) == {r \in RegionIds : regions[r].name = name}
UnusedRegions == {r \in RegionIds : regions[r].name = NoName}
RegionsFor(name, create) ==
    IF Named(name) # {} THEN Named(name) ELSE IF create THEN UnusedRegions ELSE {}

\* What the last resort may close: a descriptor only this task has.
Sacrificed(t) == {s \in FdNums : s >= StdFds /\ files[fds[t][s]].refs = 1}

\* Sys_ShmOpen.  In a full table it closes a descriptor that the task did not
\* ask to close; when there is none, the File is deleted and the region keeps
\* its reference.  Stale entries come only from munmap (AddressSpace).
Sys_ShmOpen(t, name, create, f) ==
    /\ t \in running /\ f \in OneOf(UnusedFiles(Now))
    /\ RegionsFor(name, create) # {}
    /\ LET r == Min(RegionsFor(name, create))
           opened == [Now EXCEPT !.regions[r] = [name |-> name, refs |-> @.refs + 1],
                                 !.files[f] = NewFile("shm", r, FALSE)]
       IN \/ /\ Empty(t) # {}
             /\ Become(opened)
             /\ fds' = [fds EXCEPT ![t][FirstFd(t)] = f]
             /\ UNCHANGED lostRegion
          \/ /\ Empty(t) = {} /\ Sacrificed(t) # {}
             /\ Become(VfsClose(opened, fds[t][Min(Sacrificed(t))]))
             /\ fds' = [fds EXCEPT ![t][Min(Sacrificed(t))] = f]
             /\ UNCHANGED lostRegion
          \/ /\ Empty(t) = {} /\ Sacrificed(t) = {}
             /\ MayLose
             /\ Become([opened EXCEPT !.files[f] = FreeFile])
             /\ lostRegion' = [lostRegion EXCEPT ![r] = @ + 1]
             /\ UNCHANGED fds
    /\ UNCHANGED <<running, lost>>

-----------------------------------------------------------------------------
Naming(t, f) == Cardinality({s \in FdNums : fds[t][s] = f})

\* Mutant: a File is counted once however many slots name it.
SharedOnce(t) ==
    [f \in FileIds |-> IF Naming(t, f) > 0 THEN [files[f] EXCEPT !.refs = @ + 1] ELSE files[f]]

\* Sys_Fork counts every slot of the copied table.
Shared(t) == [f \in FileIds |-> [files[f] EXCEPT !.refs = @ + Naming(t, f)]]

ForkFiles(t, u) ==
    /\ t \in running /\ u \notin running
    /\ Become([Now EXCEPT !.files = Shared(t)])
    /\ running' = running \cup {u}
    /\ fds' = [fds EXCEPT ![u] = fds[t]]
    /\ UNCHANGED <<lost, lostRegion>>

\* Sys_Fork without memory for the stack or the address space deletes the child
\* and leaves the counts as they are.
ForkFailed(t) ==
    /\ t \in running
    /\ \E s \in FdNums : fds[t][s] # Null
    /\ MayLose
    /\ Become([Now EXCEPT !.files = Shared(t)])
    /\ lost' = [f \in FileIds |-> lost[f] + Naming(t, f)]
    /\ UNCHANGED <<running, fds, lostRegion>>

\* DestroyTask of a reaped child: its descriptors, in order.
DestroyFiles(t) ==
    LET after[k \in 0..maxFd] ==
          IF k = 0 THEN Now
          ELSE IF fds[t][k - 1] = Null THEN after[k - 1] ELSE Drop(after[k - 1], fds[t][k - 1])
    IN /\ t \in running /\ t # Shell
       /\ Become(after[maxFd])
       /\ running' = running \ {t}
       /\ fds' = [fds EXCEPT ![t] = NoFd]
       /\ UNCHANGED <<lost, lostRegion>>

\* The first task, with one descriptor of the tty left open.
FilesInit ==
    /\ maxFd \in FdCounts
    /\ running = {Shell}
    /\ \E f \in OneOf(FileIds), n \in OneOf(NodeIds) :
         /\ fds = [t \in Users |-> IF t = Shell THEN [NoFd EXCEPT ![0] = f] ELSE NoFd]
         /\ files = [x \in FileIds |-> IF x = f THEN NewFile("disk", n, FALSE) ELSE FreeFile]
         /\ nodes = [x \in NodeIds |-> IF x = n THEN [FreeNode EXCEPT !.ino = Tty, !.refs = 1]
                                       ELSE FreeNode]
         /\ cache = [i \in Cached |-> IF i = 1 THEN n ELSE Null]
    /\ regions = [r \in RegionIds |-> FreeRegion]
    /\ lost = [f \in FileIds |-> 0]
    /\ lostRegion = [r \in RegionIds |-> 0]

FileCall ==
    \/ \E t \in Users, i \in Inodes, f \in FileIds, n \in NodeIds :
          Sys_Open(t, i, f, n) \/ ExecImage(t, i, f, n)
    \/ \E t \in Users, s \in FdNums : Sys_Close(t, s)
    \/ \E t \in Users, a, b \in FdNums : Sys_Dup2(t, a, b)
    \/ \E t \in Users, r, w \in FileIds, n \in NodeIds : Sys_Pipe(t, r, w, n)
    \/ \E t \in Users, name \in Names, create \in BOOLEAN, f \in FileIds :
          Sys_ShmOpen(t, name, create, f)
    \/ \E t \in Users : ForkFailed(t) \/ DestroyFiles(t)
    \/ \E t, u \in Users : ForkFiles(t, u)

\* The cache names a deleted Inode.  The model ends here: what follows is the
\* use of freed memory.
NamesDeleted == \E i \in Cached : cache[i] # Null /\ nodes[cache[i]].refs = 0

FilesNext ==
    \/ ~NamesDeleted /\ FileCall /\ UNCHANGED maxFd
    \/ NamesDeleted /\ UNCHANGED fileVars

FilesSpec == FilesInit /\ [][FilesNext]_fileVars

-----------------------------------------------------------------------------
Descriptors(f) == Cardinality({x \in running \X FdNums : fds[x[1]][x[2]] = f})
LiveFiles == {f \in FileIds : files[f].kind # "none"}

\* Through opens, dup2, pipes, shared memory, failed and successful forks and
\* exits in any order, VFSManager::Close never deletes what is still named: a
\* descriptor names a File that exists, a File an Inode or a region that exists,
\* a pipe's Inode a buffer that exists.
NothingNamedIsDeleted ==
    /\ \A t \in Users, s \in FdNums : fds[t][s] # Null => fds[t][s] \in LiveFiles
    /\ \A f \in LiveFiles :
         IF files[f].kind = "shm" THEN regions[files[f].of].name # NoName
         ELSE /\ nodes[files[f].of].refs > 0
              /\ files[f].kind = "pipe" => nodes[files[f].of].buffer

\* And what nobody names is gone: although Sys_Close and VFSManager::Close both
\* count, RefCount of a File is the number of its descriptors, that of an Inode
\* and of a region the number of their Files, apart from the references that a
\* failed fork, execve and a failed shm_open are known to leave behind.
CountsAreExact ==
    /\ \A f \in LiveFiles : files[f].refs = Descriptors(f) + lost[f] /\ files[f].refs > 0
    /\ \A n \in NodeIds : nodes[n].refs =
         Cardinality({f \in LiveFiles : files[f].kind # "shm" /\ files[f].of = n})
    /\ \A r \in RegionIds : regions[r].refs = lostRegion[r] +
         Cardinality({f \in LiveFiles : files[f].kind = "shm" /\ files[f].of = r})

\* Both directions: nothing is deleted that is still named, nothing is kept that
\* is not.
ReferencesAreExact == NothingNamedIsDeleted /\ CountsAreExact

\* A reader of a pipe sees the end of file exactly when the last descriptor of
\* the writing end is closed, in whichever task it was: not while a forked or
\* duplicated one is left, and no later.
EndOfFileIsExact ==
    \A n \in NodeIds : nodes[n].ino = PipeIno =>
       (nodes[n].writeClosed <=>
          ~\E f \in LiveFiles : files[f].kind = "pipe" /\ files[f].of = n /\ files[f].writes)

\* The inode cache never holds two Inodes of one number of devfs, nor a deleted
\* one, although entries are removed by number and a full cache takes no new
\* ones: Open then gives a file a second Inode, and closing that one removes the
\* entry of the first.  For the volume behind rootfs it does not hold: there a
\* deleted Inode stays exactly while another one of its number is open.
CacheIsSound ==
    \A i \in Cached : cache[i] # Null =>
       /\ nodes[cache[i]].ino \in Inodes
       /\ nodes[cache[i]].refs > 0 \/ nodes[cache[i]].ino \in BehindRoot
       /\ \A j \in Cached \ {i} : cache[j] # Null /\ nodes[cache[j]].ino = nodes[cache[i]].ino
             => nodes[cache[i]].ino \in BehindRoot

\* What VFSManager::Close says of an Inode that no File names any more, "remove
\* it from cache and RAM" (vfs.cpp:583).  TLC refutes it (README, section 5).
DeletedLeaveTheCache == ~NamesDeleted

\* What hangs on the counts follows them: the end of file of a pipe and the inode
\* cache, after any sequence of open, dup2, fork, close and exit.
CountsAreObeyed == EndOfFileIsExact /\ CacheIsSound
=============================================================================
