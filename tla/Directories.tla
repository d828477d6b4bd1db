---------------------------- MODULE Directories -----------------------------
(***************************************************************************)
(* Names: how a path is resolved (CanonicalizePath, FindMountPoint and     *)
(* ResolvePath of filesys/vfs/vfs.cpp) and how a directory is listed by    *)
(* calls of getdents64, each of which goes on where the last one stopped.  *)
(*                                                                         *)
(* rootfs lists in three parts: "." and "..", the first components of the  *)
(* mount points, and what follows the dots in the root of the volume       *)
(* behind it.  The tree does not change: rootfs refuses to create, rename  *)
(* or remove, nothing mounts after boot, and no mount is removed.  The     *)
(* working directory stays "/": chdir asks File::IsDirectory, which Open   *)
(* leaves FALSE (fs.cpp:428).  No Stat reports a symbolic link             *)
(* (ext2_driver.cpp:780), so that ResolvePath follows none.  Paths fit the *)
(* 256 characters and 32 components that CanonicalizePath has room for.    *)
(***************************************************************************)
EXTENDS Integers, Sequences, SequencesExt

CONSTANTS Volume,          \* the ext2 volume: per directory its names in order
          Devices,         \* the names in devfs
          NameLen,         \* per name its length
          MaxMountPoints,  \* MAX_MOUNT_POINTS
          KernelNameBuf,   \* KERNEL_NAME_BUF
          UserBufs,        \* sizes of buffers that users give
          Detours          \* ways in a path that lead back to where they start

Dots == <<".", "..">>
Root == <<>>
NoDir == <<"/">>

\* What stands between the slashes of a path, and how far it leads down.
IsName(n) == n \in STRING \ {"", ".", "..", "/"}
Down(part) == CASE part \in {"", "."} -> 0 [] part = ".." -> -1 [] OTHER -> 1

\* Paths are of names; a directory begins with its dots; a detour ends where it
\* starts and does not go above that.
ASSUME DirectoriesAssumption ==
    /\ Root \in DOMAIN Volume
    /\ \A d \in DOMAIN Volume :
          /\ d \in Seq(STRING) /\ \A i \in DOMAIN d : IsName(d[i])
          /\ Volume[d] \in Seq(STRING) /\ Len(Volume[d]) >= 2
          /\ Volume[d][1] = "." /\ Volume[d][2] = ".."
          /\ \A i \in 3..Len(Volume[d]) : IsName(Volume[d][i])
          /\ \A i \in 1..Len(Volume[d]) : Volume[d][i] \in DOMAIN NameLen
    /\ {".", "..", "dev", "pipe"} \subseteq DOMAIN NameLen /\ DOMAIN NameLen \subseteq STRING
    /\ \A n \in DOMAIN NameLen : NameLen[n] \in Nat
    /\ \A w \in Detours :
          /\ w \in Seq(STRING)
          /\ \E level \in [0..Len(w) -> 0..Len(w)] :
                /\ level[0] = 0 /\ level[Len(w)] = 0
                /\ \A k \in 1..Len(w) : level[k] = level[k - 1] + Down(w[k])
    /\ MaxMountPoints \in Nat \ {0} /\ {KernelNameBuf} \cup UserBufs \subseteq Nat

VARIABLES dir,     \* the directory that is open, or NoDir
          pos,     \* CurrentPosition of its File
          read,    \* history: the names ReadDir has produced for it
          given    \* history: those of them that reached the user

dirVars == <<dir, pos, read, given>>

-----------------------------------------------------------------------------
\* CanonicalizePath of a path from the root, given by what is between its slashes.
Component(stack, part) ==
    IF part \in {"", "."} THEN stack
    ELSE IF part = ".." THEN (IF stack = <<>> THEN stack ELSE Front(stack))
    ELSE Append(stack, part)
CanonicalizePath(parts) ==
    LET stack[k \in 0..Len(parts)] == IF k = 0 THEN <<>> ELSE Component(stack[k - 1], parts[k])
    IN stack[Len(parts)]

MountFS(table, path) ==
    IF Len(table) >= MaxMountPoints \/ path \in ToSet(table) THEN table ELSE Append(table, path)

\* The mount points, in the order of KernelMain.
MountPoints == MountFS(MountFS(MountFS(<<>>, Root), <<"dev">>), <<"pipe">>)

\* FindMountPoint: the longest that is the path or a directory above it.
FindMountPoint(path) ==
    CHOOSE m \in ToSet(MountPoints) : IsPrefix(m, path)
       /\ \A k \in ToSet(MountPoints) : IsPrefix(k, path) => Len(k) <= Len(m)

ResolvePath(parts) ==
    LET path == CanonicalizePath(parts)
        m == FindMountPoint(path)
    IN [fs |-> m, rel |-> SubSeq(path, Len(m) + 1, Len(path))]

Holds(path) == \/ path \in DOMAIN Volume
               \/ path # <<>> /\ Front(path) \in DOMAIN Volume
                              /\ Last(path) \in ToSet(Volume[Front(path)]) \ ToSet(Dots)

\* Lookup of the file system at a mount point: whether it has the path.  Its own
\* root is known to rootfs only.  There are no named pipes.
Lookup(at) ==
    CASE at.fs = Root -> Holds(at.rel)
      [] at.fs = <<"dev">> -> Len(at.rel) = 1 /\ at.rel[1] \in Devices
      [] OTHER -> FALSE

-----------------------------------------------------------------------------
From(names, k) == SubSeq(names, k + 1, Len(names))

\* A name with its terminator, and a linux_dirent64: 19 bytes before the name, all
\* of it rounded up to 8.
RawSize == [n \in DOMAIN NameLen |-> NameLen[n] + 1]
RecLen == [n \in DOMAIN NameLen |-> ((19 + NameLen[n] + 1 + 7) \div 8) * 8]

\* The room that the first k names take, and as many of the names as fit into the
\* room.
Need(names, size) ==
    LET need[k \in 0..Len(names)] == IF k = 0 THEN 0 ELSE need[k - 1] + size[names[k]]
    IN need
Fitting(names, size, room) == Max({k \in 0..Len(names) : Need(names, size)[k] <= room})
Taken(names, size, room) == SubSeq(names, 1, Fitting(names, size, room))
RoomAfter(names, room) == room - Need(names, RawSize)[Fitting(names, RawSize, room)]

\* EXT2FileSystem::ReadDir: the position counts entries.
Ext2ReadDir(d, at, room) == Taken(From(Volume[d], at), RawSize, room)

\* What rootfs adds to the volume: a mount point shows once, by its first component.
Shown(names, m) == IF m = Root \/ Head(m) \in ToSet(names) THEN names ELSE Append(names, Head(m))
MountNames ==
    LET names[k \in 0..Len(MountPoints)] == IF k = 0 THEN <<>> ELSE Shown(names[k - 1], MountPoints[k])
    IN names[Len(MountPoints)]
Virtual == Dots \o MountNames

\* Mutant: the volume is read from its start, dots included.
RootReadDirWithDots(at, room) ==
    LET rest == From(Virtual, at)
        own == Taken(rest, RawSize, room)
        now == at + Len(own)
    IN IF now < Len(Virtual) THEN own
       ELSE own \o Ext2ReadDir(Root, now - Len(Virtual), RoomAfter(rest, room))

\* RootFS::ReadDir: its own names as far as they fit, then those of the volume in
\* the room that is left, from the position behind the two dots.
RootReadDir(at, room) ==
    LET rest == From(Virtual, at)
        own == Taken(rest, RawSize, room)
        now == at + Len(own)
    IN IF now < Len(Virtual) THEN own
       ELSE own \o Ext2ReadDir(Root, (now - Len(Virtual)) + 2, RoomAfter(rest, room))

\* VFSManager::ReadDir: the Inode of "/" belongs to rootfs, others to ext2.
ReadDir(d, at, room) == IF d = Root THEN RootReadDir(at, room) ELSE Ext2ReadDir(d, at, room)

-----------------------------------------------------------------------------
\* Sys_Open of a directory of the volume, written with any detour in any place.
OpenDirectory(parts) ==
    /\ dir = NoDir
    /\ Lookup(ResolvePath(parts))
    /\ ResolvePath(parts).fs = Root /\ ResolvePath(parts).rel \in DOMAIN Volume
    /\ dir' = ResolvePath(parts).rel
    /\ UNCHANGED <<pos, read, given>>

\* Sys_Getdents64.  The kernel's buffer is at least as large as the user's.  The
\* position is past all that ReadDir produced, whether or not the records of the
\* names fit, and also when there is no memory for them or the user's page fails.
Sys_Getdents64(size, delivered) ==
    LET raw == ReadDir(dir, pos, IF size > KernelNameBuf THEN size ELSE KernelNameBuf) IN
    /\ dir # NoDir /\ size > 0
    /\ pos' = pos + Len(raw)
    /\ read' = read \o raw
    /\ given' = IF delivered THEN given \o Taken(raw, RecLen, size) ELSE given
    /\ UNCHANGED dir

CloseDirectory ==
    /\ dir # NoDir
    /\ dir' = NoDir /\ pos' = 0 /\ read' = <<>> /\ given' = <<>>

DirInit == dir = NoDir /\ pos = 0 /\ read = <<>> /\ given = <<>>

\* The ways to write a path: a detour at one place of it.
Spellings(path) ==
    {SubSeq(path, 1, k) \o w \o From(path, k) : k \in 0..Len(path), w \in Detours}

DirNext ==
    \/ \E d \in DOMAIN Volume : \E parts \in Spellings(d) : OpenDirectory(parts)
    \/ \E size \in UserBufs, delivered \in BOOLEAN : Sys_Getdents64(size, delivered)
    \/ CloseDirectory

DirSpec == DirInit /\ [][DirNext]_dirVars

-----------------------------------------------------------------------------
\* What a listing of the directory is, as a whole.
Listing(d) == IF d = Root THEN Virtual \o From(Volume[Root], 2) ELSE Volume[d]

\* However the calls of getdents64 cut a listing, and wherever a buffer is full
\* (among the names of rootfs, between them and the volume, or in it), ReadDir
\* passes over no entry and produces none twice: what was produced is what stands
\* before the position.  And the name leads to the entry: each one of a volume is
\* found under every way to write its path, unless a mount point hides it.
ListingIsExact ==
    dir # NoDir =>
       /\ read = SubSeq(Listing(dir), 1, pos)
       /\ \A n \in ToSet(read) \ ToSet(Dots) : \A parts \in Spellings(Append(dir, n)) :
             Lookup(ResolvePath(parts)) \/ (dir = Root /\ n \in ToSet(MountNames))

\* "Use a larger kernel buffer to hold raw names; conversion to dirent expands
\* size" (fs.cpp:335): what is read and does not fit the user's buffer is not kept
\* for the next call.  TLC refutes it (README, section 5).
EveryNameIsGiven == given = read
=============================================================================
