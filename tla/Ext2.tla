-------------------------------- MODULE Ext2 --------------------------------
(***************************************************************************)
(* EXT2FileSystem (filesys/ext2/ext2_driver.cpp) above its disk: the       *)
(* directories and one action per operation.  The unit of a position is a  *)
(* block, a directory block has room for DirSlots records of equal length, *)
(* and a path is the directory it leads to and a last name.                *)
(*                                                                         *)
(* An operation is one step: nothing else runs on the polled disk.  "w"    *)
(* says how many of its writes succeed.  open is what the VFS keeps of an  *)
(* inode while a File names it, its FileSize; neither Delete nor RMDir     *)
(* look at it, so a File may outlive its inode.                            *)
(***************************************************************************)
EXTENDS Ext2Disk

CONSTANTS DirNames,       \* last components of paths
          DirSlots,       \* records that fit into a directory block
          Offsets,        \* file blocks that are written or truncated at
          WriteLens,      \* lengths of a write
          Unlimited,      \* more writes than any operation makes
          Faults          \* how many writes of an operation succeed

ASSUME Ext2Assumption ==
    /\ DirSlots \in Nat /\ DirSlots > 1 /\ WriteLens \subseteq Nat
    /\ Offsets \subseteq Nat /\ Faults \subseteq Nat /\ Unlimited \in Nat

VARIABLES disk,    \* bitmaps, counters, inode table, block contents
          open,    \* Inode::FileSize of the inodes with an open File, or Closed
          met      \* history: the irregular events so far

ext2Vars == <<disk, open, met>>

RootDir == 1
Closed == -1
Rec(name, i) == [name |-> name, ino |-> i]
Dead == Rec("", 0)

Ext2Init ==
    /\ disk = [usedBlocks |-> {1}, usedInodes |-> {RootDir},
               freeBlocks |-> NumBlocks - 1, freeInodes |-> NumInodes - 1,
               saved |-> [blocks |-> NumBlocks - 1, inodes |-> NumInodes - 1],
               table |-> [i \in Inos |-> IF i = RootDir THEN NewInode("dir", 2, 1, 1) ELSE NoInode],
               ptr |-> [b \in Blks |-> IF b = 1 THEN OtherData ELSE NoPtrs],
               ent |-> [b \in Blks |-> IF b = 1 THEN <<Rec(".", RootDir), Rec("..", RootDir)>>
                                       ELSE <<>>],
               left |-> 0, raw |-> FALSE]
    /\ open = [i \in Inos |-> Closed]
    /\ met = {}

-----------------------------------------------------------------------------
\* The data blocks of a directory in the order of every scan, and their records.
RECURSIVE DataUnder(_, _, _)
DataUnder(d, b, l) ==
    IF b = NoBlk THEN <<>>
    ELSE IF l = 0 THEN <<b>>
    ELSE FlattenSeq([j \in 1..PtrsPerBlock |-> DataUnder(d, d.ptr[b][j], l - 1)])
DirBlocks(d, node) ==
    FlattenSeq([s \in 1..(Direct + Levels) |->
                    DataUnder(d, node.blk[s - 1], IF s <= Direct THEN 0 ELSE s - Direct)])
Records(d, node) ==
    LET blocks == DirBlocks(d, node)
    IN FlattenSeq([k \in DOMAIN blocks |-> d.ent[blocks[k]]])

\* The inode a name leads to, 0 when there is none.
FirstIno(live) == IF live = <<>> THEN 0 ELSE live[1].ino
FindEntryInDirectory(d, p, name) ==
    IF d.table[p].mode # "dir" THEN 0
    ELSE FirstIno(SelectSeq(Records(d, d.table[p]), LAMBDA r : r.ino # 0 /\ r.name = name))

\* The inodes that paths lead to.
Below(d, i) ==
    {r.ino : r \in {q \in ToSet(Records(d, d.table[i])) : q.ino # 0 /\ q.name \in DirNames}}
RECURSIVE InosFrom(_, _)
InosFrom(d, S) ==
    LET T == S \cup UNION {Below(d, j) : j \in {x \in S : d.table[x].mode = "dir"}}
    IN IF T = S THEN S ELSE InosFrom(d, T)
Under(d, i) == InosFrom(d, {i})
FindInodeForPath(d) == Under(d, RootDir)
Dirs(d) == {i \in FindInodeForPath(d) : d.table[i].mode = "dir"}

\* The record keeps its length and its place.
Erased(d, b, k) == WriteEntries(d, b, [d.ent[b] EXCEPT ![k] = Dead])
RemoveEntryFromDirectory(d, p, name) ==
    LET hits == {<<b, k>> \in ToSet(DirBlocks(d, d.table[p])) \X (1..DirSlots) :
                    k \in DOMAIN d.ent[b] /\ d.ent[b][k].ino # 0 /\ d.ent[b][k].name = name}
        hit == CHOOSE h \in hits : TRUE
    IN IF hits = {} THEN [ok |-> FALSE, d |-> d] ELSE [ok |-> CanWrite(d), d |-> Erased(d, hit[1], hit[2])]

\* try_add_in_block: only the last record of a block gives room, its own when it
\* is dead and else what lies behind it; a zeroed block has no record at all.
Put(at, b, records) ==
    [at EXCEPT !.d = WriteEntries(at.d, b, records), !.done = IF CanWrite(at.d) THEN "added" ELSE "no"]
TryAdd(at, b, r) ==
    LET e == at.d.ent[b]
    IN IF e = <<>> \/ (Last(e).ino # 0 /\ Len(e) = DirSlots) THEN at
       ELSE Put(at, b, IF Last(e).ino = 0 THEN [e EXCEPT ![Len(e)] = r] ELSE Append(e, r))

\* The indirect stages: a missing pointer gets a zeroed block, which is linked
\* and tried.
RECURSIVE AddUnder(_, _, _, _)
AddUnder(at, b, l, r) ==
    LET Into(x, c) == IF l = 1 THEN TryAdd(x, c, r) ELSE AddUnder(x, c, l - 1, r)
        Linked(acc, d, new, j) ==
            IF ~CanWrite(d) THEN [acc EXCEPT !.d = d, !.done = "undo"]
            ELSE Into([acc EXCEPT !.d = WritePtrs(d, b, [d.ptr[b] EXCEPT ![j] = new])], new)
        Grown(acc, new, j) ==
            IF new.b = NoBlk THEN [acc EXCEPT !.d = new.d]
            ELSE Linked(acc, WriteZeros(new.d, new.b), new.b, j)
        Try(acc, j) ==
            IF acc.done # "no" THEN acc
            ELSE IF acc.d.ptr[b][j] # NoBlk THEN Into(acc, acc.d.ptr[b][j])
            ELSE Grown(acc, AllocateBlock(acc.d), j)
    IN FoldLeft(Try, at, PtrOrder)

\* The tree of depth l; without a block for its top it is skipped.
Topped(at, new, s) ==
    IF new.b = NoBlk THEN at ELSE [at EXCEPT !.d = WriteZeros(new.d, new.b), !.node.blk[s] = new.b]
UnderTop(at, l, r) ==
    LET top == at.node.blk[Direct + l - 1] IN IF top = NoBlk THEN at ELSE AddUnder(at, top, l, r)
AddAtDepth(at, l, r) ==
    IF at.done # "no" THEN at
    ELSE UnderTop(IF at.node.blk[Direct + l - 1] # NoBlk THEN at
                  ELSE Topped(at, AllocateBlock(at.d), Direct + l - 1), l, r)

\* The direct stage; a direct block that cannot be had ends the attempt.
AddFresh(at, new, s, r) ==
    IF new.b = NoBlk THEN [at EXCEPT !.d = new.d, !.done = "undo"]
    ELSE TryAdd([at EXCEPT !.d = WriteZeros(new.d, new.b), !.node.blk[s] = new.b, !.got = @ \cup {s}], new.b, r)
AddDirect(at, s, r) ==
    IF at.done # "no" THEN at
    ELSE IF at.node.blk[s] # NoBlk THEN TryAdd(at, at.node.blk[s], r)
    ELSE AddFresh(at, AllocateBlock(at.d), s, r)

\* The directory's inode is a copy: it is written when the record is in, and
\* after an undo, not when every stage has been tried.
Undone(end) ==
    FoldLeft(LAMBDA e, s : IF s - 1 \in end.got THEN FreeBlock(e, end.node.blk[s - 1]) ELSE e,
             end.d, [s \in 1..Direct |-> s])
Concluded(end, p) ==
    [ok |-> end.done = "added",
     d |-> CASE end.done = "added" -> WriteInode(end.d, p, end.node)
             [] end.done = "undo" ->
                  WriteInode(Undone(end), p, [end.node EXCEPT !.blk = [s \in BlkSlots |-> IF s \in end.got THEN NoBlk ELSE @[s]]])
             [] OTHER -> end.d]
AddEntryToDirectory(d, p, r) ==
    LET start == [d |-> d, node |-> d.table[p], got |-> {}, done |-> "no"]
        direct == FoldLeft(LAMBDA at, s : AddDirect(at, s - 1, r), start, [s \in 1..Direct |-> s])
    IN Concluded(FoldLeft(LAMBDA at, l : AddAtDepth(at, l, r), direct, [l \in Depths |-> l]), p)

-----------------------------------------------------------------------------
\* How an operation starts and ends.
With(w) == [disk EXCEPT !.left = w]
Ends(d, w, events) ==
    /\ disk' = [d EXCEPT !.left = 0, !.raw = FALSE]
    /\ met' = met \cup events \cup (IF d.left = 0 THEN {"fault"} ELSE {})
                  \cup (IF d.raw THEN {"raw"} ELSE {})
Leaves(event, d) == IF d.left = 0 THEN {event} ELSE {}
OpenSize(i, size) == open' = [open EXCEPT ![i] = size]

\* VFSManager::Open with O_CREAT on a path that Lookup does not find.
CreateNode(p, n, w) ==
    /\ FindEntryInDirectory(disk, p, n) = 0
    /\ \E new \in {AllocateInode(With(w))} :
         IF new.i = 0 THEN Ends(new.d, w, {}) /\ UNCHANGED open
         ELSE \E add \in {AddEntryToDirectory(WriteInode(new.d, new.i, NewInode("file", 1, 0, NoBlk)), p, Rec(n, new.i))} :
                IF CanWrite(new.d) /\ add.ok THEN Ends(add.d, w, {}) /\ OpenSize(new.i, 0)
                ELSE Ends(FreeInode(add.d, new.i), w, {"full"}) /\ UNCHANGED open

\* PopulateInode for the first File of an inode.
OpenNode(i) ==
    /\ i \in FindInodeForPath(disk) \ {RootDir} /\ disk.table[i].mode = "file" /\ open[i] = Closed
    /\ OpenSize(i, disk.table[i].size)
    /\ UNCHANGED <<disk, met>>

\* Close writes the inode back with new times.
CloseNode(i, w) ==
    /\ open[i] # Closed
    /\ Ends(WriteInode(With(w), i, disk.table[i]), w, {})
    /\ OpenSize(i, Closed)

\* Flush writes the inode and the counters.
Flush(i, w) ==
    LET d == WriteInode(With(w), i, disk.table[i])
    IN /\ open[i] # Closed
       /\ Ends(IF w = 0 THEN d ELSE PersistSuperblockAndBGDT(d), w, {})
       /\ UNCHANGED open

\* Write from block "at" on.  It stops at the first block it cannot get or
\* write, keeps what it has, and does not mind if the inode cannot be written.
PutBlock(got, idx) ==
    IF got.b = NoBlk \/ ~CanWrite(got.d) THEN [d |-> got.d, node |-> got.node, go |-> FALSE]
    ELSE [d |-> Wrote([got.d EXCEPT !.ptr[got.b] = OtherData, !.ent[got.b] = <<>>]), go |-> TRUE,
          node |-> [got.node EXCEPT !.size = IF idx + 1 > @ THEN idx + 1 ELSE @]]
WriteAt(i, at, n, w) ==
    LET PutNext(acc, k) ==
            IF ~acc.go THEN acc
            ELSE PutBlock(GetOrAllocateBlockForFileOffset(acc.d, acc.node, at + k - 1), at + k - 1)
    IN /\ open[i] # Closed
       /\ \E end \in {FoldLeft(PutNext, [d |-> With(w), node |-> disk.table[i], go |-> TRUE], [k \in 1..n |-> k])} :
            /\ Ends(PersistSuperblockAndBGDT(WriteInode(end.d, i, end.node)), w,
                    IF disk.table[i].mode # "file" THEN {"stale"} ELSE {})
            /\ OpenSize(i, end.node.size)

\* Append goes to the FileSize of the VFS, not of the disk.
AppendTo(i, n, w) == open[i] \in FileBlocks /\ open[i] + n - 1 \in FileBlocks /\ WriteAt(i, open[i], n, w)

\* A larger size is only noted; a smaller one frees blocks before the inode
\* that names them is written.
Truncate(i, size, w) ==
    LET node == disk.table[i]
    IN /\ open[i] # Closed
       /\ \E shrunk \in {IF size >= node.size THEN [d |-> With(w), node |-> node] ELSE ShrinkInode(With(w), node, size)} :
            LET d == WriteInode(shrunk.d, i, [shrunk.node EXCEPT !.size = size])
            IN /\ Ends(IF CanWrite(shrunk.d) THEN PersistSuperblockAndBGDT(d) ELSE d, w,
                       Leaves("torn", shrunk.d) \cup (IF node.mode # "file" THEN {"stale"} ELSE {}))
               /\ IF CanWrite(shrunk.d) THEN OpenSize(i, size) ELSE UNCHANGED open

MKDir(p, n, w) ==
    /\ FindEntryInDirectory(disk, p, n) = 0
    /\ UNCHANGED open
    /\ \E ino \in {AllocateInode(With(w))} :
         IF ino.i = 0 THEN Ends(ino.d, w, {})
         ELSE \E blk \in {AllocateBlock(ino.d)} :
           IF blk.b = NoBlk THEN Ends(FreeInode(blk.d, ino.i), w, {})
           ELSE LET dots == WriteEntries(blk.d, blk.b, <<Rec(".", ino.i), Rec("..", p)>>)
                    inode == WriteInode(dots, ino.i, NewInode("dir", 2, 1, blk.b))
                IN \E add \in {AddEntryToDirectory(inode, p, Rec(n, ino.i))} :
                     IF ~add.ok THEN Ends(FreeInode(FreeBlock(add.d, blk.b), ino.i), w, {"full"})
                     ELSE Ends(PersistSuperblockAndBGDT(
                                 WriteInode(add.d, p, [add.d.table[p] EXCEPT !.links = @ + 1])), w, {})

IsEmpty(d, i) == Below(d, i) = {}

\* Mutant: the blocks are freed before the name goes.
RMDirFreesFirst(p, n, w) ==
    \E i \in {FindEntryInDirectory(disk, p, n)} \ {0} :
      LET freed == FreeInode(FreeAllBlocks(With(w), disk.table[i]), i)
          parent == [disk.table[p] EXCEPT !.links = IF @ > 0 THEN @ - 1 ELSE @]
      IN /\ disk.table[i].mode = "dir" /\ IsEmpty(disk, i)
         /\ UNCHANGED open
         /\ \E cut \in {RemoveEntryFromDirectory(freed, p, n)} :
              Ends(PersistSuperblockAndBGDT(WriteInode(cut.d, p, parent)), w, {})

\* Only an empty directory; a scan that fails to find the name ends the call.
RMDir(p, n, w) ==
    \E i \in {FindEntryInDirectory(disk, p, n)} \ {0} :
      LET parent == [disk.table[p] EXCEPT !.links = IF @ > 0 THEN @ - 1 ELSE @]
      IN /\ disk.table[i].mode = "dir" /\ IsEmpty(disk, i)
         /\ UNCHANGED open
         /\ \E cut \in {RemoveEntryFromDirectory(With(w), p, n)} :
              Ends(IF cut.ok
                   THEN PersistSuperblockAndBGDT(
                          WriteInode(FreeInode(FreeAllBlocks(cut.d, disk.table[i]), i), p, parent))
                   ELSE cut.d, w, {})

\* The name goes first, then the link, and the blocks with the last link.
Unlinked(d, i, node) ==
    IF node.links = 0 THEN PersistSuperblockAndBGDT(FreeInode(FreeAllBlocks(d, node), i))
    ELSE WriteInode(d, i, node)
DeleteFile(p, n, w) ==
    \E i \in {FindEntryInDirectory(disk, p, n)} \ {0} :
      LET node == [disk.table[i] EXCEPT !.links = IF @ > 0 THEN @ - 1 ELSE @]
      IN /\ disk.table[i].mode = "file"
         /\ UNCHANGED open
         /\ \E cut \in {RemoveEntryFromDirectory(With(w), p, n)} :
              Ends(IF cut.ok THEN WriteInode(Unlinked(WriteInode(cut.d, i, node), i, node), p, disk.table[p])
                   ELSE cut.d, w,
                   IF open[i] # Closed THEN {"stale"} ELSE {})

\* The new name is added and counted before the old one is removed.  Neither
\* the ".." of a directory nor the links of its parents follow.
Rename(p, n, q, m, w) ==
    /\ <<p, n>> # <<q, m>> /\ FindEntryInDirectory(disk, q, m) = 0
    /\ UNCHANGED open
    /\ \E i \in {FindEntryInDirectory(disk, p, n)} \ {0} :
       \E add \in {AddEntryToDirectory(With(w), q, Rec(m, i))} :
         IF ~add.ok THEN Ends(add.d, w, {"full"})
         ELSE \E twice \in {WriteInode(add.d, i, [add.d.table[i] EXCEPT !.links = @ + 1])} :
              \E cut \in {RemoveEntryFromDirectory(twice, p, n)} :
                LET once == WriteInode(cut.d, i, add.d.table[i])
                IN Ends(IF ~cut.ok THEN cut.d
                        ELSE WriteInode(WriteInode(once, p, disk.table[p]), q, add.d.table[q]), w,
                        Leaves("torn", twice) \cup Leaves("torn", cut.d)
                          \cup (IF q \in Under(disk, i) THEN {"cycle"} ELSE {})
                          \cup (IF disk.table[i].mode = "dir" /\ p # q THEN {"moved"} ELSE {}))

\* Mount reads the counters the disk has; a crash skips Unmount.
Remount(orderly) ==
    /\ disk' = [disk EXCEPT !.freeBlocks = IF orderly THEN @ ELSE disk.saved.blocks,
                            !.freeInodes = IF orderly THEN @ ELSE disk.saved.inodes,
                            !.saved = IF orderly THEN [blocks |-> disk.freeBlocks, inodes |-> disk.freeInodes]
                                      ELSE @]
    /\ open' = [i \in Inos |-> Closed]
    /\ met' = IF orderly THEN met ELSE met \cup {"fault"}

\* Paths lead to a directory p of the tree and a name n in it; ws says how many
\* writes may succeed, and an operation fails at most once in a behaviour.
Ext2Next(ws) ==
    \/ \E w \in IF "fault" \in met THEN {Unlimited} ELSE ws :
        \/ \E p \in Dirs(disk), n \in DirNames :
              CreateNode(p, n, w) \/ MKDir(p, n, w) \/ RMDir(p, n, w) \/ DeleteFile(p, n, w)
        \/ \E p, q \in Dirs(disk), n, m \in DirNames : Rename(p, n, q, m, w)
        \/ \E i \in Inos : CloseNode(i, w) \/ Flush(i, w)
        \/ \E i \in Inos, n \in WriteLens : AppendTo(i, n, w) \/ \E at \in Offsets : WriteAt(i, at, n, w)
        \/ \E i \in Inos, size \in Offsets : Truncate(i, size, w)
    \/ \E i \in Inos : OpenNode(i)
    \/ \E orderly \in BOOLEAN : Remount(orderly)

-----------------------------------------------------------------------------
\* Every block under a pointer, once per path that leads to it.
RECURSIVE BlocksUnder(_, _, _)
BlocksUnder(d, b, l) ==
    IF b = NoBlk THEN <<>>
    ELSE <<b>> \o (IF l = 0 THEN <<>>
                   ELSE FlattenSeq([j \in 1..PtrsPerBlock |-> BlocksUnder(d, d.ptr[b][j], l - 1)]))
BlocksOf(d, i) ==
    FlattenSeq([s \in 1..(Direct + Levels) |->
                    BlocksUnder(d, d.table[i].blk[s - 1], IF s <= Direct THEN 0 ELSE s - Direct)])

\* Files never share a block and hold none that the bitmap calls free, whatever
\* write an operation fails at or the machine stops at: a name leads to an inode
\* that is allocated, and no block of it can be handed out again.  The exceptions
\* are Truncate and Rename cut off in the middle ("torn"), a Write cut off between
\* linking a new pointer block and zeroing it ("raw"), whose old pointers then lead
\* to blocks that are free or another's, a directory moved below itself ("cycle"),
\* and a failing write together with a File that outlives its inode ("stale").
NamedBlocksAreOwnedOnce ==
    met \cap {"torn", "raw", "cycle"} = {} /\ ~({"fault", "stale"} \subseteq met) =>
        LET named == FindInodeForPath(disk)
            held == FlattenSeq([k \in 1..NumInodes |-> IF k \in named THEN BlocksOf(disk, k) ELSE <<>>])
        IN /\ IsInjective(held) /\ ToSet(held) \subseteq disk.usedBlocks
           /\ \A i \in named : i \in disk.usedInodes /\ disk.table[i].mode # "free"

\* With no failing write, no File that outlives its inode and no full directory,
\* the bitmaps and their counters say exactly what the inodes hold, a file has as
\* many links as names, and nothing is kept past the end of a file, where a later
\* growth would bring it back.
RegularUseIsConsistent ==
    met = {} =>
        LET d == disk
            named == FindInodeForPath(d)
            all == FlattenSeq([p \in Inos |-> IF p \in Dirs(d) THEN Records(d, d.table[p]) ELSE <<>>])
            names(i) == Len(SelectSeq(all, LAMBDA r : r.ino = i /\ r.name \in DirNames))
        IN /\ d.usedBlocks = UNION {ToSet(BlocksOf(d, i)) : i \in named}
           /\ d.freeBlocks = NumBlocks - Cardinality(d.usedBlocks)
           /\ d.usedInodes = named /\ named = {i \in Inos : d.table[i].mode # "free"}
           /\ d.freeInodes = NumInodes - Cardinality(named)
           /\ \A i \in named : d.table[i].mode = "file" =>
                /\ d.table[i].links = names(i)
                /\ open[i] # Closed => open[i] = d.table[i].size
                /\ \A idx \in FileBlocks :
                     idx >= d.table[i].size => GetBlockNumForFileOffset(d, d.table[i], idx) = NoBlk

\* Without a failing write every block that the bitmap calls used belongs to an
\* inode.  A name that does not fit into its directory breaks this: the blocks
\* AddEntryToDirectory has taken are in no inode on the disk.
\* TLC refutes it (README, section 5).
NoBlockIsLost ==
    met \subseteq {"full"} =>
        disk.usedBlocks \subseteq UNION {ToSet(BlocksOf(disk, i)) : i \in disk.usedInodes}
=============================================================================
