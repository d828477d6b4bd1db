------------------------------ MODULE Ext2Disk ------------------------------
(***************************************************************************)
(* The disk side of EXT2FileSystem (filesys/ext2/ext2_driver.cpp): the two *)
(* bitmaps with their counters, the inode table, and the tree of pointer   *)
(* blocks under an inode.  An operation maps a disk to a disk.             *)
(*                                                                         *)
(* Writes fail as the driver's own hook makes them fail (DebugFailAfter):  *)
(* "left" more writes succeed, all later ones fail.  Up to the first       *)
(* failure the disk is also what a crash at that write leaves behind.      *)
(* There is one block group; block and inode numbers start at 1 and name   *)
(* only what can be allocated.  Left out: times, owners, i_blocks,         *)
(* bg_used_dirs_count and the counters of the superblock, which no         *)
(* decision reads, and failing reads.                                      *)
(***************************************************************************)
EXTENDS Integers, FiniteSets, Sequences, SequencesExt

CONSTANTS NumBlocks, NumInodes,   \* s_blocks_per_group, s_inodes_per_group
          Direct,                 \* direct pointers of an inode (12)
          PtrsPerBlock,           \* EntriesPerBlock
          Levels,                 \* depths of indirection (3)
          OtherData               \* how file data and directory records read as pointers

ASSUME Ext2DiskAssumption ==
    /\ {NumBlocks, NumInodes, Direct, PtrsPerBlock} \subseteq Nat \ {0}
    /\ Levels \in Nat
    /\ OtherData \in [1..PtrsPerBlock -> 0..NumBlocks]

Blks == 1..NumBlocks
Inos == 1..NumInodes
NoBlk == 0
BlkSlots == 0..(Direct + Levels - 1)     \* i_block
Depths == 1..Levels
PtrOrder == [j \in 1..PtrsPerBlock |-> j]
NoPtrs == [j \in 1..PtrsPerBlock |-> NoBlk]

\* An inode of the table; mode "free" is i_mode = 0.
NewInode(mode, links, size, first) ==
    [mode |-> mode, links |-> links, size |-> size,
     blk |-> [s \in BlkSlots |-> IF s = 0 THEN first ELSE NoBlk]]
NoInode == NewInode("free", 0, 0, NoBlk)

\* DebugFailAfter: one write less will succeed.
CanWrite(d) == d.left > 0
Wrote(d) == [d EXCEPT !.left = @ - 1]

\* A block is read as pointers (ptr) or as directory records (ent).
WritePtrs(d, b, p) == IF CanWrite(d) THEN [Wrote(d) EXCEPT !.ptr[b] = p] ELSE d
WriteZeros(d, b) ==
    IF CanWrite(d) THEN [Wrote(d) EXCEPT !.ptr[b] = NoPtrs, !.ent[b] = <<>>] ELSE d
WriteEntries(d, b, e) ==
    IF CanWrite(d) THEN [Wrote(d) EXCEPT !.ptr[b] = OtherData, !.ent[b] = e] ELSE d
WriteInode(d, i, node) == IF CanWrite(d) THEN [Wrote(d) EXCEPT !.table[i] = node] ELSE d

\* The table of group descriptors, with the counters the allocators trust.
PersistSuperblockAndBGDT(d) ==
    IF CanWrite(d)
    THEN [Wrote(d) EXCEPT !.saved = [blocks |-> d.freeBlocks, inodes |-> d.freeInodes]]
    ELSE d

-----------------------------------------------------------------------------
\* The first clear bit; the counter goes to the disk after the bitmap.
TakeBlock(d, b) ==
    [b |-> b,
     d |-> PersistSuperblockAndBGDT([Wrote(d) EXCEPT !.usedBlocks = @ \cup {b}, !.freeBlocks = @ - 1])]
AllocateBlock(d) ==
    IF d.freeBlocks = 0 \/ Blks \subseteq d.usedBlocks \/ ~CanWrite(d) THEN [d |-> d, b |-> NoBlk]
    ELSE TakeBlock(d, Min(Blks \ d.usedBlocks))

TakeInode(d, i) ==
    [i |-> i,
     d |-> PersistSuperblockAndBGDT([Wrote(d) EXCEPT !.usedInodes = @ \cup {i}, !.freeInodes = @ - 1])]
AllocateInode(d) ==
    IF d.freeInodes = 0 \/ Inos \subseteq d.usedInodes \/ ~CanWrite(d) THEN [d |-> d, i |-> 0]
    ELSE TakeInode(d, Min(Inos \ d.usedInodes))

FreeBlock(d, b) ==
    IF ~CanWrite(d) THEN d
    ELSE [Wrote(d) EXCEPT !.usedBlocks = @ \ {b}, !.freeBlocks = @ + 1]

\* The bitmap first; when that write fails the table is left alone.
FreeInode(d, i) ==
    IF ~CanWrite(d) THEN d
    ELSE WriteInode([Wrote(d) EXCEPT !.usedInodes = @ \ {i}, !.freeInodes = @ + 1], i, NoInode)

-----------------------------------------------------------------------------
\* Where block number idx of a file hangs: a slot of i_block and the pointer
\* to follow at each level below it.
Span(l) == PtrsPerBlock ^ l
DepthStart[l \in 1..(Levels + 1)] ==
    IF l = 1 THEN Direct ELSE DepthStart[l - 1] + Span(l - 1)
FileBlocks == 0..(DepthStart[Levels + 1] - 1)
DepthOf(idx) == IF idx < Direct THEN 0
                ELSE CHOOSE l \in Depths : DepthStart[l] <= idx /\ idx < DepthStart[l + 1]
SlotOf == [idx \in FileBlocks |-> IF idx < Direct THEN idx ELSE Direct + DepthOf(idx) - 1]
Steps == [idx \in FileBlocks |->
            LET l == DepthOf(idx)
            IN [k \in 1..l |-> 1 + (((idx - DepthStart[l]) \div Span(l - k)) % PtrsPerBlock)]]

GetBlockNumForFileOffset(d, node, idx) ==
    FoldLeft(LAMBDA b, j : IF b = NoBlk THEN NoBlk ELSE d.ptr[b][j],
             node.blk[SlotOf[idx]], Steps[idx])

\* One level down from depth l, with a new block where there is none: allocate,
\* link, zero.  A block whose link could not be written stays allocated; a pointer
\* block that is linked and could not be zeroed ("raw") has the pointers of its last use.
LinkNew(new, b, l, j) ==
    LET linked == WritePtrs(new.d, b, [new.d.ptr[b] EXCEPT ![j] = new.b]) IN
    IF new.b = NoBlk \/ ~CanWrite(new.d) THEN [d |-> new.d, b |-> NoBlk, l |-> l]
    ELSE [d |-> [WriteZeros(linked, new.b) EXCEPT !.raw = @ \/ (l > 1 /\ ~CanWrite(linked))],
          b |-> new.b, l |-> l - 1]
Descend(at, j) ==
    IF at.b = NoBlk THEN at
    ELSE IF at.d.ptr[at.b][j] # NoBlk THEN [at EXCEPT !.b = at.d.ptr[at.b][j], !.l = @ - 1]
    ELSE LinkNew(AllocateBlock(at.d), at.b, at.l, j)

\* The inode is the caller's copy: its new pointer reaches the disk with the
\* caller's WriteInode.
Zeroed(new) == IF new.b = NoBlk THEN new ELSE [new EXCEPT !.d = WriteZeros(new.d, new.b)]
WithTop(end, top, node, s) == [d |-> end.d, b |-> end.b, node |-> [node EXCEPT !.blk[s] = top.b]]
GetOrAllocateBlockForFileOffset(d, node, idx) ==
    LET s == SlotOf[idx]
        top == IF node.blk[s] # NoBlk THEN [d |-> d, b |-> node.blk[s]] ELSE Zeroed(AllocateBlock(d))
        start == [d |-> top.d, b |-> top.b, l |-> DepthOf(idx)]
    IN WithTop(FoldLeft(Descend, start, Steps[idx]), top, node, s)

-----------------------------------------------------------------------------
\* Truncate below the pointer block b of depth l whose first file block is
\* start: frees the data blocks from number keep on, and b when it is empty.
RECURSIVE ShrinkTree(_, _, _, _, _)
SetPtr(acc, j, sub) == [d |-> sub.d, p |-> [acc.p EXCEPT ![j] = sub.b]]
FreeOrKeep(all, b) ==
    IF all.p = NoPtrs THEN [d |-> FreeBlock(all.d, b), b |-> NoBlk]
    ELSE [d |-> WritePtrs(all.d, b, all.p), b |-> b]
ShrinkTree(d, b, l, start, keep) ==
    LET Below(acc, j) ==
            LET from == start + (j - 1) * Span(l - 1)
            IN IF acc.p[j] = NoBlk THEN acc
               ELSE IF l > 1 THEN SetPtr(acc, j, ShrinkTree(acc.d, acc.p[j], l - 1, from, keep))
               ELSE IF from < keep THEN acc
               ELSE SetPtr(acc, j, [d |-> FreeBlock(acc.d, acc.p[j]), b |-> NoBlk])
    IN FreeOrKeep(FoldLeft(Below, [d |-> d, p |-> d.ptr[b]], PtrOrder), b)

\* Mutant: pointer blocks that become empty are freed but stay linked.
ShrinkInodeKeepsTops(d, node, keep) ==
    FoldLeft(LAMBDA acc, l : IF acc.node.blk[Direct + l - 1] = NoBlk THEN acc
                             ELSE [acc EXCEPT !.d = ShrinkTree(acc.d, acc.node.blk[Direct + l - 1], l,
                                                               DepthStart[l], keep).d],
             [d |-> d, node |-> node], [l \in Depths |-> l])

\* All of Truncate's freeing: direct blocks, then each indirect tree.
SetSlot(acc, s, sub) == [d |-> sub.d, node |-> [acc.node EXCEPT !.blk[s] = sub.b]]
ShrinkInode(d, node, keep) ==
    LET FreeDirect(acc, s) ==
            IF s < keep \/ s >= node.size \/ acc.node.blk[s] = NoBlk THEN acc
            ELSE SetSlot(acc, s, [d |-> FreeBlock(acc.d, acc.node.blk[s]), b |-> NoBlk])
        FreeIndirect(acc, l) ==
            LET s == Direct + l - 1
            IN IF acc.node.blk[s] = NoBlk THEN acc
               ELSE SetSlot(acc, s, ShrinkTree(acc.d, acc.node.blk[s], l, DepthStart[l], keep))
    IN FoldLeft(FreeIndirect,
                FoldLeft(FreeDirect, [d |-> d, node |-> node], [s \in 1..Direct |-> s - 1]),
                [l \in Depths |-> l])

\* Delete and RMDir: the data blocks of a tree, then its pointer blocks.
RECURSIVE FreeTree(_, _, _)
FreeTree(d, b, l) ==
    IF b = NoBlk THEN d
    ELSE IF l = 0 THEN FreeBlock(d, b)
    ELSE FreeBlock(FoldLeft(LAMBDA e, j : FreeTree(e, d.ptr[b][j], l - 1), d, PtrOrder), b)

FreeAllBlocks(d, node) ==
    FoldLeft(LAMBDA e, s : FreeTree(e, node.blk[s - 1], IF s <= Direct THEN 0 ELSE s - Direct),
             d, [s \in 1..(Direct + Levels) |-> s])
=============================================================================
