------------------------------- MODULE Fat32 --------------------------------
(***************************************************************************)
(* FAT32FileSystem (filesys/fat32/fat32.cpp, fat32_helper.cpp): the table  *)
(* of clusters, the directories in their slots, and the FAT32_VNode of     *)
(* every open File, one action per operation.                              *)
(*                                                                         *)
(* The unit of a size or position is a cluster and a cluster has one       *)
(* sector.  Every name needs NameSlots slots, its LFN entries and the SFN. *)
(* "left" writes succeed before all others of an operation fail, which is  *)
(* also what a crash at that write leaves; reads do not fail.  Left out:   *)
(* times, the text of names, the second copies of the table (only their    *)
(* writes count), and that several operations keep Lookup's 64-bit number  *)
(* in a U32: the model keeps it whole.                                     *)
(***************************************************************************)
EXTENDS Integers, FiniteSets, Sequences, SequencesExt

CONSTANTS TotalClusters,   \* m_TotalClusters
          FatCopies,       \* m_BPB.NumFATs
          FatNames, FatSlots, NameSlots,  \* names, slots of a sector, slots of a name
          FatNodes,        \* Files that can be open at once
          FatSizes,        \* sizes a file is cut or grown to
          FatFaults, NoFault              \* writes that succeed; more than any call makes

ASSUME Fat32Assumption ==
    /\ TotalClusters \in Nat /\ TotalClusters > 2 /\ FatCopies \in Nat \ {0}
    /\ FatSlots \in Nat /\ NameSlots \in Nat /\ NameSlots > 1
    /\ FatSizes \subseteq Nat /\ FatFaults \subseteq Nat /\ NoFault \in Nat

VARIABLES vol,      \* the volume: fat, slots of every cluster, hint, saved hint
          nodes,    \* the FAT32_VNode of each open File, or NoNode
          fatMet    \* history: the irregular events so far

fatVars == <<vol, nodes, fatMet>>

FatRoot == 2
FreeCl == 0
EOC == -1
NoSlot == <<0, 0>>
NoNode == [start |-> 0, size |-> 0, at |-> NoSlot]
Sfn(name, start, size, dir) == [k |-> "sfn", name |-> name, start |-> start, size |-> size, dir |-> dir]
Blank(k) == [k |-> k, name |-> "", start |-> 0, size |-> 0, dir |-> FALSE]
Zeroes == [i \in 1..FatSlots |-> Blank("end")]

Fat32Init ==
    /\ vol = [fat |-> [c \in 0..(TotalClusters + 1) |-> IF c <= FatRoot THEN EOC ELSE FreeCl],
              slot |-> [c \in 2..(TotalClusters + 1) |-> Zeroes],
              hint |-> 2, info |-> 2, left |-> 0]
    /\ nodes = [k \in FatNodes |-> NoNode]
    /\ fatMet = {}

-----------------------------------------------------------------------------
\* A sector written to the data area; the calls that care ask for WriteOk first.
WriteOk(d) == d.left > 0
WriteSlots(d, c, s) == IF WriteOk(d) THEN [d EXCEPT !.slot[c] = s, !.left = @ - 1] ELSE d
WriteData(d) == IF WriteOk(d) THEN [d EXCEPT !.left = @ - 1] ELSE d

GetNextCluster(d, c) == d.fat[c]

\* One write per copy; the first copy is the one that is read.
SetNextCluster(d, c, v) ==
    [ok |-> d.left >= FatCopies,
     d |-> IF WriteOk(d)
           THEN [d EXCEPT !.fat[c] = v, !.left = IF @ > FatCopies THEN @ - FatCopies ELSE 0] ELSE d]

UpdateFSInfoHint(d, h) ==
    IF WriteOk(d) THEN [d EXCEPT !.hint = h, !.info = h, !.left = @ - 1] ELSE [d EXCEPT !.hint = h]

FreeClusters(d) == {c \in 2..(TotalClusters - 1) : GetNextCluster(d, c) = FreeCl}

\* Mutant: the cluster is found but not marked.
FindFreeClusterUnmarked(d) ==
    IF FreeClusters(d) = {} THEN [d |-> d, c |-> 0]
    ELSE [d |-> UpdateFSInfoHint(d, Min(FreeClusters(d))), c |-> Min(FreeClusters(d))]

\* From the hint to the end, then from the start.  The last two clusters of
\* the volume are never looked at.
Marked(marked, c) ==
    IF marked.ok THEN [d |-> UpdateFSInfoHint(marked.d, c + 1), c |-> c] ELSE [d |-> marked.d, c |-> 0]
FirstFrom(free, from) == Min(IF \E c \in free : c >= from THEN {c \in free : c >= from} ELSE free)
FindFreeCluster(d) ==
    LET found == FirstFrom(FreeClusters(d), IF d.hint \in 2..(TotalClusters - 1) THEN d.hint ELSE 2)
    IN IF FreeClusters(d) = {} THEN [d |-> d, c |-> 0] ELSE Marked(SetNextCluster(d, found, EOC), found)

\* The new cluster is lost when it cannot be linked.
LinkBehind(new, last) ==
    IF new.c = 0 \/ last = 0 THEN new
    ELSE LET linked == SetNextCluster(new.d, last, new.c)
         IN [d |-> linked.d, c |-> IF linked.ok THEN new.c ELSE 0]
AllocateCluster(d, last) == LinkBehind(FindFreeCluster(d), last)

\* The clusters from c on, at most as many as the loops' guards allow.
RECURSIVE ChainFrom(_, _, _)
ChainFrom(d, c, fuel) ==
    IF c < 2 \/ fuel = 0 THEN <<>>
    ELSE <<c>> \o ChainFrom(d, GetNextCluster(d, c), fuel - 1)
Chain(d, c) == ChainFrom(d, c, TotalClusters + 2)

\* Mutant: the link is read after it has been cleared.
FreeClusterChainFirst(d, start) ==
    IF start < 2 THEN d ELSE UpdateFSInfoHint(SetNextCluster(d, start, FreeCl).d, start)

FreeClusterChain(d, start) ==
    IF start < 2 THEN d
    ELSE UpdateFSInfoHint(
            FoldLeft(LAMBDA e, c : SetNextCluster(e, c, FreeCl).d, d, Chain(d, start)),
            Min(ToSet(Chain(d, start))))

-----------------------------------------------------------------------------
\* Directories.  A slot is named by its cluster and its index.
Places(d, start) ==
    LET cs == Chain(d, start)
    IN FlattenSeq([k \in DOMAIN cs |-> [i \in 1..FatSlots |-> <<cs[k], i>>]])
SlotAt(d, at) == d.slot[at[1]][at[2]]

\* The SFN entries a scan comes to: the first unused slot ends the directory.
BeforeEnd(d, ps) ==
    LET ends == {k \in DOMAIN ps : SlotAt(d, ps[k]).k = "end"}
    IN IF ends = {} THEN ps ELSE SubSeq(ps, 1, Min(ends) - 1)
ReadDirectory(d, start) ==
    SelectSeq(BeforeEnd(d, Places(d, start)), LAMBDA at : SlotAt(d, at).k = "sfn")

FirstSlot(hits) == IF hits = <<>> THEN NoSlot ELSE hits[1]
FindFileInDir(d, start, name) ==
    FirstSlot(SelectSeq(ReadDirectory(d, start), LAMBDA at : SlotAt(d, at).name = name))

\* The directories that paths lead to, as their first clusters.
SubDirs(d, start) ==
    {SlotAt(d, at).start : at \in {a \in ToSet(ReadDirectory(d, start)) :
                                        SlotAt(d, a).dir /\ SlotAt(d, a).name \in FatNames}}
RECURSIVE DirsBelow(_, _)
DirsBelow(d, S) ==
    LET T == S \cup UNION {SubDirs(d, c) : c \in S} IN IF T = S THEN S ELSE DirsBelow(d, T)
LookupDirs(d) == DirsBelow(d, {FatRoot})

\* Adjacent slots of one sector that are unused or deleted.
FindFreeDirSlots(d, start) ==
    LET Free(at) == /\ at[2] + NameSlots - 1 <= FatSlots
                    /\ \A i \in 0..(NameSlots - 1) : SlotAt(d, <<at[1], at[2] + i>>).k \in {"end", "dead"}
    IN FirstSlot(SelectSeq(Places(d, start), Free))

\* Up to four times a new cluster is linked to the directory and then zeroed;
\* "torn" is a directory whose last cluster was never zeroed.
MaxExpandAttempts == 4
RECURSIVE FindOrExpand(_, _, _)
Expanded(new, start, attempt) ==
    IF new.c = 0 \/ ~WriteOk(new.d) THEN [d |-> new.d, at |-> NoSlot, torn |-> ~WriteOk(new.d)]
    ELSE FindOrExpand(WriteSlots(new.d, new.c, Zeroes), start, attempt + 1)
FoundOrExpanded(d, at, start, attempt) ==
    IF at # NoSlot \/ attempt = MaxExpandAttempts THEN [d |-> d, at |-> at, torn |-> FALSE]
    ELSE Expanded(AllocateCluster(d, Last(Chain(d, start))), start, attempt)
FindOrExpand(d, start, attempt) == FoundOrExpanded(d, FindFreeDirSlots(d, start), start, attempt)

\* The LFN entries one by one, then the SFN, each with a write of the sector.
WriteLFNs(d, at) ==
    FoldLeft(LAMBDA e, i : WriteSlots(e, at[1], [e.slot[at[1]] EXCEPT ![at[2] + i - 1] = Blank("lfn")]),
             d, [i \in 1..(NameSlots - 1) |-> i])
WriteSFN(d, at, sfn) ==
    [ok |-> WriteOk(d), at |-> at, torn |-> FALSE,
     d |-> WriteSlots(d, at[1], [d.slot[at[1]] EXCEPT ![at[2]] = sfn])]
CreateIn(room, sfn) ==
    IF room.at = NoSlot THEN [ok |-> FALSE, d |-> room.d, at |-> NoSlot, torn |-> room.torn]
    ELSE WriteSFN(WriteLFNs(room.d, room.at), <<room.at[1], room.at[2] + NameSlots - 1>>, sfn)
CreateDirectoryEntry(d, start, sfn) == CreateIn(FindOrExpand(d, start, 0), sfn)

\* The SFN first, then the LFN entries before it.
RemoveDirectoryEntryAndLFNs(d, at) ==
    LET c == at[1]
        dead == WriteSlots(d, c, [d.slot[c] EXCEPT ![at[2]] = Blank("dead")])
        mine == {i \in 1..(at[2] - 1) : \A j \in i..(at[2] - 1) : d.slot[c][j].k = "lfn"}
    IN IF ~WriteOk(d) THEN d
       ELSE WriteSlots(dead, c, [i \in 1..FatSlots |-> IF i \in mine THEN Blank("dead") ELSE dead.slot[c][i]])

\* What the node says goes into its slot, whatever is there by now.
UpdateDirectoryEntry(d, node) ==
    LET c == node.at[1]
    IN WriteSlots(d, c, [d.slot[c] EXCEPT ![node.at[2]].start = node.start, ![node.at[2]].size = node.size])

-----------------------------------------------------------------------------
\* How an operation starts and ends.  What a free cluster holds is overwritten
\* before it is read, but for a directory whose new cluster could not be zeroed
\* ("torn"); what such a directory shows is not followed further.
VolWith(w) == [vol EXCEPT !.left = w]
VolEnds(d, events) ==
    /\ vol' = [d EXCEPT !.left = 0,
                        !.slot = [c \in DOMAIN @ |-> IF d.fat[c] = FreeCl THEN Zeroes ELSE @[c]]]
    /\ fatMet' = fatMet \cup events \cup (IF d.left = 0 THEN {"fault"} ELSE {})
Event(cond, event) == IF cond THEN {event} ELSE {}
SetNode(k, node) == nodes' = [nodes EXCEPT ![k] = node]
OpenAt(at) == \E k \in FatNodes : nodes[k].at = at

\* Every open makes a node of its own: "twice" is a file that has two.
FatOpen(k, p, n) ==
    /\ nodes[k] = NoNode
    /\ \E at \in {FindFileInDir(vol, p, n)} \ {NoSlot} :
         LET sfn == SlotAt(vol, at)
         IN /\ ~sfn.dir
            /\ SetNode(k, [start |-> sfn.start, size |-> sfn.size, at |-> at])
            /\ fatMet' = fatMet \cup Event(OpenAt(at), "twice")
    /\ UNCHANGED vol

FatCreateNode(k, p, n, w) ==
    /\ nodes[k] = NoNode /\ FindFileInDir(vol, p, n) = NoSlot
    /\ \E new \in {CreateDirectoryEntry(VolWith(w), p, Sfn(n, 0, 0, FALSE))} :
         /\ VolEnds(new.d, Event(~new.ok, "full") \cup Event(new.torn, "torn"))
         /\ SetNode(k, IF new.ok THEN [start |-> 0, size |-> 0, at |-> new.at] ELSE NoNode)

FatClose(k) == nodes[k] # NoNode /\ SetNode(k, NoNode) /\ UNCHANGED <<vol, fatMet>>

FatFlush(k, w) ==
    /\ nodes[k] # NoNode
    /\ VolEnds(UpdateDirectoryEntry(VolWith(w), nodes[k]), {})
    /\ UNCHANGED nodes

\* One step along the chain, with a new cluster at its end.
NextOrNew(d, c) ==
    IF GetNextCluster(d, c) # EOC THEN [d |-> d, c |-> GetNextCluster(d, c)] ELSE AllocateCluster(d, c)

\* Write n clusters from position pos on, where Seek lets it be at most the
\* size.  A cluster that cannot be had before the first write ends the call
\* without UpdateDirectoryEntry.
PutOn(acc, next) == [d |-> next.d, c |-> next.c, done |-> acc.done + 1, go |-> next.c # 0]
FatWrite(k, pos, n, w) ==
    LET node == nodes[k]
        Put(acc, i) ==
            IF ~acc.go THEN acc
            ELSE IF ~WriteOk(acc.d) THEN [acc EXCEPT !.go = FALSE]
            ELSE IF i = n THEN [acc EXCEPT !.d = WriteData(acc.d), !.done = @ + 1]
            ELSE PutOn(acc, NextOrNew(WriteData(acc.d), acc.c))
        Walk(acc, i) == IF acc.c = 0 THEN acc ELSE NextOrNew(acc.d, acc.c)
    IN /\ node # NoNode /\ pos <= node.size
       /\ \E first \in {IF node.start = 0 THEN AllocateCluster(VolWith(w), 0) ELSE [d |-> VolWith(w), c |-> node.start]} :
          \E walked \in {FoldLeft(Walk, first, [i \in 1..pos |-> i])} :
            LET begun == [node EXCEPT !.start = IF @ = 0 THEN first.c ELSE @]
                empty == [d |-> walked.d, c |-> walked.c, done |-> 0, go |-> TRUE]
            IN IF walked.c = 0 THEN VolEnds(walked.d, {"full"}) /\ SetNode(k, begun)
               ELSE \E end \in {FoldLeft(Put, empty, [i \in 1..n |-> i])} :
                      LET new == [begun EXCEPT !.size = IF pos + end.done > @ THEN pos + end.done ELSE @]
                      IN /\ VolEnds(UpdateDirectoryEntry(end.d, new), Event(end.done < n, "full"))
                         /\ SetNode(k, new)

\* Append seeks to the end.
FatAppend(k, n, w) == FatWrite(k, nodes[k].size, n, w)

\* A smaller size: the tail is freed before the chain is ended and before the
\* entry is written.
FatShrink(k, size, w) ==
    LET node == nodes[k]
        chain == Chain(vol, node.start)
        keep == chain[IF size <= Len(chain) THEN size ELSE Len(chain)]
        tail == IF size = 0 THEN node.start ELSE GetNextCluster(vol, keep)
        freed == FreeClusterChain(VolWith(w), tail)
        ended == IF size = 0 THEN freed ELSE SetNextCluster(freed, keep, EOC).d
        new == [node EXCEPT !.size = size, !.start = IF size = 0 THEN 0 ELSE @]
    IN /\ node # NoNode /\ size < node.size /\ (size > 0 => chain # <<>>)
       /\ \E d \in {UpdateDirectoryEntry(ended, new)} : VolEnds(d, Event(d.left = 0, "torn"))
       /\ SetNode(k, new)

\* A larger size: new clusters are zeroed and linked behind the last one.  The
\* start of an empty file becomes the LAST of them ("cut").
GrowBy(new, last) ==
    LET ended == WriteData(SetNextCluster(new.d, new.c, EOC).d)
    IN IF new.c = 0 THEN new
       ELSE [d |-> IF last = 0 THEN ended ELSE SetNextCluster(ended, last, new.c).d, c |-> new.c]
FatExtend(k, size, w) ==
    LET node == nodes[k]
        need == size - node.size
        Grow(acc, i) == IF acc.c = 0 /\ i > 1 THEN acc ELSE GrowBy(AllocateCluster(acc.d, acc.c), acc.c)
        from == IF node.start = 0 THEN 0 ELSE Last(Chain(vol, node.start))
    IN /\ node # NoNode /\ size > node.size
       /\ \E end \in {FoldLeft(Grow, [d |-> VolWith(w), c |-> from], [i \in 1..need |-> i])} :
            LET new == [node EXCEPT !.size = size, !.start = IF @ = 0 THEN end.c ELSE @]
            IN IF end.c = 0 THEN VolEnds(end.d, {"full"}) /\ UNCHANGED nodes
               ELSE /\ VolEnds(UpdateDirectoryEntry(end.d, new), Event(node.start = 0 /\ need > 1, "cut"))
                    /\ SetNode(k, new)

\* The chain is freed before the name goes, and a File that is open is not asked.
FatDelete(p, n, w) ==
    /\ \E at \in {FindFileInDir(vol, p, n)} \ {NoSlot} :
         /\ ~SlotAt(vol, at).dir
         /\ \E d \in {RemoveDirectoryEntryAndLFNs(FreeClusterChain(VolWith(w), SlotAt(vol, at).start), at)} :
              VolEnds(d, Event(d.left = 0, "torn") \cup Event(OpenAt(at), "twice"))
    /\ UNCHANGED nodes

\* The new name is there before the old one goes.
FatRename(p, n, q, m, w) ==
    /\ FindFileInDir(vol, q, m) = NoSlot
    /\ \E at \in {FindFileInDir(vol, p, n)} \ {NoSlot} :
         LET old == SlotAt(vol, at)
         IN /\ ~old.dir
            /\ \E new \in {CreateDirectoryEntry(VolWith(w), q, Sfn(m, old.start, old.size, FALSE))} :
                 IF ~new.ok THEN VolEnds(new.d, Event(new.torn, "torn") \cup {"full"})
                 ELSE \E d \in {RemoveDirectoryEntryAndLFNs(new.d, at)} :
                        VolEnds(d, Event(d.left = 0, "torn") \cup Event(OpenAt(at), "twice"))
    /\ UNCHANGED nodes

\* The entry is made as one of a file and then marked as a directory.
FillDots(d, c, p) ==
    WriteSlots(d, c, [i \in 1..FatSlots |-> IF i = 1 THEN Sfn(".", c, 0, TRUE)
                                            ELSE IF i = 2 THEN Sfn("..", p, 0, TRUE) ELSE Blank("end")])
MarkDir(d, at) == WriteSlots(d, at[1], [d.slot[at[1]] EXCEPT ![at[2]].dir = TRUE])
FatMKDir(p, n, w) ==
    /\ FindFileInDir(vol, p, n) = NoSlot
    /\ \E got \in {AllocateCluster(VolWith(w), 0)} :
         IF got.c = 0 THEN VolEnds(got.d, {"full"})
         ELSE \E marked \in {SetNextCluster(got.d, got.c, EOC).d} :
              \E new \in {CreateDirectoryEntry(FillDots(marked, got.c, p), p, Sfn(n, got.c, 0, FALSE))} :
                IF ~WriteOk(marked) THEN VolEnds(marked, {"full"})
                ELSE IF ~new.ok THEN VolEnds(FreeClusterChain(new.d, got.c), Event(new.torn, "torn") \cup {"full"})
                ELSE VolEnds(MarkDir(new.d, new.at), {})
    /\ UNCHANGED nodes

FatRMDir(p, n, w) ==
    /\ \E at \in {FindFileInDir(vol, p, n)} \ {NoSlot} :
         LET target == SlotAt(vol, at).start
         IN /\ SlotAt(vol, at).dir
            /\ \A e \in ToSet(ReadDirectory(vol, target)) : SlotAt(vol, e).name \in {".", ".."}
            /\ \E d \in {RemoveDirectoryEntryAndLFNs(FreeClusterChain(VolWith(w), target), at)} :
                 VolEnds(d, Event(d.left = 0, "torn"))
    /\ UNCHANGED nodes

\* Mount after Unmount or a crash: every change is on the disk already.
FatMount ==
    /\ vol' = [vol EXCEPT !.hint = IF vol.info \in 2..(TotalClusters - 1) THEN vol.info ELSE 2]
    /\ nodes' = [k \in FatNodes |-> NoNode]
    /\ UNCHANGED fatMet

Fat32Next(ws) ==
    \/ \E w \in IF "fault" \in fatMet THEN {NoFault} ELSE ws :
        \/ \E p \in LookupDirs(vol), n \in FatNames :
              \/ FatDelete(p, n, w) \/ FatMKDir(p, n, w) \/ FatRMDir(p, n, w)
              \/ \E k \in FatNodes : FatCreateNode(k, p, n, w)
              \/ \E q \in LookupDirs(vol), m \in FatNames : FatRename(p, n, q, m, w)
        \/ \E k \in FatNodes : FatFlush(k, w)
        \/ \E k \in FatNodes, n \in FatSizes \ {0} :
              FatAppend(k, n, w) \/ \E pos \in 0..TotalClusters : FatWrite(k, pos, n, w)
        \/ \E k \in FatNodes, size \in FatSizes : FatShrink(k, size, w) \/ FatExtend(k, size, w)
    \/ \E k \in FatNodes : FatClose(k) \/ \E p \in LookupDirs(vol), n \in FatNames : FatOpen(k, p, n)
    \/ FatMount

-----------------------------------------------------------------------------
\* The entries that paths lead to, and the chains they and the root begin.
Named(d) == UNION {{at \in ToSet(ReadDirectory(d, p)) : SlotAt(d, at).name \in FatNames} : p \in LookupDirs(d)}
NamedChains(d) == {Chain(d, c) : c \in ({FatRoot} \cup {SlotAt(d, at).start : at \in Named(d)}) \ {0}}

\* Two names never share a cluster and no name leads to a free one, whatever
\* write fails or the machine stops at, and however full the volume is.  Not after
\* a call was cut off in the middle ("torn"): Delete, RMDir, Rename and a shrinking
\* Truncate, which free first and forget later, and a create, mkdir or rename that
\* linked a new cluster to its directory and could not zero it.  And not once a
\* file was open twice, or was removed or renamed while open ("twice"): a node
\* then writes back a start whose clusters another call has freed.
ChainsAreDisjoint ==
    fatMet \cap {"torn", "twice"} = {} =>
        LET named == Named(vol)
            chains == NamedChains(vol)
        IN /\ \A s \in chains : IsInjective(s) /\ GetNextCluster(vol, Last(s)) = EOC
           /\ \A s, t \in chains : s # t => ToSet(s) \cap ToSet(t) = {}
           /\ \A a, b \in named : a # b /\ SlotAt(vol, a).start # 0 => SlotAt(vol, a).start # SlotAt(vol, b).start

\* With one File per file, no failing write, no full volume and no empty file that
\* Truncate grew by more than a cluster ("cut": its start is the last of them), the
\* table holds exactly the chains that names begin, a file has clusters for its
\* size, and an open node agrees with the entry it will be written to.  Names take
\* NameSlots slots, of which a whole number fills a sector: with others an entry
\* can be created where no lookup comes to (CreatedIsFound).
RegularUseKeepsClusters ==
    fatMet = {} =>
        /\ {c \in 2..(TotalClusters + 1) : GetNextCluster(vol, c) # FreeCl} = UNION {ToSet(s) : s \in NamedChains(vol)}
        /\ \A at \in Named(vol) : SlotAt(vol, at).size <= Len(Chain(vol, SlotAt(vol, at).start))
        /\ \A k \in FatNodes : nodes[k] # NoNode =>
              /\ nodes[k].at \in Named(vol)
              /\ SlotAt(vol, nodes[k].at).start = nodes[k].start
              /\ SlotAt(vol, nodes[k].at).size = nodes[k].size

\* An entry that was created can be looked up again.
CreatedIsFound ==
    fatMet = {} =>
        \A p \in LookupDirs(vol) : \A at \in ToSet(Places(vol, p)) :
            SlotAt(vol, at).k = "sfn" => at \in ToSet(ReadDirectory(vol, p))
=============================================================================
