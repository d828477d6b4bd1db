------------------------------ MODULE PageRuns ------------------------------
(***************************************************************************)
(* The two page allocators of the kernel as functions of their state: the   *)
(* bitmap of physical frames (a set of frames in use) and the sorted list   *)
(* of free virtual ranges with the pool its list nodes come from.           *)
(***************************************************************************)
EXTENDS Integers, Sequences, FiniteSets, FiniteSetsExt

Run(s, c) == s..(s + c - 1)

\* Mutant: the run counter is not reset at a frame in use.
FirstRunBroken(S, c) ==
    LET starts == {s \in S : (s + c - 1) \in S} IN IF starts = {} THEN 0 ELSE Min(starts)

\* The first c free frames in a row among the free frames S; 0 when there are
\* none, which is also the address of frame 0.
FirstRun(S, c) ==
    LET starts == {s \in S : Run(s, c) \subseteq S} IN IF starts = {} THEN 0 ELSE Min(starts)

-----------------------------------------------------------------------------
\* Free virtual ranges: a sequence of [start, count] in ascending order.
PageRange(s, c) == [start |-> s, count |-> c]
Pages(r) == Run(r.start, r.count)

Fitting(l, c) == {i \in 1..Len(l) : l[i].count >= c}

\* Mutant: the page count of the rest is not reduced.
TakeFromFullCount(l, i, c) ==
    IF l[i].count = c
    THEN SubSeq(l, 1, i - 1) \o SubSeq(l, i + 1, Len(l))
    ELSE [l EXCEPT ![i] = PageRange(l[i].start + c, l[i].count)]

\* The list after the first fitting range gave away its first c pages.
TakeFrom(l, i, c) ==
    IF l[i].count = c
    THEN SubSeq(l, 1, i - 1) \o SubSeq(l, i + 1, Len(l))
    ELSE [l EXCEPT ![i] = PageRange(l[i].start + c, l[i].count - c)]

\* How many ranges VirtualFreePages walks past.
Before(l, s) == Max({p \in 0..Len(l) : \A i \in 1..p : l[i].start < s})

TouchesLeft(l, p, s) == p > 0 /\ l[p].start + l[p].count = s
TouchesRight(l, p, s, c) == p < Len(l) /\ s + c = l[p + 1].start

\* The range of s..s+c-1 grown by the neighbours it touches, in their place.
Merged(l, p, s, c, left, right) ==
    SubSeq(l, 1, IF left THEN p - 1 ELSE p)
    \o << PageRange(IF left THEN l[p].start ELSE s,
                c + (IF left THEN l[p].count ELSE 0)
                  + (IF right THEN l[p + 1].count ELSE 0)) >>
    \o SubSeq(l, IF right THEN p + 2 ELSE p + 1, Len(l))

\* VirtualFreePages: merge left, else take a node, then merge right; without
\* a node the range is dropped.
Returned(l, n, s, c) ==
    LET p == Before(l, s)
        left == TouchesLeft(l, p, s)
        right == TouchesRight(l, p, s, c)
    IN IF ~left /\ n = 0
       THEN [list |-> l, nodes |-> n, kept |-> FALSE]
       ELSE [list |-> Merged(l, p, s, c, left, right),
             nodes |-> n - (IF left THEN 0 ELSE 1) + (IF right THEN 1 ELSE 0),
             kept |-> TRUE]
=============================================================================
