---------------------------- MODULE RedBlackTree ----------------------------
(***************************************************************************)
(* The red-black tree of runnable tasks: kernel/task/rbt.cpp, and the      *)
(* three run-queue operations of kernel/task/scheduler.cpp built on it     *)
(* (CFSEnqueue, CFSDequeue, CFSPickNext) with the cached CFSLeftmost.      *)
(*                                                                         *)
(* The tree is one record h of pointers: CFSRoot, CFSLeftmost and, for     *)
(* every task, its two children, its parent and its colour.  The mirrored  *)
(* branches of the code are one definition with the side s, "L" or "R".    *)
(* Reading a child, parent or colour of Nil is an evaluation error, so a   *)
(* run that passes also shows that no branch dereferences a null pointer.  *)
(***************************************************************************)
EXTENDS Naturals, Sequences, FiniteSets

CONSTANTS Tasks, VRuntimes, Nil

ASSUME NilAssumption == Nil \notin Tasks
ASSUME VRuntimesAssumption == VRuntimes \subseteq Nat

VARIABLES h,          \* [root, leftmost, kid, parent, color]
          vruntime    \* Task::vruntime of the tasks in the tree, 0 for others

vars == <<h, vruntime>>

Sides == {"L", "R"}
Opp(s) == IF s = "L" THEN "R" ELSE "L"
Ptr == Tasks \cup {Nil}

Init ==
    /\ h = [root     |-> Nil,
            leftmost |-> Nil,
            kid      |-> [s \in Sides |-> [t \in Tasks |-> Nil]],
            parent   |-> [t \in Tasks |-> Nil],
            color    |-> [t \in Tasks |-> "RED"]]
    /\ vruntime = [t \in Tasks |-> 0]

IsBlack(g, x) == x = Nil \/ g.color[x] = "BLACK"
SideOf(g, x) == IF x = g.kid["L"][g.parent[x]] THEN "L" ELSE "R"

\* Put y where x hangs; the caller sets y's parent.
ReplaceChild(g, x, y) ==
    IF g.parent[x] = Nil
    THEN [g EXCEPT !.root = y]
    ELSE [g EXCEPT !.kid[SideOf(g, x)][g.parent[x]] = y]

SetParent(g, x, p) == IF x = Nil THEN g ELSE [g EXCEPT !.parent[x] = p]

\* RBT_LeftRotate is Rotate(g, x, "L"), RBT_RightRotate is Rotate(g, x, "R").
Over(g, x, y, s) == [g EXCEPT !.kid[s][y] = x, !.parent[x] = y]
RotateUp(g, x, y, inner, s) ==
    Over(ReplaceChild(SetParent([g EXCEPT !.kid[Opp(s)][x] = inner, !.parent[y] = g.parent[x]],
                                inner, x), x, y), x, y, s)
Rotate(g, x, s) ==
    RotateUp(g, x, g.kid[Opp(s)][x], g.kid[s][g.kid[Opp(s)][x]], s)

\* One pass of the while loop for z, its red parent p on side s of gp: a red
\* uncle is recoloured and the loop goes on from gp; otherwise an inner z is
\* first rotated out, and gp sinks below its child.
RECURSIVE InsertFixupLoop(_, _)
Sink(g, p, gp, s) == Rotate([g EXCEPT !.color[p] = "BLACK", !.color[gp] = "RED"], gp, Opp(s))
InsertFixupAt(g, z, p, gp, s, uncle) ==
    IF ~IsBlack(g, uncle)
    THEN InsertFixupLoop([g EXCEPT !.color[p] = "BLACK", !.color[uncle] = "BLACK",
                                   !.color[gp] = "RED"], gp)
    ELSE IF z = g.kid[Opp(s)][p]
         THEN InsertFixupLoop(Sink(Rotate(g, p, s), z, gp, s), p)
         ELSE InsertFixupLoop(Sink(g, p, gp, s), z)
InsertFixupUnder(g, z, p, gp, s) == InsertFixupAt(g, z, p, gp, s, g.kid[Opp(s)][gp])
InsertFixupLoop(g, z) ==
    IF g.parent[z] = Nil \/ IsBlack(g, g.parent[z]) THEN g
    ELSE InsertFixupUnder(g, z, g.parent[z], g.parent[g.parent[z]], SideOf(g, g.parent[z]))

\* Mutant: the root is not blackened at the end.
RBT_InsertFixupRedRoot(g, z) == InsertFixupLoop(g, z)

BlackRoot(g) == [g EXCEPT !.color[g.root] = "BLACK"]
RBT_InsertFixup(g, z) == BlackRoot(InsertFixupLoop(g, z))

RBT_Transplant(g, u, v) == SetParent(ReplaceChild(g, u, v), v, g.parent[u])

\* One pass of the while loop for the side s of xp that lacks a black task:
\* the sibling w is made black, then gives a black task to that side, or is
\* recoloured and the deficit moves up to xp.
RECURSIVE EraseFixupLoop(_, _, _)
BlackSibling(g, xp, s, w) ==
    IF g.color[w] = "RED"
    THEN Rotate([g EXCEPT !.color[w] = "BLACK", !.color[xp] = "RED"], xp, s) ELSE g
FarNephewRed(g, s, w) ==
    IF ~IsBlack(g, g.kid[Opp(s)][w]) THEN g
    ELSE Rotate([g EXCEPT !.color[g.kid[s][w]] = "BLACK", !.color[w] = "RED"], w, Opp(s))
Lend(g, xp, s, w) ==
    Rotate([g EXCEPT !.color[w] = g.color[xp], !.color[xp] = "BLACK",
                     !.color[g.kid[Opp(s)][w]] = "BLACK"], xp, s)
LendFrom(g, xp, s) == Lend(g, xp, s, g.kid[Opp(s)][xp])
Done(g) == [tree |-> g, x |-> g.root]
EraseFixupAt(g, xp, s, w) ==
    IF \A k \in Sides : IsBlack(g, g.kid[k][w])
    THEN EraseFixupLoop([g EXCEPT !.color[w] = "RED"], xp, g.parent[xp])
    ELSE Done(LendFrom(FarNephewRed(g, s, w), xp, s))
EraseFixupUnder(g, xp, s) == EraseFixupAt(g, xp, s, g.kid[Opp(s)][xp])
EraseFixupSide(g, xp, s) == EraseFixupUnder(BlackSibling(g, xp, s, g.kid[Opp(s)][xp]), xp, s)
EraseFixupLoop(g, x, xp) ==
    IF x = g.root \/ ~IsBlack(g, x) THEN [tree |-> g, x |-> x]
    ELSE EraseFixupSide(g, xp, IF x = g.kid["L"][xp] THEN "L" ELSE "R")

Blackened(r) == IF r.x = Nil THEN r.tree ELSE [r.tree EXCEPT !.color[r.x] = "BLACK"]
RBT_EraseFixup(g, x, xp) == Blackened(EraseFixupLoop(g, x, xp))

RECURSIVE Leftmost(_, _)
Leftmost(g, x) == IF g.kid["L"][x] = Nil THEN x ELSE Leftmost(g, g.kid["L"][x])

\* Both children present: the successor y takes z's place and colour.
TakeRight(g, z, y) ==
    SetParent([RBT_Transplant(g, y, g.kid["R"][y]) EXCEPT !.kid["R"][y] = g.kid["R"][z]],
              g.kid["R"][z], y)
TakeLeft(g, z, y) ==
    SetParent([g EXCEPT !.kid["L"][y] = g.kid["L"][z], !.color[y] = g.color[z]],
              g.kid["L"][z], y)
TakePlace(g, z, y) ==
    TakeLeft(RBT_Transplant(IF g.parent[y] = z THEN g ELSE TakeRight(g, z, y), z, y), z, y)
EraseWith(g, z, y) ==
    IF g.color[y] = "RED" THEN TakePlace(g, z, y)
    ELSE RBT_EraseFixup(TakePlace(g, z, y), g.kid["R"][y],
                        IF g.parent[y] = z THEN y ELSE g.parent[y])
EraseInner(g, z) == EraseWith(g, z, Leftmost(g, g.kid["R"][z]))

\* At most one child: it takes z's place.
EraseOuterFor(g, z, x) ==
    IF g.color[z] = "BLACK" THEN RBT_EraseFixup(RBT_Transplant(g, z, x), x, g.parent[z])
    ELSE RBT_Transplant(g, z, x)
EraseOuter(g, z) ==
    EraseOuterFor(g, z, IF g.kid["L"][z] = Nil THEN g.kid["R"][z] ELSE g.kid["L"][z])

Unlinked(g, z) == [g EXCEPT !.kid["L"][z] = Nil, !.kid["R"][z] = Nil, !.parent[z] = Nil]
RBT_Erase(g, z) ==
    Unlinked(IF g.kid["L"][z] # Nil /\ g.kid["R"][z] # Nil
             THEN EraseInner(g, z) ELSE EraseOuter(g, z), z)

-----------------------------------------------------------------------------
\* Mutant: a task goes in front of its equals.
RECURSIVE DescendEqualLeft(_, _, _, _)
DescendEqualLeft(g, v, x, left) ==
    LET s == IF v <= vruntime[x] THEN "L" ELSE "R"
        allLeft == left /\ s = "L"
    IN  IF g.kid[s][x] = Nil THEN [at |-> x, side |-> s, leftmost |-> allLeft]
        ELSE DescendEqualLeft(g, v, g.kid[s][x], allLeft)

\* The descent of CFSEnqueue: the null link where a task with vruntime v goes,
\* and whether every turn went left.
RECURSIVE Descend(_, _, _, _)
Descend(g, v, x, left) ==
    LET s == IF v < vruntime[x] THEN "L" ELSE "R"
        allLeft == left /\ s = "L"
    IN  IF g.kid[s][x] = Nil THEN [at |-> x, side |-> s, leftmost |-> allLeft]
        ELSE Descend(g, v, g.kid[s][x], allLeft)

InTree(t) == t = h.root \/ h.parent[t] # Nil

CFSEnqueue(t, v) ==
    /\ ~InTree(t)
    /\ vruntime' = [vruntime EXCEPT ![t] = v]
    /\ LET fresh == [h EXCEPT !.kid["L"][t] = Nil, !.kid["R"][t] = Nil,
                              !.color[t] = "RED"]
           link  == Descend(fresh, v, h.root, TRUE)
           g     == IF h.root = Nil
                    THEN [fresh EXCEPT !.root = t, !.parent[t] = Nil,
                                       !.leftmost = t]
                    ELSE [fresh EXCEPT !.parent[t] = link.at,
                                       !.kid[link.side][link.at] = t,
                                       !.leftmost = IF link.leftmost THEN t ELSE @]
       IN  h' = RBT_InsertFixup(g, t)

\* CFSDequeue moves CFSLeftmost to the successor before it erases.
Erased(t) ==
    LET next == IF h.kid["R"][t] # Nil THEN Leftmost(h, h.kid["R"][t])
                ELSE h.parent[t]
    IN  RBT_Erase(IF t = h.leftmost THEN [h EXCEPT !.leftmost = next] ELSE h, t)

CFSDequeue(t) ==
    /\ InTree(t)
    /\ h' = Erased(t)
    /\ vruntime' = [vruntime EXCEPT ![t] = 0]

CFSPickNext ==
    /\ h.leftmost # Nil
    /\ CFSDequeue(h.leftmost)

\* The kernel changes the key of a queued task in place: SchedulerTick charges
\* a current task that CheckSleepingTasks has just queued, SetTaskSignal and
\* RequestThreadedIrq overwrite it.  The tree is not rebuilt.
Reprice(t, v) ==
    /\ InTree(t)
    /\ vruntime' = [vruntime EXCEPT ![t] = v]
    /\ UNCHANGED h

Next ==
    \/ \E t \in Tasks, v \in VRuntimes : CFSEnqueue(t, v)
    \/ \E t \in Tasks : CFSDequeue(t)
    \/ CFSPickNext
    \/ \E t \in Tasks, v \in VRuntimes : Reprice(t, v)

Spec == Init /\ [][Next]_vars

-----------------------------------------------------------------------------
RECURSIVE InOrder(_)
InOrder(x) == IF x = Nil THEN <<>>
              ELSE InOrder(h.kid["L"][x]) \o <<x>> \o InOrder(h.kid["R"][x])

\* Number of black nodes on every path from x down, -1 when two paths differ.
RECURSIVE BlackHeight(_)
BlackHeight(x) ==
    IF x = Nil THEN 1 ELSE
    LET l == BlackHeight(h.kid["L"][x])
        r == BlackHeight(h.kid["R"][x])
    IN  IF l = r /\ l >= 0 THEN l + (IF h.color[x] = "BLACK" THEN 1 ELSE 0)
        ELSE 0 - 1

\* Every field of the tree holds a task, Nil, or a colour.
TypeOK ==
    /\ h \in [root : Ptr, leftmost : Ptr, kid : [Sides -> [Tasks -> Ptr]],
              parent : [Tasks -> Ptr], color : [Tasks -> {"RED", "BLACK"}]]
    /\ vruntime \in [Tasks -> VRuntimes \cup {0}]

\* After every insertion and erasure (RBT_InsertFixup, RBT_EraseFixup) the
\* root is black, no red task has a red child, and all paths hold the same
\* number of black tasks: the depth stays logarithmic.
RedBlackBalanced ==
    /\ h.root # Nil => h.color[h.root] = "BLACK"
    /\ \A t \in Tasks, s \in Sides :
          (InTree(t) /\ h.color[t] = "RED") => IsBlack(h, h.kid[s][t])
    /\ BlackHeight(h.root) > 0

\* Child and parent pointers agree in both directions, and a task outside the
\* tree has none left over that a later signal or enqueue could follow.
LinksConsistent ==
    /\ TypeOK
    /\ \A t \in Tasks, s \in Sides :
          h.kid[s][t] # Nil => h.parent[h.kid[s][t]] = t
    /\ \A t \in Tasks :
          h.parent[t] # Nil => \E s \in Sides : h.kid[s][h.parent[t]] = t
    /\ h.root # Nil => h.parent[h.root] = Nil

\* The cached CFSLeftmost is the task SchedulerTick compares against and
\* CFSPickNext takes: the first in order, null exactly when the tree is empty.
LeftmostIsFirst ==
    IF h.root = Nil THEN h.leftmost = Nil
    ELSE h.leftmost = Head(InOrder(h.root))

\* What RBT_Insert, RBT_Erase and the calls around them keep at all times: balance,
\* links and the cached first task.
TreeIsSound == RedBlackBalanced /\ LinksConsistent /\ LeftmostIsFirst

Queue == INSTANCE RunQueue WITH queue <- InOrder(h.root)

\* The pointer tree implements the run queue: an enqueue lands between a task
\* it does not beat and one it beats (behind all equals when the keys are in
\* order), nothing else moves, and a pick takes the first task.
ImplementsRunQueue == Queue!RunQueueSpec
=============================================================================
