----------------------------- MODULE WaitQueue ------------------------------
(***************************************************************************)
(* The singly linked lists of waiting tasks: WaitQueue with SleepOn and    *)
(* WakeUp (task.hpp, scheduler.cpp), and the queue inside a Mutex.  A list *)
(* is a head and a tail pointer; the link is Task::NextWaitTask, ONE field *)
(* per task, whatever list the task is in.                                 *)
(***************************************************************************)
EXTENDS Dispatch, Naturals, FiniteSets

CONSTANTS Lists,      \* the wait queues
          NoTask      \* nullptr

ASSUME NoTaskAssumption == NoTask \notin Tasks

VARIABLE wl           \* [head, tail: list -> task; next: task -> task]

EmptyLists ==
    [head |-> [l \in Lists |-> NoTask], tail |-> [l \in Lists |-> NoTask],
     next |-> [t \in Tasks |-> NoTask]]

IsEmpty(l) == wl.head[l] = NoTask

\* Link t in as the tail, without asking whether it is in a list already: a
\* task that is the tail becomes its own successor.
Linked(l, t) ==
    LET cut == [wl EXCEPT !.next[t] = NoTask] IN
    IF IsEmpty(l)
    THEN [cut EXCEPT !.head[l] = t, !.tail[l] = t]
    ELSE [cut EXCEPT !.next[cut.tail[l]] = t, !.tail[l] = t]

\* The list without its first task, whose own link is left as it is.
HeadUnlinked(l) ==
    LET rest == wl.next[wl.head[l]] IN
    [wl EXCEPT !.head[l] = rest, !.tail[l] = IF rest = NoTask THEN NoTask ELSE @]

\* SleepOn returns as soon as it has armed the timer: the caller runs on,
\* BLOCKED, until the timer interrupt.
SleepOn(t, l) ==
    /\ Block(t)
    /\ wl' = Linked(l, t)


\* WakeUp wakes the first task only, whatever it is doing.
WakeUp(l) ==
    IF IsEmpty(l) THEN UNCHANGED <<dispatchVars, wl>>
    ELSE /\ Wake(wl.head[l])
         /\ wl' = [HeadUnlinked(l) EXCEPT !.next[wl.head[l]] = NoTask]

\* The tasks that the links of list l lead to.
Waiting(l) ==
    LET walk[n \in Nat] ==
          IF n = 0 THEN {wl.head[l]} \ {NoTask}
          ELSE LET found == walk[n - 1] IN found \cup ({wl.next[t] : t \in found} \ {NoTask})
    IN  walk[Cardinality(Tasks)]

\* A task of S that has blocked and lost the processor is where a wakeup
\* reaches it.
BlockedIsFound(S) ==
    ~corrupt => \A t \in S :
       state[t] = "BLOCKED" /\ t # current => t \in runq \/ \E l \in Lists : t \in Waiting(l)
=============================================================================
