------------------------------ MODULE RunQueue ------------------------------
(***************************************************************************)
(* What the CFS run queue promises the scheduler, without its red-black    *)
(* tree: a sequence of runnable tasks into which a newcomer is inserted    *)
(* behind every task it does not beat, and whose head is the task to run   *)
(* next.  The vruntime of a queued task may be changed in place (the       *)
(* kernel does so); the sequence then stays as it is.  RedBlackTree        *)
(* implements this specification, and Scheduler uses its operators.        *)
(***************************************************************************)
EXTENDS QueueOps, SequencesExt

CONSTANTS Tasks,      \* the schedulable tasks (PID_IDLE is never queued)
          VRuntimes   \* the vruntimes a task may be queued with

VARIABLES queue,      \* the queued tasks, next to run first
          vruntime    \* Task::vruntime of the queued tasks, 0 for the others

rqVars == <<queue, vruntime>>

RunQueueInit ==
    /\ queue = <<>>
    /\ vruntime = [t \in Tasks |-> 0]

Enqueue(t, v) ==
    /\ t \notin Elements(queue)
    /\ \E p \in Gaps(queue, vruntime, v) : queue' = Insert(queue, p, t)
    /\ vruntime' = [vruntime EXCEPT ![t] = v]

Dequeue(t) ==
    /\ t \in Elements(queue)
    /\ queue' = Remove(queue, t)
    /\ vruntime' = [vruntime EXCEPT ![t] = 0]

PickNext ==
    /\ queue # <<>>
    /\ Dequeue(Head(queue))

Reprice(t, v) ==
    /\ t \in Elements(queue)
    /\ vruntime' = [vruntime EXCEPT ![t] = v]
    /\ UNCHANGED queue

RunQueueNext ==
    \/ \E t \in Tasks, v \in VRuntimes : Enqueue(t, v)
    \/ \E t \in Tasks : Dequeue(t)
    \/ PickNext
    \/ \E t \in Tasks, v \in VRuntimes : Reprice(t, v)

RunQueueSpec == RunQueueInit /\ [][RunQueueNext]_rqVars
=============================================================================
