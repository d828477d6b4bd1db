------------------------------ MODULE Dispatch ------------------------------
(***************************************************************************)
(* What the scheduler is to code that blocks: who runs, and who is queued  *)
(* to run.  Which queued task a timer interrupt picks is left open here;   *)
(* Scheduler fixes it by vruntime and implements this specification.       *)
(* Mutex, ThreadedIrq and Pipe are written on top of it.                   *)
(*                                                                         *)
(* CFSEnqueue links a task into the red-black tree without asking whether  *)
(* it is there already.  Doing so to a queued task cuts off its subtrees;  *)
(* such a step sets corrupt, and nothing is said of what follows.          *)
(***************************************************************************)
CONSTANTS Tasks, Idle

ASSUME IdleAssumption == Idle \notin Tasks

VARIABLES state,      \* Task::State, "NONE" before creation
          current,    \* CurrentTaskIndex
          runq,       \* the tasks in the run queue
          corrupt     \* a queued task was enqueued again

dispatchVars == <<state, current, runq, corrupt>>

\* Scheduler's start: one task runs and no other exists yet.
DispatchInit ==
    /\ current \in Tasks
    /\ state = [t \in Tasks |-> IF t = current THEN "RUNNING" ELSE "NONE"]
    /\ runq = {}
    /\ corrupt = FALSE

\* The start of the clients: the tasks in S have been created.
Created(S) ==
    /\ current \in S
    /\ state = [t \in Tasks |-> IF t = current THEN "RUNNING"
                              ELSE IF t \in S THEN "READY" ELSE "NONE"]
    /\ runq = S \ {current}
    /\ corrupt = FALSE

CFSEnqueue(t) ==
    /\ runq' = runq \cup {t}
    /\ corrupt' = (t \in runq)

Create(t) ==
    /\ ~corrupt /\ state[t] = "NONE"
    /\ state' = [state EXCEPT ![t] = "NEW"]
    /\ UNCHANGED <<current, runq, corrupt>>

Admit(t) ==
    /\ ~corrupt /\ state[t] = "NEW"
    /\ state' = [state EXCEPT ![t] = "READY"]
    /\ CFSEnqueue(t)
    /\ UNCHANGED current

Running(t) == ~corrupt /\ current = t

\* The running task marks itself; it keeps the processor until the next tick.
Block(t) ==
    /\ Running(t)
    /\ state' = [state EXCEPT ![t] = "BLOCKED"]
    /\ UNCHANGED <<current, runq, corrupt>>

\* Sys_Exit makes a BLOCKED parent p READY and does not queue it; p = t when
\* there is no parent to wake.
Finish(t, p) ==
    /\ Running(t)
    /\ state' = [u \in Tasks |-> IF u = t THEN "ZOMBIE"
                                 ELSE IF u = p /\ state[u] = "BLOCKED" THEN "READY"
                                 ELSE state[u]]
    /\ UNCHANGED <<current, runq, corrupt>>

\* A wakeup through CheckSleepingTasks or WakeUp sets the state; one through
\* UnblockTaskWithIOBoost alone does not.
Wake(t) ==
    /\ ~corrupt
    /\ state' = [state EXCEPT ![t] = "READY"]
    /\ CFSEnqueue(t)
    /\ UNCHANGED current

UnblockTaskWithIOBoost(t) ==
    /\ ~corrupt
    /\ CFSEnqueue(t)
    /\ UNCHANGED <<state, current>>

\* Schedule: requeue the task that was running, then run a queued task.
GivesUp == current \in Tasks /\ state[current] = "RUNNING"
Candidates == IF GivesUp THEN runq \cup {current} ELSE runq
Outgoing == IF GivesUp THEN [state EXCEPT ![current] = "READY"] ELSE state

SwitchTo(t) ==
    /\ ~corrupt
    /\ t \in Candidates
    /\ current' = t
    /\ state' = [Outgoing EXCEPT ![t] = "RUNNING"]
    /\ runq' = Candidates \ {t}
    /\ corrupt' = (GivesUp /\ current \in runq)

SwitchToIdle ==
    /\ ~corrupt
    /\ Candidates = {}
    /\ current' = Idle
    /\ UNCHANGED <<state, runq, corrupt>>

Switch == SwitchToIdle \/ \E t \in Tasks : SwitchTo(t)

DispatchNext ==
    \/ \E t \in Tasks :
          \/ Create(t)
          \/ Admit(t)
          \/ Block(t)
          \/ \E p \in Tasks : Finish(t, p)
          \/ Wake(t)
          \/ UnblockTaskWithIOBoost(t)
    \/ Switch

DispatchSpec == DispatchInit /\ [][DispatchNext]_dispatchVars
=============================================================================
