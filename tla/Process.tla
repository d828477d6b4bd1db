------------------------------ MODULE Process -------------------------------
(***************************************************************************)
(* The life of a process: Sys_Fork, Sys_Exit, Sys_Wait (process.cpp),      *)
(* SchedulerAddTask's assignment of pids and DestroyTask.  A task is one   *)
(* Task structure; it gets the first free slot of TaskArray as its pid,    *)
(* and the slot is free again when the structure is deleted, so a pid may  *)
(* come to mean another process.  Parents are known by their pid.          *)
(*                                                                         *)
(* Every call runs with interrupts off up to its SchedulerYield.  A task   *)
(* that has exited is not modelled past that yield: UNREACHABLE.           *)
(* ActiveTask, which Schedule overwrites and nothing reads, is left out.   *)
(***************************************************************************)
EXTENDS Dispatch, Naturals, FiniteSets, FiniteSetsExt

CONSTANTS MaxTask,    \* MAX_TASK: the slots are 1..MaxTask - 1 (0 is idle)
          UserStart,  \* PID_USER_START: below it DestroyTask does nothing
          NoTask      \* nullptr

ASSUME ProcessAssumption ==
    MaxTask \in Nat \ {0, 1} /\ UserStart \in Nat \ {0} /\ NoTask \notin Tasks

VARIABLES taskArray,  \* TaskArray
          pid, ppid,  \* Task::pid, Task::ppid; NoPid when it has none
          waiting,    \* the tasks inside Sys_Wait
          freed       \* the deleted Task structures

procVars == <<taskArray, pid, ppid, waiting, freed>>
vars == <<dispatchVars, procVars>>

Slots == 1..(MaxTask - 1)
NoPid == MaxTask

\* PID_INIT runs, and nothing else exists.
ProcessInit ==
    /\ DispatchInit
    /\ taskArray = [i \in Slots |-> IF i = 1 THEN current ELSE NoTask]
    /\ pid = [t \in Tasks |-> IF t = current THEN 1 ELSE NoPid]
    /\ ppid = [t \in Tasks |-> NoPid]
    /\ waiting = {}
    /\ freed = {}

Calling(t) == Running(t) /\ state[t] # "ZOMBIE" /\ t \notin waiting

FreeSlots == {i \in Slots : taskArray[i] = NoTask}

FirstFree == Min(FreeSlots)

\* Sys_Fork: the child is READY; SchedulerAddTask finds it a pid and queues it.
Sys_Fork(t, child) ==
    /\ Calling(t)
    /\ state[child] = "NONE"
    /\ FreeSlots # {}
    /\ state' = [state EXCEPT ![child] = "READY"]
    /\ CFSEnqueue(child)
    /\ taskArray' = [taskArray EXCEPT ![FirstFree] = child]
    /\ pid' = [pid EXCEPT ![child] = FirstFree]
    /\ ppid' = [ppid EXCEPT ![child] = pid[t]]
    /\ UNCHANGED <<current, waiting, freed>>

\* The process table is full: the child is never added, and never deleted.
Sys_ForkFull(t, child) ==
    /\ Calling(t)
    /\ state[child] = "NONE"
    /\ FreeSlots = {}
    /\ state' = [state EXCEPT ![child] = "READY"]
    /\ ppid' = [ppid EXCEPT ![child] = pid[t]]
    /\ UNCHANGED <<current, runq, corrupt, taskArray, pid, waiting, freed>>

InTable(t) == \E i \in Slots : taskArray[i] = t
Children(t) == {c \in Tasks : InTable(c) /\ ppid[c] = pid[t]}

\* Mutant: the exiting task does not look for its parent.
AfterExitAlone(t) == [state EXCEPT ![t] = "ZOMBIE"]

\* A parent that is BLOCKED becomes READY, but is not entered into the queue.
AfterExit(t) ==
    [p \in Tasks |-> IF p = t THEN "ZOMBIE"
                     ELSE IF InTable(p) /\ pid[p] = ppid[t] /\ state[p] = "BLOCKED"
                     THEN "READY" ELSE state[p]]

\* Sys_Exit; PID_INIT only gets a message.
Sys_Exit(t) ==
    /\ Calling(t)
    /\ pid[t] # 1
    /\ state' = AfterExit(t)
    /\ UNCHANGED <<current, runq, corrupt, procVars>>

\* One turn of Sys_Wait's loop, from disabling interrupts to the yield.
WaitTurn(t) == Running(t) /\ state[t] # "ZOMBIE"
Zombies(t) == {c \in Children(t) : state[c] = "ZOMBIE"}
FirstZombie(t) == taskArray[Min({pid[c] : c \in Zombies(t)})]

\* Mutant: the structure is deleted but its slot is not cleared.
DestroyTaskKeepsSlot(c) ==
    /\ freed' = freed \cup {c}
    /\ UNCHANGED taskArray

DestroyTask(c) ==
    IF pid[c] < UserStart THEN UNCHANGED <<taskArray, freed>>
    ELSE /\ taskArray' = [taskArray EXCEPT ![pid[c]] = NoTask]
         /\ freed' = freed \cup {c}

WaitReaps(t) ==
    /\ WaitTurn(t)
    /\ Zombies(t) # {}
    /\ DestroyTask(FirstZombie(t))
    /\ waiting' = waiting \ {t}
    /\ UNCHANGED <<dispatchVars, pid, ppid>>

WaitFails(t) ==
    /\ WaitTurn(t)
    /\ Children(t) = {}
    /\ waiting' = waiting \ {t}
    /\ UNCHANGED <<dispatchVars, taskArray, pid, ppid, freed>>

WaitSleeps(t) ==
    /\ WaitTurn(t)
    /\ Children(t) # {} /\ Zombies(t) = {}
    /\ Block(t)
    /\ waiting' = waiting \cup {t}
    /\ UNCHANGED <<taskArray, pid, ppid, freed>>

ProcessNext ==
    \/ \E t, child \in Tasks : Sys_Fork(t, child)
    \/ \E t, child \in Tasks : Sys_ForkFull(t, child)
    \/ \E t \in Tasks :
          \/ Sys_Exit(t)
          \/ WaitReaps(t)
          \/ WaitFails(t)
          \/ WaitSleeps(t)
    \/ Switch /\ UNCHANGED procVars

ProcessSpec == ProcessInit /\ [][ProcessNext]_vars
-----------------------------------------------------------------------------
\* TaskArray and the pids agree through forks, full tables, exits, reaping and
\* the reuse of pids: a slot holds the one structure that has its index as pid
\* and has not been deleted, and no structure that has been given a pid leaves
\* the table before it is deleted.
TableAgrees ==
    /\ \A i \in Slots : taskArray[i] # NoTask =>
          pid[taskArray[i]] = i /\ taskArray[i] \notin freed
    /\ \A t \in Tasks : pid[t] # NoPid => InTable(t) \/ t \in freed

\* Deleting a structure never pulls it from under the scheduler: a deleted task
\* is neither running nor queued, and no living task is outside the table but
\* the one that a full table turned away.
DeletedIsUnused ==
    /\ \A t \in freed : t # current /\ t \notin runq /\ state[t] = "ZOMBIE"
    /\ \A t \in runq : InTable(t)

\* No slot, pid or list of the scheduler is left with a task that DestroyTask has
\* deleted, whatever was forked, turned away, reaped and numbered again.
ProcessTableIsSound == TableAgrees /\ DeletedIsUnused

\* Sys_Wait: "gak mungkin ada anak yang mati [...] di sela-sela pengecekan tadi
\* dan baris di bawah ini. AMAN".  A parent that is BLOCKED in Sys_Wait has a
\* child to wait for and none of its children has exited.
NoMissedExit ==
    \A t \in waiting : state[t] = "BLOCKED" => Children(t) # {} /\ Zombies(t) = {}

\* Sys_Exit: "Wake up parent if it's blocked in wait".  A READY task is in the
\* run queue, unless it is the one running or was never added.
\* TLC refutes it (README, section 5).
WokenParentIsQueued ==
    \A t \in Tasks : (state[t] = "READY" /\ InTable(t) /\ t # current) => t \in runq
=============================================================================
