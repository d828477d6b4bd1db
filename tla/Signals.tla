------------------------------ MODULE Signals -------------------------------
(***************************************************************************)
(* Process groups and signals (task/task_main.cpp, process.cpp, entry.cpp).*)
(* A group is the chain of PGIDTaskPtr that starts at its leader, the task *)
(* whose pid is the number of the group; Sys_Fork and Sys_SetPGID put a    *)
(* task in front of the chain and SetTaskSignal walks along it.            *)
(*                                                                         *)
(* What the chain and the PGIDs say of each other is lost in five ways,    *)
(* named below, and a signal may read CFSLeftmost while the run queue is   *)
(* empty.  Each of them sets damaged, and the groups are not followed any  *)
(* further: the next walk may not end, or runs into deleted tasks.         *)
(* GraveyardArray, which nothing reads, and vruntime are left out; so is   *)
(* SetTaskSignal for a single task, which has no caller.                   *)
(***************************************************************************)
EXTENDS Process

CONSTANT SigNums    \* the signals a terminal sends, SIGINT among them

SIGINT == 2

ASSUME SignalsAssumption == SIGINT \in SigNums /\ SigNums \subseteq Nat /\ IsFiniteSet(Tasks)

VARIABLES pgid,       \* Task::PGID
          next,       \* Task::PGIDTaskPtr
          signals,    \* Task::Signals
          handled,    \* the tasks with a handler for SIGINT
          returning,  \* the task at end_syscall with a SIGINT to deliver
          damaged     \* history: chains and PGIDs have come apart

sigVars == <<pgid, next, signals, handled, returning, damaged>>

\* TaskUserConstructor numbers the group before there is a pid: (U64)-1.
SignalsInit ==
    /\ pgid = [t \in Tasks |-> NoPid]
    /\ next = [t \in Tasks |-> NoTask]
    /\ signals = [t \in Tasks |-> {}]
    /\ handled = {}
    /\ returning = NoTask
    /\ damaged = FALSE

GetTaskPID(i) == IF i \in Slots THEN taskArray[i] ELSE NoTask

\* The task itself if it leads the group, else the first of the table.
GetTaskPGID(g) ==
    LET leader == GetTaskPID(g)
        members == {i \in Slots : taskArray[i] # NoTask /\ pgid[taskArray[i]] = g}
    IN IF leader # NoTask /\ pgid[leader] = g THEN leader
       ELSE IF members = {} THEN NoTask ELSE taskArray[Min(members)]

\* The n-th task of the chain that starts at h, and the tasks of that chain.
Along(h) ==
    LET at[n \in 0..Cardinality(Tasks)] ==
            IF n = 0 THEN h ELSE IF at[n - 1] = NoTask THEN NoTask ELSE next[at[n - 1]]
    IN at
Chain(h) == {Along(h)[n] : n \in DOMAIN Along(h)} \ {NoTask}

Leads(t) == pgid[t] = pid[t] /\ next[t] # NoTask
Follows(t) == \E p \in Tasks : next[p] = t

-----------------------------------------------------------------------------
\* Return to user space through end_syscall.
Returns(t) == returning' = IF SIGINT \in signals[t] /\ t \notin handled THEN t ELSE NoTask

\* A SIGINT without a handler makes a waiting parent READY, without queueing it,
\* and nothing else: the task yields, keeps its signal and goes on.
EndSyscall(t) ==
    /\ Running(t) /\ returning = t
    /\ state' = [p \in Tasks |-> IF InTable(p) /\ pid[p] = ppid[t] /\ state[p] = "BLOCKED"
                                 THEN "READY" ELSE state[p]]
    /\ returning' = NoTask
    /\ UNCHANGED <<current, runq, corrupt, procVars, pgid, next, signals, handled, damaged>>

\* Which of the unused structures the allocator returns makes no difference.
Unused == {c \in Tasks : state[c] = "NONE"}
NewTask == CHOOSE c \in Unused : TRUE

\* The structure is copied, with its signals and handlers; the child goes in front
\* of its leader's chain before SchedulerAddTask looks for a slot.  A child without
\* a leader gets a group of its own with its pid.
ForkIntoGroup(t, child) ==
    LET leader == GetTaskPID(pgid[t])
        full == FreeSlots = {}
    IN
    /\ Sys_Fork(t, child) \/ Sys_ForkFull(t, child)
    /\ IF leader # NoTask
       THEN /\ next' = [next EXCEPT ![child] = next[leader], ![leader] = child]
            /\ pgid' = [pgid EXCEPT ![child] = pgid[t]]
       ELSE /\ pgid' = [pgid EXCEPT ![child] = IF full THEN 0 ELSE FirstFree]
            /\ UNCHANGED next
    /\ damaged' = (full /\ leader # NoTask)
    /\ signals' = [signals EXCEPT ![child] = signals[t]]
    /\ handled' = IF t \in handled THEN handled \cup {child} ELSE handled
    /\ Returns(t)

\* Mutant: the successors of the task are dropped with it.
UnlinkFromProcGrpCuts(t) ==
    LET head == GetTaskPGID(pgid[t]) IN
    [x \in Tasks |-> IF x = t THEN NoTask
                     ELSE IF x \in Chain(head) /\ next[x] = t THEN NoTask ELSE next[x]]

\* The links after t has left its group; the head takes nobody with it.
UnlinkFromProcGrp(t) ==
    LET head == GetTaskPGID(pgid[t]) IN
    IF head = NoTask THEN next
    ELSE IF head = t THEN [next EXCEPT ![t] = NoTask]
    ELSE [x \in Tasks |-> IF x = t THEN NoTask
                          ELSE IF x \in Chain(head) /\ next[x] = t THEN next[t] ELSE next[x]]

Targets(t) == {x \in Tasks : x = t \/ (InTable(x) /\ ppid[x] = pid[t])}

\* Sys_SetPGID(pid, pgid), with pgid = 0 for the target's own pid.  The target has
\* left its group before the new leader is looked up, and is not unlinked at all
\* when it joins the group it is in.
Sys_SetPGID(t, target, g) ==
    LET new == IF g = 0 THEN pid[target] ELSE g
        left == IF pgid[target] # 0 /\ pgid[target] # new THEN UnlinkFromProcGrp(target) ELSE next
        leader == GetTaskPID(new)
        joins == leader # NoTask /\ pgid[leader] = pid[leader]
        rejoins == pgid[target] = new /\ new # pid[target]
    IN
    /\ Calling(t) /\ target \in Targets(t)
    /\ IF new = pid[target]
       THEN /\ pgid' = [pgid EXCEPT ![target] = new]
            /\ next' = [left EXCEPT ![target] = NoTask]
       ELSE IF joins
       THEN /\ pgid' = [pgid EXCEPT ![target] = new]
            /\ next' = [left EXCEPT ![target] = left[leader], ![leader] = target]
       ELSE /\ UNCHANGED pgid
            /\ next' = left
    /\ damaged' = \/ Leads(target)
                  \/ rejoins
                  \/ new # pid[target] /\ ~joins /\ left # next
    /\ Returns(t)
    /\ UNCHANGED <<vars, signals, handled>>

\* Sys_Signal and Sys_RtSigAction.
Sys_Signal(t, catch) ==
    /\ Calling(t)
    /\ handled' = IF catch THEN handled \cup {t} ELSE handled \ {t}
    /\ returning' = IF SIGINT \in signals[t] /\ ~catch THEN t ELSE NoTask
    /\ UNCHANGED <<vars, pgid, next, signals, damaged>>

\* SetTaskSignal for a group, from an interrupt: the walk starts at the task with
\* that pid, leader or not.  A blocked task is queued wherever else it is linked.
SetTaskSignal(id, sig) ==
    LET reached == {t \in Chain(GetTaskPID(id)) : state[t] # "ZOMBIE" /\ pid[t] > 1}
        blocked == {t \in reached : state[t] = "BLOCKED"}
    IN
    /\ signals' = [t \in Tasks |-> IF t \in reached THEN signals[t] \cup {sig} ELSE signals[t]]
    /\ state' = [t \in Tasks |-> IF t \in blocked THEN "READY" ELSE state[t]]
    /\ runq' = runq \cup blocked
    /\ corrupt' = (blocked \cap runq # {})
    /\ damaged' = (runq = {} /\ \E t \in reached : SIGINT \in signals'[t])
    /\ UNCHANGED <<current, procVars, pgid, next, handled, returning>>

\* DestroyTask leaves the links of the group alone.
ReapFromGroup(t) ==
    /\ WaitReaps(t)
    /\ damaged' = (FirstZombie(t) \in freed' /\ (Leads(FirstZombie(t)) \/ Follows(FirstZombie(t))))
    /\ Returns(t)
    /\ UNCHANGED <<pgid, next, signals, handled>>

SignalsNext ==
    /\ ~damaged
    /\ \/ returning = NoTask /\
          \/ \E t \in Tasks : Unused # {} /\ ForkIntoGroup(t, NewTask)
          \/ \E t, x \in Tasks, g \in Slots \cup {0} : Sys_SetPGID(t, x, g)
          \/ \E t \in Tasks, catch \in BOOLEAN : Sys_Signal(t, catch)
          \/ \E id \in Slots, sig \in SigNums : ~corrupt /\ SetTaskSignal(id, sig)
          \/ \E t \in Tasks : ReapFromGroup(t)
          \/ \E t \in Tasks : WaitFails(t) /\ Returns(t)
                              /\ UNCHANGED <<pgid, next, signals, handled, damaged>>
          \/ \E t \in Tasks : (Sys_Exit(t) \/ WaitSleeps(t)) /\ UNCHANGED sigVars
          \/ Switch /\ UNCHANGED <<procVars, sigVars>>
       \/ \E t \in Tasks : EndSyscall(t)

SignalsSpec == ProcessInit /\ SignalsInit /\ [][SignalsNext]_<<vars, sigVars>>

-----------------------------------------------------------------------------
\* "Kalau dia masuk ke grup (PGID != 0), kita harus update rantai".  Whatever was
\* forked, moved between groups, signalled and reaped, the chain of a leader ends and
\* holds the members of its group and nobody else, unless one of these happened: a
\* task joined the group it was in, a leader with members moved or led anew, a task
\* left for a group that could not be joined, a member of a chain was reaped, or a
\* child was linked and then turned away by a full table.
GroupsAreExact ==
    ~damaged => \A g \in Slots : LET leader == taskArray[g] IN
        (leader # NoTask /\ pgid[leader] = g) =>
            /\ \E n \in DOMAIN Along(leader) : Along(leader)[n] = NoTask
            /\ Chain(leader) = {t \in Tasks \ freed : state[t] # "NONE" /\ pgid[t] = g}
=============================================================================
