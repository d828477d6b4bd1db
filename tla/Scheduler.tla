----------------------------- MODULE Scheduler ------------------------------
(***************************************************************************)
(* The scheduler core: the timer interrupt (timer.cpp, SchedulerTick and   *)
(* Schedule of scheduler.cpp), the sleep wheel, the sleep system calls and *)
(* the creation and exit of tasks.                                         *)
(*                                                                         *)
(* One processor runs tasks.  A system call enters with interrupts off, so *)
(* the whole of it up to SchedulerYield is one action.  SchedulerYield     *)
(* turns interrupts on, arms the timer and RETURNS: the caller, BLOCKED or *)
(* not, goes on in user mode until the timer fires, and may call again.    *)
(* The timer interrupt runs with interrupts off; its loop over the wheel   *)
(* is several steps of this model, during which phase keeps every other    *)
(* action disabled.                                                        *)
(***************************************************************************)
EXTENDS QueueOps, Integers, FiniteSets

CONSTANTS
    Tasks,         \* every task but the idle task
    Idle,          \* PID_IDLE, never queued
    NoTask,        \* nullptr
    WheelSize,     \* TIMER_WHEEL_SIZE
    Boost,         \* the vruntime discount of a woken task (10 in the code)
    LapicHz,       \* timer ticks per second
    InitTicks,     \* LapicTicks when SchedulerStart runs
    SleepMS,       \* arguments of SysSleepMS
    SleepTimes,    \* arguments <<tv_sec, tv_nsec>> of Sys_SleepNs
    VLimit,        \* vruntime is a U64: 2^64 in the code
    MaxGap,        \* bound: most ticks one timer interrupt accounts for
    MaxTicks,      \* bound on LapicTicks
    MaxVRuntime    \* bound on the vruntime a running task reaches

ASSUME TasksAssumption ==
    /\ IsFiniteSet(Tasks)
    /\ Idle \notin Tasks /\ NoTask \notin Tasks /\ Idle # NoTask
ASSUME WheelAssumption ==
    WheelSize \in Nat \ {0} /\ Boost \in Nat \ {0} /\ VLimit \in Nat \ {0}
ASSUME ClockAssumption ==
    /\ LapicHz \in Nat /\ InitTicks \in Nat \ {0} /\ MaxGap \in Nat
    /\ SleepMS \subseteq Nat /\ SleepTimes \subseteq Nat \X Nat

VARIABLES
    state,         \* Task::State, "NONE" before creation
    building,      \* building[t]: the task t has constructed but not yet added
    queue,         \* the run queue in order (CFSRoot, CFSLeftmost)
    vruntime,      \* Task::vruntime
    minV,          \* MinVRuntime
    current,       \* CurrentTaskIndex
    ticks,         \* LapicTicks
    sleepTick,     \* Task::SleepTick
    bucket,        \* the wheel bucket a task is filed in, or Unfiled
    total,         \* TotalSleepingTasks
    lastChecked,   \* LastCheckedTick
    phase,         \* "run", or where the timer interrupt stands
    cursor,        \* currTick of the loop over the wheel, 0 outside it
    setAt          \* history: the tick at which sleepTick was set

taskVars == <<state, building>>
runVars == <<queue, vruntime, minV, current>>
wheelVars == <<sleepTick, bucket, total, setAt>>
clockVars == <<ticks, lastChecked, phase, cursor>>
vars == <<taskVars, runVars, wheelVars, clockVars>>

States == {"NONE", "NEW", "READY", "RUNNING", "BLOCKED", "ZOMBIE"}
Unfiled == WheelSize

\* SchedulerStart has picked one of the tasks that main has created.
Init ==
    /\ \E first \in Tasks :
          /\ current = first
          /\ state = [t \in Tasks |-> IF t = first THEN "RUNNING" ELSE "NONE"]
    /\ building = [t \in Tasks |-> NoTask]
    /\ queue = <<>>
    /\ vruntime = [t \in Tasks |-> 0]
    /\ minV = 0
    /\ ticks = InitTicks
    /\ lastChecked = InitTicks
    /\ sleepTick = [t \in Tasks |-> 0]
    /\ setAt = [t \in Tasks |-> 0]
    /\ bucket = [t \in Tasks |-> Unfiled]
    /\ total = 0
    /\ phase = "run"
    /\ cursor = 0

\* The task on the processor can make a call: it has not exited (Sys_Exit does
\* not return to user mode) and is not in the middle of creating a task.
Calling(t) == phase = "run" /\ current = t /\ state[t] # "ZOMBIE" /\ building[t] = NoTask

-----------------------------------------------------------------------------
\* Creating a task: ConstructTask gives it the MinVRuntime of the moment;
\* SchedulerAddTask enters it later, with interrupts on in between.
ConstructTask(t, new) ==
    /\ Calling(t)
    /\ state[new] = "NONE"
    /\ state' = [state EXCEPT ![new] = "NEW"]
    /\ vruntime' = [vruntime EXCEPT ![new] = minV]
    /\ building' = [building EXCEPT ![t] = new]
    /\ UNCHANGED <<queue, minV, current, wheelVars, clockVars>>

SchedulerAddTask(t) ==
    /\ phase = "run" /\ current = t
    /\ building[t] # NoTask
    /\ LET new == building[t] IN
          /\ state' = [state EXCEPT ![new] = "READY"]
          /\ \E p \in Gaps(queue, vruntime, vruntime[new]) :
                queue' = Insert(queue, p, new)
    /\ building' = [building EXCEPT ![t] = NoTask]
    /\ UNCHANGED <<vruntime, minV, current, wheelVars, clockVars>>

\* Mutant: Sys_Exit wakes the parent whatever its state.
ExitWakesAny(t, p) ==
    /\ Calling(t)
    /\ state' = [u \in Tasks |-> IF u = t THEN "ZOMBIE"
                                 ELSE IF u = p THEN "READY" ELSE state[u]]
    /\ vruntime' = IF p # t THEN [vruntime EXCEPT ![p] = (minV - 1) % VLimit] ELSE vruntime
    /\ UNCHANGED <<building, queue, minV, current, wheelVars, clockVars>>

\* Sys_Exit.  p is the task whose pid is the ppid of t; t itself stands for
\* none, since t is a ZOMBIE by then.  A BLOCKED parent becomes READY with a
\* vruntime below every other (2^64 - 1 when MinVRuntime is 0), but nobody
\* enters it into the run queue and the wheel keeps it.  Pids are reused and p
\* may sleep for a reason of its own, so p is any task; module Process says which.
Exit(t, p) ==
    /\ Calling(t)
    /\ state' = [u \in Tasks |-> IF u = t THEN "ZOMBIE"
                                 ELSE IF u = p /\ state[u] = "BLOCKED" THEN "READY"
                                 ELSE state[u]]
    /\ vruntime' = IF p # t /\ state[p] = "BLOCKED"
                   THEN [vruntime EXCEPT ![p] = (minV - 1) % VLimit] ELSE vruntime
    /\ UNCHANGED <<building, queue, minV, current, wheelVars, clockVars>>

\* Sys_Yield: interrupts are on already.
Yield(t) == Calling(t) /\ UNCHANGED vars

-----------------------------------------------------------------------------
\* The ticks a sleep lasts: rounded down, but one at least unless the request
\* was zero.
MsToTicks(ms) ==
    LET n == (ms * LapicHz) \div 1000 IN IF n = 0 /\ ms > 0 THEN 1 ELSE n

TimespecToTicks(sec, ns) ==
    LET n == sec * LapicHz + (ns * LapicHz) \div 1000000000
    IN  IF n = 0 /\ (sec > 0 \/ ns > 0) THEN 1 ELSE n

\* AddToSleepList leaves alone a task without a SleepTick and one that is
\* already filed, even when its SleepTick now belongs to another bucket.
AddToSleepList(t) ==
    IF sleepTick'[t] = 0 \/ bucket[t] # Unfiled
    THEN UNCHANGED <<bucket, total>>
    ELSE /\ bucket' = [bucket EXCEPT ![t] = sleepTick'[t] % WheelSize]
         /\ total' = total + 1

SleepFor(t, n) ==
    /\ Calling(t)
    /\ sleepTick' = [sleepTick EXCEPT ![t] = ticks + n]
    /\ setAt' = [setAt EXCEPT ![t] = ticks]
    /\ state' = [state EXCEPT ![t] = "BLOCKED"]
    /\ AddToSleepList(t)
    /\ UNCHANGED <<building, runVars, clockVars>>

SysSleepMS(t) == \E ms \in SleepMS : SleepFor(t, MsToTicks(ms))
Sys_SleepNs(t) == \E r \in SleepTimes : SleepFor(t, TimespecToTicks(r[1], r[2]))

-----------------------------------------------------------------------------
\* Mutant: any outgoing task that is not BLOCKED goes back into the queue.
RunnableUnlessBlocked == current # Idle /\ state[current] # "BLOCKED"

\* Schedule puts the outgoing task back into the queue only when it still is
\* RUNNING, and never the idle task.
Runnable == current # Idle /\ state[current] = "RUNNING"

\* Mutant: the full turn starts one bucket late.
StartTickLate(now) == IF now - lastChecked > WheelSize THEN now - WheelSize + 2
                      ELSE lastChecked + 1

\* Every tick since the last check, or one full turn of the wheel.
StartTick(now) == IF now - lastChecked > WheelSize THEN now - WheelSize + 1
                  ELSE lastChecked + 1

\* Mutant: the early return for an empty wheel forgets LastCheckedTick.
TimerIrqForgets(d) ==
    /\ phase = "run"
    /\ ticks + d <= MaxTicks
    /\ Runnable => vruntime[current] < MaxVRuntime
    /\ ticks' = ticks + d
    /\ IF total = 0 \/ ticks' <= lastChecked
       THEN phase' = "switch" /\ UNCHANGED <<lastChecked, cursor>>
       ELSE phase' = "scan" /\ cursor' = StartTick(ticks') /\ UNCHANGED lastChecked
    /\ UNCHANGED <<taskVars, runVars, wheelVars>>

\* LapicOnIrqHandler advances LapicTicks by the whole ticks that have passed,
\* possibly none; CheckSleepingTasks then decides where its loop starts.
TimerIrq(d) ==
    /\ phase = "run"
    /\ ticks + d <= MaxTicks
    /\ Runnable => vruntime[current] < MaxVRuntime
    /\ ticks' = ticks + d
    /\ IF total = 0
       THEN lastChecked' = ticks' /\ phase' = "switch" /\ UNCHANGED cursor
       ELSE IF ticks' <= lastChecked
       THEN phase' = "switch" /\ UNCHANGED <<lastChecked, cursor>>
       ELSE /\ phase' = "scan"
            /\ cursor' = StartTick(ticks')
            /\ UNCHANGED lastChecked
    /\ UNCHANGED <<taskVars, runVars, wheelVars>>

Due(t) == bucket[t] = cursor % WheelSize /\ sleepTick[t] <= ticks

WakeVRuntime == IF minV > Boost THEN minV - Boost ELSE minV

\* Mutant: the woken task is enqueued but stays BLOCKED.
WakeSleeperBlocked(t) ==
    /\ phase = "scan"
    /\ Due(t)
    /\ bucket' = [bucket EXCEPT ![t] = Unfiled]
    /\ total' = total - 1
    /\ sleepTick' = [sleepTick EXCEPT ![t] = 0]
    /\ vruntime' = [vruntime EXCEPT ![t] = WakeVRuntime]
    /\ \E p \in Gaps(queue, vruntime, WakeVRuntime) : queue' = Insert(queue, p, t)
    /\ setAt' = [setAt EXCEPT ![t] = 0]
    /\ UNCHANGED <<taskVars, minV, current, clockVars>>

\* CheckSleepingTasks finds a due task in the bucket under the cursor.  The
\* order of the tasks within a bucket is abstracted: any due one is next.
WakeSleeper(t) ==
    /\ phase = "scan"
    /\ Due(t)
    /\ bucket' = [bucket EXCEPT ![t] = Unfiled]
    /\ total' = total - 1
    /\ state' = [state EXCEPT ![t] = "READY"]
    /\ sleepTick' = [sleepTick EXCEPT ![t] = 0]
    /\ vruntime' = [vruntime EXCEPT ![t] = WakeVRuntime]
    /\ \E p \in Gaps(queue, vruntime, WakeVRuntime) : queue' = Insert(queue, p, t)
    /\ setAt' = [setAt EXCEPT ![t] = 0]
    /\ UNCHANGED <<building, minV, current, clockVars>>

NextBucket ==
    /\ phase = "scan"
    /\ \A t \in Tasks : ~Due(t)
    /\ IF cursor = ticks
       THEN phase' = "switch" /\ lastChecked' = ticks /\ cursor' = 0
       ELSE cursor' = cursor + 1 /\ UNCHANGED <<phase, lastChecked>>
    /\ UNCHANGED <<taskVars, runVars, wheelVars, ticks>>

\* Nice 0 for every task: Sys_SetPriority is in no entry of the system-call
\* table.
Weight == 1024
VDiff == LET d == 1024 \div Weight IN IF d = 0 THEN 1 ELSE d

Charged == IF current = Idle THEN vruntime
           ELSE [vruntime EXCEPT ![current] = @ + VDiff]

\* Mutant: the outgoing task is queued but still marked RUNNING.
PutBackRunning == state

PutBack == IF Runnable THEN [state EXCEPT ![current] = "READY"] ELSE state
Requeued ==
    IF Runnable
    THEN {Insert(queue, p, current) : p \in Gaps(queue, Charged, Charged[current])}
    ELSE {queue}

\* Mutant: MinVRuntime follows the picked task down as well as up.
ScheduleFollowsDown ==
    /\ phase = "switch"
    /\ vruntime' = Charged
    /\ \E q \in Requeued :
          /\ q # <<>>
          /\ queue' = Tail(q)
          /\ current' = Head(q)
          /\ state' = [PutBack EXCEPT ![Head(q)] = "RUNNING"]
          /\ minV' = Charged[Head(q)]
    /\ phase' = "run"
    /\ UNCHANGED <<building, wheelVars, ticks, lastChecked, cursor>>

\* The rest of SchedulerTick: charge the current task, then Schedule.  The
\* flag ForceReschedule that the preemption check computes is never read.
Schedule ==
    /\ phase = "switch"
    /\ vruntime' = Charged
    /\ \E q \in Requeued :
          /\ q # <<>>
          /\ queue' = Tail(q)
          /\ current' = Head(q)
          /\ state' = [PutBack EXCEPT ![Head(q)] = "RUNNING"]
          /\ minV' = IF Charged[Head(q)] > minV THEN Charged[Head(q)] ELSE minV
    /\ phase' = "run"
    /\ UNCHANGED <<building, wheelVars, ticks, lastChecked, cursor>>

\* Schedule with nothing to run.
ScheduleIdle ==
    /\ phase = "switch"
    /\ <<>> \in Requeued
    /\ vruntime' = Charged
    /\ current' = Idle
    /\ phase' = "run"
    /\ UNCHANGED <<taskVars, queue, minV, wheelVars, ticks, lastChecked, cursor>>

-----------------------------------------------------------------------------
Call(t) ==
    \/ \E new \in Tasks : ConstructTask(t, new)
    \/ SchedulerAddTask(t)
    \/ \E p \in Tasks : Exit(t, p)
    \/ Yield(t)
    \/ SysSleepMS(t)
    \/ Sys_SleepNs(t)

Tick ==
    \/ \E d \in 0..MaxGap : TimerIrq(d)
    \/ \E t \in Tasks : WakeSleeper(t)
    \/ NextBucket
    \/ Schedule
    \/ ScheduleIdle

Next == (\E t \in Tasks : Call(t)) \/ Tick

Spec == Init /\ [][Next]_vars

-----------------------------------------------------------------------------
TypeOK ==
    /\ state \in [Tasks -> States]
    /\ building \in [Tasks -> Tasks \cup {NoTask}]
    /\ queue \in Seq(Tasks)
    /\ vruntime \in [Tasks -> Nat]
    /\ minV \in Nat
    /\ current \in Tasks \cup {Idle}
    /\ ticks \in Nat /\ lastChecked \in Nat /\ cursor \in Nat
    /\ sleepTick \in [Tasks -> Nat]
    /\ setAt \in [Tasks -> Nat]
    /\ bucket \in [Tasks -> 0..WheelSize]
    /\ total \in Int
    /\ phase \in {"run", "scan", "switch"}

Queued == Elements(queue)
Filed == {t \in Tasks : bucket[t] # Unfiled}

\* No task is queued twice, so CFSEnqueue is never called on a task that is
\* already in the tree (SchedulerStart's comment: "BIAR GAK DOUBLE INSERT").
NoDoubleInsert == NoRepeats(queue)

\* Every task is where the scheduler will find it.  A queued task is READY.  A
\* READY task is in the run queue, or Sys_Exit of a child has made it READY in
\* its sleep: then the wheel still holds it and CheckSleepingTasks, not the
\* exit, will queue it.  A BLOCKED task is in the wheel, and a task in the wheel
\* is BLOCKED, has been made READY that way, or has exited before its BLOCKED
\* time slice ended, and is in no case queued as well.  RUNNING is the current
\* task and no other.
EveryTaskIsFindable ==
    \A t \in Tasks :
       /\ t \in Queued => state[t] = "READY" /\ t \notin Filed
       /\ state[t] \in {"READY", "BLOCKED"} => t \in Queued \cup Filed
       /\ t \in Filed => state[t] \in {"BLOCKED", "READY", "ZOMBIE"}
       /\ state[t] = "RUNNING" => t = current
       /\ (t = current /\ phase = "run") => state[t] \in {"RUNNING", "BLOCKED", "ZOMBIE"}

\* TotalSleepingTasks, which lets CheckSleepingTasks skip the wheel, counts the
\* tasks in it.
WheelAccounting == total = Cardinality(Filed)

\* The loop of CheckSleepingTasks misses no bucket, whatever the gap between
\* two timer interrupts: a sleeper filed under its own SleepTick, with a time
\* to sleep that is not zero, is woken by the interrupt that reaches it, and no
\* sleeper oversleeps by a full turn of the wheel.
WokenInTime ==
    phase = "run" => \A t \in Filed :
       /\ (bucket[t] = sleepTick[t] % WheelSize /\ sleepTick[t] > setAt[t])
             => ticks < sleepTick[t]
       /\ ticks < sleepTick[t] + WheelSize

\* Charging a task that CheckSleepingTasks has just queued breaks the order of
\* the queue, but by one tick's charge at most.
NearlyInOrder ==
    \A i, j \in 1..Len(queue) :
       i < j => vruntime[queue[i]] <= vruntime[queue[j]] + VDiff

\* MinVRuntime never goes back, and when it advances it leaves no queued task
\* behind by more than one tick's charge.
MinVRuntimeAdvances ==
    [][/\ minV' >= minV
       /\ minV' > minV => \A t \in Elements(queue') : minV' <= vruntime'[t] + VDiff]_vars

Dispatcher == INSTANCE Dispatch WITH runq <- Queued, corrupt <- FALSE

\* To the rest of the kernel the wheel, the timer interrupt and Schedule are a
\* dispatcher: only the running task blocks, exits or is preempted, a task the
\* wheel wakes is READY and queued (one that the exit of a child makes READY is
\* not), the next task comes from the queue, the idle task runs only when
\* nothing else can, and nothing is ever queued twice.
ImplementsDispatch == Dispatcher!DispatchSpec

\* Sys_Exit ends in UNREACHABLE: a task that has exited never runs again.  The
\* exception the code makes is a task that exits in the rest of its time slice
\* after a sleep call: it is still in the wheel, and CheckSleepingTasks makes
\* every due task READY whatever its state.
ExitIsFinalOutsideWheel ==
    [][\A t \in Tasks : state[t] = "ZOMBIE" /\ t \notin Filed => state'[t] = "ZOMBIE"]_vars

-----------------------------------------------------------------------------
(* The inductive invariant of SchedulerProofs.                              *)

\* A task under construction has one constructor and is nowhere else.
UnderConstruction ==
    \A t \in Tasks : building[t] # NoTask =>
       /\ state[building[t]] = "NEW"
       /\ \A u \in Tasks : building[u] = building[t] => u = t

\* How far the wheel has been checked, also in the middle of the loop: up to
\* lastChecked, and from StartTick to the bucket before the cursor.
WheelChecked ==
    /\ ticks > 0
    /\ phase # "scan" => lastChecked = ticks
    /\ phase = "scan" => StartTick(ticks) <= cursor /\ cursor <= ticks /\ lastChecked < ticks
    /\ \A t \in Filed :
          /\ setAt[t] <= sleepTick[t]
          /\ \A c \in (setAt[t] + 1)..lastChecked :
                c >= sleepTick[t] => c % WheelSize # bucket[t]
          /\ (phase = "scan" /\ sleepTick[t] <= ticks) =>
                \A c \in StartTick(ticks)..(cursor - 1) : c % WheelSize # bucket[t]

\* A current task that has just been woken is still uncharged and does not
\* exceed the tasks behind it, so that its charge is all that breaks the order.
WokenIsUncharged ==
    \A i \in 1..Len(queue) : queue[i] = current =>
       /\ vruntime[current] = WakeVRuntime
       /\ \A j \in 1..Len(queue) : i < j => vruntime[current] <= vruntime[queue[j]]

\* All of it, as CheckSleepingTasks, Schedule and the calls preserve it.
IInv ==
    /\ TypeOK
    /\ NoDoubleInsert /\ EveryTaskIsFindable /\ UnderConstruction
    /\ WheelAccounting /\ WheelChecked
    /\ NearlyInOrder /\ WokenIsUncharged
=============================================================================
