-------------------------------- MODULE Poll --------------------------------
(***************************************************************************)
(* Sys_Poll on top of the scheduler.  Its first turn runs with interrupts  *)
(* off like every system call; SchedulerYield turns them on, and from then *)
(* on the timer may fire between any two steps of the loop.  A negative    *)
(* timeout only yields (Scheduler's Yield) and a zero one returns at once. *)
(***************************************************************************)
EXTENDS Scheduler

CONSTANTS PollMs,      \* the timeout, in milliseconds
          RawApicHz    \* the frequency of the APIC timer itself

ASSUME PollAssumption == PollMs \in Nat \ {0} /\ RawApicHz \in Nat

VARIABLES pc,          \* where a task is in Sys_Poll, "user" outside
          deadline,    \* its Deadline
          stranded     \* history: tasks switched away BLOCKED and not in the wheel

pollVars == <<pc, deadline, stranded>>

PollInit ==
    /\ Init
    /\ pc = [t \in Tasks |-> "user"]
    /\ deadline = [t \in Tasks |-> 0]
    /\ stranded = {}

MillisecondsToTicks(ms) == (ms * RawApicHz) \div 1000

\* No descriptor is ready: the first turn of the loop, up to the yield.
Sys_Poll(t) ==
    /\ pc[t] = "user"
    /\ MillisecondsToTicks(PollMs) > 0
    /\ SleepFor(t, 1)
    /\ pc' = [pc EXCEPT ![t] = "loop"]
    /\ deadline' = [deadline EXCEPT ![t] = ticks + MillisecondsToTicks(PollMs)]
    /\ UNCHANGED stranded

InPoll(t, at) == phase = "run" /\ current = t /\ pc[t] = at

\* A descriptor is ready, or the deadline is past.
PollReturn(t) ==
    /\ InPoll(t, "loop")
    /\ pc' = [pc EXCEPT ![t] = "user"]
    /\ deadline' = [deadline EXCEPT ![t] = 0]
    /\ UNCHANGED <<vars, stranded>>

PollSetTick(t) ==
    /\ InPoll(t, "loop")
    /\ ticks < deadline[t]
    /\ sleepTick' = [sleepTick EXCEPT ![t] = ticks + 1]
    /\ setAt' = [setAt EXCEPT ![t] = ticks]
    /\ pc' = [pc EXCEPT ![t] = "block"]
    /\ UNCHANGED <<taskVars, runVars, bucket, total, clockVars, deadline, stranded>>

PollBlock(t) ==
    /\ InPoll(t, "block")
    /\ state' = [state EXCEPT ![t] = "BLOCKED"]
    /\ pc' = [pc EXCEPT ![t] = "file"]
    /\ UNCHANGED <<building, runVars, wheelVars, clockVars, deadline, stranded>>

PollFile(t) ==
    /\ InPoll(t, "file")
    /\ UNCHANGED <<sleepTick, setAt>>
    /\ AddToSleepList(t)
    /\ pc' = [pc EXCEPT ![t] = "loop"]
    /\ UNCHANGED <<taskVars, runVars, clockVars, deadline, stranded>>

\* The timer interrupt.  A poller it takes the processor from after State is
\* BLOCKED and before AddToSleepList, or that AddToSleepList left out because
\* its SleepTick was cleared meanwhile, is in no list any more.
PollTick ==
    /\ Tick
    /\ stranded' = stranded \cup
          {t \in Tasks : phase = "switch" /\ t = current /\ state[t] = "BLOCKED" /\ t \notin Filed}
    /\ UNCHANGED <<pc, deadline>>

PollNext ==
    \/ \E t \in Tasks :
          \/ pc[t] = "user" /\ Call(t) /\ UNCHANGED pollVars
          \/ Sys_Poll(t)
          \/ PollReturn(t)
          \/ PollSetTick(t)
          \/ PollBlock(t)
          \/ PollFile(t)
    \/ PollTick

PollSpec == PollInit /\ [][PollNext]_<<vars, pollVars>>

-----------------------------------------------------------------------------
\* With the timer free to fire inside Sys_Poll the scheduler still never queues
\* a task twice nor one that is not READY or is in the wheel too, and leaves no
\* task but the current one marked RUNNING.  A READY or BLOCKED task is in the
\* queue or in the wheel, with two exceptions: the task on the processor, and
\* the pollers a tick has stranded, which stay lost even when the exit of a
\* child makes them READY and which nothing queues or files again.  A polling
\* task that SchedulerTick has charged inside the loop is in its place up to
\* that charge, and the count of sleepers stays exact.
PlacesUnderPoll ==
    /\ NoRepeats(queue)
    /\ \A t \in Tasks :
          /\ t \in Queued => state[t] = "READY" /\ t \notin Filed
          /\ state[t] = "READY" => t \in Queued \cup Filed \cup stranded
          /\ state[t] = "BLOCKED" => t \in Filed \cup stranded \cup {current}
          /\ t \in stranded => t \notin Queued \cup Filed \cup {current}
          /\ t \in Filed => state[t] \in {"BLOCKED", "READY", "ZOMBIE"}
          /\ state[t] = "RUNNING" => t = current
    /\ WheelAccounting
    /\ NearlyInOrder

\* Sys_Poll's second check: "Timeout habis? (Dan bukan infinite wait)".  A task
\* that waits with a timeout is where the timer finds it: in the run queue or
\* in the wheel.
\* TLC refutes it (README, section 5).
PollerIsFound ==
    phase = "run" => \A t \in Tasks :
       pc[t] # "user" /\ t # current => t \in Queued \cup Filed
=============================================================================
