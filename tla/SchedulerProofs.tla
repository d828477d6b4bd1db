-------------------------- MODULE SchedulerProofs ---------------------------
(***************************************************************************)
(* Proofs about modules Scheduler and Poll, for any number of tasks, any   *)
(* wheel size, any timer gaps and any timeout.                             *)
(***************************************************************************)
EXTENDS Poll, TLAPS, FiniteSetTheorems

-----------------------------------------------------------------------------
(* Inserting into and taking from the run queue.                            *)

\* Insert returns a queue of one more task with the new task at place p + 1,
\* the ones before it where they were and the ones behind it moved by one.
LEMMA InsertPlaces ==
    ASSUME NEW S, NEW q \in Seq(S), NEW p \in 0..Len(q), NEW t \in S
    PROVE  /\ Insert(q, p, t) \in Seq(S)
           /\ Len(Insert(q, p, t)) = Len(q) + 1
           /\ \A k \in 1..(Len(q) + 1) :
                 Insert(q, p, t)[k] = IF k <= p THEN q[k]
                                      ELSE IF k = p + 1 THEN t ELSE q[k - 1]
<1> DEFINE r == Insert(q, p, t)
<1>1. \A k \in 1..(Len(q) + 1) :
         r[k] = IF k <= p THEN q[k] ELSE IF k = p + 1 THEN t ELSE q[k - 1]
  BY DEF Insert
<1>2. \A k \in 1..(Len(q) + 1) : r[k] \in S
  <2> SUFFICES ASSUME NEW k \in 1..(Len(q) + 1) PROVE r[k] \in S
    OBVIOUS
  <2>1. CASE k <= p
    <3>1. k \in 1..Len(q) BY <2>1
    <3> QED BY <1>1, <2>1, <3>1
  <2>2. CASE k = p + 1
    BY <1>1, <2>2
  <2>3. CASE k > p + 1
    <3>1. k - 1 \in 1..Len(q) BY <2>3
    <3> QED BY <1>1, <2>3, <3>1
  <2> QED BY <2>1, <2>2, <2>3
<1>3. r \in [1..(Len(q) + 1) -> S]
  BY <1>2 DEF Insert
<1> HIDE DEF r
<1>4. Len(q) + 1 \in Nat
  OBVIOUS
<1>5. r \in Seq(S) /\ Len(r) = Len(q) + 1
  BY <1>3, <1>4
<1> QED BY <1>1, <1>5 DEF r

\* The same, to be cited by name.
Puts(q, p, t, r) ==
    /\ Len(r) = Len(q) + 1
    /\ \A k \in 1..(Len(q) + 1) :
          r[k] = IF k <= p THEN q[k] ELSE IF k = p + 1 THEN t ELSE q[k - 1]

LEMMA InsertPuts ==
    ASSUME NEW S, NEW q \in Seq(S), NEW p \in 0..Len(q), NEW t \in S
    PROVE  Puts(q, p, t, Insert(q, p, t))
<1>1. Len(Insert(q, p, t)) = Len(q) + 1
  BY InsertPlaces
<1>2. \A k \in 1..(Len(q) + 1) :
         Insert(q, p, t)[k] = IF k <= p THEN q[k] ELSE IF k = p + 1 THEN t ELSE q[k - 1]
  BY DEF Insert
<1> QED BY <1>1, <1>2 DEF Puts

\* The tasks queued after an insertion are the ones before it and the new one.
LEMMA InsertElements ==
    ASSUME NEW S, NEW q \in Seq(S), NEW p \in 0..Len(q), NEW t \in S
    PROVE  Elements(Insert(q, p, t)) = Elements(q) \cup {t}
<1> DEFINE r == Insert(q, p, t)
<1>0. /\ Len(r) = Len(q) + 1
      /\ \A k \in 1..(Len(q) + 1) :
            r[k] = IF k <= p THEN q[k] ELSE IF k = p + 1 THEN t ELSE q[k - 1]
  <2>1. Len(r) = Len(q) + 1
    BY InsertPlaces
  <2>2. ASSUME NEW k \in 1..(Len(q) + 1)
        PROVE  r[k] = IF k <= p THEN q[k] ELSE IF k = p + 1 THEN t ELSE q[k - 1]
    BY DEF Insert
  <2> QED BY <2>1, <2>2
<1> HIDE DEF r
<1>1. ASSUME NEW i \in 1..Len(r) PROVE r[i] \in Elements(q) \cup {t}
  <2>1. CASE i <= p
    <3>1. i \in 1..Len(q) /\ r[i] = q[i] BY <1>0, <2>1
    <3> QED BY <3>1 DEF Elements
  <2>2. CASE i = p + 1
    BY <1>0, <2>2
  <2>3. CASE i > p + 1
    <3>1. i - 1 \in 1..Len(q) /\ r[i] = q[i - 1] BY <1>0, <2>3
    <3> QED BY <3>1 DEF Elements
  <2> QED BY <1>0, <2>1, <2>2, <2>3
<1>2. ASSUME NEW i \in 1..Len(q) PROVE q[i] \in Elements(r)
  <2>1. CASE i <= p
    <3>1. i \in 1..Len(r) /\ r[i] = q[i] BY <1>0, <2>1
    <3> QED BY <3>1 DEF Elements
  <2>2. CASE i > p
    <3>1. i + 1 \in 1..Len(r) /\ r[i + 1] = q[i] BY <1>0, <2>2
    <3> QED BY <3>1 DEF Elements
  <2> QED BY <2>1, <2>2
<1>3. t \in Elements(r)
  <2>1. p + 1 \in 1..Len(r) /\ r[p + 1] = t BY <1>0
  <2> QED BY <2>1 DEF Elements
<1>4. Elements(r) = Elements(q) \cup {t}
  BY <1>1, <1>2, <1>3 DEF Elements
<1> QED BY <1>4 DEF r

\* Inserting a task that is not queued repeats none.
LEMMA InsertNoRepeats ==
    ASSUME NEW S, NEW q \in Seq(S), NEW p \in 0..Len(q), NEW t \in S,
           NoRepeats(q), t \notin Elements(q)
    PROVE  NoRepeats(Insert(q, p, t))
<1> DEFINE r == Insert(q, p, t)
<1>0. /\ Len(r) = Len(q) + 1
      /\ \A k \in 1..(Len(q) + 1) :
            r[k] = IF k <= p THEN q[k] ELSE IF k = p + 1 THEN t ELSE q[k - 1]
  BY InsertPlaces
<1> HIDE DEF r
<1>1. \A k \in 1..Len(q) : q[k] # t
  BY DEF Elements
<1>2. ASSUME NEW i \in 1..Len(r), NEW j \in 1..Len(r), i < j PROVE r[i] # r[j]
  <2>1. CASE j <= p
    BY <1>0, <1>2, <2>1 DEF NoRepeats
  <2>2. CASE j = p + 1
    BY <1>0, <1>1, <1>2, <2>2
  <2>3. CASE j > p + 1 /\ i <= p
    <3>1. i \in 1..Len(q) /\ j - 1 \in 1..Len(q) /\ i # j - 1
      BY <1>0, <1>2, <2>3
    <3>2. r[i] = q[i] /\ r[j] = q[j - 1]
      BY <1>0, <2>3
    <3> QED BY <3>1, <3>2 DEF NoRepeats
  <2>4. CASE j > p + 1 /\ i = p + 1
    BY <1>0, <1>1, <1>2, <2>4
  <2>5. CASE j > p + 1 /\ i > p + 1
    BY <1>0, <1>2, <2>5 DEF NoRepeats
  <2> QED BY <1>0, <2>1, <2>2, <2>3, <2>4, <2>5
<1>3. NoRepeats(r)
  BY <1>2, <1>0 DEF NoRepeats
<1> QED BY <1>3 DEF r

\* Taking the first task.
LEMMA TailPlaces ==
    ASSUME NEW S, NEW q \in Seq(S), q # <<>>
    PROVE  /\ Head(q) \in S /\ Head(q) = q[1] /\ Tail(q) \in Seq(S)
           /\ Len(q) \in Nat \ {0} /\ Len(Tail(q)) = Len(q) - 1
           /\ \A k \in 1..(Len(q) - 1) : Tail(q)[k] = q[k + 1]
  OBVIOUS

LEMMA TailElements ==
    ASSUME NEW S, NEW q \in Seq(S), q # <<>>, NoRepeats(q)
    PROVE  /\ Elements(Tail(q)) = Elements(q) \ {Head(q)}
           /\ NoRepeats(Tail(q))
           /\ Head(q) \in Elements(q)
<1>0. /\ Head(q) = q[1] /\ Len(q) \in Nat \ {0} /\ Len(Tail(q)) = Len(q) - 1
      /\ \A k \in 1..(Len(q) - 1) : Tail(q)[k] = q[k + 1]
  BY TailPlaces
<1>1. NoRepeats(Tail(q))
  BY <1>0 DEF NoRepeats
<1>2. Head(q) \in Elements(q)
  BY <1>0 DEF Elements
<1>3. ASSUME NEW k \in 1..(Len(q) - 1)
      PROVE  Tail(q)[k] \in Elements(q) /\ Tail(q)[k] # Head(q)
  <2>1. k + 1 \in 1..Len(q) /\ 1 \in 1..Len(q) /\ k + 1 # 1
    BY <1>0
  <2> QED BY <1>0, <2>1 DEF Elements, NoRepeats
<1>4. ASSUME NEW i \in 1..Len(q), q[i] # Head(q)
      PROVE  q[i] \in Elements(Tail(q))
  <2>1. i - 1 \in 1..(Len(q) - 1) /\ Tail(q)[i - 1] = q[i]
    BY <1>0, <1>4
  <2> QED BY <1>0, <2>1 DEF Elements
<1>5. Elements(Tail(q)) = Elements(q) \ {Head(q)}
  BY <1>0, <1>3, <1>4, SMTT(30) DEF Elements
<1> QED BY <1>1, <1>2, <1>5
-----------------------------------------------------------------------------
(* Arithmetic of the wheel and of the clock.                                *)

\* A residue is determined by any way of writing the number.
LEMMA ModUnique ==
    ASSUME NEW w \in Nat \ {0}, NEW x \in Int, NEW k \in Int, NEW r \in 0..(w - 1),
           x = w * k + r
    PROVE  x % w = r
<1> DEFINE d == x \div w
           m == x % w
<1>1. d \in Int /\ m \in 0..(w - 1) /\ x = w * d + m
  OBVIOUS
<1> HIDE DEF d, m
<1>2. w * (k - d) = m - r
  BY <1>1
<1>3. CASE k - d >= 1
  <2>1. w * (k - d) >= w
    BY <1>1, <1>3
  <2> QED BY <1>1, <1>2, <2>1
<1>4. CASE k - d <= -1
  <2>1. w * (k - d) <= -w
    BY <1>1, <1>4
  <2> QED BY <1>1, <1>2, <2>1
<1>5. CASE k - d = 0
  BY <1>1, <1>2, <1>5 DEF m
<1> QED BY <1>1, <1>3, <1>4, <1>5

\* The last w ticks up to n visit every bucket an earlier tick c falls into.
LEMMA WindowVisits ==
    ASSUME NEW w \in Nat \ {0}, NEW n \in Nat, NEW c \in Nat, c <= n
    PROVE  \E x \in (n - w + 1)..n : x >= c /\ x % w = c % w
<1> DEFINE e == n - c
           x == n - (e % w)
<1>1. e \in Nat /\ e % w \in 0..(w - 1) /\ e \div w \in Nat
      /\ e = w * (e \div w) + (e % w)
  OBVIOUS
<1>2. c \div w \in Int /\ c % w \in 0..(w - 1) /\ c = w * (c \div w) + (c % w)
  OBVIOUS
<1>3. x = w * ((e \div w) + (c \div w)) + (c % w) /\ x \in Int
  <2>1. x = c + w * (e \div w)
    BY <1>1
  <2>2. w * ((e \div w) + (c \div w)) = w * (e \div w) + w * (c \div w)
    BY <1>1, <1>2
  <2> QED BY <1>1, <1>2, <2>1, <2>2
<1>4. x % w = c % w
  <2> DEFINE k == (e \div w) + (c \div w)
             r == c % w
  <2>1. k \in Int /\ r \in 0..(w - 1) /\ x = w * k + r /\ x \in Int
    BY <1>1, <1>2, <1>3
  <2> HIDE DEF k, r, x
  <2>2. x % w = r
    BY <2>1, ModUnique
  <2> QED BY <2>2 DEF r
<1>5. x >= c
  <2>1. w * (e \div w) >= 0
    BY <1>1
  <2> QED BY <1>1, <2>1
<1>6. x \in (n - w + 1)..n
  BY <1>1
<1> QED BY <1>4, <1>5, <1>6

\* A running task is charged one per tick.
LEMMA VDiffIsOne == VDiff = 1
<1>1. 1024 \div 1024 = 1
  OBVIOUS
<1> QED BY <1>1 DEF VDiff, Weight

\* Both conversions return a number of ticks.
LEMMA TicksAreNaturals ==
    /\ \A ms \in SleepMS : MsToTicks(ms) \in Nat
    /\ \A r \in SleepTimes : TimespecToTicks(r[1], r[2]) \in Nat
<1>1. ASSUME NEW ms \in SleepMS PROVE MsToTicks(ms) \in Nat
  <2>1. ms * LapicHz \in Nat
    BY ClockAssumption
  <2>2. (ms * LapicHz) \div 1000 \in Nat
    BY <2>1
  <2> QED BY <2>2 DEF MsToTicks
<1>2. ASSUME NEW r \in SleepTimes PROVE TimespecToTicks(r[1], r[2]) \in Nat
  <2>1. r[1] * LapicHz \in Nat /\ r[2] * LapicHz \in Nat
    BY ClockAssumption
  <2>2. (r[2] * LapicHz) \div 1000000000 \in Nat
    BY <2>1
  <2> QED BY <2>1, <2>2 DEF TimespecToTicks
<1> QED BY <1>1, <1>2

-----------------------------------------------------------------------------
(* Type correctness.                                                        *)

\* A gap is a place in the queue.
LEMMA GapPlace ==
    ASSUME NEW q, NEW vr, NEW v, NEW p \in Gaps(q, vr, v)
    PROVE  /\ p \in 0..Len(q)
           /\ p > 0 => vr[q[p]] <= v
           /\ p < Len(q) => v < vr[q[p + 1]]
  BY DEF Gaps

\* What Schedule works on is well typed.
LEMMA ScheduleTypes ==
    ASSUME TypeOK
    PROVE  /\ Charged \in [Tasks -> Nat]
           /\ PutBack \in [Tasks -> States]
           /\ Requeued \subseteq Seq(Tasks)
<1> USE TasksAssumption
<1>1. Charged \in [Tasks -> Nat]
  BY VDiffIsOne DEF TypeOK, Charged
<1>2. PutBack \in [Tasks -> States]
  BY DEF TypeOK, PutBack, Runnable, States
<1>3. ASSUME NEW q \in Requeued PROVE q \in Seq(Tasks)
  <2>1. CASE Runnable
    <3>1. PICK p \in Gaps(queue, Charged, Charged[current]) : q = Insert(queue, p, current)
      BY <1>3, <2>1 DEF Requeued
    <3>2. p \in 0..Len(queue) /\ queue \in Seq(Tasks) /\ current \in Tasks
      BY <2>1, GapPlace DEF TypeOK, Runnable
    <3> QED BY <3>1, <3>2, InsertPlaces
  <2>2. CASE ~Runnable
    BY <1>3, <2>2 DEF Requeued, TypeOK
  <2> QED BY <2>1, <2>2
<1> QED BY <1>1, <1>2, <1>3

\* Filing a task for sleep keeps the types.
LEMMA SleepForTypes ==
    ASSUME TypeOK, NEW t \in Tasks, NEW n \in Nat, SleepFor(t, n)
    PROVE  TypeOK'
<1> USE TasksAssumption, WheelAssumption, ClockAssumption DEF TypeOK
<1>1. sleepTick' \in [Tasks -> Nat] /\ sleepTick'[t] = ticks + n
  BY DEF SleepFor
<1>2. sleepTick'[t] % WheelSize \in 0..WheelSize
  BY <1>1
<1>3. bucket' \in [Tasks -> 0..WheelSize] /\ total' \in Int
  <2>1. CASE sleepTick'[t] = 0 \/ bucket[t] # Unfiled
    BY <2>1 DEF SleepFor, AddToSleepList
  <2>2. CASE ~(sleepTick'[t] = 0 \/ bucket[t] # Unfiled)
    <3>1. bucket' = [bucket EXCEPT ![t] = sleepTick'[t] % WheelSize] /\ total' = total + 1
      BY <2>2 DEF SleepFor, AddToSleepList
    <3> QED BY <1>2, <3>1
  <2> QED BY <2>1, <2>2
<1> QED BY <1>1, <1>3 DEF SleepFor, States, runVars, clockVars

\* Every action keeps the types.
LEMMA TypeStep == TypeOK /\ [Next]_vars => TypeOK'
<1> USE TasksAssumption, WheelAssumption, ClockAssumption
<1> SUFFICES ASSUME TypeOK, [Next]_vars PROVE TypeOK'
  OBVIOUS
<1> USE DEF TypeOK
<1>1. ASSUME NEW t \in Tasks, NEW new \in Tasks, ConstructTask(t, new) PROVE TypeOK'
  BY <1>1 DEF ConstructTask, States, wheelVars, clockVars
<1>2. ASSUME NEW t \in Tasks, SchedulerAddTask(t) PROVE TypeOK'
  <2>1. building[t] \in Tasks
    BY <1>2 DEF SchedulerAddTask
  <2>2. queue' \in Seq(Tasks)
    <3>1. PICK p \in Gaps(queue, vruntime, vruntime[building[t]]) :
             queue' = Insert(queue, p, building[t])
      BY <1>2 DEF SchedulerAddTask
    <3> QED BY <2>1, <3>1, GapPlace, InsertPlaces
  <2> QED BY <1>2, <2>1, <2>2 DEF SchedulerAddTask, States, wheelVars, clockVars
<1>3. ASSUME NEW t \in Tasks, NEW p \in Tasks, Exit(t, p) PROVE TypeOK'
  <2>1. (minV - 1) % VLimit \in Nat
    OBVIOUS
  <2>2. vruntime' \in [Tasks -> Nat] /\ state' \in [Tasks -> States]
    BY <1>3, <2>1 DEF Exit, States
  <2> QED BY <1>3, <2>2 DEF Exit, wheelVars, clockVars
<1>4. ASSUME NEW t \in Tasks, Yield(t) PROVE TypeOK'
  BY <1>4 DEF Yield, vars, taskVars, runVars, wheelVars, clockVars
<1>6. ASSUME NEW t \in Tasks, SysSleepMS(t) \/ Sys_SleepNs(t) PROVE TypeOK'
  BY <1>6, SleepForTypes, TicksAreNaturals DEF SysSleepMS, Sys_SleepNs
<1>7. ASSUME NEW d \in 0..MaxGap, TimerIrq(d) PROVE TypeOK'
  <2>1. ticks' \in Nat
    BY <1>7 DEF TimerIrq
  <2>2. lastChecked' \in Nat /\ phase' \in {"run", "scan", "switch"} /\ cursor' \in Nat
    BY <1>7, <2>1 DEF TimerIrq, StartTick
  <2> QED BY <1>7, <2>1, <2>2 DEF TimerIrq, taskVars, runVars, wheelVars
<1>8. ASSUME NEW t \in Tasks, WakeSleeper(t) PROVE TypeOK'
  <2>1. WakeVRuntime \in Nat
    BY DEF WakeVRuntime
  <2>2. queue' \in Seq(Tasks)
    <3>1. PICK p \in Gaps(queue, vruntime, WakeVRuntime) : queue' = Insert(queue, p, t)
      BY <1>8 DEF WakeSleeper
    <3> QED BY <3>1, GapPlace, InsertPlaces
  <2> QED BY <1>8, <2>1, <2>2 DEF WakeSleeper, States, Unfiled, clockVars
<1>9. ASSUME NextBucket PROVE TypeOK'
  BY <1>9 DEF NextBucket, taskVars, runVars, wheelVars
<1>10. ASSUME Schedule PROVE TypeOK'
  <2>1. PICK q \in Requeued :
           /\ q # <<>> /\ queue' = Tail(q) /\ current' = Head(q)
           /\ state' = [PutBack EXCEPT ![Head(q)] = "RUNNING"]
           /\ minV' = IF Charged[Head(q)] > minV THEN Charged[Head(q)] ELSE minV
    BY <1>10 DEF Schedule
  <2>2. q \in Seq(Tasks) /\ Charged \in [Tasks -> Nat] /\ PutBack \in [Tasks -> States]
    BY ScheduleTypes
  <2>3. Head(q) \in Tasks /\ Tail(q) \in Seq(Tasks)
    BY <2>1, <2>2, TailPlaces
  <2>4. state' \in [Tasks -> States] /\ minV' \in Nat
    BY <2>1, <2>2, <2>3 DEF States
  <2> QED BY <1>10, <2>1, <2>2, <2>3, <2>4 DEF Schedule, wheelVars
<1>11. ASSUME ScheduleIdle PROVE TypeOK'
  BY <1>11, ScheduleTypes DEF ScheduleIdle, taskVars, wheelVars
<1>12. ASSUME UNCHANGED vars PROVE TypeOK'
  BY <1>12 DEF vars, taskVars, runVars, wheelVars, clockVars
<1> QED BY <1>1, <1>2, <1>3, <1>4, <1>6, <1>7, <1>8, <1>9, <1>10, <1>11, <1>12
        DEF Next, Call, Tick

LEMMA TypeInit == Init => TypeOK
  BY TasksAssumption, WheelAssumption, ClockAssumption DEF Init, TypeOK, States, Unfiled

\* Every variable of the scheduler keeps its type: the queue holds tasks, the
\* current task is a task or idle, and no vruntime or tick goes below zero.
THEOREM TypeCorrect == Spec => []TypeOK
  BY TypeInit, TypeStep, PTL DEF Spec

-----------------------------------------------------------------------------
(* Where the tasks are.                                                     *)

\* EveryTaskIsFindable without its second part, which is WaitersAreKnown:
\* Sys_Poll loses tasks, and the rest holds nevertheless.
InPlace ==
    \A t \in Tasks :
       /\ t \in Queued => state[t] = "READY" /\ t \notin Filed
       /\ t \in Filed => state[t] \in {"BLOCKED", "READY", "ZOMBIE"}
       /\ state[t] = "RUNNING" => t = current
       /\ (t = current /\ phase = "run") => state[t] \in {"RUNNING", "BLOCKED", "ZOMBIE"}

WaitersAreKnown ==
    \A t \in Tasks : state[t] \in {"READY", "BLOCKED"} => t \in Queued \cup Filed

PlaceInv == ticks > 0 /\ NoDoubleInsert /\ InPlace /\ UnderConstruction

\* The queue Schedule picks from: no repeats, and the tasks that PutBack says
\* are READY.
LEMMA RequeuedPlaces ==
    ASSUME TypeOK, PlaceInv, NEW q \in Requeued
    PROVE  /\ NoRepeats(q)
           /\ Elements(q) = Elements(queue) \cup (IF Runnable THEN {current} ELSE {})
           /\ Runnable => q # <<>>
<1>1. CASE Runnable
  <2>1. PICK p \in Gaps(queue, Charged, Charged[current]) : q = Insert(queue, p, current)
    BY <1>1 DEF Requeued
  <2>2. p \in 0..Len(queue) /\ queue \in Seq(Tasks) /\ current \in Tasks
    BY <1>1, GapPlace DEF TypeOK, Runnable
  <2>3. current \notin Elements(queue)
    BY <1>1, <2>2 DEF Runnable, PlaceInv, InPlace, Queued
  <2>4. NoRepeats(q)
    BY <2>1, <2>2, <2>3, InsertNoRepeats DEF PlaceInv, NoDoubleInsert
  <2>5. Elements(q) = Elements(queue) \cup {current}
    BY <2>1, <2>2, InsertElements
  <2>6. q # <<>>
    BY <2>1, <2>2, InsertPlaces
  <2> QED BY <1>1, <2>4, <2>5, <2>6
<1>2. CASE ~Runnable
  BY <1>2 DEF Requeued, PlaceInv, NoDoubleInsert
<1> QED BY <1>1, <1>2

\* Filing a task for sleep leaves it BLOCKED and in the wheel.
LEMMA SleepForPlaces ==
    ASSUME TypeOK, ticks > 0, NEW t \in Tasks, NEW n \in Nat, SleepFor(t, n)
    PROVE  /\ Filed' = Filed \cup {t}
           /\ sleepTick' = [sleepTick EXCEPT ![t] = ticks + n]
           /\ setAt' = [setAt EXCEPT ![t] = ticks]
           /\ \A u \in Tasks \ {t} : bucket'[u] = bucket[u]
           /\ t \in Filed => total' = total
           /\ t \notin Filed => total' = total + 1
<1> USE WheelAssumption
<1>1. /\ sleepTick' = [sleepTick EXCEPT ![t] = ticks + n]
      /\ setAt' = [setAt EXCEPT ![t] = ticks]
      /\ sleepTick'[t] = ticks + n /\ sleepTick'[t] # 0
  BY DEF SleepFor, TypeOK
<1>2. CASE t \in Filed
  BY <1>1, <1>2 DEF SleepFor, AddToSleepList, Filed
<1>3. CASE t \notin Filed
  <2>1. bucket' = [bucket EXCEPT ![t] = sleepTick'[t] % WheelSize] /\ total' = total + 1
    BY <1>1, <1>3 DEF SleepFor, AddToSleepList, Filed
  <2>2. sleepTick'[t] % WheelSize # Unfiled
    BY <1>1 DEF Unfiled, TypeOK
  <2> QED BY <1>1, <1>3, <2>1, <2>2 DEF Filed, TypeOK
<1> QED BY <1>2, <1>3

LEMMA SleepForInPlace ==
    ASSUME TypeOK, PlaceInv, NEW t \in Tasks, NEW n \in Nat, SleepFor(t, n)
    PROVE  PlaceInv'
<1> USE TasksAssumption
<1>1. Filed' = Filed \cup {t}
  BY SleepForPlaces DEF PlaceInv
<1>2. /\ phase = "run" /\ current = t /\ state' = [state EXCEPT ![t] = "BLOCKED"]
      /\ UNCHANGED <<building, queue, current, phase, ticks>>
      /\ state[t] # "ZOMBIE"
  BY DEF SleepFor, Calling, runVars, clockVars
<1>3. InPlace'
  BY <1>1, <1>2 DEF TypeOK, PlaceInv, InPlace, Queued
<1>4. UnderConstruction'
  <2>1. state[t] # "NEW"
    BY <1>2 DEF PlaceInv, InPlace
  <2>2. \A u \in Tasks : state[u] = "NEW" => state'[u] = "NEW"
    BY <1>2, <2>1 DEF TypeOK
  <2>3. \A u \in Tasks : building[u] # NoTask => building[u] \in Tasks
    BY DEF TypeOK
  <2> QED BY <1>2, <2>2, <2>3 DEF PlaceInv, UnderConstruction
<1> QED BY <1>2, <1>3, <1>4 DEF PlaceInv, NoDoubleInsert

LEMMA PlaceStep == TypeOK /\ PlaceInv /\ [Next]_vars => PlaceInv'
<1> SUFFICES ASSUME TypeOK, PlaceInv, [Next]_vars PROVE PlaceInv'
  OBVIOUS
<1> USE TasksAssumption
<1>0. /\ queue \in Seq(Tasks) /\ NoRepeats(queue)
  BY DEF TypeOK, PlaceInv, NoDoubleInsert
<1>1. ASSUME NEW t \in Tasks, NEW new \in Tasks, ConstructTask(t, new) PROVE PlaceInv'
  <2>1. /\ state[new] = "NONE" /\ building[t] = NoTask /\ phase = "run" /\ current = t
        /\ state' = [state EXCEPT ![new] = "NEW"]
        /\ building' = [building EXCEPT ![t] = new]
        /\ UNCHANGED <<queue, current, phase, bucket, ticks>>
    BY <1>1 DEF ConstructTask, Calling, wheelVars, clockVars
  <2>2. InPlace'
    BY <2>1 DEF TypeOK, PlaceInv, InPlace, Queued, Filed, Unfiled
  <2>3. \A u \in Tasks : building[u] # NoTask => building[u] \in Tasks /\ building[u] # new
    BY <2>1 DEF TypeOK, PlaceInv, UnderConstruction
  <2>4. \A u \in Tasks : building'[u] = IF u = t THEN new ELSE building[u]
    BY <2>1 DEF TypeOK
  <2>5. \A u \in Tasks : state'[u] = IF u = new THEN "NEW" ELSE state[u]
    BY <2>1 DEF TypeOK
  <2>6. UnderConstruction'
    BY <2>1, <2>3, <2>4, <2>5 DEF PlaceInv, UnderConstruction
  <2> QED BY <2>1, <2>2, <2>6 DEF PlaceInv, NoDoubleInsert
<1>2. ASSUME NEW t \in Tasks, SchedulerAddTask(t) PROVE PlaceInv'
  <2> DEFINE new == building[t]
  <2>1. new \in Tasks /\ state[new] = "NEW" /\ new \notin Elements(queue)
    BY <1>2 DEF SchedulerAddTask, TypeOK, PlaceInv, UnderConstruction,
       InPlace, Queued
  <2>2. PICK p \in Gaps(queue, vruntime, vruntime[new]) : queue' = Insert(queue, p, new)
    BY <1>2 DEF SchedulerAddTask
  <2>3. NoRepeats(queue') /\ Elements(queue') = Elements(queue) \cup {new}
    BY <1>0, <2>1, <2>2, GapPlace, InsertNoRepeats, InsertElements
  <2>4. /\ state' = [state EXCEPT ![new] = "READY"]
        /\ building' = [building EXCEPT ![t] = NoTask]
        /\ phase = "run" /\ UNCHANGED <<current, phase, bucket, ticks>>
    BY <1>2 DEF SchedulerAddTask, wheelVars, clockVars
  <2> HIDE DEF new
  <2>5. InPlace'
    BY <2>1, <2>3, <2>4 DEF TypeOK, PlaceInv, InPlace, Queued, Filed, Unfiled
  <2>6. UnderConstruction'
    BY <2>1, <2>4 DEF TypeOK, PlaceInv, UnderConstruction, new
  <2> QED BY <2>3, <2>4, <2>5, <2>6 DEF PlaceInv, NoDoubleInsert
<1>3. ASSUME NEW t \in Tasks, NEW p \in Tasks, Exit(t, p) PROVE PlaceInv'
  <2>1. /\ phase = "run" /\ current = t /\ building[t] = NoTask
        /\ \A u \in Tasks : state'[u] = IF u = t THEN "ZOMBIE"
                                        ELSE IF u = p /\ state[u] = "BLOCKED" THEN "READY"
                                        ELSE state[u]
        /\ UNCHANGED <<building, queue, current, phase, bucket, ticks>>
    BY <1>3 DEF Exit, Calling, wheelVars, clockVars
  <2>2. Filed' = Filed /\ Queued' = Queued
    BY <2>1 DEF Filed, Unfiled, Queued
  <2>3. InPlace'
    BY <2>1, <2>2 DEF PlaceInv, InPlace
  <2>4. UnderConstruction'
    <3>1. \A u \in Tasks : state[u] = "NEW" => state'[u] = "NEW"
      BY <2>1 DEF PlaceInv, InPlace
    <3>2. \A u \in Tasks : building[u] # NoTask => building[u] \in Tasks
      BY DEF TypeOK
    <3> QED BY <2>1, <3>1, <3>2 DEF PlaceInv, UnderConstruction
  <2> QED BY <2>1, <2>3, <2>4 DEF PlaceInv, NoDoubleInsert
<1>4. ASSUME UNCHANGED vars PROVE PlaceInv'
  BY <1>4 DEF vars, taskVars, runVars, wheelVars, clockVars, PlaceInv,
     NoDoubleInsert, InPlace, UnderConstruction, Queued, Filed, Unfiled
<1>6. ASSUME NEW t \in Tasks, SysSleepMS(t) \/ Sys_SleepNs(t) PROVE PlaceInv'
  BY <1>6, SleepForInPlace, TicksAreNaturals DEF SysSleepMS, Sys_SleepNs
<1>7. ASSUME NEW d \in 0..MaxGap, TimerIrq(d) PROVE PlaceInv'
  <2>1. phase' # "run" /\ ticks' > 0
    BY <1>7, ClockAssumption DEF TimerIrq, TypeOK, PlaceInv
  <2> QED BY <1>7, <2>1 DEF TimerIrq, taskVars, runVars, wheelVars, PlaceInv,
      NoDoubleInsert, InPlace, UnderConstruction, Queued, Filed, Unfiled
<1>8. ASSUME NEW t \in Tasks, WakeSleeper(t) PROVE PlaceInv'
  <2>1. t \in Filed /\ state[t] \in {"BLOCKED", "READY", "ZOMBIE"} /\ t \notin Elements(queue)
    BY <1>8, WheelAssumption DEF WakeSleeper, Due, Filed, Unfiled, TypeOK, PlaceInv,
       InPlace, Queued
  <2>2. PICK p \in Gaps(queue, vruntime, WakeVRuntime) : queue' = Insert(queue, p, t)
    BY <1>8 DEF WakeSleeper
  <2>3. NoRepeats(queue') /\ Elements(queue') = Elements(queue) \cup {t}
    BY <1>0, <2>1, <2>2, GapPlace, InsertNoRepeats, InsertElements
  <2>4. /\ state' = [state EXCEPT ![t] = "READY"]
        /\ bucket' = [bucket EXCEPT ![t] = Unfiled]
        /\ phase = "scan" /\ UNCHANGED <<building, current, phase, ticks>>
    BY <1>8 DEF WakeSleeper, clockVars
  <2>5. InPlace'
    BY <2>1, <2>3, <2>4 DEF TypeOK, PlaceInv, InPlace, Queued, Filed, Unfiled
  <2>6. UnderConstruction'
    BY <2>1, <2>4 DEF TypeOK, PlaceInv, UnderConstruction
  <2> QED BY <2>3, <2>4, <2>5, <2>6 DEF PlaceInv, NoDoubleInsert
<1>9. ASSUME NextBucket PROVE PlaceInv'
  BY <1>9 DEF NextBucket, taskVars, runVars, wheelVars, PlaceInv,
     NoDoubleInsert, InPlace, UnderConstruction, Queued, Filed, Unfiled
<1>10. ASSUME Schedule PROVE PlaceInv'
  <2>1. PICK q \in Requeued :
           /\ q # <<>> /\ queue' = Tail(q) /\ current' = Head(q)
           /\ state' = [PutBack EXCEPT ![Head(q)] = "RUNNING"]
    BY <1>10 DEF Schedule
  <2>2. /\ NoRepeats(q) /\ q \in Seq(Tasks) /\ PutBack \in [Tasks -> States]
        /\ Elements(q) = Elements(queue) \cup (IF Runnable THEN {current} ELSE {})
    BY <2>1, RequeuedPlaces, ScheduleTypes
  <2>3. /\ Head(q) \in Tasks /\ Head(q) \in Elements(q)
        /\ Elements(queue') = Elements(q) \ {Head(q)} /\ NoRepeats(queue')
    BY <2>1, <2>2, TailPlaces, TailElements
  <2>4. /\ phase' = "run" /\ UNCHANGED <<building, bucket, ticks>>
    BY <1>10 DEF Schedule, wheelVars
  <2>5. \A t \in Tasks :
           /\ PutBack[t] = IF t = current /\ Runnable THEN "READY" ELSE state[t]
           /\ t \in Elements(q) => PutBack[t] = "READY" /\ t \notin Filed
           /\ PutBack[t] # "RUNNING"
    BY <2>2 DEF PutBack, Runnable, TypeOK, PlaceInv, InPlace, Queued
  <2>6. \A t \in Tasks : state'[t] = IF t = Head(q) THEN "RUNNING" ELSE PutBack[t]
    BY <2>1, <2>2, <2>3
  <2>7. InPlace'
    <3>1. \A t \in Tasks : t \in Filed => /\ state[t] \in {"BLOCKED", "READY", "ZOMBIE"}
                                         /\ PutBack[t] = state[t]
      BY <2>5 DEF PlaceInv, InPlace, Runnable
    <3>2. Filed' = Filed
      BY <2>4 DEF Filed, Unfiled
    <3> QED BY <2>1, <2>2, <2>3, <2>4, <2>5, <2>6, <3>1, <3>2
            DEF InPlace, Queued
  <2>8. UnderConstruction'
    <3>1. \A u \in Tasks : state[u] = "NEW" => state'[u] = "NEW"
      BY <2>3, <2>5, <2>6 DEF Runnable
    <3> QED BY <2>4, <3>1 DEF TypeOK, PlaceInv, UnderConstruction
  <2> QED BY <2>3, <2>4, <2>7, <2>8 DEF PlaceInv, NoDoubleInsert
<1>11. ASSUME ScheduleIdle PROVE PlaceInv'
  <2>1. <<>> \in Requeued
    BY <1>11 DEF ScheduleIdle
  <2>2. ~Runnable
    BY <2>1, RequeuedPlaces
  <2> QED BY <1>11, <2>2 DEF ScheduleIdle, Runnable, taskVars, wheelVars, TypeOK, PlaceInv,
      NoDoubleInsert, InPlace, UnderConstruction, Queued, Filed, Unfiled
<1> QED BY <1>1, <1>2, <1>3, <1>4, <1>6, <1>7, <1>8, <1>9, <1>10, <1>11
        DEF Next, Call, Tick, Yield

\* What Schedule does to the places: the task that goes is queued if it still
\* was RUNNING, and the head of the queue is taken.
LEMMA ScheduleMoves ==
    ASSUME TypeOK, PlaceInv, Schedule
    PROVE  /\ phase = "switch" /\ Filed' = Filed /\ current' \in Tasks
           /\ current' \notin Queued' /\ current' \notin Filed
           /\ Queued \cup (IF Runnable THEN {current} ELSE {}) = Queued' \cup {current'}
           /\ \A t \in Tasks : state'[t] = IF t = current' THEN "RUNNING"
                                           ELSE IF t = current /\ Runnable THEN "READY"
                                           ELSE state[t]
<1>1. PICK q \in Requeued :
         /\ q # <<>> /\ queue' = Tail(q) /\ current' = Head(q)
         /\ state' = [PutBack EXCEPT ![Head(q)] = "RUNNING"]
  BY DEF Schedule
<1>2. /\ NoRepeats(q) /\ q \in Seq(Tasks) /\ PutBack \in [Tasks -> States]
      /\ Elements(q) = Queued \cup (IF Runnable THEN {current} ELSE {})
  BY <1>1, RequeuedPlaces, ScheduleTypes DEF Queued
<1>3. /\ Head(q) \in Tasks /\ Head(q) \in Elements(q) /\ Queued' = Elements(q) \ {Head(q)}
  BY <1>1, <1>2, TailPlaces, TailElements DEF Queued
<1>4. phase = "switch" /\ Filed' = Filed
  BY DEF Schedule, wheelVars, Filed, Unfiled
<1>5. \A t \in Tasks : PutBack[t] = IF t = current /\ Runnable THEN "READY" ELSE state[t]
  BY DEF PutBack, TypeOK
<1>6. Head(q) \notin Filed
  BY <1>2, <1>3 DEF PlaceInv, InPlace, Runnable
<1>7. \A t \in Tasks : state'[t] = IF t = Head(q) THEN "RUNNING" ELSE PutBack[t]
  BY <1>1, <1>2, <1>3
<1> QED BY <1>1, <1>2, <1>3, <1>4, <1>5, <1>6, <1>7

\* What a call does to the places.
LEMMA CallMoves ==
    ASSUME TypeOK, PlaceInv, NEW t \in Tasks, Call(t)
    PROVE  /\ UNCHANGED current /\ t = current /\ Queued \subseteq Queued' /\ Filed \subseteq Filed'
           /\ Filed' \subseteq Filed \cup {t}
           /\ \A u \in Tasks :
                 /\ u \in Queued' => u \in Queued \/ state[u] = "NEW"
                 /\ \/ state'[u] \notin {"READY", "BLOCKED"} /\ (u = t \/ state[u] = "NONE")
                    \/ state'[u] = state[u]
                    \/ state'[u] = "READY" /\ u \in Queued'
                    \/ u # t /\ state'[u] = "READY" /\ state[u] = "BLOCKED"
                    \/ u = t /\ u \in Filed'
<1> USE TasksAssumption
<1>1. ASSUME NEW new \in Tasks, ConstructTask(t, new)
      PROVE  /\ current = t
             /\ \A u \in Tasks : state'[u] = IF u = new THEN "NEW" ELSE state[u]
             /\ state[new] = "NONE" /\ UNCHANGED <<current, queue, bucket>>
  BY <1>1 DEF ConstructTask, Calling, TypeOK, wheelVars
<1>2. ASSUME SchedulerAddTask(t)
      PROVE  /\ current = t
             /\ \A u \in Tasks : state'[u] = IF u = building[t] THEN "READY" ELSE state[u]
             /\ state[building[t]] = "NEW" /\ UNCHANGED <<current, bucket>>
             /\ Queued' = Queued \cup {building[t]}
  <2>1. building[t] \in Tasks
    BY <1>2 DEF SchedulerAddTask, TypeOK
  <2>2. PICK p \in Gaps(queue, vruntime, vruntime[building[t]]) :
           queue' = Insert(queue, p, building[t])
    BY <1>2 DEF SchedulerAddTask
  <2>3. Queued' = Queued \cup {building[t]}
    BY <2>1, <2>2, GapPlace, InsertElements DEF Queued, TypeOK
  <2> QED BY <1>2, <2>1, <2>3 DEF SchedulerAddTask, TypeOK, PlaceInv, UnderConstruction, wheelVars
<1>3. ASSUME NEW p \in Tasks, Exit(t, p)
      PROVE  /\ current = t
             /\ \A u \in Tasks : state'[u] = IF u = t THEN "ZOMBIE"
                                        ELSE IF u = p /\ state[u] = "BLOCKED" THEN "READY"
                                        ELSE state[u]
             /\ UNCHANGED <<current, queue, bucket>>
  BY <1>3 DEF Exit, Calling, wheelVars
<1>4. ASSUME SysSleepMS(t) \/ Sys_SleepNs(t)
      PROVE  /\ current = t /\ UNCHANGED <<current, queue>> /\ Filed' = Filed \cup {t}
             /\ \A u \in Tasks : state'[u] = IF u = t THEN "BLOCKED" ELSE state[u]
  <2>1. PICK n \in Nat : SleepFor(t, n)
    BY <1>4, TicksAreNaturals DEF SysSleepMS, Sys_SleepNs
  <2> QED BY <2>1, SleepForPlaces DEF PlaceInv, SleepFor, Calling, runVars, TypeOK
<1>5. ASSUME Yield(t) PROVE current = t /\ UNCHANGED <<state, current, queue, bucket>>
  BY <1>5 DEF Yield, Calling, vars, taskVars, runVars, wheelVars
<1>6. ASSUME UNCHANGED bucket PROVE Filed' = Filed
  BY <1>6 DEF Filed, Unfiled
<1>7. ASSUME UNCHANGED queue PROVE Queued' = Queued
  BY <1>7 DEF Queued
<1>8. CASE \E new \in Tasks : ConstructTask(t, new)
  BY <1>1, <1>6, <1>7, <1>8
<1>9. CASE SchedulerAddTask(t)
  BY <1>2, <1>6, <1>9
<1>10. CASE \E p \in Tasks : Exit(t, p)
  BY <1>3, <1>6, <1>7, <1>10
<1>11. CASE SysSleepMS(t) \/ Sys_SleepNs(t)
  BY <1>4, <1>7, <1>11
<1>12. CASE Yield(t)
  BY <1>5, <1>6, <1>7, <1>12
<1> QED BY <1>8, <1>9, <1>10, <1>11, <1>12 DEF Call

\* What waking a sleeper does to the places.
LEMMA WakeMoves ==
    ASSUME TypeOK, PlaceInv, NEW t \in Tasks, WakeSleeper(t)
    PROVE  /\ phase = "scan" /\ UNCHANGED current /\ t \in Filed
           /\ Queued' = Queued \cup {t} /\ Filed' = Filed \ {t}
           /\ \A u \in Tasks : state'[u] = IF u = t THEN "READY" ELSE state[u]
<1>1. t \in Filed /\ Filed' = Filed \ {t}
  BY WheelAssumption DEF WakeSleeper, Due, Filed, Unfiled, TypeOK
<1>2. PICK p \in Gaps(queue, vruntime, WakeVRuntime) : queue' = Insert(queue, p, t)
  BY DEF WakeSleeper
<1>3. Queued' = Queued \cup {t}
  BY <1>2, GapPlace, InsertElements DEF Queued, TypeOK
<1> QED BY <1>1, <1>3 DEF WakeSleeper, TypeOK

\* Without Sys_Poll a task that blocks is in the wheel already, and the exit of
\* a child leaves it there.
LEMMA WaitersStep ==
    TypeOK /\ PlaceInv /\ WaitersAreKnown /\ [Next]_vars => WaitersAreKnown'
<1> SUFFICES ASSUME TypeOK, PlaceInv, WaitersAreKnown, [Next]_vars PROVE WaitersAreKnown'
  OBVIOUS
<1>1. ASSUME NEW t \in Tasks, Call(t) PROVE WaitersAreKnown'
  BY <1>1, CallMoves DEF WaitersAreKnown
<1>2. ASSUME NEW t \in Tasks, WakeSleeper(t) PROVE WaitersAreKnown'
  BY <1>2, WakeMoves DEF WaitersAreKnown
<1>3. ASSUME Schedule PROVE WaitersAreKnown'
  BY <1>3, ScheduleMoves DEF WaitersAreKnown
<1>4. ASSUME \/ UNCHANGED vars \/ NextBucket \/ ScheduleIdle
             \/ \E d \in 0..MaxGap : TimerIrq(d)
      PROVE  WaitersAreKnown'
  <2>1. UNCHANGED <<state, queue, bucket>>
    BY <1>4 DEF vars, NextBucket, ScheduleIdle, TimerIrq, wheelVars, taskVars, runVars
  <2> QED BY <2>1 DEF WaitersAreKnown, Queued, Filed, Unfiled
<1> QED BY <1>1, <1>2, <1>3, <1>4 DEF Next, Tick

-----------------------------------------------------------------------------
(* The sleep wheel.                                                         *)

WheelInv == WheelAccounting /\ WheelChecked

\* A step that leaves the wheel and the clock alone.
LEMMA WheelFrame ==
    ASSUME WheelInv, UNCHANGED <<wheelVars, clockVars>>
    PROVE  WheelInv'
  BY DEF WheelInv, WheelAccounting, WheelChecked, Filed, Unfiled, StartTick,
     wheelVars, clockVars

\* The count follows a task into the wheel and out of it.
LEMMA CountFollowsIn ==
    ASSUME WheelAccounting, NEW t \in Tasks, Filed' = Filed \cup {t},
           t \in Filed => total' = total, t \notin Filed => total' = total + 1
    PROVE  WheelAccounting'
<1>0. IsFiniteSet(Filed) /\ total = Cardinality(Filed)
  BY TasksAssumption, FS_Subset DEF Filed, WheelAccounting
<1>1. CASE t \in Filed
  <2>1. Filed' = Filed BY <1>1
  <2> QED BY <1>0, <1>1, <2>1 DEF WheelAccounting
<1>2. CASE t \notin Filed
  <2>1. Cardinality(Filed \cup {t}) = Cardinality(Filed) + 1
    BY <1>0, <1>2, FS_AddElement
  <2> QED BY <1>0, <1>2, <2>1 DEF WheelAccounting
<1> QED BY <1>1, <1>2

LEMMA CountFollowsOut ==
    ASSUME TypeOK, WheelAccounting, NEW t \in Tasks, WakeSleeper(t)
    PROVE  t \in Filed /\ Filed' = Filed \ {t} /\ WheelAccounting'
<1>0. IsFiniteSet(Filed) /\ total = Cardinality(Filed)
  BY TasksAssumption, FS_Subset DEF Filed, WheelAccounting
<1>1. t \in Filed /\ total' = total - 1 /\ bucket' = [bucket EXCEPT ![t] = Unfiled]
  BY WheelAssumption DEF WakeSleeper, Due, Filed, Unfiled, TypeOK
<1>2. Filed' = Filed \ {t}
  BY <1>1 DEF Filed, Unfiled, TypeOK
<1>3. Cardinality(Filed \ {t}) = Cardinality(Filed) - 1
  BY <1>0, <1>1, FS_RemoveElement
<1> QED BY <1>0, <1>1, <1>2, <1>3 DEF WheelAccounting

\* No step makes the count wrong.
LEMMA CountStep ==
    TypeOK /\ PlaceInv /\ WheelAccounting /\ [Next]_vars => WheelAccounting'
<1> SUFFICES ASSUME TypeOK, PlaceInv, WheelAccounting, [Next]_vars PROVE WheelAccounting'
  OBVIOUS
<1>1. ASSUME NEW t \in Tasks, SysSleepMS(t) \/ Sys_SleepNs(t) PROVE WheelAccounting'
  <2>1. PICK n \in Nat : SleepFor(t, n)
    BY <1>1, TicksAreNaturals DEF SysSleepMS, Sys_SleepNs
  <2> QED BY <2>1, SleepForPlaces, CountFollowsIn DEF PlaceInv
<1>2. ASSUME NEW t \in Tasks, WakeSleeper(t) PROVE WheelAccounting'
  BY <1>2, CountFollowsOut
<1>3. ASSUME UNCHANGED wheelVars PROVE WheelAccounting'
  BY <1>3 DEF WheelAccounting, Filed, Unfiled, wheelVars
<1>4. ASSUME NEW t \in Tasks, NEW new \in Tasks,
             ConstructTask(t, new) \/ SchedulerAddTask(t) \/ Exit(t, new)
      PROVE  WheelAccounting'
  BY <1>3, <1>4 DEF ConstructTask, SchedulerAddTask, Exit
<1>5. ASSUME \/ UNCHANGED vars \/ NextBucket \/ Schedule \/ ScheduleIdle
             \/ \E d \in 0..MaxGap : TimerIrq(d)
      PROVE  WheelAccounting'
  BY <1>3, <1>5 DEF vars, NextBucket, Schedule, ScheduleIdle, TimerIrq
<1> QED BY <1>1, <1>2, <1>4, <1>5 DEF Next, Call, Tick, Yield

LEMMA WheelStep == TypeOK /\ PlaceInv /\ WheelInv /\ [Next]_vars => WheelInv'
<1> SUFFICES ASSUME TypeOK, PlaceInv, WheelInv, [Next]_vars PROVE WheelInv'
  OBVIOUS
<1> USE TasksAssumption, WheelAssumption
<1>0. Filed \subseteq Tasks /\ IsFiniteSet(Filed) /\ total = Cardinality(Filed)
  BY FS_Subset DEF Filed, WheelInv, WheelAccounting
<1>1. ASSUME NEW t \in Tasks, NEW new \in Tasks, ConstructTask(t, new) PROVE WheelInv'
  BY <1>1, WheelFrame DEF ConstructTask
<1>2. ASSUME NEW t \in Tasks, SchedulerAddTask(t) PROVE WheelInv'
  BY <1>2, WheelFrame DEF SchedulerAddTask
<1>3. ASSUME NEW t \in Tasks, NEW p \in Tasks, Exit(t, p) PROVE WheelInv'
  BY <1>3, WheelFrame DEF Exit
<1>4. ASSUME UNCHANGED vars PROVE WheelInv'
  BY <1>4, WheelFrame DEF vars
<1>5. ASSUME NEW t \in Tasks, NEW n \in Nat, SleepFor(t, n) PROVE WheelInv'
  <2>1. /\ Filed' = Filed \cup {t}
        /\ sleepTick' = [sleepTick EXCEPT ![t] = ticks + n]
        /\ setAt' = [setAt EXCEPT ![t] = ticks]
        /\ \A u \in Tasks \ {t} : bucket'[u] = bucket[u]
        /\ t \in Filed => total' = total
        /\ t \notin Filed => total' = total + 1
    BY <1>5, SleepForPlaces DEF PlaceInv
  <2>2. phase = "run" /\ UNCHANGED <<ticks, lastChecked, phase, cursor>>
    BY <1>5 DEF SleepFor, Calling, clockVars
  <2>3. WheelAccounting'
    BY <2>1, CountFollowsIn DEF WheelInv
  <2>4. ticks' > 0 /\ phase' # "scan" /\ lastChecked' = ticks'
    BY <2>2 DEF PlaceInv, WheelInv, WheelChecked
  <2>5. ASSUME NEW u \in Filed'
        PROVE  /\ setAt'[u] <= sleepTick'[u]
               /\ \A c \in (setAt'[u] + 1)..lastChecked' :
                     c >= sleepTick'[u] => c % WheelSize # bucket'[u]
    <3>1. CASE u = t
      <4>1. setAt'[t] = ticks /\ sleepTick'[t] = ticks + n /\ lastChecked' = ticks
        BY <2>1, <2>2, <2>4 DEF TypeOK
      <4> QED BY <3>1, <4>1 DEF TypeOK
    <3>2. CASE u # t
      <4>1. u \in Filed /\ setAt'[u] = setAt[u] /\ sleepTick'[u] = sleepTick[u]
            /\ bucket'[u] = bucket[u] /\ lastChecked' = lastChecked
        BY <1>0, <2>1, <2>2, <2>5, <3>2 DEF TypeOK
      <4> QED BY <4>1 DEF WheelInv, WheelChecked
    <3> QED BY <3>1, <3>2
  <2> QED BY <2>3, <2>4, <2>5 DEF WheelInv, WheelChecked
<1>6. ASSUME NEW t \in Tasks, SysSleepMS(t) \/ Sys_SleepNs(t) PROVE WheelInv'
  BY <1>5, <1>6, TicksAreNaturals DEF SysSleepMS, Sys_SleepNs
<1>7. ASSUME NEW d \in 0..MaxGap, TimerIrq(d) PROVE WheelInv'
  <2>1. /\ phase = "run" /\ lastChecked = ticks /\ ticks' = ticks + d /\ ticks' \in Nat
        /\ ticks' > 0 /\ UNCHANGED wheelVars
    BY <1>7, ClockAssumption DEF TimerIrq, WheelInv, WheelChecked, TypeOK
  <2>2. Filed' = Filed /\ WheelAccounting'
    BY <1>0, <2>1 DEF Filed, Unfiled, WheelAccounting, wheelVars
  <2>3. CASE total = 0
    <3>1. Filed = {}
      BY <1>0, <2>3, FS_EmptySet
    <3>2. lastChecked' = ticks' /\ phase' = "switch"
      BY <1>7, <2>3 DEF TimerIrq
    <3> QED BY <2>1, <2>2, <3>1, <3>2 DEF WheelInv, WheelChecked
  <2>4. CASE total # 0 /\ ticks' <= lastChecked
    <3>1. lastChecked' = lastChecked /\ phase' = "switch" /\ ticks' = ticks
      BY <1>7, <2>1, <2>4, ClockAssumption DEF TimerIrq, TypeOK
    <3> QED BY <2>1, <2>2, <3>1 DEF WheelInv, WheelChecked, wheelVars
  <2>5. CASE total # 0 /\ ~(ticks' <= lastChecked)
    <3>1. /\ lastChecked' = lastChecked /\ phase' = "scan" /\ cursor' = StartTick(ticks')
          /\ lastChecked < ticks'
      BY <1>7, <2>1, <2>5 DEF TimerIrq, TypeOK
    <3>2. StartTick(ticks)' = StartTick(ticks') /\ StartTick(ticks') \in Int
          /\ StartTick(ticks') <= ticks'
      BY <2>1, <3>1 DEF StartTick, TypeOK
    <3>3. \A c : c \notin StartTick(ticks')..(StartTick(ticks') - 1)
      BY <3>2
    <3> QED BY <2>1, <2>2, <3>1, <3>2, <3>3 DEF WheelInv, WheelChecked, wheelVars
  <2> QED BY <2>3, <2>4, <2>5
<1>8. ASSUME NEW t \in Tasks, WakeSleeper(t) PROVE WheelInv'
  <2>1. /\ t \in Filed /\ phase = "scan" /\ total' = total - 1
        /\ bucket' = [bucket EXCEPT ![t] = Unfiled]
        /\ sleepTick' = [sleepTick EXCEPT ![t] = 0]
        /\ setAt' = [setAt EXCEPT ![t] = 0]
        /\ UNCHANGED <<ticks, lastChecked, phase, cursor>>
    BY <1>8 DEF WakeSleeper, Due, Filed, Unfiled, TypeOK, clockVars
  <2>2. Filed' = Filed \ {t} /\ WheelAccounting'
    BY <1>8, CountFollowsOut DEF WheelInv
  <2>3. \A u \in Filed' : /\ u \in Filed /\ bucket'[u] = bucket[u]
                         /\ sleepTick'[u] = sleepTick[u] /\ setAt'[u] = setAt[u]
    BY <1>0, <2>1, <2>2 DEF TypeOK
  <2>4. StartTick(ticks)' = StartTick(ticks)
    BY <2>1 DEF StartTick
  <2> QED BY <2>1, <2>2, <2>3, <2>4 DEF WheelInv, WheelChecked
<1>9. ASSUME NextBucket PROVE WheelInv'
  <2>1. /\ phase = "scan" /\ UNCHANGED wheelVars /\ ticks' = ticks
        /\ \A t \in Tasks : ~Due(t)
    BY <1>9 DEF NextBucket
  <2>2. Filed' = Filed /\ WheelAccounting'
    BY <1>0, <2>1 DEF Filed, Unfiled, WheelAccounting, wheelVars
  <2>3. /\ StartTick(ticks) \in Int /\ StartTick(ticks) <= cursor /\ cursor <= ticks
        /\ lastChecked < ticks /\ ticks > 0
    BY <2>1 DEF WheelInv, WheelChecked, StartTick, TypeOK
  <2>4. ASSUME NEW t \in Filed, sleepTick[t] <= ticks, NEW c \in StartTick(ticks)..cursor
        PROVE  c % WheelSize # bucket[t]
    <3>1. CASE c = cursor
      BY <1>0, <2>1, <2>4, <3>1 DEF Due
    <3>2. CASE c # cursor
      <4>1. c \in StartTick(ticks)..(cursor - 1)
        BY <2>3, <3>2 DEF TypeOK
      <4> QED BY <2>1, <2>4, <4>1 DEF WheelInv, WheelChecked
    <3> QED BY <3>1, <3>2
  <2>5. CASE cursor # ticks
    <3>1. cursor' = cursor + 1 /\ UNCHANGED <<phase, lastChecked>>
      BY <1>9, <2>5 DEF NextBucket
    <3>2. StartTick(ticks)' = StartTick(ticks) /\ cursor' - 1 = cursor /\ cursor' <= ticks
          /\ StartTick(ticks) <= cursor'
      BY <2>1, <2>3, <2>5, <3>1 DEF StartTick, TypeOK
    <3> QED BY <2>1, <2>2, <2>3, <2>4, <3>1, <3>2 DEF WheelInv, WheelChecked, wheelVars
  <2>6. CASE cursor = ticks
    <3>1. phase' = "switch" /\ lastChecked' = ticks
      BY <1>9, <2>6 DEF NextBucket
    <3>2. ASSUME NEW t \in Filed, NEW c \in (setAt[t] + 1)..ticks, c >= sleepTick[t]
          PROVE  c % WheelSize # bucket[t]
      <4>0. /\ setAt[t] \in Nat /\ sleepTick[t] \in Nat /\ sleepTick[t] <= ticks /\ c \in Nat
            /\ c <= ticks /\ ticks \in Nat /\ lastChecked \in Nat
        BY <1>0, <3>2 DEF TypeOK
      <4>1. CASE c <= lastChecked
        <5>1. c \in (setAt[t] + 1)..lastChecked
          BY <3>2, <4>0, <4>1
        <5> QED BY <3>2, <5>1 DEF WheelInv, WheelChecked
      <4>2. CASE c >= StartTick(ticks)
        <5>1. c \in StartTick(ticks)..cursor
          BY <2>3, <2>6, <4>0, <4>2
        <5> QED BY <2>4, <4>0, <5>1
      <4>3. CASE c > lastChecked /\ c < StartTick(ticks)
        <5>1. StartTick(ticks) = ticks - WheelSize + 1
          BY <4>0, <4>3 DEF StartTick
        <5>2. PICK x \in (ticks - WheelSize + 1)..ticks : x >= c /\ x % WheelSize = c % WheelSize
          BY <4>0, WindowVisits
        <5>3. x \in StartTick(ticks)..cursor
          BY <2>6, <5>1
        <5> QED BY <2>4, <4>0, <5>2, <5>3
      <4> QED BY <2>3, <4>0, <4>1, <4>2, <4>3
    <3> QED BY <2>1, <2>2, <2>3, <3>1, <3>2 DEF WheelInv, WheelChecked, wheelVars
  <2> QED BY <2>5, <2>6
<1>10. ASSUME Schedule \/ ScheduleIdle PROVE WheelInv'
  <2>1. /\ phase = "switch" /\ phase' = "run"
        /\ UNCHANGED <<sleepTick, bucket, total, setAt, ticks, lastChecked, cursor>>
    BY <1>10 DEF Schedule, ScheduleIdle, wheelVars
  <2> QED BY <2>1 DEF WheelInv, WheelAccounting, WheelChecked, Filed, Unfiled, StartTick
<1> QED BY <1>1, <1>2, <1>3, <1>4, <1>6, <1>7, <1>8, <1>9, <1>10
        DEF Next, Call, Tick, Yield

-----------------------------------------------------------------------------
(* The order of the run queue.                                              *)

OrderInv == NearlyInOrder /\ WokenIsUncharged

Near(q, vr) == \A i, j \in 1..Len(q) : i < j => vr[q[i]] <= vr[q[j]] + 1

LEMMA NearlyInOrderIsNear == NearlyInOrder <=> Near(queue, vruntime)
  BY VDiffIsOne DEF NearlyInOrder, Near

\* Inserting at a gap keeps a queue nearly in order, and the newcomer exceeds
\* none of the tasks behind it.
LEMMA InsertKeepsOrder ==
    ASSUME NEW q \in Seq(Tasks), NEW vr \in [Tasks -> Nat], NEW vr2 \in [Tasks -> Nat],
           NEW t \in Tasks, t \notin Elements(q),
           \A u \in Tasks \ {t} : vr2[u] = vr[u],
           NEW p \in Gaps(q, vr, vr2[t]), Near(q, vr)
    PROVE  /\ Near(Insert(q, p, t), vr2)
           /\ \A j \in (p + 2)..(Len(q) + 1) : vr2[t] <= vr2[Insert(q, p, t)[j]]
<1> DEFINE r == Insert(q, p, t)
<1>0. /\ p \in 0..Len(q) /\ (p > 0 => vr[q[p]] <= vr2[t])
      /\ (p < Len(q) => vr2[t] < vr[q[p + 1]])
  BY GapPlace
<1>1. /\ Len(r) = Len(q) + 1
      /\ \A k \in 1..(Len(q) + 1) :
            r[k] = IF k <= p THEN q[k] ELSE IF k = p + 1 THEN t ELSE q[k - 1]
  <2>1. Puts(q, p, t, Insert(q, p, t))
    BY <1>0, InsertPuts
  <2> QED BY <2>1 DEF Puts
<1> HIDE DEF r
<1>2. \A k \in 1..Len(q) : q[k] \in Tasks /\ q[k] # t /\ vr2[q[k]] = vr[q[k]] /\ vr[q[k]] \in Nat
  BY DEF Elements
<1>3. \A k \in 1..Len(q) : k <= p => vr[q[k]] <= vr2[t] + 1
  <2> SUFFICES ASSUME NEW k \in 1..Len(q), k <= p PROVE vr[q[k]] <= vr2[t] + 1
    OBVIOUS
  <2>1. p \in 1..Len(q) /\ vr[q[p]] <= vr2[t] /\ vr[q[p]] \in Nat /\ vr[q[k]] \in Nat
        /\ vr2[t] \in Nat
    BY <1>0, <1>2
  <2>2. CASE k = p
    BY <2>1, <2>2
  <2>3. CASE k < p
    <3>1. vr[q[k]] <= vr[q[p]] + 1
      BY <2>1, <2>3 DEF Near
    <3> QED BY <2>1, <3>1, SMTT(30)
  <2> QED BY <1>0, <2>2, <2>3
<1>4. \A k \in 1..Len(q) : k > p => vr2[t] <= vr[q[k]]
  <2> SUFFICES ASSUME NEW k \in 1..Len(q), k > p PROVE vr2[t] <= vr[q[k]]
    OBVIOUS
  <2>1. p + 1 \in 1..Len(q) /\ vr2[t] < vr[q[p + 1]] /\ vr[q[p + 1]] \in Nat
        /\ vr[q[k]] \in Nat /\ vr2[t] \in Nat
    BY <1>0, <1>2
  <2>2. CASE k = p + 1
    BY <2>1, <2>2
  <2>3. CASE k > p + 1
    <3>1. vr[q[p + 1]] <= vr[q[k]] + 1
      BY <2>1, <2>3 DEF Near
    <3> QED BY <2>1, <3>1, SMTT(30)
  <2> QED BY <1>0, <2>2, <2>3
<1>5. ASSUME NEW i \in 1..Len(r), NEW j \in 1..Len(r), i < j
      PROVE  vr2[r[i]] <= vr2[r[j]] + 1
  <2>1. CASE j <= p
    <3>1. i \in 1..Len(q) /\ j \in 1..Len(q) /\ r[i] = q[i] /\ r[j] = q[j]
      <4>1. PICK n \in Nat : n = Len(q)
        OBVIOUS
      <4>2. p \in 0..n /\ i \in 1..(n + 1) /\ j \in 1..(n + 1) /\ i < j /\ j <= p
        BY <1>0, <1>1, <1>5, <2>1, <4>1
      <4>3. i \in 1..n /\ j \in 1..n /\ i <= p
        BY ONLY <4>1, <4>2, SMTT(30)
      <4> QED BY <1>1, <4>1, <4>2, <4>3
    <3> QED BY <1>2, <1>5, <3>1 DEF Near
  <2>2. CASE j = p + 1
    <3>1. i \in 1..Len(q) /\ r[i] = q[i] /\ r[j] = t /\ i <= p
      BY <1>0, <1>1, <1>5, <2>2, SMTT(30)
    <3> QED BY <1>2, <1>3, <3>1
  <2>3. CASE j > p + 1 /\ i <= p
    <3>1. i \in 1..Len(q) /\ j - 1 \in 1..Len(q) /\ r[i] = q[i] /\ r[j] = q[j - 1] /\ i < j - 1
      BY <1>0, <1>1, <1>5, <2>3
    <3> QED BY <1>2, <3>1, ZenonT(30) DEF Near
  <2>4. CASE j > p + 1 /\ i = p + 1
    <3>1. j - 1 \in 1..Len(q) /\ r[i] = t /\ r[j] = q[j - 1] /\ j - 1 > p
      BY <1>0, <1>1, <1>5, <2>4
    <3>2. vr2[t] <= vr2[r[j]] /\ vr2[r[j]] \in Nat /\ vr2[t] \in Nat
      BY <1>2, <1>4, <3>1
    <3> QED BY <3>1, <3>2, SMTT(30)
  <2>5. CASE j > p + 1 /\ i > p + 1
    <3>1. /\ i - 1 \in 1..Len(q) /\ j - 1 \in 1..Len(q) /\ i - 1 < j - 1
          /\ r[i] = q[i - 1] /\ r[j] = q[j - 1]
      BY <1>0, <1>1, <1>5, <2>5
    <3> QED BY <1>2, <3>1, ZenonT(30) DEF Near
  <2> QED BY <1>0, <1>1, <2>1, <2>2, <2>3, <2>4, <2>5
<1>6. ASSUME NEW j \in (p + 2)..(Len(q) + 1) PROVE vr2[t] <= vr2[r[j]]
  <2>1. j - 1 \in 1..Len(q) /\ r[j] = q[j - 1] /\ j - 1 > p
    BY <1>0, <1>1, SMTT(30)
  <2> QED BY <1>2, <1>4, <2>1
<1> QED BY <1>5, <1>6 DEF Near, r

\* Charging keeps the queue nearly in order, also when the current task has
\* just been woken into it.
LEMMA ChargeKeepsOrder ==
    ASSUME TypeOK, OrderInv
    PROVE  Near(queue, Charged)
<1>1. CASE current = Idle
  BY <1>1, NearlyInOrderIsNear DEF Charged, OrderInv
<1>2. CASE current # Idle
  <2>1. /\ current \in Tasks
        /\ \A u \in Tasks : vruntime[u] \in Nat
                           /\ Charged[u] = IF u = current THEN vruntime[u] + 1 ELSE vruntime[u]
    BY <1>2, VDiffIsOne DEF Charged, TypeOK
  <2>2. ASSUME NEW i \in 1..Len(queue), NEW j \in 1..Len(queue), i < j
        PROVE  Charged[queue[i]] <= Charged[queue[j]] + 1
    <3>1. queue[i] \in Tasks /\ queue[j] \in Tasks
      BY SMTT(30) DEF TypeOK
    <3>2. vruntime[queue[i]] <= vruntime[queue[j]] + 1
      BY <2>2, NearlyInOrderIsNear DEF OrderInv, Near
    <3>3. queue[i] = current => vruntime[queue[i]] <= vruntime[queue[j]]
      BY <2>2 DEF OrderInv, WokenIsUncharged
    <3> QED BY <2>1, <3>1, <3>2, <3>3
  <2> QED BY <2>2 DEF Near
<1> QED BY <1>1, <1>2

\* So is the queue Schedule picks from.
LEMMA RequeuedNear ==
    ASSUME TypeOK, PlaceInv, OrderInv, NEW q \in Requeued
    PROVE  Near(q, Charged)
<1>1. CASE Runnable
  <2>1. PICK p \in Gaps(queue, Charged, Charged[current]) : q = Insert(queue, p, current)
    BY <1>1 DEF Requeued
  <2>2. queue \in Seq(Tasks) /\ current \in Tasks /\ Charged \in [Tasks -> Nat]
    BY <1>1, ScheduleTypes DEF TypeOK, Runnable
  <2>3. current \notin Elements(queue)
    BY <1>1, <2>2 DEF Runnable, PlaceInv, InPlace, Queued
  <2> QED BY <2>1, <2>2, <2>3, ChargeKeepsOrder, InsertKeepsOrder
<1>2. CASE ~Runnable
  BY <1>2, ChargeKeepsOrder DEF Requeued
<1> QED BY <1>1, <1>2

\* A step that leaves the queue, its keys and the current task alone.
LEMMA OrderFrame ==
    ASSUME OrderInv, UNCHANGED <<queue, minV, current>>,
           \A i \in 1..Len(queue) : vruntime'[queue[i]] = vruntime[queue[i]]
    PROVE  OrderInv'
<1>1. NearlyInOrder'
  BY VDiffIsOne DEF OrderInv, NearlyInOrder
<1>2. WokenIsUncharged'
  BY DEF OrderInv, WokenIsUncharged, WakeVRuntime
<1> QED BY <1>1, <1>2 DEF OrderInv

\* While the processor runs a task, it is not in the queue.
LEMMA CurrentNotQueued ==
    ASSUME TypeOK, PlaceInv, phase = "run"
    PROVE  \A i \in 1..Len(queue) : queue[i] # current /\ queue[i] \in Tasks
<1>1. \A i \in 1..Len(queue) : queue[i] \in Tasks /\ queue[i] \in Queued
  BY DEF TypeOK, Queued, Elements
<1> QED BY <1>1 DEF PlaceInv, InPlace

LEMMA OrderStep ==
    TypeOK /\ TypeOK' /\ PlaceInv /\ PlaceInv' /\ OrderInv /\ [Next]_vars => OrderInv'
<1> SUFFICES ASSUME TypeOK, TypeOK', PlaceInv, PlaceInv', OrderInv, [Next]_vars
             PROVE  OrderInv'
  OBVIOUS
<1> USE TasksAssumption
<1>0. queue \in Seq(Tasks) /\ vruntime \in [Tasks -> Nat] /\ Near(queue, vruntime)
  BY NearlyInOrderIsNear DEF TypeOK, OrderInv
<1>1. ASSUME NEW t \in Tasks, NEW new \in Tasks, ConstructTask(t, new) PROVE OrderInv'
  <2>1. /\ state[new] = "NONE" /\ vruntime' = [vruntime EXCEPT ![new] = minV]
        /\ UNCHANGED <<queue, minV, current>>
    BY <1>1 DEF ConstructTask
  <2>2. \A i \in 1..Len(queue) : queue[i] \in Tasks /\ queue[i] # new
    BY <1>0, <2>1 DEF PlaceInv, InPlace, Queued, Elements
  <2> QED BY <1>0, <2>1, <2>2, OrderFrame
<1>2. ASSUME NEW t \in Tasks, SchedulerAddTask(t) PROVE OrderInv'
  <2> DEFINE new == building[t]
  <2>1. new \in Tasks /\ state[new] = "NEW" /\ new \notin Elements(queue) /\ phase' = "run"
        /\ vruntime' = vruntime
    BY <1>2 DEF SchedulerAddTask, TypeOK, PlaceInv, UnderConstruction,
       InPlace, Queued, clockVars
  <2>2. PICK p \in Gaps(queue, vruntime, vruntime[new]) : queue' = Insert(queue, p, new)
    BY <1>2 DEF SchedulerAddTask
  <2>3. Near(queue', vruntime')
    BY <1>0, <2>1, <2>2, InsertKeepsOrder
  <2>4. NearlyInOrder'
    BY <2>3, VDiffIsOne DEF Near, NearlyInOrder
  <2>5. \A i \in 1..Len(queue') : queue'[i] # current'
    <3>1. \A i \in 1..Len(queue') : queue'[i] \in Tasks /\ queue'[i] \in Queued'
      <4>1. queue' \in Seq(Tasks) /\ Queued' = Elements(queue')
        BY DEF TypeOK, Queued
      <4> QED BY <4>1 DEF Elements
    <3> QED BY <2>1, <3>1 DEF PlaceInv, InPlace
  <2> QED BY <2>4, <2>5 DEF OrderInv, WokenIsUncharged
<1>3. ASSUME NEW t \in Tasks, NEW p \in Tasks, Exit(t, p) PROVE OrderInv'
  <2>1. /\ UNCHANGED <<queue, minV, current>>
        /\ \A u \in Tasks : ~(p # t /\ state[p] = "BLOCKED" /\ u = p) => vruntime'[u] = vruntime[u]
    BY <1>0, <1>3 DEF Exit
  <2>2. \A i \in 1..Len(queue) : queue[i] \in Tasks /\ state[queue[i]] = "READY"
    BY <1>0 DEF PlaceInv, InPlace, Queued, Elements
  <2> QED BY <2>1, <2>2, OrderFrame
<1>4. ASSUME UNCHANGED vars PROVE OrderInv'
  BY <1>4, OrderFrame DEF vars, runVars
<1>5. ASSUME NEW t \in Tasks, SysSleepMS(t) \/ Sys_SleepNs(t) PROVE OrderInv'
  BY <1>5, OrderFrame DEF SysSleepMS, Sys_SleepNs, SleepFor, runVars
<1>6. ASSUME NEW d \in 0..MaxGap, TimerIrq(d) PROVE OrderInv'
  BY <1>6, OrderFrame DEF TimerIrq, runVars
<1>7. ASSUME NEW t \in Tasks, WakeSleeper(t) PROVE OrderInv'
  <2>1. t \in Filed /\ t \notin Elements(queue)
    BY <1>7, WheelAssumption, SMTT(30) DEF WakeSleeper, Due, Filed, Unfiled, TypeOK, PlaceInv,
       InPlace, Queued
  <2>2. PICK p \in Gaps(queue, vruntime, WakeVRuntime) : queue' = Insert(queue, p, t)
    BY <1>7 DEF WakeSleeper
  <2>3. /\ WakeVRuntime \in Nat /\ WakeVRuntime' = WakeVRuntime /\ current' = current
        /\ vruntime' = [vruntime EXCEPT ![t] = WakeVRuntime]
    BY <1>7, WheelAssumption DEF WakeSleeper, WakeVRuntime, TypeOK
  <2>4. /\ vruntime' \in [Tasks -> Nat] /\ vruntime'[t] = WakeVRuntime
        /\ \A u \in Tasks \ {t} : vruntime'[u] = vruntime[u]
    BY <1>0, <2>3
  <2>5. /\ Near(queue', vruntime')
        /\ \A j \in (p + 2)..(Len(queue) + 1) : vruntime'[t] <= vruntime'[queue'[j]]
    BY <1>0, <2>1, <2>2, <2>4, InsertKeepsOrder
  <2>6. NearlyInOrder'
    BY <2>5, VDiffIsOne DEF Near, NearlyInOrder
  <2>7. /\ p \in 0..Len(queue) /\ Len(queue') = Len(queue) + 1
        /\ \A k \in 1..(Len(queue) + 1) :
              queue'[k] = IF k <= p THEN queue[k] ELSE IF k = p + 1 THEN t ELSE queue[k - 1]
    <3>1. p \in 0..Len(queue)
      BY GapPlace
    <3>2. /\ Len(Insert(queue, p, t)) = Len(queue) + 1
          /\ \A k \in 1..(Len(queue) + 1) :
                Insert(queue, p, t)[k] =
                   IF k <= p THEN queue[k] ELSE IF k = p + 1 THEN t ELSE queue[k - 1]
      <4>1. Puts(queue, p, t, Insert(queue, p, t))
        BY <1>0, <3>1, InsertPuts
      <4> QED BY <4>1 DEF Puts
    <3> QED BY <2>2, <3>1, <3>2
  <2>8. \A k \in 1..Len(queue) : queue[k] \in Tasks /\ queue[k] # t /\ vruntime'[queue[k]] = vruntime[queue[k]]
    BY <1>0, <2>1, <2>4 DEF Elements
  <2>9. ASSUME NEW i \in 1..Len(queue'), queue'[i] = current
        PROVE  /\ vruntime'[current] = WakeVRuntime
               /\ \A j \in 1..Len(queue') : i < j => vruntime'[current] <= vruntime'[queue'[j]]
    <3>1. CASE i = p + 1
      <4>1. current = t
        BY <2>7, <2>9, <3>1
      <4> QED BY <2>4, <2>5, <2>7, <3>1, <4>1
    <3>2. CASE i # p + 1
      <4> DEFINE old == IF i <= p THEN i ELSE i - 1
      <4>1. old \in 1..Len(queue) /\ queue[old] = current
        BY <2>7, <2>9, <3>2
      <4>2. /\ vruntime[current] = WakeVRuntime
            /\ \A j \in 1..Len(queue) : old < j => vruntime[current] <= vruntime[queue[j]]
        BY <4>1 DEF OrderInv, WokenIsUncharged
      <4>3. vruntime'[current] = WakeVRuntime
        BY <2>8, <4>1, <4>2
      <4>4. ASSUME NEW j \in 1..Len(queue'), i < j
            PROVE  vruntime'[current] <= vruntime'[queue'[j]]
        <5>1. CASE j = p + 1
          BY <2>3, <2>4, <2>7, <4>3, <5>1
        <5>2. CASE j # p + 1
          <6> DEFINE k == IF j <= p THEN j ELSE j - 1
          <6>1. k \in 1..Len(queue) /\ queue'[j] = queue[k] /\ old < k
            BY <2>7, <3>2, <4>4, <5>2
          <6> HIDE DEF k, old
          <6> QED BY <2>8, <4>1, <4>2, <6>1
        <5> QED BY <5>1, <5>2
      <4> QED BY <4>3, <4>4
    <3> QED BY <3>1, <3>2
  <2>10. WokenIsUncharged'
    BY <2>3, <2>9 DEF WokenIsUncharged
  <2> QED BY <2>6, <2>10 DEF OrderInv
<1>8. ASSUME NextBucket PROVE OrderInv'
  BY <1>8, OrderFrame DEF NextBucket, runVars
<1>9. ASSUME Schedule PROVE OrderInv'
  <2>1. PICK q \in Requeued : q # <<>> /\ queue' = Tail(q)
    BY <1>9 DEF Schedule
  <2>2. q \in Seq(Tasks) /\ Near(q, Charged) /\ vruntime' = Charged /\ phase' = "run"
    BY <1>9, RequeuedNear, ScheduleTypes DEF Schedule
  <2>3. /\ Len(q) \in Nat \ {0} /\ Len(queue') = Len(q) - 1
        /\ \A k \in 1..(Len(q) - 1) : queue'[k] = q[k + 1]
    BY <2>1, <2>2, TailPlaces
  <2>4. Near(queue', vruntime')
    <3> SUFFICES ASSUME NEW i \in 1..Len(queue'), NEW j \in 1..Len(queue'), i < j
                 PROVE  vruntime'[queue'[i]] <= vruntime'[queue'[j]] + 1
      BY DEF Near
    <3>1. i + 1 \in 1..Len(q) /\ j + 1 \in 1..Len(q) /\ i + 1 < j + 1
          /\ queue'[i] = q[i + 1] /\ queue'[j] = q[j + 1]
      BY <2>3
    <3> QED BY <2>2, <3>1 DEF Near
  <2>5. NearlyInOrder'
    BY <2>4, VDiffIsOne DEF Near, NearlyInOrder
  <2>6. \A i \in 1..Len(queue') : queue'[i] # current'
    <3>1. \A i \in 1..Len(queue') : queue'[i] \in Tasks /\ queue'[i] \in Queued'
      <4>1. queue' \in Seq(Tasks) /\ Queued' = Elements(queue')
        BY DEF TypeOK, Queued
      <4> QED BY <4>1 DEF Elements
    <3> QED BY <2>2, <3>1 DEF PlaceInv, InPlace
  <2> QED BY <2>5, <2>6 DEF OrderInv, WokenIsUncharged
<1>10. ASSUME ScheduleIdle PROVE OrderInv'
  <2>1. <<>> \in Requeued /\ queue' = queue
    BY <1>10 DEF ScheduleIdle
  <2>2. queue = <<>>
    BY <2>1, RequeuedPlaces DEF Requeued
  <2>3. Len(queue') = 0
    BY <2>1, <2>2
  <2> QED BY <2>3 DEF OrderInv, NearlyInOrder, WokenIsUncharged
<1> QED BY <1>1, <1>2, <1>3, <1>4, <1>5, <1>6, <1>7, <1>8, <1>9, <1>10
        DEF Next, Call, Tick, Yield

-----------------------------------------------------------------------------
(* The theorems.                                                            *)

\* They hold at the start.
LEMMA PartsInit ==
    Init => PlaceInv /\ WaitersAreKnown /\ WheelInv /\ OrderInv
<1> SUFFICES ASSUME Init PROVE PlaceInv /\ WaitersAreKnown /\ WheelInv /\ OrderInv
  OBVIOUS
<1> USE TasksAssumption, WheelAssumption, ClockAssumption
<1>1. Filed = {} /\ queue = <<>> /\ Len(queue) = 0 /\ Elements(queue) = {}
  BY DEF Init, Filed, Elements
<1>2. PlaceInv /\ WaitersAreKnown
  BY <1>1 DEF Init, WaitersAreKnown, PlaceInv, NoDoubleInsert, NoRepeats, InPlace,
     UnderConstruction, Queued
<1>3. WheelInv
  BY <1>1, FS_EmptySet DEF Init, WheelInv, WheelAccounting, WheelChecked
<1>4. OrderInv
  BY <1>1 DEF OrderInv, NearlyInOrder, WokenIsUncharged
<1> QED BY <1>2, <1>3, <1>4

\* The parts of the inductive invariant hold in every reachable state.
LEMMA Parts == Spec => [](TypeOK /\ PlaceInv /\ WaitersAreKnown /\ WheelInv /\ OrderInv)
<1>1. TypeOK /\ TypeOK' /\ PlaceInv /\ WaitersAreKnown /\ WheelInv /\ OrderInv /\ [Next]_vars
         => PlaceInv' /\ WaitersAreKnown' /\ WheelInv' /\ OrderInv'
  BY PlaceStep, WaitersStep, WheelStep, OrderStep
<1> QED BY <1>1, PartsInit, TypeCorrect, PTL DEF Spec

\* The inductive invariant, whole: what SchedulerTick, the sleep calls and task
\* creation leave true at every step, the middle of the wheel loop included.
THEOREM Invariance == Spec => []IInv
<1>1. TypeOK /\ PlaceInv /\ WaitersAreKnown /\ WheelInv /\ OrderInv => IInv
  BY DEF PlaceInv, InPlace, WaitersAreKnown, WheelInv, OrderInv, IInv, EveryTaskIsFindable
<1> QED BY <1>1, Parts, PTL

\* No CFSEnqueue ever meets a task that is already in the tree, and every task
\* is where its state says: READY when queued, in the queue or the wheel when
\* READY or BLOCKED, on the processor when RUNNING, also after the exit of a
\* child has changed the state of a sleeping parent.
THEOREM TasksAreFindable == Spec => [](NoDoubleInsert /\ EveryTaskIsFindable)
<1>1. PlaceInv /\ WaitersAreKnown => NoDoubleInsert /\ EveryTaskIsFindable
  BY DEF PlaceInv, InPlace, WaitersAreKnown, EveryTaskIsFindable
<1> QED BY <1>1, Parts, PTL

\* TotalSleepingTasks counts the sleepers, so CheckSleepingTasks never skips a
\* wheel that holds one.
THEOREM TotalIsExact == Spec => []WheelAccounting
<1>1. WheelInv => WheelAccounting
  BY DEF WheelInv
<1> QED BY <1>1, Parts, PTL

\* A sleeper filed under its own SleepTick wakes in the timer interrupt that
\* reaches it, and none sleeps a full turn of the wheel past its SleepTick,
\* whatever the wheel size and however long the gaps between interrupts.
THEOREM SleepersWakeInTime == Spec => []WokenInTime
<1>1. TypeOK /\ WheelInv => WokenInTime
  <2> SUFFICES ASSUME TypeOK, WheelInv, phase = "run", NEW t \in Filed
               PROVE  /\ (bucket[t] = sleepTick[t] % WheelSize /\ sleepTick[t] > setAt[t])
                             => ticks < sleepTick[t]
                      /\ ticks < sleepTick[t] + WheelSize
    BY DEF WokenInTime
  <2> USE WheelAssumption
  <2>1. /\ ticks \in Nat /\ sleepTick[t] \in Nat /\ setAt[t] \in Nat
        /\ bucket[t] \in 0..(WheelSize - 1)
    BY DEF TypeOK, Filed, Unfiled
  <2>2. /\ setAt[t] <= sleepTick[t]
        /\ \A c \in (setAt[t] + 1)..ticks : c >= sleepTick[t] => c % WheelSize # bucket[t]
    BY DEF WheelInv, WheelChecked
  <2>3. ASSUME bucket[t] = sleepTick[t] % WheelSize, sleepTick[t] > setAt[t]
        PROVE  ticks < sleepTick[t]
    BY <2>1, <2>2, <2>3
  <2>4. ASSUME ticks >= sleepTick[t] + WheelSize PROVE FALSE
    <3> DEFINE n == sleepTick[t] + WheelSize
               b == bucket[t]
    <3>1. n \in Nat /\ b \in Nat /\ b <= n
      BY <2>1
    <3>2. b % WheelSize = b
      BY <2>1
    <3>3. PICK x \in (n - WheelSize + 1)..n : x % WheelSize = b % WheelSize
      <4> HIDE DEF n, b
      <4> QED BY <3>1, WindowVisits
    <3>4. x \in (setAt[t] + 1)..ticks /\ x >= sleepTick[t]
      BY <2>1, <2>2, <2>4
    <3> QED BY <2>2, <3>2, <3>3, <3>4
  <2> QED BY <2>1, <2>3, <2>4
<1> QED BY <1>1, Parts, PTL

\* The run queue is in order up to one tick's charge.
THEOREM QueueNearlyInOrder == Spec => []NearlyInOrder
<1>1. OrderInv => NearlyInOrder
  BY DEF OrderInv
<1> QED BY <1>1, Parts, PTL

\* MinVRuntime never decreases, and when Schedule advances it no queued task is
\* more than one tick's charge behind it.
THEOREM MinVRuntimeIsAFloor == Spec => MinVRuntimeAdvances
<1> DEFINE Good == /\ minV' >= minV
                   /\ minV' > minV =>
                         \A t \in Elements(queue') : minV' <= vruntime'[t] + VDiff
<1>1. TypeOK /\ PlaceInv /\ OrderInv /\ [Next]_vars => [Good]_vars
  <2> SUFFICES ASSUME TypeOK, PlaceInv, OrderInv, Next PROVE Good
    OBVIOUS
  <2>1. minV \in Nat
    BY DEF TypeOK
  <2>2. CASE Schedule
    <3>1. PICK q \in Requeued :
             /\ q # <<>> /\ queue' = Tail(q)
             /\ minV' = IF Charged[Head(q)] > minV THEN Charged[Head(q)] ELSE minV
      BY <2>2 DEF Schedule
    <3>2. /\ q \in Seq(Tasks) /\ Near(q, Charged) /\ vruntime' = Charged
          /\ Charged \in [Tasks -> Nat]
      BY <2>2, RequeuedNear, ScheduleTypes DEF Schedule
    <3>3. /\ Head(q) = q[1] /\ Len(q) \in Nat \ {0} /\ Len(queue') = Len(q) - 1
          /\ \A k \in 1..(Len(q) - 1) : queue'[k] = q[k + 1]
      BY <3>1, <3>2, TailPlaces
    <3>4. q[1] \in Tasks /\ Charged[q[1]] \in Nat
      BY <3>2, <3>3
    <3>5. minV' >= minV
      BY <2>1, <3>1, <3>3, <3>4
    <3>6. ASSUME minV' > minV, NEW t \in Elements(queue') PROVE minV' <= vruntime'[t] + VDiff
      <4>1. minV' = Charged[q[1]]
        BY <2>1, <3>1, <3>3, <3>4, <3>6
      <4>2. PICK k \in 1..(Len(q) - 1) : t = queue'[k]
        BY <3>3, <3>6 DEF Elements
      <4>3. k + 1 \in 1..Len(q) /\ 1 \in 1..Len(q) /\ 1 < k + 1 /\ t = q[k + 1]
        BY <3>3, <4>2
      <4>4. Charged[q[1]] <= Charged[q[k + 1]] + 1
        BY <3>2, <4>3 DEF Near
      <4> QED BY <3>2, <4>1, <4>3, <4>4, VDiffIsOne
    <3> QED BY <3>5, <3>6
  <2>3. CASE ~Schedule
    <3>1. minV' = minV
      BY <2>3 DEF Next, Call, Tick, ConstructTask, SchedulerAddTask, Exit, Yield, SysSleepMS,
         Sys_SleepNs, SleepFor, TimerIrq, WakeSleeper, NextBucket, ScheduleIdle, runVars, vars
    <3> QED BY <2>1, <3>1
  <2> QED BY <2>2, <2>3
<1>2. Spec => [][Good]_vars
  BY <1>1, Parts, PTL DEF Spec
<1> QED BY <1>2 DEF MinVRuntimeAdvances

\* A task that has exited and is not in the wheel stays a ZOMBIE: it is in no
\* list that SchedulerTick or Schedule takes tasks from.
THEOREM ExitsAreFinal == Spec => ExitIsFinalOutsideWheel
<1> DEFINE Final == \A t \in Tasks : state[t] = "ZOMBIE" /\ t \notin Filed => state'[t] = "ZOMBIE"
<1>1. TypeOK /\ PlaceInv /\ [Next]_vars => [Final]_vars
  <2> SUFFICES ASSUME TypeOK, PlaceInv, Next, NEW z \in Tasks, state[z] = "ZOMBIE", z \notin Filed
               PROVE  state'[z] = "ZOMBIE"
    OBVIOUS
  <2>1. z \notin Elements(queue)
    BY DEF PlaceInv, InPlace, Queued
  <2>2. ASSUME NEW t \in Tasks, Call(t) PROVE state'[z] = "ZOMBIE"
    BY <2>2 DEF Call, ConstructTask, SchedulerAddTask, Exit, Yield, SysSleepMS, Sys_SleepNs,
       SleepFor, Calling, vars, taskVars, TypeOK, PlaceInv, UnderConstruction
  <2>3. ASSUME NEW t \in Tasks, WakeSleeper(t) PROVE state'[z] = "ZOMBIE"
    <3>1. t \in Filed
      BY <2>3, WheelAssumption DEF WakeSleeper, Due, Filed, Unfiled, TypeOK
    <3> QED BY <2>3, <3>1 DEF WakeSleeper, TypeOK
  <2>4. CASE Schedule
    <3>1. PICK q \in Requeued :
             /\ q # <<>> /\ state' = [PutBack EXCEPT ![Head(q)] = "RUNNING"]
      BY <2>4 DEF Schedule
    <3>2. /\ q \in Seq(Tasks) /\ NoRepeats(q) /\ PutBack \in [Tasks -> States]
          /\ Elements(q) = Elements(queue) \cup (IF Runnable THEN {current} ELSE {})
      BY <3>1, RequeuedPlaces, ScheduleTypes
    <3>3. Head(q) \in Elements(q)
      BY <3>1, <3>2, TailElements
    <3>4. Head(q) # z /\ PutBack[z] = "ZOMBIE"
      BY <2>1, <3>2, <3>3 DEF PutBack, Runnable, TypeOK
    <3> QED BY <3>1, <3>2, <3>4
  <2>5. CASE NextBucket \/ ScheduleIdle \/ \E d \in 0..MaxGap : TimerIrq(d)
    BY <2>5 DEF NextBucket, ScheduleIdle, TimerIrq, taskVars
  <2> QED BY <2>2, <2>3, <2>4, <2>5 DEF Next, Tick
<1>2. Spec => [][Final]_vars
  BY <1>1, Parts, PTL DEF Spec
<1> QED BY <1>2, PTL DEF ExitIsFinalOutsideWheel

-----------------------------------------------------------------------------
(* The scheduler implements the dispatcher that its clients rely on.        *)

\* The effect of every step that enters a task into the queue.
LEMMA EnqueueMaps ==
    ASSUME TypeOK, PlaceInv, NEW t \in Tasks, t \notin Elements(queue),
           NEW p \in 0..Len(queue), queue' = Insert(queue, p, t)
    PROVE  Dispatcher!CFSEnqueue(t)
<1>1. Queued' = Queued \cup {t}
  BY InsertElements DEF TypeOK, Queued
<1>2. FALSE = (t \in Queued)
  BY DEF Queued
<1> QED BY <1>1, <1>2 DEF Dispatcher!CFSEnqueue

\* The queue Schedule picks from holds the dispatcher's candidates.
LEMMA RequeuedMaps ==
    ASSUME TypeOK, PlaceInv, NEW q \in Requeued
    PROVE  /\ Elements(q) = Dispatcher!Candidates
           /\ PutBack = Dispatcher!Outgoing
           /\ (Dispatcher!GivesUp /\ current \in Queued) = FALSE
<1>1. Runnable <=> Dispatcher!GivesUp
  BY TasksAssumption DEF Runnable, Dispatcher!GivesUp, TypeOK
<1>2. Elements(q) = Queued \cup (IF Runnable THEN {current} ELSE {})
  BY RequeuedPlaces DEF Queued
<1>3. Elements(q) = Dispatcher!Candidates
  BY <1>1, <1>2 DEF Dispatcher!Candidates
<1>4. PutBack = Dispatcher!Outgoing
  BY <1>1 DEF PutBack, Dispatcher!Outgoing
<1>5. ~(Dispatcher!GivesUp /\ current \in Queued)
  BY DEF Dispatcher!GivesUp, PlaceInv, InPlace
<1> QED BY <1>3, <1>4, <1>5

\* Every step of the scheduler is a step of the dispatcher or none.
LEMMA DispatchStep ==
    TypeOK /\ PlaceInv /\ [Next]_vars => [Dispatcher!DispatchNext]_(Dispatcher!dispatchVars)
<1> SUFFICES ASSUME TypeOK, PlaceInv, [Next]_vars
             PROVE  Dispatcher!DispatchNext \/ UNCHANGED <<state, current, Queued>>
  BY DEF Dispatcher!dispatchVars
<1> USE TasksAssumption
<1>1. ASSUME NEW t \in Tasks, NEW new \in Tasks, ConstructTask(t, new)
      PROVE  Dispatcher!DispatchNext
  <2>1. Dispatcher!Create(new)
    BY <1>1 DEF ConstructTask, Dispatcher!Create, Queued
  <2> QED BY <2>1 DEF Dispatcher!DispatchNext
<1>2. ASSUME NEW t \in Tasks, SchedulerAddTask(t) PROVE Dispatcher!DispatchNext
  <2> DEFINE new == building[t]
  <2>1. new \in Tasks /\ state[new] = "NEW" /\ new \notin Elements(queue)
    BY <1>2 DEF SchedulerAddTask, TypeOK, PlaceInv, UnderConstruction,
       InPlace, Queued
  <2>2. PICK p \in Gaps(queue, vruntime, vruntime[new]) : queue' = Insert(queue, p, new)
    BY <1>2 DEF SchedulerAddTask
  <2>3. state' = [state EXCEPT ![new] = "READY"] /\ current' = current
    BY <1>2 DEF SchedulerAddTask
  <2> HIDE DEF new
  <2>4. Dispatcher!CFSEnqueue(new)
    BY <2>1, <2>2, GapPlace, EnqueueMaps
  <2>5. Dispatcher!Admit(new)
    BY <2>1, <2>3, <2>4 DEF Dispatcher!Admit
  <2> QED BY <2>1, <2>5 DEF Dispatcher!DispatchNext
<1>3. ASSUME NEW t \in Tasks, NEW p \in Tasks, Exit(t, p) PROVE Dispatcher!DispatchNext
  <2>1. Dispatcher!Finish(t, p)
    BY <1>3 DEF Exit, Calling, Dispatcher!Finish, Dispatcher!Running, Queued
  <2> QED BY <2>1 DEF Dispatcher!DispatchNext
<1>4. ASSUME NEW t \in Tasks, SysSleepMS(t) \/ Sys_SleepNs(t) PROVE Dispatcher!DispatchNext
  <2>1. Dispatcher!Block(t)
    BY <1>4 DEF SysSleepMS, Sys_SleepNs, SleepFor, Calling, runVars, Dispatcher!Block,
       Dispatcher!Running, Queued
  <2> QED BY <2>1 DEF Dispatcher!DispatchNext
<1>5. ASSUME NEW t \in Tasks, WakeSleeper(t) PROVE Dispatcher!DispatchNext
  <2>1. t \notin Elements(queue)
    <3>1. t \in Filed
      BY <1>5, WheelAssumption DEF WakeSleeper, Due, Filed, Unfiled, TypeOK
    <3> QED BY <3>1 DEF PlaceInv, InPlace, Queued
  <2>2. PICK p \in Gaps(queue, vruntime, WakeVRuntime) : queue' = Insert(queue, p, t)
    BY <1>5 DEF WakeSleeper
  <2>3. Dispatcher!CFSEnqueue(t)
    BY <2>1, <2>2, GapPlace, EnqueueMaps
  <2>4. Dispatcher!Wake(t)
    BY <1>5, <2>3 DEF WakeSleeper, Dispatcher!Wake
  <2> QED BY <2>4 DEF Dispatcher!DispatchNext
<1>6. ASSUME Schedule PROVE Dispatcher!DispatchNext
  <2>1. PICK q \in Requeued :
           /\ q # <<>> /\ queue' = Tail(q) /\ current' = Head(q)
           /\ state' = [PutBack EXCEPT ![Head(q)] = "RUNNING"]
    BY <1>6 DEF Schedule
  <2>2. q \in Seq(Tasks) /\ NoRepeats(q)
    BY RequeuedPlaces, ScheduleTypes
  <2>3. /\ Head(q) \in Tasks /\ Head(q) \in Elements(q)
        /\ Queued' = Elements(q) \ {Head(q)}
    BY <2>1, <2>2, TailPlaces, TailElements DEF Queued
  <2>4. Dispatcher!SwitchTo(Head(q))
    BY <2>1, <2>3, RequeuedMaps DEF Dispatcher!SwitchTo
  <2> QED BY <2>3, <2>4 DEF Dispatcher!DispatchNext, Dispatcher!Switch
<1>7. ASSUME ScheduleIdle PROVE Dispatcher!DispatchNext
  <2>1. Elements(<<>>) = Dispatcher!Candidates
    BY <1>7, RequeuedMaps DEF ScheduleIdle
  <2>2. Elements(<<>>) = {}
    BY DEF Elements
  <2>3. Dispatcher!SwitchToIdle
    BY <1>7, <2>1, <2>2 DEF ScheduleIdle, taskVars, Queued, Dispatcher!SwitchToIdle
  <2> QED BY <2>3 DEF Dispatcher!DispatchNext, Dispatcher!Switch
<1>8. ASSUME UNCHANGED <<taskVars, runVars>> PROVE UNCHANGED <<state, current, Queued>>
  BY <1>8 DEF taskVars, runVars, Queued
<1>9. ASSUME NEW t \in Tasks, Yield(t) PROVE UNCHANGED <<taskVars, runVars>>
  BY <1>9 DEF Yield, vars
<1>10. ASSUME NEW d \in 0..MaxGap, TimerIrq(d) PROVE UNCHANGED <<taskVars, runVars>>
  BY <1>10 DEF TimerIrq
<1>11. ASSUME NextBucket PROVE UNCHANGED <<taskVars, runVars>>
  BY <1>11 DEF NextBucket
<1>12. ASSUME UNCHANGED vars PROVE UNCHANGED <<taskVars, runVars>>
  BY <1>12 DEF vars
<1> QED BY <1>1, <1>2, <1>3, <1>4, <1>5, <1>6, <1>7, <1>8, <1>9, <1>10, <1>11, <1>12
        DEF Next, Call, Tick

\* The whole of Scheduler implements Dispatch: every client that is checked
\* against Dispatch (mutexes, threaded interrupts, pipes, fork and wait) may
\* assume of the real dispatcher no more and no less than that.
THEOREM SchedulerIsADispatcher == Spec => ImplementsDispatch
<1>1. Init => Dispatcher!DispatchInit
  <2> SUFFICES ASSUME Init PROVE Dispatcher!DispatchInit
    OBVIOUS
  <2>1. Queued = {}
    BY DEF Init, Queued, Elements
  <2> QED BY <2>1 DEF Init, Dispatcher!DispatchInit
<1> QED BY <1>1, DispatchStep, Parts, PTL DEF Spec, ImplementsDispatch, Dispatcher!DispatchSpec

-----------------------------------------------------------------------------
(* Sys_Poll, inside which the timer may fire.                               *)

\* What is left of the invariant when the timer may fire between the steps of
\* Sys_Poll: a poller may be stranded and a late filing may be in a bucket that
\* has been checked, but the places, the count and the order stand.  They rest
\* on where a task is in the loop: one about to file itself with a SleepTick has
\* not been queued since it marked itself BLOCKED, and if the exit of a child
\* has made it READY it is not the one on the processor.
FilesBlocked ==
    \A t \in Tasks : pc[t] = "file" /\ sleepTick[t] # 0 =>
       t \notin Queued /\ (state[t] = "BLOCKED" \/ (state[t] = "READY" /\ t # current))

\* Where the tasks are that are in no list, and that they stay in none.
Adrift ==
    \A t \in Tasks :
       /\ state[t] = "READY" => t \in Queued \cup Filed \cup stranded
       /\ state[t] = "BLOCKED" => t \in Filed \cup stranded \cup {current}
       /\ t \in stranded => t \notin Queued \cup Filed \cup {current}
                            /\ state[t] \in {"READY", "BLOCKED"}

PollInv ==
    /\ TypeOK /\ pc \in [Tasks -> {"user", "loop", "block", "file"}]
    /\ PlaceInv /\ WheelAccounting /\ OrderInv /\ FilesBlocked /\ Adrift

\* The scheduler's own steps, taken while tasks are inside Sys_Poll.
LEMMA FilesBlockedStep ==
    ASSUME PollInv, UNCHANGED pc,
           (\E t \in Tasks : pc[t] = "user" /\ Call(t)) \/ Tick
    PROVE  FilesBlocked'
<1> USE TasksAssumption
<1> DEFINE Files(u) == u \notin Queued /\ (state[u] = "BLOCKED" \/ (state[u] = "READY" /\ u # current))
<1>0. SUFFICES ASSUME NEW u \in Tasks, pc[u] = "file", sleepTick'[u] # 0
               PROVE  Files(u)'
  BY DEF FilesBlocked
<1>1. ASSUME sleepTick[u] # 0 PROVE Files(u)
  BY <1>0, <1>1 DEF PollInv, FilesBlocked
<1>2. ASSUME NEW t \in Tasks, pc[t] = "user", Call(t) PROVE Files(u)'
  <2>0. t # u
    BY <1>0, <1>2
  <2>1. sleepTick'[u] = sleepTick[u]
    BY <1>2, <2>0 DEF Call, ConstructTask, SchedulerAddTask, Exit, Yield, SysSleepMS, Sys_SleepNs,
       SleepFor, vars, wheelVars, PollInv, TypeOK
  <2>2. Files(u)
    BY <1>0, <1>1, <2>1
  <2> QED BY <1>2, <2>0, <2>2, CallMoves DEF PollInv
<1>3. ASSUME NEW t \in Tasks, WakeSleeper(t) PROVE Files(u)'
  <2>1. sleepTick' = [sleepTick EXCEPT ![t] = 0]
    BY <1>3 DEF WakeSleeper
  <2>2. t # u /\ Files(u)
    BY <1>0, <1>1, <2>1 DEF PollInv, TypeOK
  <2> QED BY <1>3, <2>2, WakeMoves DEF PollInv
<1>4. ASSUME Schedule PROVE Files(u)'
  <2>1. Files(u)
    BY <1>0, <1>1, <1>4 DEF Schedule, wheelVars
  <2> QED BY <1>4, <2>1, ScheduleMoves DEF PollInv, Runnable
<1>5. ASSUME NextBucket \/ ScheduleIdle \/ \E d \in 0..MaxGap : TimerIrq(d)
      PROVE  Files(u)'
  <2>1. UNCHANGED <<sleepTick, state, queue>> /\ (current' = current \/ current' = Idle)
    BY <1>5 DEF NextBucket, ScheduleIdle, TimerIrq, wheelVars, taskVars, runVars
  <2>2. Files(u) /\ Queued' = Queued
    BY <1>0, <1>1, <2>1 DEF Queued
  <2> QED BY <2>1, <2>2
<1> QED BY <1>2, <1>3, <1>4, <1>5 DEF Tick

\* A call moves no task that is adrift.
LEMMA AdriftCall ==
    ASSUME PollInv, UNCHANGED stranded, NEW t \in Tasks, Call(t)
    PROVE  Adrift'
<1> SUFFICES ASSUME NEW u \in Tasks
             PROVE  /\ state'[u] = "READY" => u \in Queued' \cup Filed' \cup stranded
                    /\ state'[u] = "BLOCKED" => u \in Filed' \cup stranded \cup {current'}
                    /\ u \in stranded => u \notin Queued' \cup Filed' \cup {current'}
                                         /\ state'[u] \in {"READY", "BLOCKED"}
  BY DEF Adrift
<1>1. /\ UNCHANGED current /\ t = current /\ Queued \subseteq Queued' /\ Filed \subseteq Filed'
      /\ Filed' \subseteq Filed \cup {t}
      /\ u \in Queued' => u \in Queued \/ state[u] = "NEW"
      /\ \/ state'[u] \notin {"READY", "BLOCKED"} /\ (u = t \/ state[u] = "NONE")
         \/ state'[u] = state[u]
         \/ state'[u] = "READY" /\ u \in Queued'
         \/ u # t /\ state'[u] = "READY" /\ state[u] = "BLOCKED"
         \/ u = t /\ u \in Filed'
  BY CallMoves DEF PollInv
<1>2. /\ state[u] = "READY" => u \in Queued \cup Filed \cup stranded
      /\ state[u] = "BLOCKED" => u \in Filed \cup stranded \cup {current}
      /\ u \in stranded => u \notin Queued \cup Filed \cup {current}
                           /\ state[u] \in {"READY", "BLOCKED"}
  BY DEF PollInv, Adrift
<1> QED BY <1>1, <1>2

\* Only Schedule strands, and only the task that it takes the processor from.
LEMMA AdriftTick ==
    ASSUME PollInv, PollTick
    PROVE  Adrift'
<1> USE TasksAssumption
<1>0. TypeOK /\ PlaceInv /\ Adrift /\ Tick
  BY DEF PollInv, PollTick
<1>1. ASSUME phase # "switch" PROVE stranded' = stranded
  BY <1>1 DEF PollTick
<1>2. ASSUME phase = "switch"
      PROVE  \A t : t \in stranded' <=> \/ t \in stranded
                                         \/ /\ t \in Tasks /\ t = current
                                            /\ state[t] = "BLOCKED" /\ t \notin Filed
  BY <1>2 DEF PollTick
<1>3. ASSUME NEW t \in Tasks, WakeSleeper(t) PROVE Adrift'
  <2>1. stranded' = stranded
    BY <1>1, <1>3 DEF WakeSleeper
  <2> QED BY <1>0, <1>3, <2>1, WakeMoves DEF Adrift
<1>4. ASSUME Schedule PROVE Adrift'
  <2>1. /\ phase = "switch" /\ Filed' = Filed /\ current' \in Tasks
        /\ current' \notin Queued' /\ current' \notin Filed
        /\ Queued \cup (IF Runnable THEN {current} ELSE {}) = Queued' \cup {current'}
        /\ \A t \in Tasks : state'[t] = IF t = current' THEN "RUNNING"
                                        ELSE IF t = current /\ Runnable THEN "READY"
                                        ELSE state[t]
    BY <1>0, <1>4, ScheduleMoves
  <2>2. Runnable => state[current] = "RUNNING"
    BY DEF Runnable
  <2>3. \A t \in Tasks : t \in Queued => state[t] = "READY"
    BY <1>0 DEF PlaceInv, InPlace
  <2> SUFFICES ASSUME NEW u \in Tasks
               PROVE  /\ state'[u] = "READY" => u \in Queued' \cup Filed' \cup stranded'
                      /\ state'[u] = "BLOCKED" => u \in Filed' \cup stranded' \cup {current'}
                      /\ u \in stranded' => u \notin Queued' \cup Filed' \cup {current'}
                                            /\ state'[u] \in {"READY", "BLOCKED"}
    BY DEF Adrift
  <2>4. u \in stranded' <=> u \in stranded \/ (u = current /\ state[u] = "BLOCKED" /\ u \notin Filed)
    BY <1>2, <2>1
  <2>5. /\ state[u] = "READY" => u \in Queued \cup Filed \cup stranded
        /\ state[u] = "BLOCKED" => u \in Filed \cup stranded \cup {current}
        /\ u \in stranded => u \notin Queued \cup Filed \cup {current}
                             /\ state[u] \in {"READY", "BLOCKED"}
    BY <1>0 DEF Adrift
  <2> QED BY <2>1, <2>2, <2>3, <2>4, <2>5
<1>5. ASSUME ScheduleIdle PROVE Adrift'
  <2>1. <<>> \in Requeued /\ phase = "switch" /\ current' = Idle
        /\ UNCHANGED <<state, queue, bucket>>
    BY <1>5 DEF ScheduleIdle, taskVars, wheelVars
  <2>2. Queued' = Queued /\ Filed' = Filed
    BY <2>1 DEF Queued, Filed, Unfiled
  <2>3. \A t \in Tasks : t \in Queued => state[t] = "READY"
    BY <1>0 DEF PlaceInv, InPlace
  <2> QED BY <1>0, <1>2, <2>1, <2>2, <2>3 DEF Adrift
<1>6. ASSUME NextBucket \/ \E d \in 0..MaxGap : TimerIrq(d) PROVE Adrift'
  <2>1. phase # "switch" /\ UNCHANGED <<state, queue, bucket, current>>
    BY <1>6 DEF NextBucket, TimerIrq, taskVars, runVars, wheelVars
  <2>2. Queued' = Queued /\ Filed' = Filed /\ stranded' = stranded
    BY <1>1, <2>1 DEF Queued, Filed, Unfiled
  <2> QED BY <1>0, <2>1, <2>2 DEF Adrift
<1> QED BY <1>0, <1>3, <1>4, <1>5, <1>6 DEF Tick

\* The steps of Sys_Poll leave the stranded tasks alone as well.
LEMMA AdriftFrame ==
    ASSUME PollInv, UNCHANGED <<queue, current, stranded>>, NEW t \in Tasks, t = current,
           Filed \subseteq Filed', Filed' \subseteq Filed \cup {t},
           state' = state \/ state' = [state EXCEPT ![t] = "BLOCKED"]
    PROVE  Adrift'
<1>1. Queued' = Queued
  BY DEF Queued
<1>2. \A u \in Tasks : state'[u] = state[u] \/ (u = t /\ state'[u] = "BLOCKED")
  BY DEF PollInv, TypeOK
<1> QED BY <1>1, <1>2 DEF PollInv, Adrift

\* The steps of Sys_Poll.
LEMMA PollStep ==
    ASSUME PollInv, NEW t \in Tasks, Sys_Poll(t) \/ PollReturn(t) \/ PollSetTick(t) \/
                                    PollBlock(t) \/ PollFile(t)
    PROVE  PollInv'
<1> USE TasksAssumption
<1>0. TypeOK /\ PlaceInv /\ WheelAccounting /\ OrderInv /\ FilesBlocked /\ ticks > 0
      /\ pc \in [Tasks -> {"user", "loop", "block", "file"}]
  BY DEF PollInv, PlaceInv
<1>a. current = t /\ UNCHANGED <<queue, current, stranded>>
  BY DEF Sys_Poll, PollReturn, PollSetTick, PollBlock, PollFile, InPoll, SleepFor, Calling, vars,
     runVars
<1>b. ASSUME UNCHANGED bucket PROVE Filed \subseteq Filed' /\ Filed' \subseteq Filed \cup {t}
  BY <1>b DEF Filed, Unfiled
<1>1. CASE Sys_Poll(t)
  <2>1. SleepFor(t, 1) /\ pc' = [pc EXCEPT ![t] = "loop"] /\ UNCHANGED runVars
    BY <1>1 DEF Sys_Poll, SleepFor
  <2>2. TypeOK' /\ PlaceInv'
    BY <1>0, <2>1, SleepForTypes, SleepForInPlace
  <2>3. WheelAccounting'
    BY <1>0, <2>1, SleepForPlaces, CountFollowsIn
  <2>4. OrderInv'
    BY <1>0, <2>1, OrderFrame DEF runVars
  <2>5. FilesBlocked'
    BY <1>0, <1>a, <2>1 DEF SleepFor, FilesBlocked, TypeOK, Queued
  <2>6. Adrift'
    <3>1. Filed' = Filed \cup {t} /\ state' = [state EXCEPT ![t] = "BLOCKED"]
      BY <1>0, <2>1, SleepForPlaces DEF SleepFor
    <3> QED BY <1>a, <3>1, AdriftFrame
  <2> QED BY <1>0, <2>1, <2>2, <2>3, <2>4, <2>5, <2>6 DEF PollInv
<1>2. CASE PollReturn(t)
  <2>1. /\ UNCHANGED <<state, building, queue, vruntime, minV, current, sleepTick, bucket,
                       total, setAt, ticks, lastChecked, phase, cursor>>
        /\ pc' = [pc EXCEPT ![t] = "user"]
    BY <1>2 DEF PollReturn, vars, taskVars, runVars, wheelVars, clockVars
  <2>2. TypeOK' /\ PlaceInv'
    BY <1>0, <2>1 DEF TypeOK, PlaceInv, NoDoubleInsert, InPlace, UnderConstruction, Queued, Filed,
       Unfiled
  <2>3. WheelAccounting' /\ OrderInv'
    BY <1>0, <2>1, OrderFrame DEF WheelAccounting, Filed, Unfiled
  <2>4. FilesBlocked' /\ Adrift'
    BY <1>0, <1>a, <1>b, <2>1, AdriftFrame DEF FilesBlocked, Queued
  <2> QED BY <1>0, <2>1, <2>2, <2>3, <2>4 DEF PollInv
<1>3. CASE PollSetTick(t)
  <2>1. /\ UNCHANGED <<state, building, queue, vruntime, minV, current, bucket,
                       total, ticks, lastChecked, phase, cursor>>
        /\ sleepTick' = [sleepTick EXCEPT ![t] = ticks + 1]
        /\ setAt' = [setAt EXCEPT ![t] = ticks]
        /\ pc' = [pc EXCEPT ![t] = "block"]
    BY <1>3 DEF PollSetTick, taskVars, runVars, clockVars
  <2>2. TypeOK'
    BY <1>0, <2>1 DEF TypeOK
  <2>3. PlaceInv'
    BY <1>0, <2>1 DEF PlaceInv, NoDoubleInsert, InPlace, UnderConstruction, Queued, Filed, Unfiled
  <2>4. WheelAccounting' /\ OrderInv'
    BY <1>0, <2>1, OrderFrame DEF WheelAccounting, Filed, Unfiled
  <2>5. FilesBlocked'
    BY <1>0, <2>1 DEF FilesBlocked, TypeOK, Queued
  <2>6. Adrift'
    BY <1>a, <1>b, <2>1, AdriftFrame
  <2> QED BY <1>0, <2>1, <2>2, <2>3, <2>4, <2>5, <2>6 DEF PollInv
<1>4. CASE PollBlock(t)
  <2>1. /\ UNCHANGED <<building, queue, vruntime, minV, current, sleepTick, bucket,
                       total, setAt, ticks, lastChecked, phase, cursor>>
        /\ state' = [state EXCEPT ![t] = "BLOCKED"]
        /\ pc' = [pc EXCEPT ![t] = "file"]
        /\ phase = "run" /\ current = t
    BY <1>4 DEF PollBlock, InPoll, runVars, wheelVars, clockVars
  <2>2. TypeOK'
    BY <1>0, <2>1 DEF TypeOK, States
  <2>3. state[t] \in {"RUNNING", "BLOCKED", "ZOMBIE"}
    BY <1>0, <2>1 DEF PlaceInv, InPlace
  <2>4. InPlace'
    BY <1>0, <2>1, <2>3 DEF TypeOK, PlaceInv, InPlace, Queued, Filed, Unfiled
  <2>5. UnderConstruction'
    <3>1. \A u \in Tasks : state[u] = "NEW" => state'[u] = "NEW"
      BY <1>0, <2>1, <2>3 DEF TypeOK
    <3>2. \A u \in Tasks : building[u] # NoTask => building[u] \in Tasks
      BY <1>0 DEF TypeOK
    <3> QED BY <1>0, <2>1, <3>1, <3>2 DEF PlaceInv, UnderConstruction
  <2>6. PlaceInv'
    BY <1>0, <2>1, <2>4, <2>5 DEF PlaceInv, NoDoubleInsert
  <2>7. WheelAccounting' /\ OrderInv'
    BY <1>0, <2>1, OrderFrame DEF WheelAccounting, Filed, Unfiled
  <2>8. FilesBlocked'
    <3>1. t \notin Queued
      BY <1>0, <2>3 DEF PlaceInv, InPlace
    <3> QED BY <1>0, <2>1, <3>1 DEF FilesBlocked, TypeOK, Queued
  <2>9. Adrift'
    BY <1>a, <1>b, <2>1, AdriftFrame
  <2> QED BY <1>0, <2>1, <2>2, <2>6, <2>7, <2>8, <2>9 DEF PollInv
<1>5. CASE PollFile(t)
  <2>1. /\ UNCHANGED <<state, building, queue, vruntime, minV, current, sleepTick,
                       setAt, ticks, lastChecked, phase, cursor>>
        /\ pc' = [pc EXCEPT ![t] = "loop"] /\ pc[t] = "file" /\ AddToSleepList(t)
    BY <1>5 DEF PollFile, InPoll, taskVars, runVars, clockVars
  <2>2. FilesBlocked'
    BY <1>0, <2>1 DEF FilesBlocked, Queued
  <2>3. OrderInv'
    BY <1>0, <2>1, OrderFrame
  <2>4. CASE sleepTick[t] = 0 \/ t \in Filed
    <3>1. UNCHANGED <<bucket, total>>
      BY <2>1, <2>4 DEF AddToSleepList, Filed
    <3>2. TypeOK'
      BY <1>0, <2>1, <3>1 DEF TypeOK
    <3>3. PlaceInv'
      BY <1>0, <2>1, <3>1 DEF PlaceInv, NoDoubleInsert, InPlace, UnderConstruction, Queued, Filed,
         Unfiled
    <3>4. WheelAccounting'
      BY <1>0, <3>1 DEF WheelAccounting, Filed, Unfiled
    <3>5. Adrift'
      BY <1>a, <1>b, <2>1, <3>1, AdriftFrame
    <3> QED BY <1>0, <2>1, <2>2, <2>3, <3>2, <3>3, <3>4, <3>5 DEF PollInv
  <2>5. CASE sleepTick[t] # 0 /\ t \notin Filed
    <3>1. bucket' = [bucket EXCEPT ![t] = sleepTick[t] % WheelSize] /\ total' = total + 1
      BY <2>1, <2>5 DEF AddToSleepList, Filed
    <3>2. sleepTick[t] % WheelSize \in 0..(WheelSize - 1) /\ sleepTick[t] % WheelSize # Unfiled
      BY <1>0, WheelAssumption DEF TypeOK, Unfiled
    <3>3. TypeOK'
      BY <1>0, <2>1, <3>1, <3>2, WheelAssumption DEF TypeOK
    <3>4. Filed' = Filed \cup {t}
      BY <1>0, <3>1, <3>2 DEF Filed, Unfiled, TypeOK
    <3>5. state[t] = "BLOCKED" /\ t \notin Queued
      BY <1>0, <1>a, <2>1, <2>5 DEF FilesBlocked
    <3>6. PlaceInv'
      BY <1>0, <2>1, <3>4, <3>5 DEF PlaceInv, NoDoubleInsert, InPlace, UnderConstruction, Queued
    <3>7. WheelAccounting'
      BY <1>0, <2>5, <3>1, <3>4, CountFollowsIn
    <3>8. Adrift'
      BY <1>a, <2>1, <3>4, AdriftFrame
    <3> QED BY <1>0, <2>1, <2>2, <2>3, <3>3, <3>6, <3>7, <3>8 DEF PollInv
  <2> QED BY <2>4, <2>5
<1> QED BY <1>1, <1>2, <1>3, <1>4, <1>5

LEMMA PollInvariance == PollSpec => []PollInv
<1>1. PollInit => PollInv
  <2> SUFFICES ASSUME PollInit PROVE PollInv
    OBVIOUS
  <2>1. TypeOK /\ PlaceInv /\ WheelAccounting /\ OrderInv /\ WaitersAreKnown
    BY TypeInit, PartsInit DEF PollInit, WheelInv
  <2>2. pc = [t \in Tasks |-> "user"] /\ stranded = {}
    BY DEF PollInit
  <2>3. \A t \in Tasks : state[t] = "BLOCKED" => t \in Filed
    BY DEF PollInit, Init
  <2> QED BY <2>1, <2>2, <2>3 DEF PollInv, FilesBlocked, Adrift, WaitersAreKnown
<1>2. PollInv /\ [PollNext]_<<vars, pollVars>> => PollInv'
  <2> SUFFICES ASSUME PollInv, [PollNext]_<<vars, pollVars>> PROVE PollInv'
    OBVIOUS
  <2>1. ASSUME \/ UNCHANGED pollVars /\ \E t \in Tasks : pc[t] = "user" /\ Call(t)
               \/ PollTick
        PROVE  PollInv'
    <3>0. UNCHANGED pc /\ ((\E t \in Tasks : pc[t] = "user" /\ Call(t)) \/ Tick)
      BY <2>1 DEF pollVars, PollTick
    <3>1. [Next]_vars
      BY <3>0 DEF Next
    <3>2. TypeOK' /\ PlaceInv' /\ WheelAccounting'
      BY <3>1, TypeStep, PlaceStep, CountStep DEF PollInv
    <3>3. OrderInv'
      BY <3>1, <3>2, OrderStep DEF PollInv
    <3>4. FilesBlocked'
      BY <3>0, FilesBlockedStep
    <3>5. Adrift'
      BY <2>1, AdriftCall, AdriftTick DEF pollVars
    <3> QED BY <3>0, <3>2, <3>3, <3>4, <3>5 DEF PollInv
  <2>2. ASSUME UNCHANGED <<vars, pollVars>> PROVE PollInv'
    <3>1. TypeOK' /\ PlaceInv' /\ WheelAccounting'
      BY <2>2, TypeStep, PlaceStep, CountStep DEF PollInv
    <3>2. OrderInv'
      BY <2>2, <3>1, OrderStep DEF PollInv
    <3>3. FilesBlocked' /\ Adrift'
      <4>1. UNCHANGED <<state, queue, current, bucket, sleepTick, pc, stranded>>
        BY <2>2 DEF pollVars, vars, wheelVars, taskVars, runVars
      <4> QED BY <4>1 DEF PollInv, FilesBlocked, Adrift, Queued, Filed, Unfiled
    <3> QED BY <2>2, <3>1, <3>2, <3>3 DEF PollInv, pollVars
  <2> QED BY <2>1, <2>2, PollStep DEF PollNext
<1> QED BY <1>1, <1>2, PTL DEF PollSpec

\* With the timer free to fire between any two steps of Sys_Poll, for any number
\* of tasks inside it, no task is queued twice, every queued task is READY, the
\* READY and BLOCKED tasks are in the queue or in the wheel except for the
\* current one and the pollers that a tick has stranded for good, the count of
\* sleepers is exact and the queue stays in order up to one charge.
THEOREM PollingKeepsThePlaces == PollSpec => []PlacesUnderPoll
<1>1. PollInv => PlacesUnderPoll
  BY DEF PollInv, PlaceInv, NoDoubleInsert, InPlace, OrderInv, Adrift, PlacesUnderPoll
<1> QED BY <1>1, PollInvariance, PTL

\* A poll is still a client of the dispatcher: each of its steps blocks the
\* running task or changes nothing that the dispatcher knows of, so what the
\* clients of Dispatch are checked against holds beside pollers too.
THEOREM PollersAreDispatched == PollSpec => ImplementsDispatch
<1>1. PollInit => Dispatcher!DispatchInit
  <2> SUFFICES ASSUME PollInit PROVE Dispatcher!DispatchInit
    OBVIOUS
  <2>1. Queued = {}
    BY DEF PollInit, Init, Queued, Elements
  <2> QED BY <2>1 DEF PollInit, Init, Dispatcher!DispatchInit
<1>2. PollInv /\ [PollNext]_<<vars, pollVars>> =>
         [Dispatcher!DispatchNext]_(Dispatcher!dispatchVars)
  <2> SUFFICES ASSUME PollInv, [PollNext]_<<vars, pollVars>>
               PROVE  [Dispatcher!DispatchNext]_(Dispatcher!dispatchVars)
    OBVIOUS
  <2>1. CASE [Next]_vars
    BY <2>1, DispatchStep DEF PollInv
  <2>2. ASSUME NEW t \in Tasks, Sys_Poll(t) \/ PollBlock(t) PROVE Dispatcher!DispatchNext
    <3>1. Dispatcher!Block(t)
      BY <2>2 DEF Sys_Poll, PollBlock, InPoll, SleepFor, Calling, runVars, Dispatcher!Block,
         Dispatcher!Running, Queued
    <3> QED BY <3>1 DEF Dispatcher!DispatchNext
  <2>3. ASSUME NEW t \in Tasks, PollReturn(t) \/ PollSetTick(t) \/ PollFile(t)
        PROVE  UNCHANGED Dispatcher!dispatchVars
    BY <2>3 DEF PollReturn, PollSetTick, PollFile, vars, taskVars, runVars,
       Dispatcher!dispatchVars, Queued
  <2> QED BY <2>1, <2>2, <2>3 DEF PollNext, PollTick, Next
<1> QED BY <1>1, <1>2, PollInvariance, PTL
        DEF PollSpec, ImplementsDispatch, Dispatcher!DispatchSpec
=============================================================================
