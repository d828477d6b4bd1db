---------------------------- MODULE ProcessProofs ----------------------------
(***************************************************************************)
(* The process table and Sys_Wait, for any number of task structures, any  *)
(* table size and any first pid of users, also with signals and process    *)
(* groups, and the line of the terminal, for any buffer size and any       *)
(* number of readers.                                                      *)
(*                                                                         *)
(* No property is inductive.  That a deleted task is out of the run queue  *)
(* needs that a zombie is, and so that the task that exits is not queued   *)
(* while it runs; that no exit is missed needs that a waiting parent is in *)
(* the table, where Sys_Exit looks for it, and that no two tasks of the    *)
(* table share a pid.  ProcInv adds these.  That a chain is its group      *)
(* needs that no task has two predecessors, that links stay in a group and *)
(* never lead to its leader, and that there is no cycle (GroupInv).  That  *)
(* what is read is what was typed needs to know, at each place where Read  *)
(* can be interrupted, which keys are behind the read position and what a  *)
(* reader has in hand (LineInv).                                           *)
(***************************************************************************)
EXTENDS Tty, NumberLemmas, FiniteSetTheorems, SequenceTheorems, TLAPS

States == {"NONE", "NEW", "READY", "RUNNING", "BLOCKED", "ZOMBIE"}

ProcTypes ==
    /\ taskArray \in [Slots -> Tasks \cup {NoTask}]
    /\ pid \in [Tasks -> Slots \cup {NoPid}]
    /\ ppid \in [Tasks -> Slots \cup {NoPid}]
    /\ waiting \subseteq Tasks /\ freed \subseteq Tasks
    /\ state \in [Tasks -> States]
    /\ runq \subseteq Tasks /\ current \in Tasks \cup {Idle}

\* Who is in the run queue and in the table.  A signal may queue a task that has just
\* gone to sleep in Sys_Wait and still runs; it finds no zombie before it is switched out.
InWait(t) == t \in waiting /\ Children(t) # {} /\ Zombies(t) = {}
Placed ==
    /\ current \in runq => InWait(current)
    /\ current \in Tasks => InTable(current)
    /\ \A t \in Tasks : InTable(t) => state[t] # "NONE"
    /\ \A t \in runq : state[t] # "ZOMBIE"
    /\ \A t \in waiting : InTable(t) /\ state[t] # "ZOMBIE"
    /\ \A t \in Tasks : state[t] = "BLOCKED" => t \in waiting

ProcInv == ProcTypes /\ TableAgrees /\ DeletedIsUnused /\ Placed /\ NoMissedExit

LEMMA SlotFacts == /\ Slots \subseteq Nat /\ 1 \in Slots /\ NoPid \notin Slots
                   /\ \A i \in Slots : i >= 1
BY ProcessAssumption DEF Slots, NoPid

LEMMA FirstFreeIsFree ==
    ASSUME ProcTypes, FreeSlots # {}
    PROVE  FirstFree \in Slots /\ taskArray[FirstFree] = NoTask
<1>1. FreeSlots \subseteq Nat
  BY SlotFacts DEF FreeSlots
<1> QED
  BY <1>1, LeastMember DEF FirstFree, FreeSlots

\* The task that Sys_Wait reaps is a zombie of the table, in the slot of its pid.
LEMMA FirstZombieIsZombie ==
    ASSUME ProcInv, NEW t \in Tasks, Zombies(t) # {}
    PROVE  /\ FirstZombie(t) \in Zombies(t) /\ FirstZombie(t) \in Tasks
           /\ pid[FirstZombie(t)] \in Slots /\ taskArray[pid[FirstZombie(t)]] = FirstZombie(t)
<1> DEFINE pids == {pid[c] : c \in Zombies(t)}
<1>1. \A c \in Zombies(t) : c \in Tasks /\ pid[c] \in Slots /\ taskArray[pid[c]] = c
  BY ProcessAssumption DEF ProcInv, ProcTypes, TableAgrees, Zombies, Children, InTable
<1>2. pids \subseteq Nat /\ pids # {}
  BY <1>1, SlotFacts
<1>3. Min(pids) \in pids
  BY <1>2, LeastMember
<1>4. PICK c \in Zombies(t) : Min(pids) = pid[c]
  BY <1>3
<1>5. FirstZombie(t) = c
  BY <1>1, <1>4 DEF FirstZombie
<1> QED
  BY <1>1, <1>4, <1>5

-----------------------------------------------------------------------------
LEMMA ForkKeeps ==
    ASSUME ProcInv, NEW t \in Tasks, NEW child \in Tasks, Sys_Fork(t, child)
    PROVE  ProcInv'
<1> DEFINE i == FirstFree
<1>1. /\ Running(t) /\ t \notin waiting /\ state[child] = "NONE" /\ FreeSlots # {}
      /\ state' = [state EXCEPT ![child] = "READY"]
      /\ runq' = runq \cup {child}
      /\ taskArray' = [taskArray EXCEPT ![i] = child]
      /\ pid' = [pid EXCEPT ![child] = i]
      /\ ppid' = [ppid EXCEPT ![child] = pid[t]]
      /\ current' = current /\ waiting' = waiting /\ freed' = freed
  BY DEF Sys_Fork, Calling, CFSEnqueue
<1>2. i \in Slots /\ taskArray[i] = NoTask
  BY <1>1, FirstFreeIsFree DEF ProcInv
<1>3. ~InTable(child) /\ child \notin freed /\ child \notin runq /\ child \notin waiting /\ child # current
  BY <1>1 DEF ProcInv, Placed, DeletedIsUnused
<1>31. current \notin runq
  BY <1>1 DEF ProcInv, Placed, InWait, Running
<1> HIDE DEF i
<1>4. ProcTypes'
  BY <1>1, <1>2 DEF ProcInv, ProcTypes, States
<1>5. /\ taskArray'[i] = child /\ \A j \in Slots : j # i => taskArray'[j] = taskArray[j]
      /\ pid'[child] = i /\ \A u \in Tasks : u # child => pid'[u] = pid[u] /\ ppid'[u] = ppid[u] /\ state'[u] = state[u]
      /\ state'[child] = "READY"
  BY <1>1, <1>2 DEF ProcInv, ProcTypes
<1>6. InTable(child)' /\ \A u \in Tasks : u # child => (InTable(u)' <=> InTable(u))
  BY <1>2, <1>5, ProcessAssumption DEF InTable
<1>7. TableAgrees'
  <2>1. \A j \in Slots : taskArray[j] # child
    BY <1>3 DEF InTable
  <2>2. ASSUME NEW j \in Slots, taskArray'[j] # NoTask
        PROVE  pid'[taskArray'[j]] = j /\ taskArray'[j] \notin freed'
    <3>1. CASE j = i
      BY <1>1, <1>3, <1>5, <3>1
    <3>2. CASE j # i
      <4>1. taskArray[j] \in Tasks /\ taskArray[j] # child /\ taskArray'[j] = taskArray[j]
        BY <1>5, <2>1, <2>2, <3>2 DEF ProcInv, ProcTypes
      <4> QED
        BY <1>1, <1>5, <2>2, <4>1 DEF ProcInv, TableAgrees
    <3> QED
      BY <3>1, <3>2
  <2>3. ASSUME NEW u \in Tasks, pid'[u] # NoPid PROVE InTable(u)' \/ u \in freed'
    BY <1>1, <1>5, <1>6, <2>3 DEF ProcInv, TableAgrees
  <2> QED
    BY <2>2, <2>3 DEF TableAgrees
<1>8. DeletedIsUnused' /\ Placed'
  BY <1>1, <1>3, <1>31, <1>5, <1>6 DEF ProcInv, ProcTypes, DeletedIsUnused, Placed
<1>9. NoMissedExit'
  <2> SUFFICES ASSUME NEW x \in waiting, state'[x] = "BLOCKED"
               PROVE  Children(x)' # {} /\ Zombies(x)' = {}
    BY <1>1 DEF NoMissedExit
  <2>1. x \in Tasks /\ x # child /\ state[x] = "BLOCKED" /\ pid'[x] = pid[x]
    BY <1>3, <1>5 DEF ProcInv, ProcTypes
  <2>2. Children(x) # {} /\ Zombies(x) = {}
    BY <2>1 DEF ProcInv, NoMissedExit
  <2>3. Children(x) \subseteq Children(x)' /\ Children(x)' \subseteq Children(x) \cup {child}
    BY <1>3, <1>5, <1>6, <2>1 DEF Children
  <2> QED
    BY <1>5, <2>2, <2>3 DEF Zombies, Children
<1> QED
  BY <1>4, <1>7, <1>8, <1>9 DEF ProcInv

\* A step that only changes the run queue and states keeps the table.
LEMMA TableKept ==
    ASSUME ProcInv, UNCHANGED <<taskArray, pid, freed>>
    PROVE  TableAgrees' /\ \A t \in Tasks : InTable(t)' <=> InTable(t)
BY DEF ProcInv, TableAgrees, InTable

LEMMA ForkFullKeeps ==
    ASSUME ProcInv, NEW t \in Tasks, NEW child \in Tasks, Sys_ForkFull(t, child)
    PROVE  ProcInv'
<1>1. /\ Running(t) /\ t \notin waiting
      /\ state[child] = "NONE" /\ state' = [state EXCEPT ![child] = "READY"]
      /\ ppid' = [ppid EXCEPT ![child] = pid[t]]
      /\ UNCHANGED <<current, runq, taskArray, pid, waiting, freed>>
  BY DEF Sys_ForkFull, Calling
<1>2. TableAgrees' /\ \A u \in Tasks : InTable(u)' <=> InTable(u)
  BY <1>1, TableKept
<1>3. ProcTypes' /\ \A u \in Tasks : u # child => state'[u] = state[u] /\ ppid'[u] = ppid[u]
  BY <1>1 DEF ProcInv, ProcTypes, States
<1>4. state'[child] = "READY" /\ ~InTable(child) /\ child \notin freed
  BY <1>1 DEF ProcInv, ProcTypes, Placed, DeletedIsUnused
<1>41. current \notin runq
  BY <1>1 DEF ProcInv, Placed, InWait, Running
<1>5. DeletedIsUnused' /\ Placed'
  BY <1>1, <1>2, <1>3, <1>4, <1>41 DEF ProcInv, ProcTypes, DeletedIsUnused, Placed
<1>6. NoMissedExit'
  <2> SUFFICES ASSUME NEW x \in waiting, state'[x] = "BLOCKED"
               PROVE  Children(x)' # {} /\ Zombies(x)' = {}
    BY <1>1 DEF NoMissedExit
  <2>1. x \in Tasks /\ x # child /\ state[x] = "BLOCKED"
    BY <1>3, <1>4 DEF ProcInv, ProcTypes
  <2>2. Children(x)' = Children(x)
    BY <1>1, <1>2, <1>3, <1>4 DEF Children
  <2> QED
    BY <1>3, <1>4, <2>1, <2>2 DEF ProcInv, NoMissedExit, Zombies, Children
<1> QED
  BY <1>2, <1>3, <1>5, <1>6 DEF ProcInv

LEMMA ExitKeeps ==
    ASSUME ProcInv, NEW t \in Tasks, Sys_Exit(t)
    PROVE  ProcInv'
<1>1. /\ current = t /\ t \notin waiting /\ state' = AfterExit(t)
      /\ UNCHANGED <<current, runq, taskArray, pid, ppid, waiting, freed>>
  BY DEF Sys_Exit, Calling, Running, procVars
<1>2. TableAgrees' /\ \A u \in Tasks : (InTable(u)' <=> InTable(u)) /\ Children(u)' = Children(u)
  BY <1>1, TableKept DEF Children
<1>3. /\ ProcTypes' /\ state'[t] = "ZOMBIE"
      /\ \A u \in Tasks : u # t =>
            /\ state'[u] = state[u] \/ (state[u] = "BLOCKED" /\ state'[u] = "READY")
            /\ InTable(u) /\ pid[u] = ppid[t] => state'[u] # "BLOCKED"
  BY <1>1 DEF ProcInv, ProcTypes, States, AfterExit
<1>31. current \notin runq
  BY <1>1 DEF ProcInv, Placed, InWait
<1>4. DeletedIsUnused' /\ Placed'
  BY <1>1, <1>2, <1>3, <1>31 DEF ProcInv, ProcTypes, DeletedIsUnused, Placed
<1>5. NoMissedExit'
  <2> SUFFICES ASSUME NEW x \in waiting, state'[x] = "BLOCKED"
               PROVE  Children(x)' # {} /\ Zombies(x)' = {}
    BY <1>1 DEF NoMissedExit
  <2>1. /\ x \in Tasks /\ x # t /\ state[x] = "BLOCKED"
        /\ InTable(x) /\ t \notin Children(x)
    BY <1>1, <1>3 DEF ProcInv, ProcTypes, Placed, Children
  <2>2. Children(x) # {} /\ Zombies(x) = {}
    BY <2>1 DEF ProcInv, NoMissedExit
  <2>3. \A c \in Children(x) : state'[c] # "ZOMBIE"
    BY <1>3, <2>1, <2>2 DEF Zombies, Children
  <2> QED
    BY <1>2, <2>1, <2>2, <2>3 DEF Zombies
<1> QED
  BY <1>2, <1>3, <1>4, <1>5 DEF ProcInv

\* Reaping clears the slot of a zombie that no waiting parent counts on.
LEMMA ReapKeeps ==
    ASSUME ProcInv, NEW t \in Tasks, WaitReaps(t)
    PROVE  ProcInv'
<1>0. PICK z \in Tasks : z = FirstZombie(t)
  BY FirstZombieIsZombie DEF WaitReaps
<1>1. /\ current = t /\ state[t] # "ZOMBIE" /\ Zombies(t) # {} /\ DestroyTask(z)
      /\ waiting' = waiting \ {t} /\ UNCHANGED <<state, current, runq, pid, ppid>>
  BY <1>0 DEF WaitReaps, WaitTurn, Running, dispatchVars
<1>2. /\ z \in Tasks /\ state[z] = "ZOMBIE" /\ InTable(z) /\ ppid[z] = pid[t]
      /\ pid[z] \in Slots /\ taskArray[pid[z]] = z
  BY <1>0, <1>1, FirstZombieIsZombie DEF Zombies, Children
<1>21. current \notin runq /\ state[t] # "BLOCKED"
  BY <1>1 DEF ProcInv, Placed, InWait, NoMissedExit
<1>3. CASE pid[z] < UserStart
  <2>1. UNCHANGED <<taskArray, freed>>
    BY <1>1, <1>3 DEF DestroyTask
  <2>2. TableAgrees' /\ \A u \in Tasks : (InTable(u)' <=> InTable(u)) /\ Children(u)' = Children(u)
    BY <1>1, <2>1, TableKept DEF Children
  <2>3. ProcTypes' /\ DeletedIsUnused' /\ Placed'
    BY <1>1, <1>21, <2>1, <2>2 DEF ProcInv, ProcTypes, DeletedIsUnused, Placed
  <2>4. NoMissedExit'
    BY <1>1, <2>2 DEF ProcInv, ProcTypes, NoMissedExit, Zombies
  <2> QED
    BY <2>2, <2>3, <2>4 DEF ProcInv
<1>4. CASE ~(pid[z] < UserStart)
  <2>1. taskArray' = [taskArray EXCEPT ![pid[z]] = NoTask] /\ freed' = freed \cup {z}
    BY <1>1, <1>4 DEF DestroyTask
  <2>2. ProcTypes'
    BY <1>1, <1>2, <2>1 DEF ProcInv, ProcTypes
  <2>3. /\ taskArray'[pid[z]] = NoTask
        /\ \A j \in Slots : j # pid[z] => taskArray'[j] = taskArray[j]
    BY <1>2, <2>1 DEF ProcInv, ProcTypes
  <2>4. \A j \in Slots : taskArray'[j] # NoTask => taskArray'[j] = taskArray[j] /\ taskArray[j] # z
    BY <1>2, <2>3, ProcessAssumption DEF ProcInv, ProcTypes, TableAgrees
  <2>5. \A u \in Tasks : u # z => (InTable(u)' <=> InTable(u))
    BY <1>2, <2>3, ProcessAssumption DEF InTable
  <2>6. TableAgrees'
    BY <1>1, <2>1, <2>4, <2>5 DEF ProcInv, TableAgrees
  <2>7. z # current /\ z \notin runq /\ z \notin waiting
    BY <1>1, <1>2 DEF ProcInv, Placed
  <2>8. DeletedIsUnused' /\ Placed'
    <3>1. ~InTable(z)'
      BY <1>2, <2>4, ProcessAssumption DEF InTable
    <3> QED
      BY <1>1, <1>2, <1>21, <2>1, <2>5, <2>7, <3>1 DEF ProcInv, ProcTypes, DeletedIsUnused, Placed
  <2>9. NoMissedExit'
    <3> SUFFICES ASSUME NEW x \in waiting', state[x] = "BLOCKED"
                 PROVE  Children(x)' # {} /\ Zombies(x)' = {}
      BY <1>1 DEF NoMissedExit
    <3>1. x \in Tasks /\ Children(x) # {} /\ Zombies(x) = {}
      BY <1>1 DEF ProcInv, ProcTypes, NoMissedExit
    <3>2. z \notin Children(x)
      BY <1>2, <3>1 DEF Zombies
    <3>3. ~InTable(z)'
      BY <1>2, <2>4, ProcessAssumption DEF InTable
    <3>4. Children(x)' = Children(x)
      BY <1>1, <2>5, <3>2, <3>3 DEF Children
    <3> QED
      BY <1>1, <3>1, <3>4 DEF Zombies
  <2> QED
    BY <2>2, <2>6, <2>8, <2>9 DEF ProcInv
<1> QED
  BY <1>3, <1>4

LEMMA WaitKeeps ==
    ASSUME ProcInv, NEW t \in Tasks, WaitFails(t) \/ WaitSleeps(t)
    PROVE  ProcInv'
<1>1. TableAgrees' /\ \A u \in Tasks : (InTable(u)' <=> InTable(u)) /\ Children(u)' = Children(u)
  BY TableKept DEF WaitFails, WaitSleeps, Children
<1>2. CASE WaitFails(t)
  <2>1. waiting' = waiting \ {t} /\ UNCHANGED <<state, current, runq, taskArray, pid, ppid, freed>>
    BY <1>2 DEF WaitFails, dispatchVars
  <2>11. current \notin runq /\ state[t] # "BLOCKED"
    BY <1>2 DEF ProcInv, Placed, InWait, NoMissedExit, WaitFails, WaitTurn, Running
  <2>2. ProcTypes' /\ DeletedIsUnused' /\ Placed'
    BY <1>1, <2>1, <2>11 DEF ProcInv, ProcTypes, DeletedIsUnused, Placed
  <2>3. NoMissedExit'
    BY <1>1, <2>1 DEF ProcInv, ProcTypes, NoMissedExit, Zombies
  <2> QED
    BY <1>1, <2>2, <2>3 DEF ProcInv
<1>3. CASE WaitSleeps(t)
  <2>1. /\ current = t /\ Children(t) # {} /\ Zombies(t) = {}
        /\ state' = [state EXCEPT ![t] = "BLOCKED"] /\ waiting' = waiting \cup {t}
        /\ UNCHANGED <<current, runq, taskArray, pid, ppid, freed>>
    BY <1>3 DEF WaitSleeps, Block, Running
  <2>2. ProcTypes' /\ state'[t] = "BLOCKED" /\ \A u \in Tasks : u # t => state'[u] = state[u]
    BY <2>1 DEF ProcInv, ProcTypes, States
  <2>21. InWait(current)'
    BY <1>1, <2>1, <2>2 DEF InWait, Zombies
  <2>3. DeletedIsUnused' /\ Placed'
    BY <1>1, <2>1, <2>2, <2>21 DEF ProcInv, ProcTypes, DeletedIsUnused, Placed
  <2>4. NoMissedExit'
    <3> SUFFICES ASSUME NEW x \in waiting \cup {t}, state'[x] = "BLOCKED"
                 PROVE  Children(x)' # {} /\ Zombies(x)' = {}
      BY <2>1 DEF NoMissedExit
    <3>1. x \in Tasks /\ Children(x) # {} /\ Zombies(x) = {}
      BY <2>1, <2>2 DEF ProcInv, ProcTypes, NoMissedExit
    <3> QED
      BY <1>1, <2>2, <3>1 DEF Zombies, Children
  <2> QED
    BY <1>1, <2>2, <2>3, <2>4 DEF ProcInv
<1> QED
  BY <1>2, <1>3

LEMMA SwitchKeeps ==
    ASSUME ProcInv, Switch, UNCHANGED procVars
    PROVE  ProcInv'
<1>1. TableAgrees' /\ \A u \in Tasks : (InTable(u)' <=> InTable(u)) /\ Children(u)' = Children(u)
  BY TableKept DEF procVars, Children
<1>2. /\ ProcTypes' /\ UNCHANGED <<freed, waiting>>
      /\ current' \in Tasks => current' \in Candidates
      /\ runq' \subseteq Candidates /\ current' \notin runq'
      /\ \A u \in Tasks : \/ state'[u] = state[u]
                          \/ u \in Candidates /\ state'[u] \in {"READY", "RUNNING"}
  <2>1. CASE SwitchToIdle
    BY <2>1, IdleAssumption DEF SwitchToIdle, Candidates, ProcInv, ProcTypes, procVars
  <2>2. CASE \E t \in Tasks : SwitchTo(t)
    BY <2>2 DEF SwitchTo, Candidates, Outgoing, GivesUp, ProcInv, ProcTypes, States, procVars
  <2> QED
    BY <2>1, <2>2 DEF Switch
<1>3. \A u \in Candidates : u \in Tasks /\ InTable(u) /\ state[u] # "ZOMBIE" /\ u \notin freed
  <2>1. \A u \in runq : u \in Tasks /\ InTable(u) /\ state[u] # "ZOMBIE" /\ u \notin freed
    BY DEF ProcInv, ProcTypes, Placed, DeletedIsUnused
  <2>2. GivesUp => current \in Tasks /\ InTable(current) /\ state[current] # "ZOMBIE" /\ current \notin freed
    BY DEF GivesUp, ProcInv, Placed, DeletedIsUnused
  <2> QED
    BY <2>1, <2>2 DEF Candidates
<1>4. DeletedIsUnused'
  BY <1>1, <1>2, <1>3 DEF ProcInv, ProcTypes, DeletedIsUnused
<1>5. Placed'
  BY <1>1, <1>2, <1>3 DEF ProcInv, ProcTypes, Placed
<1>6. NoMissedExit'
  <2> SUFFICES ASSUME NEW x \in waiting, state'[x] = "BLOCKED"
               PROVE  Children(x)' # {} /\ Zombies(x)' = {}
    BY <1>2 DEF NoMissedExit
  <2>1. x \in Tasks /\ state[x] = "BLOCKED"
    BY <1>2 DEF ProcInv, ProcTypes
  <2>2. Children(x) # {} /\ Zombies(x) = {}
    BY <2>1 DEF ProcInv, NoMissedExit
  <2> QED
    BY <1>1, <1>2, <2>1, <2>2 DEF Zombies, Children
<1> QED
  BY <1>1, <1>2, <1>4, <1>5, <1>6 DEF ProcInv

-----------------------------------------------------------------------------
LEMMA ProcInvInit == ProcessInit => ProcInv
<1> SUFFICES ASSUME ProcessInit PROVE ProcInv
  OBVIOUS
<1>1. /\ current \in Tasks /\ state = [t \in Tasks |-> IF t = current THEN "RUNNING" ELSE "NONE"]
      /\ runq = {} /\ waiting = {} /\ freed = {}
      /\ taskArray = [i \in Slots |-> IF i = 1 THEN current ELSE NoTask]
      /\ pid = [t \in Tasks |-> IF t = current THEN 1 ELSE NoPid]
      /\ ppid = [t \in Tasks |-> NoPid]
  BY DEF ProcessInit, DispatchInit
<1>2. ProcTypes
  BY <1>1, SlotFacts DEF ProcTypes, States
<1>3. \A t \in Tasks : InTable(t) <=> t = current
  BY <1>1, SlotFacts, ProcessAssumption DEF InTable
<1>4. TableAgrees
  BY <1>1, <1>3, SlotFacts DEF TableAgrees
<1>5. DeletedIsUnused /\ Placed /\ NoMissedExit
  BY <1>1, <1>3 DEF DeletedIsUnused, Placed, NoMissedExit
<1> QED
  BY <1>2, <1>4, <1>5 DEF ProcInv

\* The inductive invariant of Sys_Fork, Sys_Exit, Sys_Wait and Schedule.
THEOREM ProcessInvariance == ProcessSpec => []ProcInv
<1>1. ProcessInit => ProcInv
  BY ProcInvInit
<1>2. ProcInv /\ [ProcessNext]_vars => ProcInv'
  <2> SUFFICES ASSUME ProcInv, [ProcessNext]_vars PROVE ProcInv'
    OBVIOUS
  <2>1. CASE ProcessNext
    BY <2>1, ForkKeeps, ForkFullKeeps, ExitKeeps, ReapKeeps, WaitKeeps, SwitchKeeps DEF ProcessNext
  <2>2. CASE UNCHANGED vars
    <3>1. UNCHANGED <<state, current, runq, taskArray, pid, ppid, waiting, freed>>
      BY <2>2 DEF vars, dispatchVars, procVars
    <3> QED
      BY <3>1 DEF ProcInv, ProcTypes, TableAgrees, DeletedIsUnused, Placed, NoMissedExit,
                  InWait, Zombies, Children, InTable
  <2> QED
    BY <2>1, <2>2
<1> QED
  BY <1>1, <1>2, PTL DEF ProcessSpec

\* TaskArray and the pids agree and DestroyTask never deletes a task in use,
\* through full tables and the reuse of pids.
THEOREM TableStaysSound == ProcessSpec => []ProcessTableIsSound
<1>1. ProcInv => ProcessTableIsSound
  BY DEF ProcInv, ProcessTableIsSound
<1> QED
  BY <1>1, ProcessInvariance, PTL

\* No exit falls between the scan of Sys_Wait and its sleep.
THEOREM ExitsAreNotMissed == ProcessSpec => []NoMissedExit
<1>1. ProcInv => NoMissedExit
  BY DEF ProcInv
<1> QED
  BY <1>1, ProcessInvariance, PTL
-----------------------------------------------------------------------------
\* Process groups.  What follows speaks of a table ta, group numbers pg, links nx and
\* the living tasks al, so that one operation can be taken as several changes: leaving
\* a group and joining another, a birth and the entry into a group.
LinkTypes(ta, pg, nx, al) ==
    /\ ta \in [Slots -> Tasks \cup {NoTask}] /\ pg \in [Tasks -> Slots \cup {0, NoPid}]
    /\ nx \in [Tasks -> Tasks \cup {NoTask}] /\ al \subseteq Tasks

\* No task has two predecessors, and a link stays inside a group and never leads to its leader.
LinksInGroups(ta, pg, nx, al) ==
    /\ \A p, q \in Tasks : nx[p] = nx[q] /\ nx[p] # NoTask => p = q
    /\ \A p \in Tasks : nx[p] # NoTask =>
          /\ p \in al /\ nx[p] \in al /\ pg[p] \in Slots
          /\ pg[nx[p]] = pg[p] /\ nx[p] # ta[pg[p]]

\* A member is in the table, its group has a leader, and it is the leader or has a predecessor.
MembersAreLinked(ta, pg, nx, al) ==
    \A t \in al : pg[t] \in Slots =>
        /\ \E i \in Slots : ta[i] = t
        /\ ta[pg[t]] # NoTask /\ pg[ta[pg[t]]] = pg[t]
        /\ t = ta[pg[t]] \/ \E p \in Tasks : nx[p] = t

\* Every set of tasks has one with no predecessor in it.
NoCycle(nx) == \A S \in SUBSET Tasks : S # {} => \E t \in S : \A p \in S : nx[p] # t

Linked(ta, pg, nx, al) ==
    /\ LinkTypes(ta, pg, nx, al) /\ LinksInGroups(ta, pg, nx, al)
    /\ MembersAreLinked(ta, pg, nx, al) /\ NoCycle(nx)

\* A leader without a successor is alone in its group.
LEMMA LoneLeader ==
    ASSUME NEW ta, NEW pg, NEW nx, NEW al, Linked(ta, pg, nx, al),
           NEW t \in al, pg[t] \in Slots, nx[ta[pg[t]]] = NoTask
    PROVE  t = ta[pg[t]]
<1>1. PICK h : h = ta[pg[t]]
    OBVIOUS
<1>2. PICK S : S = {x \in Tasks : x \in al /\ pg[x] = pg[t] /\ x # h}
    OBVIOUS
<1>3. ASSUME NEW x \in S PROVE \E p \in S : nx[p] = x
    <2>1. PICK p \in Tasks : nx[p] = x
        BY <1>1, <1>2, <1>3 DEF Linked, MembersAreLinked
    <2>2. nx[p] # NoTask
        BY <1>2, <2>1, ProcessAssumption
    <2>3. p \in al /\ pg[p] = pg[x]
        BY <2>1, <2>2 DEF Linked, LinksInGroups
    <2>4. p # h
        BY <1>1, <2>2
    <2> QED BY <1>2, <2>1, <2>3, <2>4
<1>4. S = {}
    BY <1>2, <1>3 DEF Linked, NoCycle
<1> QED BY <1>1, <1>2, <1>4 DEF Linked, LinkTypes

\* A task that leaves its predecessor to its successor.
Removed(nx, c) == [x \in Tasks |-> IF x = c THEN NoTask ELSE IF nx[x] = c THEN nx[c] ELSE nx[x]]

LEMMA RemovedLinks ==
    ASSUME NEW nx \in [Tasks -> Tasks \cup {NoTask}], NEW c \in Tasks
    PROVE  /\ Removed(nx, c) \in [Tasks -> Tasks \cup {NoTask}]
           /\ Removed(nx, c)[c] = NoTask
           /\ \A x \in Tasks : x # c => Removed(nx, c)[x] = IF nx[x] = c THEN nx[c] ELSE nx[x]
BY DEF Removed

\* Taking a task out of a chain opens no cycle and hides nobody.
LEMMA RemoveKeepsLinks ==
    ASSUME NEW ta, NEW pg, NEW nx, NEW al, Linked(ta, pg, nx, al),
           NEW c \in al, pg[c] \in Slots /\ ta[pg[c]] = c => nx[c] = NoTask
    PROVE  Linked(ta, [pg EXCEPT ![c] = 0], Removed(nx, c), al)
<1>0. /\ c \in Tasks /\ NoTask \notin Tasks /\ 0 \notin Slots /\ LinkTypes(ta, pg, nx, al)
      /\ nx \in [Tasks -> Tasks \cup {NoTask}] /\ pg \in [Tasks -> Slots \cup {0, NoPid}] /\ al \subseteq Tasks
    BY ProcessAssumption, SlotFacts DEF Linked, LinkTypes
<1>1. PICK r, q : r = Removed(nx, c) /\ q = [pg EXCEPT ![c] = 0]
    OBVIOUS
<1>2. /\ r \in [Tasks -> Tasks \cup {NoTask}] /\ r[c] = NoTask
      /\ \A x \in Tasks : x # c => r[x] = IF nx[x] = c THEN nx[c] ELSE nx[x]
    BY <1>0, <1>1, RemovedLinks
<1>3. q \in [Tasks -> Slots \cup {0, NoPid}] /\ q[c] = 0 /\ \A x \in Tasks : x # c => q[x] = pg[x]
    BY <1>0, <1>1
<1>4. nx[c] # c
    <2>1. {c} \in SUBSET Tasks /\ {c} # {}
        BY <1>0
    <2> QED BY <2>1 DEF Linked, NoCycle
<1>5. ASSUME NEW x \in Tasks PROVE r[x] # c
    <2>1. CASE x = c
        BY <1>0, <1>2, <2>1
    <2>2. CASE x # c /\ nx[x] = c
        BY <1>2, <1>4, <2>2
    <2>3. CASE x # c /\ nx[x] # c
        BY <1>2, <2>3
    <2> QED BY <2>1, <2>2, <2>3
<1>6. LinksInGroups(ta, q, r, al)
    <2>1. ASSUME NEW x \in Tasks, NEW y \in Tasks, r[x] = r[y], r[x] # NoTask PROVE x = y
        <3>1. \A u, v \in Tasks : nx[u] = nx[v] /\ nx[u] # NoTask => u = v
            BY DEF Linked, LinksInGroups
        <3> QED BY <1>0, <1>2, <2>1, <3>1
    <2>2. ASSUME NEW x \in Tasks, r[x] # NoTask
          PROVE  x \in al /\ r[x] \in al /\ q[x] \in Slots /\ q[r[x]] = q[x] /\ r[x] # ta[q[x]]
        <3>1. \A u \in Tasks : nx[u] # NoTask =>
                 /\ u \in al /\ nx[u] \in al /\ pg[u] \in Slots
                 /\ pg[nx[u]] = pg[u] /\ nx[u] # ta[pg[u]]
            BY DEF Linked, LinksInGroups
        <3>2. x # c /\ r[x] # c /\ r[x] \in Tasks /\ q[x] = pg[x] /\ q[r[x]] = pg[r[x]]
            BY <1>2, <1>3, <1>5, <2>2
        <3>3. CASE nx[x] = c
            <4>1. r[x] = nx[c] /\ nx[c] # NoTask /\ nx[x] # NoTask
                BY <1>0, <1>2, <2>2, <3>2, <3>3
            <4> QED BY <1>0, <3>1, <3>2, <3>3, <4>1
        <3>4. CASE nx[x] # c
            <4>1. r[x] = nx[x]
                BY <1>2, <3>2, <3>4
            <4> QED BY <2>2, <3>1, <3>2, <4>1
        <3> QED BY <3>3, <3>4
    <2> QED BY <2>1, <2>2 DEF LinksInGroups
<1>7. MembersAreLinked(ta, q, r, al)
    <2> SUFFICES ASSUME NEW t \in al, q[t] \in Slots
                 PROVE  /\ \E i \in Slots : ta[i] = t
                        /\ ta[q[t]] # NoTask /\ q[ta[q[t]]] = q[t]
                        /\ t = ta[q[t]] \/ \E p \in Tasks : r[p] = t
        BY DEF MembersAreLinked
    <2>1. t # c /\ t \in Tasks /\ q[t] = pg[t] /\ pg[t] \in Slots
        BY <1>0, <1>3
    <2>2. /\ \E i \in Slots : ta[i] = t
          /\ ta[pg[t]] # NoTask /\ pg[ta[pg[t]]] = pg[t]
          /\ t = ta[pg[t]] \/ \E p \in Tasks : nx[p] = t
        BY <2>1 DEF Linked, MembersAreLinked
    <2>3. ta[pg[t]] # c /\ ta[pg[t]] \in Tasks
        <3>1. ta[pg[t]] \in Tasks
            BY <2>1, <2>2 DEF Linked, LinkTypes
        <3>2. ASSUME ta[pg[t]] = c PROVE FALSE
            <4>1. pg[c] = pg[t] /\ nx[c] = NoTask
                BY <2>1, <2>2, <3>2
            <4>2. t = ta[pg[t]]
                BY <2>1, <3>2, <4>1, LoneLeader
            <4> QED BY <2>1, <3>2, <4>2
        <3> QED BY <3>1, <3>2
    <2>4. ASSUME NEW p \in Tasks, nx[p] = t PROVE t = ta[pg[t]] \/ \E s \in Tasks : r[s] = t
        <3>1. CASE p # c
            BY <1>2, <2>1, <2>4, <3>1
        <3>2. CASE p = c
            <4>1. nx[c] # NoTask /\ nx[c] = t
                BY <1>0, <2>1, <2>4, <3>2
            <4>2. pg[c] \in Slots /\ ta[pg[c]] # c
                BY <1>0, <4>1 DEF Linked, LinksInGroups
            <4>3. PICK s \in Tasks : nx[s] = c
                BY <4>2 DEF Linked, MembersAreLinked
            <4>4. s # c
                BY <1>4, <4>3
            <4> QED BY <1>2, <4>1, <4>3, <4>4
        <3> QED BY <3>1, <3>2
    <2> QED BY <1>3, <2>1, <2>2, <2>3, <2>4
<1>8. NoCycle(r)
    <2> SUFFICES ASSUME NEW S \in SUBSET Tasks, S # {} PROVE \E t \in S : \A p \in S : r[p] # t
        BY DEF NoCycle
    <2>1. CASE c \in S
        BY <1>5, <2>1
    <2>2. CASE c \notin S
        <3>1. ASSUME \A t \in S : \E p \in S : r[p] = t PROVE FALSE
            <4>1. PICK U : U = S \cup {x \in {c} : nx[c] \in S}
                OBVIOUS
            <4>2. ASSUME NEW t \in S PROVE \E p \in U : nx[p] = t
                <5>1. PICK p \in S : r[p] = t
                    BY <3>1
                <5>2. p # c /\ p \in Tasks /\ t # NoTask
                    BY <1>0, <2>2
                <5>3. CASE nx[p] = c
                    <6>1. nx[c] = t
                        BY <1>2, <5>1, <5>2, <5>3
                    <6> QED BY <4>1, <6>1
                <5>4. CASE nx[p] # c
                    BY <1>2, <4>1, <5>1, <5>2, <5>4
                <5> QED BY <5>3, <5>4
            <4>3. ASSUME c \in U PROVE \E p \in U : nx[p] = c
                <5>1. nx[c] \in S
                    BY <2>2, <4>1, <4>3
                <5>2. PICK p \in S : r[p] = nx[c]
                    BY <3>1, <5>1
                <5>3. p # c /\ p \in Tasks /\ nx[c] # NoTask
                    BY <1>0, <2>2, <5>1
                <5>4. nx[p] = c
                    <6>1. \A u, v \in Tasks : nx[u] = nx[v] /\ nx[u] # NoTask => u = v
                        BY DEF Linked, LinksInGroups
                    <6>2. nx[p] # c => nx[p] = nx[c]
                        BY <1>2, <5>2, <5>3
                    <6> QED BY <1>0, <5>3, <6>1, <6>2
                <5> QED BY <4>1, <5>4
            <4>4. U \in SUBSET Tasks /\ U # {} /\ \A t \in U : t \in S \/ t = c
                BY <1>0, <4>1
            <4> QED BY <4>2, <4>3, <4>4 DEF Linked, NoCycle
        <3> QED BY <3>1
    <2> QED BY <2>1, <2>2
<1>9. LinkTypes(ta, q, r, al)
    BY <1>0, <1>2, <1>3 DEF LinkTypes
<1> QED BY <1>1, <1>6, <1>7, <1>8, <1>9 DEF Linked

\* A task that becomes the leader of its own number, which was nobody's group.
LEMMA LeadKeepsLinks ==
    ASSUME NEW ta, NEW pg, NEW nx, NEW al, Linked(ta, pg, nx, al),
           NEW c \in al, pg[c] \notin Slots, NEW g \in Slots, ta[g] = c
    PROVE  Linked(ta, [pg EXCEPT ![c] = g], nx, al)
<1>0. /\ c \in Tasks /\ NoTask \notin Tasks /\ LinkTypes(ta, pg, nx, al)
      /\ pg \in [Tasks -> Slots \cup {0, NoPid}] /\ al \subseteq Tasks
    BY ProcessAssumption DEF Linked, LinkTypes
<1>1. PICK q : q = [pg EXCEPT ![c] = g]
    OBVIOUS
<1>2. q \in [Tasks -> Slots \cup {0, NoPid}] /\ q[c] = g /\ \A x \in Tasks : x # c => q[x] = pg[x]
    BY <1>0, <1>1
<1>3. ASSUME NEW t \in al, pg[t] \in Slots PROVE t \in Tasks /\ t # c /\ pg[t] # g /\ ta[pg[t]] # c
    BY <1>0, <1>3 DEF Linked, MembersAreLinked
<1>4. LinkTypes(ta, q, nx, al)
    BY <1>0, <1>2 DEF LinkTypes
<1>5. LinksInGroups(ta, q, nx, al)
    <2>1. ASSUME NEW p \in Tasks, nx[p] # NoTask
          PROVE  /\ p \in al /\ nx[p] \in al /\ q[p] \in Slots
                 /\ q[nx[p]] = q[p] /\ nx[p] # ta[q[p]]
        <3>1. /\ p \in al /\ nx[p] \in al /\ pg[p] \in Slots
              /\ pg[nx[p]] = pg[p] /\ nx[p] # ta[pg[p]]
            BY <2>1 DEF Linked, LinksInGroups
        <3>2. q[p] = pg[p] /\ q[nx[p]] = pg[nx[p]]
            BY <1>2, <1>3, <3>1
        <3> QED BY <3>1, <3>2
    <2> QED BY <2>1 DEF Linked, LinksInGroups
<1>6. MembersAreLinked(ta, q, nx, al)
    <2> SUFFICES ASSUME NEW t \in al, q[t] \in Slots
                 PROVE  /\ \E i \in Slots : ta[i] = t
                        /\ ta[q[t]] # NoTask /\ q[ta[q[t]]] = q[t]
                        /\ t = ta[q[t]] \/ \E p \in Tasks : nx[p] = t
        BY DEF MembersAreLinked
    <2>1. CASE t = c
        BY <1>0, <1>2, <2>1
    <2>2. CASE t # c
        <3>1. q[t] = pg[t] /\ pg[t] \in Slots
            BY <1>0, <1>2, <2>2
        <3>2. /\ \E i \in Slots : ta[i] = t
              /\ ta[pg[t]] # NoTask /\ pg[ta[pg[t]]] = pg[t]
              /\ t = ta[pg[t]] \/ \E p \in Tasks : nx[p] = t
            BY <3>1 DEF Linked, MembersAreLinked
        <3>3. ta[pg[t]] \in Tasks /\ ta[pg[t]] # c
            BY <1>0, <1>3, <3>1, <3>2 DEF LinkTypes
        <3> QED BY <1>2, <3>1, <3>2, <3>3
    <2> QED BY <2>1, <2>2
<1> QED BY <1>1, <1>4, <1>5, <1>6 DEF Linked

\* A task that goes in front of the chain of a leader.
Joined(nx, c, l) == [nx EXCEPT ![c] = nx[l], ![l] = c]

LEMMA JoinKeepsLinks ==
    ASSUME NEW ta, NEW pg, NEW nx, NEW al, Linked(ta, pg, nx, al),
           NEW c \in al, pg[c] \notin Slots, \E i \in Slots : ta[i] = c,
           NEW g \in Slots, NEW l \in al, ta[g] = l, pg[l] = g
    PROVE  Linked(ta, [pg EXCEPT ![c] = g], Joined(nx, c, l), al)
<1>0. /\ c \in Tasks /\ l \in Tasks /\ c # l /\ NoTask \notin Tasks /\ LinkTypes(ta, pg, nx, al)
      /\ nx \in [Tasks -> Tasks \cup {NoTask}]
      /\ pg \in [Tasks -> Slots \cup {0, NoPid}] /\ al \subseteq Tasks
    BY ProcessAssumption DEF Linked, LinkTypes
<1>1. PICK q, r : q = [pg EXCEPT ![c] = g] /\ r = Joined(nx, c, l)
    OBVIOUS
<1>2. q \in [Tasks -> Slots \cup {0, NoPid}] /\ q[c] = g /\ \A x \in Tasks : x # c => q[x] = pg[x]
    BY <1>0, <1>1
<1>3. /\ r \in [Tasks -> Tasks \cup {NoTask}] /\ r[c] = nx[l] /\ r[l] = c
      /\ \A x \in Tasks : x # c /\ x # l => r[x] = nx[x]
    BY <1>0, <1>1 DEF Joined
<1>4. /\ nx[c] = NoTask /\ \A p \in Tasks : nx[p] # c /\ nx[p] # l
    <2>1. ASSUME NEW p \in Tasks, nx[p] # NoTask
          PROVE  /\ p \in al /\ nx[p] \in al /\ pg[p] \in Slots
                 /\ pg[nx[p]] = pg[p] /\ nx[p] # ta[pg[p]]
        BY <2>1 DEF Linked, LinksInGroups
    <2>2. nx[c] = NoTask
        BY <1>0, <2>1
    <2>3. ASSUME NEW p \in Tasks PROVE nx[p] # c
        BY <1>0, <2>1
    <2>4. ASSUME NEW p \in Tasks PROVE nx[p] # l
        BY <1>0, <2>1
    <2> QED BY <2>2, <2>3, <2>4
<1>5. LinkTypes(ta, q, r, al)
    BY <1>0, <1>2, <1>3 DEF LinkTypes
<1>6. LinksInGroups(ta, q, r, al)
    <2>1. ASSUME NEW x \in Tasks, NEW y \in Tasks, r[x] = r[y], r[x] # NoTask PROVE x = y
        <3>1. \A u, v \in Tasks : nx[u] = nx[v] /\ nx[u] # NoTask => u = v
            BY DEF Linked, LinksInGroups
        <3>2. nx[l] # c
            BY <1>0, <1>4
        <3>3. CASE x = l \/ y = l
            BY <1>0, <1>3, <1>4, <2>1, <3>2, <3>3
        <3>4. CASE x # l /\ y # l
            BY <1>0, <1>3, <2>1, <3>1, <3>4
        <3> QED BY <3>3, <3>4
    <2>2. ASSUME NEW x \in Tasks, r[x] # NoTask
          PROVE  x \in al /\ r[x] \in al /\ q[x] \in Slots /\ q[r[x]] = q[x] /\ r[x] # ta[q[x]]
        <3>1. ASSUME NEW u \in Tasks, nx[u] # NoTask
              PROVE  /\ u \in al /\ nx[u] \in al /\ pg[u] \in Slots
                     /\ pg[nx[u]] = pg[u] /\ nx[u] # ta[pg[u]] /\ q[nx[u]] = pg[nx[u]]
            <4>1. /\ u \in al /\ nx[u] \in al /\ pg[u] \in Slots
                  /\ pg[nx[u]] = pg[u] /\ nx[u] # ta[pg[u]]
                BY <3>1 DEF Linked, LinksInGroups
            <4>2. nx[u] \in Tasks /\ nx[u] # c
                BY <1>0, <1>4, <4>1
            <4> QED BY <1>2, <4>1, <4>2
        <3>2. CASE x = l
            BY <1>0, <1>2, <1>3, <3>2
        <3>3. CASE x = c
            <4>1. r[x] = nx[l] /\ nx[l] # NoTask
                BY <1>3, <2>2, <3>3
            <4> QED BY <1>0, <1>2, <3>1, <3>3, <4>1
        <3>4. CASE x # l /\ x # c
            BY <1>2, <1>3, <2>2, <3>1, <3>4
        <3> QED BY <3>2, <3>3, <3>4
    <2> QED BY <2>1, <2>2 DEF LinksInGroups
<1>7. MembersAreLinked(ta, q, r, al)
    <2> SUFFICES ASSUME NEW t \in al, q[t] \in Slots
                 PROVE  /\ \E i \in Slots : ta[i] = t
                        /\ ta[q[t]] # NoTask /\ q[ta[q[t]]] = q[t]
                        /\ t = ta[q[t]] \/ \E p \in Tasks : r[p] = t
        BY DEF MembersAreLinked
    <2>1. CASE t = c
        BY <1>0, <1>2, <1>3, <2>1
    <2>2. CASE t # c
        <3>1. q[t] = pg[t] /\ pg[t] \in Slots /\ t \in Tasks
            BY <1>0, <1>2, <2>2
        <3>2. /\ \E i \in Slots : ta[i] = t
              /\ ta[pg[t]] # NoTask /\ pg[ta[pg[t]]] = pg[t]
              /\ t = ta[pg[t]] \/ \E p \in Tasks : nx[p] = t
            BY <3>1 DEF Linked, MembersAreLinked
        <3>3. ta[pg[t]] \in Tasks /\ ta[pg[t]] # c
            BY <1>0, <3>1, <3>2 DEF LinkTypes
        <3>4. ASSUME NEW p \in Tasks, nx[p] = t PROVE \E s \in Tasks : r[s] = t
            <4>1. p # c
                BY <1>0, <1>4, <3>1, <3>4
            <4> QED BY <1>0, <1>3, <3>4, <4>1
        <3> QED BY <1>2, <3>1, <3>2, <3>3, <3>4
    <2> QED BY <2>1, <2>2
<1>8. NoCycle(r)
    <2> SUFFICES ASSUME NEW S \in SUBSET Tasks, S # {}, \A t \in S : \E p \in S : r[p] = t PROVE FALSE
        BY DEF NoCycle
    <2>1. \A p \in Tasks : r[p] # l
        BY <1>0, <1>3, <1>4
    <2>2. l \notin S
        BY <2>1
    <2>3. c \notin S
        <3>1. ASSUME NEW p \in S PROVE r[p] # c
            <4>1. p \in Tasks /\ p # l
                BY <2>2
            <4>2. CASE p = c
                BY <1>0, <1>3, <1>4, <4>2
            <4>3. CASE p # c
                BY <1>3, <1>4, <4>1, <4>3
            <4> QED BY <4>2, <4>3
        <3> QED BY <3>1
    <2>4. \A t \in S : \E p \in S : nx[p] = t
        BY <1>3, <2>2, <2>3
    <2> QED BY <2>4 DEF Linked, NoCycle
<1> QED BY <1>1, <1>5, <1>6, <1>7, <1>8 DEF Linked

\* A new task, in no group, and the slot it takes.
LEMMA BirthKeepsLinks ==
    ASSUME NEW ta, NEW pg, NEW nx, NEW al, Linked(ta, pg, nx, al),
           NEW c \in Tasks, c \notin al
    PROVE  Linked(ta, [pg EXCEPT ![c] = 0], nx, al \cup {c})
<1>0. /\ NoTask \notin Tasks /\ 0 \notin Slots /\ LinkTypes(ta, pg, nx, al)
      /\ pg \in [Tasks -> Slots \cup {0, NoPid}] /\ al \subseteq Tasks
    BY ProcessAssumption, SlotFacts DEF Linked, LinkTypes
<1>1. PICK q : q = [pg EXCEPT ![c] = 0]
    OBVIOUS
<1>2. q \in [Tasks -> Slots \cup {0, NoPid}] /\ q[c] = 0 /\ \A x \in Tasks : x # c => q[x] = pg[x]
    BY <1>0, <1>1
<1>3. LinkTypes(ta, q, nx, al \cup {c})
    BY <1>0, <1>2 DEF LinkTypes
<1>4. LinksInGroups(ta, q, nx, al \cup {c})
    <2>1. ASSUME NEW p \in Tasks, nx[p] # NoTask
          PROVE  /\ p \in al /\ nx[p] \in al /\ q[p] \in Slots
                 /\ q[nx[p]] = q[p] /\ nx[p] # ta[q[p]]
        <3>1. /\ p \in al /\ nx[p] \in al /\ pg[p] \in Slots
              /\ pg[nx[p]] = pg[p] /\ nx[p] # ta[pg[p]]
            BY <2>1 DEF Linked, LinksInGroups
        <3>2. q[p] = pg[p] /\ q[nx[p]] = pg[nx[p]]
            BY <1>0, <1>2, <3>1
        <3> QED BY <3>1, <3>2
    <2> QED BY <2>1 DEF Linked, LinksInGroups
<1>5. MembersAreLinked(ta, q, nx, al \cup {c})
    <2> SUFFICES ASSUME NEW t \in al \cup {c}, q[t] \in Slots
                 PROVE  /\ \E i \in Slots : ta[i] = t
                        /\ ta[q[t]] # NoTask /\ q[ta[q[t]]] = q[t]
                        /\ t = ta[q[t]] \/ \E p \in Tasks : nx[p] = t
        BY DEF MembersAreLinked
    <2>1. t \in al /\ t \in Tasks /\ q[t] = pg[t] /\ pg[t] \in Slots
        BY <1>0, <1>2
    <2>2. /\ \E i \in Slots : ta[i] = t
          /\ ta[pg[t]] # NoTask /\ pg[ta[pg[t]]] = pg[t]
          /\ t = ta[pg[t]] \/ \E p \in Tasks : nx[p] = t
        BY <2>1 DEF Linked, MembersAreLinked
    <2>3. ta[pg[t]] \in Tasks /\ ta[pg[t]] # c
        <3>1. ta[pg[t]] \in Tasks
            BY <1>0, <2>1, <2>2 DEF LinkTypes
        <3>2. CASE nx[ta[pg[t]]] = NoTask
            BY <2>1, <3>1, <3>2, LoneLeader
        <3>3. CASE nx[ta[pg[t]]] # NoTask
            BY <3>1, <3>3 DEF Linked, LinksInGroups
        <3> QED BY <3>1, <3>2, <3>3
    <2> QED BY <1>2, <2>1, <2>2, <2>3
<1> QED BY <1>1, <1>3, <1>4, <1>5 DEF Linked

LEMMA SlotKeepsLinks ==
    ASSUME NEW ta, NEW pg, NEW nx, NEW al, Linked(ta, pg, nx, al),
           NEW i \in Slots, ta[i] = NoTask, NEW c \in Tasks
    PROVE  Linked([ta EXCEPT ![i] = c], pg, nx, al)
<1>0. NoTask \notin Tasks /\ LinkTypes(ta, pg, nx, al) /\ ta \in [Slots -> Tasks \cup {NoTask}]
    BY ProcessAssumption DEF Linked, LinkTypes
<1>1. PICK a : a = [ta EXCEPT ![i] = c]
    OBVIOUS
<1>2. a \in [Slots -> Tasks \cup {NoTask}] /\ \A j \in Slots : j # i => a[j] = ta[j]
    BY <1>0, <1>1
<1>3. LinkTypes(a, pg, nx, al)
    BY <1>0, <1>2 DEF LinkTypes
<1>4. ASSUME NEW t \in al, pg[t] \in Slots PROVE a[pg[t]] = ta[pg[t]]
    BY <1>2, <1>4 DEF Linked, MembersAreLinked
<1>5. LinksInGroups(a, pg, nx, al)
    BY <1>4 DEF Linked, LinksInGroups
<1>6. MembersAreLinked(a, pg, nx, al)
    <2> SUFFICES ASSUME NEW t \in al, pg[t] \in Slots
                 PROVE  /\ \E j \in Slots : a[j] = t
                        /\ a[pg[t]] # NoTask /\ pg[a[pg[t]]] = pg[t]
                        /\ t = a[pg[t]] \/ \E p \in Tasks : nx[p] = t
        BY DEF MembersAreLinked
    <2>1. /\ \E j \in Slots : ta[j] = t
          /\ ta[pg[t]] # NoTask /\ pg[ta[pg[t]]] = pg[t]
          /\ t = ta[pg[t]] \/ \E p \in Tasks : nx[p] = t
        BY DEF Linked, MembersAreLinked
    <2>2. \E j \in Slots : a[j] = t
        BY <1>0, <1>2, <2>1 DEF LinkTypes
    <2> QED BY <1>4, <2>1, <2>2
<1> QED BY <1>1, <1>3, <1>5, <1>6 DEF Linked

\* Deleting a task that nothing is linked to.
LEMMA DeathKeepsLinks ==
    ASSUME NEW ta, NEW pg, NEW nx, NEW al, Linked(ta, pg, nx, al),
           NEW i \in Slots, NEW z \in al, ta[i] = z,
           nx[z] = NoTask, \A p \in Tasks : nx[p] # z
    PROVE  Linked([ta EXCEPT ![i] = NoTask], pg, nx, al \ {z})
<1>0. NoTask \notin Tasks /\ LinkTypes(ta, pg, nx, al) /\ ta \in [Slots -> Tasks \cup {NoTask}] /\ al \subseteq Tasks
    BY ProcessAssumption DEF Linked, LinkTypes
<1>1. PICK a : a = [ta EXCEPT ![i] = NoTask]
    OBVIOUS
<1>2. a \in [Slots -> Tasks \cup {NoTask}] /\ a[i] = NoTask /\ \A j \in Slots : j # i => a[j] = ta[j]
    BY <1>0, <1>1
<1>3. LinkTypes(a, pg, nx, al \ {z})
    BY <1>0, <1>2 DEF LinkTypes
<1>4. ASSUME NEW t \in al \ {z}, pg[t] \in Slots PROVE a[pg[t]] = ta[pg[t]]
    <2>1. ASSUME pg[t] = i PROVE FALSE
        BY <1>4, <2>1, LoneLeader
    <2> QED BY <1>2, <1>4, <2>1
<1>5. LinksInGroups(a, pg, nx, al \ {z})
    <2>1. ASSUME NEW p \in Tasks, nx[p] # NoTask
          PROVE  /\ p \in al \ {z} /\ nx[p] \in al \ {z} /\ pg[p] \in Slots
                 /\ pg[nx[p]] = pg[p] /\ nx[p] # a[pg[p]]
        <3>1. /\ p \in al /\ nx[p] \in al /\ pg[p] \in Slots
              /\ pg[nx[p]] = pg[p] /\ nx[p] # ta[pg[p]]
            BY <2>1 DEF Linked, LinksInGroups
        <3>2. p # z /\ nx[p] # z
            BY <2>1
        <3> QED BY <1>4, <3>1, <3>2
    <2> QED BY <2>1 DEF Linked, LinksInGroups
<1>6. MembersAreLinked(a, pg, nx, al \ {z})
    <2> SUFFICES ASSUME NEW t \in al \ {z}, pg[t] \in Slots
                 PROVE  /\ \E j \in Slots : a[j] = t
                        /\ a[pg[t]] # NoTask /\ pg[a[pg[t]]] = pg[t]
                        /\ t = a[pg[t]] \/ \E p \in Tasks : nx[p] = t
        BY DEF MembersAreLinked
    <2>1. /\ \E j \in Slots : ta[j] = t
          /\ ta[pg[t]] # NoTask /\ pg[ta[pg[t]]] = pg[t]
          /\ t = ta[pg[t]] \/ \E p \in Tasks : nx[p] = t
        BY DEF Linked, MembersAreLinked
    <2>2. \E j \in Slots : a[j] = t
        BY <1>2, <2>1
    <2> QED BY <1>4, <2>1, <2>2
<1> QED BY <1>1, <1>3, <1>5, <1>6 DEF Linked

-----------------------------------------------------------------------------
Successor(x) == IF x = NoTask THEN NoTask ELSE next[x]

\* a holds the n + 1 places of the walk from h that SetTaskSignal and UnlinkFromProcGrp take.
IsWalk(a, n, h) ==
    /\ n = Cardinality(Tasks) /\ n \in Nat /\ a = Along(h)
    /\ a \in [0..n -> Tasks \cup {NoTask}] /\ a[0] = h
    /\ \A i \in 1..n : a[i] = Successor(a[i - 1])

\* The recursion of Along has the places it describes.
LEMMA WalkIs ==
    ASSUME next \in [Tasks -> Tasks \cup {NoTask}], NEW h \in Tasks \cup {NoTask}
    PROVE  \E a, n : IsWalk(a, n, h)
<1>1. PICK n \in Nat : n = Cardinality(Tasks)
    BY SignalsAssumption, FS_CardinalityType
<1>2. PICK V : V = Tasks \cup {NoTask}
    OBVIOUS
<1>3. PICK F : F = [x \in V \X (1..n) |-> Successor(x[1])]
    OBVIOUS
<1>4. F \in [V \X (1..n) -> V]
    <2>1. \A x \in V : Successor(x) \in V
        BY <1>2 DEF Successor
    <2> QED BY <1>3, <2>1
<1>5. PICK e \in [0..n -> V] : e[0] = h /\ \A i \in 1..n : e[i] = F[<<e[i - 1], i>>]
    <2>1. h \in V
        BY <1>2
    <2>2. \E s \in [0..n -> V] : Solves(s, n, h, F)
        BY <1>4, <2>1, Recursion
    <2> QED BY <2>2 DEF Solves
<1>6. ASSUME NEW i \in 1..n PROVE e[i] = Successor(e[i - 1])
    <2>1. i - 1 \in 0..n
        OBVIOUS
    <2>2. <<e[i - 1], i>> \in V \X (1..n)
        BY <1>5, <2>1
    <2>3. F[<<e[i - 1], i>>] = Successor(e[i - 1])
        BY <1>3, <2>2
    <2> QED BY <1>5, <2>3
<1>7. PICK a : /\ a = (CHOOSE b : b = [k \in 0..n |-> IF k = 0 THEN h ELSE Successor(b[k - 1])])
               /\ Along(h) = a
    BY <1>1, ZenonT(30) DEF Along, Successor
<1>8. e = [k \in 0..n |-> IF k = 0 THEN h ELSE Successor(e[k - 1])]
    <2>0. PICK b : b = [k \in 0..n |-> IF k = 0 THEN h ELSE Successor(e[k - 1])]
        OBVIOUS
    <2>1. ASSUME NEW k \in 0..n PROVE e[k] = b[k]
        <3>1. CASE k = 0
            BY <1>5, <2>0, <3>1
        <3>2. CASE k # 0
            <4>1. k \in 1..n
                BY <3>2
            <4> QED BY <1>6, <2>0, <3>2, <4>1
        <3> QED BY <3>1, <3>2
    <2>2. b = [k \in 0..n |-> b[k]]
        BY <2>0
    <2> QED BY <1>5, <2>0, <2>1, <2>2
<1>9. a = [k \in 0..n |-> IF k = 0 THEN h ELSE Successor(a[k - 1])]
    BY <1>7, <1>8, Zenon
<1>10. PICK S : S = {k \in 0..n : a[k] = e[k]}
    OBVIOUS
<1>11. 0 \in S
    <2>1. 0 \in 0..n
        OBVIOUS
    <2>2. a[0] = h
        BY <1>9, <2>1, Zenon
    <2> QED BY <1>5, <1>10, <2>1, <2>2
<1>12. ASSUME NEW k \in 0..(n - 1), k \in S PROVE k + 1 \in S
    <2>1. k + 1 \in 0..n /\ k + 1 # 0 /\ (k + 1) - 1 = k /\ k + 1 \in 1..n
        OBVIOUS
    <2>2. a[k + 1] = Successor(a[(k + 1) - 1])
        BY <1>9, <2>1, Zenon
    <2>3. a[k] = e[k]
        BY <1>10, <1>12
    <2>4. e[k + 1] = Successor(e[k])
        BY <1>6, <2>1
    <2> QED BY <1>10, <2>1, <2>2, <2>3, <2>4
<1>13. \A k \in 0..n : a[k] = e[k]
    BY <1>10, <1>11, <1>12, InductionUpTo
<1>14. a \in [0..n -> V] /\ DOMAIN a = 0..n
    <2>1. PICK D : D = [k \in 0..n |-> a[k]]
        OBVIOUS
    <2>2. a = D
        BY <1>9, <2>1
    <2> QED BY <1>5, <1>13, <2>1, <2>2
<1>15. \A i \in 1..n : i - 1 \in 0..n /\ i \in 0..n
    OBVIOUS
<1>16. 0 \in 0..n
    OBVIOUS
<1>17. a[0] = h
    BY <1>5, <1>13, <1>16
<1>18. ASSUME NEW i \in 1..n PROVE a[i] = Successor(a[i - 1])
    <2>1. a[i] = e[i] /\ a[i - 1] = e[i - 1]
        BY <1>13, <1>15
    <2> QED BY <1>6, <2>1
<1>19. IsWalk(a, n, h)
    BY <1>1, <1>2, <1>7, <1>14, <1>17, <1>18 DEF IsWalk
<1> QED BY <1>19

\* A chain without a cycle is over before it is longer than there are tasks.
LEMMA WalkEnds ==
    ASSUME next \in [Tasks -> Tasks \cup {NoTask}], NoCycle(next), NEW a, NEW n, NEW h, IsWalk(a, n, h)
    PROVE  a[n] = NoTask
<1>0. /\ n \in Nat /\ n = Cardinality(Tasks) /\ a \in [0..n -> Tasks \cup {NoTask}] /\ n \in 0..n
      /\ \A i \in 1..n : a[i] = IF a[i - 1] = NoTask THEN NoTask ELSE next[a[i - 1]]
    BY DEF IsWalk, Successor
<1> SUFFICES ASSUME a[n] # NoTask PROVE FALSE
    OBVIOUS
<1>1. ASSUME NEW k \in 0..n PROVE a[k] \in Tasks
    <2>1. PICK S : S = {j \in 0..n : a[n - j] \in Tasks}
        OBVIOUS
    <2>2. 0 \in S
        BY <1>0, <2>1
    <2>3. ASSUME NEW j \in 0..(n - 1), j \in S PROVE j + 1 \in S
        <3>1. PICK i : i = n - j
            OBVIOUS
        <3>2. i \in 1..n /\ i - 1 \in 0..n /\ i - 1 = n - (j + 1) /\ j + 1 \in 0..n
            BY <1>0, <3>1
        <3>3. a[i] \in Tasks
            BY <2>1, <2>3, <3>1
        <3>4. a[i - 1] # NoTask
            BY <1>0, <3>2, <3>3, ProcessAssumption
        <3>5. a[i - 1] \in Tasks
            BY <1>0, <3>2, <3>4
        <3> QED BY <2>1, <3>2, <3>5
    <2>4. 0..n \subseteq S
        BY <1>0, <2>2, <2>3, InductionUpTo
    <2>5. n - k \in 0..n /\ n - (n - k) = k
        BY <1>0
    <2>6. a[n - (n - k)] \in Tasks
        BY <2>1, <2>4, <2>5
    <2> QED BY <2>5, <2>6
<1>2. a \in [0..n -> Tasks]
    BY <1>0, <1>1
<1>3. PICK i, j \in 0..n : i < j /\ a[i] = a[j]
    <2>1. PICK lo, hi \in Int : lo = 0 /\ hi = n
        BY <1>0
    <2>2. IsFiniteSet(lo..hi) /\ Cardinality(lo..hi) = n + 1
        <3>1. IsFiniteSet(lo..hi) /\ Cardinality(lo..hi) = IF lo > hi THEN 0 ELSE hi - lo + 1
            BY FS_Interval
        <3> QED BY <1>0, <2>1, <3>1
    <2>3. PICK D : D = 0..n
        OBVIOUS
    <2>4. IsFiniteSet(D) /\ Cardinality(Tasks) < Cardinality(D) /\ a \in [D -> Tasks]
        BY <1>0, <1>2, <2>1, <2>2, <2>3
    <2>5. \E x, y \in D : x # y /\ a[x] = a[y]
        BY <2>4, SignalsAssumption, FS_PigeonHole
    <2>6. PICK x, y \in 0..n : x # y /\ a[x] = a[y]
        BY <2>3, <2>5
    <2>7. x < y \/ y < x
        BY <1>0, <2>6
    <2> QED BY <2>6, <2>7
<1>4. PICK S : S = {a[k] : k \in (i + 1)..j}
    OBVIOUS
<1>5. i \in Int /\ j \in Int /\ 0 <= i /\ i < j /\ j <= n /\ j \in (i + 1)..j
    BY <1>0, <1>3
<1>6. S # {} /\ S \in SUBSET Tasks
    <2>1. \A k \in (i + 1)..j : k \in 0..n
        BY <1>0, <1>5
    <2> QED BY <1>1, <1>4, <1>5, <2>1
<1>7. ASSUME NEW t \in S PROVE \E p \in S : next[p] = t
    <2>1. PICK k \in (i + 1)..j : t = a[k]
        BY <1>4
    <2>2. k \in 1..n /\ k - 1 \in 0..n
        BY <1>0, <1>5
    <2>3. next[a[k - 1]] = t
        BY <1>0, <1>1, <2>1, <2>2, ProcessAssumption
    <2>4. CASE k - 1 \in (i + 1)..j
        BY <1>4, <2>3, <2>4
    <2>5. CASE k - 1 \notin (i + 1)..j
        <3>1. k - 1 = i
            BY <1>5, <2>1, <2>5
        <3>2. a[k - 1] = a[j]
            BY <1>3, <3>1
        <3> QED BY <1>4, <1>5, <2>3, <3>2
    <2> QED BY <2>4, <2>5
<1> QED BY <1>6, <1>7 DEF NoCycle

\* The tasks of a chain: its first, and with each its successor.
LEMMA ChainIs ==
    ASSUME next \in [Tasks -> Tasks \cup {NoTask}], NEW h \in Tasks \cup {NoTask}
    PROVE  /\ Chain(h) \subseteq Tasks
           /\ h \in Tasks => h \in Chain(h)
           /\ \A x \in Chain(h) : x = h \/ \E p \in Chain(h) : next[p] = x
           /\ h = NoTask => Chain(h) = {}
           /\ NoCycle(next) => /\ \E n \in DOMAIN Along(h) : Along(h)[n] = NoTask
                               /\ \A x \in Chain(h) : next[x] # NoTask => next[x] \in Chain(h)
<1>1. PICK a, n : IsWalk(a, n, h)
    BY WalkIs
<1>2. /\ n \in Nat /\ a = Along(h) /\ a \in [0..n -> Tasks \cup {NoTask}] /\ a[0] = h /\ DOMAIN a = 0..n
      /\ \A i \in 1..n : a[i] = IF a[i - 1] = NoTask THEN NoTask ELSE next[a[i - 1]]
    BY <1>1 DEF IsWalk, Successor
<1>3. Chain(h) = {a[k] : k \in 0..n} \ {NoTask}
    BY <1>2, Zenon DEF Chain
<1>4. 0 \in 0..n /\ n \in 0..n
    BY <1>2
<1>5. Chain(h) \subseteq Tasks /\ (h \in Tasks => h \in Chain(h))
    BY <1>2, <1>3, <1>4, ProcessAssumption
<1>6. ASSUME NEW x \in Chain(h), x # h PROVE \E p \in Chain(h) : next[p] = x
    <2>1. PICK k \in 0..n : x = a[k] /\ x # NoTask
        BY <1>3
    <2>2. k \in 1..n /\ k - 1 \in 0..n
        BY <1>2, <1>6, <2>1
    <2>3. a[k - 1] # NoTask /\ next[a[k - 1]] = x
        BY <1>2, <2>1, <2>2
    <2> QED BY <1>3, <2>2, <2>3
<1>7. h = NoTask => Chain(h) = {}
    <2> SUFFICES ASSUME h = NoTask, NEW x \in Chain(h) PROVE FALSE
        OBVIOUS
    <2>1. PICK S : S = {k \in 0..n : a[k] = NoTask}
        OBVIOUS
    <2>2. 0 \in S
        BY <1>2, <1>4, <2>1
    <2>3. ASSUME NEW k \in 0..(n - 1), k \in S PROVE k + 1 \in S
        <3>1. k + 1 \in 1..n /\ (k + 1) - 1 = k /\ k + 1 \in 0..n
            BY <1>2
        <3> QED BY <1>2, <2>1, <2>3, <3>1
    <2>4. 0..n \subseteq S
        BY <1>2, <2>2, <2>3, InductionUpTo
    <2> QED BY <1>3, <2>1, <2>4
<1>8. ASSUME NoCycle(next)
      PROVE  /\ \E m \in DOMAIN Along(h) : Along(h)[m] = NoTask
             /\ \A x \in Chain(h) : next[x] # NoTask => next[x] \in Chain(h)
    <2>1. a[n] = NoTask
        BY <1>1, <1>8, WalkEnds
    <2>2. ASSUME NEW x \in Chain(h), next[x] # NoTask PROVE next[x] \in Chain(h)
        <3>1. PICK k \in 0..n : x = a[k] /\ x # NoTask
            BY <1>3
        <3>2. k # n
            BY <2>1, <3>1
        <3>3. k + 1 \in 1..n /\ (k + 1) - 1 = k /\ k + 1 \in 0..n
            BY <1>2, <3>2
        <3>4. a[k + 1] = next[x]
            BY <1>2, <3>1, <3>3
        <3> QED BY <1>3, <2>2, <3>3, <3>4
    <2> QED BY <1>2, <1>4, <2>1, <2>2
<1> QED BY <1>5, <1>6, <1>7, <1>8

\* The structures that have been built and not deleted.
Living == {t \in Tasks : state[t] # "NONE" /\ t \notin freed}
GroupInv == Linked(taskArray, pgid, next, Living)

\* The chain of a leader is its group.
LEMMA ChainIsGroup ==
    ASSUME GroupInv, NEW g \in Slots, taskArray[g] # NoTask, pgid[taskArray[g]] = g,
           taskArray[g] \in Living
    PROVE  /\ \E n \in DOMAIN Along(taskArray[g]) : Along(taskArray[g])[n] = NoTask
           /\ Chain(taskArray[g]) = {t \in Living : pgid[t] = g}
<1>1. PICK h \in Living : h = taskArray[g]
    OBVIOUS
<1>2. /\ h \in Tasks /\ next \in [Tasks -> Tasks \cup {NoTask}] /\ NoCycle(next) /\ NoTask \notin Tasks
      /\ Living \subseteq Tasks
    BY ProcessAssumption DEF Living, GroupInv, Linked, LinkTypes
<1>3. PICK C : C = Chain(h)
    OBVIOUS
<1>4. /\ C \subseteq Tasks /\ h \in C
      /\ \A x \in C : x = h \/ \E p \in C : next[p] = x
      /\ \E n \in DOMAIN Along(h) : Along(h)[n] = NoTask
      /\ \A x \in C : next[x] # NoTask => next[x] \in C
    BY <1>2, <1>3, ChainIs
<1>5. PICK M : M = {t \in Living : pgid[t] = g}
    OBVIOUS
<1>6. M \subseteq C
    <2>1. PICK S : S = M \ C
        OBVIOUS
    <2>2. ASSUME NEW x \in S PROVE \E p \in S : next[p] = x
        <3>1. x \in Living /\ pgid[x] = g /\ x # h /\ x \in Tasks /\ x \notin C
            BY <1>2, <1>4, <1>5, <2>1
        <3>2. PICK p \in Tasks : next[p] = x
            BY <1>1, <3>1 DEF GroupInv, Linked, MembersAreLinked
        <3>3. p \in Living /\ pgid[p] = g /\ next[p] # NoTask
            BY <1>2, <3>1, <3>2 DEF GroupInv, Linked, LinksInGroups
        <3>4. p \notin C
            BY <1>4, <3>1, <3>2, <3>3
        <3> QED BY <1>5, <2>1, <3>2, <3>3, <3>4
    <2>3. S = {}
        BY <1>2, <1>5, <2>1, <2>2 DEF NoCycle
    <2> QED BY <2>1, <2>3
<1>7. C \subseteq M
    <2>1. PICK S : S = C \ M
        OBVIOUS
    <2>2. ASSUME NEW x \in S PROVE \E p \in S : next[p] = x
        <3>1. x \in C /\ x \notin M /\ x # h
            BY <1>1, <1>5, <2>1
        <3>2. PICK p \in C : next[p] = x
            BY <1>4, <3>1
        <3>3. next[p] # NoTask /\ p \in Tasks
            BY <1>2, <1>4, <3>1, <3>2
        <3>4. p \in Living /\ x \in Living /\ pgid[x] = pgid[p]
            BY <3>2, <3>3 DEF GroupInv, Linked, LinksInGroups
        <3> QED BY <1>5, <2>1, <3>1, <3>2, <3>4
    <2>3. S = {}
        BY <1>2, <1>4, <2>1, <2>2 DEF NoCycle
    <2> QED BY <2>1, <2>3
<1> QED BY <1>1, <1>3, <1>4, <1>5, <1>6, <1>7

\* A task of the table has been built, is not deleted and has its slot as pid.
LEMMA TableLives ==
    ASSUME ProcInv, NEW t \in Tasks, InTable(t)
    PROVE  t \in Living /\ pid[t] \in Slots /\ taskArray[pid[t]] = t
<1>1. PICK i \in Slots : taskArray[i] = t
    BY DEF InTable
<1> QED BY <1>1, ProcessAssumption DEF Living, ProcInv, TableAgrees, Placed

LEMMA CallerIsInTable ==
    ASSUME ProcInv, NEW t \in Tasks, Calling(t)
    PROVE  InTable(t)
BY DEF ProcInv, Placed, Calling, Running

\* UnlinkFromProcGrp finds the predecessor in the chain it walks, if there is one.
LEMMA UnlinkRemoves ==
    ASSUME ProcInv, GroupInv, NEW c \in Tasks, InTable(c), ~Leads(c)
    PROVE  /\ UnlinkFromProcGrp(c) = Removed(next, c)
           /\ pgid[c] \in Slots /\ taskArray[pgid[c]] = c => next[c] = NoTask
           /\ pgid[c] \notin Slots => Removed(next, c) = next
           /\ pgid[c] = pid[c] => Removed(next, c) = next
<1>0. /\ next \in [Tasks -> Tasks \cup {NoTask}] /\ pgid \in [Tasks -> Slots \cup {0, NoPid}]
      /\ taskArray \in [Slots -> Tasks \cup {NoTask}] /\ NoTask \notin Tasks
      /\ c \in Living /\ pid[c] \in Slots /\ taskArray[pid[c]] = c
    BY ProcessAssumption, TableLives DEF GroupInv, Linked, LinkTypes
<1>1. ASSUME NEW p \in Tasks, next[p] # NoTask
      PROVE  /\ p \in Living /\ next[p] \in Living /\ pgid[p] \in Slots
             /\ pgid[next[p]] = pgid[p] /\ next[p] # taskArray[pgid[p]]
    BY <1>1 DEF GroupInv, Linked, LinksInGroups
<1>2. pgid[c] \in Slots /\ taskArray[pgid[c]] = c => next[c] = NoTask /\ pid[c] = pgid[c]
    BY <1>0 DEF Leads, ProcInv, TableAgrees
<1>3. ASSUME next[c] = NoTask, \A p \in Tasks : next[p] # c PROVE Removed(next, c) = next
    <2>1. PICK r : r = Removed(next, c)
        OBVIOUS
    <2>2. \A x \in Tasks : r[x] = next[x]
        BY <1>3, <2>1 DEF Removed
    <2>3. r \in [Tasks -> Tasks \cup {NoTask}]
        BY <1>0, <2>1, RemovedLinks
    <2> QED BY <1>0, <2>1, <2>2, <2>3
<1>4. pgid[c] \notin Slots => next[c] = NoTask /\ \A p \in Tasks : next[p] # c
    BY <1>0, <1>1
<1>5. pgid[c] = pid[c] => next[c] = NoTask /\ \A p \in Tasks : next[p] # c
    BY <1>0, <1>1, <1>2
<1>6. CASE next[c] = NoTask /\ \A p \in Tasks : next[p] # c
    <2>1. UnlinkFromProcGrp(c) = next
        <3>1. [next EXCEPT ![c] = NoTask] = next
            BY <1>0, <1>6
        <3>2. ASSUME NEW D
              PROVE  [x \in Tasks |-> IF x = c THEN NoTask
                                      ELSE IF x \in D /\ next[x] = c THEN next[c] ELSE next[x]] = next
            BY <1>0, <1>6
        <3> QED BY <3>1, <3>2 DEF UnlinkFromProcGrp
    <2> QED BY <1>2, <1>3, <1>6, <2>1
<1>7. CASE ~(next[c] = NoTask /\ \A p \in Tasks : next[p] # c)
    <2>1. PICK g \in Slots : g = pgid[c] /\ taskArray[g] # c /\ pgid[c] # pid[c]
        BY <1>0, <1>2, <1>4, <1>5, <1>7
    <2>2. taskArray[g] # NoTask /\ pgid[taskArray[g]] = g
        BY <1>0, <2>1 DEF GroupInv, Linked, MembersAreLinked
    <2>3. GetTaskPGID(pgid[c]) = taskArray[g]
        BY <2>1, <2>2 DEF GetTaskPGID, GetTaskPID
    <2>4. taskArray[g] \in Living
        <3>1. taskArray[g] \in Tasks /\ InTable(taskArray[g])
            BY <1>0, <2>2 DEF InTable
        <3> QED BY <3>1, TableLives
    <2>5. Chain(taskArray[g]) = {t \in Living : pgid[t] = g}
        BY <2>2, <2>4, ChainIsGroup
    <2>6. ASSUME NEW x \in Tasks, next[x] = c PROVE x \in Chain(taskArray[g])
        BY <1>0, <1>1, <2>1, <2>5, <2>6
    <2>7. PICK D : D = Chain(taskArray[g])
        OBVIOUS
    <2>8. UnlinkFromProcGrp(c) = [x \in Tasks |-> IF x = c THEN NoTask
                                    ELSE IF x \in D /\ next[x] = c THEN next[c] ELSE next[x]]
        BY <2>1, <2>2, <2>3, <2>7 DEF UnlinkFromProcGrp
    <2>9. UnlinkFromProcGrp(c) = Removed(next, c)
        BY <2>6, <2>7, <2>8 DEF Removed
    <2> QED BY <1>2, <1>4, <1>5, <1>7, <2>9
<1> QED BY <1>6, <1>7

-----------------------------------------------------------------------------
\* A child goes in front of its leader's chain, or leads a group of its own.
LEMMA ForkLinks ==
    ASSUME ProcInv, GroupInv, NEW t \in Tasks, NEW child \in Tasks, ForkIntoGroup(t, child), ~damaged'
    PROVE  GroupInv'
<1>0. /\ pgid \in [Tasks -> Slots \cup {0, NoPid}] /\ NoTask \notin Tasks
      /\ next \in [Tasks -> Tasks \cup {NoTask}] /\ taskArray \in [Slots -> Tasks \cup {NoTask}]
    BY ProcessAssumption DEF GroupInv, Linked, LinkTypes
<1>1. /\ Calling(t) /\ state[child] = "NONE" /\ state' = [state EXCEPT ![child] = "READY"] /\ freed' = freed
      /\ ~(FreeSlots = {} /\ GetTaskPID(pgid[t]) # NoTask)
    BY DEF ForkIntoGroup, Sys_Fork, Sys_ForkFull
<1>2. child \notin Living /\ Living' = Living \cup {child}
    BY <1>1 DEF Living, ProcInv, ProcTypes, DeletedIsUnused
<1>3. InTable(t) /\ t \in Living
    BY <1>1, CallerIsInTable, TableLives
<1>4. PICK q, L : q = [pgid EXCEPT ![child] = 0] /\ L = Living \cup {child}
    OBVIOUS
<1>5. Linked(taskArray, q, next, L) /\ child \in L /\ q[child] = 0 /\ 0 \notin Slots
    <2>1. Linked(taskArray, q, next, L)
        BY <1>2, <1>4, BirthKeepsLinks DEF GroupInv
    <2> QED BY <1>0, <1>4, <2>1, SlotFacts
<1>6. CASE FreeSlots = {}
    <2>1. GetTaskPID(pgid[t]) = NoTask
        BY <1>1, <1>6
    <2>2. pgid' = q /\ next' = next
        BY <1>4, <1>6, <2>1 DEF ForkIntoGroup
    <2>3. taskArray' = taskArray
        BY <1>6 DEF ForkIntoGroup, Sys_Fork, Sys_ForkFull
    <2> QED BY <1>2, <1>4, <1>5, <2>2, <2>3 DEF GroupInv
<1>7. CASE FreeSlots # {}
    <2>1. PICK i \in Slots : i = FirstFree /\ taskArray[i] = NoTask
        BY <1>7, FirstFreeIsFree DEF ProcInv
    <2>2. taskArray' = [taskArray EXCEPT ![i] = child]
        BY <1>7, <2>1 DEF ForkIntoGroup, Sys_Fork, Sys_ForkFull
    <2>21. PICK ta : ta = taskArray'
        OBVIOUS
    <2>3. Linked(ta, q, next, L)
        BY <1>5, <2>1, <2>2, <2>21, SlotKeepsLinks
    <2>4. ta[i] = child /\ (\E k \in Slots : ta[k] = child) /\ \A j \in Slots : j # i => ta[j] = taskArray[j]
        BY <1>0, <2>1, <2>2, <2>21
    <2>5. CASE GetTaskPID(pgid[t]) = NoTask
        <3>1. pgid' = [pgid EXCEPT ![child] = i] /\ next' = next
            BY <1>7, <2>1, <2>5 DEF ForkIntoGroup
        <3>2. pgid' = [q EXCEPT ![child] = i]
            BY <1>0, <1>4, <3>1
        <3>3. Linked(ta, [q EXCEPT ![child] = i], next, L)
            BY <1>5, <2>3, <2>4, LeadKeepsLinks
        <3> QED BY <1>2, <1>4, <2>21, <3>1, <3>2, <3>3 DEF GroupInv
    <2>6. CASE GetTaskPID(pgid[t]) # NoTask
        <3>1. PICK g \in Slots : g = pgid[t] /\ GetTaskPID(pgid[t]) = taskArray[g] /\ taskArray[g] # NoTask
            BY <2>6 DEF GetTaskPID
        <3>2. PICK l \in Tasks : l = taskArray[g]
            BY <1>0, <3>1
        <3>3. pgid[l] = g
            BY <1>3, <3>1, <3>2 DEF GroupInv, Linked, MembersAreLinked
        <3>4. l \in Living /\ l # child /\ l \in L
            <4>1. InTable(l)
                BY <3>2 DEF InTable
            <4>2. l \in Living
                BY <4>1, TableLives
            <4> QED BY <1>2, <1>4, <4>2
        <3>5. ta[g] = l /\ q[l] = g
            BY <1>0, <1>4, <2>1, <2>4, <3>1, <3>2, <3>3, <3>4
        <3>6. pgid' = [pgid EXCEPT ![child] = g] /\ next' = Joined(next, child, l)
            BY <2>6, <3>1, <3>2 DEF ForkIntoGroup, Joined
        <3>7. pgid' = [q EXCEPT ![child] = g]
            BY <1>0, <1>4, <3>6
        <3>8. Linked(ta, [q EXCEPT ![child] = g], Joined(next, child, l), L)
            BY <1>5, <2>3, <2>4, <3>4, <3>5, JoinKeepsLinks
        <3> QED BY <1>2, <1>4, <2>21, <3>6, <3>7, <3>8 DEF GroupInv
    <2> QED BY <2>5, <2>6
<1> QED BY <1>6, <1>7

\* Whatever the target was in, it has been taken out of it before it is linked anew.
LEMMA SetPGIDLinks ==
    ASSUME ProcInv, GroupInv, NEW t \in Tasks, NEW c \in Tasks, NEW g \in Slots \cup {0},
           Sys_SetPGID(t, c, g), ~damaged'
    PROVE  GroupInv'
<1>0. /\ pgid \in [Tasks -> Slots \cup {0, NoPid}] /\ NoTask \notin Tasks
      /\ next \in [Tasks -> Tasks \cup {NoTask}] /\ taskArray \in [Slots -> Tasks \cup {NoTask}]
    BY ProcessAssumption DEF GroupInv, Linked, LinkTypes
<1>1. PICK new : new = IF g = 0 THEN pid[c] ELSE g
    OBVIOUS
<1>2. PICK left : left = IF pgid[c] # 0 /\ pgid[c] # new THEN UnlinkFromProcGrp(c) ELSE next
    OBVIOUS
<1>3. PICK leader : leader = GetTaskPID(new)
    OBVIOUS
<1>4. PICK joins \in BOOLEAN : joins <=> leader # NoTask /\ pgid[leader] = pid[leader]
    OBVIOUS
<1>5. /\ Calling(t) /\ c \in Targets(t) /\ ~Leads(c)
      /\ ~(pgid[c] = new /\ new # pid[c])
      /\ new = pid[c] \/ joins \/ left = next
      /\ UNCHANGED <<state, freed, taskArray>>
    BY <1>1, <1>2, <1>3, <1>4 DEF Sys_SetPGID, vars, dispatchVars, procVars
<1>6. \/ new = pid[c] /\ pgid' = [pgid EXCEPT ![c] = new] /\ next' = [left EXCEPT ![c] = NoTask]
      \/ /\ new # pid[c] /\ joins /\ pgid' = [pgid EXCEPT ![c] = new]
         /\ next' = [left EXCEPT ![c] = left[leader], ![leader] = c]
      \/ new # pid[c] /\ ~joins /\ pgid' = pgid /\ next' = left
    BY <1>1, <1>2, <1>3, <1>4 DEF Sys_SetPGID
<1>7. InTable(c) /\ c \in Living /\ pid[c] \in Slots /\ taskArray[pid[c]] = c
    <2>1. InTable(c)
        BY <1>5, CallerIsInTable DEF Targets
    <2> QED BY <2>1, TableLives
<1>8. Living' = Living
    BY <1>5 DEF Living
<1>9. PICK q, r : q = [pgid EXCEPT ![c] = 0] /\ r = Removed(next, c)
    OBVIOUS
<1>10. left = r
    <2>1. /\ UnlinkFromProcGrp(c) = r /\ (pgid[c] \notin Slots => r = next)
          /\ pgid[c] = pid[c] => r = next
        BY <1>5, <1>7, <1>9, UnlinkRemoves
    <2>2. pgid[c] = 0 => pgid[c] \notin Slots
        BY SlotFacts
    <2> QED BY <1>2, <1>5, <2>1, <2>2
<1>11. Linked(taskArray, q, r, Living) /\ q[c] = 0 /\ 0 \notin Slots
    <2>1. pgid[c] \in Slots /\ taskArray[pgid[c]] = c => next[c] = NoTask
        BY <1>5, <1>7, UnlinkRemoves
    <2>2. Linked(taskArray, q, r, Living)
        BY <1>7, <1>9, <2>1, RemoveKeepsLinks DEF GroupInv
    <2> QED BY <1>0, <1>9, <2>2, SlotFacts
<1>12. CASE new = pid[c]
    <2>1. pgid' = [q EXCEPT ![c] = new]
        BY <1>0, <1>6, <1>9, <1>12
    <2>2. next' = r
        <3>1. r \in [Tasks -> Tasks \cup {NoTask}] /\ r[c] = NoTask
            BY <1>0, <1>9, RemovedLinks
        <3>2. next' = [r EXCEPT ![c] = NoTask]
            BY <1>6, <1>10, <1>12
        <3> QED BY <3>1, <3>2
    <2>3. Linked(taskArray, pgid', next', Living)
        BY <1>7, <1>11, <1>12, <2>1, <2>2, LeadKeepsLinks
    <2> QED BY <1>5, <1>8, <2>3 DEF GroupInv
<1>13. CASE new # pid[c] /\ joins
    <2>1. new \in Slots /\ leader = taskArray[new] /\ leader \in Tasks
        BY <1>0, <1>3, <1>4, <1>13 DEF GetTaskPID
    <2>2. InTable(leader) /\ leader \in Living
        <3>1. InTable(leader)
            BY <2>1 DEF InTable
        <3> QED BY <2>1, <3>1, TableLives
    <2>3. pid[leader] = new /\ leader # c
        BY <1>0, <1>13, <2>1 DEF ProcInv, TableAgrees
    <2>4. q[leader] = new
        BY <1>0, <1>4, <1>9, <1>13, <2>1, <2>3
    <2>5. pgid' = [q EXCEPT ![c] = new] /\ next' = Joined(r, c, leader)
        <3>1. pgid' = [pgid EXCEPT ![c] = new] /\ next' = [left EXCEPT ![c] = left[leader], ![leader] = c]
            BY <1>6, <1>13
        <3>2. pgid' = [q EXCEPT ![c] = new]
            BY <1>0, <1>9, <3>1
        <3> QED BY <1>10, <3>1, <3>2 DEF Joined
    <2>6. \E i \in Slots : taskArray[i] = c
        BY <1>7
    <2>7. Linked(taskArray, pgid', next', Living)
        BY <1>7, <1>11, <2>1, <2>2, <2>4, <2>5, <2>6, JoinKeepsLinks
    <2> QED BY <1>5, <1>8, <2>7 DEF GroupInv
<1>14. CASE new # pid[c] /\ ~joins
    <2>1. pgid' = pgid /\ next' = next
        BY <1>5, <1>6, <1>14
    <2> QED BY <1>5, <1>8, <2>1 DEF GroupInv
<1> QED BY <1>4, <1>12, <1>13, <1>14

\* A step that neither creates nor deletes a task and leaves the links alone.
LEMMA LinksStand ==
    ASSUME GroupInv, UNCHANGED <<taskArray, pgid, next, freed>>,
           \A t \in Tasks : state'[t] = "NONE" <=> state[t] = "NONE"
    PROVE  GroupInv'
<1>1. Living' = Living
    BY DEF Living
<1> QED BY <1>1 DEF GroupInv

\* Only a task that leads nobody and follows nobody is deleted without damage.
LEMMA ReapLinks ==
    ASSUME ProcInv, GroupInv, NEW t \in Tasks, ReapFromGroup(t), ~damaged'
    PROVE  GroupInv'
<1>1. PICK z \in Tasks : z = FirstZombie(t)
    BY FirstZombieIsZombie DEF ReapFromGroup, WaitReaps
<1>2. /\ InTable(z) /\ pid[z] \in Slots /\ taskArray[pid[z]] = z
    BY <1>1, FirstZombieIsZombie DEF ReapFromGroup, WaitReaps, Zombies, Children
<1>3. /\ DestroyTask(z) /\ state' = state /\ pgid' = pgid /\ next' = next
      /\ ~(z \in freed' /\ (Leads(z) \/ Follows(z)))
    BY <1>1 DEF ReapFromGroup, WaitReaps, dispatchVars
<1>4. CASE pid[z] < UserStart
    <2>1. UNCHANGED <<taskArray, freed>>
        BY <1>3, <1>4 DEF DestroyTask
    <2> QED BY <1>3, <2>1, LinksStand
<1>5. CASE ~(pid[z] < UserStart)
    <2>1. taskArray' = [taskArray EXCEPT ![pid[z]] = NoTask] /\ freed' = freed \cup {z}
        BY <1>3, <1>5 DEF DestroyTask
    <2>2. ~Leads(z) /\ \A p \in Tasks : next[p] # z
        BY <1>3, <2>1 DEF Follows
    <2>3. z \in Living
        BY <1>2, TableLives
    <2>4. next[z] = NoTask
        <3> SUFFICES ASSUME next[z] # NoTask PROVE FALSE
            OBVIOUS
        <3>1. pgid[z] \in Slots
            BY DEF GroupInv, Linked, LinksInGroups
        <3>2. taskArray[pgid[z]] = z
            BY <2>2, <2>3, <3>1 DEF GroupInv, Linked, MembersAreLinked
        <3>3. pid[z] = pgid[z]
            BY <3>1, <3>2, ProcessAssumption DEF ProcInv, TableAgrees
        <3> QED BY <2>2, <3>3 DEF Leads
    <2>5. Living' = Living \ {z}
        BY <1>3, <2>1 DEF Living
    <2>6. Linked([taskArray EXCEPT ![pid[z]] = NoTask], pgid, next, Living \ {z})
        BY <1>2, <2>2, <2>3, <2>4, DeathKeepsLinks DEF GroupInv
    <2> QED BY <1>3, <2>1, <2>5, <2>6 DEF GroupInv
<1> QED BY <1>4, <1>5

\* A signal reaches tasks of the table only.
LEMMA ReachedIsInTable ==
    ASSUME ProcInv, GroupInv, NEW id \in Slots, NEW x \in Chain(GetTaskPID(id))
    PROVE  x \in Tasks /\ InTable(x)
<1>1. PICK h : h = GetTaskPID(id)
    OBVIOUS
<1>2. /\ h = taskArray[id] /\ h \in Tasks \cup {NoTask} /\ NoTask \notin Tasks
      /\ next \in [Tasks -> Tasks \cup {NoTask}]
    BY <1>1, ProcessAssumption DEF GetTaskPID, GroupInv, Linked, LinkTypes
<1>3. x \in Tasks /\ (x = h \/ \E p \in Chain(h) : p \in Tasks /\ next[p] = x)
    BY <1>1, <1>2, ChainIs
<1>4. CASE x = h
    BY <1>2, <1>3, <1>4 DEF InTable
<1>5. ASSUME NEW p \in Tasks, next[p] = x PROVE InTable(x)
    <2>1. x \in Living /\ pgid[x] \in Slots
        BY <1>2, <1>3, <1>5 DEF GroupInv, Linked, LinksInGroups
    <2> QED BY <2>1 DEF GroupInv, Linked, MembersAreLinked, InTable
<1> QED BY <1>3, <1>4, <1>5

\* What a signal queues is alive and, if it still runs, has found no zombie.
LEMMA SignalKeeps ==
    ASSUME ProcInv, GroupInv, NEW id \in Slots, NEW sig, SetTaskSignal(id, sig)
    PROVE  ProcInv' /\ GroupInv'
<1>1. PICK B : B = {t \in {u \in Chain(GetTaskPID(id)) : state[u] # "ZOMBIE" /\ pid[u] > 1} : state[t] = "BLOCKED"}
    OBVIOUS
<1>2. /\ state' = [t \in Tasks |-> IF t \in B THEN "READY" ELSE state[t]]
      /\ runq' = runq \cup B
      /\ UNCHANGED <<current, taskArray, pid, ppid, waiting, freed, pgid, next>>
    BY <1>1 DEF SetTaskSignal, procVars
<1>3. \A t \in B : t \in Tasks /\ InTable(t) /\ state[t] = "BLOCKED"
    BY <1>1, ReachedIsInTable
<1>4. TableAgrees' /\ \A u \in Tasks : (InTable(u)' <=> InTable(u)) /\ Children(u)' = Children(u)
    BY <1>2, TableKept DEF Children
<1>5. /\ ProcTypes'
      /\ \A t \in Tasks : IF t \in B THEN state'[t] = "READY" ELSE state'[t] = state[t]
    BY <1>2, <1>3 DEF ProcInv, ProcTypes, States
<1>6. \A u \in Tasks : Zombies(u)' = Zombies(u)
    BY <1>3, <1>4, <1>5 DEF Zombies, Children
<1>7. DeletedIsUnused'
    <2>1. ASSUME NEW t \in B PROVE t \notin freed
        <3>1. t \in Living
            BY <1>3, TableLives
        <3> QED BY <3>1 DEF Living
    <2>2. \A t \in freed : t # current /\ t \notin runq /\ state[t] = "ZOMBIE" /\ t \in Tasks
        BY DEF ProcInv, DeletedIsUnused, ProcTypes
    <2>3. \A t \in runq : InTable(t) /\ t \in Tasks
        BY DEF ProcInv, DeletedIsUnused, ProcTypes
    <2> QED BY <1>2, <1>3, <1>4, <1>5, <2>1, <2>2, <2>3 DEF DeletedIsUnused
<1>8. Placed'
    <2>1. ASSUME current \in runq' PROVE InWait(current)'
        <3>1. current \in Tasks /\ InWait(current)
            <4>1. CASE current \in runq
                BY <4>1 DEF ProcInv, ProcTypes, Placed
            <4>2. CASE current \in B
                <5>1. current \in Tasks /\ current \in waiting /\ state[current] = "BLOCKED"
                    BY <1>3, <4>2 DEF ProcInv, Placed
                <5> QED BY <5>1 DEF ProcInv, NoMissedExit, InWait
            <4> QED BY <1>2, <2>1, <4>1, <4>2
        <3> QED BY <1>2, <1>4, <1>6, <3>1 DEF InWait
    <2>2. /\ \A t \in Tasks : InTable(t) => state[t] # "NONE"
          /\ \A t \in runq : state[t] # "ZOMBIE" /\ t \in Tasks
          /\ \A t \in waiting : InTable(t) /\ state[t] # "ZOMBIE" /\ t \in Tasks
          /\ \A t \in Tasks : state[t] = "BLOCKED" => t \in waiting
          /\ current \in Tasks => InTable(current)
        BY DEF ProcInv, ProcTypes, Placed
    <2> QED BY <1>2, <1>3, <1>4, <1>5, <2>1, <2>2 DEF Placed
<1>9. NoMissedExit'
    <2>1. ASSUME NEW t \in waiting, state'[t] = "BLOCKED" PROVE Children(t)' # {} /\ Zombies(t)' = {}
        <3>1. t \in Tasks /\ state[t] = "BLOCKED"
            BY <1>5, <2>1 DEF ProcInv, ProcTypes
        <3> QED BY <1>4, <1>6, <3>1 DEF ProcInv, NoMissedExit
    <2> QED BY <1>2, <2>1 DEF NoMissedExit
<1>10. GroupInv'
    BY <1>2, <1>3, <1>5, LinksStand
<1> QED BY <1>4, <1>5, <1>7, <1>8, <1>9, <1>10 DEF ProcInv

LEMMA EndSyscallKeeps ==
    ASSUME ProcInv, GroupInv, NEW t \in Tasks, EndSyscall(t)
    PROVE  ProcInv' /\ GroupInv'
<1>1. /\ state' = [p \in Tasks |-> IF InTable(p) /\ pid[p] = ppid[t] /\ state[p] = "BLOCKED"
                                   THEN "READY" ELSE state[p]]
      /\ UNCHANGED <<current, runq, taskArray, pid, ppid, waiting, freed, pgid, next>>
    BY DEF EndSyscall, procVars
<1>2. TableAgrees' /\ \A u \in Tasks : (InTable(u)' <=> InTable(u)) /\ Children(u)' = Children(u)
    BY <1>1, TableKept DEF Children
<1>3. /\ ProcTypes'
      /\ \A u \in Tasks : state'[u] = state[u] \/ (state[u] = "BLOCKED" /\ state'[u] = "READY")
    BY <1>1 DEF ProcInv, ProcTypes, States
<1>4. \A u \in Tasks : Zombies(u)' = Zombies(u)
    BY <1>2, <1>3 DEF Zombies, Children
<1>5. DeletedIsUnused'
    BY <1>1, <1>2, <1>3 DEF ProcInv, ProcTypes, DeletedIsUnused
<1>6. Placed'
    <2>1. current \in runq => InWait(current)'
        BY <1>1, <1>2, <1>4 DEF ProcInv, ProcTypes, Placed, InWait
    <2> QED BY <1>1, <1>2, <1>3, <2>1 DEF ProcInv, ProcTypes, Placed
<1>7. NoMissedExit'
    <2>1. ASSUME NEW u \in waiting, state'[u] = "BLOCKED" PROVE Children(u)' # {} /\ Zombies(u)' = {}
        <3>1. u \in Tasks /\ state[u] = "BLOCKED"
            BY <1>3, <2>1 DEF ProcInv, ProcTypes
        <3> QED BY <1>2, <1>4, <3>1 DEF ProcInv, NoMissedExit
    <2> QED BY <1>1, <2>1 DEF NoMissedExit
<1>8. GroupInv'
    BY <1>1, <1>3, LinksStand
<1> QED BY <1>2, <1>3, <1>5, <1>6, <1>7, <1>8 DEF ProcInv

\* Steps of the processes and the scheduler that change no link.
LEMMA RunKeepsLinks ==
    ASSUME ProcInv, GroupInv, UNCHANGED <<pgid, next>>,
           \/ Switch /\ UNCHANGED procVars
           \/ \E t \in Tasks : Sys_Exit(t) \/ WaitFails(t) \/ WaitSleeps(t)
    PROVE  GroupInv'
<1>1. UNCHANGED <<taskArray, freed>>
    BY DEF procVars, Sys_Exit, WaitFails, WaitSleeps
<1>2. CASE Switch
    <2>1. \A u \in Candidates : u \in Tasks /\ state[u] # "NONE"
        <3>1. \A u \in runq : u \in Tasks /\ state[u] # "NONE"
            BY DEF ProcInv, ProcTypes, Placed, DeletedIsUnused
        <3> QED BY <3>1 DEF Candidates, GivesUp
    <2>2. \A u \in Tasks : state'[u] = "NONE" <=> state[u] = "NONE"
        BY <1>2, <2>1 DEF Switch, SwitchTo, SwitchToIdle, Outgoing, GivesUp, ProcInv, ProcTypes
    <2> QED BY <1>1, <2>2, LinksStand
<1>3. ASSUME NEW t \in Tasks, Sys_Exit(t) \/ WaitFails(t) \/ WaitSleeps(t) PROVE GroupInv'
    <2>1. t \in Tasks /\ state[t] # "NONE"
        BY <1>3 DEF Sys_Exit, WaitFails, WaitSleeps, WaitTurn, Calling, Running, ProcInv, Placed
    <2>2. \A u \in Tasks : state'[u] = "NONE" <=> state[u] = "NONE"
        BY <1>3, <2>1 DEF Sys_Exit, WaitFails, WaitSleeps, Block, AfterExit, dispatchVars, ProcInv, ProcTypes
    <2> QED BY <1>1, <2>2, LinksStand
<1> QED BY <1>2, <1>3

\* The process table is sound in any case, the links as long as nothing has damaged them.
GroupsInv == ProcInv /\ (~damaged => GroupInv)

\* The inductive invariant of Sys_Fork, Sys_SetPGID, SetTaskSignal, DestroyTask and the
\* other calls, with signals delivered between any two of them.
THEOREM GroupsInvariance == SignalsSpec => []GroupsInv
<1>1. ProcessInit /\ SignalsInit => GroupsInv
    <2> SUFFICES ASSUME ProcessInit, SignalsInit PROVE GroupsInv
        OBVIOUS
    <2>1. ProcInv
        BY ProcInvInit
    <2>2. /\ pgid = [t \in Tasks |-> NoPid] /\ next = [t \in Tasks |-> NoTask]
          /\ NoPid \notin Slots
        BY SlotFacts DEF SignalsInit
    <2>3. LinkTypes(taskArray, pgid, next, Living)
        BY <2>1, <2>2 DEF ProcInv, ProcTypes, LinkTypes, Living
    <2>4. LinksInGroups(taskArray, pgid, next, Living)
        BY <2>2 DEF LinksInGroups
    <2>5. MembersAreLinked(taskArray, pgid, next, Living)
        BY <2>2 DEF MembersAreLinked, Living
    <2>6. NoCycle(next)
        BY <2>2, ProcessAssumption DEF NoCycle
    <2> QED BY <2>1, <2>3, <2>4, <2>5, <2>6 DEF GroupsInv, GroupInv, Linked
<1>2. GroupsInv /\ [SignalsNext]_<<vars, sigVars>> => GroupsInv'
    <2> SUFFICES ASSUME GroupsInv, [SignalsNext]_<<vars, sigVars>> PROVE GroupsInv'
        OBVIOUS
    <2>1. CASE UNCHANGED <<vars, sigVars>>
        <3>1. UNCHANGED <<state, current, runq, taskArray, pid, ppid, waiting, freed, pgid, next, damaged>>
            BY <2>1 DEF vars, sigVars, dispatchVars, procVars
        <3>2. ProcInv'
            BY <3>1 DEF GroupsInv, ProcInv, ProcTypes, TableAgrees, DeletedIsUnused, Placed, NoMissedExit,
                        InWait, Zombies, Children, InTable
        <3> QED BY <3>1, <3>2, LinksStand DEF GroupsInv
    <2>2. CASE SignalsNext
        <3>0. ProcInv /\ GroupInv
            BY <2>2 DEF GroupsInv, SignalsNext
        <3>1. ASSUME NEW t \in Tasks, Unused # {}, ForkIntoGroup(t, NewTask) PROVE GroupsInv'
            <4>1. PICK c \in Tasks : c = NewTask
                BY <3>1 DEF NewTask, Unused
            <4>2. ProcInv'
                BY <3>0, <3>1, <4>1, ForkKeeps, ForkFullKeeps DEF ForkIntoGroup
            <4> QED BY <3>0, <3>1, <4>1, <4>2, ForkLinks DEF GroupsInv
        <3>2. ASSUME NEW t \in Tasks, NEW x \in Tasks, NEW g \in Slots \cup {0}, Sys_SetPGID(t, x, g)
              PROVE  GroupsInv'
            <4>1. UNCHANGED <<state, current, runq, taskArray, pid, ppid, waiting, freed>>
                BY <3>2 DEF Sys_SetPGID, vars, dispatchVars, procVars
            <4>2. ProcInv'
                BY <3>0, <4>1 DEF ProcInv, ProcTypes, TableAgrees, DeletedIsUnused, Placed, NoMissedExit,
                            InWait, Zombies, Children, InTable
            <4> QED BY <3>0, <3>2, <4>2, SetPGIDLinks DEF GroupsInv
        <3>3. ASSUME NEW t \in Tasks, NEW catch \in BOOLEAN, Sys_Signal(t, catch) PROVE GroupsInv'
            <4>1. UNCHANGED <<state, current, runq, taskArray, pid, ppid, waiting, freed, pgid, next>>
                BY <3>3 DEF Sys_Signal, vars, dispatchVars, procVars
            <4>2. ProcInv'
                BY <3>0, <4>1 DEF ProcInv, ProcTypes, TableAgrees, DeletedIsUnused, Placed, NoMissedExit,
                            InWait, Zombies, Children, InTable
            <4> QED BY <3>0, <4>1, <4>2, LinksStand DEF GroupsInv
        <3>4. ASSUME NEW id \in Slots, NEW sig \in SigNums, SetTaskSignal(id, sig) PROVE GroupsInv'
            BY <3>0, <3>4, SignalKeeps DEF GroupsInv
        <3>5. ASSUME NEW t \in Tasks, ReapFromGroup(t) PROVE GroupsInv'
            <4>1. ProcInv'
                BY <3>0, <3>5, ReapKeeps DEF ReapFromGroup
            <4> QED BY <3>0, <3>5, <4>1, ReapLinks DEF GroupsInv
        <3>6. ASSUME NEW t \in Tasks, WaitFails(t) \/ Sys_Exit(t) \/ WaitSleeps(t), UNCHANGED <<pgid, next>>
              PROVE  GroupsInv'
            <4>1. ProcInv'
                BY <3>0, <3>6, WaitKeeps, ExitKeeps
            <4>2. GroupInv'
                BY <3>0, <3>6, RunKeepsLinks
            <4> QED BY <4>1, <4>2 DEF GroupsInv
        <3>7. ASSUME Switch, UNCHANGED <<procVars, sigVars>> PROVE GroupsInv'
            <4>1. ProcInv'
                BY <3>0, <3>7, SwitchKeeps
            <4>2. UNCHANGED <<pgid, next>> /\ UNCHANGED procVars
                BY <3>7 DEF sigVars
            <4>3. GroupInv'
                BY <3>0, <3>7, <4>2, RunKeepsLinks
            <4> QED BY <4>1, <4>3 DEF GroupsInv
        <3>8. ASSUME NEW t \in Tasks, EndSyscall(t) PROVE GroupsInv'
            BY <3>0, <3>8, EndSyscallKeeps DEF GroupsInv
        <3>9. ASSUME NEW t \in Tasks, UNCHANGED sigVars PROVE UNCHANGED <<pgid, next>>
            BY <3>9 DEF sigVars
        <3> QED BY <2>2, <3>1, <3>2, <3>3, <3>4, <3>5, <3>6, <3>7, <3>8, <3>9 DEF SignalsNext
    <2> QED BY <2>1, <2>2
<1> QED BY <1>1, <1>2, PTL DEF SignalsSpec

\* "kita harus update rantai": the chain that SetTaskSignal walks from a leader ends, and
\* it holds the living members of the group and nobody else, for any number of tasks,
\* any table and any order of forks, moves, signals, exits and reaps, until one of the
\* five ways in which the code damages a chain.
THEOREM GroupsStayExact == SignalsSpec => []GroupsAreExact
<1>1. GroupsInv => GroupsAreExact
    <2> SUFFICES ASSUME GroupsInv, ~damaged, NEW g \in Slots,
                        taskArray[g] # NoTask, pgid[taskArray[g]] = g
                 PROVE  /\ \E n \in DOMAIN Along(taskArray[g]) : Along(taskArray[g])[n] = NoTask
                        /\ Chain(taskArray[g]) = {t \in Tasks \ freed : state[t] # "NONE" /\ pgid[t] = g}
        BY DEF GroupsAreExact
    <2>1. ProcInv /\ GroupInv
        BY DEF GroupsInv
    <2>2. taskArray[g] \in Tasks /\ InTable(taskArray[g])
        BY <2>1 DEF ProcInv, ProcTypes, InTable
    <2>3. taskArray[g] \in Living
        BY <2>1, <2>2, TableLives
    <2>4. {t \in Living : pgid[t] = g} = {t \in Tasks \ freed : state[t] # "NONE" /\ pgid[t] = g}
        BY DEF Living
    <2> QED BY <2>1, <2>3, <2>4, ChainIsGroup
<1> QED BY <1>1, GroupsInvariance, PTL

\* Signals, which queue tasks in the middle of Sys_Wait, leave the process table sound
\* and no exit missed, whatever happens to the groups.
THEOREM SignalsKeepTable == SignalsSpec => [](ProcessTableIsSound /\ NoMissedExit)
<1>1. GroupsInv => ProcessTableIsSound /\ NoMissedExit
    BY DEF GroupsInv, ProcInv, ProcessTableIsSound
<1> QED BY <1>1, GroupsInvariance, PTL

-----------------------------------------------------------------------------
(***************************************************************************)
(* The line of the terminal.                                               *)
(***************************************************************************)
Key == [id : Nat, kind : Ends \cup {"char"}]

LineTypes ==
    /\ line \in Seq(Key) /\ owed \in Seq(Nat) /\ readPos \in Nat /\ keys \in Nat
    /\ DOMAIN io = Tasks /\ \A t \in Tasks : DOMAIN io[t] = DOMAIN Outside /\ io[t].pos \in Nat

\* The keys owed are the ones behind the read position; a reader about to store that
\* position is alone and has the oldest of them; one about to reset has read all.
OwedIsUnread ==
    /\ readPos <= Len(line) /\ Len(owed) = Len(line) - readPos
    /\ \A i \in 1..Len(owed) : owed[i] = line[readPos + i].id
StorerHasOldest ==
    \A t \in Tasks : io[t].at = "store" =>
        io[t].pos = readPos /\ readPos < Len(line) /\ io[t].char = line[readPos + 1]
OneStorer == \A t, u \in Tasks : io[t].at = "store" /\ io[u].at = "store" => t = u
ResetterHasAll == \A t \in Tasks : io[t].at \in {"reset", "resetLast"} => readPos = Len(line)

LineInv ==
    /\ LineTypes
    /\ ~torn => ~misread /\ OwedIsUnread /\ StorerHasOldest /\ OneStorer /\ ResetterHasAll

\* A step of a reader between the updates of the line.
LEMMA ReaderStep ==
    ASSUME LineInv, UNCHANGED <<line, readPos, keys, owed, misread, torn>>, NEW t \in Tasks,
           NEW k, io' = [io EXCEPT ![t] = k], DOMAIN k = DOMAIN Outside, k.pos \in Nat,
           k.at # "store", k.at \in {"reset", "resetLast"} => readPos = Len(line)
    PROVE  LineInv'
<1>1. DOMAIN io' = Tasks /\ io'[t] = k /\ \A u \in Tasks \ {t} : io'[u] = io[u]
    BY DEF LineInv, LineTypes
<1>2. LineTypes'
    BY <1>1 DEF LineInv, LineTypes
<1>3. ASSUME ~torn' PROVE OwedIsUnread' /\ StorerHasOldest' /\ OneStorer' /\ ResetterHasAll' /\ ~misread'
    <2>1. ~misread /\ OwedIsUnread /\ StorerHasOldest /\ OneStorer /\ ResetterHasAll
        BY <1>3 DEF LineInv
    <2>2. OwedIsUnread' /\ ~misread'
        BY <2>1 DEF OwedIsUnread
    <2>3. StorerHasOldest' /\ OneStorer'
        BY <1>1, <2>1 DEF StorerHasOldest, OneStorer
    <2>4. ResetterHasAll'
        BY <1>1, <2>1 DEF ResetterHasAll
    <2> QED BY <2>2, <2>3, <2>4
<1> QED BY <1>2, <1>3 DEF LineInv

LEMMA LineStands ==
    ASSUME LineInv, UNCHANGED <<line, readPos, io, owed, misread, torn>>, keys' \in Nat
    PROVE  LineInv'
BY DEF LineInv, LineTypes, OwedIsUnread, StorerHasOldest, OneStorer, ResetterHasAll

\* Unread is empty exactly when the read position is at the end, and starts there.
LEMMA UnreadIs ==
    ASSUME LineTypes, readPos <= Len(line)
    PROVE  /\ Unread \in Seq(Key) /\ Len(Unread) = Len(line) - readPos
           /\ \A i \in 1..Len(Unread) : Unread[i] = line[readPos + i]
<1>1. line \in Seq(Key) /\ readPos \in Nat /\ Len(line) \in Nat
    BY DEF LineTypes
<1>2. readPos + 1 \in 1..(Len(line) + 1) /\ Len(line) \in (readPos + 1 - 1)..Len(line)
    BY <1>1
<1>3. /\ SubSeq(line, readPos + 1, Len(line)) \in Seq(Key)
      /\ Len(SubSeq(line, readPos + 1, Len(line))) = IF readPos + 1 <= Len(line) THEN Len(line) - (readPos + 1) + 1 ELSE 0
      /\ \A i \in 1..(Len(line) - (readPos + 1) + 1) :
            SubSeq(line, readPos + 1, Len(line))[i] = line[(readPos + 1) + i - 1]
    BY <1>1
<1>4. Len(Unread) = Len(line) - readPos
    BY <1>1, <1>3 DEF Unread
<1>5. ASSUME NEW i \in 1..Len(Unread) PROVE Unread[i] = line[readPos + i]
    <2>1. i \in 1..(Len(line) - (readPos + 1) + 1) /\ (readPos + 1) + i - 1 = readPos + i
        BY <1>1, <1>4
    <2> QED BY <1>3, <2>1 DEF Unread
<1> QED BY <1>3, <1>4, <1>5 DEF Unread

\* A key is put at the end of the line, and of what is owed.
LEMMA InputKeepsLine ==
    ASSUME LineInv, NEW kind \in Ends \cup {"char"}, OnInput(kind)
    PROVE  LineInv'
<1>0. keys \in Nat /\ keys' = keys + 1 /\ UNCHANGED <<readPos, io, misread>>
    BY DEF OnInput, LineInv, LineTypes
<1>1. CASE UNCHANGED <<line, owed, torn>>
    BY <1>0, <1>1, LineStands
<1>2. CASE ~UNCHANGED <<line, owed, torn>>
    <2>1. PICK key : key = [id |-> keys + 1, kind |-> kind]
        OBVIOUS
    <2>2. /\ line' = Append(line, key) /\ owed' = Append(owed, key.id)
          /\ torn' = (torn \/ \E t \in Tasks : io[t].at \in {"reset", "resetLast"})
        BY <1>2, <2>1 DEF OnInput
    <2>3. key \in Key /\ key.id \in Nat
        BY <1>0, <2>1 DEF Key
    <2>4. line \in Seq(Key) /\ owed \in Seq(Nat) /\ readPos \in Nat
        BY DEF LineInv, LineTypes
    <2>5. /\ line' \in Seq(Key) /\ Len(line') = Len(line) + 1 /\ Len(line) \in Nat
          /\ line'[Len(line) + 1] = key /\ \A i \in 1..Len(line) : line'[i] = line[i]
        BY <2>2, <2>3, <2>4
    <2>6. /\ owed' \in Seq(Nat) /\ Len(owed') = Len(owed) + 1 /\ Len(owed) \in Nat
          /\ owed'[Len(owed) + 1] = key.id /\ \A i \in 1..Len(owed) : owed'[i] = owed[i]
        BY <2>2, <2>3, <2>4
    <2>7. LineTypes'
        BY <1>0, <2>5, <2>6 DEF LineInv, LineTypes
    <2>8. ASSUME ~torn' PROVE ~misread' /\ OwedIsUnread' /\ StorerHasOldest' /\ OneStorer' /\ ResetterHasAll'
        <3>1. ~misread /\ OwedIsUnread /\ StorerHasOldest /\ OneStorer
              /\ \A t \in Tasks : io[t].at \notin {"reset", "resetLast"}
            BY <2>2, <2>8 DEF LineInv
        <3>2. readPos' <= Len(line') /\ Len(owed') = Len(line') - readPos' /\ readPos + Len(owed) = Len(line)
            BY <1>0, <2>4, <2>5, <2>6, <3>1 DEF OwedIsUnread
        <3>3. ASSUME NEW i \in 1..Len(owed') PROVE owed'[i] = line'[readPos' + i].id
            <4>1. CASE i = Len(owed) + 1
                <5>0. PICK r, l, o \in Nat : r = readPos /\ l = Len(line) /\ o = Len(owed)
                    BY <2>4, <2>5, <2>6
                <5>2. r + o = l /\ i = o + 1 => r + i = l + 1
                    OBVIOUS
                <5>1. readPos + i = Len(line) + 1
                    BY <3>2, <4>1, <5>0, <5>2
                <5> QED BY <1>0, <2>5, <2>6, <4>1, <5>1
            <4>2. CASE i # Len(owed) + 1
                <5>1. i \in 1..Len(owed) /\ readPos + i \in 1..Len(line)
                    BY <2>4, <2>5, <2>6, <3>2, <4>2
                <5>2. owed[i] = line[readPos + i].id
                    BY <3>1, <5>1 DEF OwedIsUnread
                <5> QED BY <1>0, <2>5, <2>6, <5>1, <5>2
            <4> QED BY <4>1, <4>2
        <3>4. OwedIsUnread'
            BY <3>2, <3>3 DEF OwedIsUnread
        <3>5. ASSUME NEW t \in Tasks, io[t].at = "store"
              PROVE  io[t].pos = readPos /\ readPos < Len(line') /\ io[t].char = line'[readPos + 1]
            <4>1. io[t].pos = readPos /\ readPos < Len(line) /\ io[t].char = line[readPos + 1]
                BY <3>1, <3>5 DEF StorerHasOldest
            <4>2. readPos + 1 \in 1..Len(line)
                BY <2>4, <2>5, <4>1
            <4> QED BY <2>4, <2>5, <4>1, <4>2
        <3>6. StorerHasOldest'
            BY <1>0, <3>5 DEF StorerHasOldest
        <3> QED BY <1>0, <3>1, <3>4, <3>6 DEF OneStorer, ResetterHasAll
    <2> QED BY <2>7, <2>8 DEF LineInv
<1> QED BY <1>1, <1>2

\* The line is emptied; whoever is in the middle of a store is a race.
LEMMA EmptyLine ==
    ASSUME LineTypes', line' = <<>>, readPos' = 0, owed' = <<>>, ~misread',
           \A t \in Tasks : io'[t].at # "store"
    PROVE  ~misread' /\ OwedIsUnread' /\ StorerHasOldest' /\ OneStorer' /\ ResetterHasAll'
<1>1. Len(line') = 0 /\ Len(owed') = 0
    OBVIOUS
<1> QED BY <1>1 DEF OwedIsUnread, StorerHasOldest, OneStorer, ResetterHasAll

LEMMA SignalKeyKeepsLine ==
    ASSUME LineInv, NEW sig, OnSignalKey(sig)
    PROVE  LineInv'
<1>0. keys \in Nat /\ keys' = keys + 1 /\ UNCHANGED <<io, misread>>
    BY DEF OnSignalKey, LineInv, LineTypes
<1>1. CASE foreground >= ForegroundMin
    <2>1. /\ line' = <<>> /\ readPos' = 0 /\ owed' = <<>>
          /\ torn' = (torn \/ \E t \in Tasks : io[t].at = "store")
        BY <1>1 DEF OnSignalKey
    <2>2. LineTypes'
        BY <1>0, <2>1 DEF LineInv, LineTypes
    <2>3. ASSUME ~torn' PROVE ~misread' /\ \A t \in Tasks : io'[t].at # "store"
        BY <1>0, <2>1, <2>3 DEF LineInv
    <2> QED BY <2>1, <2>2, <2>3, EmptyLine DEF LineInv
<1>2. CASE ~(foreground >= ForegroundMin)
    <2>1. UNCHANGED <<line, readPos, owed, torn>>
        BY <1>2 DEF OnSignalKey, lineVars
    <2> QED BY <1>0, <2>1, LineStands
<1> QED BY <1>1, <1>2

\* The oldest key is loaded; a second reader at this place is a race.
LEMMA LoadKeepsLine ==
    ASSUME LineInv, NEW t \in Tasks, ReadLoad(t)
    PROVE  LineInv'
<1>0. io[t].at = "copy" /\ UNCHANGED <<line, readPos, keys, owed, misread>> /\ t \in DOMAIN io
      /\ DOMAIN io[t] = DOMAIN Outside /\ {"at", "pos", "char"} \subseteq DOMAIN Outside
      /\ io[t].pos \in Nat /\ readPos \in Nat
    BY DEF ReadLoad, At, lineVars, LineInv, LineTypes, Outside
<1>1. CASE Unread # <<>> /\ io[t].got < io[t].want
    <2>1. /\ io' = [io EXCEPT ![t].at = "store", ![t].pos = readPos, ![t].char = Head(Unread)]
          /\ torn' = (torn \/ Others(t, "store"))
        BY <1>1 DEF ReadLoad
    <2>2. /\ io'[t].at = "store" /\ io'[t].pos = readPos /\ io'[t].char = Head(Unread)
          /\ DOMAIN io'[t] = DOMAIN Outside /\ DOMAIN io' = Tasks
          /\ \A u \in Tasks \ {t} : io'[u] = io[u]
        BY <1>0, <2>1 DEF LineInv, LineTypes
    <2>3. LineTypes'
        BY <1>0, <2>2 DEF LineInv, LineTypes
    <2>4. ASSUME ~torn' PROVE ~misread' /\ OwedIsUnread' /\ StorerHasOldest' /\ OneStorer' /\ ResetterHasAll'
        <3>1. ~misread /\ OwedIsUnread /\ ResetterHasAll /\ LineTypes
              /\ \A u \in Tasks \ {t} : io[u].at # "store"
            BY <2>1, <2>4 DEF LineInv, Others
        <3>2. /\ Unread \in Seq(Key) /\ Len(Unread) = Len(line) - readPos
              /\ \A i \in 1..Len(Unread) : Unread[i] = line[readPos + i]
            BY <3>1, UnreadIs DEF OwedIsUnread
        <3>3. Len(line) \in Nat /\ readPos \in Nat
            BY <3>1 DEF LineTypes
        <3>4. Len(Unread) \in Nat /\ Len(Unread) # 0 /\ Head(Unread) = Unread[1]
            BY <1>1, <3>2, EmptySeq
        <3>5. readPos < Len(line) /\ 1 \in 1..Len(Unread)
            BY <3>2, <3>3, <3>4
        <3>6. Head(Unread) = line[readPos + 1]
            BY <3>2, <3>4, <3>5
        <3>7. StorerHasOldest' /\ OneStorer'
            BY <1>0, <2>2, <3>1, <3>5, <3>6 DEF StorerHasOldest, OneStorer
        <3>8. ResetterHasAll'
            BY <1>0, <2>2, <3>1 DEF ResetterHasAll
        <3>9. OwedIsUnread' /\ ~misread'
            BY <1>0, <3>1 DEF OwedIsUnread
        <3> QED BY <3>7, <3>8, <3>9
    <2> QED BY <2>3, <2>4 DEF LineInv
<1>2. CASE ~(Unread # <<>> /\ io[t].got < io[t].want)
    <2>1. io' = [io EXCEPT ![t].at = "drain"] /\ UNCHANGED torn
        BY <1>2 DEF ReadLoad, Goes
    <2>2. PICK k : k = [io[t] EXCEPT !.at = "drain"]
        OBVIOUS
    <2>3. io' = [io EXCEPT ![t] = k] /\ DOMAIN k = DOMAIN Outside /\ k.at = "drain" /\ k.pos \in Nat
        BY <1>0, <2>1, <2>2
    <2> QED BY <1>0, <2>1, <2>3, ReaderStep
<1> QED BY <1>1, <1>2

\* The position moves over the key that was loaded, and this key is the oldest.
LEMMA StoreKeepsLine ==
    ASSUME LineInv, NEW t \in Tasks, ReadStore(t)
    PROVE  LineInv'
<1>0. /\ io[t].at = "store" /\ readPos' = io[t].pos + 1 /\ UNCHANGED <<line, keys, torn>>
      /\ misread' = (misread \/ owed = <<>> \/ Head(owed) # io[t].char.id)
      /\ owed' = IF owed = <<>> THEN owed ELSE Tail(owed)
    BY DEF ReadStore, At
<1>1. PICK where \in {"copy", "drainLast"} : \E n :
         io' = [io EXCEPT ![t].at = where, ![t].got = n, ![t].pos = 0, ![t].char = NoChar]
    BY DEF ReadStore
<1>2. /\ t \in DOMAIN io /\ DOMAIN io[t] = DOMAIN Outside
      /\ {"at", "got", "pos", "char"} \subseteq DOMAIN Outside
    BY DEF LineInv, LineTypes, Outside
<1>3. /\ io'[t].at \in {"copy", "drainLast"} /\ io'[t].pos = 0 /\ DOMAIN io'[t] = DOMAIN Outside
      /\ DOMAIN io' = Tasks /\ \A u \in Tasks \ {t} : io'[u] = io[u]
    BY <1>1, <1>2 DEF LineInv, LineTypes
<1>4. owed \in Seq(Nat) /\ line \in Seq(Key) /\ readPos \in Nat /\ io[t].pos \in Nat
    BY DEF LineInv, LineTypes
<1>5. owed # <<>> => /\ owed' \in Seq(Nat) /\ Len(owed') = Len(owed) - 1 /\ Len(owed) \in Nat
                     /\ \A i \in 1..Len(owed') : owed'[i] = owed[i + 1]
    BY <1>0, <1>4
<1>6. LineTypes'
    <2>1. readPos' \in Nat
        BY <1>0, <1>4
    <2>2. owed' \in Seq(Nat)
        BY <1>0, <1>4, <1>5
    <2> QED BY <1>0, <1>3, <2>1, <2>2 DEF LineInv, LineTypes
<1>7. ASSUME ~torn' PROVE ~misread' /\ OwedIsUnread' /\ StorerHasOldest' /\ OneStorer' /\ ResetterHasAll'
    <2>1. ~misread /\ OwedIsUnread /\ StorerHasOldest /\ OneStorer /\ ResetterHasAll
        BY <1>0, <1>7 DEF LineInv
    <2>2. io[t].pos = readPos /\ readPos < Len(line) /\ io[t].char = line[readPos + 1]
        BY <1>0, <2>1 DEF StorerHasOldest
    <2>3. /\ Len(owed) = Len(line) - readPos /\ \A i \in 1..Len(owed) : owed[i] = line[readPos + i].id
        BY <2>1 DEF OwedIsUnread
    <2>4. Len(line) \in Nat /\ Len(owed) \in Nat
        BY <1>4
    <2>5. Len(owed) # 0 /\ 1 \in 1..Len(owed) /\ readPos + 1 <= Len(line)
        BY <1>4, <2>2, <2>3, <2>4
    <2>6. owed # <<>> /\ Head(owed) = owed[1]
        BY <1>4, <2>5
    <2>7. ~misread'
        BY <1>0, <2>1, <2>2, <2>3, <2>5, <2>6
    <2>8. Len(owed') = Len(line') - readPos' /\ readPos' <= Len(line') /\ readPos' = readPos + 1
        BY <1>0, <1>4, <1>5, <2>2, <2>3, <2>4, <2>5, <2>6
    <2>9. ASSUME NEW i \in 1..Len(owed') PROVE owed'[i] = line'[readPos' + i].id
        <3>1. owed'[i] = owed[i + 1] /\ Len(owed') = Len(owed) - 1
            BY <1>5, <2>6
        <3>2. PICK r, o \in Nat : r = readPos /\ o = Len(owed)
            BY <1>4, <2>4
        <3>3. i \in Int /\ 1 <= i /\ i <= o - 1
            BY <3>1, <3>2
        <3>4. i + 1 \in 1..o /\ r + (i + 1) = (r + 1) + i
            BY <3>3
        <3>5. owed[i + 1] = line[readPos + (i + 1)].id
            BY <2>3, <3>2, <3>4
        <3> QED BY <1>0, <2>8, <3>1, <3>2, <3>4, <3>5
    <2>10. OwedIsUnread'
        BY <2>8, <2>9 DEF OwedIsUnread
    <2>11. \A u \in Tasks : io'[u].at # "store" /\ io'[u].at \notin {"reset", "resetLast"}
        <3>1. \A u \in Tasks \ {t} : io[u].at # "store"
            BY <1>0, <2>1 DEF OneStorer
        <3>2. readPos # Len(line)
            BY <1>4, <2>2, <2>4
        <3>3. \A u \in Tasks : io[u].at \notin {"reset", "resetLast"}
            BY <2>1, <3>2 DEF ResetterHasAll
        <3> QED BY <1>3, <3>1, <3>3
    <2> QED BY <2>7, <2>10, <2>11 DEF StorerHasOldest, OneStorer, ResetterHasAll
<1> QED BY <1>6, <1>7 DEF LineInv

\* What the ways out of Read's loop do to io.
LEMMA GoesOrLeaves ==
    ASSUME LineInv, NEW t \in Tasks, NEW where, Goes(t, where) \/ Leaves(t)
    PROVE  \E k : /\ io' = [io EXCEPT ![t] = k] /\ DOMAIN k = DOMAIN Outside /\ k.pos \in Nat
                  /\ k.at = "user" \/ (Goes(t, where) /\ k.at = where)
<1>1. /\ t \in DOMAIN io /\ DOMAIN io[t] = DOMAIN Outside /\ io[t].pos \in Nat
      /\ {"at", "pos"} \subseteq DOMAIN Outside
    BY DEF LineInv, LineTypes, Outside
<1>2. CASE Goes(t, where)
    <2>1. PICK k : k = [io[t] EXCEPT !.at = where]
        OBVIOUS
    <2>2. io' = [io EXCEPT ![t] = k] /\ DOMAIN k = DOMAIN Outside /\ k.at = where /\ k.pos \in Nat
        BY <1>1, <1>2, <2>1 DEF Goes
    <2> QED BY <1>2, <2>2
<1>3. CASE Leaves(t)
    <2>1. io' = [io EXCEPT ![t] = Outside] /\ Outside.at = "user" /\ Outside.pos \in Nat
        BY <1>3 DEF Leaves, Outside
    <2> QED BY <2>1
<1> QED BY <1>2, <1>3

\* The head of the loop, the yield and the comparison of the two positions.
LEMMA BetweenUpdates ==
    ASSUME LineInv, NEW t \in Tasks, ReadCheck(t) \/ ReadBlock(t) \/ ReadDrain(t)
    PROVE  LineInv'
<1>1. CASE ReadCheck(t)
    <2>1. UNCHANGED <<line, readPos, keys, owed, misread, torn>>
        BY <1>1 DEF ReadCheck, lineVars, ttyHistory
    <2>2. PICK where \in {"copy", "block"} : Goes(t, where) \/ Leaves(t)
        BY <1>1 DEF ReadCheck
    <2>3. PICK k : /\ io' = [io EXCEPT ![t] = k] /\ DOMAIN k = DOMAIN Outside /\ k.pos \in Nat
                   /\ k.at = "user" \/ k.at = where
        BY <2>2, GoesOrLeaves
    <2> QED BY <2>1, <2>2, <2>3, ReaderStep
<1>2. CASE ReadBlock(t)
    <2>1. UNCHANGED <<line, readPos, keys, owed, misread, torn>>
          /\ io' = [io EXCEPT ![t].at = "check", ![t].off = FALSE]
        BY <1>2 DEF ReadBlock, lineVars, ttyHistory
    <2>2. /\ t \in DOMAIN io /\ DOMAIN io[t] = DOMAIN Outside /\ io[t].pos \in Nat
          /\ {"at", "off", "pos"} \subseteq DOMAIN Outside
        BY DEF LineInv, LineTypes, Outside
    <2>3. PICK k : k = [io[t] EXCEPT !.at = "check", !.off = FALSE]
        OBVIOUS
    <2>4. io' = [io EXCEPT ![t] = k] /\ DOMAIN k = DOMAIN Outside /\ k.at = "check" /\ k.pos \in Nat
        BY <2>1, <2>2, <2>3
    <2> QED BY <2>1, <2>4, ReaderStep
<1>3. CASE ReadDrain(t)
    <2>1. UNCHANGED <<line, readPos, keys, owed, misread, torn>>
        BY <1>3 DEF ReadDrain, lineVars, ttyHistory
    <2>2. PICK where \in {"reset", "resetLast", "check"} :
             /\ Goes(t, where) \/ Leaves(t)
             /\ where = "check" \/ readPos = Len(line)
        BY <1>3 DEF ReadDrain, Drained
    <2>3. PICK k : /\ io' = [io EXCEPT ![t] = k] /\ DOMAIN k = DOMAIN Outside /\ k.pos \in Nat
                   /\ k.at = "user" \/ k.at = where
        BY <2>2, GoesOrLeaves
    <2> QED BY <2>1, <2>2, <2>3, ReaderStep
<1> QED BY <1>1, <1>2, <1>3

\* The reset empties a buffer of which everything has been read.
LEMMA ResetKeepsLine ==
    ASSUME LineInv, NEW t \in Tasks, ReadReset(t)
    PROVE  LineInv'
<1>1. /\ io[t].at \in {"reset", "resetLast"} /\ line' = <<>> /\ readPos' = 0
      /\ UNCHANGED <<keys, owed, misread, torn>>
    BY DEF ReadReset, At, ttyHistory
<1>2. Goes(t, "check") \/ Leaves(t)
    BY DEF ReadReset
<1>3. PICK k : /\ io' = [io EXCEPT ![t] = k] /\ DOMAIN k = DOMAIN Outside /\ k.pos \in Nat
               /\ k.at = "user" \/ k.at = "check"
    BY <1>2, GoesOrLeaves
<1>4. DOMAIN io' = Tasks /\ io'[t] = k /\ \A u \in Tasks \ {t} : io'[u] = io[u]
    BY <1>3 DEF LineInv, LineTypes
<1>5. LineTypes'
    BY <1>1, <1>3, <1>4 DEF LineInv, LineTypes
<1>6. ASSUME ~torn' PROVE ~misread' /\ owed' = <<>> /\ \A u \in Tasks : io'[u].at # "store"
    <2>1. ~misread /\ OwedIsUnread /\ StorerHasOldest /\ readPos = Len(line)
        BY <1>1, <1>6 DEF LineInv, ResetterHasAll
    <2>2. owed \in Seq(Nat) /\ line \in Seq(Key) /\ readPos \in Nat /\ Len(line) \in Nat
        BY DEF LineInv, LineTypes
    <2>3. Len(owed) = 0
        BY <2>1, <2>2 DEF OwedIsUnread
    <2>4. owed = <<>>
        BY <2>2, <2>3, EmptySeq
    <2>5. ~(readPos < Len(line))
        BY <2>1, <2>2
    <2>6. \A u \in Tasks : io[u].at # "store"
        BY <2>1, <2>5 DEF StorerHasOldest
    <2> QED BY <1>1, <1>3, <1>4, <2>1, <2>4, <2>6
<1> QED BY <1>1, <1>5, <1>6, EmptyLine DEF LineInv

\* The other calls of the terminal.
LEMMA CallKeepsLine ==
    ASSUME LineInv, NEW t \in Tasks,
           (\E n \in Sizes : StartRead(t, n)) \/ StartWrite(t) \/ WriteWaits(t)
    PROVE  LineInv'
<1>0. /\ t \in DOMAIN io /\ DOMAIN io[t] = DOMAIN Outside /\ io[t].pos \in Nat
      /\ {"at", "off", "pos", "canon", "want"} \subseteq DOMAIN Outside /\ Outside.pos = 0
    BY DEF LineInv, LineTypes, Outside
<1>1. ASSUME NEW n \in Sizes, StartRead(t, n) PROVE LineInv'
    <2>1. UNCHANGED <<line, readPos, keys, owed, misread, torn>>
        BY <1>1 DEF StartRead, lineVars, ttyHistory
    <2>2. PICK k : k = [Outside EXCEPT !.at = "check", !.off = TRUE, !.canon = canonical, !.want = n]
        OBVIOUS
    <2>3. io' = [io EXCEPT ![t] = k]
        BY <1>1, <2>2 DEF StartRead
    <2>4. DOMAIN k = DOMAIN Outside /\ k.at = "check" /\ k.pos \in Nat
        BY <1>0, <2>2
    <2> QED BY <2>1, <2>3, <2>4, ReaderStep
<1>2. CASE StartWrite(t)
    <2>1. UNCHANGED <<line, readPos, keys, owed, misread, torn>>
        BY <1>2 DEF StartWrite, lineVars, ttyHistory
    <2>2. PICK k : k = [Outside EXCEPT !.at = "write", !.off = TRUE]
        OBVIOUS
    <2>3. io' = [io EXCEPT ![t] = k]
        BY <1>2, <2>2 DEF StartWrite
    <2>4. DOMAIN k = DOMAIN Outside /\ k.at = "write" /\ k.pos \in Nat
        BY <1>0, <2>2
    <2> QED BY <2>1, <2>3, <2>4, ReaderStep
<1>3. CASE WriteWaits(t)
    <2>1. UNCHANGED <<line, readPos, keys, owed, misread, torn>> /\ io[t].at = "write"
        BY <1>3 DEF WriteWaits, lineVars, ttyHistory, At
    <2>2. PICK k \in {Outside, [io[t] EXCEPT !.off = FALSE]} : io' = [io EXCEPT ![t] = k]
        BY <1>0, <1>3 DEF WriteWaits, Leaves
    <2>3. DOMAIN k = DOMAIN Outside /\ k.at \in {"user", "write"} /\ k.pos \in Nat
        BY <1>0, <2>1, <2>2 DEF Outside
    <2> QED BY <2>1, <2>2, <2>3, ReaderStep
<1> QED BY <1>1, <1>2, <1>3

\* The inductive invariant of OnInput and Read.
THEOREM LineInvariance == TtySpec => []LineInv
<1>1. TtyInit => LineInv
    <2> SUFFICES ASSUME TtyInit PROVE LineInv
        OBVIOUS
    <2>1. /\ line = <<>> /\ readPos = 0 /\ keys = 0 /\ owed = <<>> /\ misread = FALSE
          /\ DOMAIN io = Tasks /\ \A t \in Tasks : io[t] = Outside
        BY DEF TtyInit
    <2>2. \A t \in Tasks : io[t].at = "user" /\ io[t].pos = 0
        <3>1. Outside.at = "user" /\ Outside.pos = 0
            BY DEF Outside
        <3> QED BY <2>1, <3>1
    <2>3. LineTypes
        BY <2>1, <2>2 DEF LineTypes
    <2>4. Len(line) = 0 /\ Len(owed) = 0
        BY <2>1
    <2> QED BY <2>1, <2>2, <2>3, <2>4
            DEF LineInv, OwedIsUnread, StorerHasOldest, OneStorer, ResetterHasAll
<1>2. LineInv /\ [TtyNext]_<<vars, sigVars, ttyVars>> => LineInv'
    <2> SUFFICES ASSUME LineInv, [TtyNext]_<<vars, sigVars, ttyVars>> PROVE LineInv'
        OBVIOUS
    <2>0. keys \in Nat
        BY DEF LineInv, LineTypes
    <2>1. CASE \E kind \in Ends \cup {"char"} : OnInput(kind)
        BY <2>1, InputKeepsLine
    <2>2. CASE \E sig \in SigNums : OnSignalKey(sig)
        BY <2>2, SignalKeyKeepsLine
    <2>3. CASE OnStop
        BY <2>0, <2>3, LineStands DEF OnStop, lineVars
    <2>4. ASSUME NEW t \in Tasks, ReadCheck(t) \/ ReadBlock(t) \/ ReadDrain(t) PROVE LineInv'
        BY <2>4, BetweenUpdates
    <2>5. ASSUME NEW t \in Tasks, ReadLoad(t) \/ ReadStore(t) \/ ReadReset(t) PROVE LineInv'
        BY <2>5, LoadKeepsLine, StoreKeepsLine, ResetKeepsLine
    <2>6. ASSUME NEW t \in Tasks,
                 (\E n \in Sizes : StartRead(t, n)) \/ StartWrite(t) \/ WriteWaits(t)
          PROVE  LineInv'
        BY <2>6, CallKeepsLine
    <2>7. ASSUME NEW t \in Tasks, SetMode(t) \/ \E id \in Slots : SetForegroundPID(t, id)
          PROVE  LineInv'
        <3>1. UNCHANGED <<line, readPos, io, keys, owed, misread, torn>>
            BY <2>7 DEF SetMode, SetForegroundPID, lineVars, ttyHistory
        <3> QED BY <2>0, <3>1, LineStands
    <2>8. CASE UNCHANGED ttyVars
        <3>1. UNCHANGED <<line, readPos, io, keys, owed, misread, torn>>
            BY <2>8 DEF ttyVars, lineVars, ttyHistory
        <3> QED BY <2>0, <3>1, LineStands
    <2> QED BY <2>1, <2>2, <2>3, <2>4, <2>5, <2>6, <2>7, <2>8 DEF TtyNext
<1> QED BY <1>1, <1>2, PTL DEF TtySpec

\* Every key OnInput accepted reaches one reader, in the order of typing, also with
\* any number of readers, unless a step got into the middle of an update.
THEOREM KeysReachReaders == TtySpec => []TypedIsRead
<1>1. LineInv => TypedIsRead
    <2> SUFFICES ASSUME LineInv, ~torn PROVE ~misread /\ owed = [i \in DOMAIN Unread |-> Unread[i].id]
        BY DEF TypedIsRead
    <2>1. ~misread /\ OwedIsUnread /\ LineTypes
        BY DEF LineInv
    <2>2. /\ Unread \in Seq(Key) /\ Len(Unread) = Len(line) - readPos
          /\ \A i \in 1..Len(Unread) : Unread[i] = line[readPos + i]
        BY <2>1, UnreadIs DEF OwedIsUnread
    <2>3. owed \in Seq(Nat) /\ Len(owed) = Len(Unread)
        BY <2>1, <2>2 DEF OwedIsUnread, LineTypes
    <2>4. DOMAIN owed = 1..Len(owed) /\ DOMAIN Unread = 1..Len(Unread)
        BY <2>2, <2>3
    <2>5. owed = [i \in 1..Len(owed) |-> owed[i]]
        BY <2>3
    <2>6. \A i \in 1..Len(owed) : owed[i] = Unread[i].id
        BY <2>1, <2>2, <2>3 DEF OwedIsUnread
    <2> QED BY <2>1, <2>3, <2>4, <2>5, <2>6
<1> QED BY <1>1, LineInvariance, PTL
=============================================================================
