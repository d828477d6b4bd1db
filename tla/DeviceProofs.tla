---------------------------- MODULE DeviceProofs ----------------------------
(***************************************************************************)
(* The sleeping lock (Mutex), which the disk drivers take, and the device  *)
(* drivers: the rings of the network card (E1000), the command             *)
(* ring and the slots of the USB controller (Xhci), the port of a disk     *)
(* (Ahci) and the queues of another (Nvme), for rings and queues of any    *)
(* length and any number of buffers, callers, tasks, locks, ports and      *)
(* slots.                                                                  *)
(***************************************************************************)
EXTENDS MCDevices, NumberLemmas, FiniteSetTheorems, SequenceTheorems, TLAPS

(***************************************************************************)
(* The sleeping lock.  LockState is inductive as it stands.  That a lock   *)
(* with somebody inside is taken is not: it rests on the number of tasks   *)
(* inside, which is the number of queued waiters and one for the lock, and *)
(* so on the links spelling the queue, which a task that enters a queue    *)
(* twice destroys (QueuesAreExact).                                        *)
(***************************************************************************)
\* Appending and dropping a head keep the links well typed, and leave the
\* heads of the other lists alone.
LEMMA LinkedHeads ==
    ASSUME LockTypes, NEW l \in Locks, NEW t \in Contenders, locked[l]
    PROVE  /\ Linked(l, t) \in [head : [Lists -> Tasks \cup {NoTask}],
                                tail : [Lists -> Tasks \cup {NoTask}],
                                next : [Tasks -> Tasks \cup {NoTask}]]
           /\ \A k \in Locks : k # l => Linked(l, t).head[k] = wl.head[k]
BY MutexAssumption DEF LockTypes, Linked, IsEmpty

LEMMA UnlinkedHeads ==
    ASSUME LockTypes, NEW l \in Locks, ~IsEmpty(l)
    PROVE  /\ HeadUnlinked(l) \in [head : [Lists -> Tasks \cup {NoTask}],
                                   tail : [Lists -> Tasks \cup {NoTask}],
                                   next : [Tasks -> Tasks \cup {NoTask}]]
           /\ \A k \in Locks : k # l => HeadUnlinked(l).head[k] = wl.head[k]
BY MutexAssumption DEF LockTypes, HeadUnlinked, IsEmpty

LEMMA AcquireKeeps ==
    ASSUME LockState, NEW t \in Contenders, NEW l \in Locks, Acquire(t, l)
    PROVE  LockState'
<1>1. CASE TakeFree(t, l)
  BY <1>1, NoTaskAssumption, MutexAssumption DEF TakeFree, LockState, LockTypes, IsEmpty
<1>2. CASE WaitFor(t, l)
  <2>1. wl' = Linked(l, t) /\ locked[l] /\ UNCHANGED <<locked, owner>>
    BY <1>2 DEF WaitFor
  <2>2. LockTypes /\ LockTypes'
    BY <2>1, LinkedHeads, MutexAssumption DEF LockState, LockTypes
  <2>3. \A k \in Locks : wl'.head[k] # NoTask => locked'[k]
    BY <2>1, <2>2, LinkedHeads, MutexAssumption DEF LockState, IsEmpty
  <2> QED
    BY <2>1, <2>2, <2>3 DEF LockState, IsEmpty
<1> QED
  BY <1>1, <1>2 DEF Acquire

LEMMA ReleaseKeeps ==
    ASSUME LockState, NEW t \in Contenders, NEW l \in Locks, Release(t, l)
    PROVE  LockState'
<1>1. CASE HandOver(l)
  <2>1. /\ wl' = HeadUnlinked(l) /\ ~IsEmpty(l)
        /\ owner' = [owner EXCEPT ![l] = wl.head[l]]
        /\ UNCHANGED locked
    BY <1>1 DEF HandOver
  <2>2. LockTypes /\ LockTypes' /\ locked[l] /\ owner'[l] # NoTask
    BY <2>1, UnlinkedHeads, MutexAssumption DEF LockState, LockTypes, IsEmpty
  <2>3. \A k \in Locks : wl'.head[k] # NoTask => locked'[k]
    BY <2>1, <2>2, UnlinkedHeads, MutexAssumption DEF LockState, IsEmpty
  <2>4. \A k \in Locks : locked'[k] <=> owner'[k] # NoTask
    BY <2>1, <2>2 DEF LockState, LockTypes
  <2> QED
    BY <2>2, <2>3, <2>4 DEF LockState, IsEmpty
<1>2. CASE SetFree(l)
  BY <1>2 DEF SetFree, LockState, LockTypes, IsEmpty
<1> QED
  BY <1>1, <1>2 DEF Release

\* For any number of tasks and locks: Mutex::locked and Mutex::owner agree, and
\* a free Mutex has no queued waiter, although tasks re-enter its queue.
THEOREM LocksAgree == MutexSpec => []LockState
<1>1. MutexInit => LockState
  BY NoTaskAssumption, MutexAssumption DEF MutexInit, LocksFree, LockState, LockTypes, IsEmpty, EmptyLists
<1>2. LockState /\ [MutexNext]_<<dispatchVars, wl, mutexVars>> => LockState'
  <2> SUFFICES ASSUME LockState, [MutexNext]_<<dispatchVars, wl, mutexVars>> PROVE LockState'
    OBVIOUS
  <2>1. CASE \E t \in Contenders, l \in Locks : l \notin holds[t] /\ Acquire(t, l)
    BY <2>1, AcquireKeeps
  <2>2. CASE \E t \in Contenders, l \in Locks : l \in holds[t] /\ Release(t, l)
    BY <2>2, ReleaseKeeps
  <2>3. CASE UNCHANGED <<wl, mutexVars>>
    BY <2>3 DEF LockState, LockTypes, IsEmpty, mutexVars
  <2>4. CASE UNCHANGED <<dispatchVars, wl, mutexVars>>
    BY <2>4 DEF LockState, LockTypes, IsEmpty, mutexVars
  <2> QED
    BY <2>1, <2>2, <2>3, <2>4 DEF MutexNext
<1> QED
  BY <1>1, <1>2, PTL DEF MutexSpec

-----------------------------------------------------------------------------
\* The links of a lock spell its queue, from the head to the tail.
Spelled(l) ==
    IF queue[l] = <<>> THEN wl.head[l] = NoTask
    ELSE /\ wl.head[l] = queue[l][1]
         /\ wl.tail[l] = queue[l][Len(queue[l])]
         /\ wl.next[wl.tail[l]] = NoTask
         /\ \A i \in 1..(Len(queue[l]) - 1) : wl.next[queue[l][i]] = queue[l][i + 1]

\* No task is in two places of the queues.
DistinctWaiters ==
    \A l, k \in Locks : \A i \in 1..Len(queue[l]), j \in 1..Len(queue[k]) :
       queue[l][i] = queue[k][j] => l = k /\ i = j

\* Inside are the queued waiters and the task the lock counts for.
Counted(l) ==
    /\ IsFiniteSet(Inside(l))
    /\ Cardinality(Inside(l)) = Len(queue[l]) + (IF locked[l] THEN 1 ELSE 0)

QueueTypes ==
    /\ queue \in [Locks -> Seq(Tasks)]
    /\ rejoined \in BOOLEAN
    /\ holds \in [Contenders -> SUBSET Locks]

QueuesAreExact ==
    /\ QueueTypes
    /\ ~rejoined =>
         /\ DistinctWaiters
         /\ \A l \in Locks : Spelled(l) /\ Counted(l)

\* The parts of the links after t was appended to the queue of l.
LEMMA LinkedParts ==
    ASSUME LockTypes, NEW l \in Locks, NEW t \in Contenders
    PROVE  /\ IsEmpty(l) => /\ Linked(l, t).head = [wl.head EXCEPT ![l] = t]
                            /\ Linked(l, t).next = [wl.next EXCEPT ![t] = NoTask]
           /\ ~IsEmpty(l) => /\ Linked(l, t).head = wl.head
                             /\ Linked(l, t).next = [[wl.next EXCEPT ![t] = NoTask] EXCEPT ![wl.tail[l]] = t]
           /\ Linked(l, t).tail = [wl.tail EXCEPT ![l] = t]
BY MutexAssumption DEF LockTypes, Linked, IsEmpty

LEMMA UnlinkedParts ==
    ASSUME LockTypes, NEW l \in Locks, ~IsEmpty(l)
    PROVE  /\ HeadUnlinked(l).head = [wl.head EXCEPT ![l] = wl.next[wl.head[l]]]
           /\ HeadUnlinked(l).next = wl.next
           /\ HeadUnlinked(l).tail =
                [wl.tail EXCEPT ![l] = IF wl.next[wl.head[l]] = NoTask THEN NoTask ELSE @]
BY MutexAssumption DEF LockTypes, HeadUnlinked, IsEmpty

\* A task that is in no queue joins one.
LEMMA JoiningSpells ==
    ASSUME LockTypes, QueueTypes, DistinctWaiters, \A k \in Locks : Spelled(k),
           NEW l \in Locks, NEW t \in Contenders, ~InQueue(t),
           wl' = Linked(l, t), queue' = [queue EXCEPT ![l] = Append(@, t)]
    PROVE  DistinctWaiters' /\ \A k \in Locks : Spelled(k)'
<1>1. t \in Tasks /\ t # NoTask
  BY MutexAssumption, NoTaskAssumption
<1>2. /\ \A k \in Locks : queue[k] \in Seq(Tasks)
      /\ queue'[l] = Append(queue[l], t) /\ Len(queue'[l]) = Len(queue[l]) + 1
      /\ queue'[l][Len(queue[l]) + 1] = t
      /\ \A i \in 1..Len(queue[l]) : queue'[l][i] = queue[l][i]
      /\ \A k \in Locks : k # l => queue'[k] = queue[k]
      /\ \A k \in Locks : \A i \in 1..Len(queue[k]) : queue[k][i] # t /\ queue[k][i] \in Tasks
      /\ \A k \in Locks : Len(queue[k]) \in Nat
  BY <1>1 DEF QueueTypes, InQueue
<1>3. DistinctWaiters'
  <2> SUFFICES ASSUME NEW a \in Locks, NEW k \in Locks,
                      NEW i \in 1..Len(queue'[a]), NEW j \in 1..Len(queue'[k]),
                      queue'[a][i] = queue'[k][j]
               PROVE  a = k /\ i = j
    BY DEF DistinctWaiters
  <2>1. CASE i \in 1..Len(queue[a]) /\ j \in 1..Len(queue[k])
    BY <1>2, <2>1 DEF DistinctWaiters
  <2>2. CASE i \notin 1..Len(queue[a])
    BY <1>2, <2>2
  <2>3. CASE j \notin 1..Len(queue[k])
    BY <1>2, <2>3
  <2> QED
    BY <2>1, <2>2, <2>3
<1>4. CASE queue[l] = <<>>
  <2>1. /\ wl'.head = [wl.head EXCEPT ![l] = t] /\ wl'.tail = [wl.tail EXCEPT ![l] = t]
        /\ wl'.next = [wl.next EXCEPT ![t] = NoTask]
    <3>1. IsEmpty(l)
      BY <1>4 DEF Spelled, IsEmpty
    <3>2. /\ Linked(l, t).head = [wl.head EXCEPT ![l] = t]
          /\ Linked(l, t).tail = [wl.tail EXCEPT ![l] = t]
          /\ Linked(l, t).next = [wl.next EXCEPT ![t] = NoTask]
      BY <3>1, LinkedParts, Zenon
    <3> QED
      BY <3>2, Zenon
  <2>2. Spelled(l)'
    BY <1>1, <1>2, <1>4, <2>1, MutexAssumption DEF LockTypes, Spelled
  <2>3. ASSUME NEW k \in Locks, k # l PROVE Spelled(k)'
    BY <1>2, <2>1, <2>3, MutexAssumption DEF LockTypes, Spelled
  <2> QED
    BY <1>3, <2>2, <2>3
<1>5. CASE queue[l] # <<>>
  <2>1. /\ Len(queue[l]) > 0 /\ wl.tail[l] = queue[l][Len(queue[l])]
        /\ wl.head[l] = queue[l][1]
    BY <1>2, <1>5 DEF Spelled
  <2>2. /\ wl'.head = wl.head /\ wl'.tail = [wl.tail EXCEPT ![l] = t]
        /\ wl'.next = [[wl.next EXCEPT ![t] = NoTask] EXCEPT ![wl.tail[l]] = t]
    <3>1. 1 \in 1..Len(queue[l])
      BY <1>2, <2>1
    <3>2. ~IsEmpty(l)
      BY <1>2, <2>1, <3>1, NoTaskAssumption DEF IsEmpty
    <3> QED
      BY <3>2, LinkedParts
  <2>3. /\ wl'.next[t] = NoTask /\ wl'.next[wl.tail[l]] = t
        /\ \A u \in Tasks : u # t /\ u # wl.tail[l] => wl'.next[u] = wl.next[u]
    BY <1>1, <1>2, <2>1, <2>2 DEF LockTypes
  <2>4. Spelled(l)'
    <3>1. ASSUME NEW i \in 1..(Len(queue'[l]) - 1) PROVE wl'.next[queue'[l][i]] = queue'[l][i + 1]
      <4>1. CASE i = Len(queue[l])
        BY <1>2, <2>1, <2>3, <4>1
      <4>2. CASE i < Len(queue[l])
        <5>1. /\ i \in 1..(Len(queue[l]) - 1) /\ i + 1 \in 1..Len(queue[l])
              /\ i \in 1..Len(queue[l]) /\ Len(queue[l]) \in 1..Len(queue[l])
          BY <1>2, <4>2
        <5>2. queue[l][i] # wl.tail[l]
          BY <2>1, <4>2, <5>1 DEF DistinctWaiters
        <5>3. wl.next[queue[l][i]] = queue[l][i + 1]
          BY <1>5, <5>1 DEF Spelled
        <5> QED
          BY <1>2, <2>3, <5>1, <5>2, <5>3
      <4> QED
        BY <1>2, <4>1, <4>2
    <3>2. wl'.head[l] = queue'[l][1] /\ wl'.tail[l] = t /\ queue'[l] # <<>>
      BY <1>1, <1>2, <2>1, <2>2, MutexAssumption DEF LockTypes
    <3> QED
      BY <1>2, <2>3, <3>1, <3>2 DEF Spelled
  <2>5. ASSUME NEW k \in Locks, k # l PROVE Spelled(k)'
    <3>1. wl'.head[k] = wl.head[k] /\ wl'.tail[k] = wl.tail[k] /\ queue'[k] = queue[k]
      BY <1>2, <2>2, <2>5, MutexAssumption DEF LockTypes
    <3>2. \A i \in 1..Len(queue[k]) : wl'.next[queue[k][i]] = wl.next[queue[k][i]]
      BY <1>2, <2>1, <2>3, <2>5 DEF DistinctWaiters
    <3>3. CASE queue[k] = <<>>
      BY <3>1, <3>3 DEF Spelled
    <3>4. CASE queue[k] # <<>>
      <4>1. /\ wl.tail[k] = queue[k][Len(queue[k])] /\ Len(queue[k]) \in 1..Len(queue[k])
            /\ \A i \in 1..(Len(queue[k]) - 1) : i \in 1..Len(queue[k])
        BY <1>2, <3>4 DEF Spelled
      <4>2. wl'.next[wl'.tail[k]] = wl.next[wl.tail[k]]
        BY <3>1, <3>2, <4>1
      <4>3. Spelled(k)
        OBVIOUS
      <4>4. \A i \in 1..(Len(queue[k]) - 1) : wl'.next[queue'[k][i]] = queue'[k][i + 1]
        BY <3>1, <3>2, <3>4, <4>1, <4>3 DEF Spelled
      <4> QED
        BY <3>1, <3>4, <4>1, <4>2, <4>3, <4>4 DEF Spelled
    <3> QED
      BY <3>3, <3>4
  <2> QED
    BY <1>3, <2>4, <2>5
<1> QED
  BY <1>4, <1>5

\* The first task leaves its queue.
LEMMA LeavingSpells ==
    ASSUME LockTypes, QueueTypes, DistinctWaiters, \A k \in Locks : Spelled(k),
           NEW l \in Locks, ~IsEmpty(l), wl' = HeadUnlinked(l),
           queue' = [queue EXCEPT ![l] = IF @ = <<>> THEN @ ELSE Tail(@)]
    PROVE  /\ DistinctWaiters' /\ \A k \in Locks : Spelled(k)'
           /\ Len(queue'[l]) = Len(queue[l]) - 1
<1>1. queue[l] # <<>> /\ wl.head[l] = queue[l][1]
  BY DEF Spelled, IsEmpty
<1>2. /\ \A k \in Locks : queue[k] \in Seq(Tasks) /\ Len(queue[k]) \in Nat
      /\ queue'[l] = Tail(queue[l]) /\ Len(queue'[l]) = Len(queue[l]) - 1 /\ Len(queue[l]) > 0
      /\ \A i \in 1..(Len(queue[l]) - 1) : queue'[l][i] = queue[l][i + 1]
      /\ \A k \in Locks : k # l => queue'[k] = queue[k]
      /\ \A k \in Locks : \A i \in 1..Len(queue[k]) : queue[k][i] \in Tasks
  BY <1>1 DEF QueueTypes
<1>3. DistinctWaiters'
  <2> SUFFICES ASSUME NEW a \in Locks, NEW k \in Locks,
                      NEW i \in 1..Len(queue'[a]), NEW j \in 1..Len(queue'[k]),
                      queue'[a][i] = queue'[k][j]
               PROVE  a = k /\ i = j
    BY DEF DistinctWaiters
  <2> DEFINE x == IF a = l THEN i + 1 ELSE i
             y == IF k = l THEN j + 1 ELSE j
  <2>1. x \in 1..Len(queue[a]) /\ queue'[a][i] = queue[a][x]
    BY <1>2
  <2>2. y \in 1..Len(queue[k]) /\ queue'[k][j] = queue[k][y]
    BY <1>2
  <2>3. a = k /\ x = y
    BY <2>1, <2>2 DEF DistinctWaiters
  <2> QED
    BY <2>3
<1>4. /\ wl'.head = [wl.head EXCEPT ![l] = wl.next[wl.head[l]]] /\ wl'.next = wl.next
      /\ wl'.tail = [wl.tail EXCEPT ![l] = IF wl.next[wl.head[l]] = NoTask THEN NoTask ELSE @]
  BY UnlinkedParts
<1>5. Spelled(l)'
  <2>1. CASE Len(queue[l]) = 1
    <3>1. wl.next[wl.head[l]] = NoTask /\ queue'[l] = <<>>
      BY <1>1, <1>2, <2>1 DEF Spelled
    <3> QED
      BY <1>4, <3>1, MutexAssumption DEF Spelled, LockTypes
  <2>2. CASE Len(queue[l]) > 1
    <3>1. /\ 1 \in 1..(Len(queue[l]) - 1) /\ 2 \in 1..Len(queue[l])
          /\ \A i \in 1..(Len(queue[l]) - 2) : i + 1 \in 1..(Len(queue[l]) - 1) /\ i \in 1..(Len(queue[l]) - 1)
          /\ Len(queue[l]) - 1 \in 1..(Len(queue[l]) - 1)
      BY <1>2, <2>2
    <3>2. wl.next[wl.head[l]] = queue[l][2] /\ queue[l][2] # NoTask
      BY <1>1, <1>2, <3>1, NoTaskAssumption, SMTT(30) DEF Spelled
    <3>3. wl'.head[l] = queue'[l][1] /\ wl'.tail[l] = wl.tail[l] /\ queue'[l] # <<>>
      BY <1>2, <1>4, <2>2, <3>1, <3>2, MutexAssumption, SMTT(30) DEF LockTypes
    <3>4. wl'.tail[l] = queue'[l][Len(queue'[l])] /\ wl'.next[wl'.tail[l]] = NoTask
      BY <1>1, <1>2, <1>4, <3>1, <3>3 DEF Spelled
    <3>5. ASSUME NEW i \in 1..(Len(queue'[l]) - 1) PROVE wl'.next[queue'[l][i]] = queue'[l][i + 1]
      <4>1. i + 1 \in 1..(Len(queue[l]) - 1) /\ i \in 1..(Len(queue[l]) - 1)
        BY <1>2
      <4>2. wl.next[queue[l][i + 1]] = queue[l][(i + 1) + 1]
        BY <1>1, <4>1 DEF Spelled
      <4> QED
        BY <1>2, <1>4, <4>1, <4>2
    <3> QED
      BY <3>3, <3>4, <3>5 DEF Spelled
  <2> QED
    <3>1. Len(queue[l]) \in Nat /\ Len(queue[l]) > 0
      BY <1>2
    <3>2. Len(queue[l]) = 1 \/ Len(queue[l]) > 1
      <4>1. \A n \in Nat : n > 0 => n = 1 \/ n > 1
        OBVIOUS
      <4> QED
        BY <3>1, <4>1, Zenon
    <3> QED
      BY <3>2, <2>1, <2>2
<1>6. ASSUME NEW k \in Locks, k # l PROVE Spelled(k)'
  <2>1. /\ wl'.head[k] = wl.head[k] /\ wl'.tail[k] = wl.tail[k]
        /\ queue'[k] = queue[k] /\ wl'.next = wl.next
    BY <1>2, <1>4, <1>6, MutexAssumption DEF LockTypes
  <2>2. Spelled(k)
    OBVIOUS
  <2> QED
    BY <2>1, <2>2, ZenonT(30) DEF Spelled
<1> QED
  BY <1>2, <1>3, <1>5, <1>6

\* A task goes in or comes out of a critical section.
LEMMA GoingIn ==
    ASSUME QueueTypes, NEW t \in Contenders, NEW l \in Locks, l \notin holds[t],
           holds' = [holds EXCEPT ![t] = @ \cup {l}]
    PROVE  /\ \A k \in Locks : k # l => Inside(k)' = Inside(k)
           /\ IsFiniteSet(Inside(l)) =>
                /\ IsFiniteSet(Inside(l)')
                /\ Cardinality(Inside(l)') = Cardinality(Inside(l)) + 1
<1>1. \A k \in Locks : k # l => Inside(k)' = Inside(k)
  BY DEF Inside, QueueTypes
<1>2. Inside(l)' = Inside(l) \cup {t} /\ t \notin Inside(l)
  BY DEF Inside, QueueTypes
<1> QED
  BY <1>1, <1>2, FS_AddElement

LEMMA ComingOut ==
    ASSUME QueueTypes, NEW t \in Contenders, NEW l \in Locks, l \in holds[t],
           holds' = [holds EXCEPT ![t] = @ \ {l}]
    PROVE  /\ \A k \in Locks : k # l => Inside(k)' = Inside(k)
           /\ IsFiniteSet(Inside(l)) =>
                /\ IsFiniteSet(Inside(l)')
                /\ Cardinality(Inside(l)') = Cardinality(Inside(l)) - 1
                /\ Cardinality(Inside(l)) > 0
<1>1. \A k \in Locks : k # l => Inside(k)' = Inside(k)
  BY DEF Inside, QueueTypes
<1>2. Inside(l)' = Inside(l) \ {t} /\ t \in Inside(l)
  BY DEF Inside, QueueTypes
<1>3. ASSUME IsFiniteSet(Inside(l))
      PROVE  /\ IsFiniteSet(Inside(l)')
             /\ Cardinality(Inside(l)') = Cardinality(Inside(l)) - 1
             /\ Cardinality(Inside(l)) > 0
  <2>1. IsFiniteSet(Inside(l) \ {t}) /\ Cardinality(Inside(l) \ {t}) = Cardinality(Inside(l)) - 1
    BY <1>2, <1>3, FS_RemoveElement
  <2>2. Cardinality(Inside(l)) \in Nat /\ Cardinality(Inside(l)) # 0
    BY <1>2, <1>3, FS_CardinalityType, FS_EmptySet
  <2> QED
    BY <1>2, <2>1, <2>2
<1> QED
  BY <1>1, <1>3

LEMMA AcquireKeepsQueues ==
    ASSUME LockState, QueuesAreExact, NEW t \in Contenders, NEW l \in Locks,
           l \notin holds[t], Acquire(t, l)
    PROVE  QueuesAreExact'
<1>1. holds' = [holds EXCEPT ![t] = @ \cup {l}] /\ QueueTypes /\ LockTypes
  BY DEF Acquire, QueuesAreExact, LockState
<1>2. CASE TakeFree(t, l)
  <2>1. /\ UNCHANGED <<wl, queue, rejoined>>
        /\ locked' = [locked EXCEPT ![l] = TRUE] /\ ~locked[l] /\ IsEmpty(l)
    BY <1>2 DEF TakeFree, LockState
  <2>2. QueueTypes'
    BY <1>1, <2>1 DEF QueueTypes
  <2>3. ASSUME ~rejoined PROVE DistinctWaiters' /\ \A k \in Locks : Spelled(k)' /\ Counted(k)'
    <3>1. DistinctWaiters /\ \A k \in Locks : Spelled(k) /\ Counted(k)
      BY <2>3 DEF QueuesAreExact
    <3>2. DistinctWaiters' /\ \A k \in Locks : Spelled(k)'
      BY <2>1, <3>1 DEF DistinctWaiters, Spelled
    <3>3. Counted(l)'
      <4>1. IsFiniteSet(Inside(l)') /\ Cardinality(Inside(l)') = Cardinality(Inside(l)) + 1
        BY <1>1, <3>1, GoingIn DEF Counted
      <4>2. queue'[l] = queue[l] /\ Len(queue[l]) \in Nat /\ locked'[l] = TRUE
        BY <1>1, <2>1 DEF LockTypes, QueueTypes
      <4>3. Cardinality(Inside(l)) = Len(queue[l]) + (IF locked[l] THEN 1 ELSE 0)
        BY <3>1 DEF Counted
      <4>4. Cardinality(Inside(l)) = Len(queue[l])
        BY <2>1, <4>2, <4>3
      <4>5. Cardinality(Inside(l)') = Len(queue'[l]) + (IF locked'[l] THEN 1 ELSE 0)
        BY <4>1, <4>2, <4>4
      <4> QED
        BY <4>1, <4>5 DEF Counted
    <3>4. ASSUME NEW k \in Locks, k # l PROVE Counted(k)'
      <4>1. Inside(k)' = Inside(k) /\ locked'[k] = locked[k] /\ queue'[k] = queue[k]
        BY <1>1, <2>1, <3>4, GoingIn DEF LockTypes
      <4> QED
        BY <3>1, <4>1 DEF Counted
    <3> QED
      BY <3>2, <3>3, <3>4
  <2> QED
    BY <2>1, <2>2, <2>3 DEF QueuesAreExact
<1>3. CASE WaitFor(t, l)
  <2>1. /\ wl' = Linked(l, t) /\ UNCHANGED locked /\ locked[l]
        /\ rejoined' = (rejoined \/ InQueue(t))
        /\ queue' = IF rejoined' THEN NoWaiters ELSE [queue EXCEPT ![l] = Append(@, t)]
    BY <1>3 DEF WaitFor
  <2>2. QueueTypes'
    <3>1. queue' \in [Locks -> Seq(Tasks)]
      BY <1>1, <2>1, MutexAssumption DEF QueueTypes, NoWaiters
    <3>2. rejoined' \in BOOLEAN
      BY <1>1, <2>1 DEF QueueTypes, InQueue
    <3>3. holds' \in [Contenders -> SUBSET Locks]
      BY <1>1 DEF QueueTypes
    <3> QED
      BY <3>1, <3>2, <3>3 DEF QueueTypes
  <2>3. ASSUME ~rejoined' PROVE DistinctWaiters' /\ \A k \in Locks : Spelled(k)' /\ Counted(k)'
    <3>1. /\ ~InQueue(t) /\ queue' = [queue EXCEPT ![l] = Append(@, t)]
          /\ DistinctWaiters /\ \A k \in Locks : Spelled(k) /\ Counted(k)
      BY <2>1, <2>3 DEF QueuesAreExact
    <3>2. DistinctWaiters' /\ \A k \in Locks : Spelled(k)'
      BY <1>1, <2>1, <3>1, JoiningSpells
    <3>3. Counted(l)'
      <4>1. queue[l] \in Seq(Tasks) /\ queue'[l] = Append(queue[l], t) /\ t \in Tasks
        BY <1>1, <3>1, MutexAssumption DEF QueueTypes
      <4>2. Len(queue'[l]) = Len(queue[l]) + 1 /\ Len(queue[l]) \in Nat
        BY <4>1
      <4> QED
        BY <1>1, <2>1, <3>1, <4>2, GoingIn DEF Counted
    <3>4. ASSUME NEW k \in Locks, k # l PROVE Counted(k)'
      <4>1. Inside(k)' = Inside(k) /\ locked'[k] = locked[k] /\ queue'[k] = queue[k]
        BY <1>1, <2>1, <3>1, <3>4, GoingIn DEF QueueTypes
      <4> QED
        BY <3>1, <4>1 DEF Counted
    <3> QED
      BY <3>2, <3>3, <3>4
  <2> QED
    BY <2>2, <2>3 DEF QueuesAreExact
<1> QED
  BY <1>2, <1>3 DEF Acquire

LEMMA ReleaseKeepsQueues ==
    ASSUME LockState, QueuesAreExact, NEW t \in Contenders, NEW l \in Locks,
           l \in holds[t], Release(t, l)
    PROVE  QueuesAreExact'
<1>1. holds' = [holds EXCEPT ![t] = @ \ {l}] /\ QueueTypes /\ LockTypes
  BY DEF Release, QueuesAreExact, LockState
<1>2. CASE HandOver(l)
  <2>1. /\ ~IsEmpty(l) /\ wl' = HeadUnlinked(l) /\ UNCHANGED <<locked, rejoined>>
        /\ queue' = [queue EXCEPT ![l] = IF @ = <<>> THEN @ ELSE Tail(@)]
    BY <1>2 DEF HandOver
  <2>2. QueueTypes'
    <3>1. queue[l] \in Seq(Tasks)
      BY <1>1 DEF QueueTypes
    <3>2. (IF queue[l] = <<>> THEN queue[l] ELSE Tail(queue[l])) \in Seq(Tasks)
      BY <3>1
    <3> QED
      BY <1>1, <2>1, <3>2 DEF QueueTypes
  <2>3. ASSUME ~rejoined PROVE DistinctWaiters' /\ \A k \in Locks : Spelled(k)' /\ Counted(k)'
    <3>1. DistinctWaiters /\ \A k \in Locks : Spelled(k) /\ Counted(k)
      BY <2>3 DEF QueuesAreExact
    <3>2. /\ DistinctWaiters' /\ \A k \in Locks : Spelled(k)'
          /\ Len(queue'[l]) = Len(queue[l]) - 1
      BY <1>1, <2>1, <3>1, LeavingSpells
    <3>3. Counted(l)'
      <4>1. Len(queue[l]) \in Nat
        BY <1>1 DEF QueueTypes
      <4>2. IsFiniteSet(Inside(l)') /\ Cardinality(Inside(l)') = Cardinality(Inside(l)) - 1
        BY <1>1, <3>1, ComingOut DEF Counted
      <4>3. Cardinality(Inside(l)) = Len(queue[l]) + (IF locked[l] THEN 1 ELSE 0)
        BY <3>1 DEF Counted
      <4>4. Len(queue'[l]) = Len(queue[l]) - 1 /\ locked'[l] = locked[l]
        BY <2>1, <3>2
      <4>5. Cardinality(Inside(l)') = Len(queue'[l]) + (IF locked'[l] THEN 1 ELSE 0)
        BY <4>1, <4>2, <4>3, <4>4
      <4> QED
        BY <4>2, <4>5 DEF Counted
    <3>4. ASSUME NEW k \in Locks, k # l PROVE Counted(k)'
      <4>1. Inside(k)' = Inside(k) /\ locked'[k] = locked[k] /\ queue'[k] = queue[k]
        BY <1>1, <2>1, <3>4, ComingOut DEF QueueTypes
      <4> QED
        BY <3>1, <4>1 DEF Counted
    <3> QED
      BY <3>2, <3>3, <3>4
  <2> QED
    BY <2>1, <2>2, <2>3 DEF QueuesAreExact
<1>3. CASE SetFree(l)
  <2>1. /\ IsEmpty(l) /\ locked' = [locked EXCEPT ![l] = FALSE]
        /\ UNCHANGED <<wl, queue, rejoined>>
    BY <1>3 DEF SetFree
  <2>2. QueueTypes'
    BY <1>1, <2>1 DEF QueueTypes
  <2>3. ASSUME ~rejoined PROVE DistinctWaiters' /\ \A k \in Locks : Spelled(k)' /\ Counted(k)'
    <3>1. DistinctWaiters /\ \A k \in Locks : Spelled(k) /\ Counted(k)
      BY <2>3 DEF QueuesAreExact
    <3>2. DistinctWaiters' /\ \A k \in Locks : Spelled(k)'
      <4>0. queue' = queue
        BY <2>1
      <4>1. DistinctWaiters'
        BY <4>0, <3>1 DEF DistinctWaiters
      <4>2. \A k \in Locks : Spelled(k)'
        BY <2>1, <3>1, Zenon DEF Spelled
      <4> QED BY <4>1, <4>2
    <3>3. Counted(l)'
      <4>1. queue[l] = <<>>
        <5>1. Spelled(l) /\ queue[l] \in Seq(Tasks)
          BY <1>1, <3>1 DEF QueueTypes
        <5>2. ASSUME queue[l] # <<>> PROVE FALSE
          <6>1. wl.head[l] = queue[l][1] /\ queue[l][1] \in Tasks
            BY <5>1, <5>2 DEF Spelled
          <6> QED
            BY <2>1, <6>1, NoTaskAssumption DEF IsEmpty
        <5> QED
          BY <5>2
      <4>2. Len(queue[l]) = 0 /\ Len(queue'[l]) = 0
        BY <2>1, <4>1
      <4>3. /\ IsFiniteSet(Inside(l)') /\ Cardinality(Inside(l)') = Cardinality(Inside(l)) - 1
            /\ Cardinality(Inside(l)) > 0
        BY <1>1, <3>1, ComingOut DEF Counted
      <4>4. Cardinality(Inside(l)) = 0 + (IF locked[l] THEN 1 ELSE 0)
        BY <3>1, <4>2 DEF Counted
      <4>5. Cardinality(Inside(l)) = 1
        BY <4>3, <4>4
      <4>6. locked'[l] = FALSE
        BY <1>1, <2>1 DEF LockTypes
      <4> QED
        BY <4>2, <4>3, <4>5, <4>6 DEF Counted
    <3>4. ASSUME NEW k \in Locks, k # l PROVE Counted(k)'
      <4>1. Inside(k)' = Inside(k) /\ locked'[k] = locked[k] /\ queue'[k] = queue[k]
        BY <1>1, <2>1, <3>4, ComingOut DEF LockTypes
      <4> QED
        BY <3>1, <4>1 DEF Counted
    <3> QED
      BY <3>2, <3>3, <3>4
  <2> QED
    BY <2>1, <2>2, <2>3 DEF QueuesAreExact
<1> QED
  BY <1>2, <1>3 DEF Release

\* For any number of tasks and locks: the queues are exact until a task enters one
\* twice, as Acquire lets it do (mutex.cpp).
THEOREM QueuesStayExact == MutexSpec => []QueuesAreExact
<1>1. MutexInit => QueuesAreExact
  <2> SUFFICES ASSUME MutexInit PROVE QueuesAreExact
    OBVIOUS
  <2>1. QueueTypes /\ \A l \in Locks : queue[l] = <<>> /\ locked[l] = FALSE /\ wl.head[l] = NoTask
    <3>1. <<>> \in Seq(Tasks)
      OBVIOUS
    <3>2. QueueTypes
      BY <3>1 DEF MutexInit, LocksFree, QueueTypes, NoWaiters
    <3>3. \A l \in Locks : queue[l] = <<>> /\ locked[l] = FALSE /\ wl.head[l] = NoTask
      BY MutexAssumption DEF MutexInit, LocksFree, NoWaiters, EmptyLists
    <3> QED
      BY <3>2, <3>3
  <2>2. \A l \in Locks : Inside(l) = {}
    BY DEF MutexInit, LocksFree, Inside
  <2>3. IsFiniteSet({}) /\ Cardinality({}) = 0
    BY FS_EmptySet
  <2>4. DistinctWaiters
    BY <2>1 DEF DistinctWaiters
  <2>5. ASSUME NEW l \in Locks PROVE Spelled(l) /\ Counted(l)
    <3>1. queue[l] = <<>> /\ locked[l] = FALSE /\ wl.head[l] = NoTask /\ Inside(l) = {} /\ Len(<<>>) = 0
      BY <2>1, <2>2
    <3>2. Spelled(l)
      BY <3>1 DEF Spelled
    <3>3. Cardinality(Inside(l)) = Len(queue[l]) + (IF locked[l] THEN 1 ELSE 0)
      BY <2>3, <3>1
    <3> QED
      BY <2>3, <3>1, <3>2, <3>3 DEF Counted
  <2> QED
    BY <2>1, <2>4, <2>5 DEF QueuesAreExact
<1>2. LockState /\ QueuesAreExact /\ [MutexNext]_<<dispatchVars, wl, mutexVars>> => QueuesAreExact'
  <2> SUFFICES ASSUME LockState, QueuesAreExact, [MutexNext]_<<dispatchVars, wl, mutexVars>>
               PROVE  QueuesAreExact'
    OBVIOUS
  <2>1. CASE \E t \in Contenders, l \in Locks : l \notin holds[t] /\ Acquire(t, l)
    BY <2>1, AcquireKeepsQueues
  <2>2. CASE \E t \in Contenders, l \in Locks : l \in holds[t] /\ Release(t, l)
    BY <2>2, ReleaseKeepsQueues
  <2>3. CASE UNCHANGED <<wl, mutexVars>>
    <3>1. QueueTypes' /\ DistinctWaiters' = DistinctWaiters /\ rejoined' = rejoined
      BY <2>3 DEF QueuesAreExact, QueueTypes, DistinctWaiters, mutexVars
    <3>2. \A l \in Locks : Spelled(l)' = Spelled(l) /\ Counted(l)' = Counted(l)
      BY <2>3 DEF Spelled, Counted, Inside, mutexVars
    <3> QED
      BY <3>1, <3>2 DEF QueuesAreExact
  <2> QED
    BY <2>1, <2>2, <2>3 DEF MutexNext
<1> QED
  BY <1>1, <1>2, LocksAgree, PTL DEF MutexSpec

\* Mutex::Acquire finds a lock free only when nobody is inside, although waiters
\* slip through and release the lock out of turn.
THEOREM FreeMeansEmpty == MutexSpec => []InsideImpliesLocked
<1>1. LockState /\ QueuesAreExact => InsideImpliesLocked
  <2> SUFFICES ASSUME LockState, QueuesAreExact, ~rejoined, NEW l \in Locks, ~locked[l]
               PROVE  Inside(l) = {}
    BY DEF InsideImpliesLocked
  <2>1. Spelled(l) /\ Counted(l) /\ queue[l] \in Seq(Tasks) /\ wl.head[l] = NoTask
    BY DEF LockState, IsEmpty, QueuesAreExact, QueueTypes
  <2>2. queue[l] = <<>>
    <3>1. ASSUME queue[l] # <<>> PROVE FALSE
      <4>1. wl.head[l] = queue[l][1] /\ queue[l][1] \in Tasks
        BY <2>1, <3>1 DEF Spelled
      <4> QED
        BY <2>1, <4>1, NoTaskAssumption
    <3> QED
      BY <3>1
  <2>3. IsFiniteSet(Inside(l)) /\ Cardinality(Inside(l)) = 0
    BY <2>1, <2>2 DEF Counted
  <2> QED
    BY <2>3, FS_EmptySet
<1> QED
  BY <1>1, LocksAgree, QueuesStayExact, PTL

-----------------------------------------------------------------------------
\* What the drivers need of the lock: the links spell the queues, and who has
\* asked for a lock is queued for it or is its owner.
LinksExact == ~rejoined /\ DistinctWaiters /\ \A k \in Locks : Spelled(k)

\* A Release that leaves everybody where it is, and one that makes h the owner.
NobodyLeaves ==
    /\ \A u \in Tasks : InQueue(u)' <=> InQueue(u)
    /\ UNCHANGED <<state, current, runq, corrupt>>
LeavesFor(h, l) ==
    /\ h \in Tasks /\ InQueue(h) /\ ~InQueue(h)' /\ owner'[l] = h
    /\ \A u \in Tasks \ {h} : InQueue(u)' <=> InQueue(u)
    /\ runq' = runq \cup {h} /\ UNCHANGED <<state, current>>

LEMMA LinksStay ==
    ASSUME LinksExact, UNCHANGED <<wl, queue, rejoined>>
    PROVE  LinksExact'
<1>1. wl' = wl /\ queue' = queue /\ rejoined' = rejoined
    OBVIOUS
<1>2. DistinctWaiters'
    BY <1>1 DEF LinksExact, DistinctWaiters
<1>3. ASSUME NEW k \in Locks PROVE Spelled(k)'
    <2>1. Spelled(k)
        BY DEF LinksExact
    <2> QED BY <1>1, <2>1, ZenonT(30) DEF Spelled
<1> QED BY <1>1, <1>2, <1>3 DEF LinksExact

LEMMA LocksAlone ==
    ASSUME LockState, QueueTypes, UNCHANGED <<wl, mutexVars>>
    PROVE  LockState' /\ QueueTypes'
BY DEF mutexVars, LockState, LockTypes, IsEmpty, QueueTypes

LEMMA LockTypesStay ==
    ASSUME LockState, QueueTypes, NEW t \in Contenders, NEW l \in Locks, Acquire(t, l) \/ Release(t, l)
    PROVE  LockState' /\ QueueTypes'
<1>1. LockState'
    BY AcquireKeeps, ReleaseKeeps
<1>2. holds' \in [Contenders -> SUBSET Locks]
    BY DEF Acquire, Release, QueueTypes
<1>3. queue[l] \in Seq(Tasks) /\ t \in Tasks
    BY MutexAssumption DEF QueueTypes
<1>4. Append(queue[l], t) \in Seq(Tasks) /\ <<>> \in Seq(Tasks)
    BY <1>3
<1>5. (IF queue[l] = <<>> THEN queue[l] ELSE Tail(queue[l])) \in Seq(Tasks)
    BY <1>3
<1>6. queue' \in [Locks -> Seq(Tasks)] /\ rejoined' \in BOOLEAN
    <2>1. CASE TakeFree(t, l) \/ SetFree(l)
        BY <2>1 DEF TakeFree, SetFree, QueueTypes
    <2>2. CASE WaitFor(t, l)
        <3>1. \/ queue' = NoWaiters
              \/ queue' = [queue EXCEPT ![l] = Append(queue[l], t)]
            BY <2>2 DEF WaitFor
        <3>2. rejoined' \in BOOLEAN
            BY <2>2 DEF WaitFor, QueueTypes, InQueue
        <3> QED BY <1>4, <3>1, <3>2 DEF NoWaiters, QueueTypes
    <2>3. CASE HandOver(l)
        <3>1. /\ queue' = [queue EXCEPT ![l] = IF queue[l] = <<>> THEN queue[l] ELSE Tail(queue[l])]
              /\ rejoined' = rejoined
            BY <2>3 DEF HandOver
        <3> QED BY <1>5, <3>1 DEF QueueTypes
    <2> QED BY <2>1, <2>2, <2>3 DEF Acquire, Release
<1> QED BY <1>1, <1>2, <1>6 DEF QueueTypes

LEMMA LocksInitially ==
    ASSUME MutexInit
    PROVE  LockState /\ QueueTypes /\ LinksExact /\ \A t \in Tasks : ~InQueue(t)
<1>3. /\ locked = [l \in Locks |-> FALSE] /\ owner = [l \in Locks |-> NoTask] /\ wl = EmptyLists
      /\ holds = [t \in Contenders |-> {}] /\ queue = [l \in Locks |-> <<>>] /\ rejoined = FALSE
    BY DEF MutexInit, LocksFree, NoWaiters
<1>4. LockState
    BY <1>3, NoTaskAssumption, MutexAssumption DEF LockState, LockTypes, IsEmpty, EmptyLists
<1>5. <<>> \in Seq(Tasks)
    OBVIOUS
<1>6. QueueTypes
    BY <1>3, <1>5 DEF QueueTypes
<1>8. \A l \in Locks : queue[l] = <<>> /\ 1..Len(queue[l]) = {} /\ wl.head[l] = NoTask
    BY <1>3, MutexAssumption DEF EmptyLists
<1>9. \A t \in Tasks : ~InQueue(t)
    BY <1>8 DEF InQueue
<1>10. LinksExact
    BY <1>3, <1>8 DEF LinksExact, DistinctWaiters, Spelled
<1> QED BY <1>4, <1>6, <1>9, <1>10

\* A task that is in no queue asks for the lock.
LEMMA AcquireJoins ==
    ASSUME LockState, QueueTypes, LinksExact, NEW t \in Contenders, NEW l \in Locks, ~InQueue(t), Acquire(t, l)
    PROVE  /\ LinksExact' /\ \A u \in Tasks \ {t} : InQueue(u)' <=> InQueue(u)
           /\ \/ /\ ~locked[l] /\ ~InQueue(t)' /\ UNCHANGED <<state, current, runq, corrupt>>
                 /\ owner' = [owner EXCEPT ![l] = t] /\ owner'[l] = t
              \/ /\ locked[l] /\ InQueue(t)' /\ UNCHANGED <<owner, current, runq, corrupt>>
                 /\ state' = [state EXCEPT ![t] = "BLOCKED"]
<1>0. LockTypes
    BY DEF LockState
<1>1. CASE TakeFree(t, l)
    <2>1. UNCHANGED <<wl, queue, rejoined>>
        BY <1>1 DEF TakeFree
    <2>2. \A u \in Tasks \cup {t} : InQueue(u)' <=> InQueue(u)
        BY <2>1 DEF InQueue
    <2>3. LinksExact'
        BY <2>1, LinksStay
    <2>4. /\ ~locked[l] /\ UNCHANGED <<state, current, runq, corrupt>> /\ owner' = [owner EXCEPT ![l] = t]
          /\ owner'[l] = t
        BY <1>0, <1>1 DEF TakeFree, dispatchVars, LockTypes
    <2> QED BY <2>2, <2>3, <2>4
<1>2. CASE WaitFor(t, l)
    <2>1. /\ wl' = Linked(l, t) /\ locked[l] /\ ~rejoined' /\ queue' = [queue EXCEPT ![l] = Append(@, t)]
          /\ UNCHANGED <<owner, current, runq, corrupt>> /\ state' = [state EXCEPT ![t] = "BLOCKED"]
        BY <1>2 DEF WaitFor, Block, LinksExact
    <2>2. DistinctWaiters' /\ \A k \in Locks : Spelled(k)'
        BY <1>0, <2>1, JoiningSpells DEF LinksExact
    <2>3. queue[l] \in Seq(Tasks) /\ t \in Tasks /\ queue'[l] = Append(queue[l], t)
          /\ \A k \in Locks \ {l} : queue'[k] = queue[k]
        BY <2>1, MutexAssumption DEF QueueTypes
    <2>4. PICK n : n = Len(queue[l])
        OBVIOUS
    <2>5. /\ n \in Nat /\ Len(queue'[l]) = n + 1 /\ queue'[l][n + 1] = t
          /\ \A i \in 1..n : queue'[l][i] = queue[l][i]
        BY <2>3, <2>4
    <2>6. \A i \in 1..(n + 1) : i \in 1..n \/ i = n + 1
        BY <2>5
    <2>7. n + 1 \in 1..(n + 1) /\ \A i \in 1..n : i \in 1..(n + 1)
        BY <2>5
    <2>8. InQueue(t)'
        BY <2>5, <2>7 DEF InQueue
    <2>9. ASSUME NEW u \in Tasks \ {t} PROVE InQueue(u)' <=> InQueue(u)
        <3>1. ASSUME NEW k \in Locks
              PROVE  (\E i \in 1..Len(queue'[k]) : queue'[k][i] = u) <=> (\E i \in 1..Len(queue[k]) : queue[k][i] = u)
            <4>1. CASE k = l
                <5>1. (\E i \in 1..(n + 1) : queue'[l][i] = u) <=> (\E i \in 1..n : queue[l][i] = u)
                    BY <2>5, <2>6, <2>7, <2>9
                <5> QED BY <2>4, <2>5, <4>1, <5>1
            <4>2. CASE k # l
                BY <2>3, <4>2
            <4> QED BY <4>1, <4>2
        <3> QED BY <3>1 DEF InQueue
    <2> QED BY <2>1, <2>2, <2>8, <2>9 DEF LinksExact
<1> QED BY <1>1, <1>2 DEF Acquire

\* A task gives the lock back: the first waiter is its owner.
LEMMA ReleaseLeaves ==
    ASSUME LockState, QueueTypes, LinksExact, NEW t \in Contenders, NEW l \in Locks, Release(t, l)
    PROVE  LinksExact' /\ (NobodyLeaves \/ \E h : LeavesFor(h, l))
<1>0. LockTypes
    BY DEF LockState
<1>1. CASE SetFree(l)
    <2>1. UNCHANGED <<wl, queue, rejoined>> /\ UNCHANGED <<state, current, runq, corrupt>>
        BY <1>1 DEF SetFree, dispatchVars
    <2>2. NobodyLeaves
        BY <2>1 DEF InQueue, NobodyLeaves
    <2>3. LinksExact'
        BY <2>1, LinksStay
    <2> QED BY <2>2, <2>3
<1>2. CASE HandOver(l)
    <2>1. /\ ~IsEmpty(l) /\ wl' = HeadUnlinked(l) /\ rejoined' = rejoined
          /\ queue' = [queue EXCEPT ![l] = IF @ = <<>> THEN @ ELSE Tail(@)]
          /\ owner' = [owner EXCEPT ![l] = wl.head[l]]
          /\ runq' = runq \cup {wl.head[l]} /\ UNCHANGED <<state, current>>
        BY <1>2 DEF HandOver, UnblockTaskWithIOBoost, CFSEnqueue
    <2>2. LinksExact'
        BY <1>0, <2>1, LeavingSpells DEF LinksExact
    <2>3. queue[l] # <<>> /\ wl.head[l] = queue[l][1] /\ queue[l] \in Seq(Tasks)
        BY <2>1 DEF LinksExact, Spelled, IsEmpty, QueueTypes
    <2>4. PICK n, h : n = Len(queue[l]) /\ h = queue[l][1]
        OBVIOUS
    <2>5. queue'[l] = Tail(queue[l]) /\ \A k \in Locks \ {l} : queue'[k] = queue[k]
        BY <2>1, <2>3 DEF QueueTypes
    <2>6. /\ n \in Nat /\ n > 0 /\ Len(queue'[l]) = n - 1 /\ h \in Tasks
          /\ \A i \in 1..(n - 1) : queue'[l][i] = queue[l][i + 1]
        BY <2>3, <2>4, <2>5
    <2>7. /\ 1 \in 1..n /\ \A i \in 1..(n - 1) : i + 1 \in 1..n /\ i + 1 # 1
          /\ \A i \in 1..n : i # 1 => i - 1 \in 1..(n - 1) /\ (i - 1) + 1 = i
        BY <2>6
    <2>8. InQueue(h)
        BY <2>4, <2>7 DEF InQueue
    <2>9. ~InQueue(h)'
        <3> SUFFICES ASSUME NEW k \in Locks, NEW i \in 1..Len(queue'[k]), queue'[k][i] = h PROVE FALSE
            BY DEF InQueue
        <3>1. CASE k = l
            <4>1. i \in 1..(n - 1) /\ queue[l][i + 1] = queue[l][1]
                BY <2>4, <2>6, <3>1
            <4>2. i + 1 \in 1..Len(queue[l]) /\ i + 1 # 1 /\ 1 \in 1..Len(queue[l])
                BY <2>4, <2>7, <4>1
            <4> QED BY <4>1, <4>2 DEF LinksExact, DistinctWaiters
        <3>2. CASE k # l
            <4>1. i \in 1..Len(queue[k]) /\ queue[k][i] = queue[l][1] /\ 1 \in 1..Len(queue[l])
                BY <2>4, <2>5, <2>7, <3>2
            <4> QED BY <3>2, <4>1 DEF LinksExact, DistinctWaiters
        <3> QED BY <3>1, <3>2
    <2>10. ASSUME NEW u \in Tasks \ {h} PROVE InQueue(u)' <=> InQueue(u)
        <3>1. ASSUME NEW k \in Locks
              PROVE  (\E i \in 1..Len(queue'[k]) : queue'[k][i] = u) <=> (\E i \in 1..Len(queue[k]) : queue[k][i] = u)
            <4>1. CASE k = l
                <5>1. ASSUME NEW i \in 1..(n - 1), queue'[l][i] = u PROVE \E j \in 1..n : queue[l][j] = u
                    BY <2>6, <2>7, <5>1
                <5>2. ASSUME NEW j \in 1..n, queue[l][j] = u PROVE \E i \in 1..(n - 1) : queue'[l][i] = u
                    <6>1. j - 1 \in 1..(n - 1) /\ queue'[l][j - 1] = queue[l][(j - 1) + 1] /\ (j - 1) + 1 = j
                        BY <2>4, <2>6, <2>7, <2>10, <5>2
                    <6> QED BY <5>2, <6>1
                <5> QED BY <2>4, <2>6, <4>1, <5>1, <5>2
            <4>2. CASE k # l
                BY <2>5, <4>2
            <4> QED BY <4>1, <4>2
        <3> QED BY <3>1 DEF InQueue
    <2>11. owner'[l] = h /\ runq' = runq \cup {h} /\ UNCHANGED <<state, current>>
        BY <1>0, <2>1, <2>3, <2>4 DEF LockTypes
    <2>12. LeavesFor(h, l)
        BY <2>6, <2>8, <2>9, <2>10, <2>11 DEF LeavesFor
    <2> QED BY <2>2, <2>12
<1> QED BY <1>1, <1>2 DEF Release

-----------------------------------------------------------------------------

(***************************************************************************)
(* The rings of the card.  Descriptors are counted from a tail, so the     *)
(* remainders become sums that wrap at most once.                          *)
(***************************************************************************)
\* The k-th descriptor after t in a ring of n.
RingAt(t, k, n) == IF t + k < n THEN t + k ELSE t + k - n

LEMMA RingIndex ==
    ASSUME NEW n \in Nat \ {0, 1}, NEW t \in 0..(n - 1), NEW k \in 0..(n - 1)
    PROVE  /\ (t + k) % n = RingAt(t, k, n) /\ RingAt(t, k, n) \in 0..(n - 1)
           /\ (t + 1) % n = RingAt(t, 1, n) /\ RingAt(t, 1, n) \in 0..(n - 1)
<1>1. n \in Nat \ {0} /\ 1 \in 0..(n - 1)
    OBVIOUS
<1>2. ASSUME NEW j \in 0..(n - 1) PROVE (t + j) % n = RingAt(t, j, n) /\ RingAt(t, j, n) \in 0..(n - 1)
    <2>1. PICK x : x = t + j
        OBVIOUS
    <2>2. x \in 0..(2 * n - 1)
        BY <2>1
    <2>3. RingAt(t, j, n) = IF x < n THEN x ELSE x - n
        BY <2>1 DEF RingAt
    <2>4. /\ x % n = IF x < n THEN x ELSE x - n
          /\ (IF x < n THEN x ELSE x - n) \in 0..(n - 1)
        BY <2>2, <1>1, OnceRound
    <2> QED BY <2>1, <2>3, <2>4
<1> QED BY <1>1, <1>2

-----------------------------------------------------------------------------
TxIdx == 0..(TxDescs - 1)

TxTypeOK ==
    /\ tdh \in TxIdx /\ tdt \in TxIdx /\ txTail \in TxIdx
    /\ txDescs \in [TxIdx -> [buf : Buffers \cup {NoBuffer}, done : BOOLEAN]]
    /\ txTrackers \in [TxIdx -> Buffers \cup {NoBuffer}]
    /\ sending \in [Senders -> Buffers \cup {NoBuffer}]
    /\ freed \subseteq Buffers
    /\ raced \in BOOLEAN /\ lapped \in BOOLEAN

\* A tracked buffer is not free and is tracked once, whatever overlaps.
TrackedOnce ==
    \A i \in TxIdx : txTrackers[i] # NoBuffer =>
        /\ txTrackers[i] \notin freed
        /\ \A j \in TxIdx : j # i => txTrackers[j] # txTrackers[i]

\* What the card has been given and has not sent: from its head to its tail.
InFlight(i) == IF tdh <= tdt THEN tdh <= i /\ i < tdt ELSE i < tdt \/ tdh <= i

Busy == \E s \in Senders : sending[s] # NoBuffer

UnsentTracked == \A i \in Unsent : txTrackers[i] = txDescs[i].buf
OneSender == \A s, o \in Senders : sending[s] # NoBuffer /\ sending[o] # NoBuffer => s = o
SenderAtTail ==
    \A s \in Senders : sending[s] # NoBuffer =>
        txTail = tdt /\ txTrackers[tdt] = sending[s] /\ tdt \notin Unsent
RestIsSettled ==
    ~lapped => \A i \in TxIdx : ~InFlight(i) =>
        txTrackers[i] = NoBuffer \/ txDescs[i].done \/ (i = tdt /\ Busy)

TxInv ==
    /\ TxTypeOK /\ TrackedOnce
    /\ ~raced => UnsentTracked /\ OneSender /\ SenderAtTail /\ RestIsSettled

LEMMA TxNextIsAt ==
    ASSUME NEW i \in TxIdx
    PROVE  TxNext(i) \in TxIdx /\ TxNext(i) = IF i = TxDescs - 1 THEN 0 ELSE i + 1
<1>1. TxDescs \in Nat \ {0, 1}
    BY E1000Assumption
<1>2. 0 \in 0..(TxDescs - 1)
    BY <1>1
<1>3. TxNext(i) = RingAt(i, 1, TxDescs) /\ RingAt(i, 1, TxDescs) \in 0..(TxDescs - 1)
    BY <1>1, <1>2, RingIndex DEF TxNext, TxIdx
<1> QED BY <1>1, <1>3 DEF RingAt, TxIdx

LEMMA TxInitially == InitTX => TxInv
<1> SUFFICES ASSUME InitTX PROVE TxInv
    OBVIOUS
<1>1. TxDescs \in Nat \ {0, 1} /\ 0 \in TxIdx
    BY E1000Assumption DEF TxIdx
<1>2. TxTypeOK
    BY <1>1 DEF InitTX, TxTypeOK, TxIdx
<1>3. TrackedOnce /\ UnsentTracked
    BY DEF InitTX, TrackedOnce, UnsentTracked, Unsent, TxIdx
<1>4. OneSender /\ SenderAtTail /\ RestIsSettled
    BY DEF InitTX, OneSender, SenderAtTail, RestIsSettled, TxIdx
<1> QED BY <1>2, <1>3, <1>4 DEF TxInv

\* Choosing a descriptor: it was reclaimable, so nothing unsent loses its buffer.
LEMMA ChooseKeepsTx ==
    ASSUME TxInv, NEW s \in Senders, ChooseDescriptor(s)
    PROVE  TxInv'
<1> DEFINE free == freed \cup ({txTrackers[tdt]} \ {NoBuffer})
<1>0. tdt \in TxIdx /\ txTrackers \in [TxIdx -> Buffers \cup {NoBuffer}] /\ freed \subseteq Buffers
      /\ sending \in [Senders -> Buffers \cup {NoBuffer}] /\ NoBuffer \notin Buffers
    BY E1000Assumption DEF TxInv, TxTypeOK
<1>1. free \subseteq Buffers
    BY <1>0
<1>2. PICK b \in Buffers \cup {NoBuffer} :
            /\ b # NoBuffer => b \in free
            /\ freed' = free \ {b}
            /\ txTrackers' = [txTrackers EXCEPT ![tdt] = b]
            /\ sending' = [sending EXCEPT ![s] = b]
    <2>1. CASE \E b \in free : /\ freed' = free \ {b}
                               /\ txTrackers' = [txTrackers EXCEPT ![tdt] = b]
                               /\ sending' = [sending EXCEPT ![s] = b]
        BY <2>1, <1>1
    <2>2. CASE /\ freed' = free
               /\ txTrackers' = [txTrackers EXCEPT ![tdt] = NoBuffer]
               /\ UNCHANGED sending
        <3>1. sending' = [sending EXCEPT ![s] = NoBuffer]
            BY <2>2, <1>0 DEF ChooseDescriptor
        <3>2. free \ {NoBuffer} = free
            BY <1>0, <1>1
        <3> QED BY <2>2, <3>1, <3>2
    <2> QED BY <2>1, <2>2 DEF ChooseDescriptor
<1>3. /\ UNCHANGED <<tdh, tdt, txDescs, lapped>> /\ txTail' = tdt
      /\ raced' = (raced \/ Busy) /\ Reclaimable(tdt)
    BY DEF ChooseDescriptor, Busy
<1>4. TxTypeOK'
    <2>1. txTrackers' \in [TxIdx -> Buffers \cup {NoBuffer}] /\ sending' \in [Senders -> Buffers \cup {NoBuffer}]
        BY <1>0, <1>2
    <2>2. raced' \in BOOLEAN /\ lapped' \in BOOLEAN
        BY <1>3 DEF TxInv, TxTypeOK
    <2>3. freed' \subseteq Buffers
        BY <1>1, <1>2
    <2> QED BY <2>1, <2>2, <2>3, <1>0, <1>3 DEF TxTypeOK, TxInv
<1>5. TrackedOnce'
    <2>1. ASSUME NEW i \in TxIdx, i # tdt, txTrackers[i] # NoBuffer
          PROVE  txTrackers[i] \notin free
        BY <2>1, <1>0 DEF TxInv, TrackedOnce
    <2>2. \A i \in TxIdx : txTrackers'[i] = IF i = tdt THEN b ELSE txTrackers[i]
        BY <1>0, <1>2
    <2>3. \A i \in TxIdx : i # tdt /\ txTrackers[i] # NoBuffer => txTrackers[i] # b
        BY <2>1, <1>2
    <2>4. TxIdx' = TxIdx
        BY DEF TxIdx
    <2>5. ASSUME NEW i \in TxIdx, txTrackers'[i] # NoBuffer
          PROVE  /\ txTrackers'[i] \notin freed'
                 /\ \A j \in TxIdx : j # i => txTrackers'[j] # txTrackers'[i]
        <3>1. CASE i = tdt
            BY <3>1, <2>2, <2>3, <2>5, <1>2
        <3>2. CASE i # tdt
            BY <3>2, <2>1, <2>2, <2>3, <2>5, <1>2 DEF TxInv, TrackedOnce
        <3> QED BY <3>1, <3>2
    <2> QED BY <2>5, <2>4 DEF TrackedOnce
<1>6. ASSUME ~raced' PROVE UnsentTracked' /\ OneSender' /\ SenderAtTail' /\ RestIsSettled'
    <2>1. ~raced /\ ~Busy
        BY <1>3, <1>6
    <2>2. UnsentTracked /\ RestIsSettled
        BY <2>1 DEF TxInv
    <2>3. tdt \notin Unsent
        BY <2>2, <1>3 DEF Reclaimable, UnsentTracked, Unsent
    <2>4. Unsent' = Unsent
        BY <1>3 DEF Unsent
    <2>5. UnsentTracked'
        BY <2>2, <2>3, <2>4, <1>0, <1>2, <1>3 DEF UnsentTracked, Unsent, TxIdx
    <2>6. \A o \in Senders : sending'[o] = IF o = s THEN b ELSE NoBuffer
        BY <2>1, <1>0, <1>2 DEF Busy
    <2>7. OneSender'
        BY <2>6 DEF OneSender
    <2>8. SenderAtTail'
        BY <2>3, <2>4, <2>6, <1>0, <1>2, <1>3 DEF SenderAtTail
    <2>9. RestIsSettled'
        <3>1. \A i \in TxIdx : InFlight(i)' <=> InFlight(i)
            BY <1>3 DEF InFlight
        <3>2. \A i \in TxIdx : txTrackers'[i] = IF i = tdt THEN b ELSE txTrackers[i]
            BY <1>0, <1>2
        <3>3. b # NoBuffer => Busy'
            BY <2>6 DEF Busy
        <3>4. TxIdx' = TxIdx
            BY DEF TxIdx
        <3> QED BY <3>1, <3>2, <3>3, <3>4, <2>1, <2>2, <1>3 DEF RestIsSettled
    <2> QED BY <2>5, <2>7, <2>8, <2>9
<1> QED BY <1>4, <1>5, <1>6 DEF TxInv

\* Handing a descriptor over: the one caller's buffer becomes the unsent frame at
\* the tail, which is now in flight.
LEMMA PostFrameKeepsTx ==
    ASSUME TxInv, NEW s \in Senders, PostFrame(s)
    PROVE  TxInv'
<1>0. TxTypeOK
    BY DEF TxInv
<1>1. /\ UNCHANGED <<tdh, txTrackers, freed, raced>>
      /\ sending[s] # NoBuffer
      /\ txDescs' = [txDescs EXCEPT ![txTail] = [buf |-> sending[s], done |-> FALSE]]
      /\ txTail' = TxNext(txTail) /\ tdt' = TxNext(txTail)
      /\ sending' = [sending EXCEPT ![s] = NoBuffer]
      /\ lapped' = (lapped \/ tdt' = tdh)
    BY DEF PostFrame
<1>2. TxTypeOK'
    <2>1. TxNext(txTail) \in TxIdx
        BY <1>0, TxNextIsAt DEF TxTypeOK
    <2>2. [buf |-> sending[s], done |-> FALSE] \in [buf : Buffers \cup {NoBuffer}, done : BOOLEAN]
        BY <1>0 DEF TxTypeOK
    <2>3. lapped' \in BOOLEAN
        BY <1>0, <1>1 DEF TxTypeOK
    <2>4. txDescs' \in [TxIdx -> [buf : Buffers \cup {NoBuffer}, done : BOOLEAN]]
        BY <2>2, <1>0, <1>1 DEF TxTypeOK
    <2>5. sending' \in [Senders -> Buffers \cup {NoBuffer}]
        BY <1>0, <1>1 DEF TxTypeOK
    <2> QED BY <2>1, <2>3, <2>4, <2>5, <1>0, <1>1 DEF TxTypeOK
<1>3. TrackedOnce'
    BY <1>1 DEF TxInv, TrackedOnce
<1>4. ASSUME ~raced' PROVE UnsentTracked' /\ OneSender' /\ SenderAtTail' /\ RestIsSettled'
    <2>1. ~raced /\ UnsentTracked /\ OneSender /\ SenderAtTail /\ RestIsSettled
        BY <1>1, <1>4 DEF TxInv
    <2>2. txTail = tdt /\ txTrackers[tdt] = sending[s] /\ tdt \in TxIdx /\ tdh \in TxIdx
        BY <1>0, <1>1, <2>1 DEF SenderAtTail, TxTypeOK
    <2>3. \A i \in TxIdx : txDescs'[i] =
             IF i = tdt THEN [buf |-> sending[s], done |-> FALSE] ELSE txDescs[i]
        BY <1>0, <1>1, <2>2 DEF TxTypeOK
    <2>4. \A o \in Senders : sending'[o] = NoBuffer
        BY <1>0, <1>1, <2>1 DEF OneSender, TxTypeOK
    <2>5. UnsentTracked'
        BY <2>1, <2>2, <2>3, <1>1 DEF UnsentTracked, Unsent, TxIdx
    <2>6. OneSender' /\ SenderAtTail'
        BY <2>4 DEF OneSender, SenderAtTail
    <2>7. ASSUME ~lapped', NEW i \in TxIdx, ~InFlight(i)'
          PROVE  i # tdt /\ ~InFlight(i) /\ ~lapped
        <3>1. ~lapped /\ tdt' # tdh /\ tdh' = tdh
            BY <1>1, <2>7
        <3>2. tdt' = IF tdt = TxDescs - 1 THEN 0 ELSE tdt + 1
            BY <1>1, <2>2, TxNextIsAt
        <3>3. TxDescs \in Nat
            BY E1000Assumption
        <3> QED BY <3>1, <3>2, <3>3, <2>2, <2>7 DEF InFlight, TxIdx
    <2>8. RestIsSettled'
        BY <2>1, <2>3, <2>7, <1>1 DEF RestIsSettled, TxIdx
    <2> QED BY <2>5, <2>6, <2>8
<1> QED BY <1>2, <1>3, <1>4 DEF TxInv

\* The card sends the frame at its head, which is done from then on.
LEMMA TransmitKeepsTx ==
    ASSUME TxInv, Transmits
    PROVE  TxInv'
<1>0. TxTypeOK
    BY DEF TxInv
<1>1. /\ UNCHANGED <<tdt, txTail, txTrackers, sending, freed, raced, lapped>>
      /\ tdh # tdt /\ tdh' = TxNext(tdh)
      /\ txDescs' = [txDescs EXCEPT ![tdh].done = TRUE]
    BY DEF Transmits
<1>2. \A i \in TxIdx : /\ txDescs'[i].buf = txDescs[i].buf
                       /\ txDescs'[i].done = (txDescs[i].done \/ i = tdh)
    BY <1>0, <1>1 DEF TxTypeOK
<1>3. TxTypeOK'
    <2>1. tdh' \in TxIdx
        BY <1>0, <1>1, TxNextIsAt DEF TxTypeOK
    <2>2. txDescs' \in [TxIdx -> [buf : Buffers \cup {NoBuffer}, done : BOOLEAN]]
        BY <1>0, <1>1 DEF TxTypeOK
    <2> QED BY <2>1, <2>2, <1>0, <1>1 DEF TxTypeOK
<1>4. TrackedOnce'
    BY <1>1 DEF TxInv, TrackedOnce
<1>5. ASSUME ~raced' PROVE UnsentTracked' /\ OneSender' /\ SenderAtTail' /\ RestIsSettled'
    <2>1. UnsentTracked /\ OneSender /\ SenderAtTail /\ RestIsSettled
        BY <1>1, <1>5 DEF TxInv
    <2>2. Unsent' \subseteq Unsent
        BY <1>2 DEF Unsent, TxIdx
    <2>3. UnsentTracked'
        BY <2>1, <2>2, <1>1, <1>2 DEF UnsentTracked, Unsent, TxIdx
    <2>4. OneSender' /\ SenderAtTail'
        BY <2>1, <2>2, <1>1 DEF OneSender, SenderAtTail
    <2>5. ASSUME NEW i \in TxIdx, ~InFlight(i)' PROVE i = tdh \/ ~InFlight(i)
        <3>1. tdh' = IF tdh = TxDescs - 1 THEN 0 ELSE tdh + 1
            BY <1>0, <1>1, TxNextIsAt DEF TxTypeOK
        <3>2. TxDescs \in Nat /\ tdh \in TxIdx /\ tdt \in TxIdx
            BY <1>0, E1000Assumption DEF TxTypeOK
        <3> QED BY <3>1, <3>2, <2>5, <1>1 DEF InFlight, TxIdx
    <2>6. Busy' <=> Busy
        BY <1>1 DEF Busy
    <2>7. RestIsSettled'
        BY <2>1, <2>5, <2>6, <1>1, <1>2 DEF RestIsSettled, TxIdx
    <2> QED BY <2>3, <2>4, <2>7
<1> QED BY <1>3, <1>4, <1>5 DEF TxInv

LEMMA TxInvIsEnough == TxInv => TxRingIsSound
<1> SUFFICES ASSUME TxInv, ~raced PROVE TxRingIsSound
    BY DEF TxRingIsSound
<1>1. TxTypeOK /\ TrackedOnce /\ UnsentTracked /\ RestIsSettled
    BY DEF TxInv
<1>2. \A i \in Unsent : txTrackers[i] = txDescs[i].buf /\ txTrackers[i] # NoBuffer /\ i \in TxIdx
    BY <1>1 DEF UnsentTracked, Unsent, TxIdx
<1>3. \A i \in Unsent : txDescs[i].buf \notin freed
    BY <1>1, <1>2 DEF TrackedOnce
<1>4. \A i, j \in Unsent : i # j => txDescs[i].buf # txDescs[j].buf
    BY <1>1, <1>2 DEF TrackedOnce
<1>5. tdh = tdt /\ ~lapped /\ (\A s \in Senders : sending[s] = NoBuffer)
        => txTrackers[tdt] = NoBuffer \/ txDescs[tdt].done
    <2>1. tdt \in TxIdx /\ (tdh = tdt => ~InFlight(tdt))
        BY <1>1 DEF InFlight, TxTypeOK, TxIdx
    <2> QED BY <2>1, <1>1 DEF RestIsSettled, Busy
<1> QED BY <1>2, <1>3, <1>4, <1>5 DEF TxRingIsSound

-----------------------------------------------------------------------------
RxIdx == 0..(RxDescs - 1)

RxTypeOK ==
    /\ rdh \in RxIdx /\ rdt \in RxIdx /\ rxTail \in RxIdx
    /\ rxDescs \in [RxIdx -> Nat]
    /\ polled \in {"yet", "inside", "over"}
    /\ arrived \in Nat /\ received \in Nat /\ nestedRx \in BOOLEAN

\* The frame before the one at RXTail: the polled call passes a frame on before it
\* gives the descriptor back.
Given == IF polled = "inside" THEN received - 1 ELSE received

\* Both ends of the ring, and what lies between RXTail and the card's head.
RxExact ==
    /\ Given \in Nat /\ arrived - Given \in RxIdx
    /\ polled = "inside" => Given < arrived
    /\ rdh = RingAt(rxTail, arrived - Given, RxDescs)
    /\ rdt = RingAt(rxTail, RxDescs - 1, RxDescs)
    /\ \A k \in RxIdx :
          rxDescs[RingAt(rxTail, k, RxDescs)] = IF k < arrived - Given THEN Given + k + 1 ELSE 0

RxInv == RxTypeOK /\ (~nestedRx => RxExact)

LEMMA RxRing ==
    /\ RxDescs \in Nat \ {0, 1}
    /\ \A t, k \in RxIdx : RingAt(t, k, RxDescs) \in RxIdx /\ (t + k) % RxDescs = RingAt(t, k, RxDescs)
    /\ \A t \in RxIdx : RxNext(t) = RingAt(t, 1, RxDescs) /\ RxNext(t) \in RxIdx
    /\ 0 \in RxIdx /\ 1 \in RxIdx /\ RxDescs - 1 \in RxIdx
<1>1. RxDescs \in Nat \ {0, 1}
    BY E1000Assumption
<1>2. 0 \in RxIdx /\ 1 \in RxIdx /\ RxDescs - 1 \in RxIdx
    BY <1>1 DEF RxIdx
<1> QED BY <1>1, <1>2, RingIndex DEF RxNext, RxIdx

LEMMA RxInitially == InitRX => RxInv
<1> SUFFICES ASSUME InitRX PROVE RxInv
    OBVIOUS
<1>1. RxTypeOK
    BY RxRing DEF InitRX, RxTypeOK, RxIdx
<1>2. Given = 0
    BY DEF InitRX, Given
<1>3. RxExact
    BY <1>2, RxRing DEF InitRX, RxExact, RxIdx, RingAt
<1> QED BY <1>1, <1>3 DEF RxInv

\* A frame arrives: the card's head is not its tail, so one descriptor is left.
LEMMA ArriveKeepsRx ==
    ASSUME RxInv, Arrives
    PROVE  RxInv'
<1>0. RxTypeOK /\ RxDescs \in Nat \ {0, 1}
    BY RxRing DEF RxInv
<1>1. /\ rdh # rdt /\ arrived' = arrived + 1 /\ rdh' = RxNext(rdh)
      /\ rxDescs' = [rxDescs EXCEPT ![rdh] = arrived + 1]
      /\ UNCHANGED <<rdt, rxTail, polled, received, nestedRx>>
    BY DEF Arrives
<1>2. RxTypeOK'
    BY <1>0, <1>1, RxRing DEF RxTypeOK
<1>3. ASSUME ~nestedRx' PROVE RxExact'
    <2>1. RxExact /\ Given' = Given
        BY <1>1, <1>3 DEF RxInv, Given
    <2>2. PICK n \in RxIdx : n = arrived - Given
        BY <2>1 DEF RxExact
    <2>3. n < RxDescs - 1
        BY <2>1, <2>2, <1>0, <1>1 DEF RxExact, RxIdx
    <2>4. Given \in Nat /\ arrived \in Nat /\ rxTail \in RxIdx /\ arrived' - Given' = n + 1
        BY <2>1, <2>2, <1>0, <1>1 DEF RxExact, RxTypeOK, RxIdx
    <2>5. rdh' = RingAt(rxTail, n + 1, RxDescs) /\ n + 1 \in RxIdx
        BY <2>1, <2>2, <2>3, <2>4, <1>0, <1>1, RxRing DEF RxExact, RxIdx, RingAt
    <2>6. ASSUME NEW k \in RxIdx
          PROVE  rxDescs'[RingAt(rxTail, k, RxDescs)] = IF k < n + 1 THEN Given + k + 1 ELSE 0
        <3>1. rdh = RingAt(rxTail, n, RxDescs) /\ RingAt(rxTail, k, RxDescs) \in RxIdx
            BY <2>1, <2>2, <2>4, RxRing DEF RxExact
        <3>2. rxDescs[RingAt(rxTail, k, RxDescs)] = IF k < n THEN Given + k + 1 ELSE 0
            BY <2>1, <2>2 DEF RxExact
        <3>3. CASE k = n
            BY <3>1, <3>3, <2>2, <2>4, <1>0, <1>1, SMTT(30) DEF RxTypeOK, RxIdx
        <3>4. CASE k # n
            <4>1. RingAt(rxTail, k, RxDescs) # RingAt(rxTail, n, RxDescs)
                BY <3>4, <2>4, <1>0 DEF RingAt, RxIdx
            <4>2. rxDescs'[RingAt(rxTail, k, RxDescs)] = rxDescs[RingAt(rxTail, k, RxDescs)]
                BY <4>1, <3>1, <1>0, <1>1 DEF RxTypeOK
            <4>3. k < n + 1 <=> k < n
                BY <3>4 DEF RxIdx
            <4> QED BY <4>2, <4>3, <3>2
        <3> QED BY <3>3, <3>4
    <2>7. polled' = "inside" => Given' < arrived'
        BY <2>1, <2>4, <1>1 DEF RxExact
    <2>8. rdt' = RingAt(rxTail', RxDescs - 1, RxDescs)
        BY <2>1, <1>1 DEF RxExact
    <2> QED BY <2>1, <2>4, <2>5, <2>6, <2>7, <2>8, <1>1 DEF RxExact, RxIdx
<1> QED BY <1>2, <1>3 DEF RxInv

\* The rest of the loop, whoever runs it: one frame further, and the descriptor
\* that is given back becomes the last one before the card's tail.
LEMMA GiveBackKeepsRx ==
    ASSUME RxTypeOK, RxExact, GiveBack, Given < arrived, UNCHANGED <<rdh, arrived>>,
           Given' = Given + 1, polled' # "inside"
    PROVE  RxExact'
<1>0. /\ RxDescs \in Nat \ {0, 1} /\ rxTail \in RxIdx /\ rdt \in RxIdx /\ Given \in Nat
      /\ arrived \in Nat /\ rxDescs \in [RxIdx -> Nat]
    BY RxRing DEF RxTypeOK, RxExact
<1>1. PICK n \in RxIdx : n = arrived - Given /\ n > 0
    BY <1>0 DEF RxExact, RxIdx
<1>2. arrived' - Given' = n - 1 /\ n - 1 \in RxIdx /\ Given' \in Nat
    BY <1>0, <1>1 DEF RxIdx
<1>3. rxTail' = RingAt(rxTail, 1, RxDescs) /\ rxTail' \in RxIdx
    BY <1>0, RxRing DEF GiveBack
<1>4. rdh' = RingAt(rxTail', n - 1, RxDescs)
    <2>1. rdh' = RingAt(rxTail, n, RxDescs)
        BY <1>1 DEF RxExact
    <2> QED BY <2>1, <1>0, <1>1, <1>3 DEF RingAt, RxIdx
<1>5. rdt' = RingAt(rxTail', RxDescs - 1, RxDescs)
    <2>1. rdt = RingAt(rxTail, RxDescs - 1, RxDescs) /\ rdt' = RingAt(rdt, 1, RxDescs)
        BY <1>0, RxRing DEF RxExact, GiveBack
    <2> QED BY <2>1, <1>0, <1>3 DEF RingAt, RxIdx
<1>6. ASSUME NEW k \in RxIdx
      PROVE  rxDescs'[RingAt(rxTail', k, RxDescs)] = IF k < n - 1 THEN Given + 1 + k + 1 ELSE 0
    <2>1. rxDescs' = [rxDescs EXCEPT ![rxTail] = 0]
        BY DEF GiveBack
    <2>2. CASE k = RxDescs - 1
        <3>1. RingAt(rxTail', k, RxDescs) = rxTail
            BY <2>2, <1>0, <1>3 DEF RingAt, RxIdx
        <3>2. ~(k < n - 1)
            BY <2>2, <1>0, <1>1 DEF RxIdx
        <3> QED BY <3>1, <3>2, <2>1, <1>0
    <2>3. CASE k # RxDescs - 1
        <3>1. k + 1 \in RxIdx
            BY <2>3, <1>0 DEF RxIdx
        <3>2. RingAt(rxTail', k, RxDescs) = RingAt(rxTail, k + 1, RxDescs)
            BY <2>3, <1>0, <1>3 DEF RingAt, RxIdx
        <3>3. RingAt(rxTail, k + 1, RxDescs) # rxTail /\ RingAt(rxTail, k + 1, RxDescs) \in RxIdx
            BY <3>1, <2>3, <1>0 DEF RingAt, RxIdx
        <3>4. rxDescs'[RingAt(rxTail', k, RxDescs)] = rxDescs[RingAt(rxTail, k + 1, RxDescs)]
            BY <3>2, <3>3, <2>1, <1>0
        <3>5. rxDescs[RingAt(rxTail, k + 1, RxDescs)] = IF k + 1 < n THEN Given + (k + 1) + 1 ELSE 0
            BY <3>1, <1>1 DEF RxExact
        <3>6. (k < n - 1 <=> k + 1 < n) /\ Given + (k + 1) + 1 = Given + 1 + k + 1
            BY <1>0 DEF RxIdx
        <3> QED BY <3>4, <3>5, <3>6
    <2> QED BY <2>2, <2>3
<1> QED BY <1>2, <1>3, <1>4, <1>5, <1>6 DEF RxExact, RxIdx

\* The frame at RXTail, when there is one, is the next to pass on.
LEMMA NextFrame ==
    ASSUME RxTypeOK, RxExact, rxDescs[rxTail] # 0
    PROVE  Given < arrived /\ rxDescs[rxTail] = Given + 1
<1>1. /\ RxDescs \in Nat \ {0, 1} /\ rxTail \in RxIdx /\ Given \in Nat /\ arrived \in Nat
      /\ 0 \in RxIdx
    BY RxRing DEF RxTypeOK, RxExact
<1>2. RingAt(rxTail, 0, RxDescs) = rxTail
    BY <1>1 DEF RingAt, RxIdx
<1>3. rxDescs[rxTail] = IF 0 < arrived - Given THEN Given + 0 + 1 ELSE 0
    BY <1>1, <1>2 DEF RxExact
<1> QED BY <1>1, <1>3

LEMMA GiveBackTypes ==
    ASSUME RxTypeOK, GiveBack
    PROVE  rdt' \in RxIdx /\ rxTail' \in RxIdx /\ rxDescs' \in [RxIdx -> Nat]
BY RxRing DEF RxTypeOK, GiveBack

LEMMA HandlersKeepRx ==
    ASSUME RxInv, CardInterrupt \/ PollReceives \/ PollReturns
    PROVE  RxInv'
<1>0. RxTypeOK /\ rxTail \in RxIdx /\ rxDescs[rxTail] \in Nat
    BY DEF RxInv, RxTypeOK
<1>1. CASE CardInterrupt
    <2>1. RxTypeOK'
        BY <1>0, <1>1, GiveBackTypes DEF RxTypeOK, CardInterrupt
    <2>2. ASSUME ~nestedRx' PROVE RxExact'
        <3>1. ~nestedRx /\ polled # "inside" /\ polled' = polled /\ UNCHANGED <<rdh, arrived>>
            BY <2>2, <1>1 DEF CardInterrupt
        <3>2. RxExact
            BY <3>1 DEF RxInv
        <3>3. Given < arrived /\ rxDescs[rxTail] = Given + 1
            BY <3>2, <1>0, <1>1, NextFrame DEF CardInterrupt
        <3>4. Given' = Given + 1
            BY <3>1, <3>3, <1>1 DEF Given, CardInterrupt
        <3> QED BY <3>1, <3>2, <3>3, <3>4, <1>0, <1>1, GiveBackKeepsRx DEF CardInterrupt
    <2> QED BY <2>1, <2>2 DEF RxInv
<1>2. CASE PollReceives
    <2>1. RxTypeOK'
        BY <1>0, <1>2 DEF RxTypeOK, PollReceives
    <2>2. ASSUME ~nestedRx' PROVE RxExact'
        <3>1. ~nestedRx /\ polled = "yet" /\ polled' = "inside"
              /\ UNCHANGED <<rdh, rdt, rxTail, rxDescs, arrived>>
            BY <2>2, <1>2 DEF PollReceives
        <3>2. RxExact
            BY <3>1 DEF RxInv
        <3>3. Given < arrived /\ rxDescs[rxTail] = Given + 1 /\ Given \in Nat
            BY <3>2, <1>0, <1>2, NextFrame DEF PollReceives, RxExact
        <3>4. Given' = Given
            BY <3>1, <3>3, <1>2 DEF Given, PollReceives
        <3> QED BY <3>1, <3>2, <3>3, <3>4 DEF RxExact
    <2> QED BY <2>1, <2>2 DEF RxInv
<1>3. CASE PollReturns
    <2>1. RxTypeOK'
        BY <1>0, <1>3, GiveBackTypes DEF RxTypeOK, PollReturns
    <2>2. ASSUME ~nestedRx' PROVE RxExact'
        <3>1. /\ ~nestedRx /\ polled = "inside" /\ polled' # "inside"
              /\ UNCHANGED <<rdh, arrived, received>>
            BY <2>2, <1>3 DEF PollReturns
        <3>2. RxExact /\ Given < arrived
            BY <3>1 DEF RxInv, RxExact
        <3>3. Given' = Given + 1
            BY <3>1, <1>0 DEF Given, RxTypeOK
        <3> QED BY <3>1, <3>2, <3>3, <1>0, <1>3, GiveBackKeepsRx DEF PollReturns
    <2> QED BY <2>1, <2>2 DEF RxInv
<1> QED BY <1>1, <1>2, <1>3

LEMMA RxInvIsEnough == RxInv => RxInOrder
<1> SUFFICES ASSUME RxInv, ~nestedRx, polled # "inside", NEW k \in RxIdx
             PROVE  rxDescs[(rxTail + k) % RxDescs]
                      = IF k < arrived - received THEN received + k + 1 ELSE 0
    BY DEF RxInOrder, RxIdx
<1>1. RxExact /\ Given = received /\ rxTail \in RxIdx
    BY DEF RxInv, Given, RxTypeOK
<1>2. (rxTail + k) % RxDescs = RingAt(rxTail, k, RxDescs)
    BY <1>1, RxRing
<1> QED BY <1>1, <1>2 DEF RxExact

-----------------------------------------------------------------------------
E1000Inv == TxInv /\ RxInv

\* Both rings of the card are as the driver believes (SendRawPacket,
\* HandleInterrupt): an unsent frame keeps a buffer of its own, an idle card takes
\* the next frame, and received frames are passed on in order, for rings of any
\* length and any number of callers that do not overlap.
THEOREM RingsStaySound == E1000Spec => []CardRingsAreSound
<1>1. E1000Init => E1000Inv
    BY TxInitially, RxInitially DEF E1000Init, E1000Inv
<1>2. E1000Inv /\ [E1000Next]_e1000Vars => E1000Inv'
    <2> SUFFICES ASSUME E1000Inv, [E1000Next]_e1000Vars PROVE E1000Inv'
        OBVIOUS
    <2>1. ASSUME UNCHANGED txVars PROVE TxInv'
        BY <2>1 DEF E1000Inv, TxInv, txVars, TxTypeOK, TrackedOnce, UnsentTracked, Unsent,
                    OneSender, SenderAtTail, RestIsSettled, InFlight, Busy
    <2>2. ASSUME UNCHANGED rxVars PROVE RxInv'
        BY <2>2 DEF E1000Inv, RxInv, rxVars, RxTypeOK, RxExact, Given
    <2>3. ASSUME NEW s \in Senders, ChooseDescriptor(s) PROVE E1000Inv'
        BY <2>2, <2>3, ChooseKeepsTx DEF E1000Inv, ChooseDescriptor
    <2>4. ASSUME NEW s \in Senders, PostFrame(s) PROVE E1000Inv'
        BY <2>2, <2>4, PostFrameKeepsTx DEF E1000Inv, PostFrame
    <2>5. CASE Transmits
        BY <2>2, <2>5, TransmitKeepsTx DEF E1000Inv, Transmits
    <2>6. CASE Arrives
        BY <2>1, <2>6, ArriveKeepsRx DEF E1000Inv, Arrives
    <2>7. CASE CardInterrupt \/ PollReceives \/ PollReturns
        <3>1. UNCHANGED txVars
            BY <2>7 DEF CardInterrupt, PollReceives, PollReturns
        <3> QED BY <3>1, <2>1, <2>7, HandlersKeepRx DEF E1000Inv
    <2>8. CASE UNCHANGED e1000Vars
        BY <2>1, <2>2, <2>8 DEF e1000Vars, E1000Inv
    <2> QED BY <2>3, <2>4, <2>5, <2>6, <2>7, <2>8 DEF E1000Next
<1>3. E1000Inv => CardRingsAreSound
    BY TxInvIsEnough, RxInvIsEnough DEF E1000Inv, CardRingsAreSound
<1> QED BY <1>1, <1>2, <1>3, PTL DEF E1000Spec
-----------------------------------------------------------------------------
(***************************************************************************)
(* The command ring of the USB controller.  Places are counted from the    *)
(* one the controller comes to next, Ahead, once it has followed the link. *)
(***************************************************************************)
Places == CmdRingSize - 1

AtLink(r) == r.deq = Places
Ahead(r) == IF AtLink(r) THEN 0 ELSE r.deq
Seen(r) == IF AtLink(r) THEN ~r.seen ELSE r.seen
Offset(r, i) == IF i >= Ahead(r) THEN i - Ahead(r) ELSE i - Ahead(r) + Places

RingTypeOK(r) ==
    /\ DOMAIN r = {"trb", "link", "enq", "cycle", "deq", "seen"}
    /\ DOMAIN r.trb = Commands /\ \A i \in Commands : r.trb[i].cycle \in BOOLEAN
    /\ r.link \in BOOLEAN /\ r.cycle \in BOOLEAN /\ r.seen \in BOOLEAN
    /\ r.enq \in Commands /\ r.deq \in 0..Places

\* The link carries the cycle of the last place, so the controller may follow it.
LinkFits(r) ==
    /\ r.trb[Places - 1].type # "none" => r.link = r.trb[Places - 1].cycle
    /\ AtLink(r) => r.link = r.seen

\* The driver writes right behind the n commands under way.
DriverBehind(r, n) ==
    /\ r.enq = IF Ahead(r) + n < Places THEN Ahead(r) + n ELSE Ahead(r) + n - Places
    /\ r.cycle = IF Ahead(r) + n < Places THEN Seen(r) ELSE ~Seen(r)

\* A command under way has the cycle of the lap it was written in, and any other
\* place the cycle that will make the controller stop there.
PlaceFits(r, q, i) ==
    IF Offset(r, i) < Len(q)
    THEN /\ r.trb[i].cycle = IF i >= Ahead(r) THEN Seen(r) ELSE ~Seen(r)
         /\ r.trb[i].type = q[Offset(r, i) + 1].type /\ r.trb[i].slot = q[Offset(r, i) + 1].slot
         /\ r.trb[i].port = q[Offset(r, i) + 1].port
    ELSE IF i >= Ahead(r) THEN r.trb[i].type = "none" \/ r.trb[i].cycle = ~Seen(r)
    ELSE r.trb[i].cycle = Seen(r)

CommandsKnown(q) == q \in Seq({q[i] : i \in 1..Len(q)}) /\ \A i \in 1..Len(q) : q[i].type # "none"

RingInv(r, q) ==
    /\ RingTypeOK(r) /\ CommandsKnown(q) /\ Len(q) <= Places - 1
    /\ DriverBehind(r, Len(q))
    /\ \A i \in Commands : PlaceFits(r, q, i)

LEMMA PlacesAre == Places \in Nat \ {0} /\ Commands = 0..(Places - 1)
BY XhciAssumption DEF Places, Commands

\* The driver writes one command; with the cycle the link needs if it comes next,
\* the link stays one the controller may follow.
LEMMA PutKeepsRing ==
    ASSUME NEW r, NEW q, RingInv(r, q), NEW c, c.type # "none", NEW link \in BOOLEAN,
           Len(q) + 1 <= Places - 1
    PROVE  /\ RingInv(Put(r, c, link), Append(q, c))
           /\ LinkFits(r) /\ (r.enq = Places - 1 => link = r.cycle) => LinkFits(Put(r, c, link))
<1> PICK n : n = Places
    OBVIOUS
<1>0. n \in Nat \ {0} /\ Commands = 0..(n - 1) /\ n = CmdRingSize - 1 /\ CmdRingSize - 2 = n - 1
    BY PlacesAre, XhciAssumption DEF Places
<1>1. RingTypeOK(r) /\ CommandsKnown(q)
    BY DEF RingInv
<1>2. PICK L : L = Len(q) /\ L \in Nat /\ L + 1 <= n - 1
    <2>1. q \in Seq({q[i] : i \in 1..Len(q)})
        BY <1>1 DEF CommandsKnown
    <2>2. Len(q) \in Nat
        BY <2>1
    <2> QED BY <2>2
<1>3. PICK r2 : r2 = Put(r, c, link)
    OBVIOUS
<1>4. PICK q2 : q2 = Append(q, c)
    OBVIOUS
<1>5. /\ Len(q2) = L + 1 /\ q2[L + 1] = c /\ \A i \in 1..L : q2[i] = q[i]
      /\ CommandsKnown(q2)
    <2>1. q \in Seq({q[i] : i \in 1..Len(q)} \cup {c}) /\ c \in {q[i] : i \in 1..Len(q)} \cup {c}
        BY <1>1 DEF CommandsKnown
    <2>2. Len(q2) = L + 1 /\ q2[L + 1] = c /\ \A i \in 1..L : q2[i] = q[i]
        BY <2>1, <1>2, <1>4
    <2>3. q2 \in Seq({q[i] : i \in 1..Len(q)} \cup {c})
        BY <2>1, <1>4
    <2>4. q2 \in Seq({q2[i] : i \in 1..Len(q2)})
        BY <2>3, <2>2, <1>2
    <2>5. \A i \in 1..Len(q2) : q2[i].type # "none"
        BY <2>2, <1>1, <1>2 DEF CommandsKnown
    <2> QED BY <2>2, <2>4, <2>5 DEF CommandsKnown
<1>6. /\ RingTypeOK(r2) /\ r2.deq = r.deq /\ r2.seen = r.seen
      /\ r2.trb[r.enq].type = c.type /\ r2.trb[r.enq].slot = c.slot /\ r2.trb[r.enq].cycle = r.cycle
      /\ r2.trb[r.enq].port = c.port
      /\ \A i \in Commands : i # r.enq => r2.trb[i] = r.trb[i]
      /\ r2.enq = IF r.enq = n - 1 THEN 0 ELSE r.enq + 1
      /\ r2.link = IF r.enq = n - 1 THEN link ELSE r.link
      /\ r2.cycle = IF r.enq = n - 1 THEN ~r.cycle ELSE r.cycle
    <2>1. PICK T, e, l, y :
            /\ T = [type |-> c.type, slot |-> c.slot, port |-> c.port, cycle |-> r.cycle]
            /\ e = (IF r.enq = n - 1 THEN 0 ELSE r.enq + 1)
            /\ l = (IF r.enq = n - 1 THEN link ELSE r.link)
            /\ y = (IF r.enq = n - 1 THEN ~r.cycle ELSE r.cycle)
        OBVIOUS
    <2>2. r2 = [r EXCEPT !.trb[r.enq] = T, !.enq = e, !.link = l, !.cycle = y]
        BY <1>0, <1>3, <2>1 DEF Put
    <2>3. /\ DOMAIN r = {"trb", "link", "enq", "cycle", "deq", "seen"} /\ DOMAIN r.trb = Commands
          /\ r.enq \in Commands
        BY <1>1 DEF RingTypeOK
    <2>4. /\ DOMAIN r2 = DOMAIN r /\ r2.enq = e /\ r2.link = l /\ r2.cycle = y
          /\ r2.deq = r.deq /\ r2.seen = r.seen /\ r2.trb = [r.trb EXCEPT ![r.enq] = T]
        BY <2>2, <2>3
    <2>5. /\ DOMAIN r2.trb = Commands /\ r2.trb[r.enq] = T
          /\ \A i \in Commands : i # r.enq => r2.trb[i] = r.trb[i]
        BY <2>3, <2>4
    <2>6. e \in Commands /\ l \in BOOLEAN /\ y \in BOOLEAN
        <3>1. /\ r.enq \in 0..(n - 1) /\ n \in Nat \ {0} /\ Commands = 0..(n - 1)
              /\ e = (IF r.enq = n - 1 THEN 0 ELSE r.enq + 1)
            BY <1>0, <2>1, <2>3
        <3>2. e \in Commands
            BY <3>1
        <3>3. r.link \in BOOLEAN /\ r.cycle \in BOOLEAN
            BY <1>1 DEF RingTypeOK
        <3> QED BY <2>1, <3>2, <3>3, Zenon
    <2>7. RingTypeOK(r2)
        BY <1>1, <2>1, <2>3, <2>4, <2>5, <2>6 DEF RingTypeOK
    <2> QED BY <2>1, <2>4, <2>5, <2>7
<1>7. PICK d : d = Ahead(r) /\ d \in 0..(n - 1)
    BY <1>0, <1>1, PlacesAre DEF Ahead, AtLink, RingTypeOK
<1>8. Ahead(r2) = d /\ Seen(r2) = Seen(r) /\ (AtLink(r2) <=> AtLink(r)) /\ Seen(r) \in BOOLEAN
      /\ \A i \in Commands : Offset(r2, i) = Offset(r, i)
    BY <1>1, <1>6, <1>7 DEF Ahead, Seen, AtLink, Offset, RingTypeOK
<1>9. /\ r.enq = IF d + L < n THEN d + L ELSE d + L - n
      /\ r.cycle = IF d + L < n THEN Seen(r) ELSE ~Seen(r)
    BY <1>2, <1>7 DEF RingInv, DriverBehind
<1>10. DriverBehind(r2, L + 1)
    <2>1. r2.enq = IF d + (L + 1) < n THEN d + (L + 1) ELSE d + (L + 1) - n
        <3>1. PICK e, e2 : e = r.enq /\ e2 = r2.enq
            OBVIOUS
        <3>2. /\ e2 = IF e = n - 1 THEN 0 ELSE e + 1
              /\ e = IF d + L < n THEN d + L ELSE d + L - n
            BY <1>6, <1>9, <3>1, Zenon
        <3>3. n \in Nat \ {0} /\ L \in Nat /\ L + 1 <= n - 1 /\ d \in 0..(n - 1)
            BY <1>0, <1>2, <1>7
        <3>4. e2 = IF d + (L + 1) < n THEN d + (L + 1) ELSE d + (L + 1) - n
            BY <3>2, <3>3
        <3> QED BY <3>1, <3>4, Zenon
    <2>2. r2.cycle = IF d + (L + 1) < n THEN Seen(r) ELSE ~Seen(r)
        BY <1>0, <1>2, <1>6, <1>7, <1>8, <1>9, SMTT(30)
    <2> QED BY <1>8, <2>1, <2>2 DEF DriverBehind
<1>11. ASSUME LinkFits(r), r.enq = Places - 1 => link = r.cycle PROVE LinkFits(r2)
    <2>1. n - 1 \in Commands /\ n = Places
        BY <1>0
    <2>2. CASE r.enq = n - 1
        <3>1. r2.link = r.cycle /\ r2.trb[n - 1].cycle = r.cycle
            BY <1>6, <1>11, <2>1, <2>2
        <3>2. ~AtLink(r2)
            BY <1>0, <1>2, <1>7, <1>8, <1>9, <2>2 DEF Ahead
        <3> QED BY <2>1, <3>1, <3>2 DEF LinkFits
    <2>3. CASE r.enq # n - 1
        BY <1>6, <1>8, <1>11, <2>1, <2>3 DEF LinkFits
    <2> QED BY <2>2, <2>3
<1>12. ASSUME NEW i \in Commands PROVE PlaceFits(r2, q2, i)
    <2>1. PICK o : o = Offset(r, i) /\ o = (IF i >= d THEN i - d ELSE i - d + n) /\ o \in Nat
        BY <1>0, <1>7 DEF Offset
    <2>2. o = L <=> i = r.enq
        <3>1. PICK e : e = r.enq
            OBVIOUS
        <3>2. e = IF d + L < n THEN d + L ELSE d + L - n
            BY <1>9, <3>1, Zenon
        <3>3. /\ n \in Nat \ {0} /\ L \in Nat /\ L <= n - 1
              /\ d \in 0..(n - 1) /\ i \in 0..(n - 1)
            BY <1>0, <1>2, <1>7
        <3>4. o = L <=> i = e
            <4>1. CASE i >= d
                BY ONLY <2>1, <3>2, <3>3, <4>1
            <4>2. CASE ~(i >= d)
                BY ONLY <2>1, <3>2, <3>3, <4>2
            <4> QED BY <4>1, <4>2
        <3> QED BY <3>1, <3>4, Zenon
    <2>3. CASE i = r.enq
        <3>1. r2.trb[i].cycle = IF i >= d THEN Seen(r) ELSE ~Seen(r)
            BY <1>0, <1>2, <1>6, <1>7, <1>8, <1>9, <2>3
        <3>2. Offset(r2, i) = L /\ Offset(r2, i) < Len(q2) /\ q2[Offset(r2, i) + 1] = c
            <4>1. o = L
                BY <2>2, <2>3
            <4>2. Offset(r2, i) = L
                BY <1>8, <2>1, <4>1
            <4>3. Len(q2) = L + 1 /\ q2[L + 1] = c
                BY <1>5
            <4> QED BY <1>2, <4>2, <4>3
        <3> QED BY <1>6, <1>7, <1>8, <2>3, <3>1, <3>2 DEF PlaceFits
    <2>4. CASE i # r.enq
        <3>1. PlaceFits(r, q, i)
            BY DEF RingInv
        <3>2. r2.trb[i] = r.trb[i] /\ Offset(r2, i) = o /\ (o < Len(q2) <=> o < Len(q))
            <4>1. o # L /\ o \in Nat /\ L \in Nat /\ Len(q) = L
                BY <1>2, <2>1, <2>2, <2>4
            <4>2. Len(q2) = L + 1
                BY <1>5
            <4>3. Offset(r2, i) = o
                BY <1>8, <2>1
            <4>4. r2.trb[i] = r.trb[i]
                BY <1>6, <2>4
            <4> QED BY <4>1, <4>2, <4>3, <4>4
        <3>3. o < Len(q) => q2[o + 1] = q[o + 1]
            BY <1>2, <1>5, <2>1
        <3> QED BY <1>7, <1>8, <2>1, <3>1, <3>2, <3>3 DEF PlaceFits
    <2> QED BY <2>3, <2>4
<1>13. RingInv(r2, q2)
    BY <1>2, <1>5, <1>6, <1>10, <1>12 DEF RingInv
<1> QED BY <1>3, <1>4, <1>11, <1>13

\* Where the controller stands, what it sees there, and where it goes.
LEMMA ControllerAhead ==
    ASSUME RingInv(ring, sent)
    PROVE  /\ Ahead(ring) \in Commands
           /\ LinkFits(ring) \/ CanExecute => Follows.at = Ahead(ring) /\ Follows.seen = Seen(ring)
           /\ CanExecute => sent # <<>>
           /\ LinkFits(ring) /\ sent # <<>> => CanExecute
           /\ sent # <<>> => /\ ring.trb[Ahead(ring)].type = sent[1].type
                             /\ ring.trb[Ahead(ring)].slot = sent[1].slot
                             /\ ring.trb[Ahead(ring)].port = sent[1].port
                             /\ ring.trb[Ahead(ring)].cycle = Seen(ring)
                             /\ sent[1].type # "none"
<1>0. Places \in Nat \ {0} /\ Commands = 0..(Places - 1) /\ CmdRingSize - 1 = Places
    BY PlacesAre DEF Places
<1>1. RingTypeOK(ring) /\ CommandsKnown(sent)
    BY DEF RingInv
<1>2. LinkFits(ring) \/ CanExecute => Follows.at = Ahead(ring) /\ Follows.seen = Seen(ring)
    <2>1. ASSUME LinkFits(ring) PROVE Follows.at = Ahead(ring) /\ Follows.seen = Seen(ring)
        BY <1>0, <1>1, <2>1 DEF Follows, LinkFits, Ahead, Seen, AtLink
    <2>2. ASSUME CanExecute PROVE Follows.at = Ahead(ring) /\ Follows.seen = Seen(ring)
        <3>1. Follows.at # Places
            BY <1>0, <2>2 DEF CanExecute
        <3> QED BY <1>0, <1>1, <3>1 DEF Follows, Ahead, Seen, AtLink
    <2> QED BY <2>1, <2>2
<1>3. Ahead(ring) \in Commands /\ Seen(ring) \in BOOLEAN
    <2>1. Ahead(ring) \in Commands
        BY <1>0, <1>1 DEF Ahead, AtLink, RingTypeOK
    <2>2. Seen(ring) \in BOOLEAN
        BY <1>1, Zenon DEF Seen, RingTypeOK
    <2> QED BY <2>1, <2>2
<1>4. PlaceFits(ring, sent, Ahead(ring))
    BY <1>3 DEF RingInv
<1>5. Offset(ring, Ahead(ring)) = 0
    BY <1>0, <1>3 DEF Offset
<1>6. /\ Len(sent) \in Nat /\ (sent = <<>> <=> Len(sent) = 0)
      /\ sent # <<>> => sent[1].type # "none"
    <2>1. PICK S : sent \in Seq(S)
        BY <1>1 DEF CommandsKnown
    <2>2. Len(sent) \in Nat /\ (sent = <<>> <=> Len(sent) = 0)
        BY <2>1, EmptySeq
    <2>3. sent # <<>> => 1 \in 1..Len(sent)
        BY <2>2
    <2> QED BY <1>1, <2>2, <2>3 DEF CommandsKnown
<1>7. ASSUME sent # <<>>
      PROVE  /\ ring.trb[Ahead(ring)].type = sent[1].type /\ ring.trb[Ahead(ring)].slot = sent[1].slot
             /\ ring.trb[Ahead(ring)].port = sent[1].port /\ ring.trb[Ahead(ring)].cycle = Seen(ring)
    <2>1. 0 < Len(sent)
        BY <1>6, <1>7
    <2> QED BY <1>0, <1>3, <1>4, <1>5, <2>1 DEF PlaceFits
<1>8. ASSUME sent = <<>> PROVE ~CanExecute
    <2>1. ~(0 < Len(sent))
        BY <1>6, <1>8
    <2>2. ring.trb[Ahead(ring)].type = "none" \/ ring.trb[Ahead(ring)].cycle = ~Seen(ring)
        BY <1>0, <1>3, <1>4, <1>5, <2>1 DEF PlaceFits
    <2> QED BY <1>2, <1>3, <2>2 DEF CanExecute
<1>9. ASSUME LinkFits(ring), sent # <<>> PROVE CanExecute
    BY <1>2, <1>3, <1>6, <1>7, <1>9 DEF CanExecute
<1> QED BY <1>2, <1>3, <1>6, <1>7, <1>8, <1>9

\* The controller takes the command before it.
LEMMA ExecuteKeepsRing ==
    ASSUME RingInv(ring, sent), CanExecute
    PROVE  /\ RingInv([ring EXCEPT !.deq = Follows.at + 1, !.seen = Follows.seen], Tail(sent))
           /\ LinkFits(ring) => LinkFits([ring EXCEPT !.deq = Follows.at + 1, !.seen = Follows.seen])
<1> PICK n : n = Places
    OBVIOUS
<1>0. n \in Nat \ {0} /\ Commands = 0..(n - 1) /\ n = Places
    BY PlacesAre
<1>1. RingTypeOK(ring) /\ CommandsKnown(sent)
    BY DEF RingInv
<1>2. PICK d : d = Ahead(ring) /\ d \in 0..(n - 1) /\ d = Follows.at
    BY <1>0, ControllerAhead
<1>3. PICK e : e = Seen(ring) /\ e \in BOOLEAN /\ e = Follows.seen
    BY <1>1, ControllerAhead DEF Seen, AtLink, RingTypeOK
<1>4. PICK r2 : r2 = [ring EXCEPT !.deq = d + 1, !.seen = e]
    OBVIOUS
<1>5. PICK q2 : q2 = Tail(sent)
    OBVIOUS
<1>6. PICK L : L = Len(sent) /\ L \in Nat /\ L # 0 /\ L <= n - 1
    <2>1. PICK S : sent \in Seq(S)
        BY <1>1 DEF CommandsKnown
    <2>2. sent # <<>>
        BY ControllerAhead
    <2>3. Len(sent) \in Nat /\ Len(sent) # 0
        BY <2>1, <2>2, EmptySeq
    <2>4. Len(sent) <= n - 1
        BY DEF RingInv
    <2> QED BY <2>3, <2>4
<1>7. /\ Len(q2) = L - 1 /\ \A i \in 1..(L - 1) : q2[i] = sent[i + 1]
      /\ CommandsKnown(q2)
    <2>1. PICK S : S = {sent[i] : i \in 1..Len(sent)} /\ sent \in Seq(S)
        BY <1>1 DEF CommandsKnown
    <2>2. sent # <<>>
        BY ControllerAhead
    <2>3. /\ q2 \in Seq(S) /\ Len(q2) = Len(sent) - 1
          /\ \A i \in 1..Len(q2) : q2[i] = sent[i + 1]
        BY <2>1, <2>2, <1>5, HeadTailProperties
    <2>4. Len(q2) = L - 1 /\ \A i \in 1..(L - 1) : q2[i] = sent[i + 1]
        BY <2>3, <1>6
    <2>5. q2 \in Seq({q2[i] : i \in 1..Len(q2)})
        BY <2>3
    <2>6. ASSUME NEW i \in 1..Len(q2) PROVE q2[i].type # "none"
        <3>1. i + 1 \in 1..Len(sent) /\ q2[i] = sent[i + 1]
            BY <1>6, <2>4, <2>6
        <3> QED BY <1>1, <3>1 DEF CommandsKnown
    <2> QED BY <2>4, <2>5, <2>6 DEF CommandsKnown
<1>8. /\ DOMAIN r2 = DOMAIN ring /\ r2.deq = d + 1 /\ r2.seen = e /\ r2.trb = ring.trb
      /\ r2.link = ring.link /\ r2.enq = ring.enq /\ r2.cycle = ring.cycle
    BY <1>1, <1>4 DEF RingTypeOK
<1>9. RingTypeOK(r2)
    <2>1. d + 1 \in 0..Places
        BY <1>0, <1>2
    <2> QED BY <1>1, <1>3, <1>8, <2>1 DEF RingTypeOK
<1>10. PICK d2 : d2 = Ahead(r2) /\ d2 = (IF d = n - 1 THEN 0 ELSE d + 1) /\ d2 \in 0..(n - 1)
    BY <1>0, <1>2, <1>8 DEF Ahead, AtLink
<1>11. PICK e2 : e2 = Seen(r2) /\ e2 = (IF d = n - 1 THEN ~e ELSE e) /\ e2 \in BOOLEAN
    <2>1. AtLink(r2) <=> d = n - 1
        BY <1>0, <1>2, <1>8 DEF AtLink
    <2>2. Seen(r2) = (IF d = n - 1 THEN ~e ELSE e)
        BY <1>8, <2>1, Zenon DEF Seen
    <2>3. (IF d = n - 1 THEN ~e ELSE e) \in BOOLEAN
        BY <1>3, Zenon
    <2> QED BY <2>2, <2>3, Zenon
<1>12. DriverBehind(r2, L - 1)
    <2>1. ring.enq = (IF d + L < n THEN d + L ELSE d + L - n) /\ ring.cycle = (IF d + L < n THEN e ELSE ~e)
        BY <1>0, <1>2, <1>3, <1>6 DEF RingInv, DriverBehind
    <2>2. ring.enq = IF d2 + (L - 1) < n THEN d2 + (L - 1) ELSE d2 + (L - 1) - n
        <3>1. PICK y : y = d2 + (L - 1) /\ y = (IF d = n - 1 THEN d + L - n ELSE d + L)
            BY <1>0, <1>2, <1>6, <1>10, SMTT(30)
        <3>2. PICK x : x = ring.enq /\ x = (IF d + L < n THEN d + L ELSE d + L - n)
            BY <2>1
        <3>3. /\ n \in Nat \ {0} /\ d \in 0..(n - 1) /\ L \in Nat /\ L # 0 /\ L <= n - 1
              /\ y = (IF d = n - 1 THEN d + L - n ELSE d + L)
              /\ x = (IF d + L < n THEN d + L ELSE d + L - n)
            BY <1>0, <1>2, <1>6, <3>1, <3>2
        <3>4. x = IF y < n THEN y ELSE y - n
            BY <3>3
        <3>5. (IF y < n THEN y ELSE y - n) = IF d2 + (L - 1) < n THEN d2 + (L - 1) ELSE d2 + (L - 1) - n
            <4>1. y = d2 + (L - 1)
                BY <3>1
            <4>2. n \in Nat /\ d2 \in Nat /\ L \in Nat
                BY <1>0, <1>6, <1>10
            <4> QED BY <4>1, <4>2
        <3> QED BY <3>2, <3>4, <3>5
    <2>3. (d2 + (L - 1) < n) <=> (d = n - 1 \/ d + L < n)
        BY <1>0, <1>2, <1>6, <1>10, SMTT(30)
    <2>4. d = n - 1 => ~(d + L < n)
        BY <1>0, <1>2, <1>6
    <2>5. ring.cycle = IF d2 + (L - 1) < n THEN e2 ELSE ~e2
        BY <1>3, <1>11, <2>1, <2>3, <2>4
    <2> QED BY <1>0, <1>8, <1>10, <1>11, <2>2, <2>5 DEF DriverBehind
<1>13. ASSUME LinkFits(ring) PROVE LinkFits(r2)
    <2>1. ASSUME AtLink(r2) PROVE r2.link = r2.seen
        <3>1. d = Places - 1
            BY <1>0, <1>2, <1>8, <2>1 DEF AtLink
        <3>2. ring.trb[d].type # "none" /\ ring.trb[d].cycle = e
            BY <1>2, <1>3, ControllerAhead
        <3> QED BY <1>8, <1>13, <3>1, <3>2 DEF LinkFits
    <2> QED BY <1>8, <1>13, <2>1 DEF LinkFits
<1>14. ASSUME NEW i \in Commands PROVE PlaceFits(r2, q2, i)
    <2>1. PICK o, o2 : /\ o = Offset(ring, i) /\ o2 = Offset(r2, i)
                       /\ o = (IF i >= d THEN i - d ELSE i - d + n)
                       /\ o2 = (IF i >= d2 THEN i - d2 ELSE i - d2 + n)
        BY <1>0, <1>2, <1>10 DEF Offset
    <2>2. i \in 0..(n - 1)
        BY <1>0
    <2>3. PlaceFits(ring, sent, i)
        BY DEF RingInv
    <2>4. CASE i = d
        <3>1. o2 = n - 1 /\ ~(o2 < Len(q2)) /\ (i >= d2 <=> d = n - 1)
            BY <1>0, <1>2, <1>6, <1>7, <1>10, <2>1, <2>2, <2>4, SMTT(30)
        <3>2. r2.trb[i].cycle = e
            BY <1>2, <1>3, <1>8, <2>4, ControllerAhead
        <3>3. IF i >= d2 THEN r2.trb[i].cycle = ~e2 ELSE r2.trb[i].cycle = e2
            BY <1>3, <1>11, <3>1, <3>2
        <3> QED BY <1>10, <1>11, <2>1, <3>1, <3>3 DEF PlaceFits
    <2>5. CASE i # d
        <3>1. o2 = o - 1 /\ o \in 1..(n - 1) /\ (o2 < L - 1 <=> o < L)
            <4>1. o \in 1..(n - 1)
                BY <1>0, <1>2, <2>1, <2>2, <2>5
            <4>2. o2 = o - 1
                <5>0. i \in Int /\ d \in Int /\ d2 \in Int /\ n \in Int
                    BY <1>0, <1>2, <1>10, <2>2
                <5>1. CASE d = n - 1
                    <6>1. i >= d2 /\ ~(i >= d) /\ d2 = 0
                        BY <1>2, <1>10, <2>2, <2>5, <5>1
                    <6> QED BY <2>1, <5>0, <5>1, <6>1
                <5>2. CASE d # n - 1
                    <6>1. d2 = d + 1
                        BY <1>10, <5>2
                    <6>2. i >= d2 <=> i >= d
                        BY <2>5, <5>0, <6>1
                    <6> QED BY <2>1, <5>0, <6>1, <6>2
                <5> QED BY <5>1, <5>2
            <4> QED BY <1>6, <4>1, <4>2
        <3>2. o2 < Len(q2) <=> o < Len(sent)
            BY <1>6, <1>7, <3>1
        <3>3. o < Len(sent) => q2[o2 + 1] = sent[o + 1]
            BY <1>6, <1>7, <3>1
        <3>4. i >= d2 <=> (d = n - 1 \/ i >= d)
            BY <1>0, <1>2, <1>10, <2>2, <2>5
        <3>5. d = n - 1 => ~(i >= d)
            BY <1>2, <2>2, <2>5
        <3>6. CASE o < Len(sent)
            <4>1. /\ ring.trb[i].cycle = (IF i >= d THEN e ELSE ~e)
                  /\ ring.trb[i].type = sent[o + 1].type /\ ring.trb[i].slot = sent[o + 1].slot
                  /\ ring.trb[i].port = sent[o + 1].port
                BY <1>2, <1>3, <2>1, <2>3, <3>6 DEF PlaceFits
            <4>2. ring.trb[i].cycle = IF i >= d2 THEN e2 ELSE ~e2
                BY <1>3, <1>11, <3>4, <3>5, <4>1
            <4> QED BY <1>8, <1>10, <1>11, <2>1, <3>2, <3>3, <3>6, <4>1, <4>2 DEF PlaceFits
        <3>7. CASE ~(o < Len(sent))
            <4>1. IF i >= d THEN ring.trb[i].type = "none" \/ ring.trb[i].cycle = ~e ELSE ring.trb[i].cycle = e
                BY <1>2, <1>3, <2>1, <2>3, <3>7 DEF PlaceFits
            <4>2. IF i >= d2 THEN ring.trb[i].type = "none" \/ ring.trb[i].cycle = ~e2 ELSE ring.trb[i].cycle = e2
                BY <1>3, <1>11, <3>4, <3>5, <4>1
            <4> QED BY <1>8, <1>10, <1>11, <2>1, <3>2, <3>7, <4>2 DEF PlaceFits
        <3> QED BY <3>6, <3>7
    <2> QED BY <2>4, <2>5
<1>15. Len(q2) <= Places - 1
    BY <1>0, <1>6, <1>7
<1>16. RingInv(r2, q2)
    BY <1>7, <1>9, <1>12, <1>14, <1>15 DEF RingInv
<1>17. r2 = [ring EXCEPT !.deq = Follows.at + 1, !.seen = Follows.seen]
    BY <1>2, <1>3, <1>4
<1> QED BY <1>5, <1>13, <1>16, <1>17

\* One or two commands are written: an early one never right before the link, or
\* badLink tells, and never more than the ring holds, or overrun does.
XhciInv == ~overrun => RingInv(ring, sent) /\ (~badLink => LinkFits(ring))

LEMMA SendsKeepsRing ==
    ASSUME XhciInv, NEW cs, NEW early \in BOOLEAN, Sends(cs, early),
           \/ cs = <<>>
           \/ \E a : cs = <<a>> /\ a.type # "none"
           \/ \E a, b : cs = <<a, b>> /\ a.type # "none" /\ b.type # "none" /\ ~early
    PROVE  XhciInv'
<1> SUFFICES ASSUME ~overrun' PROVE RingInv(ring', sent') /\ (~badLink' => LinkFits(ring'))
    BY DEF XhciInv
<1>0. Places = CmdRingSize - 1 /\ CmdRingSize \in Nat
    BY XhciAssumption DEF Places
<1>1. /\ RingInv(ring, sent) /\ (~badLink => LinkFits(ring))
      /\ badLink' = (badLink \/ (early /\ cs # <<>> /\ ring.enq = CmdRingSize - 2))
      /\ \A k \in 1..Len(cs) : ~(Len(sent) + k > CmdRingSize - 2)
    BY DEF XhciInv, Sends
<1>2. PICK S : sent \in Seq(S)
    BY <1>1 DEF RingInv, CommandsKnown
<1>3. Len(sent) \in Nat
    BY <1>2
<1>4. \A k \in 1..Len(cs) : Len(sent) + k <= Places - 1
    BY <1>0, <1>1, <1>3
<1>5. ASSUME NEW r, NEW q, RingInv(r, q) PROVE r.cycle \in BOOLEAN /\ r.enq \in Commands
    BY <1>5 DEF RingInv, RingTypeOK
<1>6. ASSUME NEW r, NEW q, RingInv(r, q), NEW c, c.type # "none", Len(q) + 1 <= Places - 1
      PROVE  RingInv(PutCommand(r, c), Append(q, c)) /\ (LinkFits(r) => LinkFits(PutCommand(r, c)))
    BY <1>5, <1>6, PutKeepsRing DEF PutCommand
<1>7. ASSUME NEW r, NEW q, RingInv(r, q), NEW c, c.type # "none", Len(q) + 1 <= Places - 1
      PROVE  /\ RingInv(PutEarly(r, c), Append(q, c))
             /\ LinkFits(r) /\ r.enq # CmdRingSize - 2 => LinkFits(PutEarly(r, c))
    <2>1. (~r.cycle) \in BOOLEAN /\ (r.enq # CmdRingSize - 2 => r.enq # Places - 1)
        BY <1>0, <1>7
    <2> QED BY <1>7, <2>1, PutKeepsRing DEF PutEarly
<1>8. CASE cs = <<>>
    <2>1. ring' = ring /\ sent' = sent \o <<>>
        BY <1>8 DEF Sends
    <2>2. sent \o <<>> = sent
        BY <1>2
    <2> QED BY <1>1, <2>1, <2>2
<1>9. ASSUME NEW a, cs = <<a>>, a.type # "none"
      PROVE  RingInv(ring', sent') /\ (~badLink' => LinkFits(ring'))
    <2>1. Len(cs) = 1 /\ cs[1] = a /\ cs # <<>>
        BY <1>9
    <2>2. Len(sent) + 1 <= Places - 1
        BY <1>4, <2>1
    <2>3. sent' = Append(sent, a)
        <3>1. sent \in Seq(S \cup {a}) /\ a \in S \cup {a}
            BY <1>2
        <3>2. Append(sent, a) = sent \o <<a>>
            BY <3>1, AppendIsConcat
        <3> QED BY <1>9, <3>2 DEF Sends
    <2>4. ring' = IF early THEN PutEarly(ring, a) ELSE PutCommand(ring, a)
        BY <2>1, Zenon DEF Sends
    <2> QED BY <1>1, <1>6, <1>7, <1>9, <2>1, <2>2, <2>3, <2>4
<1>10. ASSUME NEW a, NEW b, cs = <<a, b>>, a.type # "none", b.type # "none", ~early
       PROVE  RingInv(ring', sent') /\ (~badLink' => LinkFits(ring'))
    <2>1. Len(cs) = 2 /\ cs[1] = a /\ cs[2] = b /\ cs # <<>>
        BY <1>10
    <2>2. Len(sent) + 1 <= Places - 1 /\ Len(sent) + 2 <= Places - 1
        BY <1>4, <2>1
    <2>3. sent' = Append(Append(sent, a), b) /\ Len(Append(sent, a)) = Len(sent) + 1
        <3>1. sent \in Seq(S \cup {a, b}) /\ a \in S \cup {a, b} /\ b \in S \cup {a, b}
            BY <1>2
        <3>2. Append(sent, a) \in Seq(S \cup {a, b}) /\ Len(Append(sent, a)) = Len(sent) + 1
            BY <3>1
        <3>3. Append(sent, a) = sent \o <<a>> /\ Append(Append(sent, a), b) = Append(sent, a) \o <<b>>
            BY <3>1, <3>2, AppendIsConcat
        <3>4. <<a>> \in Seq(S \cup {a, b}) /\ <<b>> \in Seq(S \cup {a, b})
            BY <3>1
        <3>5. (sent \o <<a>>) \o <<b>> = sent \o (<<a>> \o <<b>>)
            BY <3>1, <3>4, ConcatAssociative
        <3>6. <<a>> \o <<b>> = <<a, b>>
            <4>1. <<a, b>> = Append(<<a>>, b)
                OBVIOUS
            <4> QED BY <3>1, <3>4, <4>1, AppendIsConcat
        <3> QED BY <1>10, <3>2, <3>3, <3>5, <3>6 DEF Sends
    <2>4. ring' = PutCommand(PutCommand(ring, a), b)
        BY <1>10, <2>1 DEF Sends
    <2>5. RingInv(PutCommand(ring, a), Append(sent, a)) /\ (LinkFits(ring) => LinkFits(PutCommand(ring, a)))
        BY <1>1, <1>6, <1>10, <2>2
    <2>6. Len(Append(sent, a)) + 1 <= Places - 1
        BY <1>3, <2>2, <2>3
    <2> QED BY <1>1, <1>6, <1>10, <2>3, <2>4, <2>5, <2>6
<1> QED BY <1>8, <1>9, <1>10

LEMMA RingInitially == XhciInit => XhciInv
<1> SUFFICES ASSUME XhciInit PROVE RingInv(ring, sent) /\ LinkFits(ring)
    BY DEF XhciInv
<1>0. Places \in Nat \ {0} /\ Commands = 0..(Places - 1)
    BY PlacesAre
<1>1. /\ ring = [trb |-> [i \in Commands |-> NoTrb], link |-> TRUE, enq |-> 0, cycle |-> TRUE,
                 deq |-> 0, seen |-> TRUE]
      /\ sent = <<>>
    BY DEF XhciInit
<1>2. Len(sent) = 0 /\ CommandsKnown(sent)
    BY <1>1 DEF CommandsKnown
<1>3. RingTypeOK(ring) /\ \A i \in Commands : ring.trb[i].type = "none"
    <2>1. /\ DOMAIN ring = {"trb", "link", "enq", "cycle", "deq", "seen"}
          /\ ring.trb = [i \in Commands |-> NoTrb]
          /\ ring.link = TRUE /\ ring.cycle = TRUE /\ ring.seen = TRUE /\ ring.enq = 0 /\ ring.deq = 0
        BY <1>1
    <2>2. NoTrb.type = "none" /\ NoTrb.cycle = FALSE
        BY DEF NoTrb
    <2>3. 0 \in Commands /\ 0 \in 0..Places
        BY <1>0
    <2>4. \A i \in Commands : ring.trb[i] = NoTrb
        BY <2>1
    <2> QED BY <2>1, <2>2, <2>3, <2>4 DEF RingTypeOK
<1>4. Ahead(ring) = 0 /\ Seen(ring) = TRUE /\ ~AtLink(ring)
    BY <1>0, <1>1 DEF Ahead, Seen, AtLink
<1>5. LinkFits(ring)
    BY <1>0, <1>3, <1>4 DEF LinkFits
<1>6. DriverBehind(ring, 0)
    <2>1. ring.enq = 0 /\ ring.cycle = TRUE
        BY <1>1
    <2>2. 0 + 0 < Places
        BY <1>0
    <2>3. ring.enq = (IF Ahead(ring) + 0 < Places THEN Ahead(ring) + 0 ELSE Ahead(ring) + 0 - Places)
        BY <1>4, <2>1, <2>2
    <2>4. ring.cycle = (IF Ahead(ring) + 0 < Places THEN Seen(ring) ELSE ~Seen(ring))
        BY <1>4, <2>1, <2>2
    <2> QED BY <2>3, <2>4 DEF DriverBehind
<1>7. ASSUME NEW i \in Commands PROVE PlaceFits(ring, sent, i)
    <2>1. i >= Ahead(ring) /\ ~(Offset(ring, i) < Len(sent))
        BY <1>0, <1>2, <1>4 DEF Offset
    <2> QED BY <1>3, <2>1 DEF PlaceFits
<1>8. Len(sent) <= Places - 1
    BY <1>0, <1>2
<1> QED BY <1>2, <1>3, <1>5, <1>6, <1>7, <1>8 DEF RingInv

LEMMA RingStep == XhciInv /\ [XhciNext]_xhciVars => XhciInv'
<1> SUFFICES ASSUME XhciInv, [XhciNext]_xhciVars PROVE XhciInv'
    OBVIOUS
<1>1. ASSUME SendsNothing PROVE XhciInv'
    BY <1>1 DEF SendsNothing, XhciInv
<1>2. ASSUME NEW t, NEW s, NEW p, t # "none", NEW early \in BOOLEAN, Sends(<<Command(t, s, p)>>, early)
      PROVE  XhciInv'
    BY <1>2, SendsKeepsRing DEF Command
<1>3. ASSUME KeepsDriver PROVE XhciInv'
    BY <1>1, <1>3 DEF KeepsDriver, SendsNothing
<1>4. ASSUME NEW p, SendEnableSlotCommand(p) PROVE XhciInv'
    BY <1>2, <1>4 DEF SendEnableSlotCommand
<1>5. CASE InitializePort
    BY <1>1, <1>4, <1>5 DEF InitializePort
<1>6. CASE SendNOOPCommand
    BY <1>2, <1>6 DEF SendNOOPCommand
<1>7. ASSUME NEW ok, Execute(ok) PROVE XhciInv'
    <2> SUFFICES ASSUME ~overrun' PROVE RingInv(ring', sent') /\ (~badLink' => LinkFits(ring'))
        BY DEF XhciInv
    <2>1. RingInv(ring, sent) /\ CanExecute /\ (~badLink => LinkFits(ring)) /\ badLink' = badLink
        BY <1>7 DEF Execute, XhciInv
    <2>2. sent # <<>>
        BY <2>1, ControllerAhead
    <2>3. /\ ring' = [ring EXCEPT !.deq = Follows.at + 1, !.seen = Follows.seen]
          /\ sent' = Tail(sent)
        BY <1>7, <2>2 DEF Execute
    <2> QED BY <2>1, <2>3, ExecuteKeepsRing
<1>8. ASSUME NEW p, HandlePortStatusChange(p) PROVE XhciInv'
    BY <1>1, <1>2, <1>4, <1>8 DEF HandlePortStatusChange, ConnectChange, ResetChange
<1>9. ASSUME NEW e, CommandCompletes(e) PROVE XhciInv'
    BY <1>1, <1>2, <1>9 DEF CommandCompletes, SlotEnabled, SetupAddressDevice
<1>10. ASSUME NEW s, FindClassAndEndpoint(s) PROVE XhciInv'
    <2>1. PICK cs : /\ Sends(cs, FALSE)
                    /\ cs \in {<<>>, <<ConfigureEndpoint(s)>>, <<ConfigureEndpoint(s), ConfigureEndpoint(s)>>}
        BY <1>10 DEF FindClassAndEndpoint
    <2>2. ConfigureEndpoint(s).type # "none"
        BY DEF ConfigureEndpoint, Command
    <2> QED BY <2>1, <2>2, SendsKeepsRing
<1>11. ASSUME NEW e, TransferCompletes(e) PROVE XhciInv'
    BY <1>1, <1>10, <1>11 DEF TransferCompletes
<1>12. CASE ProcessEvent
    BY <1>8, <1>9, <1>11, <1>12 DEF ProcessEvent
<1>13. ASSUME NEW p, NEW k, NEW on, Plug(p, k, on) \/ Unplug(p) \/ ResetEnds(p, on) PROVE XhciInv'
    BY <1>3, <1>13 DEF Plug, Unplug, ResetEnds
<1>14. ASSUME NEW s, NEW ep, NEW code, TransferEnds(s, ep, code) PROVE XhciInv'
    BY <1>3, <1>14 DEF TransferEnds
<1>15. CASE UNCHANGED xhciVars
    BY <1>1, <1>15 DEF xhciVars, xhciHistory, SendsNothing
<1> QED
    BY <1>5, <1>6, <1>7, <1>12, <1>13, <1>14, <1>15 DEF XhciNext

\* The controller has the oldest command before it and nothing else, for a ring of
\* any size, however often it is wrapped and however many commands are under way:
\* an entry of an earlier lap is never taken for a new one.
THEOREM CommandsAreFollowed == XhciSpec => []CommandRingIsFollowed
<1>1. XhciInv => CommandRingIsFollowed
    <2> SUFFICES ASSUME RingInv(ring, sent), LinkFits(ring)
                 PROVE  IF sent = <<>> THEN ~CanExecute
                        ELSE CanExecute /\ ring.trb[Follows.at].type = sent[1].type
                             /\ ring.trb[Follows.at].slot = sent[1].slot
        BY DEF XhciInv, CommandRingIsFollowed
    <2> QED BY ControllerAhead
<1> QED BY <1>1, RingInitially, RingStep, PTL DEF XhciSpec
-----------------------------------------------------------------------------
(***************************************************************************)
(* Slots and ports.  The queue of ports holds, in order, the ports of the  *)
(* Enable Slots whose events are still to be handled and then of those the *)
(* controller has not executed yet.                                        *)
(***************************************************************************)
\* f lists the members of T in ascending order.
Picks(f, n, T) ==
    /\ f \in [1..n -> T]
    /\ \A i, j \in 1..n : i < j => f[i] < f[j]
    /\ \A x \in T : \E i \in 1..n : f[i] = x

\* q holds the ports of the entries of e in the places T, in their order.
PortsOf(q, e, T) ==
    /\ q \in Seq(Ports)
    /\ \E f : Picks(f, Len(q), T) /\ \A i \in 1..Len(q) : q[i] = e[f[i]].port

IsList(e) == e \in Seq({e[i] : i \in 1..Len(e)})

\* e2 is e and x behind it.
Grown(e, x, e2) ==
    /\ IsList(e2) /\ Len(e) \in Nat /\ Len(e2) = Len(e) + 1 /\ e2[Len(e) + 1] = x
    /\ \A i \in 1..Len(e) : e2[i] = e[i]

LEMMA ListGrows ==
    ASSUME NEW e, IsList(e), NEW x
    PROVE  Grown(e, x, Append(e, x))
<1>0. PICK e2 : e2 = Append(e, x)
    OBVIOUS
<1>1. PICK S : e \in Seq(S) /\ x \in S
    <2>1. e \in Seq({e[i] : i \in 1..Len(e)} \cup {x})
        BY DEF IsList
    <2> QED BY <2>1
<1>2. /\ Len(e) \in Nat /\ Len(e2) = Len(e) + 1 /\ e2[Len(e) + 1] = x /\ e2 \in Seq(S)
      /\ \A i \in 1..Len(e) : e2[i] = e[i]
    BY <1>0, <1>1
<1> QED BY <1>0, <1>2 DEF IsList, Grown

LEMMA ListFalls ==
    ASSUME NEW e, IsList(e), e # <<>>, NEW e2, e2 = Tail(e)
    PROVE  /\ IsList(e2) /\ Len(e) \in Nat \ {0} /\ Len(e2) = Len(e) - 1 /\ Head(e) = e[1]
           /\ \A i \in 1..Len(e2) : e2[i] = e[i + 1]
<1>1. PICK S : e \in Seq(S)
    BY DEF IsList
<1>2. /\ e2 \in Seq(S) /\ Len(e2) = Len(e) - 1 /\ Head(e) = e[1] /\ Len(e) \in Nat
      /\ \A i \in 1..Len(e2) : e2[i] = e[i + 1]
    BY <1>1, HeadTailProperties
<1>3. Len(e) # 0
    BY <1>1, EmptySeq
<1>4. IsList(e2)
    <2>1. e2 \in Seq(S)
        BY <1>2
    <2> QED BY ONLY <2>1 DEF IsList
<1> QED BY <1>2, <1>3, <1>4

\* One more entry is listed, behind all others.
LEMMA ListsMore ==
    ASSUME NEW q, NEW e, NEW T, T \subseteq Nat, PortsOf(q, e, T), NEW e2, NEW x \in Nat, NEW p \in Ports,
           \A y \in T : y < x /\ e2[y] = e[y], e2[x].port = p
    PROVE  PortsOf(Append(q, p), e2, T \cup {x})
<1>1. PICK f : Picks(f, Len(q), T) /\ \A i \in 1..Len(q) : q[i] = e[f[i]].port
    BY DEF PortsOf
<1>2. PICK n \in Nat : n = Len(q)
    BY DEF PortsOf
<1>3. PICK q2 : q2 = Append(q, p)
    OBVIOUS
<1>4. q2 \in Seq(Ports) /\ Len(q2) = n + 1 /\ q2[n + 1] = p /\ \A i \in 1..n : q2[i] = q[i]
    BY <1>2, <1>3 DEF PortsOf
<1>5. PICK g : g = [i \in 1..(n + 1) |-> IF i = n + 1 THEN x ELSE f[i]]
    OBVIOUS
<1>6. f \in [1..n -> T] /\ \A i, j \in 1..n : i < j => f[i] < f[j]
    BY <1>1, <1>2 DEF Picks
<1>7. g[n + 1] = x /\ n + 1 \in 1..(n + 1) /\ \A i \in 1..n : g[i] = f[i] /\ i \in 1..(n + 1)
    BY <1>5
<1>8. \A i \in 1..(n + 1) : i = n + 1 \/ i \in 1..n
    OBVIOUS
<1>9. Picks(g, n + 1, T \cup {x})
    <2>1. g \in [1..(n + 1) -> T \cup {x}]
        BY <1>5, <1>6, <1>7, <1>8
    <2>2. ASSUME NEW i \in 1..(n + 1), NEW j \in 1..(n + 1), i < j PROVE g[i] < g[j]
        <3>1. i \in 1..n /\ f[i] \in T /\ g[i] = f[i]
            BY <1>6, <1>7, <2>2
        <3>2. CASE j = n + 1
            BY <1>7, <3>1, <3>2
        <3>3. CASE j \in 1..n
            BY <1>6, <1>7, <2>2, <3>1, <3>3
        <3> QED BY <1>8, <3>2, <3>3
    <2>3. ASSUME NEW y \in T \cup {x} PROVE \E i \in 1..(n + 1) : g[i] = y
        BY <1>1, <1>2, <1>7 DEF Picks
    <2> QED BY <2>1, <2>2, <2>3 DEF Picks
<1>10. ASSUME NEW i \in 1..(n + 1) PROVE q2[i] = e2[g[i]].port
    <2>1. CASE i = n + 1
        BY <1>4, <1>7, <2>1
    <2>2. CASE i \in 1..n
        BY <1>1, <1>2, <1>4, <1>6, <1>7, <2>2
    <2> QED BY <1>8, <2>1, <2>2
<1> QED BY <1>3, <1>4, <1>9, <1>10 DEF PortsOf

\* The first entry goes: it is the first one listed, or none of them.
LEMMA ListsLess ==
    ASSUME NEW q, NEW e, NEW T, T \subseteq Nat \ {0}, PortsOf(q, e, T),
           NEW e2, NEW U, U \subseteq Nat \ {0}, \A y \in Nat \ {0} : y \in U <=> y + 1 \in T,
           \A y \in U : e2[y] = e[y + 1]
    PROVE  /\ 1 \in T => q # <<>> /\ Head(q) = e[1].port /\ PortsOf(Tail(q), e2, U)
           /\ 1 \notin T => PortsOf(q, e2, U)
<1>1. PICK f : Picks(f, Len(q), T) /\ \A i \in 1..Len(q) : q[i] = e[f[i]].port
    BY DEF PortsOf
<1>2. PICK n \in Nat : n = Len(q) /\ q \in Seq(Ports)
    BY SMTT(30) DEF PortsOf
<1>3. f \in [1..n -> T] /\ \A i, j \in 1..n : i < j => f[i] < f[j]
    BY <1>1, <1>2 DEF Picks
<1>4. \A i \in 1..n : f[i] \in T /\ f[i] \in Nat /\ f[i] # 0
    BY <1>3
<1>0. /\ \A y \in U : y \in Nat /\ y # 0 /\ y + 1 \in T
      /\ \A y \in Nat : y # 0 /\ y + 1 \in T => y \in U
    OBVIOUS
<1>5. ASSUME 1 \notin T PROVE PortsOf(q, e2, U)
    <2>1. PICK g : g = [i \in 1..n |-> f[i] - 1]
        OBVIOUS
    <2>2. ASSUME NEW i \in 1..n PROVE g[i] = f[i] - 1 /\ g[i] + 1 = f[i] /\ g[i] \in U
        <3>1. PICK y \in Nat : y = f[i] /\ y \in T /\ y # 0 /\ y # 1
            BY <1>4, <1>5
        <3>2. y - 1 \in Nat /\ y - 1 # 0 /\ (y - 1) + 1 = y
            BY <3>1
        <3>3. y - 1 \in U
            BY <1>0, <3>1, <3>2
        <3> QED BY <2>1, <3>1, <3>2, <3>3
    <2>3. g \in [1..n -> U]
        BY <2>1, <2>2
    <2>4. \A i, j \in 1..n : i < j => g[i] < g[j]
        BY <1>3, <1>4, <2>2
    <2>5. ASSUME NEW y \in U PROVE \E i \in 1..n : g[i] = y
        <3>1. PICK i \in 1..n : f[i] = y + 1
            BY <1>1, <1>2 DEF Picks
        <3>2. g[i] = (y + 1) - 1 /\ y \in Nat
            BY <1>0, <2>2, <3>1
        <3> QED BY <3>2
    <2>6. ASSUME NEW i \in 1..n PROVE q[i] = e2[g[i]].port
        <3>1. e2[g[i]] = e[f[i]]
            BY <2>2
        <3> QED BY <1>1, <1>2, <3>1
    <2> QED BY <1>2, <2>3, <2>4, <2>5, <2>6 DEF PortsOf, Picks
<1>6. ASSUME 1 \in T PROVE q # <<>> /\ Head(q) = e[1].port /\ PortsOf(Tail(q), e2, U)
    <2>1. PICK k \in 1..n : f[k] = 1
        BY <1>1, <1>2, <1>6 DEF Picks
    <2>2. n # 0 /\ 1 \in 1..n
        BY <2>1
    <2>3. f[1] = 1
        <3>1. CASE k = 1
            BY <2>1, <3>1
        <3>2. CASE k > 1
            BY <1>3, <1>4, <2>1, <2>2, <3>2
        <3> QED BY <3>1, <3>2
    <2>4. q # <<>> /\ Head(q) = q[1]
        BY <1>2, <2>2
    <2>5. Head(q) = e[1].port
        BY <1>1, <1>2, <2>2, <2>3, <2>4
    <2>6. PICK t : t = Tail(q)
        OBVIOUS
    <2>7. t \in Seq(Ports) /\ Len(t) = n - 1 /\ \A i \in 1..(n - 1) : t[i] = q[i + 1]
        BY <1>2, <2>2, <2>4, <2>6
    <2>8. PICK g : g = [i \in 1..(n - 1) |-> f[i + 1] - 1]
        OBVIOUS
    <2>9. \A i \in 1..(n - 1) : i + 1 \in 1..n /\ 1 < i + 1
        OBVIOUS
    <2>10. \A i \in 1..(n - 1) : f[i + 1] > 1
        BY <1>3, <2>2, <2>3, <2>9
    <2>11. ASSUME NEW i \in 1..(n - 1) PROVE g[i] = f[i + 1] - 1 /\ g[i] + 1 = f[i + 1] /\ g[i] \in U /\ f[i + 1] \in Nat
        <3>1. PICK y \in Nat : y = f[i + 1] /\ y \in T /\ y > 1
            BY <1>4, <2>9, <2>10
        <3>2. y - 1 \in Nat /\ y - 1 # 0 /\ (y - 1) + 1 = y
            BY <3>1
        <3>3. y - 1 \in U
            BY <1>0, <3>1, <3>2
        <3> QED BY <2>8, <3>1, <3>2, <3>3
    <2>12. g \in [1..(n - 1) -> U]
        BY <2>8, <2>11
    <2>13. ASSUME NEW i \in 1..(n - 1), NEW j \in 1..(n - 1), i < j PROVE g[i] < g[j]
        <3>1. i + 1 < j + 1
            BY <2>13
        <3>2. f[i + 1] < f[j + 1]
            BY <1>3, <2>9, <3>1
        <3> QED BY <2>11, <3>2
    <2>14. ASSUME NEW y \in U PROVE \E i \in 1..(n - 1) : g[i] = y
        <3>1. PICK m \in 1..n : f[m] = y + 1
            BY <1>1, <1>2 DEF Picks
        <3>2. m # 1 /\ y \in Nat
            <4>1. y \in Nat /\ y # 0
                BY <1>0, Zenon
            <4>2. f[m] # 1
                BY <3>1, <4>1
            <4> QED BY <2>3, <4>1, <4>2, Zenon
        <3>3. m - 1 \in 1..(n - 1) /\ (m - 1) + 1 = m
            BY <3>2
        <3>4. g[m - 1] = f[m] - 1
            BY <2>11, <3>3
        <3> QED BY <3>1, <3>2, <3>3, <3>4
    <2>15. ASSUME NEW i \in 1..(n - 1) PROVE t[i] = e2[g[i]].port
        <3>1. e2[g[i]] = e[f[i + 1]]
            BY <2>11
        <3> QED BY <1>1, <1>2, <2>7, <2>9, <3>1
    <2>16. Picks(g, n - 1, U)
        BY <2>12, <2>13, <2>14 DEF Picks
    <2>17. PortsOf(t, e2, U)
        BY <2>7, <2>15, <2>16 DEF PortsOf
    <2> QED BY <2>4, <2>5, <2>6, <2>17
<1> QED BY <1>5, <1>6

EventFits(e) == (e.type = "port" => e.port \in Ports) /\ (e.type = "command" => e.at \in Commands)
EventsKnown == IsList(events) /\ \A k \in 1..Len(events) : EventFits(events[k])

\* The Enable Slots whose events are to be handled, and those not executed yet.
EventAsks == {k \in 1..Len(events) :
                 events[k].type = "command" /\ ring.trb[events[k].at].type = "ENABLE_SLOT"}
SentAsks == {k \in 1..Len(sent) : sent[k].type = "ENABLE_SLOT"}

\* The queue of ports is the ports of the Enable Slots under way, in their order.
AskersKnown ==
    /\ ~mismatch /\ EventsKnown /\ \A k \in EventAsks : events[k].ok
    /\ \E q1, q2 : enableQ = q1 \o q2 /\ PortsOf(q1, events, EventAsks) /\ PortsOf(q2, sent, SentAsks)

SlotInv == ~exhausted /\ ~overrun => AskersKnown

\* A step writes no entry that an event still to be handled names.
KeepsNamed ==
    \A k \in 1..Len(events') : events'[k].type = "command" =>
        ring'.trb[events'[k].at].type = ring.trb[events'[k].at].type

LEMMA NothingSent ==
    ASSUME SendsNothing
    PROVE  KeepsNamed /\ sent' = sent /\ \A q : PortsOf(q, sent, SentAsks) => PortsOf(q, sent', SentAsks')
BY DEF SendsNothing, KeepsNamed, SentAsks

\* What one command that is written changes.
PutOnly(r, r2, c) ==
    /\ \A i \in Commands : i # r.enq => r2.trb[i] = r.trb[i]
    /\ r2.enq = IF r.enq = Places - 1 THEN 0 ELSE r.enq + 1

LEMMA PutChanges ==
    ASSUME NEW r, RingTypeOK(r), NEW c, NEW link \in BOOLEAN
    PROVE  PutOnly(r, Put(r, c, link), c) /\ RingTypeOK(Put(r, c, link))
<1>1. CmdRingSize - 2 = Places - 1
    BY XhciAssumption DEF Places
<1>2. /\ DOMAIN r = {"trb", "link", "enq", "cycle", "deq", "seen"} /\ DOMAIN r.trb = Commands
      /\ r.enq \in Commands
    BY DEF RingTypeOK
<1>3. PICK T, e, l, y :
         /\ Put(r, c, link) = [r EXCEPT !.trb[r.enq] = T, !.enq = e, !.link = l, !.cycle = y]
         /\ T = [type |-> c.type, slot |-> c.slot, port |-> c.port, cycle |-> r.cycle]
         /\ e = (IF r.enq = Places - 1 THEN 0 ELSE r.enq + 1)
         /\ l = (IF r.enq = Places - 1 THEN link ELSE r.link)
         /\ y = (IF r.enq = Places - 1 THEN ~r.cycle ELSE r.cycle)
    BY <1>1 DEF Put
<1>4. PICK r2 : r2 = Put(r, c, link)
    OBVIOUS
<1>5. /\ DOMAIN r2 = DOMAIN r /\ r2.enq = e /\ r2.link = l /\ r2.cycle = y
      /\ r2.deq = r.deq /\ r2.seen = r.seen /\ r2.trb = [r.trb EXCEPT ![r.enq] = T]
    BY <1>2, <1>3, <1>4
<1>6. /\ DOMAIN r2.trb = Commands /\ r2.trb[r.enq] = T
      /\ \A i \in Commands : i # r.enq => r2.trb[i] = r.trb[i]
    BY <1>2, <1>5
<1>7. e \in Commands /\ l \in BOOLEAN /\ y \in BOOLEAN
    <2>1. e \in Commands
        BY <1>2, <1>3, PlacesAre
    <2>2. r.link \in BOOLEAN /\ r.cycle \in BOOLEAN
        BY DEF RingTypeOK
    <2> QED BY <1>3, <2>1, <2>2, Zenon
<1>8. RingTypeOK(r2)
    BY <1>2, <1>3, <1>5, <1>6, <1>7 DEF RingTypeOK
<1> QED BY <1>3, <1>4, <1>5, <1>6, <1>8 DEF PutOnly

LEMMA OneSent ==
    ASSUME RingInv(ring, sent), ~overrun', EventsKnown', NEW a, NEW early \in BOOLEAN, Sends(<<a>>, early)
    PROVE  KeepsNamed /\ sent' = Append(sent, a)
<1>0. Places \in Nat \ {0} /\ Commands = 0..(Places - 1) /\ CmdRingSize - 1 = Places
    BY PlacesAre DEF Places
<1>1. RingTypeOK(ring) /\ ring.enq \in Commands
    BY DEF RingInv, RingTypeOK
<1>2. PICK cs : cs = <<a>> /\ Len(cs) = 1 /\ cs[1] = a /\ cs # <<>> /\ Sends(cs, early)
    OBVIOUS
<1>3. ring' = IF early THEN PutEarly(ring, a) ELSE PutCommand(ring, a)
    BY <1>2, Zenon DEF Sends
<1>4. PutOnly(ring, ring', a)
    <2>1. ring.cycle \in BOOLEAN /\ (~ring.cycle) \in BOOLEAN
        BY <1>1 DEF RingTypeOK
    <2> QED BY <1>1, <1>3, <2>1, PutChanges DEF PutEarly, PutCommand
<1>5. ~Unhandled((ring.enq + 1 - 1) % (CmdRingSize - 1))
    <2>1. 1 \in 1..Len(cs)
        BY <1>2
    <2> QED BY <1>2, <2>1 DEF Sends
<1>6. (ring.enq + 1 - 1) % (CmdRingSize - 1) = ring.enq
    BY <1>0, <1>1
<1>7. ~Unhandled(ring.enq)
    BY <1>5, <1>6, Zenon
<1>8. KeepsNamed
    BY <1>4, <1>7 DEF KeepsNamed, Unhandled, PutOnly, EventsKnown, EventFits
<1>9. sent' = Append(sent, a)
    <2>1. PICK S : sent \in Seq(S)
        BY DEF RingInv, CommandsKnown
    <2>2. sent \in Seq(S \cup {a}) /\ a \in S \cup {a}
        BY <2>1
    <2>3. Append(sent, a) = sent \o <<a>>
        BY <2>2, AppendIsConcat
    <2> QED BY <2>3 DEF Sends
<1> QED BY <1>8, <1>9

LEMMA TwoSent ==
    ASSUME RingInv(ring, sent), ~overrun', EventsKnown', NEW a, NEW b, Sends(<<a, b>>, FALSE)
    PROVE  KeepsNamed /\ sent' = Append(Append(sent, a), b)
<1>0. Places \in Nat \ {0} /\ Commands = 0..(Places - 1) /\ CmdRingSize - 1 = Places
    BY PlacesAre DEF Places
<1>1. RingTypeOK(ring) /\ ring.enq \in Commands
    BY DEF RingInv, RingTypeOK
<1>2. PICK cs : cs = <<a, b>> /\ Len(cs) = 2 /\ cs[1] = a /\ cs[2] = b /\ cs # <<>> /\ Sends(cs, FALSE)
    OBVIOUS
<1>3. PICK r1 : r1 = PutCommand(ring, a)
    OBVIOUS
<1>4. ring' = PutCommand(r1, b)
    BY <1>2, <1>3 DEF Sends
<1>5. PutOnly(ring, r1, a) /\ RingTypeOK(r1)
    <2>1. ring.cycle \in BOOLEAN
        BY <1>1 DEF RingTypeOK
    <2> QED BY <1>1, <1>3, <2>1, PutChanges DEF PutCommand
<1>6. PutOnly(r1, ring', b)
    <2>1. r1.cycle \in BOOLEAN
        BY <1>5 DEF RingTypeOK
    <2> QED BY <1>4, <1>5, <2>1, PutChanges DEF PutCommand
<1>7. PICK n, m : n = ring.enq /\ m = r1.enq /\ m = (IF n = Places - 1 THEN 0 ELSE n + 1)
    BY <1>5 DEF PutOnly
<1>8. ~Unhandled((n + 1 - 1) % (CmdRingSize - 1)) /\ ~Unhandled((n + 2 - 1) % (CmdRingSize - 1))
    <2>1. 1 \in 1..Len(cs) /\ 2 \in 1..Len(cs)
        BY <1>2
    <2> QED BY <1>2, <1>7, <2>1 DEF Sends
<1>9. (n + 1 - 1) % (CmdRingSize - 1) = n /\ (n + 2 - 1) % (CmdRingSize - 1) = m
    <2>1. PICK N \in Nat \ {0} : N = Places /\ n \in 0..(N - 1) /\ m = (IF n = N - 1 THEN 0 ELSE n + 1)
        BY <1>0, <1>1, <1>7
    <2>2. n \in 0..(2 * N - 1) /\ n + 1 \in 0..(2 * N - 1)
        BY <2>1
    <2>3. n % N = IF n < N THEN n ELSE n - N
        BY <2>2, OnceRound
    <2>4. (n + 1) % N = IF n + 1 < N THEN n + 1 ELSE n + 1 - N
        <3>1. PICK x : x = n + 1 /\ x \in 0..(2 * N - 1)
            BY <2>2
        <3>2. x % N = IF x < N THEN x ELSE x - N
            BY <3>1, OnceRound
        <3> QED BY <2>1, <3>1, <3>2
    <2>5. n % N = n /\ (n + 1) % N = m
        BY <2>1, <2>3, <2>4
    <2>6. n + 1 - 1 = n /\ n + 2 - 1 = n + 1
        BY <2>1
    <2> QED BY <1>0, <2>1, <2>5, <2>6
<1>10. ~Unhandled(n) /\ ~Unhandled(m)
    BY <1>8, <1>9, Zenon
<1>11. KeepsNamed
    BY <1>5, <1>6, <1>7, <1>10 DEF KeepsNamed, Unhandled, PutOnly, EventsKnown, EventFits
<1>12. sent' = Append(Append(sent, a), b)
    <2>1. PICK S : sent \in Seq(S)
        BY DEF RingInv, CommandsKnown
    <2>2. sent \in Seq(S \cup {a, b}) /\ a \in S \cup {a, b} /\ b \in S \cup {a, b}
        BY <2>1
    <2>3. Append(sent, a) \in Seq(S \cup {a, b})
        BY <2>2
    <2>4. Append(sent, a) = sent \o <<a>> /\ Append(Append(sent, a), b) = Append(sent, a) \o <<b>>
        BY <2>2, <2>3, AppendIsConcat
    <2>5. <<a>> \in Seq(S \cup {a, b}) /\ <<b>> \in Seq(S \cup {a, b})
        BY <2>2
    <2>6. (sent \o <<a>>) \o <<b>> = sent \o (<<a>> \o <<b>>)
        BY <2>2, <2>5, ConcatAssociative
    <2>7. <<a>> \o <<b>> = <<a, b>>
        <3>1. <<a, b>> = Append(<<a>>, b)
            OBVIOUS
        <3> QED BY <2>2, <2>5, <3>1, AppendIsConcat
    <2> QED BY <2>4, <2>6, <2>7 DEF Sends
<1> QED BY <1>11, <1>12

\* The places of the Enable Slots in a queue of commands.
AskPlaces(q) == {k \in 1..Len(q) : q[k].type = "ENABLE_SLOT"}

LEMMA AsksAppended ==
    ASSUME NEW s, IsList(s), NEW c, NEW q, PortsOf(q, s, AskPlaces(s))
    PROVE  /\ IsList(Append(s, c))
           /\ c.type # "ENABLE_SLOT" => PortsOf(q, Append(s, c), AskPlaces(Append(s, c)))
           /\ c.type = "ENABLE_SLOT" /\ c.port \in Ports =>
                PortsOf(Append(q, c.port), Append(s, c), AskPlaces(Append(s, c)))
<1>1. PICK s2 : s2 = Append(s, c)
    OBVIOUS
<1>2. PICK n \in Nat : /\ n = Len(s) /\ IsList(s2) /\ Len(s2) = n + 1 /\ s2[n + 1] = c
                       /\ \A i \in 1..n : s2[i] = s[i]
    <2>1. /\ IsList(s2) /\ Len(s) \in Nat /\ Len(s2) = Len(s) + 1 /\ s2[Len(s) + 1] = c
          /\ \A i \in 1..Len(s) : s2[i] = s[i]
        BY <1>1, ListGrows, Zenon DEF Grown
    <2> QED BY <2>1, Zenon
<1>3. \A i \in 1..(n + 1) : i \in 1..n \/ i = n + 1
    OBVIOUS
<1>4. \A i \in 1..n : i < n + 1 /\ i \in Nat
    OBVIOUS
<1>5. PICK T : T = AskPlaces(s) /\ \A k : k \in T <=> k \in 1..n /\ s[k].type = "ENABLE_SLOT"
    <2>1. \A k : k \in AskPlaces(s) <=> k \in 1..n /\ s[k].type = "ENABLE_SLOT"
        BY <1>2, Zenon DEF AskPlaces
    <2> QED BY <2>1, Zenon
<1>6. ASSUME c.type # "ENABLE_SLOT" PROVE PortsOf(q, s2, AskPlaces(s2))
    <2>1. AskPlaces(s2) = T
        BY <1>2, <1>3, <1>5, <1>6 DEF AskPlaces
    <2>2. \A f : Picks(f, Len(q), T) => \A i \in 1..Len(q) : s2[f[i]] = s[f[i]]
        BY <1>2, <1>5 DEF Picks
    <2> QED BY <1>5, <2>1, <2>2 DEF PortsOf
<1>7. ASSUME c.type = "ENABLE_SLOT", c.port \in Ports PROVE PortsOf(Append(q, c.port), s2, AskPlaces(s2))
    <2>1. AskPlaces(s2) = T \cup {n + 1}
        BY <1>2, <1>3, <1>5, <1>7 DEF AskPlaces
    <2>2. T \subseteq Nat /\ n + 1 \in Nat /\ \A y \in T : y < n + 1 /\ s2[y] = s[y]
        BY <1>2, <1>4, <1>5
    <2>3. PortsOf(q, s, T) /\ s2[n + 1].port = c.port
        BY <1>2, <1>5
    <2>4. PICK x \in Nat : x = n + 1
        BY <2>2
    <2>5. PICK p \in Ports : p = c.port
        BY <1>7
    <2>6. \A y \in T : y < x /\ s2[y] = s[y]
        BY <2>2, <2>4, Zenon
    <2>7. s2[x].port = p
        BY <2>3, <2>4, <2>5, Zenon
    <2>8. PortsOf(Append(q, p), s2, T \cup {x})
        BY <2>2, <2>3, <2>6, <2>7, ListsMore, Zenon
    <2> QED BY <2>1, <2>4, <2>5, <2>8, Zenon
<1> QED BY <1>1, <1>2, <1>6, <1>7

LEMMA SentIsList == ASSUME RingInv(ring, sent) PROVE IsList(sent) /\ SentAsks = AskPlaces(sent)
BY DEF RingInv, CommandsKnown, IsList, SentAsks, AskPlaces

\* Commands that ask for no slot leave the list of those that do as it is.
LEMMA OthersSent ==
    ASSUME RingInv(ring, sent), ~overrun', EventsKnown', NEW cs, NEW early \in BOOLEAN, Sends(cs, early),
           \/ cs = <<>>
           \/ \E a : cs = <<a>> /\ a.type # "ENABLE_SLOT"
           \/ \E a, b : cs = <<a, b>> /\ a.type # "ENABLE_SLOT" /\ b.type # "ENABLE_SLOT" /\ ~early,
           NEW q, PortsOf(q, sent, SentAsks)
    PROVE  KeepsNamed /\ PortsOf(q, sent', SentAsks')
<1>1. IsList(sent) /\ SentAsks = AskPlaces(sent) /\ SentAsks' = AskPlaces(sent')
    BY SentIsList DEF SentAsks, AskPlaces
<1>2. CASE cs = <<>>
    <2>1. ring' = ring /\ sent' = sent \o <<>>
        BY <1>2 DEF Sends
    <2>2. sent \o <<>> = sent
        BY <1>1 DEF IsList
    <2> QED BY <1>1, <2>1, <2>2 DEF KeepsNamed
<1>3. ASSUME NEW a, cs = <<a>>, a.type # "ENABLE_SLOT" PROVE KeepsNamed /\ PortsOf(q, sent', SentAsks')
    <2>1. KeepsNamed /\ sent' = Append(sent, a)
        BY <1>3, OneSent
    <2> QED BY <1>1, <1>3, <2>1, AsksAppended
<1>4. ASSUME NEW a, NEW b, cs = <<a, b>>, a.type # "ENABLE_SLOT", b.type # "ENABLE_SLOT", ~early
      PROVE  KeepsNamed /\ PortsOf(q, sent', SentAsks')
    <2>1. early = FALSE
        BY <1>4
    <2>2. KeepsNamed /\ sent' = Append(Append(sent, a), b)
        BY <1>4, <2>1, TwoSent
    <2>3. IsList(Append(sent, a)) /\ PortsOf(q, Append(sent, a), AskPlaces(Append(sent, a)))
        BY <1>1, <1>4, AsksAppended
    <2> QED BY <1>1, <1>4, <2>2, <2>3, AsksAppended
<1> QED BY <1>2, <1>3, <1>4

\* One that asks for a slot stands behind the others.
LEMMA AskSent ==
    ASSUME RingInv(ring, sent), ~overrun', EventsKnown', NEW p \in Ports, SendEnableSlotCommand(p),
           NEW q, PortsOf(q, sent, SentAsks)
    PROVE  KeepsNamed /\ PortsOf(Append(q, p), sent', SentAsks')
<1>1. IsList(sent) /\ SentAsks = AskPlaces(sent) /\ SentAsks' = AskPlaces(sent')
    BY SentIsList DEF SentAsks, AskPlaces
<1>2. PICK c : c = Command("ENABLE_SLOT", 0, p) /\ c.type = "ENABLE_SLOT" /\ c.port = p /\ Sends(<<c>>, TRUE)
    BY DEF SendEnableSlotCommand, Command
<1>3. KeepsNamed /\ sent' = Append(sent, c)
    BY <1>2, OneSent
<1> QED BY <1>1, <1>2, <1>3, AsksAppended

\* The events a step adds or takes.
LEMMA EventsLeft ==
    ASSUME EventsKnown, events # <<>>, events' = Tail(events)
    PROVE  EventsKnown' /\ EventFits(Head(events)) /\ Head(events) = events[1] /\ 1 \in 1..Len(events)
<1>1. /\ IsList(events') /\ Len(events) \in Nat \ {0} /\ Len(events') = Len(events) - 1
      /\ Head(events) = events[1] /\ \A i \in 1..Len(events') : events'[i] = events[i + 1]
    BY ListFalls DEF EventsKnown
<1>2. ASSUME NEW i \in 1..Len(events') PROVE EventFits(events'[i])
    <2>1. i + 1 \in 1..Len(events) /\ events'[i] = events[i + 1]
        BY <1>1
    <2> QED BY <2>1 DEF EventsKnown
<1>3. 1 \in 1..Len(events)
    BY <1>1
<1> QED BY <1>1, <1>2, <1>3 DEF EventsKnown

LEMMA EventTaken ==
    ASSUME EventsKnown, events # <<>>, events' = Tail(events), KeepsNamed,
           \A k \in EventAsks : events[k].ok, NEW q, PortsOf(q, events, EventAsks)
    PROVE  /\ \A k \in EventAsks' : events'[k].ok
           /\ 1 \in EventAsks => /\ q # <<>> /\ Head(q) = events[1].port
                                 /\ PortsOf(Tail(q), events', EventAsks')
           /\ 1 \notin EventAsks => PortsOf(q, events', EventAsks')
<1>1. /\ Len(events) \in Nat \ {0} /\ Len(events') = Len(events) - 1
      /\ \A i \in 1..Len(events') : events'[i] = events[i + 1]
    BY ListFalls DEF EventsKnown
<1>2. PICK n \in Nat : n + 1 = Len(events) /\ n = Len(events')
    <2>1. PICK L, M : L = Len(events) /\ M = Len(events') /\ L \in Nat \ {0} /\ M = L - 1
        BY <1>1, Zenon
    <2>2. M \in Nat /\ M + 1 = L
        BY <2>1
    <2> QED BY <2>1, <2>2, Zenon
<1>3. \A i \in 1..n : i + 1 \in 1..(n + 1) /\ events'[i] = events[i + 1]
    BY <1>1, <1>2
<1>4. ASSUME NEW i \in 1..n PROVE i \in EventAsks' <=> i + 1 \in EventAsks
    BY <1>2, <1>3 DEF EventAsks, KeepsNamed
<1>5. EventAsks \subseteq Nat \ {0} /\ EventAsks' \subseteq Nat \ {0}
    BY <1>2 DEF EventAsks
<1>6. ASSUME NEW y \in Nat \ {0} PROVE y \in EventAsks' <=> y + 1 \in EventAsks
    <2>1. CASE y \in 1..n
        BY <1>4, <2>1
    <2>2. CASE y \notin 1..n
        <3>1. y + 1 \notin 1..(n + 1)
            BY <2>2
        <3> QED BY <1>2, <2>2, <3>1 DEF EventAsks
    <2> QED BY <2>1, <2>2
<1>7. \A y \in EventAsks' : events'[y] = events[y + 1] /\ y + 1 \in EventAsks
    BY <1>2, <1>3, <1>4 DEF EventAsks
<1>8. PICK T, U, e2 : T = EventAsks /\ U = EventAsks' /\ e2 = events'
    OBVIOUS
<1>9. /\ 1 \in T => q # <<>> /\ Head(q) = events[1].port /\ PortsOf(Tail(q), e2, U)
      /\ 1 \notin T => PortsOf(q, e2, U)
    <2>1. T \subseteq Nat \ {0} /\ U \subseteq Nat \ {0} /\ \A y \in Nat \ {0} : y \in U <=> y + 1 \in T
        BY <1>5, <1>6, <1>8
    <2>2. \A y \in U : e2[y] = events[y + 1]
        BY <1>7, <1>8
    <2>3. PortsOf(q, events, T)
        BY <1>8
    <2> QED BY ONLY <2>1, <2>2, <2>3, ListsLess
<1> QED BY <1>7, <1>8, <1>9

LEMMA EventAdded ==
    ASSUME EventsKnown, NEW x, EventFits(x), events' = Append(events, x), ring'.trb = ring.trb,
           \A k \in EventAsks : events[k].ok, NEW q, PortsOf(q, events, EventAsks),
           NEW asks, asks <=> x.type = "command" /\ ring.trb[x.at].type = "ENABLE_SLOT",
           asks => x.ok /\ x.port \in Ports
    PROVE  /\ EventsKnown' /\ \A k \in EventAsks' : events'[k].ok
           /\ asks => PortsOf(Append(q, x.port), events', EventAsks')
           /\ ~asks => PortsOf(q, events', EventAsks')
<1>1. Grown(events, x, events')
    BY ListGrows DEF EventsKnown
<1>2. PICK n \in Nat : /\ n = Len(events) /\ IsList(events') /\ Len(events') = n + 1 /\ events'[n + 1] = x
                       /\ \A i \in 1..n : events'[i] = events[i]
    BY <1>1, Zenon DEF Grown
<1>3. \A i \in 1..(n + 1) : i \in 1..n \/ i = n + 1
    OBVIOUS
<1>4. \A i \in 1..n : i < n + 1 /\ i \in Nat /\ i \in 1..(n + 1)
    OBVIOUS
<1>5. EventsKnown'
    BY <1>2, <1>3 DEF EventsKnown
<1>6. PICK T : T = EventAsks /\ T \subseteq 1..n
    BY <1>2 DEF EventAsks
<1>7. \A i \in 1..n : i \in EventAsks' <=> i \in T
    BY <1>2, <1>4, <1>6 DEF EventAsks
<1>8. n + 1 \in EventAsks' <=> asks
    <2>1. n + 1 \in 1..(n + 1)
        OBVIOUS
    <2> QED BY <1>2, <2>1 DEF EventAsks
<1>9. \A i \in EventAsks' : i \in 1..(n + 1)
    BY <1>2 DEF EventAsks
<1>10. \A k \in EventAsks' : events'[k].ok
    BY <1>2, <1>3, <1>6, <1>7, <1>8, <1>9
<1>11. ASSUME ~asks PROVE PortsOf(q, events', EventAsks')
    <2>1. EventAsks' = T
        BY <1>3, <1>6, <1>7, <1>8, <1>9, <1>11
    <2>2. \A f : Picks(f, Len(q), T) => \A i \in 1..Len(q) : events'[f[i]] = events[f[i]]
        BY <1>2, <1>6 DEF Picks
    <2>3. PICK f : Picks(f, Len(q), T) /\ \A i \in 1..Len(q) : q[i] = events[f[i]].port
        BY <1>6, Zenon DEF PortsOf
    <2>4. q \in Seq(Ports) /\ \A i \in 1..Len(q) : q[i] = events'[f[i]].port
        BY <1>6, <2>2, <2>3, Zenon DEF PortsOf
    <2> QED BY <2>1, <2>3, <2>4, Zenon DEF PortsOf
<1>12. ASSUME asks PROVE PortsOf(Append(q, x.port), events', EventAsks')
    <2>1. PICK m \in Nat : m = n + 1
        OBVIOUS
    <2>2. PICK p \in Ports : p = x.port
        BY <1>12
    <2>3. EventAsks' = T \cup {m}
        BY <1>3, <1>6, <1>7, <1>8, <1>9, <1>12, <2>1
    <2>4. T \subseteq Nat /\ \A y \in T : y < m /\ events'[y] = events[y]
        BY <1>2, <1>4, <1>6, <2>1
    <2>5. events'[m].port = p
        BY <1>2, <2>1, <2>2
    <2>6. PortsOf(q, events, T)
        BY <1>6
    <2>7. PICK e2 : e2 = events'
        OBVIOUS
    <2>8. PortsOf(Append(q, p), e2, T \cup {m})
        BY <2>4, <2>5, <2>6, <2>7, ListsMore, Zenon
    <2> QED BY <2>2, <2>3, <2>7, <2>8, Zenon
<1> QED BY <1>5, <1>10, <1>11, <1>12

LEMMA EventsSame ==
    ASSUME EventsKnown, events' = events, KeepsNamed
    PROVE  EventsKnown' /\ EventAsks' = EventAsks
BY DEF EventsKnown, EventAsks, KeepsNamed

\* Where the queue of ports is cut in two.
LEMMA CutQueue ==
    ASSUME NEW a \in Seq(Ports), NEW b \in Seq(Ports)
    PROVE  /\ \A p \in Ports : Append(a \o b, p) = a \o Append(b, p)
           /\ a # <<>> => a \o b # <<>> /\ Head(a \o b) = Head(a) /\ Tail(a \o b) = Tail(a) \o b
           /\ b # <<>> => Append(a, Head(b)) \o Tail(b) = a \o b
<1>1. ASSUME NEW p \in Ports PROVE Append(a \o b, p) = a \o Append(b, p)
    <2>1. a \o b \in Seq(Ports) /\ <<p>> \in Seq(Ports)
        OBVIOUS
    <2>2. Append(a \o b, p) = (a \o b) \o <<p>> /\ Append(b, p) = b \o <<p>>
        BY <2>1, AppendIsConcat
    <2> QED BY <2>1, <2>2, ConcatAssociative
<1>2. ASSUME NEW c \in Seq(Ports), c # <<>>
      PROVE  Head(c) \in Ports /\ Tail(c) \in Seq(Ports) /\ c = <<Head(c)>> \o Tail(c)
             /\ <<Head(c)>> \in Seq(Ports)
    <2>1. Head(c) \in Ports /\ Tail(c) \in Seq(Ports) /\ Head(c) = c[1] /\ Len(c) \in Nat \ {0}
        BY <1>2, EmptySeq
    <2>2. 1 \in 1..Len(c) /\ Len(c) \in 1..Len(c)
        BY <2>1
    <2>3. SubSeq(c, 1, Len(c)) = <<c[1]>> \o SubSeq(c, 1 + 1, Len(c))
        BY <2>2, SubSeqRecursiveFirst
    <2>4. SubSeq(c, 1, Len(c)) = c /\ Tail(c) = SubSeq(c, 2, Len(c))
        BY <1>2, SubSeqFull, TailIsSubSeq
    <2> QED BY <2>1, <2>3, <2>4
<1>3. ASSUME a # <<>> PROVE a \o b # <<>> /\ Head(a \o b) = Head(a) /\ Tail(a \o b) = Tail(a) \o b
    <2>1. PICK c : c = a \o b
        OBVIOUS
    <2>2. PICK n \in Nat, m \in Nat : n = Len(a) /\ m = Len(b) /\ n # 0
        BY <1>3, EmptySeq
    <2>3. c \in Seq(Ports) /\ Len(c) = n + m
          /\ \A i \in 1..(n + m) : c[i] = IF i <= n THEN a[i] ELSE b[i - n]
        BY <2>1, <2>2, ConcatProperties
    <2>4. c # <<>> /\ Head(c) = c[1] /\ Head(a) = a[1]
        BY <1>3, <2>2, <2>3
    <2>5. c[1] = a[1]
        BY <2>2, <2>3
    <2>6. PICK t, d : t = Tail(a) /\ d = Tail(c)
        OBVIOUS
    <2>7. t \in Seq(Ports) /\ Len(t) = n - 1 /\ \A i \in 1..(n - 1) : t[i] = a[i + 1]
        BY <1>3, <2>2, <2>6, HeadTailProperties
    <2>8. d \in Seq(Ports) /\ Len(d) = n + m - 1 /\ \A i \in 1..(n + m - 1) : d[i] = c[i + 1]
        BY <2>3, <2>4, <2>6, HeadTailProperties
    <2>9. PICK u : u = t \o b
        OBVIOUS
    <2>10. u \in Seq(Ports) /\ Len(u) = (n - 1) + m
           /\ \A i \in 1..((n - 1) + m) : u[i] = IF i <= n - 1 THEN t[i] ELSE b[i - (n - 1)]
        <3>1. PICK l : l = n - 1 /\ l = Len(t) /\ l \in Nat
            BY <2>2, <2>7
        <3>2. u \in Seq(Ports) /\ Len(u) = l + m
              /\ \A i \in 1..(l + m) : u[i] = IF i <= l THEN t[i] ELSE b[i - l]
            BY <2>2, <2>7, <2>9, <3>1, ConcatProperties
        <3> QED BY <3>1, <3>2, Zenon
    <2>11. ASSUME NEW i \in 1..(n + m - 1) PROVE d[i] = u[i]
        <3>1. i + 1 \in 1..(n + m) /\ i \in 1..((n - 1) + m) /\ (i + 1 <= n <=> i <= n - 1)
              /\ (i + 1) - n = i - (n - 1)
            OBVIOUS
        <3>2. d[i] = IF i + 1 <= n THEN a[i + 1] ELSE b[(i + 1) - n]
            BY <2>3, <2>8, <3>1
        <3>3. u[i] = IF i <= n - 1 THEN t[i] ELSE b[i - (n - 1)]
            BY <2>10, <3>1
        <3>4. i <= n - 1 => t[i] = a[i + 1]
            BY <2>7
        <3> QED BY <3>1, <3>2, <3>3, <3>4
    <2>12. Len(d) = Len(u) /\ Len(d) = n + m - 1
        BY <2>8, <2>10
    <2>13. d = u
        BY <2>8, <2>10, <2>11, <2>12, SeqEqual
    <2> QED BY <2>1, <2>4, <2>5, <2>6, <2>9, <2>13
<1>4. ASSUME b # <<>> PROVE Append(a, Head(b)) \o Tail(b) = a \o b
    <2>1. Head(b) \in Ports /\ Tail(b) \in Seq(Ports) /\ b = <<Head(b)>> \o Tail(b) /\ <<Head(b)>> \in Seq(Ports)
        BY <1>2, <1>4
    <2>2. Append(a, Head(b)) = a \o <<Head(b)>>
        BY <2>1, AppendIsConcat
    <2> QED BY <2>1, <2>2, ConcatAssociative
<1> QED BY <1>1, <1>3, <1>4

\* Commands that ask for no slot, or none.
SendsOthers ==
    \/ SendsNothing
    \/ \E cs : \E early \in BOOLEAN :
          /\ Sends(cs, early)
          /\ \/ cs = <<>>
             \/ \E a : cs = <<a>> /\ a.type # "ENABLE_SLOT"
             \/ \E a, b : cs = <<a, b>> /\ a.type # "ENABLE_SLOT" /\ b.type # "ENABLE_SLOT" /\ ~early

LEMMA OthersAreSent ==
    ASSUME RingInv(ring, sent), ~overrun', EventsKnown', SendsOthers, NEW q, PortsOf(q, sent, SentAsks)
    PROVE  KeepsNamed /\ PortsOf(q, sent', SentAsks')
<1>1. CASE SendsNothing
    BY <1>1, NothingSent
<1>2. ASSUME NEW cs, NEW early \in BOOLEAN, Sends(cs, early),
             \/ cs = <<>>
             \/ \E a : cs = <<a>> /\ a.type # "ENABLE_SLOT"
             \/ \E a, b : cs = <<a, b>> /\ a.type # "ENABLE_SLOT" /\ b.type # "ENABLE_SLOT" /\ ~early
      PROVE  KeepsNamed /\ PortsOf(q, sent', SentAsks')
    BY <1>2, OthersSent
<1> QED BY <1>1, <1>2 DEF SendsOthers

\* What the driver does to the queue of ports besides giving out a slot.
DriverAsks(p) == QueuePort(p) /\ SendEnableSlotCommand(p)
DriverGoesOn == UNCHANGED enableQ /\ SendsOthers

LEMMA QueueFollows ==
    ASSUME RingInv(ring, sent), ~overrun', EventsKnown',
           DriverGoesOn \/ \E p \in Ports : DriverAsks(p),
           NEW q1, NEW q2, q1 \in Seq(Ports), enableQ = q1 \o q2, PortsOf(q2, sent, SentAsks)
    PROVE  KeepsNamed /\ \E q3 : enableQ' = q1 \o q3 /\ PortsOf(q3, sent', SentAsks')
<1>1. CASE DriverGoesOn
    BY <1>1, OthersAreSent DEF DriverGoesOn
<1>2. ASSUME NEW p \in Ports, DriverAsks(p)
      PROVE  KeepsNamed /\ enableQ' = q1 \o Append(q2, p) /\ PortsOf(Append(q2, p), sent', SentAsks')
    <2>1. KeepsNamed /\ PortsOf(Append(q2, p), sent', SentAsks')
        BY <1>2, AskSent DEF DriverAsks
    <2>2. q2 \in Seq(Ports)
        BY DEF PortsOf
    <2>3. Append(q1 \o q2, p) = q1 \o Append(q2, p)
        BY <2>2, CutQueue
    <2> QED BY <1>2, <2>1, <2>3 DEF DriverAsks, QueuePort
<1> QED BY <1>1, <1>2

LEMMA NeverForgotten ==
    ASSUME ~overrun', SendsOthers \/ \E p : SendEnableSlotCommand(p)
    PROVE  ~overrun
BY DEF SendsOthers, SendsNothing, Sends, SendEnableSlotCommand

\* The driver works on without an event.
LEMMA DriverKeepsAskers ==
    ASSUME XhciInv, AskersKnown, ~overrun, ~overrun', UNCHANGED <<events, mismatch>>,
           DriverGoesOn \/ \E p \in Ports : DriverAsks(p)
    PROVE  AskersKnown'
<1>1. RingInv(ring, sent)
    BY DEF XhciInv
<1>2. EventsKnown'
    BY DEF AskersKnown, EventsKnown
<1>3. PICK q1, q2 : enableQ = q1 \o q2 /\ PortsOf(q1, events, EventAsks) /\ PortsOf(q2, sent, SentAsks)
    BY DEF AskersKnown
<1>4. q1 \in Seq(Ports)
    BY <1>3 DEF PortsOf
<1>5. KeepsNamed /\ \E q3 : enableQ' = q1 \o q3 /\ PortsOf(q3, sent', SentAsks')
    BY <1>1, <1>2, <1>3, <1>4, QueueFollows
<1>6. EventAsks' = EventAsks
    BY <1>5, EventsSame DEF AskersKnown
<1> QED BY <1>2, <1>3, <1>5, <1>6 DEF AskersKnown

\* It handles an event that answers no Enable Slot.
LEMMA HandlingKeepsAskers ==
    ASSUME XhciInv, AskersKnown, ~overrun, ~overrun', events # <<>>, events' = Tail(events),
           mismatch' = mismatch, 1 \notin EventAsks,
           DriverGoesOn \/ \E p \in Ports : DriverAsks(p)
    PROVE  AskersKnown'
<1>1. RingInv(ring, sent)
    BY DEF XhciInv
<1>2. EventsKnown'
    BY EventsLeft DEF AskersKnown
<1>3. PICK q1, q2 : enableQ = q1 \o q2 /\ PortsOf(q1, events, EventAsks) /\ PortsOf(q2, sent, SentAsks)
    BY DEF AskersKnown
<1>4. q1 \in Seq(Ports)
    BY <1>3 DEF PortsOf
<1>5. KeepsNamed /\ \E q3 : enableQ' = q1 \o q3 /\ PortsOf(q3, sent', SentAsks')
    BY <1>1, <1>2, <1>3, <1>4, QueueFollows
<1>6. (\A k \in EventAsks' : events'[k].ok) /\ PortsOf(q1, events', EventAsks')
    BY <1>3, <1>5, EventTaken DEF AskersKnown
<1> QED BY <1>2, <1>5, <1>6 DEF AskersKnown

\* It handles one that does: the port at the head of the queue is the one that asked.
LEMMA GivingKeepsAskers ==
    ASSUME XhciInv, AskersKnown, ~overrun, ~overrun', events # <<>>, events' = Tail(events),
           1 \in EventAsks, SlotEnabled(events[1].slot, events[1].port)
    PROVE  AskersKnown'
<1>1. RingInv(ring, sent)
    BY DEF XhciInv
<1>2. EventsKnown'
    BY EventsLeft DEF AskersKnown
<1>3. PICK q1, q2 : enableQ = q1 \o q2 /\ PortsOf(q1, events, EventAsks) /\ PortsOf(q2, sent, SentAsks)
    BY DEF AskersKnown
<1>4. SendsOthers
    <2>1. CASE SendsNothing
        BY <2>1 DEF SendsOthers
    <2>2. ASSUME NEW s, NEW p, SetupAddressDevice(s, p) PROVE SendsOthers
        <3>1. PICK a : a = Command("ADDRESS_DEVICE", s, p) /\ a.type # "ENABLE_SLOT" /\ Sends(<<a>>, FALSE)
            BY <2>2 DEF SetupAddressDevice, Command
        <3> QED BY <3>1 DEF SendsOthers
    <2> QED BY <2>1, <2>2 DEF SlotEnabled
<1>5. KeepsNamed /\ PortsOf(q2, sent', SentAsks')
    BY <1>1, <1>2, <1>3, <1>4, OthersAreSent
<1>6. /\ \A k \in EventAsks' : events'[k].ok
      /\ q1 # <<>> /\ Head(q1) = events[1].port /\ PortsOf(Tail(q1), events', EventAsks')
    BY <1>3, <1>5, EventTaken DEF AskersKnown
<1>7. enableQ # <<>> /\ Head(enableQ) = events[1].port /\ Tail(enableQ) = Tail(q1) \o q2
    <2>1. q1 \in Seq(Ports) /\ q2 \in Seq(Ports)
        BY <1>3 DEF PortsOf
    <2> QED BY <1>3, <1>6, <2>1, CutQueue
<1>8. enableQ' = Tail(q1) \o q2 /\ ~mismatch'
    <2>1. enableQ' = Tail(enableQ) /\ mismatch' = (mismatch \/ Head(enableQ) # events[1].port)
        BY <1>7 DEF SlotEnabled
    <2> QED BY <1>7, <2>1 DEF AskersKnown
<1> QED BY <1>2, <1>5, <1>6, <1>8 DEF AskersKnown

\* The controller executes the oldest command: an Enable Slot passes from the
\* commands to the events.
LEMMA ExecuteKeepsAskers ==
    ASSUME XhciInv, AskersKnown, ~overrun, ~exhausted', NEW ok \in BOOLEAN, Execute(ok)
    PROVE  AskersKnown'
<1>1. RingInv(ring, sent) /\ CanExecute
    BY DEF XhciInv, Execute
<1>2. PICK at, c : /\ at = Follows.at /\ at \in Commands /\ c = ring.trb[at] /\ sent # <<>>
                   /\ c.type = sent[1].type /\ c.port = sent[1].port
    BY <1>1, ControllerAhead
<1>3. PICK s, x : /\ x = [type |-> "command", at |-> at, ok |-> ok, slot |-> s, port |-> c.port]
                  /\ events' = Append(events, x) /\ sent' = Tail(sent)
                  /\ exhausted' = (exhausted \/ (c.type = "ENABLE_SLOT" /\ ~ok))
                  /\ UNCHANGED <<enableQ, mismatch>>
    BY <1>2 DEF Execute
<1>4. /\ x.type = "command" /\ x.at = at /\ x.ok = ok /\ x.port = c.port /\ EventFits(x)
      /\ ring.trb[x.at] = c
    BY <1>2, <1>3 DEF EventFits
<1>5. ring'.trb = ring.trb
    BY <1>1 DEF Execute, RingInv, RingTypeOK
<1>6. PICK q1, q2 : enableQ = q1 \o q2 /\ PortsOf(q1, events, EventAsks) /\ PortsOf(q2, sent, SentAsks)
    BY DEF AskersKnown
<1>7. /\ 1 \in SentAsks => q2 # <<>> /\ Head(q2) = sent[1].port /\ PortsOf(Tail(q2), sent', SentAsks')
      /\ 1 \notin SentAsks => PortsOf(q2, sent', SentAsks')
    <2>1. IsList(sent)
        BY <1>1, SentIsList
    <2>2. /\ Len(sent) \in Nat \ {0} /\ Len(sent') = Len(sent) - 1
          /\ \A i \in 1..Len(sent') : sent'[i] = sent[i + 1]
        BY <1>2, <1>3, <2>1, ListFalls
    <2>3. PICK n \in Nat : n + 1 = Len(sent) /\ n = Len(sent')
        <3>1. PICK L, M : L = Len(sent) /\ M = Len(sent') /\ L \in Nat \ {0} /\ M = L - 1
            BY <2>2, Zenon
        <3>2. M \in Nat /\ M + 1 = L
            BY <3>1
        <3> QED BY <3>1, <3>2, Zenon
    <2>4. \A i \in 1..n : i + 1 \in 1..(n + 1) /\ sent'[i] = sent[i + 1]
        BY <2>2, <2>3
    <2>5. SentAsks \subseteq Nat \ {0} /\ SentAsks' \subseteq Nat \ {0}
        BY <2>3 DEF SentAsks
    <2>6. ASSUME NEW y \in Nat \ {0} PROVE y \in SentAsks' <=> y + 1 \in SentAsks
        <3>1. CASE y \in 1..n
            BY <2>3, <2>4, <3>1 DEF SentAsks
        <3>2. CASE y \notin 1..n
            <4>1. y + 1 \notin 1..(n + 1)
                BY <3>2
            <4> QED BY <2>3, <3>2, <4>1 DEF SentAsks
        <3> QED BY <3>1, <3>2
    <2>7. PICK T, U, e, e2 : T = SentAsks /\ U = SentAsks' /\ e = sent /\ e2 = sent'
        OBVIOUS
    <2>8. T \subseteq Nat \ {0} /\ U \subseteq Nat \ {0} /\ \A y \in Nat \ {0} : y \in U <=> y + 1 \in T
        BY <2>5, <2>6, <2>7
    <2>9. \A y \in U : e2[y] = e[y + 1]
        BY <2>3, <2>4, <2>7 DEF SentAsks
    <2>10. PortsOf(q2, e, T)
        BY <1>6, <2>7
    <2>11. /\ 1 \in T => q2 # <<>> /\ Head(q2) = e[1].port /\ PortsOf(Tail(q2), e2, U)
           /\ 1 \notin T => PortsOf(q2, e2, U)
        BY ONLY <2>8, <2>9, <2>10, ListsLess
    <2> QED BY <2>7, <2>11
<1>8. 1 \in SentAsks <=> c.type = "ENABLE_SLOT"
    <2>1. 1 \in 1..Len(sent)
        <3>1. Len(sent) \in Nat \ {0}
            BY <1>1, <1>2, SentIsList, ListFalls
        <3> QED BY <3>1
    <2> QED BY <1>2, <2>1 DEF SentAsks
<1>9. q1 \in Seq(Ports) /\ q2 \in Seq(Ports)
    BY <1>6 DEF PortsOf
<1>10. PICK asks : asks <=> c.type = "ENABLE_SLOT"
    OBVIOUS
<1>11. asks => x.ok /\ x.port \in Ports /\ x.port = Head(q2)
    <2>1. ASSUME c.type = "ENABLE_SLOT" PROVE x.ok /\ x.port = Head(q2) /\ Head(q2) \in Ports
        <3>1. ok
            BY <1>3, <2>1
        <3>2. x.ok
            BY <1>4, <3>1
        <3>3. q2 # <<>> /\ Head(q2) = x.port
            BY <1>2, <1>4, <1>7, <1>8, <2>1
        <3> QED BY <1>9, <3>2, <3>3
    <2> QED BY <1>10, <2>1
<1>12. asks <=> x.type = "command" /\ ring.trb[x.at].type = "ENABLE_SLOT"
    BY <1>4, <1>10
<1>13. /\ EventsKnown' /\ \A k \in EventAsks' : events'[k].ok
       /\ asks => PortsOf(Append(q1, x.port), events', EventAsks')
       /\ ~asks => PortsOf(q1, events', EventAsks')
    BY <1>3, <1>4, <1>5, <1>6, <1>11, <1>12, EventAdded DEF AskersKnown
<1>14. CASE asks
    <2>1. PortsOf(Append(q1, Head(q2)), events', EventAsks') /\ PortsOf(Tail(q2), sent', SentAsks') /\ q2 # <<>>
        BY <1>7, <1>8, <1>10, <1>11, <1>13, <1>14
    <2>2. enableQ' = Append(q1, Head(q2)) \o Tail(q2)
        BY <1>3, <1>6, <1>9, <2>1, CutQueue
    <2> QED BY <1>3, <1>13, <2>1, <2>2 DEF AskersKnown
<1>15. CASE ~asks
    <2>1. PortsOf(q1, events', EventAsks') /\ PortsOf(q2, sent', SentAsks')
        BY <1>7, <1>8, <1>10, <1>13, <1>15
    <2> QED BY <1>3, <1>6, <1>13, <2>1 DEF AskersKnown
<1> QED BY <1>14, <1>15

\* A change of a port or the end of a transfer.
LEMMA NewsKeepsAskers ==
    ASSUME AskersKnown, NEW x, EventFits(x), x.type # "command",
           events' = Append(events, x), UNCHANGED <<ring, sent, enableQ, mismatch>>
    PROVE  AskersKnown'
<1>1. PICK q1, q2 : enableQ = q1 \o q2 /\ PortsOf(q1, events, EventAsks) /\ PortsOf(q2, sent, SentAsks)
    BY DEF AskersKnown
<1>2. EventsKnown' /\ (\A k \in EventAsks' : events'[k].ok) /\ PortsOf(q1, events', EventAsks')
    <2>1. PICK asks : asks <=> FALSE
        OBVIOUS
    <2>2. asks <=> x.type = "command" /\ ring.trb[x.at].type = "ENABLE_SLOT"
        BY <2>1
    <2>3. ring'.trb = ring.trb
        OBVIOUS
    <2> QED BY <1>1, <2>1, <2>2, <2>3, EventAdded DEF AskersKnown
<1>3. PortsOf(q2, sent', SentAsks')
    BY <1>1 DEF SentAsks
<1> QED BY <1>1, <1>2, <1>3 DEF AskersKnown

LEMMA NothingKeepsAskers ==
    ASSUME AskersKnown, UNCHANGED <<events, ring, sent, enableQ, mismatch>>
    PROVE  AskersKnown'
BY DEF AskersKnown, EventsKnown, EventAsks, SentAsks

LEMMA SlotInitially == XhciInit => SlotInv
<1> SUFFICES ASSUME XhciInit PROVE AskersKnown
    BY DEF SlotInv
<1>1. enableQ = <<>> /\ events = <<>> /\ sent = <<>> /\ ~mismatch
    BY DEF XhciInit
<1>2. EventsKnown
    BY <1>1 DEF EventsKnown, IsList
<1>3. EventAsks = {} /\ SentAsks = {}
    BY <1>1 DEF EventAsks, SentAsks
<1>4. \A e : PortsOf(<<>>, e, {})
    <2>1. Picks(<<>>, 0, {})
        BY DEF Picks
    <2> QED BY <2>1 DEF PortsOf
<1>5. enableQ = <<>> \o <<>>
    BY <1>1
<1> QED BY <1>1, <1>2, <1>3, <1>4, <1>5 DEF AskersKnown

LEMMA SlotStep == XhciInv /\ SlotInv /\ [XhciNext]_xhciVars => SlotInv'
<1> SUFFICES ASSUME XhciInv, SlotInv, [XhciNext]_xhciVars, ~exhausted', ~overrun' PROVE AskersKnown'
    BY DEF SlotInv
<1>0. ASSUME ~exhausted, ~overrun PROVE AskersKnown
    BY <1>0 DEF SlotInv
<1>1. ASSUME SendsNothing PROVE SendsOthers /\ ~overrun
    BY <1>1 DEF SendsNothing, SendsOthers
<1>2. ASSUME NEW t, t # "ENABLE_SLOT", NEW s, NEW p, NEW early \in BOOLEAN, Sends(<<Command(t, s, p)>>, early)
      PROVE  SendsOthers /\ ~overrun
    <2>1. PICK a : a = Command(t, s, p) /\ a.type # "ENABLE_SLOT" /\ Sends(<<a>>, early)
        BY <1>2 DEF Command
    <2> QED BY <2>1 DEF SendsOthers, Sends
<1>3. ASSUME NEW p, SendEnableSlotCommand(p) PROVE ~overrun
    BY <1>3, NeverForgotten
<1>4. CASE InitializePort
    <2>1. /\ UNCHANGED <<events, mismatch>> /\ ~exhausted
          /\ DriverGoesOn \/ \E p \in Ports : DriverAsks(p)
          /\ ~overrun
        BY <1>1, <1>3, <1>4 DEF InitializePort, DriverGoesOn, DriverAsks
    <2> QED BY <1>0, <2>1, DriverKeepsAskers
<1>5. CASE SendNOOPCommand
    <2>1. UNCHANGED <<events, mismatch>> /\ ~exhausted /\ DriverGoesOn /\ ~overrun
        BY <1>2, <1>5 DEF SendNOOPCommand, DriverGoesOn
    <2> QED BY <1>0, <2>1, DriverKeepsAskers
<1>6. CASE ProcessEvent
    <2>1. events # <<>> /\ events' = Tail(events) /\ ~overrun /\ ~exhausted /\ AskersKnown
        BY <1>0, <1>6 DEF ProcessEvent
    <2>2. PICK e : e = Head(events) /\ e = events[1] /\ EventFits(e) /\ 1 \in 1..Len(events)
        BY <2>1, EventsLeft DEF AskersKnown
    <2>3. 1 \in EventAsks <=> e.type = "command" /\ ring.trb[e.at].type = "ENABLE_SLOT"
        BY <2>2 DEF EventAsks
    <2>4. CASE e.type = "port" /\ HandlePortStatusChange(e.port)
        <3>1. mismatch' = mismatch /\ e.port \in Ports
            BY <2>2, <2>4 DEF HandlePortStatusChange, EventFits
        <3>2. DriverGoesOn \/ DriverAsks(e.port)
            <4>1. ASSUME NEW p, ConnectChange(p) PROVE DriverGoesOn \/ DriverAsks(p)
                BY <1>1, <1>2, <4>1 DEF ConnectChange, DriverGoesOn, DriverAsks
            <4>2. ASSUME NEW p, ResetChange(p) PROVE DriverGoesOn \/ DriverAsks(p)
                BY <1>1, <4>2 DEF ResetChange, DriverGoesOn, DriverAsks
            <4> QED BY <1>1, <2>4, <4>1, <4>2 DEF HandlePortStatusChange, DriverGoesOn
        <3> QED BY <2>1, <2>3, <2>4, <3>1, <3>2, HandlingKeepsAskers
    <2>5. CASE e.type = "command" /\ CommandCompletes(e)
        <3>1. CASE ring.trb[e.at].type = "ENABLE_SLOT"
            <4>1. e.ok
                BY <2>1, <2>2, <2>3, <2>5, <3>1 DEF AskersKnown
            <4>2. SlotEnabled(e.slot, e.port)
                BY <2>5, <3>1, <4>1 DEF CommandCompletes
            <4> QED BY <2>1, <2>2, <2>3, <2>5, <3>1, <4>2, GivingKeepsAskers
        <3>2. CASE ring.trb[e.at].type # "ENABLE_SLOT"
            <4>1. SendsNothing /\ KeepsPorts
                BY <2>5, <3>2 DEF CommandCompletes
            <4>2. mismatch' = mismatch /\ DriverGoesOn
                BY <1>1, <4>1 DEF KeepsPorts, DriverGoesOn
            <4> QED BY <2>1, <2>3, <3>2, <4>2, HandlingKeepsAskers
        <3> QED BY <3>1, <3>2
    <2>6. CASE e.type = "transfer" /\ TransferCompletes(e)
        <3>1. ASSUME NEW s, FindClassAndEndpoint(s) PROVE SendsOthers
            <4>1. PICK a : a = ConfigureEndpoint(s)
                OBVIOUS
            <4>2. PICK cs : Sends(cs, FALSE) /\ (cs = <<>> \/ cs = <<a>> \/ cs = <<a, a>>)
                BY <3>1, <4>1 DEF FindClassAndEndpoint
            <4>3. a.type # "ENABLE_SLOT"
                BY <4>1 DEF ConfigureEndpoint, Command
            <4> QED BY <4>2, <4>3 DEF SendsOthers
        <3>2. mismatch' = mismatch /\ DriverGoesOn
            BY <1>1, <2>6, <3>1 DEF TransferCompletes, KeepsPorts, DriverGoesOn
        <3> QED BY <2>1, <2>3, <2>6, <3>2, HandlingKeepsAskers
    <2> QED BY <1>6, <2>2, <2>4, <2>5, <2>6 DEF ProcessEvent
<1>7. ASSUME KeepsDriver, exhausted' = exhausted PROVE AskersKnown /\ UNCHANGED <<ring, sent, enableQ, mismatch>>
    BY <1>0, <1>7 DEF KeepsDriver
<1>8. ASSUME NEW p \in Ports, NEW bit, Raise(p, bit), KeepsDriver, exhausted' = exhausted PROVE AskersKnown'
    <2>0. PICK x : x = [type |-> "port", port |-> p]
        OBVIOUS
    <2>1. EventFits(x) /\ x.type # "command"
        BY <2>0 DEF EventFits
    <2>2. CASE events' = Append(events, x)
        BY <1>7, <1>8, <2>1, <2>2, NewsKeepsAskers
    <2>3. CASE events' = events
        BY <1>7, <1>8, <2>3, NothingKeepsAskers
    <2> QED BY <1>8, <2>0, <2>2, <2>3 DEF Raise
<1>9. ASSUME NEW p \in Ports, NEW k, NEW on, Plug(p, k, on) \/ Unplug(p) \/ ResetEnds(p, on) PROVE AskersKnown'
    BY <1>8, <1>9 DEF Plug, Unplug, ResetEnds
<1>10. ASSUME NEW ok \in BOOLEAN, Execute(ok) PROVE AskersKnown'
    <2>1. ~overrun /\ ~exhausted
        BY <1>10 DEF Execute
    <2> QED BY <1>0, <1>10, <2>1, ExecuteKeepsAskers
<1>11. ASSUME NEW s, NEW ep, NEW code, TransferEnds(s, ep, code) PROVE AskersKnown'
    <2>0. PICK x : x = [type |-> "transfer", slot |-> s, ep |-> ep, code |-> code]
        OBVIOUS
    <2>1. EventFits(x) /\ x.type # "command"
        BY <2>0 DEF EventFits
    <2>2. events' = Append(events, x) /\ KeepsDriver /\ exhausted' = exhausted
        BY <1>11, <2>0 DEF TransferEnds
    <2> QED BY <1>7, <2>1, <2>2, NewsKeepsAskers
<1>12. CASE UNCHANGED xhciVars
    BY <1>0, <1>12, NothingKeepsAskers DEF xhciVars, xhciHistory
<1> QED BY <1>4, <1>5, <1>6, <1>9, <1>10, <1>11, <1>12 DEF XhciNext

\* For any number of ports, slots and commands under way, whatever the order of
\* plugging, resets and answers: until an Enable Slot fails, the slot it returns is
\* given to the port it was sent for.
THEOREM SlotsReachTheirPorts == XhciSpec => []SlotsGoToTheirPorts
<1>1. SlotInv => SlotsGoToTheirPorts
    BY DEF SlotInv, AskersKnown, SlotsGoToTheirPorts
<1> QED BY <1>1, RingInitially, RingStep, SlotInitially, SlotStep, PTL DEF XhciSpec
-----------------------------------------------------------------------------
(***************************************************************************)
(* The AHCI driver.  While nobody goes on before the lock is handed over   *)
(* and no flush overlaps a transfer, one task at a time is in a command:   *)
(* the tasks past Acquire are the owner of the lock and its waiters.       *)
(***************************************************************************)
PortTypeOK ==
    /\ io \in [Tasks -> [at : {"out", "in", "ready", "blocked", "issued"}, slot : SlotNumbers, flush : BOOLEAN]]
    /\ portWait \in Tasks \cup {NoTask}
    /\ state \in [Tasks -> {"NONE", "READY", "RUNNING", "BLOCKED"}]
    /\ LockState /\ QueueTypes

\* Who waits for the lock has only asked for it; who is past Acquire and does not
\* wait is its owner.
InTurn(t) ==
    /\ InQueue(t) => io[t].at = "in"
    /\ ~InQueue(t) /\ (io[t].at = "in" \/ (InCommand(t) /\ ~io[t].flush)) => owner[PortLock] = t
PortTurns == LinksExact /\ \A t \in Tasks : InTurn(t)

OneInCommand == \A t, u \in Tasks : InCommand(t) /\ InCommand(u) => t = u
IssuedIsKnown == \A t \in Tasks : io[t].at = "issued" => io[t].slot \in ci \cup ended

\* A task that has enlisted itself has not been switched out, or it is stranded;
\* once its command is issued the port has its name until it is queued.
EnlistedIsHere ==
    \A t \in Tasks \ stranded : io[t].at = "blocked" =>
        current = t /\ state[t] = "BLOCKED" /\ (portWait = t \/ t \in runq)
IssuedIsFound ==
    \A t \in Tasks \ stranded : io[t].at = "issued" /\ state[t] = "BLOCKED" /\ t \notin runq =>
        portWait = t /\ (io[t].slot \in ci \/ "D2H" \in is)

PortCommands == OneInCommand /\ IssuedIsKnown /\ ~wrongly
PortWaiters == EnlistedIsHere /\ IssuedIsFound

AhciInv ==
    /\ PortTypeOK
    /\ ~slippedIn => PortTurns
    /\ ~slippedIn /\ ~overlaid => PortCommands
    /\ ~corrupt /\ ~slippedIn /\ ~overlaid /\ ~halted => PortWaiters

\* A step that leaves the lock alone and every task in its place or further into its
\* command.
LEMMA TurnsStay ==
    ASSUME PortTurns, UNCHANGED <<wl, mutexVars>>,
           \A t \in Tasks : io'[t] = io[t] \/ (io[t].at # "in" /\ io'[t].at = "out")
                              \/ (InCommand(t) /\ InCommand(t)' /\ io'[t].flush = io[t].flush)
    PROVE  PortTurns'
<1>1. UNCHANGED <<wl, queue, rejoined, owner>>
    BY DEF mutexVars
<1>2. \A t \in Tasks : InQueue(t)' <=> InQueue(t)
    BY <1>1 DEF InQueue
<1>3. LinksExact'
    BY <1>1, LinksStay DEF PortTurns
<1>4. ASSUME NEW t \in Tasks PROVE InTurn(t)'
    BY <1>1, <1>2, <1>4 DEF PortTurns, InTurn, InCommand
<1> QED BY <1>3, <1>4 DEF PortTurns

\* The owner of the lock gives it back and leaves.
LEMMA LeavingKeepsTurns ==
    ASSUME PortTypeOK, PortTurns, NEW t \in Tasks, ~InQueue(t), owner[PortLock] = t,
           Release(t, PortLock), io' = [io EXCEPT ![t].at = "out"]
    PROVE  PortTurns'
<1>1. t \in Contenders /\ PortLock \in Locks
    BY AhciAssumption
<1>2. LinksExact' /\ (NobodyLeaves \/ \E h : LeavesFor(h, PortLock))
    BY <1>1, ReleaseLeaves DEF PortTypeOK, PortTurns
<1>3. io'[t].at = "out" /\ \A u \in Tasks \ {t} : io'[u] = io[u]
    BY DEF PortTypeOK
<1>4. ASSUME NEW u \in Tasks PROVE InTurn(u)'
    <2>1. CASE u = t
        BY <1>2, <1>3, <2>1 DEF PortTurns, InTurn, InCommand, NobodyLeaves, LeavesFor
    <2>2. CASE u # t
        BY <1>2, <1>3, <2>2 DEF PortTurns, InTurn, InCommand, NobodyLeaves, LeavesFor
    <2> QED BY <2>1, <2>2
<1> QED BY <1>2, <1>4 DEF PortTurns

\* A step outside the commands.
LEMMA CommandsStay ==
    ASSUME PortTypeOK, io' \in [Tasks -> [at : {"out", "in", "ready", "blocked", "issued"}, slot : SlotNumbers, flush : BOOLEAN]],
           \A t \in Tasks : io'[t] = io[t] \/ ~InCommand(t)',
           UNCHANGED <<ci, is, portWait, ended, stranded, wrongly>>, runq \subseteq runq', current' = current,
           \A t \in Tasks : state'[t] = state[t] \/ ~InCommand(t)
    PROVE  (PortCommands => PortCommands') /\ (PortWaiters => PortWaiters')
<1>1. PortCommands => PortCommands'
    BY DEF PortCommands, OneInCommand, IssuedIsKnown, InCommand
<1>2. ASSUME PortWaiters PROVE PortWaiters'
    BY <1>2 DEF PortWaiters, EnlistedIsHere, IssuedIsFound, InCommand
<1> QED BY <1>1, <1>2

LEMMA LockKeepsPort ==
    ASSUME AhciInv, NEW t \in Tasks, LockPort(t)
    PROVE  AhciInv'
<1>1. /\ io[t].at = "out" /\ io' = [io EXCEPT ![t].at = "in"] /\ Acquire(t, PortLock) /\ ~corrupt
      /\ UNCHANGED <<ci, is, halted, portWait, slippedIn, ended, overlaid, stranded, wrongly>>
    BY DEF LockPort, Where, Running, Moves, portVars, ahciHistory
<1>2. t \in Contenders /\ PortLock \in Locks
    BY AhciAssumption
<1>3. LockState' /\ QueueTypes'
    BY <1>1, <1>2, LockTypesStay DEF AhciInv, PortTypeOK
<1>4. /\ io' \in [Tasks -> [at : {"out", "in", "ready", "blocked", "issued"}, slot : SlotNumbers, flush : BOOLEAN]]
      /\ io'[t].at = "in" /\ \A u \in Tasks \ {t} : io'[u] = io[u]
    BY <1>1 DEF AhciInv, PortTypeOK
<1>5. /\ state' \in [Tasks -> {"NONE", "READY", "RUNNING", "BLOCKED"}] /\ \A u \in Tasks \ {t} : state'[u] = state[u]
      /\ UNCHANGED <<current, runq, corrupt>>
    BY <1>1 DEF AhciInv, PortTypeOK, Acquire, TakeFree, WaitFor, Block, dispatchVars
<1>6. PortTypeOK'
    BY <1>1, <1>3, <1>4, <1>5 DEF AhciInv, PortTypeOK
<1>7. ASSUME ~slippedIn' PROVE PortTurns'
    <2>1. PortTurns /\ ~InQueue(t)
        BY <1>1, <1>7 DEF AhciInv, PortTurns, InTurn
    <2>2. /\ LinksExact' /\ \A u \in Tasks \ {t} : InQueue(u)' <=> InQueue(u)
          /\ \/ /\ ~locked[PortLock] /\ ~InQueue(t)' /\ owner'[PortLock] = t
             \/ /\ locked[PortLock] /\ InQueue(t)' /\ owner' = owner
        BY <1>1, <1>2, <2>1, AcquireJoins DEF AhciInv, PortTypeOK, PortTurns
    <2>3. ASSUME ~locked[PortLock] PROVE owner[PortLock] = NoTask
        BY <1>2, <2>3 DEF AhciInv, PortTypeOK, LockState
    <2>4. ASSUME NEW u \in Tasks PROVE InTurn(u)'
        <3>1. CASE u = t
            BY <1>4, <2>2, <3>1 DEF InTurn
        <3>2. CASE u # t
            <4>1. u # NoTask
                BY NoTaskAssumption
            <4> QED BY <1>4, <2>1, <2>2, <2>3, <3>2, <4>1 DEF InTurn, PortTurns, InCommand
        <3> QED BY <3>1, <3>2
    <2> QED BY <2>2, <2>4 DEF PortTurns
<1>8. (PortCommands => PortCommands') /\ (PortWaiters => PortWaiters')
    BY <1>1, <1>4, <1>5, CommandsStay DEF AhciInv, InCommand
<1> QED BY <1>1, <1>5, <1>6, <1>7, <1>8 DEF AhciInv

\* From the lock, or from the start of a flush, to IssueCommand.
LEMMA PrepareKeepsPort ==
    ASSUME AhciInv, NEW t \in Tasks, NEW flush \in BOOLEAN, Prepare(t, flush),
           \/ ~flush /\ io[t].at = "in" /\ slippedIn' = (slippedIn \/ InQueue(t))
           \/ flush /\ io[t].at = "out" /\ slippedIn' = slippedIn
    PROVE  AhciInv'
<1>1. PICK s \in SlotNumbers : /\ io' = [io EXCEPT ![t] = [at |-> "ready", slot |-> s, flush |-> flush]]
                               /\ ended' = ended \ {io'[t].slot}
    BY DEF Prepare
<1>2. /\ UNCHANGED <<state, current, runq, corrupt, ci, is, halted, portWait, stranded, wrongly>>
      /\ UNCHANGED <<wl, mutexVars>> /\ UNCHANGED <<queue, owner, rejoined>>
      /\ overlaid' = (overlaid \/ \E u \in Tasks \ {t} : InCommand(u) /\ (flush \/ io[u].flush))
    BY DEF Prepare, dispatchVars, mutexVars
<1>3. /\ io'[t] = [at |-> "ready", slot |-> s, flush |-> flush] /\ io'[t].at = "ready" /\ io'[t].flush = flush
      /\ \A u \in Tasks \ {t} : io'[u] = io[u]
      /\ io' \in [Tasks -> [at : {"out", "in", "ready", "blocked", "issued"}, slot : SlotNumbers, flush : BOOLEAN]]
    BY <1>1 DEF AhciInv, PortTypeOK
<1>4. PortTypeOK'
    BY <1>2, <1>3, LocksAlone DEF AhciInv, PortTypeOK
<1>5. \A u \in Tasks : InQueue(u)' <=> InQueue(u)
    BY <1>2 DEF InQueue
<1>6. ASSUME ~slippedIn' PROVE PortTurns' /\ (flush \/ owner[PortLock] = t) /\ PortTurns
    <2>0. ~slippedIn
        BY <1>6, Zenon
    <2>1. PortTurns
        BY <2>0 DEF AhciInv
    <2>2. ~InQueue(t) /\ (flush \/ owner[PortLock] = t)
        BY <1>6, <2>1 DEF PortTurns, InTurn
    <2>3. LinksExact'
        BY <1>2, <2>1, LinksStay DEF PortTurns
    <2>4. ASSUME NEW u \in Tasks PROVE InTurn(u)'
        <3>1. CASE u = t
            BY <1>2, <1>3, <1>5, <2>2, <3>1 DEF InTurn
        <3>2. CASE u # t
            BY <1>2, <1>3, <1>5, <2>1, <3>2 DEF PortTurns, InTurn, InCommand
        <3> QED BY <3>1, <3>2
    <2> QED BY <2>1, <2>2, <2>3, <2>4 DEF PortTurns
<1>7. ASSUME ~slippedIn', ~overlaid' PROVE \A u \in Tasks \ {t} : ~InCommand(u)
    <2> SUFFICES ASSUME NEW u \in Tasks \ {t}, InCommand(u) PROVE FALSE
        OBVIOUS
    <2>1. ~flush /\ ~io[u].flush
        BY <1>2, <1>3, <1>7
    <2>2. owner[PortLock] = t /\ PortTurns
        BY <1>6, <1>7, <2>1
    <2>3. ~InQueue(u)
        BY <2>2 DEF PortTurns, InTurn, InCommand
    <2> QED BY <2>1, <2>2, <2>3 DEF PortTurns, InTurn
<1>8. ASSUME ~slippedIn', ~overlaid' PROVE PortCommands'
    <2>1. \A u \in Tasks \ {t} : ~InCommand(u)' /\ io'[u].at # "issued"
        BY <1>3, <1>7, <1>8 DEF InCommand
    <2>2. OneInCommand'
        BY <2>1 DEF OneInCommand
    <2>3. IssuedIsKnown'
        BY <1>3, <2>1 DEF IssuedIsKnown
    <2>4. ~wrongly'
        BY <1>2, <1>8 DEF AhciInv, PortCommands
    <2> QED BY <2>2, <2>3, <2>4 DEF PortCommands
<1>9. ASSUME ~slippedIn', ~overlaid' PROVE PortWaiters'
    BY <1>3, <1>7, <1>9 DEF PortWaiters, EnlistedIsHere, IssuedIsFound, InCommand
<1> QED BY <1>4, <1>6, <1>8, <1>9 DEF AhciInv

\* A call that returns early gives the lock back or keeps it.
LEMMA FailingKeepsPort ==
    ASSUME AhciInv, NEW t \in Tasks, TransferFails(t)
    PROVE  AhciInv'
<1>1. /\ io[t].at = "in" /\ io' = [io EXCEPT ![t].at = "out"] /\ ~corrupt
      /\ slippedIn' = (slippedIn \/ InQueue(t))
      /\ UNCHANGED <<ci, is, halted, portWait, ended, overlaid, stranded, wrongly>>
      /\ Release(t, PortLock) \/ UNCHANGED <<dispatchVars, wl, mutexVars>>
    BY DEF TransferFails, GoesIn, Where, Running, Moves, portVars
<1>2. t \in Contenders /\ PortLock \in Locks
    BY AhciAssumption
<1>3. LockState' /\ QueueTypes'
    BY <1>1, <1>2, LockTypesStay, LocksAlone DEF AhciInv, PortTypeOK
<1>4. /\ io' \in [Tasks -> [at : {"out", "in", "ready", "blocked", "issued"}, slot : SlotNumbers, flush : BOOLEAN]]
      /\ io'[t].at = "out" /\ \A u \in Tasks \ {t} : io'[u] = io[u]
    BY <1>1 DEF AhciInv, PortTypeOK
<1>5. state' = state /\ current' = current /\ runq \subseteq runq'
    BY <1>1 DEF Release, HandOver, SetFree, UnblockTaskWithIOBoost, CFSEnqueue, dispatchVars
<1>6. PortTypeOK'
    BY <1>1, <1>3, <1>4, <1>5 DEF AhciInv, PortTypeOK
<1>7. ASSUME ~slippedIn' PROVE PortTurns'
    <2>1. PortTurns /\ ~InQueue(t) /\ owner[PortLock] = t
        BY <1>1, <1>7 DEF AhciInv, PortTurns, InTurn
    <2>2. CASE Release(t, PortLock)
        BY <1>1, <2>1, <2>2, LeavingKeepsTurns DEF AhciInv
    <2>3. CASE UNCHANGED <<dispatchVars, wl, mutexVars>>
        <3>1. UNCHANGED <<wl, queue, rejoined, owner>>
            BY <2>3 DEF mutexVars
        <3>2. \A u \in Tasks : InQueue(u)' <=> InQueue(u)
            BY <3>1 DEF InQueue
        <3>3. LinksExact'
            BY <2>1, <3>1, LinksStay DEF PortTurns
        <3>4. ASSUME NEW u \in Tasks PROVE InTurn(u)'
            BY <1>4, <2>1, <3>1, <3>2, <3>4 DEF PortTurns, InTurn, InCommand
        <3> QED BY <3>3, <3>4 DEF PortTurns
    <2> QED BY <1>1, <2>2, <2>3
<1>8. (PortCommands => PortCommands') /\ (PortWaiters => PortWaiters')
    BY <1>1, <1>4, <1>5, CommandsStay DEF AhciInv, InCommand
<1> QED BY <1>1, <1>6, <1>7, <1>8 DEF AhciInv

\* A tick moves tasks between processor and queue; a task in the middle of
\* IssueCommand that is switched out is stranded.
LEMMA TickKeepsPort ==
    ASSUME AhciInv, PortTick
    PROVE  AhciInv'
<1>1. /\ UNCHANGED <<ci, is, tfd, halted, portWait, io, slippedIn, ended, overlaid, wrongly>> /\ Switch
      /\ UNCHANGED <<wl, mutexVars>>
      /\ stranded' = stranded \cup {t \in Tasks : t = current /\ io[t].at = "blocked" /\ state[t] = "BLOCKED"}
    BY DEF PortTick, portVars, driverVars
<1>2. /\ state' \in [Tasks -> {"NONE", "READY", "RUNNING", "BLOCKED"}] /\ ~corrupt
      /\ \A t \in Tasks : state'[t] = "BLOCKED" => state[t] = "BLOCKED" /\ (t \in runq => t \in runq')
    BY <1>1, IdleAssumption DEF Switch, SwitchTo, SwitchToIdle, Candidates, Outgoing, GivesUp, AhciInv, PortTypeOK
<1>3. PortTypeOK'
    BY <1>1, <1>2, LocksAlone DEF AhciInv, PortTypeOK
<1>4. PortTurns => PortTurns'
    BY <1>1, TurnsStay
<1>5. PortCommands => PortCommands'
    BY <1>1 DEF PortCommands, OneInCommand, IssuedIsKnown, InCommand
<1>6. ASSUME PortWaiters PROVE PortWaiters'
    BY <1>1, <1>2, <1>6 DEF PortWaiters, EnlistedIsHere, IssuedIsFound
<1> QED BY <1>1, <1>2, <1>3, <1>4, <1>5, <1>6 DEF AhciInv

LEMMA AhciInitially == AhciInit => AhciInv
<1> SUFFICES ASSUME AhciInit PROVE AhciInv
    OBVIOUS
<1>1. /\ io = [t \in Tasks |-> [at |-> "out", slot |-> 0, flush |-> FALSE]]
      /\ portWait = NoTask /\ wrongly = FALSE /\ MutexInit
    BY DEF AhciInit
<1>2. 0 \in SlotNumbers
    BY AhciAssumption DEF SlotNumbers
<1>3. state \in [Tasks -> {"NONE", "READY", "RUNNING", "BLOCKED"}]
    BY <1>1 DEF MutexInit, Created
<1>4. LockState /\ QueueTypes /\ LinksExact /\ \A t \in Tasks : ~InQueue(t)
    BY <1>1, LocksInitially
<1>5. PortTypeOK
    BY <1>1, <1>2, <1>3, <1>4 DEF PortTypeOK
<1>6. \A t \in Tasks : io[t].at = "out"
    BY <1>1
<1> QED BY <1>1, <1>4, <1>5, <1>6 DEF AhciInv, PortTurns, InTurn, InCommand, PortCommands, OneInCommand,
                                       IssuedIsKnown, PortWaiters, EnlistedIsHere, IssuedIsFound

LEMMA AhciStep == AhciInv /\ [AhciNext]_ahciVars => AhciInv'
<1> SUFFICES ASSUME AhciInv, [AhciNext]_ahciVars PROVE AhciInv'
    OBVIOUS
<1>1. ASSUME NEW t \in Tasks, Transfer(t) PROVE AhciInv'
    BY <1>1, PrepareKeepsPort DEF Transfer, GoesIn, Where
<1>2. ASSUME NEW t \in Tasks, FlushCache(t) PROVE AhciInv'
    BY <1>2, PrepareKeepsPort DEF FlushCache, Where
<1>3. ASSUME NEW t \in Tasks, LockPort(t) \/ TransferFails(t) PROVE AhciInv'
    BY <1>3, LockKeepsPort, FailingKeepsPort
<1>4. ASSUME NEW t \in Tasks, Enlist(t) PROVE AhciInv'
    <2>1. /\ io[t].at = "ready" /\ portWait' = t /\ current = t /\ ~corrupt
          /\ io' = [io EXCEPT ![t].at = "blocked"] /\ state' = [state EXCEPT ![t] = "BLOCKED"]
          /\ UNCHANGED <<current, runq, corrupt, ci, is, halted, slippedIn, ended, overlaid, stranded, wrongly>>
          /\ UNCHANGED <<wl, mutexVars>>
        BY <1>4 DEF Enlist, Where, Running, Block, Moves, portVars, ahciHistory
    <2>2. PortTypeOK'
          /\ io'[t].at = "blocked" /\ io'[t].slot = io[t].slot /\ io'[t].flush = io[t].flush
          /\ \A u \in Tasks \ {t} : io'[u] = io[u]
        BY <2>1, LocksAlone DEF AhciInv, PortTypeOK
    <2>3. PortTurns => PortTurns'
        BY <2>1, <2>2, TurnsStay DEF InCommand
    <2>4. PortCommands => PortCommands'
        BY <2>1, <2>2 DEF PortCommands, OneInCommand, IssuedIsKnown, InCommand
    <2>5. ASSUME PortCommands PROVE PortWaiters'
        <3>1. \A u \in Tasks \ {t} : ~InCommand(u)
            BY <2>1, <2>5 DEF PortCommands, OneInCommand, InCommand
        <3> QED BY <2>1, <2>2, <3>1 DEF PortWaiters, EnlistedIsHere, IssuedIsFound, PortTypeOK, InCommand
    <2> QED BY <2>1, <2>2, <2>3, <2>4, <2>5 DEF AhciInv
<1>5. ASSUME NEW t \in Tasks, Issue(t) PROVE AhciInv'
    <2>1. /\ io[t].at = "blocked" /\ current = t /\ ~corrupt /\ ci' = ci \cup {io[t].slot}
          /\ io' = [io EXCEPT ![t].at = "issued"] /\ UNCHANGED <<wl, mutexVars>>
          /\ UNCHANGED <<state, current, runq, corrupt, is, halted, portWait, slippedIn, ended, overlaid, stranded, wrongly>>
        BY <1>5 DEF Issue, Where, Running, Moves, dispatchVars, ahciHistory
    <2>2. PortTypeOK'
          /\ io'[t].at = "issued" /\ io'[t].slot = io[t].slot /\ io'[t].flush = io[t].flush
          /\ \A u \in Tasks \ {t} : io'[u] = io[u]
        BY <2>1, LocksAlone DEF AhciInv, PortTypeOK
    <2>3. PortTurns => PortTurns'
        BY <2>1, <2>2, TurnsStay DEF InCommand
    <2>4. PortCommands => PortCommands'
        BY <2>1, <2>2 DEF PortCommands, OneInCommand, IssuedIsKnown, InCommand
    <2>5. ASSUME PortCommands, PortWaiters PROVE PortWaiters'
        <3>1. \A u \in Tasks \ {t} : ~InCommand(u)
            BY <2>1, <2>5 DEF PortCommands, OneInCommand, InCommand
        <3> QED BY <2>1, <2>2, <2>5, <3>1 DEF PortWaiters, EnlistedIsHere, IssuedIsFound, InCommand
    <2> QED BY <2>1, <2>2, <2>3, <2>4, <2>5 DEF AhciInv
<1>6. ASSUME NEW t \in Tasks, AfterYield(t) PROVE AhciInv'
    <2>1. /\ io[t].at = "issued" /\ portWait' = NoTask /\ ~corrupt
          /\ wrongly' = (wrongly \/ (Succeeded(io[t].slot) /\ io[t].slot \notin ended))
          /\ IF io[t].flush THEN UNCHANGED <<dispatchVars, wl, mutexVars>> ELSE Release(t, PortLock)
          /\ io' = [io EXCEPT ![t].at = "out"]
          /\ UNCHANGED <<ci, halted, slippedIn, ended, overlaid, stranded>>
        BY <1>6 DEF AfterYield, Where, Running, Moves
    <2>2. t \in Contenders /\ PortLock \in Locks
        BY AhciAssumption
    <2>3. LockState' /\ QueueTypes'
        BY <2>1, <2>2, LockTypesStay, LocksAlone DEF AhciInv, PortTypeOK
    <2>4. state' = state
        BY <2>1 DEF Release, HandOver, SetFree, UnblockTaskWithIOBoost, CFSEnqueue, dispatchVars
    <2>5. PortTypeOK' /\ io'[t].at = "out" /\ \A u \in Tasks \ {t} : io'[u] = io[u]
        BY <2>1, <2>3, <2>4 DEF AhciInv, PortTypeOK
    <2>6. ASSUME PortTurns PROVE PortTurns'
        <3>1. CASE io[t].flush
            BY <2>1, <2>5, <2>6, <3>1, TurnsStay
        <3>2. CASE ~io[t].flush
            <4>1. ~InQueue(t) /\ owner[PortLock] = t
                BY <2>1, <2>6, <3>2 DEF PortTurns, InTurn, InCommand
            <4> QED BY <2>1, <2>6, <3>2, <4>1, LeavingKeepsTurns DEF AhciInv
        <3> QED BY <3>1, <3>2
    <2>7. ASSUME PortCommands PROVE PortCommands' /\ PortWaiters'
        <3>1. \A u \in Tasks : ~InCommand(u)'
            BY <2>1, <2>5, <2>7 DEF PortCommands, OneInCommand, InCommand
        <3>2. ~wrongly'
            BY <2>1, <2>7 DEF PortCommands, IssuedIsKnown, Succeeded
        <3> QED BY <3>1, <3>2 DEF PortCommands, OneInCommand, IssuedIsKnown, PortWaiters, EnlistedIsHere,
                                  IssuedIsFound, InCommand
    <2> QED BY <2>1, <2>5, <2>6, <2>7 DEF AhciInv
<1>7. ASSUME NEW s \in ci, Ends(s) PROVE AhciInv'
    <2>1. /\ ~halted /\ ci' = ci \ {s} /\ is' = is \cup {"D2H"} /\ ended' = ended \cup {s}
          /\ UNCHANGED <<state, current, runq, corrupt, halted, portWait, io, slippedIn, overlaid, stranded, wrongly>>
          /\ UNCHANGED <<wl, mutexVars>>
        BY <1>7 DEF Ends, dispatchVars, driverVars
    <2>2. PortTypeOK' /\ (PortTurns => PortTurns')
        BY <2>1, LocksAlone, TurnsStay DEF AhciInv, PortTypeOK
    <2>3. PortCommands => PortCommands'
        BY <2>1 DEF PortCommands, OneInCommand, IssuedIsKnown, InCommand
    <2>4. PortWaiters => PortWaiters'
        BY <2>1 DEF PortWaiters, EnlistedIsHere, IssuedIsFound
    <2> QED BY <2>1, <2>2, <2>3, <2>4 DEF AhciInv
<1>8. ASSUME NEW s \in ci, EndsBadly(s) PROVE AhciInv'
    <2>1. /\ halted' /\ UNCHANGED <<wl, mutexVars>>
          /\ UNCHANGED <<state, current, runq, corrupt, ci, portWait, io, slippedIn, ended, overlaid, stranded, wrongly>>
        BY <1>8 DEF EndsBadly, dispatchVars, driverVars, ahciHistory
    <2>2. PortTypeOK' /\ (PortTurns => PortTurns')
        BY <2>1, LocksAlone, TurnsStay DEF AhciInv, PortTypeOK
    <2>3. PortCommands => PortCommands'
        BY <2>1 DEF PortCommands, OneInCommand, IssuedIsKnown, InCommand
    <2> QED BY <2>1, <2>2, <2>3 DEF AhciInv
<1>9. CASE HandlePortInterrupt
    <2>1. /\ is' = {} /\ ~corrupt /\ UNCHANGED <<wl, mutexVars>>
          /\ UNCHANGED <<state, current, ci, halted, io, slippedIn, ended, overlaid, stranded, wrongly>>
          /\ IF "D2H" \in is /\ portWait # NoTask
             THEN runq' = runq \cup {portWait} /\ portWait' = NoTask
             ELSE UNCHANGED <<runq, corrupt, portWait>>
        BY <1>9 DEF HandlePortInterrupt, UnblockTaskWithIOBoost, CFSEnqueue, dispatchVars, ahciHistory
    <2>2. PortTypeOK' /\ (PortTurns => PortTurns')
        BY <2>1, LocksAlone, TurnsStay DEF AhciInv, PortTypeOK
    <2>3. PortCommands => PortCommands'
        BY <2>1 DEF PortCommands, OneInCommand, IssuedIsKnown, InCommand
    <2>4. PortWaiters => PortWaiters'
        BY <2>1, NoTaskAssumption DEF PortWaiters, EnlistedIsHere, IssuedIsFound
    <2> QED BY <2>1, <2>2, <2>3, <2>4 DEF AhciInv
<1>10. CASE PortTick
    BY <1>10, TickKeepsPort
<1>11. CASE UNCHANGED ahciVars
    <2>1. /\ UNCHANGED <<state, current, runq, corrupt, ci, is, halted, portWait, io, slippedIn, ended, overlaid, stranded, wrongly>>
          /\ UNCHANGED <<wl, mutexVars>>
        BY <1>11 DEF ahciVars, dispatchVars, portVars, driverVars, ahciHistory
    <2>2. PortTypeOK' /\ (PortTurns => PortTurns')
        BY <2>1, LocksAlone, TurnsStay DEF AhciInv, PortTypeOK
    <2>3. PortCommands => PortCommands'
        BY <2>1 DEF PortCommands, OneInCommand, IssuedIsKnown, InCommand
    <2>4. PortWaiters => PortWaiters'
        BY <2>1 DEF PortWaiters, EnlistedIsHere, IssuedIsFound
    <2> QED BY <2>1, <2>2, <2>3, <2>4 DEF AhciInv
<1> QED BY <1>1, <1>2, <1>3, <1>4, <1>5, <1>6, <1>7, <1>8, <1>9, <1>10, <1>11 DEF AhciNext

\* The theorems below rest on this one: until a task goes on from a contended
\* Acquire the tasks past it are the owner of the port's lock and its queued
\* waiters; until a flush overlaps a transfer one of them is in a command, an issued
\* command is under way or has ended, and the port knows who waits for it.
THEOREM AhciInvariance == AhciSpec => []AhciInv
BY AhciInitially, AhciStep, PTL DEF AhciSpec

\* IssueCommand returns TRUE only for a command of its own that has ended well, for
\* any number of tasks and slots, unless a flush overlaps a transfer or a task went
\* on from a contended Acquire before the lock was handed to it.
THEOREM TrueMeansDone == AhciSpec => []AhciTrueMeansDone
<1>1. AhciInv => AhciTrueMeansDone
    BY DEF AhciInv, PortCommands, AhciTrueMeansDone
<1> QED BY <1>1, AhciInvariance, PTL

\* The interrupt of the port finds the task that sleeps on a command, for any
\* number of tasks and slots, also after calls that ran on past their yield, under
\* the same two conditions.
THEOREM PortFindsItsWaiter == AhciSpec => []AhciWaiterIsFound
<1>1. AhciInv => AhciWaiterIsFound
    BY DEF AhciInv, PortWaiters, AhciWaiterIsFound, IssuedIsFound
<1> QED BY <1>1, AhciInvariance, PTL

-----------------------------------------------------------------------------
(***************************************************************************)
(* The NVMe driver.  A command is in one place at a time on its way        *)
(* through the queues, each task has at most one, and where a task is in   *)
(* its call says who knows of it.                                          *)
(***************************************************************************)
\* How far i is ahead of h, and the places from h up to an end, in the queues.
Gap(h, i) == IF i >= h THEN i - h ELSE i + Depth - h
Between(h, end) == {i \in Index : Gap(h, i) < Gap(h, end)}

\* Remainders in the queues, which have wrapped at most once.
LEMMA QueueIndex ==
    ASSUME NEW h \in Index, NEW i \in Index
    PROVE  /\ Gap(h, i) \in Index /\ (i + Depth - h) % Depth = Gap(h, i)
           /\ After(i) = (IF i = Depth - 1 THEN 0 ELSE i + 1) /\ After(i) \in Index
           /\ (h + i) % Depth = (IF h + i < Depth THEN h + i ELSE h + i - Depth) /\ (h + i) % Depth \in Index
<1>1. Depth \in Nat \ {0} /\ Depth >= 2
    BY NvmeAssumption
<1>2. h \in 0..(Depth - 1) /\ i \in 0..(Depth - 1)
    BY DEF Index
<1>3. PICK x : x = i + Depth - h
    OBVIOUS
<1>4. x \in 0..(2 * Depth - 1) /\ (IF x < Depth THEN x ELSE x - Depth) = Gap(h, i)
    BY <1>1, <1>2, <1>3 DEF Gap
<1>5. x % Depth = Gap(h, i) /\ Gap(h, i) \in 0..(Depth - 1)
    BY <1>1, <1>4, OnceRound
<1>6. PICK y : y = i + 1
    OBVIOUS
<1>7. y \in 0..(2 * Depth - 1) /\ (IF y < Depth THEN y ELSE y - Depth) = (IF i = Depth - 1 THEN 0 ELSE i + 1)
    BY <1>1, <1>2, <1>6
<1>8. y % Depth = (IF i = Depth - 1 THEN 0 ELSE i + 1) /\ y % Depth \in 0..(Depth - 1)
    BY <1>1, <1>7, OnceRound
<1>9. PICK z : z = h + i
    OBVIOUS
<1>10. z \in 0..(2 * Depth - 1)
    BY <1>1, <1>2, <1>9
<1>11. z % Depth = (IF z < Depth THEN z ELSE z - Depth) /\ z % Depth \in 0..(Depth - 1)
    BY <1>1, <1>10, OnceRound
<1>12. After(i) = y % Depth /\ Index = 0..(Depth - 1)
    BY <1>6 DEF After, Index
<1>13. After(i) = (IF i = Depth - 1 THEN 0 ELSE i + 1) /\ After(i) \in Index
    BY <1>8, <1>12
<1>14. Gap(h, i) \in Index /\ (i + Depth - h) % Depth = Gap(h, i)
    BY <1>3, <1>5, <1>12
<1>15. (h + i) % Depth = (IF h + i < Depth THEN h + i ELSE h + i - Depth) /\ (h + i) % Depth \in Index
    <2>1. (h + i) % Depth = z % Depth
        BY <1>9, Zenon
    <2>2. (IF h + i < Depth THEN h + i ELSE h + i - Depth) = (IF z < Depth THEN z ELSE z - Depth)
        BY <1>2, <1>9, <1>1
    <2> QED BY <1>11, <1>12, <2>1, <2>2, Zenon
<1> QED BY <1>13, <1>14, <1>15

\* A queue that is not full takes one more at its end, ...
LEMMA QueuePut ==
    ASSUME NEW h \in Index, NEW e \in Index, After(e) # h
    PROVE  Between(h, After(e)) = Between(h, e) \cup {e} /\ e \notin Between(h, e)
<1>1. PICK a : a = After(e)
    OBVIOUS
<1>2. a \in Index /\ a = (IF e = Depth - 1 THEN 0 ELSE e + 1) /\ a # h
    BY <1>1, QueueIndex
<1>3. Depth \in Nat /\ Depth >= 2
    BY NvmeAssumption
<1>4. Gap(h, a) = Gap(h, e) + 1
    BY <1>2, <1>3 DEF Gap, Index
<1>5. ASSUME NEW i \in Index PROVE Gap(h, i) < Gap(h, e) + 1 <=> Gap(h, i) < Gap(h, e) \/ i = e
    BY <1>3 DEF Gap, Index
<1>6. ~(Gap(h, e) < Gap(h, e))
    BY <1>3 DEF Gap, Index
<1>7. e \notin Between(h, e)
    BY <1>6 DEF Between
<1>8. Between(h, a) = Between(h, e) \cup {e}
    BY <1>4, <1>5 DEF Between
<1> QED BY <1>1, <1>7, <1>8

\* ... and one that is not empty gives its first.
LEMMA QueueTake ==
    ASSUME NEW h \in Index, NEW e \in Index, h # e
    PROVE  h \in Between(h, e) /\ Between(After(h), e) = Between(h, e) \ {h}
<1>1. PICK a : a = After(h)
    OBVIOUS
<1>2. a \in Index /\ a = (IF h = Depth - 1 THEN 0 ELSE h + 1)
    BY <1>1, QueueIndex
<1>3. Depth \in Nat /\ Depth >= 2
    BY NvmeAssumption
<1>4. Gap(h, h) < Gap(h, e)
    BY <1>3 DEF Gap, Index
<1>5. ASSUME NEW i \in Index PROVE Gap(a, i) < Gap(a, e) <=> Gap(h, i) < Gap(h, e) /\ i # h
    BY <1>2, <1>3 DEF Gap, Index
<1> QED BY <1>1, <1>2, <1>4, <1>5 DEF Between

LEMMA QueueEmpty ==
    ASSUME NEW h \in Index
    PROVE  Between(h, h) = {}
BY NvmeAssumption DEF Between, Gap, Index

\* What the queues hold: in the completion queue, the phase of the lap in which an
\* entry was written.
NvmeQueues ==
    /\ sqHead \in Index /\ sqTail \in Index /\ cqHead \in Index /\ cqTail \in Index
    /\ DOMAIN sq = Index /\ DOMAIN cq = Index
    /\ \A v, w \in inside : v.slot = w.slot => v = w
    /\ phase \in {0, 1} /\ \A i \in Index : cq[i].phase = IF i < cqTail THEN phase ELSE 1 - phase
    /\ phaseTag = IF cqHead <= cqTail THEN phase ELSE 1 - phase

\* The new entries are those between the head and where the controller writes next.
LEMMA NewEntriesKnown ==
    ASSUME NvmeQueues, NEW n, n = Gap(cqHead, cqTail)
    PROVE  /\ n \in Index /\ NewEntries = 0..(n - 1) /\ Cardinality(NewEntries) = n
           /\ (cqHead + n) % Depth = cqTail /\ Expected(n) = phase
           /\ \A k \in 0..(n - 1) : (cqHead + k) % Depth \in Between(cqHead, cqTail)
           /\ \A i \in Between(cqHead, cqTail) : \E k \in 0..(n - 1) : (cqHead + k) % Depth = i
           /\ \A k, j \in 0..(n - 1) : (cqHead + k) % Depth = (cqHead + j) % Depth => k = j
<1>1. PICK h, e, f, p : h = cqHead /\ e = cqTail /\ f = phaseTag /\ p = phase
    OBVIOUS
<1>2. h \in Index /\ e \in Index /\ p \in {0, 1} /\ f = (IF h <= e THEN p ELSE 1 - p)
    BY <1>1 DEF NvmeQueues
<1>3. Depth \in Nat /\ Depth >= 2
    BY NvmeAssumption
<1>4. n \in Index /\ n = Gap(h, e)
    BY <1>1, <1>2, QueueIndex
<1>5. ASSUME NEW k \in Index
      PROVE  /\ (h + k) % Depth = (IF h + k < Depth THEN h + k ELSE h + k - Depth) /\ (h + k) % Depth \in Index
             /\ Gap(h, (h + k) % Depth) = k
    <2>1. (h + k) % Depth = (IF h + k < Depth THEN h + k ELSE h + k - Depth) /\ (h + k) % Depth \in Index
        BY <1>2, QueueIndex
    <2>2. PICK y : y = (h + k) % Depth
        OBVIOUS
    <2>3. Gap(h, y) = k
        BY <1>2, <1>3, <2>1, <2>2 DEF Gap, Index
    <2> QED BY <2>1, <2>2, <2>3
<1>6. (h + n) % Depth = e
    <2>1. (h + n) % Depth = (IF h + n < Depth THEN h + n ELSE h + n - Depth)
        BY <1>4, <1>5
    <2>2. (IF h + n < Depth THEN h + n ELSE h + n - Depth) = e
        BY <1>2, <1>3, <1>4 DEF Gap, Index
    <2> QED BY <2>1, <2>2
<1>7. ASSUME NEW i \in Index PROVE cq[i].phase = IF i < e THEN p ELSE 1 - p
    BY <1>1 DEF NvmeQueues
<1>8. ASSUME NEW k \in Index PROVE (Entry(k).phase = Expected(k)) => k # n
    <2>1. SUFFICES ASSUME k = n PROVE Entry(k).phase # Expected(k)
        OBVIOUS
    <2>2. Entry(k).phase = 1 - p
        BY <1>1, <1>2, <1>3, <1>6, <1>7, <2>1 DEF Entry, Index
    <2>3. Expected(k) = p
        BY <1>1, <1>2, <1>3, <1>4, <2>1 DEF Expected, Gap, Index
    <2> QED BY <1>2, <2>2, <2>3
<1>9. ASSUME NEW k \in 0..(n - 1) PROVE k \in Index /\ Entry(k).phase = Expected(k)
    <2>1. k \in Index
        BY <1>3, <1>4 DEF Index
    <2>2. PICK y : y = (h + k) % Depth
        OBVIOUS
    <2>3. y = (IF h + k < Depth THEN h + k ELSE h + k - Depth) /\ y \in Index
        BY <1>5, <2>1, <2>2
    <2>4. Entry(k).phase = IF y < e THEN p ELSE 1 - p
        BY <1>1, <1>7, <2>2, <2>3 DEF Entry
    <2>5. Expected(k) = IF h + k >= Depth THEN 1 - f ELSE f
        BY <1>1 DEF Expected
    <2>6. (IF y < e THEN p ELSE 1 - p) = (IF h + k >= Depth THEN 1 - f ELSE f)
        BY <1>2, <1>3, <1>4, <2>1, <2>3 DEF Gap, Index
    <2> QED BY <2>1, <2>4, <2>5, <2>6
<1>10. NewEntries = 0..(n - 1)
    <2>1. ASSUME NEW k \in NewEntries PROVE k \in 0..(n - 1)
        <3>1. k \in Index /\ \A j \in 0..k : Entry(j).phase = Expected(j)
            BY DEF NewEntries
        <3>2. ~(n \in 0..k)
            BY <1>4, <1>8, <3>1
        <3> QED BY <1>3, <1>4, <3>1, <3>2 DEF Index
    <2>2. ASSUME NEW k \in 0..(n - 1) PROVE k \in NewEntries
        <3>1. \A j \in 0..k : j \in 0..(n - 1)
            BY <1>3, <1>4 DEF Index
        <3> QED BY <1>9, <3>1 DEF NewEntries
    <2> QED BY <2>1, <2>2
<1>11. Cardinality(0..(n - 1)) = n
    <2>1. n \in Int /\ n - 1 \in Int /\ n >= 0 /\ Depth \in Nat
        BY <1>3, <1>4 DEF Index
    <2>2. PICK a \in Int, b \in Int : a = 0 /\ b = n - 1
        BY <2>1
    <2>3. Cardinality(a..b) = IF a > b THEN 0 ELSE b-a+1
        BY FS_Interval
    <2> QED BY <2>1, <2>2, <2>3
<1>12. Expected(n) = p
    BY <1>1, <1>2, <1>3, <1>4 DEF Expected, Gap, Index
<1>13. ASSUME NEW k \in 0..(n - 1) PROVE (h + k) % Depth \in Between(h, e)
    <2>1. k \in Index /\ k < n
        BY <1>3, <1>4, <1>9 DEF Index
    <2> QED BY <1>4, <1>5, <2>1 DEF Between
<1>14. ASSUME NEW i \in Between(h, e) PROVE \E k \in 0..(n - 1) : (h + k) % Depth = i
    <2>1. i \in Index /\ Gap(h, i) < n
        BY <1>4 DEF Between
    <2>2. PICK k : k = Gap(h, i)
        OBVIOUS
    <2>3. k \in Index /\ k \in 0..(n - 1)
        <3>1. k \in Index
            BY <1>2, <2>1, <2>2, QueueIndex
        <3> QED BY <1>3, <1>4, <2>1, <2>2, <3>1 DEF Index
    <2>4. (h + k) % Depth = (IF h + k < Depth THEN h + k ELSE h + k - Depth)
        BY <1>5, <2>3
    <2>5. (IF h + k < Depth THEN h + k ELSE h + k - Depth) = i
        BY <1>2, <1>3, <2>1, <2>2 DEF Gap, Index
    <2> QED BY <2>3, <2>4, <2>5
<1>15. ASSUME NEW k \in 0..(n - 1), NEW j \in 0..(n - 1), (h + k) % Depth = (h + j) % Depth PROVE k = j
    <2>1. Gap(h, (h + k) % Depth) = k /\ Gap(h, (h + j) % Depth) = j
        BY <1>5, <1>9
    <2> QED BY <1>15, <2>1
<1> QED BY <1>1, <1>4, <1>6, <1>10, <1>11, <1>12, <1>13, <1>14, <1>15

-----------------------------------------------------------------------------
\* The commands on their way, by where they are: in the queue, inside the
\* controller, and answered but not yet read.
NvmeCommands == [task : Tasks, cid : Cids]
SqWorks == {<<"sq", i, sq[i]>> : i \in Between(sqHead, sqTail)}
InWorks == {<<"in", w.slot, w.of>> : w \in inside}
CqWorks == {<<"cq", i, cq[i].of>> : i \in Between(cqHead, cqTail)}
Works == SqWorks \cup InWorks \cup CqWorks
WorksFor(W, t) == \E x \in W : x[3].task = t
AtWork(t) == WorksFor(Works, t)
OneEach(W) == \A x, y \in W : x[3].task = y[3].task => x = y

\* A task has a command between the doorbell and its return.
Active(t) == call[t].at \in {"rung", "listed", "blocked"}

\* A task is woken twice over if it has not yet slept; its command has ended.
Answered(t) == answer[t] = IF commandStatus[call[t].cid] THEN "done" ELSE "failed"
Woken(t) == call[t].at # "in" /\ t \in runq /\ (t = current \/ state[t] = "BLOCKED")

NvmeAdmin ==
    /\ boot \in (-1)..4
    /\ polling # -1 => /\ boot \in 0..3 /\ polling = boot /\ adminPosted \in {boot, boot + 1}
                       /\ adminHead \in {boot, adminPosted}
    /\ polling = -1 /\ boot # -1 => adminHead = boot /\ adminPosted = boot
    /\ boot # 4 => \A t \in Tasks : call[t].at = "out"

NvmeCalls ==
    /\ call \in [Tasks -> [at : {"out", "in", "rung", "listed", "blocked"}, cid : Cids]]
    /\ DOMAIN waitingTask = Cids /\ DOMAIN commandStatus = Cids /\ DOMAIN answer = Tasks
    /\ DOMAIN state = Tasks
    /\ \A c \in Cids : waitingTask[c] # NoTask =>
         /\ waitingTask[c] \in Tasks /\ call[waitingTask[c]].cid = c
         /\ call[waitingTask[c]].at \in {"listed", "blocked"}

NvmePlaces ==
    /\ runq \subseteq Tasks
    /\ \A t \in Tasks : /\ t # current /\ state[t] # "BLOCKED" => t \in runq
                        /\ t = current => state[t] \in {"RUNNING", "BLOCKED"}
                        /\ t # current => state[t] # "RUNNING"

Owned(k) == k \in NvmeCommands /\ Active(k.task) /\ call[k.task].cid = k.cid
NvmeWorks ==
    /\ \A x \in Works : Owned(x[3])
    /\ OneEach(Works)
    /\ \A i \in Between(cqHead, cqTail) :
          irq /\ answer[cq[i].of.task] = IF cq[i].ok THEN "done" ELSE "failed"

\* Where a task is in its call says who knows of it.
NvmeTask(t) ==
    /\ call[t].at = "out" => t \notin missed /\ state[t] # "BLOCKED"
    /\ call[t].at = "in" => t \notin missed
    /\ call[t].at = "rung" => /\ waitingTask[call[t].cid] = NoTask
                              /\ (AtWork(t) \/ t \in missed) /\ state[t] # "BLOCKED"
    /\ call[t].at = "listed" => /\ waitingTask[call[t].cid] = t /\ state[t] # "BLOCKED"
                                /\ (AtWork(t) \/ t \in missed \/ Woken(t))
    /\ call[t].at = "blocked" => /\ waitingTask[call[t].cid] = t
                                 /\ state[t] = "BLOCKED" => AtWork(t) \/ t \in missed \/ Woken(t)
                                 /\ state[t] # "BLOCKED" => Answered(t) /\ ~AtWork(t) /\ t \notin missed
    /\ AtWork(t) => t \notin missed
    /\ Woken(t) => /\ call[t].at \in {"listed", "blocked"} /\ ~AtWork(t) /\ t \notin missed /\ Answered(t)
                   /\ call[t].at = "listed" \/ state[t] = "BLOCKED"

\* ... and who is its turn: a task that waits for the lock sleeps and is in its
\* queue; one that is past Acquire and does not wait is the owner.
NvmeTurn(t) ==
    /\ InQueue(t) => call[t].at = "in" /\ state[t] = "BLOCKED" /\ t \notin runq
    /\ call[t].at = "in" /\ t = current => t \notin runq
    /\ call[t].at = "in" /\ ~InQueue(t) =>
         owner[IOLock] = t /\ (state[t] = "BLOCKED" => t \in runq /\ t # current)
    /\ call[t].at = "rung" => owner[IOLock] = t
NvmeTurns == LinksExact /\ \A t \in Tasks : NvmeTurn(t)

NvmeSound == NvmePlaces /\ NvmeWorks /\ NvmeTurns /\ \A t \in Tasks : NvmeTask(t)
NvmeInv ==
    /\ NvmeAdmin /\ NvmeQueues /\ NvmeCalls /\ LockState /\ QueueTypes
    /\ slipped \/ ranOn \/ filled \/ ~wrong
    /\ ~corrupt /\ ~slipped /\ ~ranOn /\ ~filled => NvmeSound

\* What the steps do to the commands on their way.
LEMMA SubmitWorks ==
    ASSUME NvmeQueues, NEW k, sq' = [sq EXCEPT ![sqTail] = k], sqTail' = After(sqTail), sqTail' # sqHead,
           sqHead' = sqHead, inside' = inside, cq' = cq, cqHead' = cqHead, cqTail' = cqTail
    PROVE  Works' = Works \cup {<<"sq", sqTail, k>>}
<1>1. sqHead \in Index /\ sqTail \in Index /\ DOMAIN sq = Index
    BY DEF NvmeQueues
<1>2. Between(sqHead, After(sqTail)) = Between(sqHead, sqTail) \cup {sqTail} /\ sqTail \notin Between(sqHead, sqTail)
    BY <1>1, QueuePut
<1>3. \A i \in Between(sqHead, sqTail) : sq'[i] = sq[i]
    BY <1>1, <1>2 DEF Between
<1>4. sq'[sqTail] = k
    BY <1>1
<1>5. SqWorks' = SqWorks \cup {<<"sq", sqTail, k>>}
    BY <1>2, <1>3, <1>4 DEF SqWorks
<1>6. InWorks' = InWorks /\ CqWorks' = CqWorks
    BY DEF InWorks, CqWorks
<1> QED BY <1>5, <1>6 DEF Works

\* One command moves from one place to another.
MovesOne(W, W2) == \E x \in W : \E y : y[3] = x[3] /\ W2 = (W \ {x}) \cup {y}

LEMMA FetchWorks ==
    ASSUME NvmeQueues, Fetch
    PROVE  MovesOne(Works, Works') /\ CqWorks' = CqWorks
<1>1. sqHead \in Index /\ sqTail \in Index /\ sqHead # sqTail
    BY DEF NvmeQueues, Fetch
<1>2. /\ inside' = inside \cup {[slot |-> sqHead, of |-> sq[sqHead]]} /\ sqHead' = After(sqHead)
      /\ sq' = sq /\ sqTail' = sqTail /\ cq' = cq /\ cqHead' = cqHead /\ cqTail' = cqTail
      /\ \A w \in inside : w.slot # sqHead
    BY DEF Fetch
<1>3. sqHead \in Between(sqHead, sqTail) /\ Between(After(sqHead), sqTail) = Between(sqHead, sqTail) \ {sqHead}
    BY <1>1, QueueTake
<1>4. PICK x, y : x = <<"sq", sqHead, sq[sqHead]>> /\ y = <<"in", sqHead, sq[sqHead]>>
    OBVIOUS
<1>5. SqWorks' = SqWorks \ {x} /\ x \in SqWorks
    <2>1. SqWorks' = {<<"sq", i, sq[i]>> : i \in Between(sqHead, sqTail) \ {sqHead}}
        BY <1>2, <1>3 DEF SqWorks
    <2> QED BY <1>3, <1>4, <2>1 DEF SqWorks
<1>6. InWorks' = InWorks \cup {y}
    <2>1. PICK v : v = [slot |-> sqHead, of |-> sq[sqHead]]
        OBVIOUS
    <2>2. v.slot = sqHead /\ v.of = sq[sqHead] /\ inside' = inside \cup {v}
        BY <1>2, <2>1
    <2> QED BY <1>4, <2>2 DEF InWorks
<1>7. CqWorks' = CqWorks
    BY <1>2 DEF CqWorks
<1>8. x \notin InWorks /\ x \notin CqWorks
    BY <1>4 DEF InWorks, CqWorks
<1>9. Works' = (Works \ {x}) \cup {y} /\ x \in Works
    BY <1>5, <1>6, <1>7, <1>8 DEF Works
<1>10. y[3] = x[3]
    BY <1>4
<1> QED BY <1>7, <1>9, <1>10 DEF MovesOne

LEMMA CompleteWorks ==
    ASSUME NvmeQueues, NEW w \in inside, NEW ok, Complete(w, ok)
    PROVE  MovesOne(Works, Works') /\ Between(cqHead', cqTail') = Between(cqHead, cqTail) \cup {cqTail}
<1>1. cqHead \in Index /\ cqTail \in Index /\ DOMAIN cq = Index
    BY DEF NvmeQueues
<1>2. /\ inside' = inside \ {w} /\ cqTail' = After(cqTail) /\ cqTail' # cqHead /\ cqHead' = cqHead
      /\ cq' = [cq EXCEPT ![cqTail] = [phase |-> phase, of |-> w.of, ok |-> ok]]
      /\ sq' = sq /\ sqTail' = sqTail /\ sqHead' = sqHead
    BY DEF Complete
<1>3. /\ Between(cqHead, After(cqTail)) = Between(cqHead, cqTail) \cup {cqTail}
      /\ cqTail \notin Between(cqHead, cqTail)
    BY <1>1, <1>2, QueuePut
<1>4. PICK x, y : x = <<"in", w.slot, w.of>> /\ y = <<"cq", cqTail, w.of>>
    OBVIOUS
<1>5. \A i \in Between(cqHead, cqTail) : cq'[i].of = cq[i].of
    BY <1>1, <1>2, <1>3 DEF Between
<1>6. cq'[cqTail].of = w.of
    BY <1>1, <1>2
<1>7. CqWorks' = CqWorks \cup {y}
    BY <1>2, <1>3, <1>4, <1>5, <1>6 DEF CqWorks
<1>8. InWorks' = InWorks \ {x} /\ x \in InWorks
    <2>1. \A v \in inside : <<"in", v.slot, v.of>> = x <=> v = w
        BY <1>4 DEF NvmeQueues
    <2> QED BY <1>2, <1>4, <2>1 DEF InWorks
<1>9. SqWorks' = SqWorks
    BY <1>2 DEF SqWorks
<1>10. x \notin SqWorks /\ x \notin CqWorks
    BY <1>4 DEF SqWorks, CqWorks
<1>11. Works' = (Works \ {x}) \cup {y} /\ x \in Works
    BY <1>7, <1>8, <1>9, <1>10 DEF Works
<1>12. y[3] = x[3]
    BY <1>4
<1> QED BY <1>2, <1>3, <1>11, <1>12 DEF MovesOne

\* A command that moves stays the only one of its task.
LEMMA MovingKeeps ==
    ASSUME NEW W, NEW W2, MovesOne(W, W2), OneEach(W)
    PROVE  /\ OneEach(W2) /\ \A t : WorksFor(W2, t) <=> WorksFor(W, t)
           /\ \A z \in W2 : \E x \in W : x[3] = z[3]
<1>0. PICK x \in W : \E y : y[3] = x[3] /\ W2 = (W \ {x}) \cup {y}
    BY DEF MovesOne
<1>1. PICK y : y[3] = x[3] /\ W2 = (W \ {x}) \cup {y}
    BY <1>0
<1>2. OneEach(W2)
    BY <1>1 DEF OneEach
<1>3. ASSUME NEW t PROVE WorksFor(W2, t) <=> WorksFor(W, t)
    BY <1>1 DEF WorksFor
<1>4. \A z \in W2 : \E v \in W : v[3] = z[3]
    BY <1>1
<1> QED BY <1>2, <1>3, <1>4

\* A task whose call and command a step leaves alone.
LEMMA SameCall ==
    ASSUME NEW t \in Tasks, NvmeTask(t), call'[t] = call[t], t \in missed' <=> t \in missed,
           state'[t] = "BLOCKED" <=> state[t] = "BLOCKED", ~Active(t) \/ waitingTask'[call[t].cid] = waitingTask[call[t].cid], AtWork(t)' <=> AtWork(t),
           Woken(t)' <=> Woken(t),
           \/ AtWork(t) \/ call[t].at \in {"out", "in", "rung"}
           \/ answer'[t] = answer[t] /\ commandStatus'[call[t].cid] = commandStatus[call[t].cid]
    PROVE  NvmeTask(t)'
<1>1. Woken(t)' <=> Woken(t)
    OBVIOUS
<1>2. AtWork(t) \/ call[t].at \in {"out", "in", "rung"} \/ (Answered(t)' <=> Answered(t))
    BY DEF Answered
<1>3. PICK a, c : a = call[t].at /\ c = call[t].cid /\ a = call'[t].at /\ c = call'[t].cid
    OBVIOUS
<1>10. a = "in" => t \notin missed'
    BY <1>3 DEF NvmeTask
<1>4. a = "out" => t \notin missed' /\ state'[t] # "BLOCKED"
    BY <1>3 DEF NvmeTask
<1>5. a = "rung" => /\ waitingTask'[c] = NoTask
                    /\ (AtWork(t)' \/ t \in missed') /\ state'[t] # "BLOCKED"
    BY <1>3 DEF NvmeTask, Active
<1>6. a = "listed" => /\ waitingTask'[c] = t /\ state'[t] # "BLOCKED"
                      /\ (AtWork(t)' \/ t \in missed' \/ Woken(t)')
    BY <1>1, <1>3 DEF NvmeTask, Active
<1>7. a = "blocked" => /\ waitingTask'[c] = t
                       /\ state'[t] = "BLOCKED" => AtWork(t)' \/ t \in missed' \/ Woken(t)'
                       /\ state'[t] # "BLOCKED" => Answered(t)' /\ ~AtWork(t)' /\ t \notin missed'
    BY <1>1, <1>2, <1>3 DEF NvmeTask, Active
<1>8. AtWork(t)' => t \notin missed'
    BY DEF NvmeTask
<1>9. Woken(t)' => /\ a \in {"listed", "blocked"} /\ ~AtWork(t)' /\ t \notin missed' /\ Answered(t)'
                   /\ a = "listed" \/ state'[t] = "BLOCKED"
    BY <1>1, <1>2, <1>3 DEF NvmeTask
<1> QED BY <1>3, <1>4, <1>5, <1>6, <1>7, <1>8, <1>9, <1>10 DEF NvmeTask

\* ... and its places too.
LEMMA SameTask ==
    ASSUME NEW t \in Tasks, NvmeTask(t), call'[t] = call[t], t \in missed' <=> t \in missed,
           state'[t] = state[t], ~Active(t) \/ waitingTask'[call[t].cid] = waitingTask[call[t].cid], AtWork(t)' <=> AtWork(t),
           t \in runq' <=> t \in runq, t = current' <=> t = current,
           \/ AtWork(t) \/ call[t].at \in {"out", "in", "rung"}
           \/ answer'[t] = answer[t] /\ commandStatus'[call[t].cid] = commandStatus[call[t].cid]
    PROVE  NvmeTask(t)'
<1>1. Woken(t)' <=> Woken(t)
    BY DEF Woken
<1> QED BY <1>1, SameCall

\* A step that leaves the lock alone, and the places of the tasks that ask for it.
LEMMA SameTurns ==
    ASSUME NvmeTurns, UNCHANGED lockVars,
           \A t \in Tasks : call[t].at \in {"in", "rung"} \/ call'[t].at \in {"in", "rung"} =>
              call'[t].at = call[t].at,
           \A t \in Tasks : call[t].at = "in" =>
              state'[t] = state[t] /\ (t \in runq' <=> t \in runq) /\ (t = current' <=> t = current)
    PROVE  NvmeTurns'
<1>1. UNCHANGED <<wl, queue, rejoined, owner>>
    BY DEF lockVars, mutexVars
<1>2. \A t \in Tasks : InQueue(t)' <=> InQueue(t)
    BY <1>1 DEF InQueue
<1>3. LinksExact'
    BY <1>1, LinksStay DEF NvmeTurns
<1>4. ASSUME NEW t \in Tasks PROVE NvmeTurn(t)'
    BY <1>1, <1>2, <1>4 DEF NvmeTurns, NvmeTurn
<1> QED BY <1>3, <1>4 DEF NvmeTurns

\* The owner of the lock gives it back: a task that waited for it is made the owner
\* and queued to run.
LEMMA LeavingTurns ==
    ASSUME LockState, QueueTypes, NvmePlaces, NvmeTurns, NEW t \in Tasks, ~InQueue(t), owner[IOLock] = t,
           current = t, Release(t, IOLock), call'[t].at \notin {"in", "rung"}, \A u \in Tasks \ {t} : call'[u] = call[u]
    PROVE  /\ NvmeTurns' /\ NvmePlaces' /\ state' = state /\ current' = current
           /\ \A u \in Tasks : call'[u].at # "in" => (u \in runq' <=> u \in runq)
<1>1. t \in Contenders /\ IOLock \in Locks
    BY NvmeAssumption
<1>2. LinksExact' /\ (NobodyLeaves \/ \E h : LeavesFor(h, IOLock))
    BY <1>1, ReleaseLeaves DEF NvmeTurns
<1>3. CASE NobodyLeaves
    <2>1. /\ UNCHANGED <<state, current, runq>> /\ \A u \in Tasks : InQueue(u)' <=> InQueue(u)
        BY <1>3 DEF NobodyLeaves
    <2>2. NvmePlaces'
        BY <2>1 DEF NvmePlaces
    <2>3. ASSUME NEW u \in Tasks PROVE NvmeTurn(u)'
        BY <2>1, <2>3 DEF NvmeTurns, NvmeTurn
    <2> QED BY <1>2, <2>1, <2>2, <2>3 DEF NvmeTurns
<1>4. ASSUME NEW h, LeavesFor(h, IOLock)
      PROVE  /\ NvmeTurns' /\ NvmePlaces' /\ state' = state /\ current' = current
             /\ \A u \in Tasks : call'[u].at # "in" => (u \in runq' <=> u \in runq)
    <2>1. /\ h \in Tasks /\ InQueue(h) /\ ~InQueue(h)' /\ owner'[IOLock] = h /\ h # t
          /\ \A u \in Tasks \ {h} : InQueue(u)' <=> InQueue(u)
          /\ runq' = runq \cup {h} /\ UNCHANGED <<state, current>>
        BY <1>4 DEF LeavesFor
    <2>2. call[h].at = "in" /\ call'[h].at = "in"
        BY <2>1 DEF NvmeTurns, NvmeTurn
    <2>3. NvmePlaces'
        BY <2>1 DEF NvmePlaces
    <2>4. ASSUME NEW u \in Tasks PROVE NvmeTurn(u)'
        BY <2>1, <2>2, <2>4 DEF NvmeTurns, NvmeTurn
    <2> QED BY <1>2, <2>1, <2>2, <2>3, <2>4 DEF NvmeTurns
<1> QED BY <1>2, <1>3, <1>4

LEMMA NvmeQueuesStep ==
    ASSUME NvmeQueues, [NvmeNext]_nvmeVars
    PROVE  NvmeQueues'
<1>0. Depth \in Nat /\ Depth >= 2
    BY NvmeAssumption
<1>1. ASSUME UNCHANGED queueVars PROVE NvmeQueues'
    <2>1. /\ sq' = sq /\ sqTail' = sqTail /\ sqHead' = sqHead /\ inside' = inside /\ cq' = cq /\ cqTail' = cqTail
          /\ phase' = phase /\ cqHead' = cqHead /\ phaseTag' = phaseTag
        BY <1>1 DEF queueVars
    <2> QED BY <2>1 DEF NvmeQueues
<1>2. ASSUME AdminCompletes PROVE NvmeQueues'
    <2>1. /\ sq' = sq /\ sqTail' = sqTail /\ sqHead' = sqHead /\ inside' = inside /\ cq' = cq /\ cqTail' = cqTail
          /\ phase' = phase /\ cqHead' = cqHead /\ phaseTag' = phaseTag
        BY <1>2 DEF AdminCompletes
    <2> QED BY <2>1 DEF NvmeQueues
<1>3. ASSUME NEW t \in Tasks, Submit(t) PROVE NvmeQueues'
    <2>1. /\ DOMAIN sq' = DOMAIN sq /\ sqTail' = After(sqTail) /\ sqHead' = sqHead /\ inside' = inside
          /\ cq' = cq /\ cqTail' = cqTail /\ phase' = phase /\ cqHead' = cqHead /\ phaseTag' = phaseTag
        BY <1>3 DEF Submit
    <2>2. After(sqTail) \in Index
        BY QueueIndex DEF NvmeQueues
    <2> QED BY <2>1, <2>2 DEF NvmeQueues
<1>4. ASSUME Fetch PROVE NvmeQueues'
    <2>1. /\ sq' = sq /\ sqTail' = sqTail /\ sqHead' = After(sqHead)
          /\ cq' = cq /\ cqTail' = cqTail /\ phase' = phase /\ cqHead' = cqHead /\ phaseTag' = phaseTag
        BY <1>4 DEF Fetch
    <2>2. After(sqHead) \in Index
        BY QueueIndex DEF NvmeQueues
    <2>3. PICK v : v = [slot |-> sqHead, of |-> sq[sqHead]]
        OBVIOUS
    <2>4. inside' = inside \cup {v} /\ v.slot = sqHead /\ \A w \in inside : w.slot # sqHead
        BY <1>4, <2>3 DEF Fetch
    <2>5. \A u, w \in inside' : u.slot = w.slot => u = w
        BY <2>4 DEF NvmeQueues
    <2> QED BY <2>1, <2>2, <2>5 DEF NvmeQueues
<1>5. ASSUME NEW w \in inside, NEW ok \in BOOLEAN, Complete(w, ok) PROVE NvmeQueues'
    <2>1. /\ sq' = sq /\ sqTail' = sqTail /\ sqHead' = sqHead /\ inside' \subseteq inside
          /\ cq' = [cq EXCEPT ![cqTail] = [phase |-> phase, of |-> w.of, ok |-> ok]]
          /\ cqTail' = After(cqTail) /\ After(cqTail) # cqHead
          /\ phase' = (IF cqTail' = 0 THEN 1 - phase ELSE phase) /\ cqHead' = cqHead /\ phaseTag' = phaseTag
        BY <1>5 DEF Complete
    <2>2. PICK e, p, h : e = cqTail /\ p = phase /\ h = cqHead
        OBVIOUS
    <2>3. /\ e \in Index /\ h \in Index /\ p \in {0, 1} /\ DOMAIN cq = Index
          /\ phaseTag = IF h <= e THEN p ELSE 1 - p
        BY <2>2 DEF NvmeQueues
    <2>4. After(e) \in Index /\ After(e) = (IF e = Depth - 1 THEN 0 ELSE e + 1)
        BY <2>3, QueueIndex
    <2>5. PICK f, q : f = cqTail' /\ q = phase'
        OBVIOUS
    <2>6. f \in Index /\ f = (IF e = Depth - 1 THEN 0 ELSE e + 1) /\ q = (IF f = 0 THEN 1 - p ELSE p) /\ f # h
        BY <2>1, <2>2, <2>4, <2>5
    <2>7. ASSUME NEW i \in Index PROVE cq'[i].phase = IF i < f THEN q ELSE 1 - q
        <3>1. CASE i = e
            <4>1. cq'[i].phase = p
                BY <2>1, <2>2, <2>3, <3>1
            <4>2. p = IF i < f THEN q ELSE 1 - q
                BY <1>0, <2>3, <2>6, <3>1 DEF Index
            <4> QED BY <4>1, <4>2
        <3>2. CASE i # e
            <4>1. cq'[i].phase = cq[i].phase
                BY <2>1, <2>2, <2>3, <3>2
            <4>2. cq[i].phase = IF i < e THEN p ELSE 1 - p
                BY <2>2 DEF NvmeQueues
            <4>3. (IF i < e THEN p ELSE 1 - p) = IF i < f THEN q ELSE 1 - q
                BY <1>0, <2>3, <2>6, <3>2 DEF Index
            <4> QED BY <4>1, <4>2, <4>3
        <3> QED BY <3>1, <3>2
    <2>8. q \in {0, 1} /\ phaseTag = IF h <= f THEN q ELSE 1 - q
        BY <1>0, <2>3, <2>6 DEF Index
    <2>9. \A u, v \in inside' : u.slot = v.slot => u = v
        BY <2>1 DEF NvmeQueues
    <2>10. DOMAIN cq' = Index /\ DOMAIN sq' = Index /\ sqTail' \in Index /\ sqHead' \in Index
        BY <2>1 DEF NvmeQueues
    <2> QED BY <2>1, <2>2, <2>3, <2>5, <2>6, <2>7, <2>8, <2>9, <2>10 DEF NvmeQueues
<1>6. ASSUME HandleInterrupt PROVE NvmeQueues'
    <2>1. PICK n : n = Gap(cqHead, cqTail)
        OBVIOUS
    <2>2. Cardinality(NewEntries) = n /\ (cqHead + n) % Depth = cqTail /\ Expected(n) = phase
        BY <2>1, NewEntriesKnown
    <2>3. cqHead' = cqTail /\ phaseTag' = phase
        BY <1>6, <2>2 DEF HandleInterrupt, ProcessCompletionQueue
    <2>4. /\ sq' = sq /\ sqTail' = sqTail /\ sqHead' = sqHead /\ inside' = inside /\ cq' = cq /\ cqTail' = cqTail
          /\ phase' = phase
        BY <1>6 DEF HandleInterrupt
    <2>5. cqTail <= cqTail
        BY <1>0 DEF NvmeQueues, Index
    <2> QED BY <2>3, <2>4, <2>5 DEF NvmeQueues
<1>7. CASE UNCHANGED nvmeVars
    BY <1>1, <1>7 DEF nvmeVars
<1>8. CASE AdminCommand \/ PollAdminCompletion
    BY <1>1, <1>8 DEF AdminCommand, PollAdminCompletion
<1>9. CASE Tick
    BY <1>1, <1>9 DEF Tick
<1>10. ASSUME NEW t \in Tasks, Enter(t) \/ SubmitFails(t) \/ ListTask(t) \/ BlockTaskCauseOfIOAndYield(t) \/ Return(t)
       PROVE  NvmeQueues'
    BY <1>1, <1>10 DEF Enter, SubmitFails, ListTask, BlockTaskCauseOfIOAndYield, Return
<1> QED BY <1>2, <1>3, <1>4, <1>5, <1>6, <1>7, <1>8, <1>9, <1>10 DEF NvmeNext

LEMMA NvmeCallsStep ==
    ASSUME NvmeCalls, NvmeQueues, [NvmeNext]_nvmeVars
    PROVE  NvmeCalls'
<1> USE DEF NvmeCalls
<1>1. ASSUME waitingTask' = waitingTask, call' = call, DOMAIN commandStatus' = Cids, DOMAIN answer' = Tasks, DOMAIN state' = Tasks
      PROVE  NvmeCalls'
    BY <1>1
<1>2. ASSUME UNCHANGED <<dispatchVars, callVars>> PROVE NvmeCalls'
    BY <1>1, <1>2 DEF dispatchVars, callVars
<1>3. ASSUME NEW t \in Tasks, Submit(t) PROVE NvmeCalls'
    <2>1. PICK c \in Cids : call' = [call EXCEPT ![t] = [at |-> "rung", cid |-> c]]
        BY <1>3 DEF Submit
    <2>2. /\ waitingTask' = waitingTask /\ commandStatus' = commandStatus /\ state' = state
          /\ DOMAIN answer' = Tasks /\ call[t].at = "in"
        BY <1>3 DEF Submit, GoesOn, At, dispatchVars
    <2>3. call' \in [Tasks -> [at : {"out", "in", "rung", "listed", "blocked"}, cid : Cids]]
        BY <2>1
    <2>4. \A u \in Tasks : call[u].at # "in" => call'[u] = call[u]
        BY <2>1, <2>2
    <2> QED BY <2>2, <2>3, <2>4
<1>4. ASSUME NEW t \in Tasks, ListTask(t) PROVE NvmeCalls'
    <2>1. PICK c \in Cids : c = call[t].cid
        OBVIOUS
    <2>2. /\ waitingTask' = [waitingTask EXCEPT ![c] = t] /\ call' = [call EXCEPT ![t].at = "listed"]
          /\ call[t].at = "rung" /\ commandStatus' = commandStatus /\ state' = state /\ answer' = answer
        BY <1>4, <2>1 DEF ListTask, At, Goes, Release, HandOver, SetFree, UnblockTaskWithIOBoost, dispatchVars
    <2>3. call' \in [Tasks -> [at : {"out", "in", "rung", "listed", "blocked"}, cid : Cids]]
        BY <2>2
    <2>4. call'[t].at = "listed" /\ call'[t].cid = c /\ \A u \in Tasks \ {t} : call'[u] = call[u]
        BY <2>1, <2>2
    <2>5. ASSUME NEW d \in Cids, waitingTask'[d] # NoTask
          PROVE  /\ waitingTask'[d] \in Tasks /\ call'[waitingTask'[d]].cid = d
                 /\ call'[waitingTask'[d]].at \in {"listed", "blocked"}
        BY <2>2, <2>4, <2>5
    <2> QED BY <2>2, <2>3, <2>5
<1>5. ASSUME NEW t \in Tasks, BlockTaskCauseOfIOAndYield(t) PROVE NvmeCalls'
    <2>2. /\ waitingTask' = waitingTask /\ call' = [call EXCEPT ![t].at = "blocked"]
          /\ commandStatus' = commandStatus /\ DOMAIN state' = DOMAIN state /\ answer' = answer
        BY <1>5 DEF BlockTaskCauseOfIOAndYield, At, Goes, Block
    <2>3. call' \in [Tasks -> [at : {"out", "in", "rung", "listed", "blocked"}, cid : Cids]]
        BY <2>2
    <2>4. \A u \in Tasks : call'[u].cid = call[u].cid /\ (call'[u].at = call[u].at \/ call'[u].at = "blocked")
        BY <2>2
    <2> QED BY <2>2, <2>3, <2>4
<1>6. ASSUME NEW t \in Tasks, Return(t) PROVE NvmeCalls'
    <2>1. PICK c \in Cids : c = call[t].cid
        OBVIOUS
    <2>2. /\ waitingTask' = [waitingTask EXCEPT ![c] = NoTask] /\ call' = [call EXCEPT ![t].at = "out"]
          /\ commandStatus' = commandStatus /\ state' = state /\ answer' = answer
        BY <1>6, <2>1 DEF Return, At, Goes, dispatchVars
    <2>3. call' \in [Tasks -> [at : {"out", "in", "rung", "listed", "blocked"}, cid : Cids]]
        BY <2>2
    <2>4. \A u \in Tasks \ {t} : call'[u] = call[u]
        BY <2>2
    <2>5. ASSUME NEW d \in Cids, waitingTask'[d] # NoTask
          PROVE  /\ waitingTask'[d] \in Tasks /\ call'[waitingTask'[d]].cid = d
                 /\ call'[waitingTask'[d]].at \in {"listed", "blocked"}
        <3>1. d # c /\ waitingTask'[d] = waitingTask[d] /\ waitingTask[d] # t
            BY <2>1, <2>2, <2>5
        <3> QED BY <2>4, <2>5, <3>1
    <2> QED BY <2>2, <2>3, <2>5
<1>7. CASE Tick
    <2>1. waitingTask' = waitingTask /\ call' = call /\ commandStatus' = commandStatus /\ answer' = answer
        BY <1>7 DEF Tick, callVars
    <2>2. DOMAIN state' = Tasks
        BY <1>7 DEF Tick, Switch, SwitchTo, SwitchToIdle, Outgoing
    <2> QED BY <1>1, <2>1, <2>2
<1>8. CASE HandleInterrupt
    BY <1>1, <1>8 DEF HandleInterrupt, ProcessCompletionQueue
<1>9. ASSUME NEW w \in inside, NEW ok \in BOOLEAN, Complete(w, ok) PROVE NvmeCalls'
    BY <1>1, <1>9 DEF Complete, dispatchVars
<1>10. CASE AdminCommand \/ PollAdminCompletion \/ AdminCompletes \/ Fetch
    BY <1>2, <1>10 DEF AdminCommand, PollAdminCompletion, AdminCompletes, Fetch
<1>11. CASE UNCHANGED nvmeVars
    BY <1>2, <1>11 DEF nvmeVars
<1>12. ASSUME NEW t \in Tasks, Enter(t) \/ SubmitFails(t) PROVE NvmeCalls'
    <2>1. /\ call' = [call EXCEPT ![t].at = "in"] \/ call' = [call EXCEPT ![t].at = "out"]
          /\ call[t].at \in {"out", "in"} /\ waitingTask' = waitingTask /\ commandStatus' = commandStatus
          /\ answer' = answer
        BY <1>12 DEF Enter, SubmitFails, GoesOn, At, Goes
    <2>2. DOMAIN state' = DOMAIN state
        BY <1>12 DEF Enter, SubmitFails, Acquire, TakeFree, WaitFor, Block, Release, HandOver, SetFree,
                     UnblockTaskWithIOBoost, dispatchVars
    <2>3. call' \in [Tasks -> [at : {"out", "in", "rung", "listed", "blocked"}, cid : Cids]]
        BY <2>1
    <2>4. \A u \in Tasks : call[u].at \in {"listed", "blocked"} => call'[u] = call[u]
        BY <2>1
    <2> QED BY <2>1, <2>2, <2>3, <2>4
<1> QED BY <1>3, <1>4, <1>5, <1>6, <1>7, <1>8, <1>9, <1>10, <1>11, <1>12 DEF NvmeNext

LEMMA NvmeAdminStep ==
    ASSUME NvmeAdmin, NvmeCalls, [NvmeNext]_nvmeVars
    PROVE  NvmeAdmin'
<1>1. ASSUME UNCHANGED adminVars, \A t \in Tasks : boot = 4 \/ call'[t].at = call[t].at
      PROVE  NvmeAdmin'
    BY <1>1 DEF NvmeAdmin, adminVars
<1>2. CASE AdminCommand
    BY <1>2 DEF AdminCommand, AdminCommands, NvmeAdmin, callVars
<1>3. CASE AdminCompletes
    BY <1>3 DEF AdminCompletes, NvmeAdmin, callVars
<1>4. CASE PollAdminCompletion
    BY <1>4 DEF PollAdminCompletion, NvmeAdmin, callVars
<1>5. ASSUME NEW t \in Tasks, Enter(t) PROVE NvmeAdmin'
    <2>1. boot = 4 /\ UNCHANGED adminVars
        BY <1>5 DEF Enter, AdminCommands
    <2> QED BY <1>1, <2>1
<1>6. ASSUME NEW t \in Tasks,
             Submit(t) \/ SubmitFails(t) \/ ListTask(t) \/ BlockTaskCauseOfIOAndYield(t) \/ Return(t)
      PROVE  NvmeAdmin'
    <2>1. call[t].at # "out" /\ UNCHANGED adminVars
        BY <1>6 DEF Submit, SubmitFails, GoesOn, ListTask, BlockTaskCauseOfIOAndYield, Return, At
    <2>2. boot = 4
        BY <2>1 DEF NvmeAdmin
    <2> QED BY <1>1, <2>1, <2>2
<1>7. CASE HandleInterrupt
    <2>1. /\ boot' = boot /\ adminPosted' = adminPosted /\ polling' = polling /\ adminHead' = adminPosted
          /\ call' = call
        BY <1>7 DEF HandleInterrupt
    <2> QED BY <2>1 DEF NvmeAdmin
<1>8. CASE Tick
    BY <1>1, <1>8 DEF Tick, callVars
<1>9. CASE Fetch
    BY <1>1, <1>9 DEF Fetch, callVars
<1>10. ASSUME NEW w \in inside, NEW ok \in BOOLEAN, Complete(w, ok) PROVE NvmeAdmin'
    BY <1>1, <1>10 DEF Complete
<1>11. CASE UNCHANGED nvmeVars
    BY <1>1, <1>11 DEF nvmeVars, callVars
<1> QED BY <1>2, <1>3, <1>4, <1>5, <1>6, <1>7, <1>8, <1>9, <1>10, <1>11 DEF NvmeNext

\* Tasks with different calls have different identifiers.
LEMMA CidsApart ==
    ASSUME NvmeCalls, NvmeSound, NEW t \in Tasks, NEW u \in Tasks, Active(t), Active(u),
           call[t].cid = call[u].cid
    PROVE  t = u
BY NoTaskAssumption DEF NvmeCalls, NvmeSound, NvmeTask, NvmeTurns, NvmeTurn, Active

LEMMA SubmitSound ==
    ASSUME NvmeQueues, NvmeCalls, NvmeSound, NEW t \in Tasks, Submit(t), ~slipped', ~filled'
    PROVE  NvmeSound'
<1>1. PICK c \in Cids : /\ AllocateCID(c) /\ sq' = [sq EXCEPT ![sqTail] = [task |-> t, cid |-> c]]
                        /\ call' = [call EXCEPT ![t] = [at |-> "rung", cid |-> c]]
    BY DEF Submit
<1>2. /\ current = t /\ call[t].at = "in" /\ ~InQueue(t) /\ UNCHANGED lockVars /\ sqTail' = After(sqTail)
      /\ sqTail' # sqHead /\ answer' = [answer EXCEPT ![t] = "none"]
    BY DEF Submit, GoesOn, At, Running
<1>3. /\ state' = state /\ current' = current /\ runq' = runq /\ sqHead' = sqHead /\ inside' = inside /\ cq' = cq
      /\ cqTail' = cqTail /\ cqHead' = cqHead /\ irq' = irq /\ waitingTask' = waitingTask
      /\ commandStatus' = commandStatus /\ missed' = missed
    BY DEF Submit, dispatchVars
<1>4. PICK k, x : k = [task |-> t, cid |-> c] /\ x = <<"sq", sqTail, k>>
    OBVIOUS
<1>5. k.task = t /\ k.cid = c /\ k \in NvmeCommands /\ x[3] = k
    BY <1>4 DEF NvmeCommands
<1>6. Works' = Works \cup {x}
    BY <1>1, <1>2, <1>3, <1>4, SubmitWorks
<1>7. call'[t].at = "rung" /\ call'[t].cid = c /\ waitingTask[c] = NoTask /\ \A u \in Tasks \ {t} : call'[u] = call[u]
    BY <1>1 DEF AllocateCID, NvmeCalls
<1>8. ~AtWork(t)
    BY <1>2 DEF AtWork, WorksFor, NvmeSound, NvmeWorks, Owned, Active
<1>9. ASSUME NEW y \in Works PROVE y[3].task \in Tasks \ {t} /\ Owned(y[3])'
    <2>1. y[3].task # t
        BY <1>8 DEF AtWork, WorksFor
    <2>2. Owned(y[3])
        BY DEF NvmeSound, NvmeWorks
    <2> QED BY <1>7, <2>1, <2>2 DEF Owned, Active, NvmeCommands
<1>10. Owned(k)'
    BY <1>5, <1>7 DEF Owned, Active
<1>11. \A y \in Works' : Owned(y[3])'
    BY <1>5, <1>6, <1>9, <1>10
<1>12. OneEach(Works)
    BY DEF NvmeSound, NvmeWorks
<1>13. OneEach(Works')
    <2>1. SUFFICES ASSUME NEW y \in Works', NEW z \in Works', y[3].task = z[3].task PROVE y = z
        BY DEF OneEach
    <2>2. CASE y \in Works /\ z \in Works
        BY <1>12, <2>1, <2>2 DEF OneEach
    <2>3. CASE y = x \/ z = x
        BY <1>5, <1>6, <1>9, <2>1, <2>3
    <2> QED BY <1>6, <2>2, <2>3
<1>14. ASSUME NEW i \in Between(cqHead, cqTail)
       PROVE  irq /\ answer'[cq[i].of.task] = IF cq[i].ok THEN "done" ELSE "failed"
    <2>1. irq /\ answer[cq[i].of.task] = IF cq[i].ok THEN "done" ELSE "failed"
        BY DEF NvmeSound, NvmeWorks
    <2>2. PICK y \in Works : y[3] = cq[i].of
        <3>1. <<"cq", i, cq[i].of>> \in Works
            BY DEF Works, CqWorks
        <3>2. <<"cq", i, cq[i].of>>[3] = cq[i].of
            OBVIOUS
        <3> QED BY <3>1, <3>2
    <2>3. cq[i].of.task \in Tasks \ {t}
        BY <1>9, <2>2
    <2> QED BY <1>2, <2>1, <2>3 DEF NvmeCalls
<1>15. NvmeWorks'
    BY <1>3, <1>11, <1>13, <1>14 DEF NvmeWorks
<1>16. NvmePlaces'
    BY <1>3 DEF NvmeSound, NvmePlaces
<1>17. ASSUME NEW u \in Tasks PROVE AtWork(u)' <=> AtWork(u) \/ u = t
    BY <1>5, <1>6 DEF AtWork, WorksFor
<1>18. /\ owner[IOLock] = t /\ state[t] # "BLOCKED" /\ t \notin runq /\ t \notin missed
       /\ \A u \in Tasks \ {t} : call[u].at # "rung" /\ (call[u].at = "in" => InQueue(u))
    <2>1. NvmeTurn(t) /\ NvmeTask(t)
        BY DEF NvmeSound, NvmeTurns
    <2>2. owner[IOLock] = t /\ state[t] # "BLOCKED" /\ t \notin runq /\ t \notin missed
        BY <1>2, <2>1 DEF NvmeTurn, NvmeTask
    <2>3. ASSUME NEW u \in Tasks \ {t} PROVE call[u].at # "rung" /\ (call[u].at = "in" => InQueue(u))
        BY <2>2, <2>3 DEF NvmeSound, NvmeTurns, NvmeTurn
    <2> QED BY <2>2, <2>3
<1>19. NvmeTask(t)'
    <2>1. ~Woken(t)'
        BY <1>3, <1>18 DEF Woken
    <2> QED BY <1>3, <1>7, <1>17, <1>18, <2>1 DEF NvmeTask
<1>20. ASSUME NEW u \in Tasks \ {t} PROVE NvmeTask(u)'
    <2>1. NvmeTask(u)
        BY DEF NvmeSound
    <2>2. answer'[u] = answer[u]
        BY <1>2 DEF NvmeCalls
    <2>3. call'[u] = call[u] /\ (AtWork(u)' <=> AtWork(u))
        BY <1>7, <1>17
    <2> QED BY <1>3, <2>1, <2>2, <2>3, SameTask
<1>21. NvmeTurns'
    <2>1. UNCHANGED <<wl, queue, rejoined, owner>>
        BY <1>2 DEF lockVars, mutexVars
    <2>2. \A u \in Tasks : InQueue(u)' <=> InQueue(u)
        BY <2>1 DEF InQueue
    <2>3. LinksExact'
        BY <2>1, LinksStay DEF NvmeSound, NvmeTurns
    <2>4. ASSUME NEW u \in Tasks PROVE NvmeTurn(u)'
        <3>1. NvmeTurn(u)
            BY DEF NvmeSound, NvmeTurns
        <3>2. CASE u = t
            BY <1>2, <1>7, <1>18, <2>1, <2>2, <3>2 DEF NvmeTurn
        <3>3. CASE u # t
            BY <1>3, <1>7, <2>1, <2>2, <3>1, <3>3 DEF NvmeTurn
        <3> QED BY <3>2, <3>3
    <2> QED BY <2>3, <2>4 DEF NvmeTurns
<1> QED BY <1>15, <1>16, <1>19, <1>20, <1>21 DEF NvmeSound

\* Steps that leave the commands on their way alone.
LEMMA WorksStay ==
    ASSUME NvmeCalls, NvmeSound, UNCHANGED queueVars, answer' = answer,
           \A t \in Tasks : AtWork(t) => Active(t)' /\ call'[t].cid = call[t].cid
    PROVE  NvmeWorks' /\ Works' = Works
<1>1. /\ sq' = sq /\ sqTail' = sqTail /\ sqHead' = sqHead /\ inside' = inside /\ cq' = cq /\ cqTail' = cqTail
      /\ cqHead' = cqHead /\ irq' = irq
    BY DEF queueVars
<1>2. Works' = Works
    BY <1>1 DEF Works, SqWorks, InWorks, CqWorks
<1>3. ASSUME NEW x \in Works PROVE Owned(x[3])'
    <2>1. Owned(x[3])
        BY DEF NvmeSound, NvmeWorks
    <2>2. x[3].task \in Tasks
        BY <2>1 DEF Owned, NvmeCommands
    <2>3. AtWork(x[3].task)
        BY DEF AtWork, WorksFor
    <2> QED BY <2>1, <2>2, <2>3 DEF Owned
<1> QED BY <1>1, <1>2, <1>3 DEF NvmeSound, NvmeWorks

LEMMA ListSound ==
    ASSUME LockState, QueueTypes, NvmeQueues, NvmeCalls, NvmeSound, NEW t \in Tasks, ListTask(t)
    PROVE  NvmeSound'
<1>1. PICK c \in Cids : c = call[t].cid
    BY DEF NvmeCalls
<1>2. /\ current = t /\ call[t].at = "rung" /\ waitingTask' = [waitingTask EXCEPT ![c] = t] /\ Release(t, IOLock)
      /\ call' = [call EXCEPT ![t].at = "listed"]
    BY <1>1 DEF ListTask, At, Running, Goes
<1>3. /\ UNCHANGED queueVars
      /\ commandStatus' = commandStatus /\ missed' = missed /\ answer' = answer
    BY DEF ListTask
<1>4. call'[t].at = "listed" /\ call'[t].cid = c /\ \A u \in Tasks \ {t} : call'[u] = call[u]
    BY <1>1, <1>2 DEF NvmeCalls
<1>5. NvmeWorks' /\ Works' = Works
    <2>1. ASSUME NEW u \in Tasks, AtWork(u) PROVE Active(u)' /\ call'[u].cid = call[u].cid
        <3>1. u # t => Active(u)
            BY <2>1 DEF NvmeSound, NvmeWorks, Owned, AtWork, WorksFor
        <3> QED BY <1>1, <1>4, <3>1 DEF Active
    <2> QED BY <1>3, <2>1, WorksStay
<1>6. /\ NvmeTurns' /\ NvmePlaces' /\ state' = state /\ current' = current
      /\ \A u \in Tasks : call'[u].at # "in" => (u \in runq' <=> u \in runq)
    <2>1. ~InQueue(t) /\ owner[IOLock] = t
        BY <1>2 DEF NvmeSound, NvmeTurns, NvmeTurn
    <2> QED BY <1>2, <1>4, <2>1, LeavingTurns DEF NvmeSound
<1>7. ASSUME NEW u \in Tasks PROVE AtWork(u)' <=> AtWork(u)
    BY <1>5 DEF AtWork
<1>8. NvmeTask(t)'
    <2>1. NvmeTask(t)
        BY DEF NvmeSound
    <2>2. state[t] # "BLOCKED" /\ ~Woken(t) /\ (AtWork(t) \/ t \in missed) /\ (AtWork(t) => t \notin missed)
        BY <1>2, <2>1 DEF NvmeTask
    <2>3. ~Woken(t)'
        BY <1>2, <1>4, <1>6, <2>2 DEF Woken
    <2>4. waitingTask'[c] = t
        BY <1>2 DEF NvmeCalls
    <2> QED BY <1>3, <1>4, <1>6, <1>7, <2>2, <2>3, <2>4 DEF NvmeTask
<1>9. ASSUME NEW u \in Tasks \ {t} PROVE NvmeTask(u)'
    <2>1. NvmeTask(u)
        BY DEF NvmeSound
    <2>2. Active(u) => call[u].cid # c
        BY <1>1, <1>2, CidsApart DEF Active
    <2>3. ~Active(u) \/ waitingTask'[call[u].cid] = waitingTask[call[u].cid]
        BY <1>2, <2>2 DEF NvmeCalls
    <2>4. Woken(u)' <=> Woken(u)
        BY <1>4, <1>6 DEF Woken
    <2> QED BY <1>3, <1>4, <1>6, <1>7, <2>1, <2>3, <2>4, SameCall
<1> QED BY <1>5, <1>6, <1>8, <1>9 DEF NvmeSound

LEMMA EnterSound ==
    ASSUME LockState, QueueTypes, NvmeQueues, NvmeCalls, NvmeSound, NEW t \in Tasks, Enter(t)
    PROVE  NvmeSound' /\ UNCHANGED corrupt
<1>1. /\ current = t /\ call[t].at = "out" /\ Acquire(t, IOLock) /\ call' = [call EXCEPT ![t].at = "in"]
      /\ UNCHANGED queueVars /\ waitingTask' = waitingTask /\ commandStatus' = commandStatus
      /\ missed' = missed /\ answer' = answer
    BY DEF Enter, At, Running, Goes
<1>2. call'[t].at = "in" /\ \A u \in Tasks \ {t} : call'[u] = call[u]
    BY <1>1 DEF NvmeCalls
<1>3. NvmeTask(t) /\ NvmeTurn(t) /\ ~InQueue(t)
    BY <1>1 DEF NvmeSound, NvmeTurns, NvmeTurn
<1>4. t \notin missed /\ state[t] # "BLOCKED" /\ t \notin runq /\ ~AtWork(t)
    <2>1. ~AtWork(t)
        BY <1>1 DEF AtWork, WorksFor, NvmeSound, NvmeWorks, Owned, Active
    <2> QED BY <1>1, <1>3, <2>1 DEF NvmeTask, Woken
<1>5. t \in Contenders /\ IOLock \in Locks
    BY NvmeAssumption
<1>6. /\ LinksExact' /\ \A u \in Tasks \ {t} : InQueue(u)' <=> InQueue(u)
      /\ \/ /\ ~locked[IOLock] /\ ~InQueue(t)' /\ UNCHANGED <<state, current, runq, corrupt>>
            /\ owner' = [owner EXCEPT ![IOLock] = t] /\ owner'[IOLock] = t
         \/ /\ locked[IOLock] /\ InQueue(t)' /\ UNCHANGED <<owner, current, runq, corrupt>>
            /\ state' = [state EXCEPT ![t] = "BLOCKED"]
    BY <1>1, <1>3, <1>5, AcquireJoins DEF NvmeSound, NvmeTurns
<1>7. /\ current' = current /\ runq' = runq /\ corrupt' = corrupt /\ \A u \in Tasks \ {t} : state'[u] = state[u]
      /\ state'[t] = state[t] \/ state'[t] = "BLOCKED"
    BY <1>6 DEF NvmeCalls
<1>8. NvmePlaces'
    BY <1>7 DEF NvmeSound, NvmePlaces
<1>9. NvmeWorks' /\ Works' = Works
    <2>1. ASSUME NEW u \in Tasks, AtWork(u) PROVE Active(u)' /\ call'[u].cid = call[u].cid
        <3>1. u # t /\ Active(u)
            BY <1>4, <2>1 DEF NvmeSound, NvmeWorks, Owned, AtWork, WorksFor
        <3> QED BY <1>2, <3>1 DEF Active
    <2> QED BY <1>1, <2>1, WorksStay
<1>10. ASSUME NEW u \in Tasks PROVE AtWork(u)' <=> AtWork(u)
    BY <1>9 DEF AtWork
<1>11. NvmeTask(t)'
    <2>1. ~Woken(t)'
        BY <1>2 DEF Woken
    <2> QED BY <1>1, <1>2, <1>4, <1>10, <2>1 DEF NvmeTask
<1>12. ASSUME NEW u \in Tasks \ {t} PROVE NvmeTask(u)'
    <2>1. NvmeTask(u)
        BY DEF NvmeSound
    <2> QED BY <1>1, <1>2, <1>7, <1>10, <2>1, SameTask
<1>13. ASSUME NEW u \in Tasks PROVE NvmeTurn(u)'
    <2>1. CASE u = t
        <3>1. CASE ~locked[IOLock]
            BY <1>2, <1>4, <1>6, <2>1, <3>1 DEF NvmeTurn
        <3>2. CASE locked[IOLock]
            <4>1. state'[t] = "BLOCKED"
                BY <1>6, <3>2 DEF NvmeCalls
            <4> QED BY <1>2, <1>4, <1>6, <2>1, <3>2, <4>1 DEF NvmeTurn
        <3> QED BY <3>1, <3>2
    <2>2. CASE u # t
        <3>1. NvmeTurn(u) /\ u # NoTask
            BY NoTaskAssumption DEF NvmeSound, NvmeTurns
        <3>2. ~locked[IOLock] => owner[IOLock] = NoTask
            BY <1>5 DEF LockState
        <3>3. owner'[IOLock] = owner[IOLock] \/ owner[IOLock] = NoTask
            BY <1>6, <3>2
        <3> QED BY <1>2, <1>6, <1>7, <2>2, <3>1, <3>3 DEF NvmeTurn
    <2> QED BY <2>1, <2>2
<1>14. NvmeTurns'
    BY <1>6, <1>13 DEF NvmeTurns
<1> QED BY <1>7, <1>8, <1>9, <1>11, <1>12, <1>14 DEF NvmeSound

LEMMA FailSound ==
    ASSUME LockState, QueueTypes, NvmeQueues, NvmeCalls, NvmeSound, NEW t \in Tasks, SubmitFails(t), ~slipped'
    PROVE  NvmeSound'
<1>1. /\ current = t /\ call[t].at = "in" /\ ~InQueue(t) /\ Release(t, IOLock) /\ call' = [call EXCEPT ![t].at = "out"]
      /\ UNCHANGED queueVars /\ waitingTask' = waitingTask /\ commandStatus' = commandStatus
      /\ missed' = missed /\ answer' = answer
    BY DEF SubmitFails, GoesOn, At, Running, Goes
<1>2. call'[t].at = "out" /\ \A u \in Tasks \ {t} : call'[u] = call[u]
    BY <1>1 DEF NvmeCalls
<1>3. NvmeTask(t) /\ NvmeTurn(t)
    BY DEF NvmeSound, NvmeTurns
<1>4. t \notin missed /\ state[t] # "BLOCKED" /\ t \notin runq /\ owner[IOLock] = t /\ ~AtWork(t)
    <2>1. ~AtWork(t)
        BY <1>1 DEF AtWork, WorksFor, NvmeSound, NvmeWorks, Owned, Active
    <2> QED BY <1>1, <1>3, <2>1 DEF NvmeTask, NvmeTurn
<1>5. /\ NvmeTurns' /\ NvmePlaces' /\ state' = state /\ current' = current
      /\ \A u \in Tasks : call'[u].at # "in" => (u \in runq' <=> u \in runq)
    BY <1>1, <1>2, <1>4, LeavingTurns DEF NvmeSound
<1>6. NvmeWorks' /\ Works' = Works
    <2>1. ASSUME NEW u \in Tasks, AtWork(u) PROVE Active(u)' /\ call'[u].cid = call[u].cid
        <3>1. u # t /\ Active(u)
            BY <1>4, <2>1 DEF NvmeSound, NvmeWorks, Owned, AtWork, WorksFor
        <3> QED BY <1>2, <3>1 DEF Active
    <2> QED BY <1>1, <2>1, WorksStay
<1>7. ASSUME NEW u \in Tasks PROVE AtWork(u)' <=> AtWork(u)
    BY <1>6 DEF AtWork
<1>8. NvmeTask(t)'
    <2>1. ~Woken(t)' /\ ~AtWork(t)' /\ t \notin missed' /\ state'[t] # "BLOCKED"
        BY <1>1, <1>2, <1>4, <1>5, <1>7 DEF Woken
    <2> QED BY <1>2, <2>1 DEF NvmeTask
<1>9. ASSUME NEW u \in Tasks \ {t} PROVE NvmeTask(u)'
    <2>1. NvmeTask(u)
        BY DEF NvmeSound
    <2>2. Woken(u)' <=> Woken(u)
        BY <1>2, <1>5 DEF Woken
    <2> QED BY <1>1, <1>2, <1>5, <1>7, <2>1, <2>2, SameCall
<1> QED BY <1>5, <1>6, <1>8, <1>9 DEF NvmeSound

LEMMA BlockSound ==
    ASSUME NvmeQueues, NvmeCalls, NvmeSound, NEW t \in Tasks, BlockTaskCauseOfIOAndYield(t)
    PROVE  NvmeSound'
<1>1. /\ current = t /\ call[t].at = "listed" /\ call' = [call EXCEPT ![t].at = "blocked"]
      /\ state' = [state EXCEPT ![t] = "BLOCKED"]
    BY DEF BlockTaskCauseOfIOAndYield, At, Running, Goes, Block
<1>2. /\ current' = current /\ runq' = runq /\ UNCHANGED queueVars /\ waitingTask' = waitingTask
      /\ commandStatus' = commandStatus /\ UNCHANGED lockVars /\ missed' = missed /\ answer' = answer
    BY DEF BlockTaskCauseOfIOAndYield, Block
<1>3. /\ call'[t].at = "blocked" /\ call'[t].cid = call[t].cid /\ state'[t] = "BLOCKED"
      /\ \A u \in Tasks \ {t} : call'[u] = call[u] /\ state'[u] = state[u]
    BY <1>1 DEF NvmeCalls
<1>4. NvmeWorks' /\ Works' = Works
    <2>1. ASSUME NEW u \in Tasks, AtWork(u) PROVE Active(u)' /\ call'[u].cid = call[u].cid
        <3>1. u # t => Active(u)
            BY <2>1 DEF NvmeSound, NvmeWorks, Owned, AtWork, WorksFor
        <3> QED BY <1>3, <3>1 DEF Active
    <2> QED BY <1>2, <2>1, WorksStay
<1>5. NvmePlaces'
    BY <1>1, <1>2, <1>3 DEF NvmeSound, NvmePlaces
<1>9. NvmeTurns'
    BY <1>1, <1>2, <1>3, SameTurns DEF NvmeSound
<1>6. ASSUME NEW u \in Tasks PROVE AtWork(u)' <=> AtWork(u)
    BY <1>4 DEF AtWork
<1>7. NvmeTask(t)'
    <2>1. NvmeTask(t)
        BY DEF NvmeSound
    <2>2. /\ waitingTask[call[t].cid] = t /\ (AtWork(t) \/ t \in missed \/ Woken(t)) /\ (AtWork(t) => t \notin missed)
          /\ Woken(t) => ~AtWork(t) /\ t \notin missed /\ Answered(t)
        BY <1>1, <2>1 DEF NvmeTask
    <2>3. Woken(t)' <=> Woken(t)
        BY <1>1, <1>2, <1>3 DEF Woken
    <2>4. Answered(t)' <=> Answered(t)
        BY <1>2, <1>3 DEF Answered
    <2> QED BY <1>2, <1>3, <1>6, <2>2, <2>3, <2>4 DEF NvmeTask
<1>8. ASSUME NEW u \in Tasks \ {t} PROVE NvmeTask(u)'
    <2>1. NvmeTask(u)
        BY DEF NvmeSound
    <2> QED BY <1>2, <1>3, <1>6, <2>1, SameTask
<1> QED BY <1>4, <1>5, <1>7, <1>8, <1>9 DEF NvmeSound

LEMMA ReturnSound ==
    ASSUME NvmeQueues, NvmeCalls, NvmeSound, NEW t \in Tasks, Return(t), ~ranOn'
    PROVE  NvmeSound' /\ (wrong' => wrong)
<1>1. PICK c \in Cids : c = call[t].cid
    BY DEF NvmeCalls
<1>2. /\ current = t /\ call[t].at = "blocked" /\ waitingTask' = [waitingTask EXCEPT ![c] = NoTask]
      /\ call' = [call EXCEPT ![t].at = "out"] /\ state[t] # "BLOCKED" /\ missed' = missed \ {t}
      /\ wrong' = (wrong \/ answer[t] # (IF commandStatus[c] THEN "done" ELSE "failed"))
    BY <1>1 DEF Return, At, Running, Goes
<1>3. /\ state' = state /\ current' = current /\ runq' = runq /\ UNCHANGED queueVars
      /\ commandStatus' = commandStatus /\ UNCHANGED lockVars /\ answer' = answer
    BY DEF Return, dispatchVars
<1>4. call'[t].at = "out" /\ call'[t].cid = c /\ \A u \in Tasks \ {t} : call'[u] = call[u]
    BY <1>1, <1>2 DEF NvmeCalls
<1>5. NvmeTask(t)
    BY DEF NvmeSound
<1>6. Answered(t) /\ ~AtWork(t) /\ t \notin missed /\ ~Woken(t)
    BY <1>2, <1>5 DEF NvmeTask
<1>7. wrong' = (wrong \/ FALSE)
    BY <1>1, <1>2, <1>6 DEF Answered
<1>8. NvmeWorks' /\ Works' = Works
    <2>1. ASSUME NEW u \in Tasks, AtWork(u) PROVE Active(u)' /\ call'[u].cid = call[u].cid
        <3>1. u # t /\ Active(u)
            BY <1>6, <2>1 DEF NvmeSound, NvmeWorks, Owned, AtWork, WorksFor
        <3> QED BY <1>4, <3>1 DEF Active
    <2> QED BY <1>3, <2>1, WorksStay
<1>9. NvmePlaces'
    BY <1>3 DEF NvmeSound, NvmePlaces
<1>10. ASSUME NEW u \in Tasks PROVE AtWork(u)' <=> AtWork(u)
    BY <1>8 DEF AtWork
<1>11. NvmeTask(t)'
    <2>1. ~Woken(t)' /\ ~AtWork(t)' /\ t \notin missed' /\ state'[t] # "BLOCKED"
        BY <1>2, <1>3, <1>6, <1>10 DEF Woken
    <2> QED BY <1>4, <2>1 DEF NvmeTask
<1>12. ASSUME NEW u \in Tasks \ {t} PROVE NvmeTask(u)'
    <2>1. NvmeTask(u)
        BY DEF NvmeSound
    <2>2. Active(u) => call[u].cid # c
        BY <1>1, <1>2, CidsApart DEF Active
    <2>3. ~Active(u) \/ waitingTask'[call[u].cid] = waitingTask[call[u].cid]
        BY <1>2, <2>2 DEF NvmeCalls
    <2>4. u \in missed' <=> u \in missed
        BY <1>2
    <2> QED BY <1>3, <1>4, <1>10, <2>1, <2>3, <2>4, SameTask
<1>14. NvmeTurns'
    BY <1>2, <1>3, <1>4, SameTurns DEF NvmeSound
<1>13. wrong' => wrong
    BY <1>7
<1> QED BY <1>8, <1>9, <1>11, <1>12, <1>13, <1>14 DEF NvmeSound

LEMMA FetchSound ==
    ASSUME NvmeQueues, NvmeCalls, NvmeSound, Fetch
    PROVE  NvmeSound'
<1>1. /\ state' = state /\ current' = current /\ runq' = runq /\ UNCHANGED callVars /\ UNCHANGED lockVars
      /\ cq' = cq /\ cqTail' = cqTail /\ cqHead' = cqHead /\ irq' = irq
    BY DEF Fetch, dispatchVars
<1>2. /\ call' = call /\ waitingTask' = waitingTask /\ commandStatus' = commandStatus
      /\ missed' = missed /\ answer' = answer
    BY <1>1 DEF callVars
<1>3. OneEach(Works)
    BY DEF NvmeSound, NvmeWorks
<1>4. PICK W, W2 : W = Works /\ W2 = Works'
    OBVIOUS
<1>5. /\ OneEach(W2) /\ \A t : WorksFor(W2, t) <=> WorksFor(W, t)
      /\ \A z \in W2 : \E x \in W : x[3] = z[3]
    BY <1>3, <1>4, FetchWorks, MovingKeeps
<1>6. ASSUME NEW k, Owned(k) PROVE Owned(k)'
    BY <1>2, <1>6 DEF Owned, Active
<1>7. \A z \in W2 : Owned(z[3])'
    <2>1. ASSUME NEW z \in W2 PROVE Owned(z[3])'
        <3>1. PICK x \in W : x[3] = z[3]
            BY <1>5
        <3>2. Owned(x[3])
            BY <1>4 DEF NvmeSound, NvmeWorks
        <3> QED BY <1>6, <3>1, <3>2
    <2> QED BY <2>1
<1>8. NvmeWorks'
    BY <1>1, <1>2, <1>4, <1>5, <1>7 DEF NvmeWorks, NvmeSound
<1>9. NvmePlaces'
    BY <1>1 DEF NvmeSound, NvmePlaces
<1>10. ASSUME NEW u \in Tasks PROVE NvmeTask(u)'
    <2>1. NvmeTask(u) /\ (AtWork(u)' <=> AtWork(u))
        BY <1>4, <1>5 DEF NvmeSound, AtWork
    <2> QED BY <1>1, <1>2, <2>1, SameTask
<1>11. NvmeTurns'
    BY <1>1, <1>2, SameTurns DEF NvmeSound
<1> QED BY <1>8, <1>9, <1>10, <1>11 DEF NvmeSound

LEMMA CompleteSound ==
    ASSUME NvmeQueues, NvmeCalls, NvmeSound, NEW w \in inside, NEW ok \in BOOLEAN, Complete(w, ok)
    PROVE  NvmeSound'
<1>1. /\ state' = state /\ current' = current /\ runq' = runq /\ cqHead' = cqHead /\ irq' = TRUE
      /\ call' = call /\ waitingTask' = waitingTask /\ commandStatus' = commandStatus /\ UNCHANGED lockVars
      /\ missed' = missed /\ answer' = [answer EXCEPT ![w.of.task] = IF ok THEN "done" ELSE "failed"]
      /\ cq' = [cq EXCEPT ![cqTail] = [phase |-> phase, of |-> w.of, ok |-> ok]]
    BY DEF Complete, dispatchVars
<1>2. OneEach(Works)
    BY DEF NvmeSound, NvmeWorks
<1>3. PICK W, W2 : W = Works /\ W2 = Works'
    OBVIOUS
<1>4. /\ OneEach(W2) /\ \A t : WorksFor(W2, t) <=> WorksFor(W, t)
      /\ \A z \in W2 : \E x \in W : x[3] = z[3]
    BY <1>2, <1>3, CompleteWorks, MovingKeeps
<1>5. ASSUME NEW k, Owned(k) PROVE Owned(k)'
    BY <1>1, <1>5 DEF Owned, Active
<1>6. \A z \in W2 : Owned(z[3])'
    <2>1. ASSUME NEW z \in W2 PROVE Owned(z[3])'
        <3>1. PICK x \in W : x[3] = z[3]
            BY <1>4
        <3>2. Owned(x[3])
            BY <1>3 DEF NvmeSound, NvmeWorks
        <3> QED BY <1>5, <3>1, <3>2
    <2> QED BY <2>1
<1>7. PICK a : a = <<"in", w.slot, w.of>>
    OBVIOUS
<1>8. a \in Works /\ a[3] = w.of /\ a[1] = "in"
    BY <1>7 DEF Works, InWorks
<1>9. w.of.task \in Tasks /\ AtWork(w.of.task)
    <2>1. Owned(w.of)
        BY <1>8 DEF NvmeSound, NvmeWorks
    <2> QED BY <1>8, <2>1 DEF Owned, NvmeCommands, AtWork, WorksFor
<1>10. ASSUME NEW i \in Between(cqHead', cqTail')
       PROVE  irq' /\ answer'[cq'[i].of.task] = IF cq'[i].ok THEN "done" ELSE "failed"
    <2>1. DOMAIN cq = Index /\ cqTail \in Index /\ i \in Index /\ DOMAIN answer = Tasks
        BY DEF NvmeQueues, NvmeCalls, Between
    <2>2. CASE i = cqTail
        <3>1. cq'[i].of = w.of /\ cq'[i].ok = ok
            BY <1>1, <2>1, <2>2
        <3>2. answer'[w.of.task] = IF ok THEN "done" ELSE "failed"
            BY <1>1, <1>9, <2>1
        <3> QED BY <1>1, <3>1, <3>2
    <2>3. CASE i # cqTail
        <3>1. i \in Between(cqHead, cqTail)
            BY <2>3, CompleteWorks
        <3>2. cq'[i] = cq[i]
            BY <1>1, <2>1, <2>3
        <3>3. answer[cq[i].of.task] = IF cq[i].ok THEN "done" ELSE "failed"
            BY <3>1 DEF NvmeSound, NvmeWorks
        <3>4. PICK b : b = <<"cq", i, cq[i].of>>
            OBVIOUS
        <3>5. b \in Works /\ b[3] = cq[i].of /\ b # a
            BY <1>7, <3>1, <3>4 DEF Works, CqWorks
        <3>6. cq[i].of.task # w.of.task
            BY <1>2, <1>8, <3>5 DEF OneEach
        <3>7. answer'[cq[i].of.task] = answer[cq[i].of.task]
            BY <1>1, <3>6
        <3> QED BY <1>1, <3>2, <3>3, <3>7
    <2> QED BY <2>2, <2>3
<1>11. NvmeWorks'
    BY <1>3, <1>4, <1>6, <1>10 DEF NvmeWorks
<1>12. NvmePlaces'
    BY <1>1 DEF NvmeSound, NvmePlaces
<1>13. ASSUME NEW u \in Tasks PROVE NvmeTask(u)'
    <2>1. NvmeTask(u) /\ (AtWork(u)' <=> AtWork(u))
        BY <1>3, <1>4 DEF NvmeSound, AtWork
    <2>2. AtWork(u) \/ answer'[u] = answer[u]
        BY <1>1, <1>9
    <2> QED BY <1>1, <2>1, <2>2, SameTask
<1>14. NvmeTurns'
    BY <1>1, SameTurns DEF NvmeSound
<1> QED BY <1>11, <1>12, <1>13, <1>14 DEF NvmeSound

\* What the handler does for the entries it finds: each names the call that waits for
\* it, and no other.
Handled(t) == \E i \in Between(cqHead, cqTail) : cq[i].of.task = t

LEMMA HandlerFinds ==
    ASSUME NvmeQueues, NvmeCalls, NvmeSound, HandleInterrupt
    PROVE  /\ cqHead' = cqTail /\ runq' \subseteq Tasks
           /\ \A t \in Tasks : ~Handled(t) =>
                /\ t \in missed' <=> t \in missed
                /\ t \in runq' <=> t \in runq
                /\ ~Active(t) \/ commandStatus'[call[t].cid] = commandStatus[call[t].cid]
           /\ \A t \in Tasks : Handled(t) =>
                /\ waitingTask[call[t].cid] = NoTask => t \in missed' /\ (t \in runq' <=> t \in runq)
                /\ waitingTask[call[t].cid] = t =>
                      /\ t \in missed' <=> t \in missed
                      /\ t \in runq' /\ (corrupt' \/ t \notin runq)
                      /\ answer[t] = IF commandStatus'[call[t].cid] THEN "done" ELSE "failed"
<1>1. PICK n : n = Gap(cqHead, cqTail)
    OBVIOUS
<1>2. /\ NewEntries = 0..(n - 1) /\ Cardinality(NewEntries) = n /\ (cqHead + n) % Depth = cqTail
      /\ \A k \in NewEntries : (cqHead + k) % Depth \in Between(cqHead, cqTail)
      /\ \A i \in Between(cqHead, cqTail) : \E k \in NewEntries : (cqHead + k) % Depth = i
      /\ \A k, j \in NewEntries : (cqHead + k) % Depth = (cqHead + j) % Depth => k = j
    BY <1>1, NewEntriesKnown
<1>3. /\ cqHead' = cqTail
      /\ commandStatus' = [c \in Cids |->
             IF \E k \in NewEntries : Entry(k).of.cid = c
             THEN Entry(CHOOSE k \in NewEntries : /\ Entry(k).of.cid = c
                                                  /\ \A j \in NewEntries : Entry(j).of.cid = c => j <= k).ok
             ELSE commandStatus[c]]
      /\ runq' = runq \cup {waitingTask[Entry(k).of.cid] : k \in {j \in NewEntries : waitingTask[Entry(j).of.cid] # NoTask}}
      /\ corrupt' \/ {waitingTask[Entry(k).of.cid] : k \in {j \in NewEntries : waitingTask[Entry(j).of.cid] # NoTask}}
                        \cap runq = {}
      /\ missed' = missed \cup
            {Entry(k).of.task : k \in NewEntries \ {j \in NewEntries : waitingTask[Entry(j).of.cid] # NoTask}}
    BY <1>2 DEF HandleInterrupt, ProcessCompletionQueue, StatusOf
<1>4. ASSUME NEW k \in NewEntries
      PROVE  /\ Entry(k).of.task \in Tasks /\ Entry(k).of.cid \in Cids
             /\ Active(Entry(k).of.task) /\ call[Entry(k).of.task].cid = Entry(k).of.cid
             /\ answer[Entry(k).of.task] = IF Entry(k).ok THEN "done" ELSE "failed"
             /\ Handled(Entry(k).of.task)
    <2>1. PICK i : i = (cqHead + k) % Depth
        OBVIOUS
    <2>2. i \in Between(cqHead, cqTail) /\ Entry(k) = cq[i]
        BY <1>2, <2>1 DEF Entry
    <2>3. PICK x : x = <<"cq", i, cq[i].of>>
        OBVIOUS
    <2>4. x \in Works /\ x[3] = cq[i].of
        BY <2>2, <2>3 DEF Works, CqWorks
    <2>5. Owned(cq[i].of)
        BY <2>4 DEF NvmeSound, NvmeWorks
    <2>6. answer[cq[i].of.task] = IF cq[i].ok THEN "done" ELSE "failed"
        BY <2>2 DEF NvmeSound, NvmeWorks
    <2> QED BY <2>2, <2>5, <2>6 DEF Owned, NvmeCommands, Handled
<1>5. ASSUME NEW t \in Tasks, NEW k \in NewEntries, Active(t), call[t].cid = Entry(k).of.cid
      PROVE  Entry(k).of.task = t
    BY <1>4, <1>5, CidsApart
<1>6. ASSUME NEW k \in NewEntries, NEW j \in NewEntries, Entry(k).of.cid = Entry(j).of.cid
      PROVE  k = j
    <2>1. PICK a, b : a = (cqHead + k) % Depth /\ b = (cqHead + j) % Depth
        OBVIOUS
    <2>2. a \in Between(cqHead, cqTail) /\ Entry(k) = cq[a] /\ b \in Between(cqHead, cqTail) /\ Entry(j) = cq[b]
        BY <1>2, <2>1 DEF Entry
    <2>3. cq[a].of.task = cq[b].of.task
        BY <1>4, <1>5, <1>6, <2>2
    <2>4. PICK x, y : x = <<"cq", a, cq[a].of>> /\ y = <<"cq", b, cq[b].of>>
        OBVIOUS
    <2>5. x \in Works /\ y \in Works /\ x[3] = cq[a].of /\ y[3] = cq[b].of /\ x[2] = a /\ y[2] = b
        BY <2>2, <2>4 DEF Works, CqWorks
    <2>6. x = y
        BY <2>3, <2>5 DEF NvmeSound, NvmeWorks, OneEach
    <2>7. a = b
        BY <2>5, <2>6
    <2> QED BY <1>2, <2>1, <2>7
<1>7. ASSUME NEW k \in NewEntries
      PROVE  commandStatus'[Entry(k).of.cid] = Entry(k).ok
    <2>1. PICK c \in Cids : c = Entry(k).of.cid
        BY <1>4
    <2>2. PICK m : m = CHOOSE z \in NewEntries : /\ Entry(z).of.cid = c
                                                 /\ \A j \in NewEntries : Entry(j).of.cid = c => j <= z
        OBVIOUS
    <2>3. k <= k
        BY <1>1, <1>2, NewEntriesKnown
    <2>4. \A j \in NewEntries : Entry(j).of.cid = c => j <= k
        BY <1>6, <2>1, <2>3
    <2>5. m \in NewEntries /\ Entry(m).of.cid = c
        BY <2>1, <2>2, <2>4, Zenon
    <2>6. m = k
        BY <1>6, <2>1, <2>5
    <2>7. commandStatus'[c] = Entry(m).ok
        <3>1. \E z \in NewEntries : Entry(z).of.cid = c
            BY <2>1
        <3> QED BY <1>3, <2>2, <3>1, Zenon
    <2> QED BY <2>1, <2>6, <2>7
<1>8. ASSUME NEW k \in NewEntries, waitingTask[Entry(k).of.cid] # NoTask
      PROVE  waitingTask[Entry(k).of.cid] = Entry(k).of.task
    <2>1. PICK c \in Cids : c = Entry(k).of.cid
        BY <1>4
    <2>2. waitingTask[c] \in Tasks /\ call[waitingTask[c]].cid = c /\ call[waitingTask[c]].at \in {"listed", "blocked"}
        BY <1>8, <2>1 DEF NvmeCalls
    <2> QED BY <1>5, <2>1, <2>2 DEF Active
<1>9. ASSUME NEW t \in Tasks, ~Handled(t)
      PROVE  /\ t \in missed' <=> t \in missed
             /\ t \in runq' <=> t \in runq
             /\ ~Active(t) \/ commandStatus'[call[t].cid] = commandStatus[call[t].cid]
    <2>1. \A k \in NewEntries : Entry(k).of.task # t
        BY <1>4, <1>9
    <2>2. t \in missed' <=> t \in missed
        BY <1>3, <2>1
    <2>3. t \in runq' <=> t \in runq
        BY <1>3, <1>8, <2>1
    <2>4. ASSUME Active(t) PROVE commandStatus'[call[t].cid] = commandStatus[call[t].cid]
        <3>1. ~ \E k \in NewEntries : Entry(k).of.cid = call[t].cid
            BY <1>5, <2>1, <2>4
        <3>2. call[t].cid \in Cids
            BY DEF NvmeCalls
        <3> QED BY <1>3, <3>1, <3>2, Zenon
    <2> QED BY <2>2, <2>3, <2>4
<1>10. ASSUME NEW t \in Tasks, Handled(t)
       PROVE  /\ waitingTask[call[t].cid] = NoTask => t \in missed' /\ (t \in runq' <=> t \in runq)
              /\ waitingTask[call[t].cid] = t =>
                      /\ t \in missed' <=> t \in missed
                      /\ t \in runq' /\ (corrupt' \/ t \notin runq)
                      /\ answer[t] = IF commandStatus'[call[t].cid] THEN "done" ELSE "failed"
    <2>1. PICK k \in NewEntries : Entry(k).of.task = t
        BY <1>2, <1>10 DEF Handled, Entry
    <2>2. call[t].cid = Entry(k).of.cid /\ call[t].cid \in Cids
        BY <1>4, <2>1
    <2>3. \A j \in NewEntries : Entry(j).of.task = t => j = k
        BY <1>4, <1>6, <2>1
    <2>4. ASSUME waitingTask[call[t].cid] = NoTask PROVE t \in missed' /\ (t \in runq' <=> t \in runq)
        <3>1. t \in missed'
            BY <1>3, <2>1, <2>2, <2>4
        <3>2. \A j \in NewEntries : waitingTask[Entry(j).of.cid] # NoTask => waitingTask[Entry(j).of.cid] # t
            BY <1>8, <2>2, <2>3, <2>4
        <3> QED BY <1>3, <3>1, <3>2
    <2>5. ASSUME waitingTask[call[t].cid] = t
          PROVE  /\ t \in missed' <=> t \in missed
                 /\ t \in runq' /\ (corrupt' \/ t \notin runq)
                 /\ answer[t] = IF commandStatus'[call[t].cid] THEN "done" ELSE "failed"
        <3>1. t # NoTask
            BY NoTaskAssumption
        <3>2. t \in {waitingTask[Entry(z).of.cid] : z \in {j \in NewEntries : waitingTask[Entry(j).of.cid] # NoTask}}
            BY <2>2, <2>5, <3>1
        <3>3. t \in runq' /\ (corrupt' \/ t \notin runq)
            BY <1>3, <3>2
        <3>4. t \in missed' <=> t \in missed
            BY <1>3, <2>2, <2>3, <2>5, <3>1
        <3> QED BY <1>4, <1>7, <2>1, <2>2, <3>3, <3>4
    <2> QED BY <2>4, <2>5
<1>11. runq' \subseteq Tasks
    BY <1>3, <1>4, <1>8 DEF NvmeSound, NvmePlaces
<1> QED BY <1>3, <1>9, <1>10, <1>11

LEMMA HandleSound ==
    ASSUME NvmeQueues, NvmeCalls, NvmeSound, HandleInterrupt, ~corrupt'
    PROVE  NvmeSound'
<1>1. /\ state' = state /\ current' = current /\ sq' = sq /\ sqTail' = sqTail /\ sqHead' = sqHead /\ inside' = inside
      /\ cq' = cq /\ cqTail' = cqTail /\ waitingTask' = waitingTask /\ UNCHANGED lockVars /\ call' = call
      /\ answer' = answer
    BY DEF HandleInterrupt
<1>2. cqHead' = cqTail /\ runq' \subseteq Tasks
    BY HandlerFinds
<1>3. Between(cqTail, cqTail) = {}
    BY QueueEmpty DEF NvmeQueues
<1>4. CqWorks' = {} /\ SqWorks' = SqWorks /\ InWorks' = InWorks
    BY <1>1, <1>2, <1>3 DEF CqWorks, SqWorks, InWorks
<1>5. Works' \subseteq Works
    BY <1>4 DEF Works
<1>6. ASSUME NEW k, Owned(k) PROVE Owned(k)'
    BY <1>1, <1>6 DEF Owned, Active
<1>7. NvmeWorks'
    <2>1. \A x \in Works' : Owned(x[3])'
        BY <1>5, <1>6 DEF NvmeSound, NvmeWorks
    <2>2. OneEach(Works')
        BY <1>5 DEF NvmeSound, NvmeWorks, OneEach
    <2> QED BY <1>1, <1>2, <1>3, <2>1, <2>2 DEF NvmeWorks
<1>8. ASSUME NEW t \in Tasks PROVE AtWork(t)' <=> AtWork(t) /\ ~Handled(t)
    <2>1. ASSUME NEW x \in CqWorks PROVE Handled(x[3].task)
        BY DEF CqWorks, Handled
    <2>2. ASSUME Handled(t) PROVE \E x \in CqWorks : x[3].task = t
        <3>1. PICK i \in Between(cqHead, cqTail) : cq[i].of.task = t
            BY <2>2 DEF Handled
        <3>2. <<"cq", i, cq[i].of>> \in CqWorks /\ <<"cq", i, cq[i].of>>[3] = cq[i].of
            BY DEF CqWorks
        <3> QED BY <3>1, <3>2
    <2>3. ASSUME NEW x \in CqWorks, NEW y \in SqWorks \cup InWorks PROVE x # y
        BY DEF CqWorks, SqWorks, InWorks
    <2>4. ASSUME Handled(t), AtWork(t)' PROVE FALSE
        <3>1. PICK x \in CqWorks : x[3].task = t
            BY <2>2, <2>4
        <3>2. PICK y \in SqWorks \cup InWorks : y[3].task = t
            BY <1>4, <2>4 DEF AtWork, WorksFor, Works
        <3>3. x = y
            BY <3>1, <3>2 DEF NvmeSound, NvmeWorks, OneEach, Works
        <3> QED BY <2>3, <3>3
    <2>5. AtWork(t)' => AtWork(t)
        BY <1>5 DEF AtWork, WorksFor
    <2>6. AtWork(t) /\ ~Handled(t) => AtWork(t)'
        BY <1>4, <2>1 DEF AtWork, WorksFor, Works
    <2> QED BY <2>4, <2>5, <2>6
<1>9. ASSUME NEW t \in Tasks, Handled(t) PROVE AtWork(t) /\ Active(t)
    <2>1. PICK i \in Between(cqHead, cqTail) : cq[i].of.task = t
        BY <1>9 DEF Handled
    <2>2. PICK x : x = <<"cq", i, cq[i].of>>
        OBVIOUS
    <2>3. x \in Works /\ x[3] = cq[i].of
        BY <2>2 DEF Works, CqWorks
    <2>4. Owned(x[3])
        BY <2>3 DEF NvmeSound, NvmeWorks
    <2> QED BY <2>1, <2>3, <2>4 DEF AtWork, WorksFor, Owned
<1>10. ASSUME NEW t \in Tasks PROVE t \in runq => t \in runq'
    <2>1. NvmeTask(t)
        BY DEF NvmeSound
    <2>2. waitingTask[call[t].cid] \in {NoTask, t} \/ ~Handled(t)
        BY <1>9, <2>1 DEF NvmeTask, NvmeCalls, Active
    <2> QED BY <2>2, HandlerFinds
<1>11. NvmePlaces'
    BY <1>1, <1>2, <1>10 DEF NvmeSound, NvmePlaces
<1>12. ASSUME NEW t \in Tasks, ~Handled(t) PROVE NvmeTask(t)'
    <2>1. NvmeTask(t)
        BY DEF NvmeSound
    <2>2. /\ t \in missed' <=> t \in missed
          /\ t \in runq' <=> t \in runq
          /\ ~Active(t) \/ commandStatus'[call[t].cid] = commandStatus[call[t].cid]
        BY <1>12, HandlerFinds
    <2>3. AtWork(t)' <=> AtWork(t)
        BY <1>8, <1>12
    <2>4. \/ call[t].at \in {"out", "in", "rung"} \/ Active(t)
        BY DEF NvmeCalls, Active
    <2> QED BY <1>1, <2>1, <2>2, <2>3, <2>4, SameTask
<1>13. ASSUME NEW t \in Tasks, Handled(t) PROVE NvmeTask(t)'
    <2>1. NvmeTask(t) /\ AtWork(t) /\ ~AtWork(t)' /\ Active(t)
        BY <1>8, <1>9, <1>13 DEF NvmeSound
    <2>2. t \notin missed /\ ~Woken(t) /\ (call[t].at = "blocked" => state[t] = "BLOCKED")
        BY <2>1 DEF NvmeTask, Active
    <2>3. CASE call[t].at = "rung"
        <3>1. waitingTask[call[t].cid] = NoTask /\ state[t] # "BLOCKED"
            BY <2>1, <2>3 DEF NvmeTask
        <3>2. t \in missed' /\ (t \in runq' <=> t \in runq)
            BY <1>13, <3>1, HandlerFinds
        <3>3. ~Woken(t)'
            BY <1>1, <2>2, <3>2 DEF Woken
        <3> QED BY <1>1, <2>1, <2>3, <3>1, <3>2, <3>3 DEF NvmeTask
    <2>4. CASE call[t].at \in {"listed", "blocked"}
        <3>1. waitingTask[call[t].cid] = t
            BY <2>1, <2>4 DEF NvmeTask
        <3>2. /\ t \in missed' <=> t \in missed
              /\ t \in runq' /\ t \notin runq
              /\ answer[t] = IF commandStatus'[call[t].cid] THEN "done" ELSE "failed"
            BY <1>13, <3>1, HandlerFinds
        <3>3. t = current \/ state[t] = "BLOCKED"
            BY <3>2 DEF NvmeSound, NvmePlaces
        <3>4. Woken(t)' /\ Answered(t)' /\ t \notin missed'
            BY <1>1, <2>2, <2>4, <3>2, <3>3 DEF Woken, Answered
        <3>5. call[t].at = "listed" => state[t] # "BLOCKED"
            BY <2>1 DEF NvmeTask
        <3> QED BY <1>1, <2>1, <2>2, <2>4, <3>1, <3>4, <3>5 DEF NvmeTask
    <2>5. call[t].at \in {"rung", "listed", "blocked"}
        BY <2>1 DEF Active
    <2> QED BY <2>3, <2>4, <2>5
<1>14. NvmeTurns'
    <2>1. ASSUME NEW t \in Tasks, call[t].at = "in" PROVE t \in runq' <=> t \in runq
        BY <1>9, <2>1, HandlerFinds DEF Active
    <2> QED BY <1>1, <2>1, SameTurns DEF NvmeSound
<1> QED BY <1>7, <1>11, <1>12, <1>13, <1>14 DEF NvmeSound

\* A tick moves only the tasks that ask for the lock between processor and queue.
LEMMA TicksKeepTurns ==
    ASSUME NvmeTurns, UNCHANGED lockVars, call' = call, \A t \in Tasks : call[t].at = "in" => NvmeTurn(t)'
    PROVE  NvmeTurns'
<1>1. UNCHANGED <<wl, queue, rejoined, owner>>
    BY DEF lockVars, mutexVars
<1>2. \A t \in Tasks : InQueue(t)' <=> InQueue(t)
    BY <1>1 DEF InQueue
<1>3. LinksExact'
    BY <1>1, LinksStay DEF NvmeTurns
<1>4. ASSUME NEW t \in Tasks, call[t].at # "in" PROVE NvmeTurn(t)'
    BY <1>1, <1>2, <1>4 DEF NvmeTurns, NvmeTurn
<1> QED BY <1>3, <1>4 DEF NvmeTurns

LEMMA TickSound ==
    ASSUME NvmeQueues, NvmeCalls, NvmeSound, Tick, ~corrupt'
    PROVE  NvmeSound'
<1>1. /\ UNCHANGED queueVars /\ call' = call /\ waitingTask' = waitingTask /\ commandStatus' = commandStatus
      /\ UNCHANGED lockVars /\ missed' = missed /\ answer' = answer
    BY DEF Tick, callVars
<1>2. NvmeWorks' /\ Works' = Works
    <2>1. ASSUME NEW t \in Tasks, AtWork(t) PROVE Active(t)
        BY <2>1 DEF NvmeSound, NvmeWorks, Owned, AtWork, WorksFor
    <2> QED BY <1>1, <2>1, WorksStay DEF Active
<1>3. ASSUME NEW t \in Tasks PROVE AtWork(t)' <=> AtWork(t)
    BY <1>2 DEF AtWork
<1>4. ASSUME NEW t \in Tasks, state'[t] = "BLOCKED" <=> state[t] = "BLOCKED", Woken(t)' <=> Woken(t)
      PROVE  NvmeTask(t)'
    <2>1. NvmeTask(t)
        BY DEF NvmeSound
    <2> QED BY <1>1, <1>3, <1>4, <2>1, SameCall
<1>7. \A t \in Tasks : (InQueue(t)' <=> InQueue(t)) /\ owner' = owner
    BY <1>1 DEF InQueue, lockVars, mutexVars
<1>5. CASE SwitchToIdle
    <2>1. /\ state' = state /\ runq' = runq /\ runq = {} /\ current' = Idle /\ Idle \notin Tasks
          /\ current \in Tasks => state[current] # "RUNNING"
        BY <1>5, IdleAssumption DEF SwitchToIdle, Candidates, GivesUp
    <2>2. NvmePlaces'
        BY <2>1 DEF NvmeSound, NvmePlaces
    <2>3. ASSUME NEW t \in Tasks PROVE NvmeTask(t)'
        BY <1>1, <1>4, <2>1 DEF Woken, NvmeSound, NvmePlaces
    <2>4. NvmeTurns'
        <3>1. ASSUME NEW t \in Tasks, call[t].at = "in" PROVE NvmeTurn(t)'
            <4>1. NvmeTurn(t)
                BY DEF NvmeSound, NvmeTurns
            <4> QED BY <1>1, <1>7, <2>1, <3>1, <4>1 DEF NvmeTurn
        <3> QED BY <1>1, <3>1, TicksKeepTurns DEF NvmeSound
    <2> QED BY <1>2, <2>2, <2>3, <2>4 DEF NvmeSound
<1>6. ASSUME NEW s \in Tasks, SwitchTo(s) PROVE NvmeSound'
    <2>1. /\ s \in Candidates /\ current' = s /\ runq' = Candidates \ {s} /\ ~(GivesUp /\ current \in runq)
          /\ state' = [Outgoing EXCEPT ![s] = "RUNNING"] /\ DOMAIN state = Tasks
        BY <1>6 DEF SwitchTo, NvmeCalls
    <2>2. /\ state'[s] = "RUNNING" /\ s \notin runq'
          /\ \A t \in Tasks \ {s} : state'[t] = IF GivesUp /\ t = current THEN "READY" ELSE state[t]
        BY <2>1 DEF Outgoing
    <2>3. \A t \in Tasks \ {s} : t \in runq' <=> t \in runq \/ (GivesUp /\ t = current)
        BY <2>1 DEF Candidates
    <2>4. GivesUp <=> current \in Tasks /\ state[current] = "RUNNING"
        BY DEF GivesUp
    <2>5. NvmePlaces'
        BY <2>1, <2>2, <2>3, <2>4 DEF NvmeSound, NvmePlaces, Candidates
    <2>6. ASSUME NEW t \in Tasks \ {s} PROVE NvmeTask(t)'
        <3>1. (state'[t] = "BLOCKED" <=> state[t] = "BLOCKED") /\ (Woken(t)' <=> Woken(t))
            BY <1>1, <2>1, <2>2, <2>3, <2>4 DEF NvmeSound, NvmePlaces, Woken
        <3> QED BY <1>4, <3>1
    <2>7. NvmeTask(s)'
        <3>1. ~Woken(s)'
            BY <2>2 DEF Woken
        <3>2. NvmeTask(s) /\ (AtWork(s)' <=> AtWork(s))
            BY <1>3 DEF NvmeSound
        <3>5. CASE call[s].at = "in"
            BY <1>1, <3>1, <3>2, <3>5 DEF NvmeTask
        <3>3. CASE state[s] = "BLOCKED" /\ call[s].at # "in"
            <4>1. s \in runq
                BY <2>1, <2>4, <3>3 DEF Candidates
            <4>2. Woken(s)
                BY <3>3, <4>1 DEF Woken
            <4>3. call[s].at = "blocked" /\ ~AtWork(s) /\ s \notin missed /\ Answered(s) /\ waitingTask[call[s].cid] = s
                BY <3>2, <3>3, <4>2 DEF NvmeTask
            <4>4. Answered(s)'
                BY <1>1, <4>3 DEF Answered
            <4> QED BY <1>1, <2>2, <3>1, <3>2, <4>3, <4>4 DEF NvmeTask
        <3>4. CASE state[s] # "BLOCKED"
            <4>1. ~Woken(s)
                BY <2>1, <2>4, <3>4 DEF NvmeSound, NvmePlaces, Woken
            <4> QED BY <1>4, <2>2, <3>1, <3>4, <4>1
        <3> QED BY <3>3, <3>4, <3>5
    <2>8. NvmeTurns'
        <3>1. ASSUME NEW t \in Tasks, call[t].at = "in" PROVE NvmeTurn(t)'
            <4>1. NvmeTurn(t)
                BY DEF NvmeSound, NvmeTurns
            <4>2. CASE t = s
                <5>1. state[t] # "BLOCKED" \/ t \in runq
                    BY <2>1, <2>4, <4>2 DEF Candidates
                <5>2. ~InQueue(t)
                    BY <4>1, <5>1 DEF NvmeTurn
                <5> QED BY <1>1, <1>7, <2>2, <3>1, <4>1, <4>2, <5>2 DEF NvmeTurn
            <4>3. CASE t # s
                BY <1>1, <1>7, <2>1, <2>2, <2>3, <2>4, <3>1, <4>1, <4>3 DEF NvmeTurn
            <4> QED BY <4>2, <4>3
        <3> QED BY <1>1, <3>1, TicksKeepTurns DEF NvmeSound
    <2> QED BY <1>2, <2>5, <2>6, <2>7, <2>8 DEF NvmeSound
<1> QED BY <1>5, <1>6 DEF Tick, Switch

LEMMA AdminSound ==
    ASSUME NvmeAdmin, NvmeCalls, NvmeSound, AdminCommand \/ AdminCompletes \/ PollAdminCompletion
    PROVE  NvmeSound'
<1>1. /\ state' = state /\ current' = current /\ runq' = runq
      /\ call' = call /\ waitingTask' = waitingTask /\ commandStatus' = commandStatus
      /\ UNCHANGED lockVars /\ missed' = missed /\ answer' = answer
    BY DEF AdminCommand, AdminCompletes, PollAdminCompletion, dispatchVars, callVars
<1>2. NvmeWorks' /\ Works' = Works
    <2>1. CASE AdminCommand \/ PollAdminCompletion
        <3>1. UNCHANGED queueVars
            BY <2>1 DEF AdminCommand, PollAdminCompletion
        <3>2. ASSUME NEW t \in Tasks, AtWork(t) PROVE Active(t)
            BY <3>2 DEF NvmeSound, NvmeWorks, Owned, AtWork, WorksFor
        <3> QED BY <1>1, <3>1, <3>2, WorksStay DEF Active
    <2>2. CASE AdminCompletes
        <3>1. /\ sq' = sq /\ sqTail' = sqTail /\ sqHead' = sqHead /\ inside' = inside /\ cq' = cq
              /\ cqTail' = cqTail /\ cqHead' = cqHead /\ polling # -1
            BY <2>2 DEF AdminCompletes
        <3>2. Works' = Works
            BY <3>1 DEF Works, SqWorks, InWorks, CqWorks
        <3>3. \A t \in Tasks : call[t].at = "out"
            BY <3>1 DEF NvmeAdmin
        <3>4. Works = {}
            BY <3>3 DEF NvmeSound, NvmeWorks, Owned, Active, NvmeCommands
        <3>5. Between(cqHead, cqTail) = {}
            BY <3>4 DEF Works, CqWorks
        <3> QED BY <3>1, <3>2, <3>4, <3>5 DEF NvmeWorks, OneEach
    <2> QED BY <2>1, <2>2
<1>3. NvmePlaces'
    BY <1>1 DEF NvmeSound, NvmePlaces
<1>4. ASSUME NEW t \in Tasks PROVE NvmeTask(t)'
    <2>1. NvmeTask(t) /\ (AtWork(t)' <=> AtWork(t))
        BY <1>2 DEF NvmeSound, AtWork
    <2> QED BY <1>1, <2>1, SameTask
<1>5. NvmeTurns'
    BY <1>1, SameTurns DEF NvmeSound
<1> QED BY <1>2, <1>3, <1>4, <1>5 DEF NvmeSound

LEMMA NvmeInitially == NvmeInit => NvmeInv
<1>1. SUFFICES ASSUME NvmeInit PROVE NvmeInv
    OBVIOUS
<1>2. Depth \in Nat /\ Depth >= 2 /\ 0 \in Index /\ Index = Cids
    BY NvmeAssumption DEF Index, Cids
<1>3. /\ current \in Tasks /\ runq = Tasks \ {current}
      /\ state = [t \in Tasks |-> IF t = current THEN "RUNNING" ELSE IF t \in Tasks THEN "READY" ELSE "NONE"]
    BY <1>1, NvmeAssumption DEF NvmeInit, MutexInit, Created
<1>4. NvmeAdmin
    BY <1>1 DEF NvmeInit, NvmeAdmin
<1>5. NvmeQueues
    <2>1. /\ sqHead = 0 /\ sqTail = 0 /\ cqHead = 0 /\ cqTail = 0 /\ inside = {} /\ phase = 1 /\ phaseTag = 1
          /\ sq = [i \in Index |-> NoCommand]
          /\ cq = [i \in Index |-> [phase |-> 0, of |-> NoCommand, ok |-> FALSE]]
        BY <1>1 DEF NvmeInit
    <2>2. \A i \in Index : cq[i].phase = 0 /\ ~(i < 0)
        BY <1>2, <2>1 DEF Index
    <2> QED BY <1>2, <2>1, <2>2 DEF NvmeQueues
<1>6. call = [t \in Tasks |-> [at |-> "out", cid |-> 0]] /\ \A t \in Tasks : call[t].at = "out"
    BY <1>1 DEF NvmeInit
<1>7. NvmeCalls
    <2>1. call \in [Tasks -> [at : {"out", "in", "rung", "listed", "blocked"}, cid : Cids]]
        BY <1>2, <1>6
    <2>2. DOMAIN waitingTask = Cids /\ DOMAIN commandStatus = Cids /\ DOMAIN answer = Tasks /\ DOMAIN state = Tasks
        BY <1>1, <1>3 DEF NvmeInit
    <2>3. \A c \in Cids : waitingTask[c] = NoTask
        BY <1>1 DEF NvmeInit
    <2> QED BY <2>1, <2>2, <2>3 DEF NvmeCalls
<1>8. Works = {} /\ Between(cqHead, cqTail) = {}
    <2>1. Between(0, 0) = {}
        BY <1>2, QueueEmpty
    <2>2. sqHead = 0 /\ sqTail = 0 /\ cqHead = 0 /\ cqTail = 0 /\ inside = {}
        BY <1>1 DEF NvmeInit
    <2> QED BY <2>1, <2>2 DEF Works, SqWorks, InWorks, CqWorks
<1>9. NvmePlaces
    BY <1>3 DEF NvmePlaces
<1>10. NvmeWorks
    BY <1>8 DEF NvmeWorks, OneEach
<1>11. ASSUME NEW t \in Tasks PROVE NvmeTask(t)
    <2>1. state[t] # "BLOCKED" /\ ~Woken(t)
        BY <1>3 DEF Woken
    <2>2. ~AtWork(t)
        BY <1>8 DEF AtWork, WorksFor
    <2>3. t \notin missed
        BY <1>1 DEF NvmeInit
    <2> QED BY <1>6, <2>1, <2>2, <2>3 DEF NvmeTask
<1>12. ~wrong
    BY <1>1 DEF NvmeInit
<1>13. LockState /\ QueueTypes /\ LinksExact /\ \A t \in Tasks : ~InQueue(t)
    BY <1>1, LocksInitially DEF NvmeInit
<1>14. NvmeTurns
    BY <1>6, <1>13 DEF NvmeTurns, NvmeTurn
<1> QED BY <1>4, <1>5, <1>7, <1>9, <1>10, <1>11, <1>12, <1>13, <1>14 DEF NvmeInv, NvmeSound

LEMMA NvmeStep == NvmeInv /\ [NvmeNext]_nvmeVars => NvmeInv'
<1>1. SUFFICES ASSUME NvmeInv, [NvmeNext]_nvmeVars PROVE NvmeInv'
    OBVIOUS
<1>2. NvmeAdmin /\ NvmeQueues /\ NvmeCalls /\ LockState /\ QueueTypes
    BY <1>1 DEF NvmeInv
<1>3. NvmeAdmin' /\ NvmeQueues' /\ NvmeCalls'
    BY <1>1, <1>2, NvmeAdminStep, NvmeQueuesStep, NvmeCallsStep
<1>6. LockState' /\ QueueTypes'
    <2>1. CASE UNCHANGED lockVars
        BY <1>2, <2>1, LocksAlone DEF lockVars
    <2>2. ASSUME NEW t \in Tasks, Enter(t) \/ SubmitFails(t) \/ ListTask(t) PROVE LockState' /\ QueueTypes'
        <3>1. t \in Contenders /\ IOLock \in Locks
            BY NvmeAssumption
        <3>2. Acquire(t, IOLock) \/ Release(t, IOLock)
            BY <2>2 DEF Enter, SubmitFails, ListTask
        <3> QED BY <1>2, <3>1, <3>2, LockTypesStay
    <2>3. ASSUME NEW t \in Tasks, Submit(t) \/ BlockTaskCauseOfIOAndYield(t) \/ Return(t) PROVE UNCHANGED lockVars
        BY <2>3 DEF Submit, BlockTaskCauseOfIOAndYield, Return
    <2>4. ASSUME NEW w \in inside, NEW ok \in BOOLEAN, Complete(w, ok) PROVE UNCHANGED lockVars
        BY <2>4 DEF Complete
    <2>5. ASSUME AdminCommand \/ AdminCompletes \/ PollAdminCompletion \/ Fetch \/ HandleInterrupt \/ Tick
          PROVE  UNCHANGED lockVars
        BY <2>5 DEF AdminCommand, AdminCompletes, PollAdminCompletion, Fetch, HandleInterrupt, Tick
    <2>6. CASE UNCHANGED nvmeVars
        BY <2>1, <2>6 DEF nvmeVars
    <2> QED BY <1>1, <2>1, <2>2, <2>3, <2>4, <2>5, <2>6 DEF NvmeNext
<1>4. ASSUME ~slipped', ~ranOn', ~filled' PROVE (corrupt \/ NvmeSound) /\ ~slipped /\ ~ranOn /\ ~filled /\ ~wrong
    <2>1. ~slipped /\ ~ranOn /\ ~filled
        <3>1. CASE UNCHANGED <<slipped, ranOn, filled>>
            BY <1>4, <3>1
        <3>2. ASSUME NEW t \in Tasks, Submit(t) PROVE ~slipped /\ ~ranOn /\ ~filled
            BY <1>4, <3>2, Zenon DEF Submit, GoesOn
        <3>3. ASSUME NEW t \in Tasks, Return(t) PROVE ~slipped /\ ~ranOn /\ ~filled
            BY <1>4, <3>3, Zenon DEF Return
        <3>4. ASSUME NEW t \in Tasks, Enter(t) \/ ListTask(t) \/ BlockTaskCauseOfIOAndYield(t)
              PROVE  UNCHANGED <<slipped, ranOn, filled>>
            BY <3>4 DEF Enter, ListTask, BlockTaskCauseOfIOAndYield
        <3>8. ASSUME NEW t \in Tasks, SubmitFails(t) PROVE ~slipped /\ ~ranOn /\ ~filled
            BY <1>4, <3>8, Zenon DEF SubmitFails, GoesOn
        <3>5. ASSUME NEW w \in inside, NEW ok \in BOOLEAN, Complete(w, ok) PROVE UNCHANGED <<slipped, ranOn, filled>>
            BY <3>5 DEF Complete
        <3>6. ASSUME AdminCommand \/ AdminCompletes \/ PollAdminCompletion \/ Fetch \/ HandleInterrupt \/ Tick
              PROVE  UNCHANGED <<slipped, ranOn, filled>>
            BY <3>6 DEF AdminCommand, AdminCompletes, PollAdminCompletion, Fetch, HandleInterrupt, Tick, callVars
        <3>7. CASE UNCHANGED nvmeVars
            BY <3>1, <3>7 DEF nvmeVars, callVars
        <3> QED BY <1>1, <3>1, <3>2, <3>3, <3>4, <3>5, <3>6, <3>7, <3>8 DEF NvmeNext
    <2> QED BY <1>1, <2>1 DEF NvmeInv
<1>5. ASSUME ~slipped', ~ranOn', ~filled' PROVE ~wrong' /\ (corrupt' \/ NvmeSound')
    <2>1. (corrupt \/ NvmeSound) /\ ~slipped /\ ~ranOn /\ ~filled /\ ~wrong
        BY <1>4, <1>5
    <2>2. CASE UNCHANGED nvmeVars
        <3>1. UNCHANGED <<dispatchVars, queueVars, callVars>> /\ UNCHANGED lockVars
            BY <2>2 DEF nvmeVars
        <3>2. corrupt' = corrupt /\ wrong' = wrong
            BY <3>1 DEF dispatchVars, callVars
        <3>3. ASSUME NvmeSound PROVE NvmeSound'
            <4>1. /\ state' = state /\ current' = current /\ runq' = runq /\ sq' = sq /\ sqTail' = sqTail
                  /\ sqHead' = sqHead /\ inside' = inside /\ cq' = cq /\ cqTail' = cqTail /\ cqHead' = cqHead
                  /\ irq' = irq /\ call' = call /\ waitingTask' = waitingTask /\ commandStatus' = commandStatus
                  /\ missed' = missed /\ answer' = answer
                BY <3>1 DEF dispatchVars, queueVars, callVars
            <4>2. Works' = Works
                BY <4>1 DEF Works, SqWorks, InWorks, CqWorks
            <4>3. NvmePlaces'
                BY <3>3, <4>1 DEF NvmeSound, NvmePlaces
            <4>4. NvmeWorks'
                BY <3>3, <4>1, <4>2 DEF NvmeSound, NvmeWorks, Owned, Active
            <4>5. ASSUME NEW t \in Tasks PROVE NvmeTask(t)'
                <5>1. NvmeTask(t) /\ (AtWork(t)' <=> AtWork(t))
                    BY <3>3, <4>2 DEF NvmeSound, AtWork
                <5> QED BY <4>1, <5>1, SameTask
            <4>6. NvmeTurns'
                BY <3>1, <3>3, <4>1, SameTurns DEF NvmeSound
            <4> QED BY <4>3, <4>4, <4>5, <4>6 DEF NvmeSound
        <3> QED BY <2>1, <3>2, <3>3
    <2>3. CASE AdminCommand \/ AdminCompletes \/ PollAdminCompletion
        <3>1. corrupt' = corrupt /\ wrong' = wrong
            BY <2>3 DEF AdminCommand, AdminCompletes, PollAdminCompletion, dispatchVars, callVars
        <3> QED BY <1>2, <2>1, <2>3, <3>1, AdminSound
    <2>4. ASSUME NEW t \in Tasks, Submit(t) PROVE ~wrong' /\ NvmeSound'
        <3>1. ~corrupt /\ wrong' = wrong
            BY <2>4 DEF Submit, GoesOn, At, Running
        <3> QED BY <1>2, <1>5, <2>1, <2>4, <3>1, SubmitSound
    <2>5. ASSUME NEW t \in Tasks, ListTask(t) PROVE ~wrong' /\ NvmeSound'
        <3>1. ~corrupt /\ wrong' = wrong
            BY <2>5 DEF ListTask, At, Running
        <3> QED BY <1>2, <2>1, <2>5, <3>1, ListSound
    <2>12. ASSUME NEW t \in Tasks, Enter(t) PROVE ~wrong' /\ NvmeSound'
        <3>1. ~corrupt /\ wrong' = wrong
            BY <2>12 DEF Enter, At, Running
        <3> QED BY <1>2, <2>1, <2>12, <3>1, EnterSound
    <2>13. ASSUME NEW t \in Tasks, SubmitFails(t) PROVE ~wrong' /\ NvmeSound'
        <3>1. ~corrupt /\ wrong' = wrong
            BY <2>13 DEF SubmitFails, GoesOn, At, Running
        <3> QED BY <1>2, <1>5, <2>1, <2>13, <3>1, FailSound
    <2>6. ASSUME NEW t \in Tasks, BlockTaskCauseOfIOAndYield(t) PROVE ~wrong' /\ NvmeSound'
        <3>1. ~corrupt /\ wrong' = wrong
            BY <2>6 DEF BlockTaskCauseOfIOAndYield, At, Running
        <3> QED BY <1>2, <2>1, <2>6, <3>1, BlockSound
    <2>7. ASSUME NEW t \in Tasks, Return(t) PROVE ~wrong' /\ NvmeSound'
        <3>1. ~corrupt
            BY <2>7 DEF Return, At, Running
        <3> QED BY <1>2, <1>5, <2>1, <2>7, <3>1, ReturnSound
    <2>8. CASE Fetch
        <3>1. corrupt' = corrupt /\ wrong' = wrong
            BY <2>8 DEF Fetch, dispatchVars, callVars
        <3> QED BY <1>2, <2>1, <2>8, <3>1, FetchSound
    <2>9. ASSUME NEW w \in inside, NEW ok \in BOOLEAN, Complete(w, ok) PROVE ~wrong' /\ (corrupt' \/ NvmeSound')
        <3>1. corrupt' = corrupt /\ wrong' = wrong
            BY <2>9 DEF Complete, dispatchVars
        <3> QED BY <1>2, <2>1, <2>9, <3>1, CompleteSound
    <2>10. CASE HandleInterrupt
        <3>1. ~corrupt /\ wrong' = wrong
            BY <2>10 DEF HandleInterrupt
        <3> QED BY <1>2, <2>1, <2>10, <3>1, HandleSound
    <2>11. CASE Tick
        <3>1. ~corrupt /\ wrong' = wrong
            BY <2>11 DEF Tick, Switch, SwitchTo, SwitchToIdle, callVars
        <3> QED BY <1>2, <2>1, <2>11, <3>1, TickSound
    <2> QED BY <1>1, <2>2, <2>3, <2>4, <2>5, <2>6, <2>7, <2>8, <2>9, <2>10, <2>11, <2>12, <2>13 DEF NvmeNext
<1> QED BY <1>3, <1>5, <1>6 DEF NvmeInv

\* A task that no place but its command keeps is found where its command is.
LEMMA NvmeInvFindsWaiters == NvmeInv => NvmeWaiterIsFound
<1>1. SUFFICES ASSUME NvmeInv PROVE NvmeWaiterIsFound
    OBVIOUS
<1>2. boot # -1 /\ polling = -1 => adminHead = boot
    BY <1>1 DEF NvmeInv, NvmeAdmin
<1>3. ASSUME ~corrupt, ~slipped, ~ranOn, ~filled, NEW t \in Tasks \ missed, call[t].at = "blocked", state[t] = "BLOCKED",
             current # t, t \notin runq
      PROVE  Underway(t) /\ waitingTask[call[t].cid] = t
    <2>1. NvmeQueues /\ NvmeWorks /\ NvmeTask(t)
        BY <1>1, <1>3 DEF NvmeInv, NvmeSound
    <2>2. AtWork(t) /\ waitingTask[call[t].cid] = t
        BY <1>3, <2>1 DEF NvmeTask, Woken
    <2>3. PICK x \in Works : x[3].task = t
        BY <2>2 DEF AtWork, WorksFor
    <2>4. CASE x \in SqWorks
        <3>1. PICK i \in Between(sqHead, sqTail) : x = <<"sq", i, sq[i]>>
            BY <2>4 DEF SqWorks
        <3>2. i \in Index /\ Gap(sqHead, i) < Gap(sqHead, sqTail) /\ sqHead \in Index /\ sqTail \in Index
            BY <2>1 DEF Between, NvmeQueues
        <3>3. (i + Depth - sqHead) % Depth = Gap(sqHead, i) /\ (sqTail + Depth - sqHead) % Depth = Gap(sqHead, sqTail)
            BY <3>2, QueueIndex
        <3>4. sq[i].task = t
            BY <2>3, <3>1
        <3>5. (i + Depth - sqHead) % Depth < (sqTail + Depth - sqHead) % Depth
            BY <3>2, <3>3, Zenon
        <3> QED BY <2>2, <3>2, <3>4, <3>5 DEF Underway
    <2>5. CASE x \in InWorks
        <3>1. PICK w \in inside : x = <<"in", w.slot, w.of>>
            BY <2>5 DEF InWorks
        <3> QED BY <2>2, <2>3, <3>1 DEF Underway
    <2>6. CASE x \in CqWorks
        <3>1. PICK i \in Between(cqHead, cqTail) : x = <<"cq", i, cq[i].of>>
            BY <2>6 DEF CqWorks
        <3>2. irq /\ cq[i].of.task = t
            BY <2>1, <2>3, <3>1 DEF NvmeWorks
        <3>3. PICK n : n = Gap(cqHead, cqTail)
            OBVIOUS
        <3>4. \E k \in NewEntries : (cqHead + k) % Depth = i
            BY <2>1, <3>3, NewEntriesKnown
        <3> QED BY <2>2, <3>2, <3>4 DEF Underway, Entry
    <2> QED BY <2>4, <2>5, <2>6 DEF Works
<1> QED BY <1>2, <1>3 DEF NvmeWaiterIsFound

\* The theorems below rest on this one: every command is in one place and belongs to
\* the call of one task, whose identifier no other call has, and the entries to read
\* are told from the old ones by the phase of their lap.
THEOREM NvmeInvariance == NvmeSpec => []NvmeInv
BY NvmeInitially, NvmeStep, PTL DEF NvmeSpec

\* The handler of the completion queue finds the task that sleeps on a command, for
\* queues of any length and any number of tasks, unless the command ended before the
\* task was listed, a task went on from a contended Acquire or returned before it was
\* switched out, or the queue was full.
THEOREM NvmeFindsItsWaiter == NvmeSpec => []NvmeWaiterIsFound
BY NvmeInvariance, NvmeInvFindsWaiters, PTL

\* ReadSectors, WriteSectors and FlushCache return what the controller said of their
\* own command, for queues of any length and any number of tasks, under the same
\* conditions on the lock, the switch and the queue.
THEOREM NvmeAnswersItsCaller == NvmeSpec => []NvmeAnswersAreOwn
<1>1. NvmeInv => NvmeAnswersAreOwn
    BY DEF NvmeInv, NvmeAnswersAreOwn
<1> QED BY <1>1, NvmeInvariance, PTL

-----------------------------------------------------------------------------
(***************************************************************************)
(* Both disk drivers, as the scenarios of MCDevices run them: the driver   *)
(* of the scenario keeps its invariant, the other has no call under way.   *)
(***************************************************************************)
NvmeIdle == boot = 0 /\ polling = -1 /\ adminHead = 0 /\ ~wrong /\ \A t \in Tasks : call[t].at = "out"
AhciIdle == ~wrongly /\ \A t \in Tasks : io[t].at = "out"
DisksInv ==
    /\ IF scenario = "nvme" THEN NvmeInv ELSE NvmeIdle
    /\ IF scenario = "ahci" THEN AhciInv ELSE AhciIdle

LEMMA DisksInitially == MCInit => DisksInv
<1>1. SUFFICES ASSUME MCInit PROVE DisksInv
    OBVIOUS
<1>2. NvmeInit /\ AhciInit
    BY <1>1 DEF MCInit
<1>3. NvmeIdle
    BY <1>2 DEF NvmeInit, NvmeIdle
<1>4. AhciIdle
    BY <1>2 DEF AhciInit, AhciIdle
<1> QED BY <1>2, <1>3, <1>4, NvmeInitially, AhciInitially DEF DisksInv

LEMMA DisksStep ==
    DisksInv /\ [MCNext]_<<netVars, nvmeVars, ahciOwn, e1000Vars, xhciVars, scenario>> => DisksInv'
<1>1. SUFFICES ASSUME DisksInv, [MCNext]_<<netVars, nvmeVars, ahciOwn, e1000Vars, xhciVars, scenario>> PROVE DisksInv'
    OBVIOUS
<1>2. scenario' = scenario
    BY <1>1 DEF MCNext
<1>3. ASSUME UNCHANGED nvmeOwn, NvmeIdle PROVE NvmeIdle'
    BY <1>3 DEF nvmeOwn, adminVars, callVars, NvmeIdle
<1>4. ASSUME UNCHANGED ahciOwn, AhciIdle PROVE AhciIdle'
    BY <1>4 DEF ahciOwn, driverVars, ahciHistory, AhciIdle
<1>5. CASE scenario = "nvme"
    <2>1. UNCHANGED ahciOwn /\ (NvmeNext \/ UNCHANGED nvmeVars)
        BY <1>1, <1>5 DEF MCNext
    <2>2. NvmeInv /\ AhciIdle
        BY <1>1, <1>5 DEF DisksInv
    <2>3. NvmeInv'
        BY <2>1, <2>2, NvmeStep
    <2> QED BY <1>2, <1>4, <1>5, <2>1, <2>2, <2>3 DEF DisksInv
<1>6. CASE scenario = "ahci"
    <2>1. UNCHANGED nvmeOwn /\ (AhciNext \/ UNCHANGED ahciVars)
        BY <1>1, <1>6 DEF MCNext, nvmeVars, nvmeOwn, lockVars, ahciVars, ahciOwn
    <2>2. AhciInv /\ NvmeIdle
        BY <1>1, <1>6 DEF DisksInv
    <2>3. AhciInv'
        BY <2>1, <2>2, AhciStep
    <2> QED BY <1>2, <1>3, <1>6, <2>1, <2>2, <2>3 DEF DisksInv
<1>7. CASE scenario \notin {"nvme", "ahci"}
    <2>1. UNCHANGED nvmeOwn /\ UNCHANGED ahciOwn
        BY <1>1, <1>7 DEF MCNext, nvmeVars, nvmeOwn
    <2>2. NvmeIdle /\ AhciIdle
        BY <1>1, <1>7 DEF DisksInv
    <2> QED BY <1>2, <1>3, <1>4, <1>7, <2>1, <2>2 DEF DisksInv
<1> QED BY <1>5, <1>6, <1>7

\* Whoever sleeps on a disk command is where the interrupt will find it, with either
\* driver: the run's property for queues and ports of any size and any tasks.
THEOREM DisksFindTheirWaiters == MCSpec => []DiskWaitersAreFound
<1>1. ASSUME DisksInv PROVE NvmeWaiterIsFound
    <2>1. NvmeIdle => NvmeWaiterIsFound
        BY DEF NvmeIdle, NvmeWaiterIsFound
    <2> QED BY <1>1, <2>1, NvmeInvFindsWaiters DEF DisksInv
<1>2. ASSUME DisksInv PROVE AhciWaiterIsFound
    <2>1. AhciIdle => AhciWaiterIsFound
        BY DEF AhciIdle, AhciWaiterIsFound
    <2>2. AhciInv => AhciWaiterIsFound
        BY DEF AhciInv, PortWaiters, AhciWaiterIsFound, IssuedIsFound
    <2> QED BY <1>2, <2>1, <2>2 DEF DisksInv
<1>3. DisksInv => DiskWaitersAreFound
    BY <1>1, <1>2 DEF DiskWaitersAreFound
<1> QED BY <1>3, DisksInitially, DisksStep, PTL DEF MCSpec

\* A disk call returns what the controller said of its own command, with either driver.
THEOREM DisksAnswerTheirCallers == MCSpec => []DiskAnswersAreOwn
<1>1. ASSUME DisksInv PROVE NvmeAnswersAreOwn
    BY <1>1 DEF DisksInv, NvmeInv, NvmeIdle, NvmeAnswersAreOwn
<1>2. ASSUME DisksInv PROVE AhciTrueMeansDone
    BY <1>2 DEF DisksInv, AhciInv, PortCommands, AhciIdle, AhciTrueMeansDone
<1>3. DisksInv => DiskAnswersAreOwn
    BY <1>1, <1>2 DEF DiskAnswersAreOwn
<1> QED BY <1>3, DisksInitially, DisksStep, PTL DEF MCSpec
=============================================================================
