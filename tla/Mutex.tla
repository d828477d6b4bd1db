------------------------------- MODULE Mutex --------------------------------
(***************************************************************************)
(* The sleeping lock: kernel/task/mutex.cpp.  Each of Acquire and Release  *)
(* holds the spinlock m_Lock with interrupts off, so each is one action.   *)
(* When the lock is taken, Acquire queues the caller, marks it BLOCKED and *)
(* calls SchedulerYield, which arms the timer and returns; Acquire then    *)
(* returns too, and the caller is inside the critical section until the    *)
(* timer interrupt takes the processor away.                               *)
(*                                                                         *)
(* The critical sections are those of the callers: nested acquisition of   *)
(* two locks happens (AHCI: DiskLock, then a port lock).                   *)
(***************************************************************************)
EXTENDS WaitQueue, Sequences

CONSTANTS Contenders, \* the tasks that use the locks
          Locks       \* the locks: each has a wait queue of its own

ASSUME MutexAssumption == Contenders \subseteq Tasks /\ Locks \subseteq Lists

VARIABLES locked,     \* Mutex::locked, per lock
          owner,      \* Mutex::owner
          holds,      \* holds[t]: the locks t has acquired and not released
          queue,      \* history: the waiters of each lock, as a list without faults
          rejoined    \* history: a task was queued while it was in a queue

mutexVars == <<locked, owner, holds, queue, rejoined>>
InQueue(t) == \E l \in Locks : \E i \in 1..Len(queue[l]) : queue[l][i] = t
NoWaiters == [l \in Locks |-> <<>>]

LocksFree ==
    /\ locked = [l \in Locks |-> FALSE]
    /\ owner = [l \in Locks |-> NoTask]
    /\ holds = [t \in Contenders |-> {}]
    /\ queue = NoWaiters /\ rejoined = FALSE

MutexInit == Created(Contenders) /\ wl = EmptyLists /\ LocksFree

\* Mutant: the uncontended path does not record the owner.
TakeFreeNoOwner(t, l) ==
    /\ Running(t)
    /\ ~locked[l]
    /\ locked' = [locked EXCEPT ![l] = TRUE]
    /\ UNCHANGED <<dispatchVars, owner, wl, queue, rejoined>>

TakeFree(t, l) ==
    /\ Running(t)
    /\ ~locked[l]
    /\ locked' = [locked EXCEPT ![l] = TRUE]
    /\ owner' = [owner EXCEPT ![l] = t]
    /\ UNCHANGED <<dispatchVars, wl, queue, rejoined>>

WaitFor(t, l) ==
    /\ locked[l]
    /\ Block(t)
    /\ wl' = Linked(l, t)
    /\ rejoined' = (rejoined \/ InQueue(t))
    /\ queue' = IF rejoined' THEN NoWaiters ELSE [queue EXCEPT ![l] = Append(@, t)]
    /\ UNCHANGED <<locked, owner>>

\* Acquire returns on both paths.
Acquire(t, l) ==
    /\ TakeFree(t, l) \/ WaitFor(t, l)
    /\ holds' = [holds EXCEPT ![t] = @ \cup {l}]

\* Mutant: the lock is freed when it is handed over, too.
HandOverFrees(l) ==
    /\ ~IsEmpty(l)
    /\ wl' = HeadUnlinked(l)
    /\ owner' = [owner EXCEPT ![l] = NoTask]
    /\ UnblockTaskWithIOBoost(wl.head[l])
    /\ locked' = [locked EXCEPT ![l] = FALSE]
    /\ queue' = [queue EXCEPT ![l] = IF @ = <<>> THEN @ ELSE Tail(@)]
    /\ UNCHANGED rejoined

HandOver(l) ==
    /\ ~IsEmpty(l)
    /\ wl' = HeadUnlinked(l)
    /\ owner' = [owner EXCEPT ![l] = wl.head[l]]
    /\ UnblockTaskWithIOBoost(wl.head[l])
    /\ queue' = [queue EXCEPT ![l] = IF @ = <<>> THEN @ ELSE Tail(@)]
    /\ UNCHANGED <<locked, rejoined>>

SetFree(l) ==
    /\ IsEmpty(l)
    /\ locked' = [locked EXCEPT ![l] = FALSE]
    /\ owner' = [owner EXCEPT ![l] = NoTask]
    /\ UNCHANGED <<dispatchVars, wl, queue, rejoined>>

Release(t, l) ==
    /\ Running(t)
    /\ HandOver(l) \/ SetFree(l)
    /\ holds' = [holds EXCEPT ![t] = @ \ {l}]

MutexNext ==
    \/ \E t \in Contenders, l \in Locks : l \notin holds[t] /\ Acquire(t, l)
    \/ \E t \in Contenders, l \in Locks : l \in holds[t] /\ Release(t, l)
    \/ Switch /\ UNCHANGED <<wl, mutexVars>>

MutexSpec == MutexInit /\ [][MutexNext]_<<dispatchVars, wl, mutexVars>>
-----------------------------------------------------------------------------
Inside(l) == {t \in Contenders : l \in holds[t]}

\* Flags are Boolean, owners and links are tasks or null.
LockTypes ==
    /\ locked \in [Locks -> BOOLEAN]
    /\ owner \in [Locks -> Tasks \cup {NoTask}]
    /\ wl \in [head : [Lists -> Tasks \cup {NoTask}], tail : [Lists -> Tasks \cup {NoTask}],
               next : [Tasks -> Tasks \cup {NoTask}]]

\* The flag and the owner agree, and only a taken lock has waiters: Release
\* frees the lock in the one case in which nobody is queued, whatever the
\* re-entering waiters have done to the links.
LockState ==
    /\ LockTypes
    /\ \A l \in Locks : /\ locked[l] <=> owner[l] # NoTask
                        /\ ~IsEmpty(l) => locked[l]

\* No task is inside a critical section whose lock is free, so the uncontended
\* path never admits a task next to another one, although the contended path
\* does, and although a waiter that has slipped through may release the lock
\* before its holder does.  Not so once a waiter that slipped through has entered
\* a queue a second time: that cuts off the tasks behind it, and the Release that
\* finds the queue empty frees the lock under them.
InsideImpliesLocked ==
    ~rejoined => \A l \in Locks : Inside(l) # {} => locked[l]

\* "Unlock (Bangunin yang ngantri)": a waiter that has lost the processor is
\* queued on a lock or queued to run, so that some Release still reaches it.  Not
\* so once a waiter that slipped through has entered a queue a second time and cut
\* off the tasks behind it.
WaiterIsFound == ~rejoined => BlockedIsFound(Contenders)

\* "Lock (Tidur kalau gak dapet)": a task that does not get the lock sleeps, so
\* one task at most is inside.
MutualExclusion ==
    \A l \in Locks : Cardinality(Inside(l)) <= 1
=============================================================================
