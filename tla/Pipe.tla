-------------------------------- MODULE Pipe --------------------------------
(***************************************************************************)
(* A pipe: PipeFileSystem::Read, Write and Close on one PipeBuffer         *)
(* (kernel/filesys/pipefs/pipe.cpp).  Read and Write are the same loop     *)
(* with the ends exchanged, and are written once here: a reader is stuck   *)
(* on an empty buffer and sleeps on Waiters, a writer on a full one and    *)
(* sleeps on FullWaiters.                                                  *)
(*                                                                         *)
(* The spinlock of the buffer turns interrupts off, so while a task has it *)
(* nothing else happens.  A system call enters with interrupts off: before *)
(* its first sleep, releasing the spinlock does not let the timer in.      *)
(***************************************************************************)
EXTENDS WaitQueue, Sequences

CONSTANTS Readers, Writers,   \* the tasks with a reading, a writing end
          Size,               \* BUFFERSIZE
          Requests,           \* the Size arguments of a call
          MaxBytes            \* bound on the bytes ever written

ASSUME PipeAssumption ==
    /\ Readers \cup Writers \subseteq Tasks /\ Readers \cap Writers = {}
    /\ {"Waiters", "FullWaiters"} \subseteq Lists
    /\ Size \in Nat \ {0} /\ Requests \subseteq Nat \ {0} /\ MaxBytes \in Nat

VARIABLES data, readPos, writePos, available, writeClosed,  \* the PipeBuffer
          open,       \* the tasks whose end is open: Node->RefCount of them
          alive,      \* the PipeBuffer has not been deleted
          pc,         \* where a task is in its call
          call,       \* the call of a task: [size, done, nonblock, slept]
          written,    \* history: the number of bytes written so far
          got         \* history: the bytes that readers took, in order

bufVars == <<data, readPos, writePos, available, writeClosed, open, alive>>
callVars == <<pc, call, written, got>>
Ends == Readers \cup Writers

NoCall == [size |-> 0, done |-> 0, nonblock |-> FALSE, slept |-> FALSE]

PipeFresh ==
    /\ data = [i \in 0..(Size - 1) |-> 0]
    /\ readPos = 0 /\ writePos = 0 /\ available = 0
    /\ writeClosed = FALSE
    /\ open = Ends
    /\ alive = TRUE
    /\ pc = [t \in Ends |-> "user"]
    /\ call = [t \in Ends |-> NoCall]
    /\ written = 0
    /\ got = <<>>

PipeInit == Created(Ends) /\ wl = EmptyLists /\ PipeFresh

LockFree == \A t \in Ends : pc[t] \notin {"locked", "closing"}
Runs(t, where) == Running(t) /\ LockFree /\ pc[t] = where
HasLock(t) == Running(t) /\ pc[t] = "locked"

Queue(t) == IF t \in Readers THEN "Waiters" ELSE "FullWaiters"
OtherQueue(t) == IF t \in Readers THEN "FullWaiters" ELSE "Waiters"
Stuck(t) == IF t \in Readers THEN available = 0 ELSE available = Size
Complete(t) == call[t].done = call[t].size

StartCall(t, n, nb) ==
    /\ Runs(t, "user")
    /\ t \in open
    /\ t \in Writers => written + n <= MaxBytes
    /\ pc' = [pc EXCEPT ![t] = "locked"]
    /\ call' = [call EXCEPT ![t] = [NoCall EXCEPT !.size = n, !.nonblock = nb]]
    /\ UNCHANGED <<dispatchVars, wl, bufVars, written, got>>

Least(a, b) == IF a < b THEN a ELSE b

\* Mutant: a chunk may run past the end of the ring.
ReadChunkPastEnd(t) ==
    LET k == Least(call[t].size - call[t].done, available) IN
    /\ got' = got \o [i \in 1..k |-> IF readPos + i - 1 < Size THEN data[readPos + i - 1] ELSE 0]
    /\ readPos' = (readPos + k) % Size
    /\ available' = available - k
    /\ call' = [call EXCEPT ![t].done = @ + k]
    /\ UNCHANGED <<data, writePos, written>>

\* One turn of the copying loop of Read: up to the end of the ring.
ReadChunk(t) ==
    LET k == Least(Least(call[t].size - call[t].done, available), Size - readPos) IN
    /\ got' = got \o [i \in 1..k |-> data[readPos + i - 1]]
    /\ readPos' = (readPos + k) % Size
    /\ available' = available - k
    /\ call' = [call EXCEPT ![t].done = @ + k]
    /\ UNCHANGED <<data, writePos, written>>

\* One turn of the copying loop of Write.  The bytes are numbered.
WriteChunk(t) ==
    LET k == Least(Least(call[t].size - call[t].done, Size - available), Size - writePos) IN
    /\ data' = [i \in 0..(Size - 1) |->
                  IF i \in writePos..(writePos + k - 1) THEN written + 1 + i - writePos
                  ELSE data[i]]
    /\ writePos' = (writePos + k) % Size
    /\ available' = available + k
    /\ written' = written + k
    /\ call' = [call EXCEPT ![t].done = @ + k]
    /\ UNCHANGED <<readPos, got>>

Transfer(t) ==
    /\ HasLock(t)
    /\ ~Complete(t) /\ ~Stuck(t)
    /\ (t \in Readers /\ ReadChunk(t)) \/ (t \in Writers /\ WriteChunk(t))
    /\ WakeUp(OtherQueue(t))
    /\ UNCHANGED <<writeClosed, open, alive, pc>>

\* The call is complete, or it is stuck and may not wait: the other end is
\* closed, or O_NONBLOCK.
Return(t) ==
    /\ HasLock(t)
    /\ Complete(t) \/ (Stuck(t) /\ (writeClosed \/ call[t].nonblock))
    /\ pc' = [pc EXCEPT ![t] = "user"]
    /\ call' = [call EXCEPT ![t] = NoCall]
    /\ UNCHANGED <<dispatchVars, wl, bufVars, written, got>>

MustWait(t) ==
    HasLock(t) /\ ~Complete(t) /\ Stuck(t) /\ ~writeClosed /\ ~call[t].nonblock

\* The first wait of a call: interrupts stay off from the check to SleepOn.
FirstWait(t) ==
    /\ MustWait(t) /\ ~call[t].slept
    /\ SleepOn(t, Queue(t))
    /\ pc' = [pc EXCEPT ![t] = "slept"]
    /\ call' = [call EXCEPT ![t].slept = TRUE]
    /\ UNCHANGED <<bufVars, written, got>>

\* A later wait: the spinlock is released with interrupts on, then SleepOn.
Unlock(t) ==
    /\ MustWait(t) /\ call[t].slept
    /\ pc' = [pc EXCEPT ![t] = "unlocked"]
    /\ UNCHANGED <<dispatchVars, wl, bufVars, call, written, got>>

NextWait(t) ==
    /\ Runs(t, "unlocked")
    /\ SleepOn(t, Queue(t))
    /\ pc' = [pc EXCEPT ![t] = "slept"]
    /\ UNCHANGED <<bufVars, call, written, got>>

Relock(t) ==
    /\ Runs(t, "slept")
    /\ pc' = [pc EXCEPT ![t] = "locked"]
    /\ UNCHANGED <<dispatchVars, wl, bufVars, call, written, got>>

\* Close, under the spinlock: a writing end marks the pipe closed and wakes a
\* reader; either end then wakes a writer.
StartClose(t) ==
    /\ Runs(t, "user")
    /\ t \in open
    /\ IF t \in Writers THEN writeClosed' = TRUE /\ WakeUp("Waiters")
       ELSE UNCHANGED <<writeClosed, dispatchVars, wl>>
    /\ pc' = [pc EXCEPT ![t] = "closing"]
    /\ UNCHANGED <<data, readPos, writePos, available, open, alive, call, written, got>>

\* "kalau angkanya 1, berarti ini adalah close TERAKHIR".
LastClose(t) == open = {t}

FinishClose(t) ==
    /\ Running(t) /\ pc[t] = "closing"
    /\ WakeUp("FullWaiters")
    /\ alive' = (alive /\ ~LastClose(t))
    /\ open' = open \ {t}
    /\ pc' = [pc EXCEPT ![t] = "user"]
    /\ UNCHANGED <<data, readPos, writePos, available, writeClosed, call, written, got>>

PipeNext ==
    \/ \E t \in Ends :
          \/ \E n \in Requests, nb \in BOOLEAN : StartCall(t, n, nb)
          \/ Transfer(t)
          \/ Return(t)
          \/ FirstWait(t)
          \/ Unlock(t)
          \/ NextWait(t)
          \/ Relock(t)
          \/ StartClose(t)
          \/ FinishClose(t)
    \/ LockFree /\ Switch /\ UNCHANGED <<wl, bufVars, callVars>>

PipeSpec == PipeInit /\ [][PipeNext]_<<dispatchVars, wl, bufVars, callVars>>
-----------------------------------------------------------------------------
InTransit == [i \in 1..available |-> data[(readPos + i - 1) % Size]]

\* Whatever the calls, their sizes and their interleaving, the readers take the
\* bytes in the order in which they were written, none twice and none lost:
\* those taken and those in the ring are the bytes written so far.
BytesInOrder ==
    /\ got \o InTransit = [i \in 1..written |-> i]
    /\ writePos = (readPos + available) % Size

\* The buffer is not deleted while a call is inside it or an end is open, and
\* a wakeup never goes to a task that has nothing to do with the pipe.
BufferOutlivesCalls ==
    /\ \A t \in Ends : pc[t] # "user" => alive
    /\ alive <=> open # {}

\* The ring and the structure around it hold together for as long as a call can
\* reach them.
PipeIsSound == BytesInOrder /\ BufferOutlivesCalls

\* A reader that sleeps on the pipe is in a wait queue or queued to run, however
\* often it has gone through SleepOn before it lost the processor.
SleeperIsFound == BlockedIsFound(Readers)

\* "Tidur nunggu ada yang nulis": a reader that has gone to sleep is waiting
\* for bytes.  Nobody sleeps while there are some, unless a writer is on its
\* way to wake it.
\* TLC refutes it (README, section 5).
NoReaderSleepsOnBytes ==
    ~corrupt => \A r \in Readers :
       (state[r] = "BLOCKED" /\ r # current /\ r \notin runq /\ LockFree) => available = 0
=============================================================================
