-------------------------------- MODULE Nvme --------------------------------
(***************************************************************************)
(* The NVMe driver (driver/nvme/nvme.cpp): a controller that is identified *)
(* by polling, and one pair of queues whose completions wake the tasks     *)
(* that sleep on their command.                                            *)
(*                                                                         *)
(* A task's way through ReadSectors, WriteSectors or FlushCache is cut     *)
(* where an interrupt or a tick can change what follows: after             *)
(* IOLock.Acquire, after the doorbell, after WaitingTask is set, after the *)
(* task blocks.  The task goes on running after it blocks until the tick   *)
(* it has asked for.                                                       *)
(*                                                                         *)
(* IOLock is a Mutex, whose Acquire also lets in a task that has to wait   *)
(* for the lock, until the next tick.  A task that goes on before the lock *)
(* is handed to it is told apart (slipped): it is in the section together  *)
(* with the holder, and what the two do to each other there is not         *)
(* followed.                                                               *)
(*                                                                         *)
(* Left out: the contents of commands, the page lists of large transfers   *)
(* and the calls that fail before they ask for the lock.                   *)
(***************************************************************************)
EXTENDS Mutex, Integers

CONSTANTS Depth,      \* entries of each queue and number of command identifiers
          IOLock

ASSUME NvmeAssumption == Depth \in Nat \ {0, 1} /\ IOLock \in Locks /\ Contenders = Tasks

VARIABLES boot,           \* admin commands answered; -1 when the driver gave up
          adminHead,      \* AdminCQHead
          adminPosted,    \* completions the controller wrote to the admin queue
          polling,        \* Head of the PollAdminCompletion under way, or -1
          sq, sqTail,     \* iOSQBase, iOSQTail
          sqHead, inside, \* what the controller has fetched, and works on
          cq,             \* iOCQBase: phase, command and success of each entry
          cqTail, phase,  \* the controller's next entry and its phase bit
          cqHead,         \* iOCQHead
          phaseTag,       \* iOPhaseTag
          irq,            \* an interrupt is on its way
          waitingTask,    \* WaitingTask[cid]
          commandStatus,  \* CommandStatus[cid]
          call,           \* where each task is, and its command identifier
          slipped,        \* history: a task went on before it was handed IOLock
          missed,         \* history: tasks whose command ended before they were listed
          ranOn,          \* history: a call returned before its task was switched out
          filled,         \* history: a command took the last entry of a full queue
          answer,         \* history: what the controller said of each task's command
          wrong           \* history: a call returned something else

adminVars == <<boot, adminHead, adminPosted, polling>>
queueVars == <<sq, sqTail, sqHead, inside, cq, cqTail, phase, cqHead, phaseTag, irq>>
callVars == <<waitingTask, commandStatus, call, slipped, missed, ranOn, filled, answer, wrong>>
lockVars == <<wl, mutexVars>>
nvmeVars == <<dispatchVars, lockVars, adminVars, queueVars, callVars>>

Index == 0..(Depth - 1)
Cids == Index
After(i) == (i + 1) % Depth
AdminCommands == 4          \* two to identify, two to create the queues
NoCommand == [task |-> NoTask, cid |-> 0]

NvmeInit ==
    /\ MutexInit
    /\ boot = 0 /\ adminHead = 0 /\ adminPosted = 0 /\ polling = -1
    /\ sq = [i \in Index |-> NoCommand] /\ sqTail = 0 /\ sqHead = 0 /\ inside = {}
    /\ cq = [i \in Index |-> [phase |-> 0, of |-> NoCommand, ok |-> FALSE]]
    /\ cqTail = 0 /\ phase = 1 /\ cqHead = 0 /\ phaseTag = 1 /\ irq = FALSE
    /\ waitingTask = [c \in Cids |-> NoTask] /\ commandStatus = [c \in Cids |-> FALSE]
    /\ call = [t \in Tasks |-> [at |-> "out", cid |-> 0]]
    /\ slipped = FALSE /\ missed = {} /\ ranOn = FALSE /\ filled = FALSE /\ wrong = FALSE
    /\ answer = [t \in Tasks |-> "none"]

-----------------------------------------------------------------------------
\* Starting the controller: each admin command is polled for, and from the third
\* on the interrupt handler looks at the same queue.
AdminCommand ==
    /\ boot \in 0..(AdminCommands - 1) /\ polling = -1
    /\ polling' = adminHead
    /\ UNCHANGED <<dispatchVars, lockVars, boot, adminHead, adminPosted, queueVars, callVars>>

AdminCompletes ==
    /\ polling # -1 /\ adminPosted = boot
    /\ adminPosted' = adminPosted + 1
    /\ irq' = (boot >= 2)
    /\ UNCHANGED <<dispatchVars, lockVars, boot, adminHead, polling, sq, sqTail, sqHead, inside,
                   cq, cqTail, phase, cqHead, phaseTag, callVars>>

\* The entry looked at is the one at the head when the call began.  After a time
\* without an answer the driver deletes the controller.
PollAdminCompletion ==
    /\ polling # -1
    /\ \/ polling < adminPosted /\ boot' = boot + 1 /\ adminHead' = polling + 1
       \/ polling = adminPosted /\ boot' = -1 /\ UNCHANGED adminHead
    /\ polling' = -1
    /\ UNCHANGED <<dispatchVars, lockVars, adminPosted, queueVars, callVars>>

-----------------------------------------------------------------------------
At(t, where) == Running(t) /\ call[t].at = where
Goes(t, where) == [call EXCEPT ![t].at = where]

AllocateCID(c) ==
    /\ waitingTask[c] = NoTask
    /\ \A d \in Cids : d < c => waitingTask[d] # NoTask

\* IOLock.Acquire, which returns whether or not the lock was free.
Enter(t) ==
    /\ boot = AdminCommands
    /\ At(t, "out") /\ Acquire(t, IOLock)
    /\ call' = Goes(t, "in")
    /\ UNCHANGED <<adminVars, queueVars, waitingTask, commandStatus, slipped, missed, ranOn, filled,
                   answer, wrong>>

\* t goes on from IOLock.Acquire, in turn or not.
GoesOn(t) == At(t, "in") /\ slipped' = (slipped \/ InQueue(t))

\* From IOLock.Acquire to the doorbell.  Nothing asks whether the queue is full:
\* with the last entry the tail meets the head, and to the controller it is empty.
Submit(t) ==
    /\ GoesOn(t)
    /\ \E c \in Cids :
          /\ AllocateCID(c)
          /\ sq' = [sq EXCEPT ![sqTail] = [task |-> t, cid |-> c]]
          /\ call' = [call EXCEPT ![t] = [at |-> "rung", cid |-> c]]
    /\ sqTail' = After(sqTail)
    /\ answer' = [answer EXCEPT ![t] = "none"]
    /\ filled' = (filled \/ sqTail' = sqHead)
    /\ UNCHANGED <<dispatchVars, lockVars, adminVars, sqHead, inside, cq, cqTail, phase, cqHead,
                   phaseTag, irq, waitingTask, commandStatus, missed, ranOn, wrong>>

\* No identifier is free, or no page for the list of a large transfer.
SubmitFails(t) ==
    /\ GoesOn(t)
    /\ Release(t, IOLock)
    /\ call' = Goes(t, "out")
    /\ UNCHANGED <<adminVars, queueVars, waitingTask, commandStatus, missed, ranOn, filled, answer, wrong>>

ListTask(t) ==
    /\ At(t, "rung")
    /\ waitingTask' = [waitingTask EXCEPT ![call[t].cid] = t]
    /\ Release(t, IOLock)
    /\ call' = Goes(t, "listed")
    /\ UNCHANGED <<adminVars, queueVars, commandStatus, slipped, missed, ranOn, filled, answer, wrong>>

BlockTaskCauseOfIOAndYield(t) ==
    /\ At(t, "listed")
    /\ Block(t)
    /\ call' = Goes(t, "blocked")
    /\ UNCHANGED <<lockVars, adminVars, queueVars, waitingTask, commandStatus, slipped, missed, ranOn, filled,
                   answer, wrong>>

Return(t) ==
    LET c == call[t].cid
    IN /\ At(t, "blocked")
       /\ waitingTask' = [waitingTask EXCEPT ![c] = NoTask]
       /\ call' = Goes(t, "out")
       /\ ranOn' = (ranOn \/ state[t] = "BLOCKED")
       /\ wrong' = (wrong \/ answer[t] # (IF commandStatus[c] THEN "done" ELSE "failed"))
       /\ missed' = missed \ {t}
       /\ UNCHANGED <<dispatchVars, lockVars, adminVars, queueVars, commandStatus, slipped, filled, answer>>

-----------------------------------------------------------------------------
\* The controller fetches in order and finishes in any order.
Fetch ==
    /\ sqHead # sqTail
    /\ \A w \in inside : w.slot # sqHead
    /\ inside' = inside \cup {[slot |-> sqHead, of |-> sq[sqHead]]}
    /\ sqHead' = After(sqHead)
    /\ UNCHANGED <<dispatchVars, lockVars, adminVars, sq, sqTail, cq, cqTail, phase, cqHead, phaseTag, irq, callVars>>

Complete(w, ok) ==
    /\ After(cqTail) # cqHead
    /\ inside' = inside \ {w}
    /\ cq' = [cq EXCEPT ![cqTail] = [phase |-> phase, of |-> w.of, ok |-> ok]]
    /\ cqTail' = After(cqTail)
    /\ phase' = IF cqTail' = 0 THEN 1 - phase ELSE phase
    /\ irq' = TRUE
    /\ answer' = [answer EXCEPT ![w.of.task] = IF ok THEN "done" ELSE "failed"]
    /\ UNCHANGED <<dispatchVars, lockVars, adminVars, sq, sqTail, sqHead, cqHead, phaseTag,
                   waitingTask, commandStatus, call, slipped, missed, ranOn, filled, wrong>>

\* The k-th entry from the head, and the phase it has once it is written.
Entry(k) == cq[(cqHead + k) % Depth]
Expected(k) == IF cqHead + k >= Depth THEN 1 - phaseTag ELSE phaseTag
NewEntries == {k \in Index : \A j \in 0..k : Entry(j).phase = Expected(j)}

\* Mutant: a failure stays with the identifier.
StatusOfSticky(c, k) == Entry(k).ok /\ commandStatus[c]
StatusOf(c, k) == Entry(k).ok

\* Every new entry: keep its status, wake the task that waits for it, advance.
ProcessCompletionQueue ==
    LET new == NewEntries
        n == Cardinality(new)
        cidAt(k) == Entry(k).of.cid
        last(c) == CHOOSE k \in new : cidAt(k) = c /\ \A j \in new : cidAt(j) = c => j <= k
        waking == {k \in new : waitingTask[cidAt(k)] # NoTask}
        woken == {waitingTask[cidAt(k)] : k \in waking}
    IN /\ cqHead' = (cqHead + n) % Depth
       /\ phaseTag' = Expected(n)
       /\ commandStatus' = [c \in Cids |->
             IF \E k \in new : cidAt(k) = c THEN StatusOf(c, last(c)) ELSE commandStatus[c]]
       /\ runq' = runq \cup woken
       /\ corrupt' = (woken \cap runq # {} \/ Cardinality(waking) # Cardinality(woken))
       /\ missed' = missed \cup {Entry(k).of.task : k \in new \ waking}

HandleInterrupt ==
    /\ irq /\ ~corrupt
    /\ irq' = FALSE
    /\ adminHead' = adminPosted
    /\ ProcessCompletionQueue
    /\ UNCHANGED <<state, current, lockVars, boot, adminPosted, polling, sq, sqTail, sqHead, inside,
                   cq, cqTail, phase, waitingTask, call, slipped, ranOn, filled, answer, wrong>>

Tick == Switch /\ UNCHANGED <<lockVars, adminVars, queueVars, callVars>>

NvmeNext ==
    \/ AdminCommand \/ AdminCompletes \/ PollAdminCompletion
    \/ \E t \in Tasks : \/ Enter(t) \/ Submit(t) \/ SubmitFails(t) \/ ListTask(t)
                        \/ BlockTaskCauseOfIOAndYield(t) \/ Return(t)
    \/ Fetch \/ \E w \in inside : \E ok \in BOOLEAN : Complete(w, ok)
    \/ HandleInterrupt
    \/ Tick

NvmeSpec == NvmeInit /\ [][NvmeNext]_nvmeVars

-----------------------------------------------------------------------------
\* Where the command of task t is before its completion has been handled.
Underway(t) ==
    \/ \E i \in Index : sq[i].task = t /\ (i + Depth - sqHead) % Depth < (sqTail + Depth - sqHead) % Depth
    \/ \E w \in inside : w.of.task = t
    \/ irq /\ \E k \in NewEntries : Entry(k).of.task = t

\* A task that sleeps on its command is queued to run or its command is on its way
\* to an interrupt that will find it, and the polled admin queue is read once per
\* answer.  Not so for a command that ended before the task was listed, nor after
\* a task went on from a contended Acquire of IOLock before the tick (it takes the
\* identifier the holder has taken), after a call has returned from under a
\* command that was still on its way or after the queue was full.
NvmeWaiterIsFound ==
    /\ ~corrupt /\ ~slipped /\ ~ranOn /\ ~filled =>
         \A t \in Tasks \ missed :
            call[t].at = "blocked" /\ state[t] = "BLOCKED" /\ current # t /\ t \notin runq
               => Underway(t) /\ waitingTask[call[t].cid] = t
    /\ boot # -1 /\ polling = -1 => adminHead = boot

\* A call returns what the controller said of its own command, if tasks that wait
\* for IOLock or for a command were switched out and woken and the queue was never
\* full: identifiers in use are never given out again, and no completion is read
\* twice or passed over.
NvmeAnswersAreOwn == slipped \/ ranOn \/ filled \/ ~wrong
=============================================================================
