---------------------------- MODULE ThreadedIrq -----------------------------
(***************************************************************************)
(* Threaded interrupts (kernel/irq/threaded_irq.cpp) with their one user,  *)
(* the xHCI driver: the top half masks the controller and wakes a worker   *)
(* thread, whose bottom half drains the event ring and unmasks it.         *)
(*                                                                         *)
(* Each stretch of the worker with interrupts off is one action; the top   *)
(* half and the timer interrupt fall between any two of them.              *)
(***************************************************************************)
EXTENDS WaitQueue

CONSTANTS Vectors,    \* the interrupts: each has the wait queue of its worker
          Worker,     \* Worker[v]: the WorkerThread of vector v
          Others,     \* tasks that only use the processor
          MaxEvents   \* bound on the events of a ring

ASSUME WorkerAssumption ==
    /\ Vectors \subseteq Lists /\ Others \subseteq Tasks
    /\ Worker \in [Vectors -> Tasks] /\ MaxEvents \in Nat \ {0}

VARIABLES pending,    \* IrqAction::PendingWorkRn
          irqPc,      \* where the worker is in IrqWorkerWrapper
          ie,         \* the interrupt-enable bit of the controller (IMAN.IE)
          events      \* unprocessed events in the ring

irqVars == <<pending, irqPc, ie, events>>
IrqTasks == {Worker[v] : v \in Vectors} \cup Others

IrqsIdle ==
    /\ pending = [v \in Vectors |-> FALSE]
    /\ irqPc = [v \in Vectors |-> "check"]
    /\ ie = [v \in Vectors |-> TRUE]
    /\ events = [v \in Vectors |-> 0]

ThreadedIrqInit == Created(IrqTasks) /\ wl = EmptyLists /\ IrqsIdle

\* The controller writes an event into its ring.
DeviceEvent(v) ==
    /\ ~corrupt
    /\ events[v] < MaxEvents
    /\ events' = [events EXCEPT ![v] = @ + 1]
    /\ UNCHANGED <<dispatchVars, wl, pending, irqPc, ie>>

\* Mutant: the worker is woken, but the flag is not set.
WakeUpThreadedIrqNoFlag(v) ==
    /\ WakeUp(v)
    /\ UNCHANGED pending

WakeUpThreadedIrq(v) ==
    /\ pending' = [pending EXCEPT ![v] = TRUE]
    /\ WakeUp(v)

\* The controller interrupts while it is unmasked and its ring is not empty.
TopHalf(v) ==
    /\ ~corrupt
    /\ ie[v] /\ events[v] > 0
    /\ ie' = [ie EXCEPT ![v] = FALSE]
    /\ WakeUpThreadedIrq(v)
    /\ UNCHANGED <<irqPc, events>>

At(v, where) == Running(Worker[v]) /\ irqPc[v] = where

\* IrqWorkerWrapper, between Cli and Sti.
CheckPending(v) ==
    /\ At(v, "check")
    /\ irqPc' = [irqPc EXCEPT ![v] = IF pending[v] THEN "work" ELSE "sleep"]
    /\ pending' = [pending EXCEPT ![v] = FALSE]
    /\ UNCHANGED <<dispatchVars, wl, ie, events>>

SleepOnQueue(v) ==
    /\ At(v, "sleep")
    /\ SleepOn(Worker[v], v)
    /\ irqPc' = [irqPc EXCEPT ![v] = "check"]
    /\ UNCHANGED <<pending, ie, events>>

\* xHCI_Worker_Thread: ProcessPendingEvents drains the ring and then writes
\* IMAN with the interrupt enabled; the worker enables it once more.
DrainRing(v) ==
    /\ At(v, "work")
    /\ events' = [events EXCEPT ![v] = 0]
    /\ irqPc' = [irqPc EXCEPT ![v] = "ack"]
    /\ UNCHANGED <<dispatchVars, wl, pending, ie>>

AckInterrupt(v) ==
    /\ At(v, "ack")
    /\ ie' = [ie EXCEPT ![v] = TRUE]
    /\ irqPc' = [irqPc EXCEPT ![v] = "enable"]
    /\ UNCHANGED <<dispatchVars, wl, pending, events>>

EnableInterrupt(v) ==
    /\ At(v, "enable")
    /\ ie' = [ie EXCEPT ![v] = TRUE]
    /\ irqPc' = [irqPc EXCEPT ![v] = "check"]
    /\ UNCHANGED <<dispatchVars, wl, pending, events>>

ThreadedIrqNext ==
    \/ \E v \in Vectors :
          \/ DeviceEvent(v)
          \/ TopHalf(v)
          \/ CheckPending(v)
          \/ SleepOnQueue(v)
          \/ DrainRing(v)
          \/ AckInterrupt(v)
          \/ EnableInterrupt(v)
    \/ Switch /\ UNCHANGED <<wl, irqVars>>

ThreadedIrqSpec == ThreadedIrqInit /\ [][ThreadedIrqNext]_<<dispatchVars, wl, irqVars>>
-----------------------------------------------------------------------------
\* While the controller is masked, or has events that its last drain did not
\* see, an interrupt is still to come or is known: the controller is unmasked,
\* the flag is set, or the worker has taken the flag and will unmask.  The two
\* enabling writes of the worker, the second after a new interrupt may have
\* masked the controller again, lose nothing.
MaskedIsKnown ==
    \A v \in Vectors : ie[v] \/ pending[v] \/ irqPc[v] \in {"work", "ack", "enable"}

\* A worker that sleeps off the processor is where the next WakeUp finds it.
WorkerIsFound == BlockedIsFound(IrqTasks)

\* "re-awoken on the next interrupt": a worker that is neither running nor
\* queued to run has left its controller unmasked, so that there can be one.
SleepsUnmasked ==
    ~corrupt => \A v \in Vectors :
       (Worker[v] # current /\ Worker[v] \notin runq) => ie[v]
=============================================================================
