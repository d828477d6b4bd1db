------------------------------- MODULE MCSync -------------------------------
(* The three users of the wait queues, each on tasks of its own: a mutex, two *)
(* threaded interrupts and a pipe.  A behaviour is one of the Scenarios.      *)
EXTENDS Mutex, ThreadedIrq, Pipe, TLC

CONSTANTS Scenarios, w1, w2

VARIABLE scenario

MCLists == {"lock", "irq1", "irq2", "Waiters", "FullWaiters"}
MCWorker == "irq1" :> w1 @@ "irq2" :> w2

Users == [mutex |-> Contenders, irq |-> IrqTasks, pipe |-> Ends]

SyncInit ==
    /\ scenario \in Scenarios
    /\ Created(Users[scenario]) /\ wl = EmptyLists
    /\ LocksFree /\ IrqsIdle /\ PipeFresh

SyncNext ==
    \/ scenario = "mutex" /\ MutexNext /\ UNCHANGED <<scenario, irqVars, bufVars, callVars>>
    \/ scenario = "irq" /\ ThreadedIrqNext /\ UNCHANGED <<scenario, mutexVars, bufVars, callVars>>
    \/ scenario = "pipe" /\ PipeNext /\ UNCHANGED <<scenario, mutexVars, irqVars>>

SyncSpec ==
    SyncInit /\ [][SyncNext]_<<scenario, dispatchVars, wl, mutexVars, irqVars, bufVars, callVars>>

=============================================================================
