-------------------------------- MODULE Ahci --------------------------------
(***************************************************************************)
(* The AHCI driver (driver/ahci/): commands of one port.  ReadSectors and  *)
(* WriteSectors take the lock of the port, FlushCache does not; the port   *)
(* has a single WaitingTask.                                               *)
(*                                                                         *)
(* A call is cut where an interrupt or a tick can change what follows:     *)
(* after the lock, before the command is issued, and after the yield,      *)
(* which lets the task run on until the tick it has asked for.             *)
(*                                                                         *)
(* The lock is a Mutex, whose Acquire also lets in a task that has to wait *)
(* for it, until the next tick; a task that goes on before the lock is     *)
(* handed to it is told apart (slippedIn) and what it does to the holder   *)
(* is not followed.                                                        *)
(*                                                                         *)
(* Left out: the contents of commands and buffers, finding the port and    *)
(* its device.  Other ports have their own lock, slots and WaitingTask.    *)
(***************************************************************************)
EXTENDS Mutex

CONSTANTS PortSlots,  \* command slots of the port
          PortLock    \* the port's entry of PortLocks

ASSUME AhciAssumption == PortSlots \in Nat \ {0} /\ PortLock \in Locks /\ Contenders = Tasks

VARIABLES ci,         \* PxCI: the slots the controller works on
          is,         \* PxIS: "D2H", a command has ended; "TFES", with an error
          tfd,        \* the error bit of PxTFD
          halted,     \* an error stops the port; nothing starts it again
          portWait,   \* WaitingTask of the port
          io,         \* where each task is, its slot, and whether it flushes
          slippedIn,  \* history: a task went on before it was handed the lock
          ended,      \* history: slots whose command has ended well
          overlaid,   \* history: a flush was under way together with a transfer
          stranded,   \* history: tasks switched out between blocking and issuing
          wrongly     \* history: TRUE was returned for a command that had not ended well

portVars == <<ci, is, tfd, halted>>
driverVars == <<portWait, io>>
ahciHistory == <<slippedIn, ended, overlaid, stranded, wrongly>>
ahciVars == <<dispatchVars, wl, mutexVars, portVars, driverVars, ahciHistory>>

SlotNumbers == 0..(PortSlots - 1)

\* IDENTIFY in slot 0, polled for with a limit; nobody looks at the result.  It may
\* be under way still, or have stopped the port.
SendIdentify ==
    \/ ci = {} /\ is = {} /\ ~tfd /\ ~halted
    \/ ci = {0} /\ is = {} /\ ~tfd /\ ~halted
    \/ ci = {0} /\ is \in {{"TFES"}, {"TFES", "D2H"}} /\ tfd /\ halted

AhciInit ==
    /\ MutexInit
    /\ ci \in {{}, {0}} /\ is \in SUBSET {"TFES", "D2H"}
    /\ tfd \in BOOLEAN /\ halted \in BOOLEAN
    /\ SendIdentify
    /\ portWait = NoTask
    /\ io = [t \in Tasks |-> [at |-> "out", slot |-> 0, flush |-> FALSE]]
    /\ slippedIn = FALSE /\ ended = {} /\ overlaid = FALSE /\ stranded = {} /\ wrongly = FALSE

-----------------------------------------------------------------------------
Where(t, p) == Running(t) /\ io[t].at = p
Moves(t, p) == io' = [io EXCEPT ![t].at = p]

FindFreeCommandSlot(s) == s \in SlotNumbers \ ci /\ \A r \in 0..(s - 1) : r \in ci

\* Mutant: a read goes in without the lock, as a flush does.
LockPortForWrites(t) ==
    /\ Where(t, "out")
    /\ Acquire(t, PortLock) \/ UNCHANGED <<dispatchVars, wl, mutexVars>>
    /\ Moves(t, "in")
    /\ UNCHANGED <<portVars, portWait, ahciHistory>>

\* PortLocks[PortNum].Acquire, which returns whether or not the lock was free.
LockPort(t) ==
    /\ Where(t, "out") /\ Acquire(t, PortLock)
    /\ Moves(t, "in")
    /\ UNCHANGED <<portVars, portWait, ahciHistory>>

\* t goes on from the lock, in turn or not.
GoesIn(t) == Where(t, "in") /\ slippedIn' = (slippedIn \/ InQueue(t))

InCommand(t) == io[t].at \in {"ready", "blocked", "issued"}

Prepare(t, flush) ==
    /\ \E s \in SlotNumbers :
          /\ FindFreeCommandSlot(s)
          /\ io' = [io EXCEPT ![t] = [at |-> "ready", slot |-> s, flush |-> flush]]
    /\ ended' = ended \ {io'[t].slot}
    /\ overlaid' = (overlaid \/ \E u \in Tasks \ {t} : InCommand(u) /\ (flush \/ io[u].flush))
    /\ UNCHANGED <<dispatchVars, wl, mutexVars, ci, is, tfd, halted, portWait, stranded, wrongly>>

\* ReadSectors, WriteSectors from the lock to IssueCommand.
Transfer(t) == GoesIn(t) /\ Prepare(t, FALSE)

\* The early returns.  Without a buffer for a read, with a buffer too small for a
\* write or without a free slot for it, they forget the lock.
TransferFails(t) ==
    /\ GoesIn(t)
    /\ Release(t, PortLock) \/ UNCHANGED <<dispatchVars, wl, mutexVars>>
    /\ Moves(t, "out")
    /\ UNCHANGED <<portVars, portWait, ended, overlaid, stranded, wrongly>>

FlushCache(t) == Where(t, "out") /\ Prepare(t, TRUE) /\ UNCHANGED slippedIn

\* IssueCommand.
Enlist(t) ==
    /\ Where(t, "ready")
    /\ portWait' = t
    /\ Block(t)
    /\ Moves(t, "blocked")
    /\ UNCHANGED <<wl, mutexVars, portVars, ahciHistory>>

Issue(t) ==
    /\ Where(t, "blocked")
    /\ ci' = ci \cup {io[t].slot}
    /\ Moves(t, "issued")
    /\ UNCHANGED <<dispatchVars, wl, mutexVars, is, tfd, halted, portWait, ahciHistory>>

\* What IssueCommand looks at after the yield.
Succeeded(s) == s \notin ci /\ "TFES" \notin is /\ ~tfd

\* Writing PxCI back does not stop a command: its bits can only be set.
AfterYield(t) ==
    LET s == io[t].slot IN
    /\ Where(t, "issued")
    /\ portWait' = NoTask
    /\ is' = IF s \notin ci /\ ("TFES" \in is \/ tfd) THEN {} ELSE is
    /\ wrongly' = (wrongly \/ (Succeeded(s) /\ s \notin ended))
    /\ IF io[t].flush THEN UNCHANGED <<dispatchVars, wl, mutexVars>> ELSE Release(t, PortLock)
    /\ Moves(t, "out")
    /\ UNCHANGED <<ci, tfd, halted, slippedIn, ended, overlaid, stranded>>

-----------------------------------------------------------------------------
\* The controller ends a command.  An error leaves the command in PxCI and stops
\* the port; the device may report it with or without a D2H frame.
Ends(s) ==
    /\ ~halted
    /\ ci' = ci \ {s}
    /\ is' = is \cup {"D2H"}
    /\ tfd' = FALSE
    /\ ended' = ended \cup {s}
    /\ UNCHANGED <<dispatchVars, wl, mutexVars, halted, driverVars, slippedIn, overlaid, stranded, wrongly>>

EndsBadly(s) ==
    /\ ~halted
    /\ halted' = TRUE /\ tfd' = TRUE
    /\ \E bits \in {{"TFES"}, {"TFES", "D2H"}} : is' = is \cup bits
    /\ UNCHANGED <<dispatchVars, wl, mutexVars, ci, driverVars, ahciHistory>>

HandlePortInterrupt ==
    /\ is # {} /\ ~corrupt
    /\ is' = {}
    /\ IF "D2H" \in is /\ portWait # NoTask
       THEN UnblockTaskWithIOBoost(portWait) /\ portWait' = NoTask
       ELSE UNCHANGED <<dispatchVars, portWait>>
    /\ UNCHANGED <<wl, mutexVars, ci, tfd, halted, io, ahciHistory>>

PortTick ==
    /\ Switch
    /\ stranded' = stranded \cup {t \in Tasks : t = current /\ io[t].at = "blocked" /\ state[t] = "BLOCKED"}
    /\ UNCHANGED <<wl, mutexVars, portVars, driverVars, slippedIn, ended, overlaid, wrongly>>

AhciNext ==
    \/ \E t \in Tasks : \/ LockPort(t) \/ Transfer(t) \/ TransferFails(t) \/ FlushCache(t)
                        \/ Enlist(t) \/ Issue(t) \/ AfterYield(t)
    \/ \E s \in ci : Ends(s) \/ EndsBadly(s)
    \/ HandlePortInterrupt
    \/ PortTick

AhciSpec == AhciInit /\ [][AhciNext]_ahciVars

-----------------------------------------------------------------------------
\* A task that sleeps on its command is queued to run, or its command is under way
\* and the interrupt will find the task, whoever else waits for the port or was
\* handed its lock meanwhile.  Four things break this: a task that goes on from a
\* contended Acquire before the tick, which enlists itself over the holder, a tick
\* between blocking and issuing, a flush together with a transfer, and an error,
\* after which no command of the port ends.
AhciWaiterIsFound ==
    ~corrupt /\ ~slippedIn /\ ~overlaid /\ ~halted =>
        \A t \in Tasks \ stranded :
            io[t].at = "issued" /\ state[t] = "BLOCKED" /\ current # t /\ t \notin runq
               => portWait = t /\ (io[t].slot \in ci \/ "D2H" \in is)

\* TRUE is returned only for a command that has ended well, even if the call ran
\* on past its yield, was woken by another command, or the port has met an error;
\* only two commands at a time, which may share a slot, break this: a flush
\* together with a transfer, and a transfer that went on from a contended Acquire.
AhciTrueMeansDone == slippedIn \/ overlaid \/ ~wrongly
=============================================================================
