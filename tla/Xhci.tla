-------------------------------- MODULE Xhci --------------------------------
(***************************************************************************)
(* The USB host controller driver (driver/xhci/): from a device that is    *)
(* plugged in to its first report.  The driver writes commands into a ring *)
(* that ends in a link; the controller follows it by the cycle bit and     *)
(* answers with events, which one worker handles in order.  The port a new *)
(* slot is for is kept in a queue beside the commands.                     *)
(*                                                                         *)
(* A control transfer is one thing here, not its stages.  The rings of     *)
(* endpoints are wrapped like the command ring of SetupAddressDevice and   *)
(* stand here as present or not.  The event ring is a queue.               *)
(*                                                                         *)
(* PED, written back as 1, disables a port of a controller that follows    *)
(* the xHCI specification; others, emulated ones among them, pass over it. *)
(*                                                                         *)
(* Left out: contexts, descriptors and their memory; hubs and mass storage *)
(* beyond configuring them; InitializeAllControllers overlapping the       *)
(* worker within the writing of one command.                               *)
(***************************************************************************)
EXTENDS Naturals, Sequences, FiniteSets

CONSTANTS PortCount, MaxSlots,
          CmdRingSize,     \* entries, the link included
          EventRingSize,
          ResetRetries,    \* 3
          Kinds,           \* classes of devices, among "hid", "msc", "other"
          MaxPlugs         \* bound on how often a device is plugged in

ASSUME XhciAssumption ==
    /\ {PortCount, MaxSlots, EventRingSize} \subseteq Nat \ {0}
    /\ CmdRingSize \in Nat \ {0, 1} /\ {ResetRetries, MaxPlugs} \subseteq Nat

Ports == 1..PortCount
Slots == 1..MaxSlots

VARIABLES clears,     \* the controller disables a port when PED is written as 1
          port,       \* port register and PortStates
          scan,       \* the port InitializeAllControllers is at
          ring,       \* VCmdRing with both ends
          enableQ,    \* EnableSlotQueue
          events,     \* the event ring
          dev,        \* Devs
          hw,         \* what the controller knows of a slot
          xfer,       \* transfers the controller works on: of endpoint 0, interrupt
          plugs,
          sent,       \* history: commands not executed yet, oldest first
          badLink,    \* history: the link was written with the wrong cycle
          overrun,    \* history: more commands were under way than the ring holds
          refused,    \* history: slots for which something failed
          exhausted,  \* history: an Enable Slot failed
          collided,   \* history: ports with a change that raised no event
          gaveUp,     \* history: ports whose resets all failed, or that an acknowledgement disabled
          mismatch    \* history: a slot was given to a port that had not asked for it

xhciHistory == <<badLink, overrun, refused, exhausted, collided, gaveUp, mismatch>>
xhciVars == <<clears, port, scan, ring, enableQ, events, dev, hw, xfer, plugs, sent, xhciHistory>>

Commands == 0..(CmdRingSize - 2)
NoTrb == [type |-> "none", slot |-> 0, port |-> 0, cycle |-> FALSE]
NoDev == [stage |-> "START", root |-> 0, kind |-> "none", ep0 |-> FALSE, ep |-> FALSE]

XhciInit ==
    /\ clears \in BOOLEAN
    /\ port = [p \in Ports |-> [conn |-> FALSE, enabled |-> FALSE, csc |-> FALSE, prc |-> FALSE,
                                resetting |-> FALSE, resets |-> 0, slot |-> 0, kind |-> "none"]]
    /\ scan = 1
    /\ ring = [trb |-> [i \in Commands |-> NoTrb], link |-> TRUE, enq |-> 0, cycle |-> TRUE,
               deq |-> 0, seen |-> TRUE]
    /\ enableQ = <<>> /\ events = <<>> /\ sent = <<>> /\ plugs = 0
    /\ dev = [s \in Slots |-> NoDev] /\ hw = [s \in Slots |-> "off"]
    /\ xfer = [s \in Slots |-> [ep0 |-> 0, int |-> 0]]
    /\ badLink = FALSE /\ overrun = FALSE /\ refused = {} /\ exhausted = FALSE
    /\ collided = {} /\ gaveUp = {} /\ mismatch = FALSE

-----------------------------------------------------------------------------
\* The ring after a command; the last place before the link also turns the cycle.
Put(r, c, link) ==
    [r EXCEPT !.trb[r.enq] = [type |-> c.type, slot |-> c.slot, port |-> c.port, cycle |-> r.cycle],
              !.enq = IF r.enq = CmdRingSize - 2 THEN 0 ELSE r.enq + 1,
              !.link = IF r.enq = CmdRingSize - 2 THEN link ELSE @,
              !.cycle = IF r.enq = CmdRingSize - 2 THEN ~@ ELSE @]

\* SetupAddressDevice, ConfigureEndpoint, Disable Slot: the link keeps the cycle of
\* the commands before it.
\* Mutant: the cycle is turned first here too.
PutCommandTurned(r, c) == Put(r, c, ~r.cycle)
PutCommand(r, c) == Put(r, c, r.cycle)

\* SendNOOPCommand, SendEnableSlotCommand: the cycle is turned before the link is
\* written.
PutEarly(r, c) == Put(r, c, ~r.cycle)

\* An event that is still to be handled after this step names entry i.
Unhandled(i) == \E k \in 1..Len(events') : events'[k].type = "command" /\ events'[k].at = i

\* What every command leaves behind, early ones or others.
Sends(cs, early) ==
    /\ ring' = IF cs = <<>> THEN ring
               ELSE LET put(r, c) == IF early THEN PutEarly(r, c) ELSE PutCommand(r, c)
                        one == put(ring, cs[1])
                    IN IF Len(cs) = 1 THEN one ELSE put(one, cs[2])
    /\ sent' = sent \o cs
    /\ badLink' = (badLink \/ (early /\ cs # <<>> /\ ring.enq = CmdRingSize - 2))
    /\ overrun' = (overrun \/ \E k \in 1..Len(cs) :
                      Unhandled((ring.enq + k - 1) % (CmdRingSize - 1)) \/ Len(sent) + k > CmdRingSize - 2)

SendsNothing == UNCHANGED <<ring, sent, badLink, overrun>>
Command(t, s, p) == [type |-> t, slot |-> s, port |-> p]
SendEnableSlotCommand(p) == Sends(<<Command("ENABLE_SLOT", 0, p)>>, TRUE)

\* A port asks for a slot.
\* Mutant: the newest port is put in front.
QueuePortFirst(p) == enableQ' = <<p>> \o enableQ
QueuePort(p) == enableQ' = Append(enableQ, p)

-----------------------------------------------------------------------------
\* InitializeAllControllers once the controller runs: one port after the other,
\* then a NOOP.  Events are handled meanwhile.
InitializePort ==
    /\ scan \in Ports
    /\ scan' = scan + 1 /\ UNCHANGED events
    /\ \/ /\ port[scan].conn /\ port[scan].enabled
          /\ QueuePort(scan) /\ SendEnableSlotCommand(scan) /\ UNCHANGED port
       \/ /\ port[scan].conn /\ ~port[scan].enabled
          /\ port' = [port EXCEPT ![scan].resetting = TRUE]
          /\ UNCHANGED enableQ /\ SendsNothing
       \/ /\ ~port[scan].conn
          /\ UNCHANGED <<port, enableQ>> /\ SendsNothing
    /\ UNCHANGED <<dev, hw, xfer, plugs, refused, exhausted, collided, gaveUp, mismatch>>

SendNOOPCommand ==
    /\ scan = PortCount + 1
    /\ scan' = PortCount + 2 /\ UNCHANGED events
    /\ Sends(<<Command("NOOP", 0, 0)>>, TRUE)
    /\ UNCHANGED <<port, enableQ, dev, hw, xfer, plugs, refused, exhausted, collided, gaveUp, mismatch>>

-----------------------------------------------------------------------------
\* The controller.  A port raises an event when its first change bit is set, and no
\* more until all are cleared.
Raise(p, bit) ==
    LET quiet == ~port[p].csc /\ ~port[p].prc
    IN /\ events' = IF quiet THEN Append(events, [type |-> "port", port |-> p]) ELSE events
       /\ collided' = IF ~quiet /\ ~port[p][bit] THEN collided \cup {p} ELSE collided

Room == Len(events) < EventRingSize
KeepsDriver == UNCHANGED <<scan, ring, enableQ, dev, sent, badLink, overrun, gaveUp, mismatch>>

Plug(p, kind, enabled) ==
    /\ Room /\ ~port[p].conn /\ plugs < MaxPlugs
    /\ plugs' = plugs + 1
    /\ port' = [port EXCEPT ![p].conn = TRUE, ![p].enabled = enabled, ![p].csc = TRUE, ![p].kind = kind]
    /\ Raise(p, "csc")
    /\ KeepsDriver /\ UNCHANGED <<hw, xfer, refused, exhausted>>

Unplug(p) ==
    /\ Room /\ port[p].conn
    /\ port' = [port EXCEPT ![p].conn = FALSE, ![p].enabled = FALSE, ![p].csc = TRUE]
    /\ hw' = [s \in Slots |-> IF hw[s] = "addressed" /\ dev[s].root = p THEN "dead" ELSE hw[s]]
    /\ Raise(p, "csc")
    /\ KeepsDriver /\ UNCHANGED <<xfer, plugs, refused, exhausted>>

ResetEnds(p, ok) ==
    /\ Room /\ port[p].resetting
    /\ port' = [port EXCEPT ![p].resetting = FALSE, ![p].prc = TRUE, ![p].enabled = ok /\ port[p].conn]
    /\ Raise(p, "prc")
    /\ KeepsDriver /\ UNCHANGED <<hw, xfer, plugs, refused, exhausted>>

\* Where the controller is once it has followed the link, if it may.
Follows ==
    IF ring.deq = CmdRingSize - 1 /\ ring.link = ring.seen
    THEN [at |-> 0, seen |-> ~ring.seen] ELSE [at |-> ring.deq, seen |-> ring.seen]
CanExecute == Follows.at \in Commands /\ ring.trb[Follows.at].cycle = Follows.seen
              /\ ring.trb[Follows.at].type # "none"

FreeSlot == IF \E s \in Slots : hw[s] = "off"
            THEN CHOOSE s \in Slots : hw[s] = "off" /\ \A r \in Slots : r < s => hw[r] # "off" ELSE 0

Execute(ok) ==
    LET c == ring.trb[Follows.at]
        s == IF c.type = "ENABLE_SLOT" THEN FreeSlot ELSE c.slot
    IN /\ Room /\ CanExecute
       /\ \/ /\ c.type = "NOOP" /\ ok
             /\ UNCHANGED <<hw, xfer>>
          \/ /\ c.type = "ENABLE_SLOT" /\ ok = (s # 0)
             /\ hw' = IF ok THEN [hw EXCEPT ![s] = "on"] ELSE hw
             /\ UNCHANGED xfer
          \/ /\ c.type = "DISABLE_SLOT" /\ ok
             /\ hw' = [hw EXCEPT ![s] = "off"]
             /\ xfer' = [xfer EXCEPT ![s] = [ep0 |-> 0, int |-> 0]]
          \/ /\ c.type = "ADDRESS_DEVICE" /\ (ok => hw[s] = "on" /\ port[dev[s].root].conn)
             /\ hw' = IF ok THEN [hw EXCEPT ![s] = "addressed"] ELSE hw
             /\ UNCHANGED xfer
          \/ /\ c.type = "CONFIGURE_ENDPOINT" /\ (ok => hw[s] = "addressed")
             /\ UNCHANGED <<hw, xfer>>
       /\ ring' = [ring EXCEPT !.deq = Follows.at + 1, !.seen = Follows.seen]
       /\ sent' = IF sent = <<>> THEN sent ELSE Tail(sent)
       /\ events' = Append(events, [type |-> "command", at |-> Follows.at, ok |-> ok, slot |-> s, port |-> c.port])
       /\ refused' = IF ok THEN refused ELSE refused \cup ({s} \ {0})
       /\ exhausted' = (exhausted \/ (c.type = "ENABLE_SLOT" /\ ~ok))
       /\ UNCHANGED <<port, scan, enableQ, dev, plugs, badLink, overrun, collided, gaveUp, mismatch>>

\* A transfer ends well, with more data than was asked for, or with another error.
TransferEnds(s, ep, code) ==
    /\ Room /\ xfer[s][ep] > 0 /\ (code # "ERROR" => hw[s] = "addressed")
    /\ xfer' = [xfer EXCEPT ![s][ep] = @ - 1]
    /\ events' = Append(events, [type |-> "transfer", slot |-> s, ep |-> ep, code |-> code])
    /\ refused' = IF code = "SUCCESS" THEN refused ELSE refused \cup {s}
    /\ KeepsDriver /\ UNCHANGED <<port, hw, plugs, exhausted, collided>>

-----------------------------------------------------------------------------
\* FreeDeviceResources and ResetDevState: rings, buffers and class; the stage stays.
FreeDeviceResources(s) ==
    dev' = [dev EXCEPT ![s].ep0 = FALSE, ![s].ep = FALSE, ![s].kind = "none"]

\* HandlePortStatusChange writes the register back to clear the change bit, PED as
\* it was read.
Acknowledged(p) == [port EXCEPT ![p].enabled = @ /\ ~clears]

\* What was read before the acknowledgement decides.
ConnectChange(p) ==
    LET s == port[p].slot
        base == [Acknowledged(p) EXCEPT ![p].csc = FALSE]
    IN /\ gaveUp' = IF port[p].conn /\ port[p].enabled /\ clears THEN gaveUp \cup {p} ELSE gaveUp \ {p}
       /\ \/ /\ port[p].conn /\ port[p].enabled
             /\ port' = base
             /\ QueuePort(p) /\ SendEnableSlotCommand(p) /\ UNCHANGED dev
          \/ /\ port[p].conn /\ ~port[p].enabled
             /\ port' = [base EXCEPT ![p].resets = 0, ![p].resetting = TRUE]
             /\ UNCHANGED <<enableQ, dev>> /\ SendsNothing
          \/ /\ ~port[p].conn /\ s # 0
             /\ port' = [base EXCEPT ![p].slot = 0]
             /\ Sends(<<Command("DISABLE_SLOT", s, p)>>, FALSE)
             /\ FreeDeviceResources(s) /\ UNCHANGED enableQ
          \/ /\ ~port[p].conn /\ s = 0
             /\ port' = base /\ UNCHANGED <<enableQ, dev>> /\ SendsNothing

\* Mutant: the reset that failed is not tried again.
ResetChangeOnce(p) ==
    /\ UNCHANGED dev
    /\ port' = [Acknowledged(p) EXCEPT ![p].prc = FALSE]
    /\ IF port[p].conn /\ port'[p].enabled
       THEN QueuePort(p) /\ SendEnableSlotCommand(p) /\ UNCHANGED gaveUp
       ELSE /\ gaveUp' = IF port[p].resets < ResetRetries THEN gaveUp ELSE gaveUp \cup {p}
            /\ UNCHANGED enableQ /\ SendsNothing

\* The port is read again after the acknowledgement, once it has left the polling
\* state.
ResetChange(p) ==
    LET base == [Acknowledged(p) EXCEPT ![p].prc = FALSE]
        ready == port[p].conn /\ base[p].enabled
    IN /\ UNCHANGED dev
       /\ \/ /\ ready
             /\ port' = base
             /\ QueuePort(p) /\ SendEnableSlotCommand(p) /\ UNCHANGED gaveUp
          \/ /\ ~ready /\ port[p].resets < ResetRetries
             /\ port' = [base EXCEPT ![p].resets = @ + 1, ![p].resetting = port[p].conn]
             /\ UNCHANGED <<enableQ, gaveUp>> /\ SendsNothing
          \/ /\ ~ready /\ port[p].resets = ResetRetries
             /\ port' = base
             /\ gaveUp' = gaveUp \cup {p}
             /\ UNCHANGED enableQ /\ SendsNothing

HandlePortStatusChange(p) ==
    /\ \/ port[p].csc /\ ConnectChange(p)
       \/ ~port[p].csc /\ port[p].prc /\ ResetChange(p)
       \/ ~port[p].csc /\ ~port[p].prc /\ UNCHANGED <<port, enableQ, dev, gaveUp>> /\ SendsNothing
    /\ UNCHANGED <<xfer, refused, mismatch>>

\* Contexts and a ring for endpoint 0, then the command.
SetupAddressDevice(s, p) ==
    /\ dev' = [dev EXCEPT ![s].ep0 = TRUE, ![s].root = p]
    /\ Sends(<<Command("ADDRESS_DEVICE", s, p)>>, FALSE)

\* Enable Slot has ended.  A port that is gone by now leaves the slot unused.
SlotEnabled(s, asker) ==
    IF enableQ = <<>>
    THEN UNCHANGED <<port, enableQ, dev, refused, mismatch>> /\ SendsNothing
    ELSE LET p == Head(enableQ)
             alive == port[p].conn /\ port[p].enabled
         IN /\ enableQ' = Tail(enableQ)
            /\ mismatch' = (mismatch \/ p # asker)
            /\ port' = [port EXCEPT ![p].slot = IF alive THEN s ELSE 0]
            /\ IF alive
               THEN SetupAddressDevice(s, p) /\ refused' = refused \ {s}
               ELSE UNCHANGED <<dev, refused>> /\ SendsNothing

\* PushEP0TRB and the doorbell; nothing is pushed without a ring.
ControlTransfer(s) == xfer' = IF dev[s].ep0 THEN [xfer EXCEPT ![s].ep0 = @ + 1] ELSE xfer
QueueInterruptTransfer(s) == xfer' = IF dev[s].ep THEN [xfer EXCEPT ![s].int = @ + 1] ELSE xfer
GetDeviceDescriptor(s) ==
    dev' = [dev EXCEPT ![s].stage = "GET_DESCRIPTOR_SENT"] /\ ControlTransfer(s)
KeepsPorts == UNCHANGED <<port, enableQ, refused, mismatch>>

CommandCompletes(e) ==
    LET t == ring.trb[e.at].type
        s == e.slot
    IN \/ /\ e.ok /\ t = "ENABLE_SLOT"
          /\ SlotEnabled(s, e.port) /\ UNCHANGED xfer
       \/ /\ e.ok /\ t = "ADDRESS_DEVICE"
          /\ GetDeviceDescriptor(s) /\ KeepsPorts /\ SendsNothing
       \/ /\ e.ok /\ t = "CONFIGURE_ENDPOINT"
          /\ dev' = [dev EXCEPT ![s].stage = "RUNNING"]
          /\ IF dev[s].kind = "hid" THEN QueueInterruptTransfer(s) ELSE UNCHANGED xfer
          /\ KeepsPorts /\ SendsNothing
       \/ /\ ~e.ok \/ t \in {"NOOP", "DISABLE_SLOT"}
          /\ UNCHANGED <<dev, xfer>> /\ KeepsPorts /\ SendsNothing

\* SetDeviceConfiguration, SetBootProtocol, GetDescriptor
NextStage ==
    [GET_DESCRIPTOR_SENT |-> "SET_CONFIG_SENT", SET_CONFIG_SENT |-> "SET_PROTOCOL_SENT",
     SET_PROTOCOL_SENT |-> "GET_CONFIG_DESC_SENT"]

\* A ring for the endpoint, then the command.
ConfigureEndpoint(s) == Command("CONFIGURE_ENDPOINT", s, dev[s].root)

\* What the configuration descriptor says: a keyboard or mouse has one endpoint
\* here, mass storage two, anything else none that is used.
FindClassAndEndpoint(s) ==
    LET kind == port[dev[s].root].kind
        one == ConfigureEndpoint(s)
    IN /\ dev' = [dev EXCEPT ![s].kind = kind,
                             ![s].ep = (kind # "other"),
                             ![s].stage = IF kind = "msc" THEN "RUNNING" ELSE "ENDPOINT_CONFIG_SENT"]
       /\ Sends(IF kind = "msc" THEN <<one, one>> ELSE IF kind = "hid" THEN <<one>> ELSE <<>>, FALSE)

TransferCompletes(e) ==
    LET s == e.slot
        st == dev[s].stage
        ok == e.code = "SUCCESS"
    IN /\ KeepsPorts
       /\ \/ /\ ok /\ dev[s].kind # "msc" /\ st \in DOMAIN NextStage
             /\ dev' = [dev EXCEPT ![s].stage = NextStage[st]]
             /\ ControlTransfer(s) /\ SendsNothing
          \/ /\ ok /\ dev[s].kind # "msc" /\ st = "GET_CONFIG_DESC_SENT"
             /\ FindClassAndEndpoint(s) /\ UNCHANGED xfer
          \/ /\ ok /\ dev[s].kind # "msc" /\ st = "RUNNING"
             /\ IF e.ep = "int" THEN QueueInterruptTransfer(s) ELSE UNCHANGED xfer
             /\ UNCHANGED dev /\ SendsNothing
          \/ /\ e.code = "BABBLE"
             /\ QueueInterruptTransfer(s) /\ UNCHANGED dev /\ SendsNothing
          \/ \* mass storage has no one waiting; other stages and errors are only logged
             /\ e.code = "ERROR" \/ (ok /\ dev[s].kind = "msc")
                   \/ (ok /\ st \in {"START", "ENDPOINT_CONFIG_SENT"})
             /\ UNCHANGED <<dev, xfer>> /\ SendsNothing

\* One turn of the loop of ProcessPendingEvents.
ProcessEvent ==
    /\ events # <<>> /\ ~overrun
    /\ events' = Tail(events)
    /\ LET e == Head(events)
       IN \/ e.type = "port" /\ HandlePortStatusChange(e.port)
          \/ e.type = "command" /\ CommandCompletes(e) /\ UNCHANGED gaveUp
          \/ e.type = "transfer" /\ TransferCompletes(e) /\ UNCHANGED gaveUp
    /\ UNCHANGED <<scan, hw, plugs, exhausted, collided>>

XhciNext ==
    /\ UNCHANGED clears
    /\ \/ InitializePort \/ SendNOOPCommand \/ ProcessEvent
       \/ \E p \in Ports :
             \/ \E k \in Kinds, on \in BOOLEAN : Plug(p, k, on)
             \/ Unplug(p)
             \/ \E ok \in BOOLEAN : ResetEnds(p, ok)
       \/ \E ok \in BOOLEAN : Execute(ok)
       \/ \E s \in Slots, ep \in {"ep0", "int"}, code \in {"SUCCESS", "BABBLE", "ERROR"} :
             TransferEnds(s, ep, code)

XhciSpec == XhciInit /\ [][XhciNext]_xhciVars

-----------------------------------------------------------------------------
\* The controller always has the oldest command before it, and nothing else: old
\* entries are never taken for new ones at the end of the ring.  An Enable Slot or
\* a NOOP just before the link breaks this, and the controller stops there.
CommandRingIsFollowed ==
    ~badLink /\ ~overrun =>
        IF sent = <<>> THEN ~CanExecute
        ELSE CanExecute /\ ring.trb[Follows.at].type = sent[1].type /\ ring.trb[Follows.at].slot = sent[1].slot

\* A slot goes to the port its Enable Slot was sent for, whatever else is under way,
\* until one fails: the port of a failed one stays in the queue.
SlotsGoToTheirPorts == ~exhausted /\ ~overrun => ~mismatch

Coming(p, s) ==
    \/ \E k \in 1..Len(sent) : sent[k].port = p \/ (s # 0 /\ sent[k].slot = s)
    \/ \E k \in 1..Len(events) :
          \/ events[k].type # "transfer" /\ events[k].port = p
          \/ events[k].type # "port" /\ s # 0 /\ events[k].slot = s
    \/ s # 0 /\ (xfer[s].ep0 > 0 \/ xfer[s].int > 0)

\* A device that is plugged in is on its way to being used: its port is being reset
\* or looked at, or a command, transfer or event will take it further, and a
\* keyboard or mouse in use always has a transfer queued.  Not so after a failed
\* command or transfer or three failed resets, for an unknown class, when two
\* changes of a port were raised as one, or when writing PED back has disabled a
\* port that was enabled as it was connected: its Enable Slot finds it dead.
EnumerationGoesOn ==
    ~overrun /\ ~badLink /\ ~exhausted /\ scan > PortCount =>
        \A p \in Ports \ (collided \cup gaveUp) :
            LET s == port[p].slot
            IN port[p].conn =>
                 \/ port[p].resetting \/ Coming(p, s)
                 \/ s # 0 /\ (s \in refused \/ dev[s].kind \in {"msc", "other"})
=============================================================================
