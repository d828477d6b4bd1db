----------------------------- MODULE MCDevices ------------------------------
(***************************************************************************)
(* The device drivers and the network below TCP, one at a time: the        *)
(* scenario says which of them moves.  What a driver does after one of the *)
(* races its properties exclude is not explored further.                   *)
(***************************************************************************)
EXTENDS Net, Nvme, Ahci, E1000, Xhci, TLC

VARIABLE scenario

\* Each server leases an address of its own.
MCLease(s) == <<1, s[2] + 5>>
MCMachines == {<<1, 1>>, <<1, 2>>, <<1, 3>>}
MCRouter == <<1, 1>>
MCOutside == {<<2, 1>>, <<3, 9>>}
MCServers == {<<1, 1>>, <<1, 2>>}

MCSymmetry == Permutations(Tasks)

nvmeOwn == <<adminVars, queueVars, callVars>>
ahciOwn == <<portVars, driverVars, ahciHistory>>

MCInit ==
    /\ scenario \in {"net", "nvme", "ahci", "e1000", "usb", "usb two ports"}
    /\ NetInit /\ (scenario # "net" => ~card.masked /\ card.gw = Zero)
    /\ NvmeInit
    /\ AhciInit /\ (scenario # "ahci" => ci = {})
    /\ E1000Init /\ XhciInit /\ (clears => scenario \in {"usb", "usb two ports"})

\* One port: up to two devices, one after the other, one of which may fail in any
\* way and the second of which is a keyboard.  Two ports: keyboards, up to the first
\* failure.  Neither goes on once a port is given up or was disabled.
UsbBounds ==
    /\ ~overrun /\ ~badLink /\ ~exhausted /\ ~mismatch /\ gaveUp = {}
    /\ IF scenario = "usb"
       THEN ~port[2].conn /\ Cardinality(refused) < 2 /\ (port[1].kind = "msc" => plugs = 1)
       ELSE refused = {} /\ collided = {} /\ \A p \in Ports : port[p].kind # "msc"

MCNext ==
    /\ UNCHANGED scenario
    /\ \/ /\ scenario = "net" /\ NetNext
          /\ UNCHANGED <<dispatchVars, lockVars, nvmeOwn, ahciOwn, e1000Vars, xhciVars>>
       \/ /\ scenario = "nvme" /\ ~slipped /\ ~ranOn /\ ~filled /\ NvmeNext
          /\ UNCHANGED <<netVars, ahciOwn, e1000Vars, xhciVars>>
       \/ /\ scenario = "ahci" /\ ~slippedIn /\ ~overlaid /\ AhciNext
          /\ UNCHANGED <<netVars, nvmeOwn, e1000Vars, xhciVars>>
       \/ /\ scenario = "e1000" /\ ~raced /\ ~nestedRx /\ E1000Next
          /\ UNCHANGED <<netVars, dispatchVars, lockVars, nvmeOwn, ahciOwn, xhciVars>>
       \/ /\ scenario \in {"usb", "usb two ports"} /\ UsbBounds /\ XhciNext
          /\ UNCHANGED <<netVars, dispatchVars, lockVars, nvmeOwn, ahciOwn, e1000Vars>>

MCSpec == MCInit /\ [][MCNext]_<<netVars, nvmeVars, ahciOwn, e1000Vars, xhciVars, scenario>>

\* Whoever sleeps on a disk command is where the interrupt of the controller will
\* find it, with either driver.
DiskWaitersAreFound == NvmeWaiterIsFound /\ AhciWaiterIsFound

\* What a disk call returns is what the controller said of the command of that call.
DiskAnswersAreOwn == NvmeAnswersAreOwn /\ AhciTrueMeansDone
=============================================================================
