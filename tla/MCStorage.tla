----------------------------- MODULE MCStorage ------------------------------
(* The file systems, each in a scenario of its own: a run starts in one     *)
(* scenario and stays there while the other file system is at rest.         *)
EXTENDS Ext2, Fat32
CONSTANTS Scenarios,         \* of "ext2", "ext2faults", "fat", "fatfaults"
          RegularCalls, FaultyCalls, FatCalls, FatFaultyCalls   \* calls in a behaviour of each
VARIABLES calls, scenario

\* Data that reads as pointers to blocks in use.
MCOtherData == [j \in 1..PtrsPerBlock |-> j]

Symmetry == Permutations(DirNames) \cup Permutations(FatNames) \cup Permutations(FatNodes)

MaxCalls == [ext2 |-> RegularCalls, ext2faults |-> FaultyCalls, fat |-> FatCalls, fatfaults |-> FatFaultyCalls]

StorageInit == Ext2Init /\ Fat32Init /\ calls = 0 /\ scenario \in Scenarios

StorageNext ==
    /\ calls < MaxCalls[scenario] /\ calls' = calls + 1 /\ UNCHANGED scenario
    /\ \/ /\ scenario = "ext2" /\ met = {} /\ Ext2Next({Unlimited}) /\ UNCHANGED fatVars
       \/ /\ scenario = "ext2faults" /\ Ext2Next(Faults) /\ UNCHANGED fatVars
       \/ /\ scenario = "fat" /\ fatMet = {} /\ Fat32Next({NoFault}) /\ UNCHANGED ext2Vars
       \/ /\ scenario = "fatfaults" /\ "twice" \notin fatMet /\ Fat32Next(FatFaults) /\ UNCHANGED ext2Vars

StorageSpec == StorageInit /\ [][StorageNext]_<<calls, scenario, ext2Vars, fatVars>>
=============================================================================
