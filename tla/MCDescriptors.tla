--------------------------- MODULE MCDescriptors ----------------------------
(* Descriptors and the call that waits for them; a behaviour is one of the    *)
(* Scenarios.  "poll": two tasks with a timeout of two ticks.  "files":       *)
(* descriptor tables with room for a pipe and the tty, no shared memory and   *)
(* nothing lost.  "losses": smaller tables, shared memory, and one call that  *)
(* loses references.  "names": a small volume whose root has a directory with *)
(* the name of a mount point.                                                 *)
EXTENDS Poll, OpenFiles, Directories, TLC

CONSTANT Scenarios

VARIABLE scenario

MCSleepMS == {0, 2}
MCSleepTimes == {<<0, 1>>}
MCVolume == (<<>> :> <<".", "..", "bin", "dev", "init">>) @@ (<<"bin">> :> <<".", "..", "ls", "cat">>)
                @@ (<<"dev">> :> <<".", "..">>)
MCNameLen == [n \in {"."} |-> 1] @@ [n \in {"..", "ls"} |-> 2]
                @@ [n \in {"bin", "dev", "cat"} |-> 3] @@ [n \in {"pipe", "init"} |-> 4]
MCDetours == {<<>>, <<"">>, <<".">>, <<"x", "..">>, <<"x", "y", "..", "..">>}
Symmetry == Permutations(FileIds) \cup Permutations(NodeIds)

AllInit ==
    /\ scenario \in Scenarios
    /\ PollInit /\ FilesInit /\ DirInit
    /\ current = CHOOSE t \in Tasks : TRUE     \* the first task, one as good as another
    /\ maxFd = IF scenario = "files" THEN Max(FdCounts) ELSE Min(FdCounts)

AllNext ==
    /\ UNCHANGED scenario
    /\ \/ scenario = "poll" /\ PollNext /\ UNCHANGED <<fileVars, dirVars>>
       \/ scenario = "files" /\ UNCHANGED <<regions, lost, lostRegion>> /\ FilesNext
                                /\ UNCHANGED <<vars, pollVars, dirVars>>
       \/ scenario = "losses" /\ FilesNext /\ UNCHANGED <<vars, pollVars, dirVars>>
       \/ scenario = "names" /\ DirNext /\ UNCHANGED <<vars, pollVars, fileVars>>

AllSpec == AllInit /\ [][AllNext]_<<scenario, vars, pollVars, fileVars, dirVars>>
=============================================================================
