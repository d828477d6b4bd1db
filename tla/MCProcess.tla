----------------------------- MODULE MCProcess ------------------------------
(* Processes, their groups and their terminal; a behaviour is one of the      *)
(* Scenarios.  "table": more task structures than slots, so that the table is *)
(* full and pids are used again.  "groups": process groups and signals, with  *)
(* few enough structures that each group has up to two members beside its     *)
(* leader.  "terminal": keys, reads and writes of one terminal.               *)
EXTENDS Tty, TLC

CONSTANTS Scenarios, Family,
          Shell              \* the first task of the groups and of the terminal

VARIABLE scenario

AllInit ==
    /\ scenario \in Scenarios
    /\ ProcessInit /\ SignalsInit /\ TtyInit
    /\ scenario # "table" => current = Shell

\* Bounds of the groups: how many structures are built, one signal, and only the
\* first task catches it (it forks no more then: the child would catch it too).
InFamily ==
    /\ Cardinality({t \in Tasks : state'[t] # "NONE"}) <= Family
    /\ handled' \subseteq {Shell}
    /\ (\E t \in Tasks : signals[t] # {}) =>
          \A t \in Tasks : signals'[t] # signals[t] => state[t] = "NONE"

\* Bounds of the terminal: two processes, one of them in the foreground, of which one
\* at a time reads or writes, and no step after the line has come to harm.
InTerminal ==
    /\ ~torn
    /\ foreground' <= 2
    /\ Cardinality({t \in Tasks : state'[t] # "NONE"}) <= 2
    /\ Cardinality({t \in Tasks : io'[t].at # "user"}) <= 1

AllNext ==
    /\ UNCHANGED scenario
    /\ \/ scenario = "table" /\ ProcessNext /\ UNCHANGED <<sigVars, ttyVars>>
       \/ scenario = "groups" /\ SignalsNext /\ UNCHANGED ttyVars /\ InFamily
       \/ scenario = "terminal" /\ TtyNext /\ InTerminal

AllSpec == AllInit /\ [][AllNext]_<<scenario, vars, sigVars, ttyVars>>
=============================================================================
