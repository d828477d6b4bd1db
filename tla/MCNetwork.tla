----------------------------- MODULE MCNetwork ------------------------------
(***************************************************************************)
(* TCP as a server, as a client, and as a server beside a program that     *)
(* opens and closes sockets; a run starts as one of them and stays so.  In *)
(* the last no data is handled, and more sockets come and go instead.      *)
(***************************************************************************)
EXTENDS Tcp

VARIABLE scenario

Opens == \E f \in FDs : Sys_Socket(f) \/ CloseSocket(f)
NoData == \A s \in Slots : sock'[s].ring = <<>> /\ sock'[s].ooo = <<>>

mcVars == <<tcpVars, scenario>>
MCInit == TcpInit /\ scenario \in {"serves", "calls", "mixed"}
MCNext ==
    /\ UNCHANGED scenario
    /\ \/ scenario = "serves" /\ TcpServes /\ allocs' <= 3
       \/ scenario = "calls" /\ TcpCalls /\ allocs' <= 2
       \/ scenario = "mixed" /\ (TcpServes \/ Opens) /\ NoData
MCSpec == MCInit /\ [][MCNext]_mcVars /\ TcpFairness
=============================================================================
