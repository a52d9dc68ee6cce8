--------------------------- MODULE MCConnections ---------------------------
(***************************************************************************)
(* A call in three grains that share no variable: its way through client,  *)
(* data server and copies (CallPath), the connection on the side that asks *)
(* (ClientConnection) and on the side that answers (ServerConnection).     *)
(* One instance explores the one or the other, chosen by grain.  The       *)
(* limits are 0 packets on a closed connection where the code has 10, and  *)
(* 2 rounds of the timeout thread before a delete where it has 10.         *)
(***************************************************************************)
EXTENDS MCCallPath, ClientConnection, ServerConnection

VARIABLE grain

NetInit ==
  /\ grain \in {"calls", "asking", "answering"}
  /\ Init /\ ConnInit /\ SrvInit
  /\ grain # "calls" => load = CHOOSE l \in MCLoads : TRUE

NetNext ==
  /\ UNCHANGED grain
  /\ \/ grain = "calls" /\ Next /\ UNCHANGED <<connVars, srvVars>>
     \/ grain = "asking" /\ ConnNext /\ UNCHANGED <<vars, srvVars>>
     \/ grain = "answering" /\ SrvNext /\ UNCHANGED <<vars, connVars>>

\* The fairness of each specification, in its own grain.
NetFairness ==
  /\ Fairness
  /\ WF_connVars(grain = "asking" /\ ConnProgress)
  /\ WF_srvVars(grain = "answering" /\ SrvProgress)

NetSpec == NetInit /\ [][NetNext]_<<grain, vars, connVars, srvVars>> /\ NetFairness

\* Every packet that postPacket took is answered to its handler, every removed
\* component deleted and every request answered or let go.
ConnectionsSettle == []<>(PostsAnswered /\ Collected)

=============================================================================
