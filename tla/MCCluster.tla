----------------------------- MODULE MCCluster -----------------------------
(* Small instances of Cluster for TLC. *)
EXTENDS Cluster

B(dial, register, exit, request_, oversize, lose, restart) ==
  [k \in {"dial", "register", "exit", "request", "oversize", "lose", "restart"} |->
     CASE k = "dial" -> dial [] k = "register" -> register [] k = "exit" -> exit
       [] k = "request" -> request_ [] k = "oversize" -> oversize
       [] k = "lose" -> lose [] k = "restart" -> restart]
ClusterBudgets ==
  {B(1, 2, 1, 0, 0, 1, 0), B(2, 1, 0, 0, 0, 0, 1), B(2, 0, 0, 1, 1, 0, 0), B(1, 0, 0, 2, 1, 1, 0)}
ReconnectBudgets == {B(2, 0, 0, 0, 0, 0, 1)}
LossBudgets == {B(1, 0, 0, 1, 0, 1, 0)}
=============================================================================
