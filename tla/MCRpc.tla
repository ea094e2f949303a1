------------------------------- MODULE MCRpc -------------------------------
(* Small instances of Rpc for TLC: two clients of one service, which calls a
   second one, as does a closure of the first client. *)
EXTENDS Rpc

CalleesOf == [p \in Procs |->
  CASE p = "c" -> {"s", "t"} [] p = "d" -> {"s"} [] p = "s" -> {"t"} [] p = "t" -> {}]
B(c, d, s, casts, timed, lent, invoked) ==
  [calls |-> [p \in Procs |-> CASE p = "c" -> c [] p = "d" -> d [] p = "s" -> s [] p = "t" -> 0],
   casts |-> casts, timed |-> timed, lent |-> lent, invoked |-> invoked]
RpcBudgets ==
  {B(1, 1, 2, 0, 0, 0, 0), B(2, 1, 0, 0, 0, 1, 2), B(2, 1, 1, 0, 2, 0, 0),
   B(1, 0, 1, 2, 1, 1, 1)}
TimeoutBudgets == {B(1, 1, 1, 0, 1, 0, 0)}
=============================================================================
