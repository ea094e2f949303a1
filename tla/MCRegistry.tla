----------------------------- MODULE MCRegistry -----------------------------
(* Small instances of Registry for TLC. *)
EXTENDS Registry

CONSTANTS c1, c2, n1, t1

B(r, u, w, rt, ut, k) ==
  [op \in Ops |-> CASE op = "register" -> r [] op = "unregister" -> u
                    [] op = "whereis_or_spawn" -> w
                    [] op = "register_tag" -> rt
                    [] op = "unregister_tag" -> ut [] op = "kill_tag" -> k]
RegistryBudgets ==
  {B(1, 1, 2, 0, 0, 0), B(0, 0, 3, 0, 0, 0), B(0, 0, 0, 3, 1, 1),
   B(2, 1, 0, 1, 1, 0)}
LeakBudgets == {B(2, 1, 0, 0, 0, 0)}
TagLeakBudgets == {B(0, 0, 0, 2, 1, 0)}
=============================================================================
