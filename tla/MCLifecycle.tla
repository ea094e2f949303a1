---------------------------- MODULE MCLifecycle ----------------------------
(* Small instances of Lifecycle for TLC: a supervisor, its child and two more
   processes. *)
EXTENDS Lifecycle

B(spawn, label, tag, end, timer_, cancel, shutdown_) ==
  [k \in {"spawn", "label", "tag", "end", "timer", "cancel", "shutdown"} |->
     CASE k = "spawn" -> spawn [] k = "label" -> label [] k = "tag" -> tag
       [] k = "end" -> end [] k = "timer" -> timer_ [] k = "cancel" -> cancel
       [] k = "shutdown" -> shutdown_]
LifeBudgets == {B(1, 1, 1, 1, 0, 0, 0), B(0, 0, 2, 2, 0, 0, 0), B(0, 1, 0, 0, 0, 0, 1),
                B(1, 0, 0, 1, 0, 0, 1), B(0, 0, 0, 1, 2, 2, 0), B(0, 0, 0, 0, 1, 1, 1)}
=============================================================================
