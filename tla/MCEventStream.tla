--------------------------- MODULE MCEventStream ---------------------------
(* Small instances of EventStream for TLC: more streams than permits. *)
EXTENDS EventStream

B(plain, rich_, crash) ==
  [k \in {"plain", "rich", "crash"} |->
     CASE k = "plain" -> plain [] k = "rich" -> rich_ [] k = "crash" -> crash]
StreamBudgets == {B(1, 1, 1), B(0, 2, 0), B(2, 0, 0)}
=============================================================================
