--------------------------- MODULE MCProcessTable ---------------------------
(* Small instances of ProcessTable for TLC: four scenarios, each a bound on *)
(* the calls, on the callers that make them and on the processes.          *)
EXTENDS ProcessTable

CONSTANTS c1, c2

B(sl, l, u, m, k, e, t) ==
  [op \in Ops |-> CASE op = "spawn_link" -> sl [] op = "link" -> l
                    [] op = "unlink" -> u [] op = "monitor" -> m
                    [] op = "kill" -> k [] op = "exit" -> e
                    [] op = "trap_exit" -> t]
Within(budget, callers, procs) ==
  /\ \A op \in Ops : calls'[op] <= budget[op]
  /\ \A c \in Callers \ callers : call'[c] = Idle
  /\ nextId' <= procs

MostCalls == B(1, 2, 1, 1, 1, 1, 1)
SpawnLinkBudget == B(1, 0, 0, 0, 0, 0, 0)

\* Each operation but unlink, on two processes; crossing links and unlinks of two
\* callers; three processes linked into a chain, trapping or unlinked meanwhile.
Scenario ==
  \/ Within(B(1, 1, 0, 1, 1, 1, 1), {c1}, 2)
  \/ Within(B(0, 2, 1, 0, 0, 0, 1), {c1, c2}, 2)
  \/ Within(B(0, 2, 0, 0, 0, 0, 1), {c1}, 3)
  \/ Within(B(0, 2, 1, 0, 0, 0, 0), {c1}, 3)
ScenarioSpec == Init /\ [][Next /\ Scenario]_vars /\ Fairness
=============================================================================
