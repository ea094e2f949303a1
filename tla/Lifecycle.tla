------------------------------ MODULE Lifecycle ------------------------------
(***************************************************************************)
(* What the runtime does about processes as a whole (rusm-otp/runtime.rs,   *)
(* and the timers of rusm-wasm/src/bridges/actor.rs): the census of labels  *)
(* and groups that a task of its own prints, the delayed messages with      *)
(* their cancellation, and shutdown, beside a supervisor that restarts its  *)
(* child (OneForOne) while its child is being shut down.                    *)
(*                                                                         *)
(* The table is sharded: the census and shutdown walk it entry by entry,    *)
(* each shard once, while others spawn, label, tag and end.  Pids stand for *)
(* the places of the table, which a walk visits in any order.  The log      *)
(* level is Info throughout.  Processes are a few steps here: ProcessTable  *)
(* and Registry have them in detail.                                        *)
(***************************************************************************)
EXTENDS Integers, FiniteSets

CONSTANTS
  MaxProcs, MaxTimers,   \* bounds on the processes and the timers
  Budgets                \* what may happen in a behaviour: bounds per kind of event

ASSUME BoundsAssumption ==
  /\ MaxProcs \in Nat \ {0, 1} /\ MaxTimers \in Nat
  /\ Budgets \subseteq
       [{"spawn", "label", "tag", "end", "timer", "cancel", "shutdown"} -> Nat]

Procs == 1 .. MaxProcs
Timers == 1 .. MaxTimers
Supervisor == 1
FirstChild == 2
NoProc == 0

VARIABLES
  state,      \* state[p]: unborn, live (in the table), leaving, gone
  aborted,    \* the processes whose abort flag is set
  labeled,    \* the processes with a label
  members,    \* the processes in the one group there is
  child,      \* the supervisor's child
  gen,        \* census_gen
  dirty,      \* the permit of census_dirty
  owed,       \* the calls that have changed something and not noted it yet
  waking,     \* the calls of note_census between its two steps
  census,     \* the census task
  line,       \* the last line it printed, and how many there were
  timer,      \* each timer: its target and what became of it
  delivered,  \* history: how often each timer's message got to its target
  shut,       \* where shutdown is, and the places it has yet to visit
  missed,     \* history: the processes that entered where it had been already
  left        \* bounds

table == <<state, labeled, members, child>>
noting == <<gen, dirty, owed, waking>>
printing == <<census, line>>
timers == <<timer, delivered>>
stopping == <<shut, missed>>
vars == <<table, aborted, noting, printing, timers, stopping, left>>

Live == {p \in Procs : state[p] = "live"}
Spend(what) == left[what] > 0 /\ left' = [left EXCEPT ![what] = @ - 1]
NoTimer == [at |-> "none", to |-> NoProc, held |-> FALSE, cancelled |-> FALSE]
Parked(printed) == [at |-> "parked", gen |-> 0, ahead |-> {}, seen |-> {}, printed |-> printed]

Init ==
  /\ state = [p \in Procs |-> IF p \in {Supervisor, FirstChild} THEN "live" ELSE "unborn"]
  /\ aborted = {} /\ labeled = {} /\ members = {} /\ child = FirstChild
  /\ gen = 0 /\ dirty = FALSE /\ owed = 0 /\ waking = 0
  /\ census = Parked(0)
  /\ line = [labels |-> {}, tags |-> {}, count |-> 0]
  /\ timer = [t \in Timers |-> NoTimer] /\ delivered = [t \in Timers |-> 0]
  /\ shut = [at |-> "no", ahead |-> {}] /\ missed = {}
  /\ left \in Budgets

-----------------------------------------------------------------------------
(* Processes.                                                              *)

Unborn == {p \in Procs : state[p] = "unborn"}
Enter(p) ==
  /\ p \in Unborn /\ \A q \in Unborn : p <= q
  /\ state' = [state EXCEPT ![p] = "live"]
  /\ missed' = IF shut.at # "no" /\ p \notin shut.ahead THEN missed \cup {p} ELSE missed
Spawn(p) ==
  /\ Spend("spawn") /\ Enter(p)
  /\ UNCHANGED <<aborted, labeled, members, child, noting, printing, timers, shut>>
\* The supervisor has the Down of its child and starts another, unless its own
\* abort is taken up first.
Restart(p) ==
  /\ Supervisor \in Live /\ state[child] = "gone"
  /\ Enter(p) /\ child' = p
  /\ UNCHANGED <<aborted, labeled, members, noting, printing, timers, shut, left>>

\* set_label.  (It notes the change with the entry still locked; noting it later
\* as well allows more.)
SetLabel(p) ==
  /\ p \in Live \ labeled /\ Spend("label")
  /\ labeled' = labeled \cup {p}
  /\ owed' = owed + 1
  /\ UNCHANGED <<aborted, state, members, child, gen, dirty, waking, printing, timers, stopping>>
\* register_tag and unregister_tag.
ChangeTag(p) ==
  /\ p \in Live /\ Spend("tag")
  /\ members' = IF p \in members THEN members \ {p} ELSE members \cup {p}
  /\ owed' = owed + 1
  /\ UNCHANGED <<aborted, state, labeled, child, gen, dirty, waking, printing, timers, stopping>>

\* deregister: out of the table, of its own or because it was aborted ...
Remove(p) ==
  /\ p \in Live /\ state' = [state EXCEPT ![p] = "leaving"]
  /\ UNCHANGED <<aborted, labeled, members, child, noting, printing, timers, stopping>>
Ends(p) == Spend("end") /\ Remove(p)
AbortTaken(p) == p \in aborted /\ Remove(p) /\ UNCHANGED left
\* ... and its groups released; only a labeled process or one that was in a
\* group changes the census.
Release(p) ==
  /\ state[p] = "leaving"
  /\ state' = [state EXCEPT ![p] = "gone"]
  /\ members' = members \ {p}
  /\ owed' = IF p \in labeled \cup members THEN owed + 1 ELSE owed
  /\ UNCHANGED <<aborted, labeled, child, gen, dirty, waking, printing, timers, stopping, left>>

-----------------------------------------------------------------------------
(* The census.                                                             *)

\* note_census: the generation, and then the wake.
Bump ==
  /\ owed > 0
  /\ owed' = owed - 1 /\ gen' = gen + 1 /\ waking' = waking + 1
  /\ UNCHANGED <<table, aborted, dirty, printing, timers, stopping, left>>
Wake ==
  /\ waking > 0
  /\ waking' = waking - 1 /\ dirty' = TRUE
  /\ UNCHANGED <<table, aborted, gen, owed, printing, timers, stopping, left>>

CensusStep == UNCHANGED <<table, aborted, gen, owed, waking, timers, stopping, left>>
\* The loop: a change wakes it, and the debounce passes.
Notified ==
  /\ census.at = "parked" /\ dirty
  /\ dirty' = FALSE
  /\ census' = [census EXCEPT !.at = "settling"]
  /\ UNCHANGED line /\ CensusStep
\* census_step: nothing if the generation is that of the last line.
Settled ==
  /\ census.at = "settling"
  /\ census' = IF gen = census.printed THEN Parked(gen)
               ELSE [census EXCEPT !.at = "walking", !.gen = gen, !.ahead = Procs]
  /\ UNCHANGED <<dirty, line>> /\ CensusStep
Count(p) ==
  /\ census.at = "walking" /\ p \in census.ahead
  /\ census' = [census EXCEPT !.ahead = @ \ {p},
                              !.seen = IF p \in Live \cap labeled THEN @ \cup {p} ELSE @]
  /\ UNCHANGED <<dirty, line>> /\ CensusStep
\* The line, for the generation that was read BEFORE the walk.
\* Mutant: for the generation there is now.
PrintNow ==
  /\ census.at = "walking" /\ census.ahead = {}
  /\ line' = [labels |-> census.seen, tags |-> members, count |-> line.count + 1]
  /\ census' = Parked(gen)
  /\ UNCHANGED dirty /\ CensusStep
PrintLine ==
  /\ census.at = "walking" /\ census.ahead = {}
  /\ line' = [labels |-> census.seen, tags |-> members, count |-> line.count + 1]
  /\ census' = Parked(census.gen)
  /\ UNCHANGED dirty /\ CensusStep

-----------------------------------------------------------------------------
(* Timers.                                                                 *)

\* send_after: a task that sleeps and then sends; the guest holds its handle.
SendAfter(t, p) ==
  /\ timer[t].at = "none" /\ p \in Live /\ Spend("timer")
  /\ timer' = [timer EXCEPT ![t] = [NoTimer EXCEPT !.at = "pending", !.to = p, !.held = TRUE]]
  /\ UNCHANGED <<table, aborted, noting, printing, delivered, stopping>>
\* The delay is over, and the task goes on to send without another await ...
Due(t) ==
  /\ timer[t].at = "pending"
  /\ timer' = [timer EXCEPT ![t].at = "due"]
  /\ UNCHANGED <<table, aborted, noting, printing, delivered, stopping, left>>
\* ... to a target that may be gone.
Fire(t) ==
  /\ timer[t].at = "due"
  /\ timer' = [timer EXCEPT ![t].at = "fired"]
  /\ delivered' = [delivered EXCEPT ![t] = IF timer[t].to \in Live THEN @ + 1 ELSE @]
  /\ UNCHANGED <<table, aborted, noting, printing, stopping, left>>
\* cancel_timer: the handle is taken and the task aborted, which does nothing
\* to one that is past its sleep.
\* Mutant: the handle is dropped, which does not abort.
CancelDropping(t) ==
  /\ timer[t].held /\ Spend("cancel")
  /\ timer' = [timer EXCEPT ![t].held = FALSE, ![t].cancelled = (timer[t].at = "pending")]
  /\ UNCHANGED <<table, aborted, noting, printing, delivered, stopping>>
Cancel(t) ==
  /\ timer[t].held /\ Spend("cancel")
  /\ timer' = [timer EXCEPT ![t].held = FALSE, ![t].cancelled = (timer[t].at = "pending"),
                            ![t].at = IF @ = "pending" THEN "aborted" ELSE @]
  /\ UNCHANGED <<table, aborted, noting, printing, delivered, stopping>>

-----------------------------------------------------------------------------
(* Shutdown.                                                               *)

Shutdown ==
  /\ shut.at = "no" /\ Spend("shutdown")
  /\ shut' = [at |-> "walking", ahead |-> Procs]
  /\ UNCHANGED <<table, aborted, noting, printing, timers, missed>>
\* The abort flag of one entry after the other; one that is not there (yet) is
\* not visited again.
\* Mutant: only those that carry a label.
VisitLabeled(p) ==
  /\ shut.at = "walking" /\ p \in shut.ahead
  /\ aborted' = IF p \in Live \cap labeled THEN aborted \cup {p} ELSE aborted
  /\ shut' = IF shut.ahead = {p} THEN [at |-> "done", ahead |-> {}]
                                 ELSE [shut EXCEPT !.ahead = @ \ {p}]
  /\ UNCHANGED <<table, noting, printing, timers, missed, left>>
Visit(p) ==
  /\ shut.at = "walking" /\ p \in shut.ahead
  /\ aborted' = IF p \in Live THEN aborted \cup {p} ELSE aborted
  /\ shut' = IF shut.ahead = {p} THEN [at |-> "done", ahead |-> {}]
                                 ELSE [shut EXCEPT !.ahead = @ \ {p}]
  /\ UNCHANGED <<table, noting, printing, timers, missed, left>>

-----------------------------------------------------------------------------
Proceed ==
  \/ Bump \/ Wake \/ Notified \/ Settled \/ PrintLine
  \/ \E p \in Procs : Restart(p) \/ AbortTaken(p) \/ Release(p) \/ Count(p) \/ Visit(p)
  \/ \E t \in Timers : Due(t) \/ Fire(t)
Happen ==
  \/ \E p \in Procs : Spawn(p) \/ SetLabel(p) \/ ChangeTag(p) \/ Ends(p)
  \/ \E t \in Timers : Cancel(t) \/ \E p \in Procs : SendAfter(t, p)
  \/ Shutdown
Next == Proceed \/ Happen
Spec == Init /\ [][Next]_vars

\* Calls that have begun go on, an abort is taken up, the census task and the
\* timers run.  Only finitely many of these steps are possible, so that
\* fairness of all together is fairness of each.
FairSpec == Spec /\ WF_vars(Proceed)

-----------------------------------------------------------------------------
(* Properties.                                                             *)

\* Types, and what ties the parts: pids in order of spawning, groups of
\* processes that have not been released, a task that has not printed for a
\* generation to come, and a line for each printing only.
TypeOK ==
  /\ state \in [Procs -> {"unborn", "live", "leaving", "gone"}]
  /\ \A p, q \in Procs : p < q /\ state[q] # "unborn" => state[p] # "unborn"
  /\ \A p \in members : state[p] \in {"live", "leaving"}
  /\ aborted \cup labeled \subseteq Procs \ Unborn
  /\ census.at \in {"parked", "settling", "walking"}
  /\ census.printed <= gen /\ line.count <= census.printed
  /\ \A t \in Timers : timer[t].at \in {"none", "pending", "due", "fired", "aborted"}

\* However changes fall into the debounce and the walk, the last line says in
\* the end what there is (runtime.rs:717-746): no change is left unprinted, for
\* its generation is read before the walk and noted after the change.
CensusSettles == <>[](line.labels = Live \cap labeled /\ line.tags = members)

\* Once every change is noted, the line printed for the generation there is says
\* what there is, though the walk that made it ran among the changes; and a
\* census task that waits while its line is of another generation is still to
\* be woken: a permit taken before the walk loses no change (runtime.rs:717-746).
LineIsTrue ==
  /\ (owed = 0 /\ gen = census.printed /\ \A p \in labeled : state[p] # "leaving") =>
       line.labels = Live \cap labeled /\ line.tags = members
  /\ census.at = "parked" /\ gen # census.printed => dirty \/ waking > 0

\* A timer delivers at most once, and not at all if it was cancelled before its
\* delay was over, though the two race (runtime.rs:1034-1094).  One that comes
\* later does not stop it (CancelTold).  (Stated with the types of all variables.)
TimersFireOnce ==
  /\ TypeOK
  /\ \A t \in Timers : /\ delivered[t] <= 1
                       /\ timer[t].cancelled => delivered[t] = 0

\* actor.rs:367-369 of cancel_timer: "returns true if the timer was found and
\* aborted before it fired; false if the handle is unknown - already fired,
\* already cancelled": a message whose cancellation reported success, for it
\* found the handle, does not arrive.  Nothing removes the handle of a timer
\* that fires, however.
CancelTold ==
  \A t \in Timers : timer[t].at # "none" /\ ~timer[t].held => delivered[t] = 0

\* The walk of shutdown misses nobody it could have met: whatever was in the
\* table when it began, and whatever entered ahead of it, is still ahead, or
\* aborted, or over, though others enter and end meanwhile (runtime.rs:1068-1082).
ShutdownMissesNone ==
  shut.at # "no" => Live \ missed \subseteq shut.ahead \cup aborted

\* runtime.rs:1068-1071: "Stops every live process ... poll process_count to
\* wait for the drain": the table is empty some time after shutdown.  A process
\* that enters where the walk has been already is never told, above all the
\* child that a supervisor restarts before its own abort is taken up.
ShutdownDrains == shut.at = "done" ~> Live = {}
=============================================================================
