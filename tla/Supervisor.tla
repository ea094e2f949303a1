----------------------------- MODULE Supervisor -----------------------------
(***************************************************************************)
(* The native supervisor of rusm-otp (supervisor.rs): the three restart    *)
(* strategies, the restart-intensity budget, termination of siblings, and  *)
(* the end of a supervisor whose owner died.                               *)
(*                                                                         *)
(* A supervisor is one process.  Its steps interleave with its children,   *)
(* which end when they like, and with the teardown of those children,      *)
(* which runs on their own tasks and reaches the supervisor as a Down in   *)
(* its mailbox.  What ProcessTable promises of monitors is assumed here:   *)
(* an armed monitor is answered once, after its target left the table, and *)
(* a late one at once.  A run of kill() calls is one step: each only sets  *)
(* a flag, or finds the child gone.                                        *)
(***************************************************************************)
EXTENDS Integers, Sequences, FiniteSetsExt

CONSTANTS
  Configs,       \* the builder's settings that are explored
  MaxProcs,      \* bound on the children ever started
  MaxTime        \* bound on the clock

Strategies == {"OneForOne", "OneForAll", "RestForOne"}

\* windowed: restarts count within a span, else over_lifetime(); owned: exits
\* are trapped and an owner is linked, as the actor ABI sets a supervisor up;
\* mail: bound on the user messages anybody sends to the supervisor.
ConfigType == [strategy : Strategies, children : Nat \ {0},
               maxRestarts : Nat, windowed : BOOLEAN, within : Nat,
               owned : BOOLEAN, mail : Nat]

ASSUME SizesAssumption == MaxProcs \in Nat /\ MaxTime \in Nat
ASSUME ConfigsAssumption == Configs \subseteq ConfigType

VARIABLES
  config,      \* the settings of this supervisor, which never change
  now,         \* the clock over_budget reads
  at,          \* where the supervisor's body is
  pids,        \* pids[i]: the process child i runs as
  todo,        \* the children still to start in this round
  targets,     \* terminate: the children whose Down is awaited
  window,      \* the restarts within the window, each with its instant
  lifetime,    \* or the number of restarts so far
  inbox,       \* the supervisor's mailbox
  state,       \* state[p] of a child process
  armed,       \* the child processes monitored and not told of yet
  owner,       \* whether the owner lives
  mail,        \* number of user messages sent so far (bound)
  nextPid,
  slotOf,      \* history: the child a process was started as
  late,        \* history: the processes monitored only after their end
  triggers     \* history: every restart trigger that was counted

control == <<at, pids, todo, targets>>
budget == <<window, lifetime, triggers>>
children == <<state, armed, nextPid, slotOf, late>>
outside == <<owner, mail>>
vars == <<config, now, control, budget, inbox, children, outside>>

Slots == 1 .. config.children
Procs == 1 .. MaxProcs
Alive(p) == state[p] \in {"running", "killed"}
Down(p) == [kind |-> "Down", pid |-> p]
OwnerExit == [kind |-> "Exit"]
UserMessage == [kind |-> "Message"]

\* kill() of every process in P: it finds only what is still in the table.
Killed(P) == [p \in Procs |-> IF p \in P /\ state[p] = "running"
                              THEN "killed" ELSE state[p]]
Current == {pids[i] : i \in Slots}
Receive == inbox # <<>> /\ inbox' = Tail(inbox)

Init ==
  /\ config \in Configs
  /\ now = 0 /\ at = "start" /\ todo = Slots /\ targets = {}
  /\ pids = [i \in Slots |-> 0]
  /\ window = {} /\ lifetime = 0 /\ triggers = {}
  /\ inbox = <<>> /\ owner = "alive" /\ mail = 0 /\ nextPid = 1
  /\ state = [p \in Procs |-> "unborn"]
  /\ slotOf = [p \in Procs |-> 0]
  /\ armed = {} /\ late = {}

-----------------------------------------------------------------------------
(* Starting children, first or again.                                      *)

\* start_child spawns the child ...
StartChild ==
  LET i == Min(todo)
  IN /\ at = "start"
     /\ nextPid <= MaxProcs
     /\ state' = [state EXCEPT ![nextPid] = "running"]
     /\ slotOf' = [slotOf EXCEPT ![nextPid] = i]
     /\ pids' = [pids EXCEPT ![i] = nextPid]
     /\ nextPid' = nextPid + 1
     /\ at' = "monitor"
     /\ UNCHANGED <<config, now, todo, targets, budget, inbox, armed, late,
                    outside>>

\* Mutant: the monitor of a child that is gone already is never answered.
MonitorChildUnanswered ==
  /\ at = "monitor"
  /\ armed' = IF Alive(pids[Min(todo)]) THEN armed \cup {pids[Min(todo)]}
                                       ELSE armed
  /\ todo' = todo \ {Min(todo)}
  /\ at' = IF todo' = {} THEN "recv" ELSE "start"
  /\ UNCHANGED <<config, now, pids, targets, budget, state, nextPid, slotOf,
                 inbox, late, outside>>

\* ... and monitors it: a child that ended meanwhile is answered at once.
MonitorChild ==
  LET i == Min(todo)
      p == pids[i]
  IN /\ at = "monitor"
     /\ IF Alive(p)
        THEN armed' = armed \cup {p} /\ UNCHANGED <<inbox, late>>
        ELSE /\ inbox' = Append(inbox, Down(p))
             /\ late' = late \cup {p}
             /\ UNCHANGED armed
     /\ todo' = todo \ {i}
     /\ at' = IF todo' = {} THEN "recv" ELSE "start"
     /\ UNCHANGED <<config, now, pids, targets, budget, state, nextPid,
                    slotOf, outside>>

-----------------------------------------------------------------------------
(* The loop: one message at a time.                                        *)

\* Mutant: an Exit falls under `_ => continue`.
OwnerExitIgnored ==
  /\ at = "recv" /\ Receive /\ Head(inbox).kind = "Exit"
  /\ UNCHANGED <<config, now, control, budget, children, outside>>

\* The owner that trapped us into its fate died: kill the children and stop.
OwnerExited ==
  /\ at = "recv" /\ Receive /\ Head(inbox).kind = "Exit"
  /\ state' = Killed(Current)
  /\ at' = "stopped"
  /\ UNCHANGED <<config, now, pids, todo, targets, budget, armed, nextPid,
                 slotOf, late, outside>>

\* A user message is ignored, and so would be a Down of a process that is not
\* a child any more.
Ignored ==
  /\ at = "recv" /\ Receive
  /\ Head(inbox) \notin {Down(p) : p \in Current} \cup {OwnerExit}
  /\ UNCHANGED <<config, now, control, budget, children, outside>>

\* This trigger; the window is a Vec of instants of which only the number is
\* looked at, so that a set will do when each is told from the others.
Trigger == [nth |-> Cardinality(triggers) + 1, when |-> now]

\* Mutant: the window is open at its far end.
RecentOpen == {r \in window \cup {Trigger} : now - r.when < config.within}

\* over_budget: the restart is charged, and is one too many or not.
Recent == {r \in window \cup {Trigger} : now - r.when <= config.within}
Charge ==
  /\ triggers' = triggers \cup {Trigger}
  /\ IF config.windowed THEN window' = Recent /\ UNCHANGED lifetime
                        ELSE lifetime' = lifetime + 1 /\ UNCHANGED window
OverBudget ==
  /\ config.maxRestarts # 0
  /\ IF config.windowed THEN Cardinality(window') > config.maxRestarts
                        ELSE lifetime' > config.maxRestarts

\* Mutant: giving up leaves the siblings running.
GiveUpAlone ==
  /\ at = "recv" /\ Receive /\ Head(inbox).kind = "Down"
  /\ Head(inbox).pid \in Current
  /\ Charge /\ OverBudget
  /\ at' = "crashed"
  /\ UNCHANGED <<config, now, pids, todo, targets, children, outside>>

\* A child died: give up ...
GiveUp ==
  /\ at = "recv" /\ Receive /\ Head(inbox).kind = "Down"
  /\ Head(inbox).pid \in Current
  /\ Charge /\ OverBudget
  /\ state' = Killed(Current)
  /\ at' = "crashed"
  /\ UNCHANGED <<config, now, pids, todo, targets, armed, nextPid, slotOf,
                 late, outside>>

\* ... or restart it, the others terminated first as the strategy has it.
Victims(index) ==
  CASE config.strategy = "OneForOne"  -> {}
    [] config.strategy = "OneForAll"  -> Slots \ {index}
    [] config.strategy = "RestForOne" -> index + 1 .. config.children
Restart ==
  /\ at = "recv" /\ Receive /\ Head(inbox).kind = "Down"
  /\ Head(inbox).pid \in Current
  /\ Charge /\ ~OverBudget
  /\ LET index == CHOOSE i \in Slots : pids[i] = Head(inbox).pid
         others == {pids[j] : j \in Victims(index)}
     IN /\ todo' = {index} \cup Victims(index)
        /\ targets' = others
        /\ state' = Killed(others)
        /\ at' = IF others = {} THEN "start" ELSE "terminate"
  /\ UNCHANGED <<config, now, pids, armed, nextPid, slotOf, late, outside>>

AwaitFirstTarget ==
  /\ at = "terminate" /\ Receive
  /\ targets' = {}
  /\ at' = "start"
  /\ UNCHANGED <<config, now, pids, todo, budget, children, outside>>

\* terminate: take what arrives until every target has reported; a Down of
\* another child, and the owner's Exit, are dropped here.
AwaitTargets ==
  /\ at = "terminate" /\ Receive
  /\ targets' = IF Head(inbox).kind = "Down"
                THEN targets \ {Head(inbox).pid} ELSE targets
  /\ at' = IF targets' = {} THEN "start" ELSE "terminate"
  /\ UNCHANGED <<config, now, pids, todo, budget, children, outside>>

-----------------------------------------------------------------------------
(* The children, the owner and the clock.                                  *)

\* A child returns, panics or is aborted, and leaves the table ...
ChildEnds(p) ==
  /\ Alive(p)
  /\ state' = [state EXCEPT ![p] = "removed"]
  /\ UNCHANGED <<config, now, control, budget, inbox, armed, nextPid, slotOf,
                 late, outside>>

\* ... gives up its names ...
NamesReleased(p) ==
  /\ state[p] = "removed"
  /\ state' = [state EXCEPT ![p] = "released"]
  /\ UNCHANGED <<config, now, control, budget, inbox, armed, nextPid, slotOf,
                 late, outside>>

\* ... and reports to the supervisor, whose mailbox closes when it ends.
Reports(p) ==
  /\ state[p] = "released" /\ p \in armed
  /\ armed' = armed \ {p}
  /\ inbox' = IF at \in {"stopped", "crashed"} THEN inbox
                                               ELSE Append(inbox, Down(p))
  /\ UNCHANGED <<config, now, control, budget, state, nextPid, slotOf, late,
                 outside>>

OwnerDies ==
  /\ config.owned /\ owner = "alive"
  /\ owner' = "dead" /\ UNCHANGED mail
  /\ inbox' = IF at \in {"stopped", "crashed"} THEN inbox
                                               ELSE Append(inbox, OwnerExit)
  /\ UNCHANGED <<config, now, control, budget, children>>

\* Anybody may send to any pid.
Send ==
  /\ mail < config.mail
  /\ mail' = mail + 1
  /\ inbox' = IF at \in {"stopped", "crashed"} THEN inbox
                                               ELSE Append(inbox, UserMessage)
  /\ UNCHANGED <<config, now, control, budget, children, owner>>

Tick ==
  /\ config.windowed /\ now < MaxTime
  /\ now' = now + 1
  /\ UNCHANGED <<config, control, budget, inbox, children, outside>>

-----------------------------------------------------------------------------
SupervisorStep ==
  \/ StartChild \/ MonitorChild \/ OwnerExited \/ Ignored \/ GiveUp
  \/ Restart \/ AwaitTargets

Teardown(p) ==
  \/ state[p] = "killed" /\ ChildEnds(p)
  \/ NamesReleased(p)
  \/ Reports(p)

Next ==
  \/ StartChild \/ MonitorChild \/ OwnerExited \/ Ignored \/ GiveUp
  \/ Restart \/ AwaitTargets \/ OwnerDies \/ Send \/ Tick
  \/ \E p \in Procs : ChildEnds(p) \/ NamesReleased(p) \/ Reports(p)

\* The supervisor's task is polled while it can run, a killed child reaches a
\* suspension point, and teardown never suspends.  No child has to end.
Fairness ==
  WF_vars(SupervisorStep) /\ \A p \in Procs : WF_vars(Teardown(p))

Spec == Init /\ [][Next]_vars
FairSpec == Spec /\ Fairness

-----------------------------------------------------------------------------
(* Properties.                                                             *)

TypeOK ==
  /\ config \in Configs /\ now \in 0 .. MaxTime
  /\ at \in {"start", "monitor", "recv", "terminate", "stopped", "crashed"}
  /\ pids \in [Slots -> 0 .. MaxProcs]
  /\ todo \subseteq Slots /\ (at \in {"start", "monitor"} => todo # {})
  /\ targets \subseteq Procs /\ (at = "terminate" <=> targets # {})
  /\ window \subseteq triggers /\ lifetime \in Nat
  /\ inbox \in Seq([kind : {"Down"}, pid : Procs]
                    \cup {OwnerExit, UserMessage})
  /\ state \in [Procs -> {"unborn", "running", "killed", "removed",
                          "released"}]
  /\ armed \subseteq Procs /\ late \subseteq Procs
  /\ owner \in {"alive", "dead"} /\ mail \in 0 .. config.mail
  /\ nextPid \in 1 .. MaxProcs + 1
  /\ slotOf \in [Procs -> Nat]
  /\ IsFiniteSet(triggers) /\ triggers \subseteq [nth : Nat \ {0}, when : 0 .. now]

\* A child is started only when every earlier process of every child of this
\* round is over, its names released too - unless it ended before it was
\* monitored, when the Down came from monitor() and not from its teardown
\* (terminate: "so their names and resources are released before any restart").
\* (Stated with the types of all variables.)
RestartIsClean ==
  /\ TypeOK
  /\ at = "start" =>
       \A p \in Procs : slotOf[p] \in todo =>
         \/ state[p] = "released"
         \/ state[p] = "removed" /\ p \in late

\* The budget is exact: a supervisor still at work has restarted at most
\* maxRestarts times within any span of the window, and one that gave up saw
\* one trigger more than that within the last; with 0, "unlimited"
\* (supervisor.rs:69), none gives up.
Charges(t) ==
  LET first == IF config.windowed THEN t - config.within ELSE 0
  IN Cardinality({r \in triggers : r.when \in first .. t})
BudgetExact ==
  IF config.maxRestarts = 0 THEN at # "crashed"
  ELSE IF at = "crashed"
       THEN \E t \in 0 .. now : Charges(t) = config.maxRestarts + 1
       ELSE \A t \in 0 .. now : Charges(t) <= config.maxRestarts

Over == at \in {"stopped", "crashed"}
\* (A tree without a budget may use up the processes of the bound.)
Replaced == \A p \in Procs :
  p \in Current /\ ~Alive(p) ~> p \notin Current \/ Over \/ nextPid > MaxProcs

\* A child that ends is replaced, or the supervisor ends, however the ends of
\* several children and their Downs interleave with a round of restarts.
ChildIsReplaced == config.strategy # "RestForOne" => Replaced

\* A supervisor that ends leaves no child behind, the ones it had only just
\* started included.
NoOrphans == Over ~> \A p \in Procs : ~Alive(p)

\* The owner's death ends the supervisor (and with NoOrphans its children)
\* under every strategy, whatever it is doing and has in its mailbox - unless
\* its Exit comes to the front while a terminate waits, which drops it
\* (LostOwnerExit.cfg shows the tree that lives on).
ExitNext == inbox # <<>> /\ Head(inbox) = OwnerExit
OwnerExitHeeded ==
  (\E i \in DOMAIN inbox : inbox[i] = OwnerExit) ~>
    Over \/ (at = "terminate" /\ ExitNext)

\* supervisor.rs:184 of terminate: a restart trigger that arrives during a
\* termination is "rare and handled on the next loop".
TriggerHandledNextLoop == config.strategy = "RestForOne" => Replaced

\* supervisor.rs:111 of the Exit arm: the owner's death "cleanly tears down
\* the whole tree (no orphans)".
OwnerDeathTearsDown == owner = "dead" ~> Over

=============================================================================
