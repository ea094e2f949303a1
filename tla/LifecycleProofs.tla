--------------------------- MODULE LifecycleProofs ---------------------------
(***************************************************************************)
(* What holds of the census, the timers and shutdown for any number of     *)
(* processes, timers and events: the type invariant, that a timer fires at *)
(* most once and not after a timely cancellation, that the last census     *)
(* line is true, and that the walk of shutdown misses nobody.              *)
(***************************************************************************)
EXTENDS Lifecycle, TLAPS

USE BoundsAssumption

-----------------------------------------------------------------------------
(* Type correctness.                                                       *)

TimerOK ==
  /\ timer \in [Timers -> [at : {"none", "pending", "due", "fired", "aborted"},
                           to : Procs \cup {NoProc}, held : BOOLEAN, cancelled : BOOLEAN]]
  /\ delivered \in [Timers -> Nat]
TableOK ==
  /\ state \in [Procs -> {"unborn", "live", "leaving", "gone"}]
  /\ \A p, q \in Procs : p < q /\ state[q] # "unborn" => state[p] # "unborn"
  /\ aborted \subseteq Procs /\ labeled \subseteq Procs /\ members \subseteq Procs
  /\ \A p \in members : state[p] \in {"live", "leaving"}
  /\ \A p \in aborted \cup labeled : state[p] # "unborn"
\* While the census task walks, its last line is of an earlier generation.
CensusOK ==
  /\ gen \in Nat /\ owed \in Nat /\ waking \in Nat /\ dirty \in BOOLEAN
  /\ census \in [at : {"parked", "settling", "walking"}, gen : Nat,
                 ahead : SUBSET Procs, seen : SUBSET Procs, printed : Nat]
  /\ line \in [labels : SUBSET Procs, tags : SUBSET Procs, count : Nat]
  /\ line.count <= census.printed /\ census.printed <= gen
  /\ census.at = "walking" => census.printed < census.gen /\ census.gen <= gen
  /\ census.at # "walking" => census.seen = {}
ShutOK ==
  /\ shut \in [at : {"no", "walking", "done"}, ahead : SUBSET Procs]
  /\ missed \subseteq Procs
TypeInv == TimerOK /\ TableOK /\ CensusOK /\ ShutOK

LEMMA ParkedType ==
  ASSUME NEW k \in Nat
  PROVE  /\ Parked(k) \in [at : {"parked", "settling", "walking"}, gen : Nat,
                           ahead : SUBSET Procs, seen : SUBSET Procs, printed : Nat]
         /\ Parked(k).at = "parked" /\ Parked(k).printed = k /\ Parked(k).seen = {}
BY DEF Parked

LEMMA TypeInit == Init => TypeInv
<1> SUFFICES ASSUME Init PROVE TypeInv
  OBVIOUS
<1>1. TimerOK
  BY DEF Init, TimerOK, NoTimer
<1>2. TableOK
  BY DEF Init, TableOK, Procs, Supervisor, FirstChild
<1>3. CensusOK
  <2>1. /\ gen = 0 /\ owed = 0 /\ waking = 0 /\ dirty = FALSE /\ census = Parked(0)
        /\ line = [labels |-> {}, tags |-> {}, count |-> 0]
    BY DEF Init
  <2>2. /\ census.printed = 0 /\ census.at = "parked" /\ census.seen = {}
        /\ census \in [at : {"parked", "settling", "walking"}, gen : Nat,
                       ahead : SUBSET Procs, seen : SUBSET Procs, printed : Nat]
    BY <2>1, ParkedType
  <2>3. line.count = 0 /\ line \in [labels : SUBSET Procs, tags : SUBSET Procs, count : Nat]
    BY <2>1
  <2>4. line.count <= census.printed /\ census.printed <= gen
    BY <2>1, <2>2, <2>3
  <2>5. gen \in Nat /\ owed \in Nat /\ waking \in Nat
    BY <2>1
  <2>6. dirty \in BOOLEAN
    BY <2>1
  <2> QED BY <2>2, <2>3, <2>4, <2>5, <2>6 DEF CensusOK
<1>4. ShutOK
  BY DEF Init, ShutOK
<1> QED BY <1>1, <1>2, <1>3, <1>4 DEF TypeInv

LEMMA TimerType == TimerOK /\ [Next]_vars => TimerOK'
<1> SUFFICES ASSUME TimerOK, [Next]_vars PROVE TimerOK'
  OBVIOUS
<1>1. ASSUME NEW t \in Timers, NEW p \in Procs, SendAfter(t, p) PROVE TimerOK'
  BY <1>1 DEF SendAfter, TimerOK, NoTimer
<1>2. ASSUME NEW t \in Timers, Due(t) PROVE TimerOK'
  BY <1>2 DEF Due, TimerOK
<1>3. ASSUME NEW t \in Timers, Fire(t) PROVE TimerOK'
  BY <1>3 DEF Fire, TimerOK
<1>4. ASSUME NEW t \in Timers, Cancel(t) PROVE TimerOK'
  <2>1. timer[t].held /\ UNCHANGED delivered
    BY <1>4 DEF Cancel
  <2>2. timer' = [timer EXCEPT ![t] =
           [timer[t] EXCEPT !.held = FALSE, !.cancelled = (timer[t].at = "pending"),
                            !.at = IF timer[t].at = "pending" THEN "aborted" ELSE timer[t].at]]
    BY <1>4 DEF Cancel, TimerOK
  <2> DEFINE Kept == [at : {"none", "pending", "due", "fired", "aborted"},
                      to : Procs \cup {NoProc}, held : BOOLEAN, cancelled : BOOLEAN]
  <2>3. timer[t] \in Kept
    BY DEF TimerOK
  <2>4. [timer[t] EXCEPT !.held = FALSE, !.cancelled = (timer[t].at = "pending"),
                         !.at = IF timer[t].at = "pending" THEN "aborted" ELSE timer[t].at]
        \in Kept
    BY <2>3
  <2>5. timer \in [Timers -> Kept] /\ delivered \in [Timers -> Nat]
    BY DEF TimerOK
  <2> HIDE DEF Kept
  <2>6. timer' \in [Timers -> Kept]
    BY <2>2, <2>4, <2>5
  <2> QED BY <2>1, <2>5, <2>6 DEF TimerOK, Kept
<1>5. CASE UNCHANGED timers
  BY <1>5 DEF timers, TimerOK
<1> QED BY <1>1, <1>2, <1>3, <1>4, <1>5
        DEF Next, Proceed, Happen, vars, Spawn, Restart, SetLabel, ChangeTag, Ends, AbortTaken,
            Remove, Release, Bump, Wake, CensusStep, Notified, Settled, Count, PrintLine,
            Shutdown, Visit

LEMMA TableType == TableOK /\ [Next]_vars => TableOK'
<1> SUFFICES ASSUME TableOK, [Next]_vars PROVE TableOK'
  OBVIOUS
<1>1. ASSUME NEW p \in Procs, Enter(p), UNCHANGED <<aborted, labeled, members>> PROVE TableOK'
  BY <1>1 DEF Enter, Unborn, TableOK, Procs
<1>2. ASSUME NEW p \in Procs, SetLabel(p) PROVE TableOK'
  BY <1>2 DEF SetLabel, TableOK, Live
<1>3. ASSUME NEW p \in Procs, ChangeTag(p) PROVE TableOK'
  BY <1>3 DEF ChangeTag, TableOK, Live
<1>4. ASSUME NEW p \in Procs, Remove(p) PROVE TableOK'
  BY <1>4 DEF Remove, TableOK, Live
<1>5. ASSUME NEW p \in Procs, Release(p) PROVE TableOK'
  BY <1>5 DEF Release, TableOK
<1>6. ASSUME NEW p \in Procs, Visit(p) PROVE TableOK'
  BY <1>6 DEF Visit, table, TableOK, Live
<1>7. CASE UNCHANGED <<table, aborted>>
  BY <1>7 DEF table, TableOK
<1> QED BY <1>1, <1>2, <1>3, <1>4, <1>5, <1>6, <1>7
        DEF Next, Proceed, Happen, vars, Spawn, Restart, Ends, AbortTaken, Bump, Wake,
            CensusStep, Notified, Settled, Count, PrintLine, SendAfter, Due, Fire, Cancel,
            Shutdown

LEMMA CensusType == TypeInv /\ [Next]_vars => CensusOK'
<1> SUFFICES ASSUME TypeInv, CensusOK, [Next]_vars PROVE CensusOK'
  BY DEF TypeInv
<1>0. /\ gen \in Nat /\ owed \in Nat /\ waking \in Nat /\ dirty \in BOOLEAN
      /\ census \in [at : {"parked", "settling", "walking"}, gen : Nat,
                     ahead : SUBSET Procs, seen : SUBSET Procs, printed : Nat]
      /\ line \in [labels : SUBSET Procs, tags : SUBSET Procs, count : Nat]
  BY DEF CensusOK
<1>1. CASE /\ UNCHANGED <<gen, dirty, waking, census, line>>
           /\ owed' = owed \/ owed' = owed + 1
  BY <1>1 DEF CensusOK
<1>2. CASE Bump
  BY <1>2 DEF Bump, printing, CensusOK
<1>3. CASE Wake
  BY <1>3 DEF Wake, printing, CensusOK
<1>4. CASE Notified
  BY <1>4 DEF Notified, CensusStep, CensusOK
<1>5. CASE Settled
  <2>1. UNCHANGED <<gen, owed, waking, dirty, line>>
    BY <1>5 DEF Settled, CensusStep
  <2>2. CASE gen = census.printed
    <3>1. census' = Parked(gen)
      BY <1>5, <2>2 DEF Settled
    <3> QED BY <1>0, <2>1, <2>2, <3>1, ParkedType DEF CensusOK
  <2>3. CASE gen # census.printed
    <3>1. census' = [census EXCEPT !.at = "walking", !.gen = gen, !.ahead = Procs]
      BY <1>5, <2>3 DEF Settled
    <3>2. /\ census'.at = "walking" /\ census'.gen = gen /\ census'.printed = census.printed
          /\ census'.ahead = Procs /\ census'.seen = census.seen
      BY <1>0, <3>1
    <3>3. census.printed < gen /\ line.count <= census.printed
      BY <1>0, <2>3 DEF CensusOK
    <3>4. census' \in [at : {"parked", "settling", "walking"}, gen : Nat,
                       ahead : SUBSET Procs, seen : SUBSET Procs, printed : Nat]
      BY <1>0, <3>1
    <3> QED BY <1>0, <2>1, <3>2, <3>3, <3>4 DEF CensusOK
  <2> QED BY <2>2, <2>3
<1>6. ASSUME NEW p \in Procs, Count(p) PROVE CensusOK'
  BY <1>0, <1>6 DEF Count, CensusStep, CensusOK
<1>7. CASE PrintLine
  <2>1. /\ line' = [labels |-> census.seen, tags |-> members, count |-> line.count + 1]
        /\ census' = Parked(census.gen) /\ census.at = "walking"
        /\ UNCHANGED <<gen, owed, waking, dirty>>
    BY <1>7 DEF PrintLine, CensusStep
  <2>2. census.printed < census.gen /\ census.gen <= gen /\ line.count <= census.printed
    BY <2>1 DEF CensusOK
  <2>3. /\ census'.printed = census.gen /\ census'.at = "parked"
        /\ line'.count = line.count + 1
    BY <1>0, <2>1, ParkedType
  <2>4. members \subseteq Procs
    BY DEF TypeInv, TableOK
  <2> QED BY <1>0, <2>1, <2>2, <2>3, <2>4, ParkedType DEF CensusOK
<1> QED BY <1>1, <1>2, <1>3, <1>4, <1>5, <1>6, <1>7
        DEF Next, Proceed, Happen, vars, Spawn, Restart, SetLabel, ChangeTag, Ends, AbortTaken,
            Remove, Release, SendAfter, Due, Fire, Cancel, Shutdown, Visit, noting, printing

LEMMA ShutType == TypeInv /\ [Next]_vars => ShutOK'
<1> SUFFICES ASSUME TypeInv, [Next]_vars PROVE ShutOK'
  OBVIOUS
<1>1. CASE Shutdown
  BY <1>1 DEF Shutdown, TypeInv, ShutOK, Live
<1>2. ASSUME NEW p \in Procs, Visit(p) PROVE ShutOK'
  BY <1>2 DEF Visit, TypeInv, ShutOK
<1>3. CASE UNCHANGED stopping
  BY <1>3 DEF stopping, TypeInv, ShutOK
<1>4. ASSUME NEW p \in Procs, Enter(p), UNCHANGED shut PROVE ShutOK'
  BY <1>4 DEF Enter, TypeInv, ShutOK
<1> QED BY <1>1, <1>2, <1>3, <1>4
        DEF Next, Proceed, Happen, vars, Spawn, Restart, SetLabel, ChangeTag, Ends, AbortTaken,
            Remove, Release, Bump, Wake, CensusStep, Notified, Settled, Count, PrintLine,
            SendAfter, Due, Fire, Cancel

LEMMA TypeStep == TypeInv /\ [Next]_vars => TypeInv'
BY TimerType, TableType, CensusType, ShutType DEF TypeInv

LEMMA TypesHold == TypeInv => TypeOK
BY DEF TypeInv, TimerOK, TableOK, CensusOK, TypeOK, Unborn

\* Type correctness of the runtime as a whole.
THEOREM TypeCorrect == Spec => []TypeOK
BY TypeInit, TypeStep, TypesHold, PTL DEF Spec

-----------------------------------------------------------------------------
(* Timers.                                                                 *)

\* Only the task of a timer that is past its sleep has sent, and only one that
\* was still asleep is cancelled.
FiredInv ==
  \A t \in Timers :
    /\ delivered[t] <= 1 /\ (delivered[t] # 0 => timer[t].at = "fired")
    /\ timer[t].cancelled => timer[t].at = "aborted"

LEMMA FiredStep == TypeInv /\ FiredInv /\ [Next]_vars => FiredInv'
<1> SUFFICES ASSUME TypeInv, FiredInv, [Next]_vars, NEW u \in Timers
             PROVE  /\ delivered'[u] <= 1 /\ (delivered'[u] # 0 => timer'[u].at = "fired")
                    /\ timer'[u].cancelled => timer'[u].at = "aborted"
  BY DEF FiredInv
<1>0. TimerOK
  BY DEF TypeInv
<1>1. ASSUME NEW t \in Timers, NEW p \in Procs, SendAfter(t, p)
      PROVE  timer'[u] = timer[u] \/ (timer[u].at = "none" /\ ~timer'[u].cancelled)
  BY <1>0, <1>1 DEF SendAfter, TimerOK, NoTimer
<1>2. CASE \E t \in Timers : Due(t)
  BY <1>0, <1>2 DEF Due, TimerOK, FiredInv
<1>3. CASE \E t \in Timers : Fire(t)
  BY <1>0, <1>3 DEF Fire, TimerOK, FiredInv
<1>4. CASE \E t \in Timers : Cancel(t)
  BY <1>0, <1>4 DEF Cancel, TimerOK, FiredInv
<1>5. CASE \E t \in Timers : \E p \in Procs : SendAfter(t, p)
  BY <1>0, <1>1, <1>5 DEF SendAfter, TimerOK, FiredInv
<1>6. CASE UNCHANGED timers
  BY <1>6 DEF timers, FiredInv
<1> QED BY <1>2, <1>3, <1>4, <1>5, <1>6
        DEF Next, Proceed, Happen, vars, Spawn, Restart, SetLabel, ChangeTag, Ends, AbortTaken,
            Remove, Release, Bump, Wake, CensusStep, Notified, Settled, Count, PrintLine,
            Shutdown, Visit

\* A timer delivers at most once, and never after a cancellation that found it
\* still asleep, however many timers, processes and cancellations there are.
THEOREM TimersFireOnceOnly == Spec => []TimersFireOnce
<1>1. Init => FiredInv
  BY DEF Init, FiredInv, NoTimer
<1>2. TypeInv /\ FiredInv => TimersFireOnce
  BY TypesHold DEF FiredInv, TimersFireOnce, TypeInv, TimerOK
<1> QED BY TypeInit, TypeStep, <1>1, FiredStep, <1>2, PTL DEF Spec

-----------------------------------------------------------------------------
(* The census.                                                             *)

\* Nothing has changed since the generation g without being noted, or is about
\* to be noted.
Noted(g) == owed = 0 /\ gen = g /\ \A p \in labeled : state[p] # "leaving"
Labels == Live \cap labeled
\* If nothing has happened since the walk began, then what it has seen is what
\* there is at the places it has visited; the printed line is whole then.  A
\* change since is woken for again, when the walk is over at the latest.
CensusInv ==
  /\ Noted(census.printed) => line.labels = Labels /\ line.tags = members
  /\ census.at = "walking" /\ Noted(census.gen) =>
       \A p \in Procs : p \in census.seen <=> p \notin census.ahead /\ p \in Labels
  /\ census.at = "parked" /\ gen # census.printed => dirty \/ waking > 0
  /\ census.at = "walking" /\ gen # census.gen => dirty \/ waking > 0

\* Whatever is noted after the step was so before, and no label came or went.
LEMMA NotedBack ==
  ASSUME TypeInv, [Next]_vars, NEW g \in Nat, g <= gen, Noted(g)'
  PROVE  Noted(g) /\ Labels' = Labels /\ members' = members
<1>0. TableOK /\ CensusOK
  BY DEF TypeInv
<1>1. CASE Bump
  BY <1>0, <1>1 DEF Bump, Noted, CensusOK
<1>2. ASSUME NEW p \in Procs, SetLabel(p) \/ ChangeTag(p) PROVE FALSE
  BY <1>0, <1>2 DEF SetLabel, ChangeTag, Noted, CensusOK
<1>3. ASSUME NEW p \in Procs, Release(p)
      PROVE  Noted(g) /\ Labels' = Labels /\ members' = members
  <2>1. /\ state[p] = "leaving" /\ state' = [state EXCEPT ![p] = "gone"]
        /\ members' = members \ {p} /\ labeled' = labeled /\ gen' = gen
        /\ owed' = IF p \in labeled \cup members THEN owed + 1 ELSE owed
    BY <1>3 DEF Release
  <2>2. p \notin labeled \cup members /\ owed' = owed
    BY <1>0, <2>1 DEF Noted, CensusOK
  <2>3. \A q \in labeled : state'[q] = state[q]
    BY <1>0, <2>1, <2>2 DEF TableOK
  <2>4. Noted(g)
    BY <2>1, <2>2, <2>3 DEF Noted
  <2>5. Labels' = Labels
    BY <1>0, <2>1, <2>2, <2>3 DEF Labels, Live, TableOK
  <2> QED BY <2>1, <2>2, <2>4, <2>5
<1>4. ASSUME NEW p \in Procs, Remove(p), UNCHANGED owed
      PROVE  Noted(g) /\ Labels' = Labels /\ members' = members
  <2>1. /\ state[p] = "live" /\ state' = [state EXCEPT ![p] = "leaving"]
        /\ UNCHANGED <<labeled, members, gen>>
    BY <1>4 DEF Remove, Live, noting
  <2>2. p \notin labeled
    BY <1>0, <2>1 DEF Noted, TableOK
  <2>3. \A q \in labeled : state'[q] = state[q]
    BY <1>0, <2>1, <2>2 DEF TableOK
  <2> QED BY <1>0, <1>4, <2>1, <2>2, <2>3 DEF Noted, Labels, Live, TableOK
<1>5. ASSUME NEW p \in Procs, Enter(p), UNCHANGED <<owed, gen, labeled, members>>
      PROVE  Noted(g) /\ Labels' = Labels /\ members' = members
  <2>1. state[p] = "unborn" /\ state' = [state EXCEPT ![p] = "live"]
    BY <1>5 DEF Enter, Unborn
  <2>2. p \notin labeled
    BY <1>0, <2>1 DEF TableOK
  <2>3. \A q \in labeled : state'[q] = state[q]
    BY <1>0, <2>1, <2>2 DEF TableOK
  <2> QED BY <1>0, <1>5, <2>1, <2>2, <2>3 DEF Noted, Labels, Live, TableOK
<1>6. CASE UNCHANGED <<table, gen, owed>>
  BY <1>6 DEF table, Noted, Labels, Live
<1> QED BY <1>1, <1>2, <1>3, <1>4, <1>5, <1>6
        DEF Next, Proceed, Happen, vars, Spawn, Restart, Ends, AbortTaken, Remove, noting, Wake,
            CensusStep, Notified, Settled, Count, PrintLine, SendAfter, Due, Fire, Cancel,
            Shutdown, Visit, table

\* The line: it is printed by one step only, from a walk that is over.
LEMMA LineStep ==
  ASSUME TypeInv, CensusInv, [Next]_vars, Noted(census.printed)'
  PROVE  line'.labels = Labels' /\ line'.tags = members'
<1>0. CensusOK /\ CensusOK'
  BY TypeStep DEF TypeInv
<1>1. CASE PrintLine
  <2>1. /\ line' = [labels |-> census.seen, tags |-> members, count |-> line.count + 1]
        /\ census' = Parked(census.gen) /\ census.at = "walking" /\ census.ahead = {}
    BY <1>1 DEF PrintLine
  <2>2. PICK g \in Nat : g = census.gen /\ g <= gen
    BY <1>0, <2>1 DEF CensusOK
  <2>3. Noted(g)'
    BY <2>1, <2>2, ParkedType DEF Noted
  <2>4. Noted(g) /\ Labels' = Labels /\ members' = members
    BY <2>2, <2>3, NotedBack
  <2>5. census.seen = Labels
    <3>1. \A p \in Procs : p \in census.seen <=> p \in Labels
      BY <2>1, <2>2, <2>4 DEF CensusInv
    <3>2. census.seen \subseteq Procs /\ Labels \subseteq Procs
      BY <1>0 DEF CensusOK, Labels, Live
    <3> QED BY <3>1, <3>2
  <2> QED BY <2>1, <2>4, <2>5
<1>2. CASE Settled /\ gen = census.printed
  <2>1. PICK g \in Nat : g = census.printed /\ g <= gen /\ g = gen
    BY <1>0, <1>2 DEF CensusOK
  <2>2. census' = Parked(g) /\ line' = line
    BY <1>2, <2>1 DEF Settled
  <2>3. Noted(g)'
    BY <2>1, <2>2, ParkedType DEF Noted
  <2>4. Noted(g) /\ Labels' = Labels /\ members' = members
    BY <2>1, <2>3, NotedBack
  <2> QED BY <2>1, <2>2, <2>4 DEF CensusInv
<1>3. CASE line' = line /\ census'.printed = census.printed
  <2>1. PICK g \in Nat : g = census.printed /\ g <= gen
    BY <1>0 DEF CensusOK
  <2>2. Noted(g)'
    BY <1>3, <2>1 DEF Noted
  <2>3. Noted(g) /\ Labels' = Labels /\ members' = members
    BY <2>1, <2>2, NotedBack
  <2> QED BY <1>3, <2>1, <2>3 DEF CensusInv
<1>4. CASE Settled /\ gen # census.printed
  <2>1. census' = [census EXCEPT !.at = "walking", !.gen = gen, !.ahead = Procs] /\ line' = line
    BY <1>4 DEF Settled
  <2> QED BY <1>0, <1>3, <2>1 DEF CensusOK
<1>5. CASE Notified \/ \E p \in Procs : Count(p)
  <2>1. line' = line
    BY <1>5 DEF Notified, Count
  <2>2. census'.printed = census.printed
    BY <1>0, <1>5 DEF Notified, Count, CensusOK
  <2> QED BY <1>3, <2>1, <2>2
<1>6. CASE UNCHANGED printing
  BY <1>3, <1>6 DEF printing
<1> QED BY <1>1, <1>2, <1>4, <1>5, <1>6
        DEF Next, Proceed, Happen, vars, Spawn, Restart, SetLabel, ChangeTag, Ends, AbortTaken,
            Remove, Release, Bump, Wake, SendAfter, Due, Fire, Cancel, Shutdown, Visit

\* The walk, place by place.
LEMMA WalkStep ==
  ASSUME TypeInv, CensusInv, [Next]_vars, census'.at = "walking", Noted(census.gen)',
         NEW p \in Procs
  PROVE  p \in census'.seen <=> p \notin census'.ahead /\ p \in Labels'
<1>0. CensusOK /\ CensusOK'
  BY TypeStep DEF TypeInv
<1>1. CASE Settled
  <2>1. gen # census.printed
    BY <1>0, <1>1, ParkedType DEF Settled, CensusOK
  <2>2. census' = [census EXCEPT !.at = "walking", !.gen = gen, !.ahead = Procs]
    BY <1>1, <2>1 DEF Settled
  <2>3. census'.ahead = Procs /\ census'.seen = {}
    BY <1>0, <1>1, <2>2 DEF CensusOK, Settled
  <2> QED BY <1>0, <1>1, <2>3
<1>2. ASSUME NEW q \in Procs, Count(q)
      PROVE  p \in census'.seen <=> p \notin census'.ahead /\ p \in Labels'
  <2>1. /\ census.at = "walking" /\ q \in census.ahead
        /\ census' = [census EXCEPT !.ahead = @ \ {q},
                        !.seen = IF q \in Live \cap labeled THEN @ \cup {q} ELSE @]
    BY <1>2 DEF Count
  <2>2. PICK g \in Nat : g = census.gen /\ g <= gen
    BY <1>0, <2>1 DEF CensusOK
  <2>3. census'.gen = g
    BY <1>0, <2>1, <2>2 DEF CensusOK
  <2>4. Noted(g)'
    BY <2>3 DEF Noted
  <2>5. Noted(g) /\ Labels' = Labels
    BY <2>2, <2>4, NotedBack
  <2>6. p \in census.seen <=> p \notin census.ahead /\ p \in Labels
    BY <2>1, <2>2, <2>5 DEF CensusInv
  <2>7. /\ census'.ahead = census.ahead \ {q}
        /\ census'.seen = IF q \in Labels THEN census.seen \cup {q} ELSE census.seen
    BY <1>0, <2>1 DEF CensusOK, Labels
  <2> QED BY <2>1, <2>5, <2>6, <2>7
<1>3. CASE UNCHANGED printing
  <2>1. PICK g \in Nat : g = census.gen /\ g <= gen /\ census' = census /\ census.at = "walking"
    BY <1>0, <1>3 DEF CensusOK, printing
  <2>2. Noted(g)'
    BY <2>1 DEF Noted
  <2>3. Noted(g) /\ Labels' = Labels
    BY <2>1, <2>2, NotedBack
  <2> QED BY <2>1, <2>3 DEF CensusInv
<1>4. CASE Notified \/ PrintLine
  BY <1>0, <1>4, ParkedType DEF Notified, PrintLine, CensusOK
<1> QED BY <1>1, <1>2, <1>3, <1>4
        DEF Next, Proceed, Happen, vars, Spawn, Restart, SetLabel, ChangeTag, Ends, AbortTaken,
            Remove, Release, Bump, Wake, SendAfter, Due, Fire, Cancel, Shutdown, Visit

\* A change is noted, and then woken for; the permit is taken before the
\* generation is read.
LEMMA WakeStep ==
  ASSUME TypeInv, CensusInv, [Next]_vars
  PROVE  /\ census'.at = "parked" /\ gen' # census'.printed => dirty' \/ waking' > 0
         /\ census'.at = "walking" /\ gen' # census'.gen => dirty' \/ waking' > 0
<1>0. CensusOK
  BY DEF TypeInv
<1>1. CASE Bump
  BY <1>0, <1>1 DEF Bump, CensusOK
<1>2. CASE Wake
  BY <1>2 DEF Wake
<1>3. CASE Notified
  BY <1>0, <1>3 DEF Notified, CensusOK
<1>4. CASE Settled
  <2>1. CASE gen = census.printed
    BY <1>0, <1>4, <2>1, ParkedType DEF Settled, CensusStep, CensusOK
  <2>2. CASE gen # census.printed
    <3>1. census' = [census EXCEPT !.at = "walking", !.gen = gen, !.ahead = Procs] /\ gen' = gen
      BY <1>4, <2>2 DEF Settled, CensusStep
    <3> QED BY <1>0, <3>1 DEF CensusOK
  <2> QED BY <2>1, <2>2
<1>5. CASE PrintLine
  <2>1. /\ census' = Parked(census.gen) /\ census.at = "walking"
        /\ UNCHANGED <<gen, dirty, waking>>
    BY <1>5 DEF PrintLine, CensusStep
  <2>2. census'.printed = census.gen /\ census'.at = "parked"
    BY <1>0, <2>1, ParkedType DEF CensusOK
  <2> QED BY <2>1, <2>2 DEF CensusInv
<1>6. ASSUME NEW p \in Procs, Count(p)
      PROVE  /\ UNCHANGED <<gen, dirty, waking>> /\ census'.at = "walking"
             /\ census.at = "walking" /\ census'.gen = census.gen
  BY <1>0, <1>6 DEF Count, CensusStep, CensusOK
<1>7. CASE \E p \in Procs : Count(p)
  BY <1>6, <1>7 DEF CensusInv
<1>8. CASE UNCHANGED <<gen, dirty, waking, census>>
  BY <1>8 DEF CensusInv
<1> QED BY <1>1, <1>2, <1>3, <1>4, <1>5, <1>7, <1>8
        DEF Next, Proceed, Happen, vars, Spawn, Restart, SetLabel, ChangeTag, Ends, AbortTaken,
            Remove, Release, SendAfter, Due, Fire, Cancel, Shutdown, Visit, noting, printing

LEMMA CensusNotedStep == TypeInv /\ CensusInv /\ [Next]_vars => CensusInv'
<1> SUFFICES ASSUME TypeInv, CensusInv, [Next]_vars PROVE CensusInv'
  OBVIOUS
<1>1. Noted(census.printed)' => line'.labels = Labels' /\ line'.tags = members'
  BY LineStep
<1>2. census'.at = "walking" /\ Noted(census.gen)' =>
        \A p \in Procs : p \in census'.seen <=> p \notin census'.ahead /\ p \in Labels'
  BY WalkStep
<1> QED BY <1>1, <1>2, WakeStep DEF CensusInv

\* Once all is noted, the last census line is true, whatever changed while its
\* walk was under way; and no change is left without a wake-up.
THEOREM CensusLineIsTrue == Spec => []LineIsTrue
<1>1. Init => CensusInv
  <2> SUFFICES ASSUME Init PROVE CensusInv
    OBVIOUS
  <2>1. /\ gen = 0 /\ labeled = {} /\ members = {} /\ census = Parked(0)
        /\ line = [labels |-> {}, tags |-> {}, count |-> 0]
    BY DEF Init
  <2>2. census.printed = 0 /\ census.at = "parked"
    BY <2>1, ParkedType
  <2> QED BY <2>1, <2>2 DEF CensusInv, Labels
<1>2. CensusInv => LineIsTrue
  BY DEF CensusInv, LineIsTrue, Noted, Labels
<1> QED BY TypeInit, TypeStep, <1>1, CensusNotedStep, <1>2, PTL DEF Spec

-----------------------------------------------------------------------------
(* Shutdown.                                                               *)

LEMMA MissesStep == TypeInv /\ ShutdownMissesNone /\ [Next]_vars => ShutdownMissesNone'
<1> SUFFICES ASSUME TypeInv, ShutdownMissesNone, [Next]_vars PROVE ShutdownMissesNone'
  OBVIOUS
<1>0. TableOK /\ ShutOK
  BY DEF TypeInv
<1>1. CASE Shutdown
  <2>1. shut'.ahead = Procs /\ Live' \subseteq Procs
    BY <1>0, <1>1 DEF Shutdown, table, Live
  <2> QED BY <2>1 DEF ShutdownMissesNone
<1>2. ASSUME NEW q \in Procs, Visit(q) PROVE ShutdownMissesNone'
  <2>1. /\ missed' = missed /\ Live' = Live /\ q \in shut.ahead /\ shut.at = "walking"
        /\ aborted' = IF q \in Live THEN aborted \cup {q} ELSE aborted
        /\ shut' = IF shut.ahead = {q} THEN [at |-> "done", ahead |-> {}]
                                       ELSE [shut EXCEPT !.ahead = @ \ {q}]
    BY <1>2 DEF Visit, table, Live
  <2>2. shut'.ahead = shut.ahead \ {q}
    BY <1>0, <2>1 DEF ShutOK
  <2>3. Live \ missed \subseteq shut.ahead \cup aborted
    BY <2>1 DEF ShutdownMissesNone
  <2>4. Live' \ missed' \subseteq shut'.ahead \cup aborted'
    BY <2>1, <2>2, <2>3
  <2> QED BY <2>4 DEF ShutdownMissesNone
\* Who enters does so ahead of the walk, or is counted as missed.
<1>3. ASSUME NEW q \in Procs, Enter(q), UNCHANGED <<shut, aborted>>
      PROVE  ShutdownMissesNone'
  <2>1. /\ Live' = Live \cup {q}
        /\ missed' = IF shut.at # "no" /\ q \notin shut.ahead THEN missed \cup {q}
                                                            ELSE missed
    BY <1>0, <1>3 DEF Enter, Live, TableOK
  <2>2. SUFFICES ASSUME shut.at # "no", NEW p \in Live', p \notin missed'
        PROVE  p \in shut.ahead \cup aborted
    BY <1>3 DEF ShutdownMissesNone
  <2> QED BY <2>1, <2>2 DEF ShutdownMissesNone
<1>4. ASSUME NEW q \in Procs, Remove(q) \/ Release(q) PROVE ShutdownMissesNone'
  <2>1. Live' \subseteq Live /\ UNCHANGED <<shut, missed, aborted>>
    BY <1>0, <1>4 DEF Remove, Release, stopping, Live, TableOK
  <2> QED BY <2>1 DEF ShutdownMissesNone
<1>5. CASE UNCHANGED <<stopping, aborted, state>>
  BY <1>5 DEF stopping, Live, ShutdownMissesNone
<1> QED BY <1>1, <1>2, <1>3, <1>4, <1>5
        DEF Next, Proceed, Happen, vars, Spawn, Restart, SetLabel, ChangeTag, Ends, AbortTaken,
            Bump, Wake, CensusStep, Notified, Settled, Count, PrintLine, SendAfter, Due, Fire,
            Cancel, table

\* The walk of shutdown visits every process that was there when it began or
\* entered ahead of it, whatever is spawned, restarted or over meanwhile.
THEOREM ShutdownMissesNobody == Spec => []ShutdownMissesNone
<1>1. Init => ShutdownMissesNone
  BY DEF Init, ShutdownMissesNone
<1> QED BY TypeInit, TypeStep, <1>1, MissesStep, PTL DEF Spec

=============================================================================
