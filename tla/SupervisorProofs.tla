-------------------------- MODULE SupervisorProofs --------------------------
(***************************************************************************)
(* What holds of a supervisor for every strategy, number of children,      *)
(* budget and window: the type invariant, that every restart is clean, and *)
(* that the restart budget is exact.                                       *)
(***************************************************************************)
EXTENDS Supervisor, SequenceTheorems, FiniteSetTheorems, TLAPS

USE SizesAssumption, ConfigsAssumption

-----------------------------------------------------------------------------
(* Type correctness.                                                       *)

Letters == [kind : {"Down"}, pid : Procs] \cup {OwnerExit, UserMessage}

\* The settings, and the children they speak of.
LEMMA Settings ==
  ASSUME config \in Configs
  PROVE  /\ config \in ConfigType
         /\ config.children \in Nat \ {0} /\ Slots \subseteq Nat \ {0} /\ 1 \in Slots
         /\ config.maxRestarts \in Nat /\ config.within \in Nat /\ config.mail \in Nat
         /\ config.strategy \in Strategies /\ config.windowed \in BOOLEAN
BY DEF ConfigsAssumption, ConfigType, Slots

\* The child to be started first is one of those to be started.
LEMMA FirstOfTodo ==
  ASSUME config \in Configs, todo \subseteq Slots, todo # {}
  PROVE  Min(todo) \in todo
<1>1. todo \subseteq Nat
  BY Settings
<1>2. PICK i \in todo : \A j \in todo : ~ (<<j, i>> \in OpToRel(<, Nat))
  BY <1>1, WFMin, NatLessThanWellFounded, Zenon
<1>3. ASSUME NEW j \in todo PROVE i <= j
  <2>1. i \in Nat /\ j \in Nat /\ <<j, i>> \in Nat \X Nat
    BY <1>1
  <2>2. ~ (j < i)
    BY <1>2, <2>1 DEF OpToRel
  <2> QED BY <2>1, <2>2
<1> QED BY <1>3 DEF Min

\* A child without a process is one that is still to be started, and who
\* terminates has somebody to start.
Started ==
  /\ at = "terminate" => todo # {}
  /\ \A i \in Slots : pids[i] = 0 =>
       \/ at = "start" /\ i \in todo
       \/ at = "monitor" /\ i \in todo \ {Min(todo)}
TypeInv == TypeOK /\ Started

LEMMA TypeInit == Init => TypeInv
<1> SUFFICES ASSUME Init PROVE TypeInv
  OBVIOUS
<1>1. config \in Configs /\ Slots # {}
  BY Settings DEF Init
<1>2. <<>> \in Seq(Letters)
  BY EmptySeq
<1>3. pids \in [Slots -> 0 .. MaxProcs]
  BY DEF Init, SizesAssumption
<1>4. IsFiniteSet({})
  BY FS_EmptySet
<1>5. TypeOK
  BY <1>1, <1>2, <1>3, <1>4, Settings DEF Init, TypeOK, Letters, SizesAssumption
<1>6. Started
  BY DEF Init, Started
<1> QED BY <1>5, <1>6 DEF TypeInv

\* The parts of the type invariant that one step changes together.
LEMMA ChargeType ==
  ASSUME TypeOK, Charge
  PROVE  /\ window' \subseteq triggers' /\ lifetime' \in Nat
         /\ IsFiniteSet(triggers')
         /\ triggers' \subseteq [nth : Nat \ {0}, when : 0 .. now]
<1>1. Trigger \in [nth : Nat \ {0}, when : 0 .. now]
  BY FS_CardinalityType DEF TypeOK, Trigger
<1>2. IsFiniteSet(triggers \cup {Trigger})
  BY FS_AddElement DEF TypeOK
<1> QED BY <1>1, <1>2 DEF TypeOK, Charge, Recent

LEMMA MailType ==
  ASSUME TypeOK
  PROVE  /\ \A m \in Letters : Append(inbox, m) \in Seq(Letters)
         /\ inbox # <<>> => Head(inbox) \in Letters /\ Tail(inbox) \in Seq(Letters)
         /\ \A p \in Procs : Down(p) \in Letters
         /\ OwnerExit \in Letters /\ UserMessage \in Letters
         /\ \A m \in Letters : m.kind = "Down" => m.pid \in Procs
BY AppendProperties, HeadTailProperties
   DEF TypeOK, Letters, Down, OwnerExit, UserMessage

\* kill() changes no more than the states, and those of running processes.
LEMMA KilledType ==
  ASSUME TypeOK, NEW P
  PROVE  Killed(P) \in [Procs -> {"unborn", "running", "killed", "removed", "released"}]
BY DEF TypeOK, Killed

LEMMA StartType ==
  ASSUME TypeInv, StartChild \/ MonitorChild
  PROVE  TypeInv'
<1>0. TypeOK /\ Started
  BY DEF TypeInv
<1>1. CASE StartChild
  <2>1. Min(todo) \in todo /\ nextPid \in Procs /\ UNCHANGED Slots
    BY <1>0, <1>1, FirstOfTodo DEF StartChild, TypeOK, Procs, Slots
  <2>2. slotOf' \in [Procs -> Nat] /\ pids' \in [Slots -> 0 .. MaxProcs]
    BY <1>0, <1>1, <2>1, Settings DEF StartChild, TypeOK, Procs
  <2>3. nextPid' \in 1 .. MaxProcs + 1
    BY <1>1, <2>1 DEF StartChild, Procs, SizesAssumption
  <2>4. TypeOK'
    BY <1>0, <1>1, <2>1, <2>2, <2>3 DEF StartChild, TypeOK, budget, outside
  <2>5. Started'
    BY <1>0, <1>1, <2>1, <2>2 DEF StartChild, TypeOK, Started, Procs
  <2> QED BY <2>4, <2>5 DEF TypeInv
<1>2. CASE MonitorChild
  <2>1. Min(todo) \in todo /\ UNCHANGED Slots /\ pids[Min(todo)] \in Procs
    <3>1. Min(todo) \in todo /\ UNCHANGED Slots
      BY <1>0, <1>2, FirstOfTodo DEF MonitorChild, TypeOK, Slots
    <3>2. pids[Min(todo)] # 0
      BY <1>0, <1>2, <3>1 DEF MonitorChild, Started, TypeOK
    <3> QED BY <1>0, <3>1, <3>2 DEF TypeOK, Procs
  <2>2. todo' \subseteq Slots /\ (at' \in {"start", "monitor"} => todo' # {})
        /\ at' \in {"start", "recv"}
    BY <1>0, <1>2 DEF MonitorChild, TypeOK
  <2>3. inbox' \in Seq(Letters) /\ armed' \subseteq Procs /\ late' \subseteq Procs
    <3>1. inbox \in Seq(Letters) /\ armed \subseteq Procs /\ late \subseteq Procs
      BY <1>0 DEF TypeOK, Letters
    <3> QED BY <1>0, <1>2, <2>1, <3>1, MailType DEF MonitorChild
  <2>4. TypeOK'
    BY <1>0, <1>2, <2>1, <2>2, <2>3 DEF MonitorChild, TypeOK, budget, outside, Letters
  <2>5. Started'
    <3>1. /\ at = "monitor" /\ UNCHANGED <<pids, Slots>> /\ todo' = todo \ {Min(todo)}
          /\ at' = IF todo' = {} THEN "recv" ELSE "start"
      BY <1>2, <2>1 DEF MonitorChild
    <3>2. ASSUME NEW i \in Slots, pids[i] = 0 PROVE i \in todo' /\ at' = "start"
      BY <1>0, <3>1, <3>2 DEF Started
    <3> QED BY <3>1, <3>2 DEF Started
  <2> QED BY <2>4, <2>5 DEF TypeInv
<1> QED BY <1>1, <1>2

LEMMA VictimsType ==
  ASSUME TypeOK, NEW i \in Slots
  PROVE  Victims(i) \subseteq Slots
<1>1. config.children \in Nat /\ config.strategy \in Strategies
  BY Settings DEF TypeOK
<1>2. i + 1 .. config.children \subseteq Slots
  BY <1>1 DEF Slots
<1> QED BY <1>1, <1>2 DEF Victims, Strategies

\* Receiving: the loop and terminate.
LEMMA LoopType ==
  ASSUME TypeInv, OwnerExited \/ Ignored \/ GiveUp \/ Restart \/ AwaitTargets
  PROVE  TypeInv'
<1>0. TypeOK /\ Started
  BY DEF TypeInv
<1>1. /\ inbox' \in Seq(Letters) /\ UNCHANGED <<Slots, config, now, pids>>
      /\ Head(inbox) \in Letters
  BY <1>0, MailType DEF OwnerExited, Ignored, GiveUp, Restart, AwaitTargets, Receive, Slots,
     control
<1>2. at \in {"recv", "terminate"} /\ pids \in [Slots -> Procs]
  BY <1>0 DEF OwnerExited, Ignored, GiveUp, Restart, AwaitTargets, Started, TypeOK, Procs
<1>3. CASE OwnerExited \/ Ignored
  <2>1. state' \in [Procs -> {"unborn", "running", "killed", "removed", "released"}]
    BY <1>0, <1>3, KilledType DEF OwnerExited, Ignored, children, TypeOK
  <2>2. TypeOK'
    BY <1>0, <1>1, <1>3, <2>1
    DEF OwnerExited, Ignored, TypeOK, control, budget, children, outside, Letters
  <2>3. at' # "terminate"
    BY <1>3 DEF OwnerExited, Ignored, control
  <2> QED BY <1>1, <1>2, <2>2, <2>3 DEF TypeInv, Started, Procs
<1>4. CASE GiveUp
  <2>1. state' \in [Procs -> {"unborn", "running", "killed", "removed", "released"}]
    BY <1>0, <1>4, KilledType DEF GiveUp
  <2>2. TypeOK'
    BY <1>0, <1>1, <1>4, <2>1, ChargeType DEF GiveUp, TypeOK, outside, Letters
  <2>3. at' # "terminate"
    BY <1>4 DEF GiveUp
  <2> QED BY <1>1, <1>2, <2>2, <2>3 DEF TypeInv, Started, Procs
<1>5. CASE Restart
  <2> DEFINE index == CHOOSE i \in Slots : pids[i] = Head(inbox).pid
             others == {pids[j] : j \in Victims(index)}
  <2>1. index \in Slots
    BY <1>5 DEF Restart, Current
  <2>2. Victims(index) \subseteq Slots
    BY <1>0, <2>1, VictimsType
  <2>3. others \subseteq Procs
    BY <1>2, <2>2
  <2>4. /\ todo' = {index} \cup Victims(index) /\ targets' = others
        /\ state' = Killed(others) /\ at' = IF others = {} THEN "start" ELSE "terminate"
    BY <1>5 DEF Restart
  <2>5. state' \in [Procs -> {"unborn", "running", "killed", "removed", "released"}]
    BY <1>0, <2>4, KilledType
  <2> HIDE DEF index, others
  <2>6. /\ todo' \subseteq Slots /\ todo' # {} /\ targets' \subseteq Procs
        /\ (at' = "terminate" <=> targets' # {})
        /\ at' \in {"start", "terminate"}
    BY <2>1, <2>2, <2>3, <2>4
  <2>7. TypeOK'
    BY <1>0, <1>1, <1>5, <2>5, <2>6, ChargeType DEF Restart, TypeOK, outside, Letters
  <2> QED BY <1>1, <1>2, <2>6, <2>7 DEF TypeInv, Started, Procs
<1>6. CASE AwaitTargets
  <2>1. todo # {} /\ todo' = todo
    BY <1>0, <1>6 DEF AwaitTargets, Started
  <2>2. TypeOK'
    BY <1>0, <1>1, <1>6, <2>1 DEF AwaitTargets, TypeOK, budget, children, outside, Letters
  <2> QED BY <1>1, <1>2, <2>1, <2>2 DEF TypeInv, Started, Procs
<1> QED BY <1>3, <1>4, <1>5, <1>6

\* The children, the owner and the clock.
LEMMA OutsideType ==
  ASSUME TypeInv,
         \/ \E p \in Procs : ChildEnds(p) \/ NamesReleased(p) \/ Reports(p)
         \/ OwnerDies \/ Send \/ Tick \/ UNCHANGED vars
  PROVE  TypeInv'
<1>0. TypeOK /\ Started
  BY DEF TypeInv
<1>1. UNCHANGED <<config, pids, todo, at, Slots>>
  BY DEF ChildEnds, NamesReleased, Reports, OwnerDies, Send, Tick, vars, control, Slots
<1>2. Started'
  BY <1>0, <1>1 DEF Started
<1>3. CASE \E p \in Procs : ChildEnds(p) \/ NamesReleased(p) \/ Reports(p)
  <2> PICK p \in Procs : ChildEnds(p) \/ NamesReleased(p) \/ Reports(p)
    BY <1>3
  <2>1. state' \in [Procs -> {"unborn", "running", "killed", "removed", "released"}]
    BY <1>0 DEF ChildEnds, NamesReleased, Reports, TypeOK
  <2>2. inbox' \in Seq(Letters) /\ armed' \subseteq Procs
    <3>1. inbox \in Seq(Letters) /\ armed \subseteq Procs
      BY <1>0 DEF TypeOK, Letters
    <3> QED BY <1>0, <3>1, MailType DEF ChildEnds, NamesReleased, Reports
  <2>3. UNCHANGED <<config, control, now, budget, late, owner, mail, nextPid, slotOf>>
    BY DEF ChildEnds, NamesReleased, Reports, outside
  <2> QED BY <1>0, <1>1, <1>2, <2>1, <2>2, <2>3
          DEF TypeInv, TypeOK, budget, control, Letters
<1>4. CASE OwnerDies \/ Send
  <2>1. inbox' \in Seq(Letters)
    <3>1. inbox \in Seq(Letters)
      BY <1>0 DEF TypeOK, Letters
    <3> QED BY <1>0, <1>4, <3>1, MailType DEF OwnerDies, Send
  <2>2. owner' \in {"alive", "dead"} /\ mail' \in 0 .. config.mail
    BY <1>0, <1>4, Settings DEF OwnerDies, Send, TypeOK
  <2> QED BY <1>0, <1>1, <1>2, <1>4, <2>1, <2>2
          DEF OwnerDies, Send, TypeInv, TypeOK, budget, control, children, Letters
<1>5. CASE Tick
  <2>1. now' \in 0 .. MaxTime /\ 0 .. now \subseteq 0 .. now'
    BY <1>0, <1>5 DEF Tick, TypeOK, SizesAssumption
  <2>2. triggers' \subseteq [nth : Nat \ {0}, when : 0 .. now']
    BY <1>0, <1>5, <2>1 DEF Tick, TypeOK, budget
  <2> QED BY <1>0, <1>1, <1>2, <1>5, <2>1, <2>2
          DEF Tick, TypeInv, TypeOK, budget, control, children, outside
<1>6. CASE UNCHANGED vars
  BY <1>0, <1>1, <1>2, <1>6 DEF TypeInv, TypeOK, vars, budget, control, children, outside
<1> QED BY <1>3, <1>4, <1>5, <1>6

LEMMA TypeStep == TypeInv /\ [Next]_vars => TypeInv'
BY StartType, LoopType, OutsideType DEF Next

\* Every variable keeps its type, and the loop is never about to start nobody.
THEOREM TypeCorrect == Spec => []TypeOK
BY TypeInit, TypeStep, PTL DEF Spec, TypeInv

-----------------------------------------------------------------------------
(* Clean restarts.                                                         *)

\* The process p is over, and whoever awaits it may have been told.
Ended(p) == state[p] = "released" \/ (state[p] = "removed" /\ p \in late)
\* Processes are numbered as they start, each for its child.
Numbered ==
  /\ \A p \in Procs : /\ p < nextPid => slotOf[p] \in Slots /\ state[p] # "unborn"
                      /\ p >= nextPid => slotOf[p] = 0 /\ state[p] = "unborn"
  /\ \A i \in Slots : pids[i] < nextPid /\ (pids[i] # 0 => slotOf[pids[i]] = i)
\* Who was replaced is over, and so is whoever the supervisor is told of.
ReplacedEnded == \A p \in Procs : p < nextPid /\ pids[slotOf[p]] # p => Ended(p)
DownsTrue == \A k \in 1 .. Len(inbox) : inbox[k].kind = "Down" => Ended(inbox[k].pid)
\* The children of this round that have no new process yet.
Awaited == IF at = "monitor" THEN todo \ {Min(todo)} ELSE todo
RoundEnded ==
  at \in {"start", "monitor", "terminate"} =>
    \A i \in Awaited : \/ pids[i] = 0 \/ Ended(pids[i])
                       \/ at = "terminate" /\ pids[i] \in targets
CleanInv == Numbered /\ ReplacedEnded /\ DownsTrue /\ RoundEnded

LEMMA CleanInit == Init => CleanInv
<1> SUFFICES ASSUME Init PROVE CleanInv
  OBVIOUS
<1>1. config \in Configs /\ Slots \subseteq Nat \ {0} /\ Len(<<>>) = 0
  BY Settings, EmptySeq DEF Init
<1>2. Numbered
  BY <1>1 DEF Init, Numbered, Procs
<1>3. DownsTrue
  BY <1>1 DEF Init, DownsTrue
<1> QED BY <1>2, <1>3 DEF Init, CleanInv, ReplacedEnded, RoundEnded, Awaited, Procs

\* Over is over.
LEMMA EndedStep ==
  ASSUME TypeInv, CleanInv, [Next]_vars, NEW p \in Procs, Ended(p)
  PROVE  Ended(p)'
<1>1. /\ state \in [Procs -> {"unborn", "running", "killed", "removed", "released"}]
      /\ nextPid \in Nat
  BY DEF TypeInv, TypeOK
<1>2. late \subseteq late'
  BY DEF Next, vars, StartChild, MonitorChild, OwnerExited, Ignored, GiveUp, Restart,
         AwaitTargets, OwnerDies, Send, Tick, ChildEnds, NamesReleased, Reports, children
<1>3. state'[p] = state[p] \/ state'[p] = "released"
  <2>1. CASE StartChild
    <3>1. p # nextPid
      BY <1>1 DEF CleanInv, Numbered, Ended
    <3> QED BY <1>1, <2>1, <3>1 DEF StartChild
  <2>2. CASE OwnerExited \/ GiveUp \/ Restart
    BY <1>1, <2>2 DEF OwnerExited, GiveUp, Restart, Killed, Ended
  <2>3. CASE \E q \in Procs : ChildEnds(q) \/ NamesReleased(q)
    BY <1>1, <2>3 DEF ChildEnds, NamesReleased, Alive, Ended
  <2>4. CASE UNCHANGED state
    BY <2>4
  <2> QED BY <2>1, <2>2, <2>3, <2>4
          DEF Next, vars, MonitorChild, Ignored, AwaitTargets, OwnerDies, Send, Tick, Reports,
              children
<1> QED BY <1>2, <1>3 DEF Ended

\* Only a start numbers a process.
LEMMA NumberedStep == TypeInv /\ CleanInv /\ [Next]_vars => Numbered'
<1> SUFFICES ASSUME TypeInv, CleanInv, [Next]_vars PROVE Numbered'
  OBVIOUS
<1>1. TypeOK /\ Numbered /\ UNCHANGED Slots
  BY DEF TypeInv, CleanInv, Next, vars, StartChild, MonitorChild, OwnerExited, Ignored, GiveUp,
         Restart, AwaitTargets, OwnerDies, Send, Tick, ChildEnds, NamesReleased, Reports, Slots
<1>2. CASE StartChild
  <2> DEFINE i == Min(todo)
  <2>1. i \in Slots /\ i # 0 /\ nextPid \in Procs
    BY <1>1, <1>2, FirstOfTodo, Settings DEF StartChild, TypeOK, Procs
  <2>2. /\ slotOf' = [slotOf EXCEPT ![nextPid] = i] /\ pids' = [pids EXCEPT ![i] = nextPid]
        /\ state' = [state EXCEPT ![nextPid] = "running"] /\ nextPid' = nextPid + 1
    BY <1>2 DEF StartChild
  <2> HIDE DEF i
  <2>3. \A p \in Procs : /\ p < nextPid' => slotOf'[p] \in Slots /\ state'[p] # "unborn"
                         /\ p >= nextPid' => slotOf'[p] = 0 /\ state'[p] = "unborn"
    BY <1>1, <2>1, <2>2 DEF Numbered, TypeOK, Procs
  <2>4. \A j \in Slots : pids'[j] < nextPid' /\ (pids'[j] # 0 => slotOf'[pids'[j]] = j)
    BY <1>1, <2>1, <2>2 DEF Numbered, TypeOK, Procs
  <2> QED BY <1>1, <2>3, <2>4 DEF Numbered
<1>3. CASE UNCHANGED <<pids, slotOf, nextPid>>
  <2>1. \A p \in Procs : state'[p] = "unborn" <=> state[p] = "unborn"
    <3>1. CASE OwnerExited \/ GiveUp \/ Restart
      BY <1>1, <3>1 DEF TypeOK, OwnerExited, GiveUp, Restart, Killed
    <3>2. CASE \E p \in Procs : ChildEnds(p) \/ NamesReleased(p)
      BY <1>1, <3>2 DEF TypeOK, ChildEnds, NamesReleased, Alive
    <3>3. ~StartChild
      BY <1>1, <1>3 DEF StartChild, TypeOK
    <3> QED BY <3>1, <3>2, <3>3
            DEF Next, vars, MonitorChild, Ignored, AwaitTargets, OwnerDies, Send, Tick, Reports,
                children
  <2> QED BY <1>1, <1>3, <2>1 DEF Numbered
<1> QED BY <1>2, <1>3
        DEF Next, vars, MonitorChild, OwnerExited, Ignored, GiveUp, Restart, AwaitTargets,
            OwnerDies, Send, Tick, ChildEnds, NamesReleased, Reports, children, control

\* A child is replaced only when it is over.
LEMMA ReplacedStep == TypeInv /\ CleanInv /\ [Next]_vars => ReplacedEnded'
<1> SUFFICES ASSUME TypeInv, CleanInv, [Next]_vars, NEW p \in Procs,
                    p < nextPid', pids'[slotOf'[p]] # p
             PROVE  Ended(p)'
  BY DEF ReplacedEnded
<1>1. TypeOK /\ Numbered /\ nextPid \in Nat
  BY DEF TypeInv, TypeOK, CleanInv
<1>2. CASE StartChild
  <2> DEFINE i == Min(todo)
  <2>1. i \in todo /\ i \in Slots /\ i # 0 /\ nextPid \in Procs
    BY <1>1, <1>2, FirstOfTodo, Settings DEF StartChild, TypeOK, Procs
  <2>2. /\ slotOf' = [slotOf EXCEPT ![nextPid] = i] /\ pids' = [pids EXCEPT ![i] = nextPid]
        /\ nextPid' = nextPid + 1 /\ at = "start"
    BY <1>2 DEF StartChild
  <2> HIDE DEF i
  <2>3. p # nextPid /\ p < nextPid
    BY <1>1, <2>1, <2>2 DEF TypeOK, Procs
  <2>4. slotOf'[p] = slotOf[p] /\ slotOf[p] \in Slots
    BY <1>1, <2>2, <2>3 DEF TypeOK, Numbered
  <2>5. pids[slotOf[p]] # p \/ slotOf[p] = i
    BY <1>1, <2>2, <2>4 DEF TypeOK
  <2>6. CASE pids[slotOf[p]] # p
    BY <2>3, <2>6, EndedStep DEF CleanInv, ReplacedEnded
  <2>7. CASE pids[i] = p
    BY <2>1, <2>2, <2>7, EndedStep DEF CleanInv, RoundEnded, Awaited, Procs
  <2> QED BY <2>5, <2>6, <2>7
<1>3. CASE UNCHANGED <<pids, slotOf, nextPid>>
  BY <1>3, EndedStep DEF CleanInv, ReplacedEnded
<1> QED BY <1>2, <1>3
        DEF Next, vars, MonitorChild, OwnerExited, Ignored, GiveUp, Restart, AwaitTargets,
            OwnerDies, Send, Tick, ChildEnds, NamesReleased, Reports, children, control

\* What is put into the mailbox, and taken out.
LEMMA DownsAppend ==
  ASSUME TypeInv, CleanInv, [Next]_vars, NEW m \in Letters, inbox' = Append(inbox, m),
         m.kind = "Down" => Ended(m.pid)'
  PROVE  DownsTrue'
<1>1. inbox \in Seq(Letters)
  BY DEF TypeInv, TypeOK, Letters
<1>2. /\ Len(inbox) \in Nat /\ Len(inbox') = Len(inbox) + 1 /\ inbox'[Len(inbox) + 1] = m
      /\ \A k \in 1 .. Len(inbox) : inbox'[k] = inbox[k] /\ inbox[k] \in Letters
  BY <1>1, AppendProperties, LenProperties, ElementOfSeq
<1>3. ASSUME NEW k \in 1 .. Len(inbox'), inbox'[k].kind = "Down" PROVE Ended(inbox[k].pid)'
  <2>1. CASE k = Len(inbox) + 1
    BY <1>2, <1>3, <2>1 DEF Ended
  <2>2. CASE k \in 1 .. Len(inbox)
    <3>1. PICK q \in Procs : inbox'[k].pid = q /\ Ended(q)
      BY <1>2, <1>3, <2>2, MailType DEF TypeInv, CleanInv, DownsTrue
    <3>2. Ended(q)'
      BY <3>1, EndedStep
    <3> QED BY <3>1, <3>2 DEF Ended
  <2> QED BY <1>2, <2>1, <2>2
<1> QED BY <1>3 DEF DownsTrue
LEMMA DownsTail ==
  ASSUME TypeInv, CleanInv, [Next]_vars, Receive
  PROVE  DownsTrue'
<1>1. inbox \in Seq(Letters) /\ inbox # <<>> /\ inbox' = Tail(inbox)
  BY DEF TypeInv, TypeOK, Letters, Receive
<1>2. /\ Len(inbox) \in Nat /\ Len(inbox') = Len(inbox) - 1
      /\ \A k \in 1 .. Len(inbox') : inbox'[k] = inbox[k + 1]
      /\ \A k \in 1 .. Len(inbox) : inbox[k] \in Letters
  BY <1>1, HeadTailProperties, LenProperties, ElementOfSeq
<1>3. ASSUME NEW k \in 1 .. Len(inbox'), inbox'[k].kind = "Down" PROVE Ended(inbox[k].pid)'
  <2>1. k + 1 \in 1 .. Len(inbox)
    BY <1>2
  <2>2. PICK q \in Procs : inbox'[k].pid = q /\ Ended(q)
    BY <1>2, <1>3, <2>1, MailType DEF TypeInv, CleanInv, DownsTrue
  <2>3. Ended(q)'
    BY <2>2, EndedStep
  <2> QED BY <2>2, <2>3 DEF Ended
<1> QED BY <1>3 DEF DownsTrue

LEMMA DownsStay ==
  ASSUME TypeInv, CleanInv, [Next]_vars, UNCHANGED inbox
  PROVE  DownsTrue'
<1>1. inbox \in Seq(Letters)
  BY DEF TypeInv, TypeOK, Letters
<1>2. ASSUME NEW k \in 1 .. Len(inbox'), inbox'[k].kind = "Down" PROVE Ended(inbox[k].pid)'
  <2>1. PICK q \in Procs : inbox'[k].pid = q /\ Ended(q)
    BY <1>1, <1>2, MailType, ElementOfSeq DEF TypeInv, CleanInv, DownsTrue
  <2>2. Ended(q)'
    BY <2>1, EndedStep
  <2> QED BY <2>1, <2>2 DEF Ended
<1> QED BY <1>2 DEF DownsTrue

\* The supervisor is told of a child by its teardown, or by monitor().
LEMMA DownsStep == TypeInv /\ CleanInv /\ [Next]_vars => DownsTrue'
<1> SUFFICES ASSUME TypeInv, CleanInv, [Next]_vars PROVE DownsTrue'
  OBVIOUS
<1>0. TypeOK /\ Started /\ Numbered
  BY DEF TypeInv, CleanInv
<1>1. CASE MonitorChild
  <2>1. PICK q \in Procs : q = pids[Min(todo)] /\ q < nextPid
    <3>1. Min(todo) \in todo /\ Min(todo) \in Slots
      BY <1>0, <1>1, FirstOfTodo DEF MonitorChild, TypeOK
    <3>2. /\ pids[Min(todo)] # 0 /\ pids[Min(todo)] \in 0 .. MaxProcs
          /\ pids[Min(todo)] < nextPid
      BY <1>0, <1>1, <3>1 DEF MonitorChild, Started, TypeOK, Numbered
    <3> QED BY <3>2 DEF Procs
  <2>2. CASE Alive(q)
    <3>1. inbox' = inbox
      BY <1>1, <2>1, <2>2 DEF MonitorChild
    <3> QED BY <3>1, DownsStay
  <2>3. CASE ~Alive(q)
    <3>1. inbox' = Append(inbox, Down(q)) /\ late' = late \cup {q} /\ state' = state
      BY <1>1, <2>1, <2>3 DEF MonitorChild
    <3>2. state[q] \in {"removed", "released"}
      BY <1>0, <2>1, <2>3 DEF TypeOK, Numbered, Alive
    <3>3. Ended(q)' /\ Down(q).pid = q /\ Down(q) \in Letters
      BY <1>0, <2>1, <3>1, <3>2, MailType DEF Ended, Down
    <3> QED BY <3>1, <3>3, DownsAppend
  <2> QED BY <2>2, <2>3
<1>2. CASE \E q \in Procs : Reports(q)
  <2> PICK q \in Procs : Reports(q)
    BY <1>2
  <2>1. CASE inbox' = inbox
    BY <2>1, DownsStay
  <2>2. CASE inbox' = Append(inbox, Down(q))
    <3>1. Ended(q)' /\ Down(q).pid = q /\ Down(q) \in Letters
      BY <1>0, MailType DEF Reports, Ended, Down
    <3> QED BY <2>2, <3>1, DownsAppend
  <2> QED BY <2>1, <2>2 DEF Reports
<1>3. CASE OwnerDies \/ Send
  <2>1. OwnerExit \in Letters /\ UserMessage \in Letters
        /\ OwnerExit.kind # "Down" /\ UserMessage.kind # "Down"
    BY <1>0, MailType DEF OwnerExit, UserMessage
  <2>2. \/ inbox' = inbox \/ inbox' = Append(inbox, OwnerExit)
        \/ inbox' = Append(inbox, UserMessage)
    BY <1>3 DEF OwnerDies, Send
  <2> QED BY <2>1, <2>2, DownsAppend, DownsStay
<1>4. CASE Receive
  BY <1>4, DownsTail
<1>5. CASE UNCHANGED inbox
  BY <1>5, DownsStay
<1> QED BY <1>1, <1>2, <1>3, <1>4, <1>5
        DEF Next, vars, StartChild, OwnerExited, Ignored, GiveUp, Restart, AwaitTargets, Tick,
            ChildEnds, NamesReleased

\* Nobody who is still to be replaced comes back.
LEMMA AwaitedStay ==
  ASSUME TypeInv, CleanInv, [Next]_vars, NEW i \in Slots, pids'[i] = pids[i],
         pids[i] = 0 \/ Ended(pids[i])
  PROVE  pids'[i] = 0 \/ Ended(pids[i])'
<1>1. CASE pids[i] = 0
  BY <1>1
<1>2. CASE pids[i] # 0
  <2>1. PICK q \in Procs : q = pids[i] /\ Ended(q)
    BY <1>2 DEF TypeInv, TypeOK, Procs
  <2>2. Ended(q)'
    BY <2>1, EndedStep
  <2> QED BY <2>1, <2>2 DEF Ended
<1> QED BY <1>1, <1>2

LEMMA RoundStep == TypeInv /\ CleanInv /\ [Next]_vars => RoundEnded'
<1> SUFFICES ASSUME TypeInv, CleanInv, [Next]_vars, NEW i \in Awaited',
                    at' \in {"start", "monitor", "terminate"}
             PROVE  \/ pids'[i] = 0 \/ Ended(pids[i])'
                    \/ at' = "terminate" /\ pids'[i] \in targets'
  BY DEF RoundEnded
<1>1. TypeOK /\ Started /\ RoundEnded /\ DownsTrue
  BY DEF TypeInv, CleanInv
<1>2. CASE StartChild
  <2>1. /\ i \in todo \ {Min(todo)} /\ i \in Slots /\ at = "start"
        /\ pids' = [pids EXCEPT ![Min(todo)] = nextPid]
    BY <1>1, <1>2 DEF StartChild, Awaited, TypeOK
  <2>2. pids'[i] = pids[i] /\ (pids[i] = 0 \/ Ended(pids[i]))
    BY <1>1, <2>1 DEF TypeOK, RoundEnded, Awaited
  <2> QED BY <2>1, <2>2, AwaitedStay
<1>3. CASE MonitorChild
  <2>1. /\ i \in todo \ {Min(todo)} /\ i \in Slots /\ at = "monitor" /\ pids' = pids
    BY <1>1, <1>3 DEF MonitorChild, Awaited, TypeOK
  <2>2. pids'[i] = pids[i] /\ (pids[i] = 0 \/ Ended(pids[i]))
    BY <1>1, <2>1 DEF RoundEnded, Awaited
  <2> QED BY <2>1, <2>2, AwaitedStay
\* Who triggered the restart is over; the others are terminated first.
<1>4. CASE Restart
  <2> DEFINE index == CHOOSE j \in Slots : pids[j] = Head(inbox).pid
             others == {pids[j] : j \in Victims(index)}
  <2>1. /\ index \in Slots /\ pids[index] = Head(inbox).pid
        /\ Head(inbox).kind = "Down" /\ inbox # <<>>
    BY <1>4 DEF Restart, Current, Receive
  <2>2. /\ todo' = {index} \cup Victims(index) /\ targets' = others /\ pids' = pids
        /\ at' = IF others = {} THEN "start" ELSE "terminate"
    BY <1>4 DEF Restart
  <2>3. Ended(pids[index])
    <3>1. Head(inbox) = inbox[1] /\ 1 \in 1 .. Len(inbox)
      BY <1>1, <2>1, EmptySeq DEF TypeOK
    <3> QED BY <1>1, <2>1, <3>1 DEF DownsTrue
  <2> HIDE DEF index
  <2>4. CASE i = index
    BY <2>1, <2>2, <2>3, <2>4, AwaitedStay
  <2>5. CASE i \in Victims(index)
    BY <2>2, <2>5
  <2> QED BY <2>2, <2>4, <2>5 DEF Awaited
\* A target is awaited until its Down has come.
<1>5. CASE AwaitTargets
  <2>1. /\ i \in todo /\ i \in Slots /\ at = "terminate" /\ pids' = pids /\ inbox # <<>>
        /\ targets' = IF Head(inbox).kind = "Down" THEN targets \ {Head(inbox).pid} ELSE targets
        /\ at' = IF targets' = {} THEN "start" ELSE "terminate"
    BY <1>1, <1>5 DEF AwaitTargets, Awaited, TypeOK, Receive
  <2>2. Head(inbox) = inbox[1] /\ 1 \in 1 .. Len(inbox)
    BY <1>1, <2>1, EmptySeq DEF TypeOK
  <2>3. \/ pids[i] = 0 \/ Ended(pids[i]) \/ pids[i] \in targets
    BY <1>1, <2>1 DEF RoundEnded, Awaited
  <2>4. CASE pids[i] \in targets'
    BY <2>1, <2>4
  <2>5. CASE pids[i] \notin targets'
    <3>1. pids[i] = 0 \/ Ended(pids[i])
      BY <1>1, <2>1, <2>2, <2>3, <2>5 DEF DownsTrue
    <3> QED BY <2>1, <3>1, AwaitedStay
  <2> QED BY <2>4, <2>5
<1>6. CASE UNCHANGED control
  <2>1. i \in Awaited /\ i \in Slots /\ UNCHANGED <<at, pids, targets>>
    BY <1>1, <1>6 DEF control, Awaited, TypeOK
  <2>2. \/ pids[i] = 0 \/ Ended(pids[i])
        \/ at = "terminate" /\ pids[i] \in targets
    BY <1>1, <2>1 DEF RoundEnded
  <2> QED BY <2>1, <2>2, AwaitedStay
<1> QED BY <1>2, <1>3, <1>4, <1>5, <1>6
        DEF Next, vars, OwnerExited, Ignored, GiveUp, OwnerDies, Send, Tick, ChildEnds,
            NamesReleased, Reports

LEMMA CleanStep == TypeInv /\ CleanInv /\ [Next]_vars => CleanInv'
BY NumberedStep, ReplacedStep, DownsStep, RoundStep DEF CleanInv

\* Under every strategy a child is started again only when all its earlier
\* processes are over, whatever ended while others were terminated.
THEOREM RestartsAreClean == Spec => []RestartIsClean
<1>1. TypeInv /\ CleanInv => RestartIsClean
  <2> SUFFICES ASSUME TypeInv, CleanInv, at = "start", NEW p \in Procs, slotOf[p] \in todo
               PROVE  Ended(p)
    BY DEF TypeInv, RestartIsClean, Ended
  <2>1. slotOf[p] \in Slots /\ slotOf[p] # 0
    BY Settings DEF TypeInv, TypeOK
  <2>2. p < nextPid /\ p # 0
    BY <2>1 DEF CleanInv, Numbered, TypeInv, TypeOK, Procs
  <2>3. CASE pids[slotOf[p]] = p
    BY <2>2, <2>3 DEF CleanInv, RoundEnded, Awaited
  <2>4. CASE pids[slotOf[p]] # p
    BY <2>2, <2>4 DEF CleanInv, ReplacedEnded
  <2> QED BY <2>3, <2>4
<1> QED BY <1>1, TypeInit, TypeStep, CleanInit, CleanStep, PTL DEF Spec

-----------------------------------------------------------------------------
(* The budget.                                                             *)

\* Triggers are told apart by their numbers, and counted by lifetime.
Counted ==
  /\ \A r \in triggers : r.nth <= Cardinality(triggers)
  /\ ~config.windowed => lifetime = Cardinality(triggers)
\* What is not in the window any more is too old to come back into it.
WindowKeeps ==
  config.windowed => \A r \in triggers \ window : now - r.when > config.within
BudgetInv == Counted /\ WindowKeeps /\ BudgetExact

\* The triggers charged from one instant to another.
Span(R, a, b) == {r \in R : r.when \in a .. b}
First(t) == IF config.windowed THEN t - config.within ELSE 0

LEMMA SpanSize ==
  ASSUME NEW R, IsFiniteSet(R), NEW a, NEW b
  PROVE  /\ IsFiniteSet(Span(R, a, b))
         /\ Cardinality(Span(R, a, b)) \in Nat
         /\ Cardinality(Span(R, a, b)) <= Cardinality(R) /\ Cardinality(R) \in Nat
<1>1. Span(R, a, b) \in SUBSET R
  BY DEF Span
<1> QED BY <1>1, FS_Subset, FS_CardinalityType

LEMMA SpanAdd ==
  ASSUME NEW R, IsFiniteSet(R), NEW x, x \notin R, NEW a, NEW b
  PROVE  /\ x.when \in a .. b =>
              Cardinality(Span(R \cup {x}, a, b)) = Cardinality(Span(R, a, b)) + 1
         /\ x.when \notin a .. b => Span(R \cup {x}, a, b) = Span(R, a, b)
<1>1. CASE x.when \in a .. b
  <2>1. Span(R \cup {x}, a, b) = Span(R, a, b) \cup {x} /\ x \notin Span(R, a, b)
    BY <1>1 DEF Span
  <2> QED BY <1>1, <2>1, SpanSize, FS_AddElement
<1>2. CASE x.when \notin a .. b
  BY <1>2 DEF Span
<1> QED BY <1>1, <1>2

LEMMA SpanMonotone ==
  ASSUME NEW R, IsFiniteSet(R), NEW a, NEW b, NEW c, NEW d,
         Span(R, a, b) \subseteq Span(R, c, d)
  PROVE  Cardinality(Span(R, a, b)) <= Cardinality(Span(R, c, d))
BY SpanSize, FS_Subset

LEMMA ChargesIsSpan == \A t : Charges(t) = Cardinality(Span(triggers, First(t), t))
BY DEF Charges, Span, First

LEMMA BudgetInit == Init => BudgetInv
<1> SUFFICES ASSUME Init PROVE BudgetInv
  OBVIOUS
<1>1. /\ triggers = {} /\ window = {} /\ lifetime = 0 /\ at = "start"
      /\ config.maxRestarts \in Nat
  BY Settings DEF Init
<1>2. Cardinality({}) = 0 /\ IsFiniteSet({})
  BY FS_EmptySet
<1>3. Counted /\ WindowKeeps
  BY <1>1, <1>2 DEF Counted, WindowKeeps
<1>4. ASSUME NEW t PROVE Charges(t) = 0
  <2>1. Span({}, First(t), t) = {}
    BY DEF Span
  <2> QED BY <1>1, <1>2, <2>1, ChargesIsSpan
<1> QED BY <1>1, <1>3, <1>4 DEF BudgetInv, BudgetExact

\* A step without a trigger, at an instant.
LEMMA BudgetStays ==
  ASSUME TypeInv, BudgetInv, UNCHANGED <<config, now, budget>>,
         at' = "crashed" <=> at = "crashed"
  PROVE  BudgetInv'
<1>1. UNCHANGED <<window, triggers, lifetime>>
  BY DEF budget
<1>2. Counted' /\ WindowKeeps'
  BY <1>1 DEF BudgetInv, Counted, WindowKeeps
<1>3. \A t : Charges(t)' = Charges(t)
  BY <1>1 DEF Charges
<1>4. BudgetExact'
  BY <1>3 DEF BudgetInv, BudgetExact
<1> QED BY <1>2, <1>4 DEF BudgetInv

\* As time passes triggers leave the window, and none comes back.
LEMMA BudgetTick ==
  ASSUME TypeInv, BudgetInv, Tick
  PROVE  BudgetInv'
<1>1. /\ UNCHANGED <<config, at, window, triggers, lifetime>> /\ now' = now + 1
      /\ config.windowed /\ now \in Nat /\ config.within \in Nat
      /\ config.maxRestarts \in Nat
      /\ \A r \in triggers : r.when \in 0 .. now
      /\ IsFiniteSet(triggers)
  BY Settings DEF Tick, budget, control, TypeInv, TypeOK
<1>2. Counted' /\ WindowKeeps'
  BY <1>1 DEF BudgetInv, Counted, WindowKeeps
<1>3. \A t : Charges(t)' = Charges(t)
  BY <1>1 DEF Charges
<1>4. Charges(now + 1) <= Charges(now) /\ Charges(now + 1) \in Nat /\ Charges(now) \in Nat
  <2>1. Span(triggers, First(now + 1), now + 1) \subseteq Span(triggers, First(now), now)
    BY <1>1 DEF Span, First
  <2> QED BY <1>1, <2>1, SpanMonotone, SpanSize, ChargesIsSpan
<1>5. BudgetExact'
  <2>1. CASE at = "crashed"
    BY <1>1, <1>3, <2>1 DEF BudgetInv, BudgetExact
  <2>2. CASE at # "crashed"
    <3> SUFFICES ASSUME config.maxRestarts # 0, NEW t \in 0 .. now + 1
                 PROVE  Charges(t) <= config.maxRestarts
      BY <1>1, <1>3, <2>2 DEF BudgetExact
    <3>1. CASE t \in 0 .. now
      BY <2>2, <3>1 DEF BudgetInv, BudgetExact
    <3>2. CASE t = now + 1
      <4>1. Charges(now) <= config.maxRestarts
        BY <1>1, <2>2 DEF BudgetInv, BudgetExact
      <4> QED BY <1>1, <1>4, <3>2, <4>1
    <3> QED BY <1>1, <3>1, <3>2
  <2> QED BY <2>1, <2>2
<1> QED BY <1>2, <1>5 DEF BudgetInv

\* A trigger is charged to the spans that reach this instant, once.
LEMMA ChargeCounts ==
  ASSUME TypeInv, BudgetInv, Charge, UNCHANGED <<config, now>>
  PROVE  /\ Charges(now)' = Charges(now) + 1 /\ Charges(now) \in Nat
         /\ \A t \in 0 .. now - 1 : Charges(t)' = Charges(t)
         /\ Counted' /\ WindowKeeps'
         /\ config.windowed => Charges(now)' = Cardinality(window')
         /\ ~config.windowed => Charges(now)' = lifetime'
<1> DEFINE x == Trigger
<1>1. /\ triggers' = triggers \cup {x} /\ x.when = now /\ x.nth = Cardinality(triggers) + 1
      /\ now \in Nat /\ config.within \in Nat /\ IsFiniteSet(triggers)
      /\ Cardinality(triggers) \in Nat /\ window \subseteq triggers
      /\ \A r \in triggers : r.when \in 0 .. now /\ r.nth \in Nat
  BY Settings, FS_CardinalityType DEF TypeInv, TypeOK, Charge, Trigger
<1>2. x \notin triggers
  BY <1>1 DEF BudgetInv, Counted
<1>3. IF config.windowed
      THEN window' = {r \in window \cup {x} : now - r.when <= config.within}
           /\ UNCHANGED lifetime
      ELSE lifetime' = lifetime + 1 /\ UNCHANGED window
  BY DEF Charge, Recent
<1> HIDE DEF x
<1>4. \A t : Charges(t)' = Cardinality(Span(triggers \cup {x}, First(t), t))
  BY <1>1 DEF Charges, Span, First
<1>5. Charges(now)' = Charges(now) + 1 /\ Charges(now) \in Nat
  <2>1. x.when \in First(now) .. now
    BY <1>1 DEF First
  <2>2. /\ Cardinality(Span(triggers \cup {x}, First(now), now))
           = Cardinality(Span(triggers, First(now), now)) + 1
        /\ Cardinality(Span(triggers, First(now), now)) \in Nat
    BY <1>1, <1>2, <2>1, SpanAdd, SpanSize
  <2> DEFINE c == Cardinality(Span(triggers \cup {x}, First(now), now))
  <2>3. Charges(now)' = c
    BY <1>1 DEF Charges, Span, First
  <2> QED BY <2>2, <2>3, ChargesIsSpan
<1>6. ASSUME NEW t \in 0 .. now - 1 PROVE Charges(t)' = Charges(t)
  <2>1. x.when \notin First(t) .. t
    BY <1>1 DEF First
  <2>2. Span(triggers \cup {x}, First(t), t) = Span(triggers, First(t), t)
    BY <1>1, <1>2, <2>1, SpanAdd
  <2>3. Charges(t)' = Cardinality(Span(triggers \cup {x}, First(t), t))
    BY <1>4
  <2> QED BY <2>2, <2>3, ChargesIsSpan
<1>7. Cardinality(triggers') = Cardinality(triggers) + 1
  BY <1>1, <1>2, FS_AddElement
<1>8. Counted'
  BY <1>1, <1>3, <1>7 DEF BudgetInv, Counted
<1>9. WindowKeeps'
  BY <1>1, <1>3 DEF BudgetInv, WindowKeeps
<1>10. config.windowed => Charges(now)' = Cardinality(window')
  <2> HAVE config.windowed
  <2>1. Span(triggers \cup {x}, now - config.within, now) = window'
    BY <1>1, <1>3 DEF Span, BudgetInv, WindowKeeps
  <2>2. Charges(now)' = Cardinality(Span(triggers \cup {x}, now - config.within, now))
    BY <1>1 DEF Charges, Span
  <2> QED BY <2>1, <2>2
<1>11. ~config.windowed => Charges(now)' = lifetime'
  <2> HAVE ~config.windowed
  <2>1. Span(triggers \cup {x}, 0, now) = triggers'
    BY <1>1 DEF Span
  <2>2. Charges(now)' = Cardinality(triggers')
    BY <1>1, <2>1 DEF Charges, Span
  <2> QED BY <1>3, <1>7, <2>2 DEF BudgetInv, Counted
<1> QED BY <1>5, <1>6, <1>8, <1>9, <1>10, <1>11

LEMMA BudgetCharge ==
  ASSUME TypeInv, BudgetInv, Charge, UNCHANGED <<config, now>>, at # "crashed",
         at' = "crashed" <=> OverBudget
  PROVE  BudgetInv'
<1>1. now \in Nat /\ config.maxRestarts \in Nat
  BY Settings DEF TypeInv, TypeOK
<1> DEFINE c == Charges(now)
<1>2. /\ Charges(now)' = c + 1 /\ c \in Nat
      /\ \A t \in 0 .. now - 1 : Charges(t)' = Charges(t)
      /\ Counted' /\ WindowKeeps'
  BY ChargeCounts
<1>3. config.maxRestarts # 0 => (OverBudget <=> c + 1 > config.maxRestarts)
  BY <1>2, ChargeCounts DEF OverBudget
<1>4. config.maxRestarts # 0 => \A t \in 0 .. now : Charges(t) <= config.maxRestarts
  BY DEF BudgetInv, BudgetExact
<1>5. config.maxRestarts # 0 => c <= config.maxRestarts
  BY <1>1, <1>4
<1> HIDE DEF c
<1>6. ASSUME config.maxRestarts # 0, at' # "crashed", NEW t \in 0 .. now
      PROVE  Charges(t)' <= config.maxRestarts
  <2>1. CASE t = now
    <3>1. c + 1 <= config.maxRestarts
      BY <1>1, <1>2, <1>3, <1>6
    <3>2. Charges(now)' = c + 1
      BY <1>2
    <3>3. Charges(t)' = c + 1
      BY <2>1, <3>2 DEF Charges
    <3> QED BY <3>1, <3>3
  <2>2. CASE t \in 0 .. now - 1
    BY <1>2, <1>4, <1>6, <2>2
  <2> QED BY <1>1, <2>1, <2>2
<1>7. ASSUME config.maxRestarts # 0, at' = "crashed"
      PROVE  \E t \in 0 .. now : Charges(t)' = config.maxRestarts + 1
  <2>1. Charges(now)' = config.maxRestarts + 1
    BY <1>1, <1>2, <1>3, <1>5, <1>7
  <2>2. PICK t \in 0 .. now : t = now
    BY <1>1
  <2>3. Charges(t)' = config.maxRestarts + 1
    BY <2>1, <2>2 DEF Charges
  <2> QED BY <2>3
<1>9. config.maxRestarts = 0 => at' # "crashed"
  BY DEF OverBudget
<1>8. BudgetExact'
  <2>1. CASE config.maxRestarts = 0
    BY <1>9, <2>1 DEF BudgetExact
  <2>2. CASE config.maxRestarts # 0 /\ at' = "crashed"
    BY <1>7, <2>2 DEF BudgetExact
  <2>3. CASE config.maxRestarts # 0 /\ at' # "crashed"
    BY <1>6, <2>3 DEF BudgetExact
  <2> QED BY <2>1, <2>2, <2>3
<1> QED BY <1>2, <1>8 DEF BudgetInv

LEMMA BudgetStep == TypeInv /\ BudgetInv /\ [Next]_vars => BudgetInv'
<1> SUFFICES ASSUME TypeInv, BudgetInv, [Next]_vars PROVE BudgetInv'
  OBVIOUS
<1>1. CASE Tick
  BY <1>1, BudgetTick
<1>2. CASE GiveUp
  <2>1. /\ Charge /\ OverBudget /\ UNCHANGED <<config, now>> /\ at = "recv"
        /\ at' = "crashed"
    BY <1>2 DEF GiveUp
  <2> QED BY <2>1, BudgetCharge
<1>3. CASE Restart
  <2>1. /\ Charge /\ ~OverBudget /\ UNCHANGED <<config, now>> /\ at = "recv"
        /\ at' \in {"start", "terminate"}
    BY <1>3 DEF Restart
  <2> QED BY <2>1, BudgetCharge
<1>4. CASE UNCHANGED <<config, now, budget>> /\ (at' = "crashed" <=> at = "crashed")
  BY <1>4, BudgetStays
<1> QED BY <1>1, <1>2, <1>3, <1>4
        DEF Next, vars, StartChild, MonitorChild, OwnerExited, Ignored, AwaitTargets,
            OwnerDies, Send, ChildEnds, NamesReleased, Reports, control

\* A supervisor at work never restarted more often than its budget allows
\* within any span of the window, and one that gave up had to: whatever the
\* clock, the strategy and the order of the Downs.
THEOREM BudgetStaysExact == Spec => []BudgetExact
<1>1. BudgetInv => BudgetExact
  BY DEF BudgetInv
<1> QED BY <1>1, TypeInit, TypeStep, BudgetInit, BudgetStep, PTL DEF Spec

=============================================================================
