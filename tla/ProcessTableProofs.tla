------------------------- MODULE ProcessTableProofs -------------------------
(***************************************************************************)
(* What holds of the process table for every number of processes, callers  *)
(* and calls: the type invariant, that monitors are accounted for, that    *)
(* linked processes share their fate, and that nothing else stops one.     *)
(***************************************************************************)
EXTENDS ProcessTable, TLAPS

USE BoundsAssumption, ExitArgsAssumption

-----------------------------------------------------------------------------
(* Type correctness.                                                       *)

\* Sending one more signal keeps the mailboxes well typed.
LEMMA DeliveredType ==
  ASSUME mailbox \in [Pids -> Seq(Signals)],
         NEW p \in Pids, NEW item \in Signals
  PROVE  Delivered(p, item) \in [Pids -> Seq(Signals)]
BY DEF Delivered

LEMMA TypeInit == Init => TypeOK
BY DEF Init, TypeOK, EntriesOK, LinksOK, MonitorsOK, MailboxOK, CallsOK,
       Issued, Pids

LEMMA EntriesStep == TypeOK /\ [Next]_vars => EntriesOK'
<1> SUFFICES ASSUME EntriesOK, [Next]_vars PROVE EntriesOK'
  BY DEF TypeOK
<1> USE DEF EntriesOK
<1>1. ASSUME Enter, UNCHANGED <<aborted, trap, staged, reason>> PROVE EntriesOK'
  BY <1>1 DEF Enter, Issued, Pids
<1>2. ASSUME NEW p \in Pids, Kill(p) PROVE EntriesOK'
  BY <1>2 DEF Kill, Issued
<1>3. ASSUME NEW p \in Pids, NEW r \in ExitArgs, Exit(p, r) PROVE EntriesOK'
  BY <1>3 DEF Exit, Issued
<1>4. ASSUME NEW p \in Pids, NEW t \in BOOLEAN, SetTrapExit(p, t)
      PROVE EntriesOK'
  BY <1>4 DEF SetTrapExit, Issued
<1>5. ASSUME NEW p \in Pids, NEW o \in Reasons, BodyEnds(p, o)
      PROVE EntriesOK'
  BY <1>5 DEF BodyEnds, Issued, Reasons
<1>6. ASSUME NEW p \in Pids, Remove(p) PROVE EntriesOK'
  BY <1>6 DEF Remove, Issued
<1>7. ASSUME NEW p \in Pids, NEW q \in Pids, PropagateExit(p, q)
      PROVE EntriesOK'
  BY <1>7 DEF PropagateExit, ExitReaches, Issued
<1>8. CASE UNCHANGED tableVars
  BY <1>8 DEF tableVars, Issued
<1> HIDE DEF EntriesOK
<1>9. "Normal" \in Reasons /\ "Crashed" \in Reasons /\ "Killed" \in Reasons
  BY DEF Reasons
<1> QED
  BY <1>1, <1>2, <1>3, <1>4, <1>5, <1>6, <1>7, <1>8, <1>9
  DEF Next, vars, Spawn, SpawnLink, SpawnLinkBack, LinkFirst, LinkSecond,
      LinkUndo, UnlinkFirst, UnlinkSecond, Monitor, NotifyWatcher,
      BodyAborted

LEMMA LinksStep == TypeOK /\ [Next]_vars => LinksOK'
<1> SUFFICES ASSUME TypeOK, [Next]_vars PROVE LinksOK'
  OBVIOUS
<1>0. LinksOK /\ EntriesOK
  BY DEF TypeOK
<1>a. \A c \in Callers : call[c].op \in {"spawn_link", "link", "undo", "unlink"}
                         => call[c].a \in Pids /\ call[c].b \in Pids
  BY DEF TypeOK, CallsOK, Idle, Pending
<1>1. ASSUME NEW c \in Callers, NEW p \in Pids, SpawnLink(c, p) PROVE LinksOK'
  <2>1. nextId \in Pids
    BY <1>0, <1>1 DEF SpawnLink, Enter, Pids, EntriesOK
  <2> QED BY <1>0, <1>1, <2>1 DEF SpawnLink, Ties, LinksOK
<1>2. ASSUME NEW c \in Callers, SpawnLinkBack(c) PROVE LinksOK'
  BY <1>0, <1>a, <1>2 DEF SpawnLinkBack, history, LinksOK
<1>3. ASSUME NEW c \in Callers, NEW a \in Pids, NEW b \in Pids,
             LinkFirst(c, a, b) PROVE LinksOK'
  BY <1>0, <1>3 DEF LinkFirst, AddLink, Ties, LinksOK
<1>4. ASSUME NEW c \in Callers, LinkSecond(c) PROVE LinksOK'
  <2>1. links' \in [Pids -> [Pids -> Nat]]
    <3>1. PICK a, b \in Pids : links' = AddLink(b, a) \/ links' = links
      BY <1>a, <1>4 DEF LinkSecond
    <3> QED BY <1>0, <3>1 DEF AddLink, LinksOK
  <2>2. linked' \subseteq SUBSET Pids
    BY <1>0, <1>a, <1>4 DEF LinkSecond, LinksOK
  <2> QED BY <1>0, <1>4, <2>1, <2>2 DEF LinkSecond, LinksOK
<1>5. ASSUME NEW c \in Callers, LinkUndo(c) PROVE LinksOK'
  BY <1>0, <1>a, <1>5 DEF LinkUndo, RemoveLink, history, LinksOK
<1>6. ASSUME NEW c \in Callers, NEW a \in Pids, NEW b \in Pids,
             UnlinkFirst(c, a, b) PROVE LinksOK'
  BY <1>0, <1>6 DEF UnlinkFirst, RemoveLink, LinksOK
<1>7. ASSUME NEW c \in Callers, UnlinkSecond(c) PROVE LinksOK'
  BY <1>0, <1>a, <1>7 DEF UnlinkSecond, RemoveLink, Parts, LinksOK
<1>8. ASSUME NEW p \in Pids, NEW q \in Pids, PropagateExit(p, q) PROVE LinksOK'
  <2>1. links[p][q] - 1 \in Nat
    BY <1>0, <1>8 DEF PropagateExit, ExitReaches, LinksOK
  <2>2. [links EXCEPT ![p][q] = @ - 1] \in [Pids -> [Pids -> Nat]]
    BY <1>0, <2>1 DEF LinksOK
  <2>3. [links EXCEPT ![p][q] = @ - 1, ![q][p] = 0] \in [Pids -> [Pids -> Nat]]
    BY <2>2
  <2>4. links' \in [Pids -> [Pids -> Nat]]
    BY <1>8, <2>2, <2>3 DEF PropagateExit, ExitReaches
  <2> QED BY <1>0, <1>8, <2>4 DEF PropagateExit, ExitReaches, history, LinksOK
<1>9. CASE UNCHANGED <<links, linked, spawnLinked, tied, clean, unlinked>>
  BY <1>0, <1>9 DEF LinksOK
<1> QED
  BY <1>1, <1>2, <1>3, <1>4, <1>5, <1>6, <1>7, <1>8, <1>9
  DEF Next, vars, history, Spawn, Monitor, Kill, Exit, SetTrapExit, BodyEnds,
      BodyAborted, Remove, NotifyWatcher

LEMMA MonitorsStep == TypeOK /\ [Next]_vars => MonitorsOK'
<1> SUFFICES ASSUME MonitorsOK, [Next]_vars PROVE MonitorsOK'
  BY DEF TypeOK
<1>1. ASSUME NEW w \in Pids, NEW t \in Pids, Monitor(w, t) PROVE MonitorsOK'
  BY <1>1 DEF Monitor, MonitorsOK, Monitors
<1>2. ASSUME NEW p \in Pids, NotifyWatcher(p) PROVE MonitorsOK'
  BY <1>2 DEF NotifyWatcher, MonitorsOK, history
<1>3. CASE UNCHANGED <<nextRef, monitors, issued, late>>
  BY <1>3 DEF MonitorsOK
<1> QED
  BY <1>1, <1>2, <1>3
  DEF Next, vars, history, Spawn, SpawnLink, SpawnLinkBack, LinkFirst,
      LinkSecond, LinkUndo, UnlinkFirst, UnlinkSecond, Kill, Exit,
      SetTrapExit, BodyEnds, BodyAborted, Remove, PropagateExit, ExitReaches

LEMMA MailboxStep == TypeOK /\ [Next]_vars => MailboxOK'
<1> SUFFICES ASSUME TypeOK, [Next]_vars PROVE MailboxOK'
  OBVIOUS
<1>0. MailboxOK /\ MonitorsOK /\ EntriesOK
  BY DEF TypeOK
<1>1. ASSUME NEW w \in Pids, NEW t \in Pids, Monitor(w, t) PROVE MailboxOK'
  <2>1. Down(nextRef, t, "NoProc") \in Signals
    BY <1>0 DEF Down, Signals, Reasons, MonitorsOK
  <2> QED BY <1>0, <1>1, <2>1, DeliveredType DEF Monitor, MailboxOK
<1>2. ASSUME NEW p \in Pids, NotifyWatcher(p) PROVE MailboxOK'
  <2>1. PICK m \in monitors[p] :
          mailbox' = Delivered(m.watcher, Down(m.ref, p, reason[p]))
    BY <1>2 DEF NotifyWatcher
  <2>2. m \in Monitors
    BY <1>0 DEF MonitorsOK
  <2>3. Down(m.ref, p, reason[p]) \in Signals
    BY <1>0, <1>2, <2>2 DEF NotifyWatcher, Down, Signals, Monitors, EntriesOK
  <2> QED BY <1>0, <2>1, <2>2, <2>3, DeliveredType DEF MailboxOK, Monitors
<1>3. ASSUME NEW p \in Pids, NEW q \in Pids, PropagateExit(p, q)
      PROVE MailboxOK'
  <2>1. ExitSignal(p, reason[p]) \in Signals
    BY <1>0, <1>3 DEF PropagateExit, ExitReaches, ExitSignal, Signals, EntriesOK
  <2> QED BY <1>0, <1>3, <2>1, DeliveredType DEF PropagateExit, ExitReaches, MailboxOK
<1>4. CASE UNCHANGED mailbox
  BY <1>0, <1>4 DEF MailboxOK
<1> QED
  BY <1>1, <1>2, <1>3, <1>4
  DEF Next, vars, Spawn, SpawnLink, SpawnLinkBack, LinkFirst, LinkSecond,
      LinkUndo, UnlinkFirst, UnlinkSecond, Kill, Exit, SetTrapExit, BodyEnds,
      BodyAborted, Remove

LEMMA CallsStep == TypeOK /\ [Next]_vars => CallsOK'
<1> SUFFICES ASSUME TypeOK, [Next]_vars PROVE CallsOK'
  OBVIOUS
<1>0. CallsOK /\ EntriesOK
  BY DEF TypeOK
<1>a. ASSUME NEW op \in Ops, Called(op) PROVE calls' \in [Ops -> Nat]
  BY <1>0, <1>a DEF Called, CallsOK
<1>b. \A op \in {"spawn_link", "link", "unlink", "monitor", "kill", "exit",
                 "trap_exit"} : op \in Ops
  BY DEF Ops
<1>1. ASSUME NEW c \in Callers, NEW p \in Pids, SpawnLink(c, p) PROVE CallsOK'
  <2>1. nextId \in Pids
    BY <1>0, <1>1 DEF SpawnLink, Enter, Pids, EntriesOK
  <2> QED BY <1>0, <1>a, <1>b, <1>1, <2>1 DEF SpawnLink, CallsOK, Pending
<1>2. ASSUME NEW c \in Callers, Finish(c) PROVE CallsOK'
  BY <1>0, <1>2 DEF Finish, SpawnLinkBack, LinkSecond, LinkUndo, UnlinkSecond,
                    history, CallsOK, Idle, Pending, Pending
<1>3. ASSUME NEW c \in Callers, NEW a \in Pids, NEW b \in Pids,
             LinkFirst(c, a, b) \/ UnlinkFirst(c, a, b) PROVE CallsOK'
  BY <1>0, <1>a, <1>b, <1>3 DEF LinkFirst, UnlinkFirst, CallsOK, Pending
<1>4. ASSUME NEW p \in Pids, \/ Kill(p) \/ \E r \in ExitArgs : Exit(p, r)
                             \/ \E t \in BOOLEAN : SetTrapExit(p, t)
                             \/ \E t \in Pids : Monitor(p, t)
      PROVE CallsOK'
  BY <1>0, <1>a, <1>b, <1>4 DEF Kill, Exit, SetTrapExit, Monitor, history,
                                CallsOK
<1>5. CASE UNCHANGED <<call, calls, condemned>>
  BY <1>0, <1>5 DEF CallsOK
<1> QED
  BY <1>1, <1>2, <1>3, <1>4, <1>5
  DEF Next, vars, history, Spawn, Finish, BodyEnds, BodyAborted, Remove,
      NotifyWatcher, PropagateExit, ExitReaches

\* Type correctness of the process table.
THEOREM TypeCorrect == Spec => []TypeOK
<1>1. TypeOK /\ [Next]_vars => TypeOK'
  BY EntriesStep, LinksStep, MonitorsStep, MailboxStep, CallsStep DEF TypeOK
<1> QED BY TypeInit, <1>1, PTL DEF Spec

-----------------------------------------------------------------------------
(* Monitors.                                                               *)

\* What sending `item` to p does to the mailboxes, entry by entry.
LEMMA DeliveredEntries ==
  ASSUME MailboxOK, NEW p \in Pids, NEW item \in Signals,
         NEW after, after = Delivered(p, item)
  PROVE  /\ \A q \in Pids : \A i \in DOMAIN mailbox[q] :
              i \in DOMAIN after[q] /\ after[q][i] = mailbox[q][i]
         /\ \A q \in Pids : \A i \in DOMAIN after[q] :
              \/ i \in DOMAIN mailbox[q]
              \/ /\ q = p /\ phase[p] = "running"
                 /\ i = Len(mailbox[p]) + 1 /\ after[q][i] = item
         /\ Len(mailbox[p]) + 1 \notin DOMAIN mailbox[p]
         /\ phase[p] = "running" =>
              /\ Len(mailbox[p]) + 1 \in DOMAIN after[p]
              /\ after[p][Len(mailbox[p]) + 1] = item
<1>1. ASSUME NEW q \in Pids
      PROVE  mailbox[q] \in Seq(Signals) /\ DOMAIN mailbox[q] = 1 .. Len(mailbox[q])
             /\ Len(mailbox[q]) \in Nat
  BY DEF MailboxOK
<1>2. CASE phase[p] # "running"
  BY <1>1, <1>2 DEF Delivered
<1>3. CASE phase[p] = "running"
  <2>1. after = [mailbox EXCEPT ![p] = Append(@, item)]
    BY <1>3 DEF Delivered
  <2>2. \A q \in Pids : q # p => after[q] = mailbox[q]
    BY <2>1 DEF MailboxOK
  <2>3. after[p] = Append(mailbox[p], item)
    BY <2>1 DEF MailboxOK
  <2>4. /\ DOMAIN after[p] = 1 .. Len(mailbox[p]) + 1
        /\ \A i \in 1 .. Len(mailbox[p]) : after[p][i] = mailbox[p][i]
        /\ after[p][Len(mailbox[p]) + 1] = item
    BY <1>1, <2>3
  <2> QED BY <1>1, <1>3, <2>2, <2>4
<1> QED BY <1>2, <1>3

\* The references handed out so far are fresh and unique, and whatever is
\* armed or delivered was set up; the late ones are not armed.
RefsOK ==
  /\ \A m \in issued : m.ref < nextRef /\ Issued(m.watcher) /\ Issued(m.target)
  /\ \A m, n \in issued : m.ref = n.ref => m = n
  /\ \A t \in Pids : \A x \in monitors[t] :
       /\ [watcher |-> x.watcher, target |-> t, ref |-> x.ref] \in issued
       /\ x.ref \notin late
  /\ \A r \in late : r < nextRef
MonitorInv == RefsOK /\ DownsTrue /\ MonitorAccounted

LEMMA MonitorInit == Init => MonitorInv
BY DEF Init, MonitorInv, RefsOK, DownsTrue, MonitorAccounted, Pids

\* A new monitor: armed if its target is in the table, else answered.
LEMMA MonitorArms ==
  ASSUME TypeOK, MonitorInv, NEW w \in Pids, NEW t \in Pids, Monitor(w, t)
  PROVE  MonitorInv'
<1>0. PICK r \in Nat : r = nextRef
  BY DEF TypeOK, MonitorsOK
<1> DEFINE new == [watcher |-> w, target |-> t, ref |-> r]
           down == Down(r, t, "NoProc")
<1>1. EntriesOK /\ MonitorsOK /\ MailboxOK /\ RefsOK /\ DownsTrue
      /\ MonitorAccounted
  BY DEF TypeOK, MonitorInv
<1>2. /\ issued' = issued \cup {new} /\ nextRef' = r + 1
      /\ Issued(w) /\ Issued(t)
      /\ UNCHANGED <<phase, reason, nextId>>
  BY <1>0 DEF Monitor, tableVars
<1>3. \A m \in issued : m.ref # r
  BY <1>0, <1>1 DEF RefsOK, MonitorsOK
<1>l. /\ late' = IF InTable(t) THEN late ELSE late \cup {r}
      /\ r \notin late /\ late \subseteq Nat
  BY <1>0, <1>1 DEF Monitor, RefsOK, MonitorsOK
<1>4. \A p \in Pids : \A i \in DOMAIN mailbox[p] : ~Answers(p, i, r)
  BY <1>1, <1>3 DEF DownsTrue, Answers
<1>5. \A p \in Pids : \A x \in monitors[p] : x.ref # r
  BY <1>1, <1>3 DEF RefsOK
<1>6. \A m \in issued : m \in [watcher : Pids, target : Pids, ref : Nat]
  BY <1>1 DEF MonitorsOK
<1>7. CASE InTable(t)
  <2>1. /\ monitors' = [monitors EXCEPT ![t] =
                         @ \cup {[watcher |-> w, ref |-> r]}]
        /\ mailbox' = mailbox
    BY <1>0, <1>7 DEF Monitor
  <2>2. RefsOK'
    BY <1>0, <1>1, <1>2, <1>3, <1>l, <1>6, <1>7, <2>1 DEF RefsOK, MonitorsOK, Issued
  <2>3. DownsTrue'
    BY <1>1, <1>2, <1>l, <1>7, <2>1 DEF DownsTrue
  <2>4. ASSUME NEW m \in issued PROVE Armed(m)' <=> Armed(m)
    BY <1>1, <1>3, <1>6, <2>1, <2>4 DEF Armed, MonitorsOK
  <2>5. Armed(new)'
    BY <1>1, <2>1 DEF Armed, MonitorsOK
  <2>6. MonitorAccounted'
    BY <1>1, <1>2, <1>4, <2>1, <2>4, <2>5 DEF MonitorAccounted, Answers
  <2> QED BY <2>2, <2>3, <2>6 DEF MonitorInv
<1>8. CASE ~InTable(t)
  <2>1. mailbox' = Delivered(w, down) /\ monitors' = monitors
    BY <1>0, <1>8 DEF Monitor
  <2>2. down \in Signals
    BY <1>1 DEF Down, Signals, Reasons
  <2>e. /\ \A q \in Pids : \A i \in DOMAIN mailbox[q] :
             i \in DOMAIN mailbox'[q] /\ mailbox'[q][i] = mailbox[q][i]
        /\ \A q \in Pids : \A i \in DOMAIN mailbox'[q] :
             \/ i \in DOMAIN mailbox[q]
             \/ /\ q = w /\ i = Len(mailbox[w]) + 1 /\ mailbox'[q][i] = down
        /\ phase[w] = "running" =>
             /\ Len(mailbox[w]) + 1 \in DOMAIN mailbox'[w]
             /\ mailbox'[w][Len(mailbox[w]) + 1] = down
    <3> HIDE DEF down
    <3> QED BY <1>1, <2>1, <2>2, DeliveredEntries
  <2>3. phase[t] = "removed"
    BY <1>1, <1>2, <1>8 DEF EntriesOK, InTable
  <2>4. RefsOK'
    BY <1>0, <1>1, <1>2, <1>3, <1>l, <1>5, <1>6, <2>1 DEF RefsOK, MonitorsOK, Issued
  <2>5. DownsTrue'
    <3>1. SUFFICES ASSUME NEW p \in Pids, NEW i \in (DOMAIN mailbox[p])',
                          mailbox'[p][i].kind = "Down"
          PROVE  /\ [watcher |-> p, target |-> mailbox'[p][i].pid,
                     ref |-> mailbox'[p][i].ref] \in issued'
                 /\ phase[mailbox'[p][i].pid] = "removed"
                 /\ mailbox'[p][i].reason
                      = IF mailbox'[p][i].ref \in late'
                        THEN "NoProc" ELSE reason[mailbox'[p][i].pid]
      BY <1>2 DEF DownsTrue
    <3>2. CASE i \in DOMAIN mailbox[p]
      <4>1. mailbox'[p][i] = mailbox[p][i]
        BY <2>e, <3>2
      <4>2. mailbox[p][i].ref # r
        BY <1>4, <3>1, <3>2, <4>1 DEF Answers
      <4> QED BY <1>1, <1>2, <1>l, <3>1, <3>2, <4>1, <4>2 DEF DownsTrue
    <3>3. CASE p = w /\ mailbox'[p][i] = down
      BY <1>2, <1>l, <1>8, <2>3, <3>3 DEF Down
    <3> QED BY <2>e, <3>2, <3>3
  <2>6. ASSUME NEW m \in issued PROVE Armed(m)' <=> Armed(m)
    BY <2>1 DEF Armed
  <2>7. ~Armed(new)'
    BY <1>5, <2>1 DEF Armed
  <2>8. ASSUME NEW m \in issued, NEW i \in (DOMAIN mailbox[m.watcher])',
               Answers(m.watcher, i, m.ref)'
        PROVE  i \in DOMAIN mailbox[m.watcher] /\ Answers(m.watcher, i, m.ref)
    BY <1>3, <1>6, <2>e, <2>8 DEF Answers, Down
  <2>9. ASSUME NEW i \in (DOMAIN mailbox[w])', Answers(w, i, r)'
        PROVE  i = Len(mailbox[w]) + 1
    BY <1>4, <2>e, <2>9 DEF Answers
  <2>10. phase[w] = "running" =>
           \E i \in (DOMAIN mailbox[w])' : Answers(w, i, r)'
    BY <2>e DEF Answers, Down
  <2>11. ASSUME NEW m \in issued, NEW i \in DOMAIN mailbox[m.watcher],
                Answers(m.watcher, i, m.ref)
         PROVE  i \in (DOMAIN mailbox[m.watcher])' /\ Answers(m.watcher, i, m.ref)'
    BY <1>6, <2>e, <2>11 DEF Answers
  <2>12. MonitorAccounted'
    <3>1. SUFFICES ASSUME NEW m \in issued'
          PROVE  LET seen == (DOMAIN mailbox[m.watcher])' IN
            /\ \A i, j \in seen : Answers(m.watcher, i, m.ref)'
                                   /\ Answers(m.watcher, j, m.ref)' => i = j
            /\ Armed(m)' => \A i \in seen : ~Answers(m.watcher, i, m.ref)'
            /\ ~Armed(m)' /\ phase[m.watcher] = "running"
                 => \E i \in seen : Answers(m.watcher, i, m.ref)'
      BY <1>2 DEF MonitorAccounted
    <3>2. CASE m \in issued
      BY <1>1, <2>6, <2>8, <2>11, <3>2 DEF MonitorAccounted
    <3>3. CASE m = new
      <4>1. m.watcher = w /\ m.ref = r /\ ~Armed(m)'
        BY <2>7, <3>3
      <4> QED BY <1>2, <2>9, <2>10, <4>1
    <3> QED BY <1>2, <3>1, <3>2, <3>3
  <2> QED BY <2>4, <2>5, <2>12 DEF MonitorInv
<1> QED BY <1>7, <1>8

\* A watcher is told: its monitor goes from armed to answered.
LEMMA MonitorTells ==
  ASSUME TypeOK, MonitorInv, NEW p \in Pids, NotifyWatcher(p)
  PROVE  MonitorInv'
<1>1. EntriesOK /\ MonitorsOK /\ MailboxOK /\ RefsOK /\ DownsTrue
      /\ MonitorAccounted
  BY DEF TypeOK, MonitorInv
<1>2. PICK x \in monitors[p] :
        /\ monitors' = [monitors EXCEPT ![p] = @ \ {x}]
        /\ mailbox' = Delivered(x.watcher, Down(x.ref, p, reason[p]))
  BY DEF NotifyWatcher
<1>3. /\ phase[p] = "removed"
      /\ UNCHANGED <<phase, reason, nextId, nextRef, issued, late>>
  BY DEF NotifyWatcher, tableVars, history
<1>4. PICK w \in Pids, r \in Nat : x = [watcher |-> w, ref |-> r]
  BY <1>1 DEF MonitorsOK, Monitors
<1>5. PICK why \in Reasons : why = reason[p]
  BY <1>1, <1>3 DEF EntriesOK
<1> DEFINE m0 == [watcher |-> w, target |-> p, ref |-> r]
           down == Down(r, p, why)
<1>6. m0 \in issued /\ Armed(m0) /\ r \notin late
  BY <1>1, <1>4 DEF RefsOK, Armed
<1>7. \A m \in issued : m \in [watcher : Pids, target : Pids, ref : Nat]
                       /\ (m.ref = r => m = m0)
  BY <1>1, <1>6 DEF RefsOK, MonitorsOK
<1>8. /\ \A q \in Pids : \A i \in DOMAIN mailbox[q] :
           i \in DOMAIN mailbox'[q] /\ mailbox'[q][i] = mailbox[q][i]
      /\ \A q \in Pids : \A i \in DOMAIN mailbox'[q] :
           \/ i \in DOMAIN mailbox[q]
           \/ /\ q = w /\ i = Len(mailbox[w]) + 1 /\ mailbox'[q][i] = down
      /\ phase[w] = "running" =>
           /\ Len(mailbox[w]) + 1 \in DOMAIN mailbox'[w]
           /\ mailbox'[w][Len(mailbox[w]) + 1] = down
  <2>1. down \in Signals
    BY DEF Down, Signals
  <2>2. mailbox' = Delivered(w, down)
    BY <1>2, <1>4, <1>5
  <2> HIDE DEF down
  <2> QED BY <1>1, <2>1, <2>2, DeliveredEntries
<1>9. \A i \in DOMAIN mailbox[w] : ~Answers(w, i, r)
  <2>1. m0.watcher = w /\ m0.ref = r
    OBVIOUS
  <2> QED BY <1>1, <1>6, <2>1 DEF MonitorAccounted
<1>10. RefsOK'
  BY <1>1, <1>2, <1>3 DEF RefsOK, MonitorsOK, Issued
<1>11. DownsTrue'
  <2>1. SUFFICES ASSUME NEW q \in Pids, NEW i \in (DOMAIN mailbox[q])',
                        mailbox'[q][i].kind = "Down"
        PROVE  /\ [watcher |-> q, target |-> mailbox'[q][i].pid,
                   ref |-> mailbox'[q][i].ref] \in issued
               /\ phase[mailbox'[q][i].pid] = "removed"
               /\ mailbox'[q][i].reason
                    = IF mailbox'[q][i].ref \in late
                      THEN "NoProc" ELSE reason[mailbox'[q][i].pid]
    BY <1>3 DEF DownsTrue
  <2>2. CASE i \in DOMAIN mailbox[q]
    <3>1. mailbox'[q][i] = mailbox[q][i]
      BY <1>8, <2>2
    <3> QED BY <1>1, <2>1, <2>2, <3>1 DEF DownsTrue
  <2>3. CASE q = w /\ mailbox'[q][i] = down
    BY <1>3, <1>5, <1>6, <2>3 DEF Down
  <2> QED BY <1>8, <2>2, <2>3
<1>12. MonitorAccounted'
  <2>1. SUFFICES ASSUME NEW m \in issued
        PROVE  LET seen == (DOMAIN mailbox[m.watcher])' IN
          /\ \A i, j \in seen : Answers(m.watcher, i, m.ref)'
                                 /\ Answers(m.watcher, j, m.ref)' => i = j
          /\ Armed(m)' => \A i \in seen : ~Answers(m.watcher, i, m.ref)'
          /\ ~Armed(m)' /\ phase[m.watcher] = "running"
               => \E i \in seen : Answers(m.watcher, i, m.ref)'
    BY <1>3 DEF MonitorAccounted
  <2>2. CASE m.ref # r
    <3>1. Armed(m)' <=> Armed(m)
      BY <1>1, <1>2, <1>4, <1>7, <2>2 DEF Armed, MonitorsOK
    <3>2. ASSUME NEW i \in (DOMAIN mailbox[m.watcher])',
                 Answers(m.watcher, i, m.ref)'
          PROVE  i \in DOMAIN mailbox[m.watcher] /\ Answers(m.watcher, i, m.ref)
      BY <1>7, <1>8, <2>2, <3>2 DEF Answers, Down
    <3>3. ASSUME NEW i \in DOMAIN mailbox[m.watcher],
                 Answers(m.watcher, i, m.ref)
          PROVE  i \in (DOMAIN mailbox[m.watcher])'
                 /\ Answers(m.watcher, i, m.ref)'
      BY <1>7, <1>8, <3>3 DEF Answers
    <3> QED BY <1>1, <3>1, <3>2, <3>3 DEF MonitorAccounted
  <2>3. CASE m = m0
    <3>1. m.watcher = w /\ m.ref = r /\ ~Armed(m)'
      BY <1>1, <1>2, <1>4, <2>3 DEF Armed, MonitorsOK
    <3>2. ASSUME NEW i \in (DOMAIN mailbox[w])', Answers(w, i, r)'
          PROVE  i = Len(mailbox[w]) + 1
      BY <1>8, <1>9, <3>2 DEF Answers
    <3>3. phase[w] = "running" =>
            \E i \in (DOMAIN mailbox[w])' : Answers(w, i, r)'
      BY <1>8 DEF Answers, Down
    <3> QED BY <3>1, <3>2, <3>3
  <2> QED BY <1>7, <2>2, <2>3
<1> QED BY <1>10, <1>11, <1>12 DEF MonitorInv

\* A step that neither arms nor answers a monitor keeps the account: no issued
\* process starts to run, what is removed stays so, mailboxes only grow, and
\* not by a Down.
LEMMA MonitorKeeps ==
  ASSUME TypeOK, MonitorInv, UNCHANGED <<issued, late, monitors, nextRef>>,
         \A p \in Pids : Issued(p) =>
           /\ Issued(p)' /\ (phase'[p] = "running" => phase[p] = "running")
           /\ (phase[p] = "removed" => /\ phase'[p] = "removed"
                                       /\ reason'[p] = reason[p]),
         \A p \in Pids : \A i \in DOMAIN mailbox[p] :
           i \in DOMAIN mailbox'[p] /\ mailbox'[p][i] = mailbox[p][i],
         \A p \in Pids : \A i \in DOMAIN mailbox'[p] :
           i \in DOMAIN mailbox[p] \/ mailbox'[p][i].kind # "Down"
  PROVE  MonitorInv'
<1>1. MonitorsOK /\ RefsOK /\ DownsTrue /\ MonitorAccounted
  BY DEF TypeOK, MonitorInv
<1>2. \A m \in issued : m.watcher \in Pids /\ m.target \in Pids
  BY <1>1 DEF MonitorsOK
<1>3. RefsOK'
  BY <1>1, <1>2 DEF RefsOK
<1>4. DownsTrue'
  <2>1. SUFFICES ASSUME NEW p \in Pids, NEW i \in (DOMAIN mailbox[p])',
                        mailbox'[p][i].kind = "Down"
        PROVE  /\ [watcher |-> p, target |-> mailbox'[p][i].pid,
                   ref |-> mailbox'[p][i].ref] \in issued
               /\ phase'[mailbox'[p][i].pid] = "removed"
               /\ mailbox'[p][i].reason
                    = IF mailbox'[p][i].ref \in late
                      THEN "NoProc" ELSE reason'[mailbox'[p][i].pid]
    BY DEF DownsTrue
  <2>2. i \in DOMAIN mailbox[p] /\ mailbox'[p][i] = mailbox[p][i]
    BY <2>1
  <2>3. PICK down : down = mailbox[p][i]
    OBVIOUS
  <2>4. /\ [watcher |-> p, target |-> down.pid, ref |-> down.ref] \in issued
        /\ phase[down.pid] = "removed"
        /\ down.reason = IF down.ref \in late THEN "NoProc" ELSE reason[down.pid]
    BY <1>1, <2>1, <2>2, <2>3 DEF DownsTrue
  <2>5. down.pid \in Pids /\ Issued(down.pid)
    BY <1>1, <1>2, <2>4 DEF RefsOK
  <2> QED BY <2>2, <2>3, <2>4, <2>5
<1>5. MonitorAccounted'
  <2>1. SUFFICES ASSUME NEW m \in issued
        PROVE  LET seen == (DOMAIN mailbox[m.watcher])' IN
          /\ \A i, j \in seen : Answers(m.watcher, i, m.ref)'
                                 /\ Answers(m.watcher, j, m.ref)' => i = j
          /\ Armed(m)' => \A i \in seen : ~Answers(m.watcher, i, m.ref)'
          /\ ~Armed(m)' /\ phase'[m.watcher] = "running"
               => \E i \in seen : Answers(m.watcher, i, m.ref)'
    BY DEF MonitorAccounted
  <2>2. Armed(m)' <=> Armed(m)
    BY DEF Armed
  <2>3. ASSUME NEW i \in (DOMAIN mailbox[m.watcher])',
               Answers(m.watcher, i, m.ref)'
        PROVE  i \in DOMAIN mailbox[m.watcher] /\ Answers(m.watcher, i, m.ref)
    BY <1>2, <2>3 DEF Answers
  <2>4. ASSUME NEW i \in DOMAIN mailbox[m.watcher], Answers(m.watcher, i, m.ref)
        PROVE  i \in (DOMAIN mailbox[m.watcher])' /\ Answers(m.watcher, i, m.ref)'
    BY <1>2, <2>4 DEF Answers
  <2>5. Issued(m.watcher)
    BY <1>1 DEF RefsOK
  <2> QED BY <1>1, <1>2, <2>2, <2>3, <2>4, <2>5 DEF MonitorAccounted
<1> QED BY <1>3, <1>4, <1>5 DEF MonitorInv

LEMMA MonitorStep == TypeOK /\ MonitorInv /\ [Next]_vars => MonitorInv'
<1> SUFFICES ASSUME TypeOK, MonitorInv, [Next]_vars PROVE MonitorInv'
  OBVIOUS
<1>1. ASSUME NEW w \in Pids, NEW t \in Pids, Monitor(w, t) PROVE MonitorInv'
  BY <1>1, MonitorArms
<1>2. ASSUME NEW p \in Pids, NotifyWatcher(p) PROVE MonitorInv'
  BY <1>2, MonitorTells
<1>3. ASSUME NEW p \in Pids, NEW q \in Pids, PropagateExit(p, q)
      PROVE MonitorInv'
  <2>1. /\ UNCHANGED <<issued, late, monitors, nextRef, phase, reason, nextId>>
        /\ \/ mailbox' = mailbox
           \/ mailbox' = Delivered(q, ExitSignal(p, reason[p]))
    BY <1>3 DEF PropagateExit, ExitReaches, history
  <2>2. ExitSignal(p, reason[p]) \in Signals
        /\ ExitSignal(p, reason[p]).kind # "Down"
    BY <1>3 DEF PropagateExit, ExitReaches, ExitSignal, Signals, TypeOK, EntriesOK
  <2>3. /\ \A r \in Pids : \A i \in DOMAIN mailbox[r] :
             i \in DOMAIN mailbox'[r] /\ mailbox'[r][i] = mailbox[r][i]
        /\ \A r \in Pids : \A i \in DOMAIN mailbox'[r] :
             i \in DOMAIN mailbox[r] \/ mailbox'[r][i].kind # "Down"
    BY <2>1, <2>2, DeliveredEntries DEF TypeOK
  <2> QED BY <2>1, <2>3, MonitorKeeps DEF Issued
<1>4. CASE Enter /\ UNCHANGED <<issued, late, monitors, nextRef, mailbox, reason>>
  <2>1. \A p \in Pids : Issued(p) => Issued(p)' /\ phase'[p] = phase[p]
    BY <1>4 DEF Enter, Issued, Pids, TypeOK, EntriesOK
  <2> QED BY <1>4, <2>1, MonitorKeeps
<1>5. ASSUME NEW p \in Pids,
             Remove(p) \/ \E o \in Reasons : BodyEnds(p, o)
      PROVE MonitorInv'
  <2>1. UNCHANGED <<issued, late, monitors, nextRef, mailbox, nextId>>
    BY <1>5 DEF Remove, BodyEnds, history
  <2>2. \A q \in Pids :
          /\ phase'[q] = "running" => phase[q] = "running"
          /\ phase[q] = "removed" => phase'[q] = "removed"
                                     /\ reason'[q] = reason[q]
    BY <1>5 DEF Remove, BodyEnds, TypeOK, EntriesOK
  <2> QED BY <2>1, <2>2, MonitorKeeps DEF Issued
<1>6. CASE UNCHANGED <<issued, late, monitors, nextRef, mailbox, nextId, phase, reason>>
  BY <1>6, MonitorKeeps DEF Issued
<1>7. "Normal" \in Reasons /\ "Crashed" \in Reasons /\ "Killed" \in Reasons
  BY DEF Reasons
<1> QED
  BY <1>1, <1>2, <1>3, <1>4, <1>5, <1>6, <1>7
  DEF Next, vars, tableVars, history, Spawn, SpawnLink, SpawnLinkBack,
      LinkFirst, LinkSecond, LinkUndo, UnlinkFirst, UnlinkSecond, Kill, Exit,
      SetTrapExit, BodyAborted

\* Monitors are accounted for in every run: none is lost, whatever it races.
THEOREM MonitorsAccountedFor == Spec => []MonitorAccounted
<1>1. MonitorInv => MonitorAccounted
  BY DEF MonitorInv
<1> QED BY MonitorInit, MonitorStep, TypeCorrect, <1>1, PTL DEF Spec

\* The reason told is the last one staged: what is staged for a process that
\* is out of the table stays, since a call or a cascade stages only in it.
LEMMA LastStagedStep == TypeOK /\ LastStaged /\ [Next]_vars => LastStaged'
<1> SUFFICES ASSUME TypeOK, LastStaged, [Next]_vars PROVE LastStaged'
  OBVIOUS
<1>1. EntriesOK
  BY DEF TypeOK
<1>2. ASSUME NEW p \in Pids, NEW r \in ExitArgs, Exit(p, r) PROVE LastStaged'
  BY <1>1, <1>2 DEF Exit, InTable, EntriesOK, LastStaged
<1>3. ASSUME NEW p \in Pids, NEW q \in Pids, PropagateExit(p, q)
      PROVE LastStaged'
  <2>1. /\ phase' = phase /\ reason' = reason
        /\ staged' = staged \/ (InTable(q) /\ staged' = [staged EXCEPT ![q] = reason[p]])
    BY <1>3 DEF PropagateExit, ExitReaches
  <2> QED BY <1>1, <2>1 DEF InTable, EntriesOK, LastStaged
<1>4. ASSUME NEW p \in Pids, Remove(p) PROVE LastStaged'
  BY <1>1, <1>4 DEF Remove, EntriesOK, LastStaged
<1>5. ASSUME NEW p \in Pids, NEW o \in Reasons, BodyEnds(p, o)
      PROVE LastStaged'
  BY <1>1, <1>5 DEF BodyEnds, EntriesOK, LastStaged
<1>6. CASE Enter /\ UNCHANGED <<staged, reason>>
  BY <1>1, <1>6 DEF Enter, Pids, EntriesOK, LastStaged
<1>7. CASE UNCHANGED <<phase, staged, reason>>
  BY <1>7 DEF LastStaged
<1>8. "Normal" \in Reasons /\ "Crashed" \in Reasons /\ "Killed" \in Reasons
  BY DEF Reasons
<1> QED
  BY <1>2, <1>3, <1>4, <1>5, <1>6, <1>7, <1>8
  DEF Next, vars, tableVars, history, Spawn, SpawnLink, SpawnLinkBack,
      LinkFirst, LinkSecond, LinkUndo, UnlinkFirst, UnlinkSecond, Monitor,
      Kill, SetTrapExit, BodyAborted, NotifyWatcher

\* No mailbox ever holds a Down that nobody asked for, of a process that has
\* not gone, or with another reason than the last one staged in time.
THEOREM DownsAreTruthful == Spec => []DownTruthful
<1>1. Init => LastStaged
  BY DEF Init, LastStaged
<1>2. TypeOK /\ MonitorInv /\ LastStaged => DownTruthful
  BY DEF MonitorInv, DownTruthful
<1> QED
  BY MonitorInit, MonitorStep, LastStagedStep, TypeCorrect, <1>1, <1>2, PTL DEF Spec

-----------------------------------------------------------------------------
(* Links.                                                                  *)

\* What a's side of a link to b amounts to: b is in a's list, or else b is
\* gone, or a is gone and has let b share its fate if it had to.
Bound(a, b) ==
  \/ links[a][b] # 0
  \/ phase[b] = "removed"
  \/ phase[a] = "removed" /\ (Abnormal(reason[a]) => Shared(b, a))

\* Both sides are bound once a link or spawn_link has recorded both, its first
\* side while it runs, unless the pair is being unlinked; a link is undone only
\* for the sake of a peer that is gone.
CallInv(c) ==
  \A a, b \in Pids :
    /\ call[c] = Pending("link", a, b) =>
         /\ Issued(a) /\ Issued(b)
         /\ {a, b} \notin unlinked => Bound(a, b)
    /\ call[c] = Pending("spawn_link", a, b) =>
         /\ Issued(a) /\ Issued(b)
         /\ {a, b} \notin unlinked => Bound(b, a)
    /\ call[c] = Pending("undo", a, b) =>
         Issued(a) /\ Issued(b) /\ phase[b] = "removed"
    /\ call[c] = Pending("unlink", a, b) => {a, b} \in unlinked
LinkInv ==
  /\ \A pair \in linked : \A p \in pair : Issued(p)
  /\ \A a, b \in Pids : {a, b} \in linked \ unlinked => Bound(a, b)
  /\ \A c \in Callers : CallInv(c)

LEMMA LinkInit == Init => LinkInv
BY DEF Init, LinkInv, CallInv, Idle, Pending

\* What has happened to a process stays so from step to step.
LEMMA SharedStable ==
  ASSUME TypeOK, [Next]_vars, NEW a \in Pids, NEW b \in Pids, Issued(b)
  PROVE  /\ Issued(b)'
         /\ phase[b] = "removed" => phase'[b] = "removed" /\ reason'[b] = reason[b]
         /\ Shared(b, a) => Shared(b, a)'
<1>1. EntriesOK /\ MonitorsOK /\ MailboxOK
  BY DEF TypeOK
<1>2. Issued(b)' /\ (phase'[b] = "running" => phase[b] = "running")
      /\ (phase[b] = "removed" => phase'[b] = "removed" /\ reason'[b] = reason[b])
  <2>1. CASE Enter /\ UNCHANGED reason
    BY <1>1, <2>1 DEF Enter, Issued, Pids, EntriesOK
  <2>2. ASSUME NEW p \in Pids, Remove(p) \/ \E o \in Reasons : BodyEnds(p, o)
        PROVE  <1>2!:
    BY <1>1, <2>2 DEF Remove, BodyEnds, Issued, EntriesOK
  <2>3. CASE UNCHANGED <<nextId, phase, reason>>
    BY <2>3 DEF Issued
  <2>4. "Normal" \in Reasons /\ "Crashed" \in Reasons /\ "Killed" \in Reasons
    BY DEF Reasons
  <2> QED
    BY <2>1, <2>2, <2>3, <2>4
    DEF Next, vars, tableVars, history, Spawn, SpawnLink, SpawnLinkBack,
        LinkFirst, LinkSecond, LinkUndo, UnlinkFirst, UnlinkSecond, Monitor,
        Kill, Exit, SetTrapExit, BodyAborted, NotifyWatcher, PropagateExit, ExitReaches
<1>3. aborted[b] => aborted'[b]
  <2>1. \/ aborted' = aborted
        \/ \E p \in Pids : aborted' = [aborted EXCEPT ![p] = TRUE]
    BY DEF Next, vars, tableVars, history, Spawn, Enter, SpawnLink,
       SpawnLinkBack, LinkFirst, LinkSecond, LinkUndo, UnlinkFirst,
       UnlinkSecond, Monitor, Kill, Exit, SetTrapExit, BodyAborted, BodyEnds,
       Remove, NotifyWatcher, PropagateExit, ExitReaches
  <2> QED BY <1>1, <2>1 DEF EntriesOK
<1>4. \A i \in DOMAIN mailbox[b] :
        i \in DOMAIN mailbox'[b] /\ mailbox'[b][i] = mailbox[b][i]
  <2>1. ASSUME NEW w \in Pids, NEW item \in Signals,
               mailbox' = Delivered(w, item)
        PROVE  <1>4!:
    BY <1>1, <2>1, DeliveredEntries
  <2>2. ASSUME NEW w \in Pids, NEW t \in Pids, Monitor(w, t) PROVE <1>4!:
    <3>1. Down(nextRef, t, "NoProc") \in Signals
      BY <1>1 DEF Down, Signals, Reasons, MonitorsOK
    <3> QED BY <2>1, <2>2, <3>1 DEF Monitor
  <2>3. ASSUME NEW p \in Pids, NotifyWatcher(p) PROVE <1>4!:
    <3>1. PICK m \in monitors[p] :
            mailbox' = Delivered(m.watcher, Down(m.ref, p, reason[p]))
      BY <2>3 DEF NotifyWatcher
    <3>2. m.watcher \in Pids /\ Down(m.ref, p, reason[p]) \in Signals
      BY <1>1, <2>3 DEF NotifyWatcher, Down, Signals, Monitors, MonitorsOK,
                        EntriesOK
    <3> QED BY <2>1, <3>1, <3>2
  <2>4. ASSUME NEW p \in Pids, NEW q \in Pids, PropagateExit(p, q)
        PROVE  <1>4!:
    <3>1. ExitSignal(p, reason[p]) \in Signals
      BY <1>1, <2>4 DEF PropagateExit, ExitReaches, ExitSignal, Signals, EntriesOK
    <3> QED BY <2>1, <2>4, <3>1 DEF PropagateExit, ExitReaches
  <2>5. CASE UNCHANGED mailbox
    BY <2>5
  <2> QED
    BY <2>2, <2>3, <2>4, <2>5
    DEF Next, vars, Spawn, SpawnLink, SpawnLinkBack, LinkFirst, LinkSecond,
        LinkUndo, UnlinkFirst, UnlinkSecond, Kill, Exit, SetTrapExit,
        BodyEnds, BodyAborted, Remove
<1>5. Told(b, a) => Told(b, a)'
  BY <1>4 DEF Told
<1> QED BY <1>2, <1>3, <1>5 DEF Shared

\* A bound side stays bound if the step does not take b out of a's list, or
\* had one of the excuses for it.
LEMMA BoundStable ==
  ASSUME TypeOK, [Next]_vars, NEW a \in Pids, NEW b \in Pids, Issued(b),
         Bound(a, b), Issued(a),
         \/ links[a][b] # 0 => links'[a][b] # 0
         \/ phase[b] = "removed"
         \/ phase[a] = "removed" /\ (Abnormal(reason[a]) => Shared(b, a)')
  PROVE  Bound(a, b)'
<1>1. phase[a] = "removed" => phase'[a] = "removed" /\ reason'[a] = reason[a]
  BY SharedStable
<1>2. phase[b] = "removed" => phase'[b] = "removed"
  BY SharedStable
<1>3. Shared(b, a) => Shared(b, a)'
  BY SharedStable
<1> QED BY <1>1, <1>2, <1>3 DEF Bound

\* A step that at most returns from calls and leaves the history of links
\* alone keeps LinkInv if every bound side stays bound.
LEMMA LinkKeeps ==
  ASSUME TypeOK, LinkInv, [Next]_vars, UNCHANGED <<linked, unlinked>>,
         \A c \in Callers : call'[c] = call[c] \/ call'[c] = Idle,
         \A a, b \in Pids :
           Issued(a) /\ Issued(b) /\ {a, b} \notin unlinked /\ Bound(a, b)
             => Bound(a, b)'
  PROVE  LinkInv'
<1>1. \A p \in Pids : Issued(p) =>
        Issued(p)' /\ (phase[p] = "removed" => phase'[p] = "removed")
  BY SharedStable
<1>2. \A a, b \in Pids : {a, b} \in linked => Issued(a) /\ Issued(b)
  BY DEF LinkInv
<1>3. \A pair \in linked : \A p \in pair : p \in Pids /\ Issued(p)
  BY DEF TypeOK, LinksOK, LinkInv
<1>4. ASSUME NEW c \in Callers PROVE CallInv(c)'
  <2>1. CallInv(c)
    BY DEF LinkInv
  <2>2. CASE call'[c] = call[c]
    BY <1>1, <2>1, <2>2 DEF CallInv
  <2>3. CASE call'[c] = Idle
    BY <2>3 DEF CallInv, Idle, Pending
  <2> QED BY <2>2, <2>3
<1> QED BY <1>1, <1>2, <1>3, <1>4 DEF LinkInv

LEMMA LinkStep == TypeOK /\ LinkInv /\ [Next]_vars => LinkInv'
<1> SUFFICES ASSUME TypeOK, LinkInv, [Next]_vars PROVE LinkInv'
  OBVIOUS
<1>1. EntriesOK /\ LinksOK /\ CallsOK
  BY DEF TypeOK
<1>2. \A p \in Pids : Issued(p) =>
        Issued(p)' /\ (phase[p] = "removed" => phase'[p] = "removed")
  BY SharedStable
<1>3. \A p \in Pids : Issued(p) /\ ~InTable(p) => phase[p] = "removed"
  BY <1>1 DEF EntriesOK, InTable
<1>4. \A a, b \in Pids : {a, b} \in linked => Issued(a) /\ Issued(b)
  BY DEF LinkInv
<1>5. \A pair \in linked : \A p \in pair : p \in Pids /\ Issued(p)
  BY <1>1 DEF LinksOK, LinkInv
<1>6. ASSUME NEW c \in Callers, call[c].op \in {"spawn_link", "link", "undo", "unlink"}
      PROVE \E a, b \in Pids : call[c] = Pending(call[c].op, a, b)
  BY <1>1, <1>6 DEF CallsOK, Idle, Pending
<1>8. ASSUME NEW a \in Pids, NEW b \in Pids, Issued(a), Issued(b),
             Bound(a, b), links[a][b] # 0 => links'[a][b] # 0
      PROVE  Bound(a, b)'
  BY <1>8, BoundStable
<1>9. ASSUME \A a, b \in Pids : links[a][b] # 0 => links'[a][b] # 0,
             \A c \in Callers : call'[c] = call[c] \/ call'[c] = Idle,
             UNCHANGED <<linked, unlinked>>
      PROVE  LinkInv'
  BY <1>8, <1>9, LinkKeeps
<1>7. ASSUME NEW c \in Callers, NEW a \in Pids, NEW b \in Pids,
             LinkSecond(c), call[c] = Pending("link", a, b) PROVE LinkInv'
  <2>1. /\ Issued(a) /\ Issued(b) /\ unlinked' = unlinked
        /\ {a, b} \notin unlinked => Bound(a, b)
    BY <1>7 DEF LinkSecond, LinkInv, CallInv
  <2>2. call[c].a = a /\ call[c].b = b
    BY <1>7 DEF Pending
  <2>3. \A x, y \in Pids : links[x][y] # 0 => links'[x][y] # 0
    BY <1>1, <1>7, <2>2 DEF LinkSecond, AddLink, LinksOK
  <2>4. \A x, y \in Pids : {x, y} \in linked \ unlinked => Bound(x, y)'
    BY <1>4, <1>8, <2>3 DEF LinkInv
  <2>5. {a, b} \notin unlinked => Bound(a, b)'
    BY <1>8, <2>1, <2>3
  <2>6. ASSUME NEW d \in Callers, d # c PROVE CallInv(d)'
    <3>1. call'[d] = call[d]
      BY <1>1, <1>7, <2>6 DEF LinkSecond, CallsOK
    <3>2. CallInv(d)
      BY DEF LinkInv
    <3> QED BY <1>2, <1>8, <2>1, <2>3, <3>1, <3>2 DEF CallInv
  <2>7. CASE InTable(b)
    <3>1. /\ links' = AddLink(b, a) /\ linked' = linked \cup {{a, b}}
          /\ call'[c] = Idle
      BY <1>1, <1>7, <2>2, <2>7 DEF LinkSecond, CallsOK
    <3>2. Bound(b, a)'
      BY <1>1, <3>1 DEF AddLink, LinksOK, Bound
    <3>3. \A x, y \in Pids : {x, y} \in linked' \ unlinked => Bound(x, y)'
      <4>1. SUFFICES ASSUME NEW x \in Pids, NEW y \in Pids, {x, y} = {a, b},
                            {x, y} \notin unlinked
            PROVE  Bound(x, y)'
        BY <2>4, <3>1
      <4>2. (x = a /\ y = b) \/ (x = b /\ y = a)
        BY <4>1
      <4> QED BY <2>5, <3>2, <4>1, <4>2
    <3>4. \A pair \in linked' : \A p \in pair : Issued(p)'
      BY <1>2, <1>5, <2>1, <3>1
    <3>5. CallInv(c)'
      BY <3>1 DEF CallInv, Idle, Pending
    <3> QED BY <2>1, <2>6, <3>3, <3>4, <3>5 DEF LinkInv
  <2>8. CASE ~InTable(b)
    <3>1. linked' = linked /\ call'[c] = Pending("undo", a, b)
      BY <1>1, <1>7, <2>2, <2>8 DEF LinkSecond, CallsOK
    <3>2. phase'[b] = "removed" /\ Issued(a)' /\ Issued(b)'
      BY <1>2, <1>3, <2>1, <2>8
    <3>3. CallInv(c)'
      BY <3>1, <3>2 DEF CallInv, Pending
    <3>4. \A pair \in linked' : \A p \in pair : Issued(p)'
      BY <1>2, <1>5, <3>1
    <3> QED BY <2>1, <2>4, <2>6, <3>1, <3>3, <3>4 DEF LinkInv
  <2> QED BY <2>7, <2>8
<1>10. ASSUME NEW c \in Callers, NEW p \in Pids, SpawnLink(c, p) PROVE LinkInv'
  <2>1. \A a, b \in Pids : links[a][b] # 0 => links'[a][b] # 0
    BY <1>1, <1>10 DEF SpawnLink, LinksOK
  <2>2. UNCHANGED <<linked, unlinked>> /\ call'[c] = Pending("spawn_link", p, nextId)
        /\ \A d \in Callers : d # c => call'[d] = call[d]
    BY <1>1, <1>10 DEF SpawnLink, CallsOK
  <2>3. \A a, b \in Pids : {a, b} \in linked \ unlinked => Bound(a, b)'
    BY <1>4, <1>8, <2>1 DEF LinkInv
  <2>4. ASSUME NEW d \in Callers PROVE CallInv(d)'
    <3>1. CASE d = c
      <4>1. PICK k \in Pids : k = nextId /\ nextId' = k + 1 /\ Issued(p)
        BY <1>1, <1>10 DEF SpawnLink, Enter, Pids, EntriesOK
      <4>2. Issued(p)' /\ Issued(k)'
        BY <1>2, <4>1 DEF Issued, Pids
      <4>3. links'[k][p] # 0
        BY <1>1, <1>10, <4>1 DEF SpawnLink, LinksOK
      <4>4. \A a, b \in Pids : call'[d] = Pending("spawn_link", a, b)
                                => a = p /\ b = k
        BY <2>2, <3>1, <4>1 DEF Pending
      <4>5. \A a, b \in Pids : \A op \in {"link", "undo", "unlink"} :
              call'[d] # Pending(op, a, b)
        BY <2>2, <3>1 DEF Pending
      <4> QED BY <4>2, <4>3, <4>4, <4>5 DEF CallInv, Bound
    <3>2. CASE d # c
      <4>1. CallInv(d) /\ call'[d] = call[d]
        BY <2>2, <3>2 DEF LinkInv
      <4> QED BY <1>2, <1>8, <2>1, <2>2, <4>1 DEF CallInv
    <3> QED BY <3>1, <3>2
  <2> QED BY <1>2, <1>5, <2>2, <2>3, <2>4 DEF LinkInv
<1>11. ASSUME NEW c \in Callers, NEW a \in Pids, NEW b \in Pids,
              LinkFirst(c, a, b) PROVE LinkInv'
  <2>1. \A x, y \in Pids : links[x][y] # 0 => links'[x][y] # 0
    BY <1>1, <1>11 DEF LinkFirst, AddLink, LinksOK
  <2>2. /\ UNCHANGED <<linked, unlinked>> /\ call'[c] = Pending("link", a, b)
        /\ \A d \in Callers : d # c => call'[d] = call[d]
        /\ Issued(a) /\ Issued(b)
    BY <1>1, <1>11 DEF LinkFirst, CallsOK
  <2>3. \A x, y \in Pids : {x, y} \in linked \ unlinked => Bound(x, y)'
    BY <1>4, <1>8, <2>1 DEF LinkInv
  <2>4. Bound(a, b)'
    BY <1>1, <1>11 DEF LinkFirst, AddLink, LinksOK, Bound
  <2>5. ASSUME NEW d \in Callers PROVE CallInv(d)'
    <3>1. CASE d = c
      BY <1>2, <2>2, <2>4, <3>1 DEF CallInv, Pending
    <3>2. CASE d # c
      <4>1. CallInv(d) /\ call'[d] = call[d]
        BY <2>2, <3>2 DEF LinkInv
      <4> QED BY <1>2, <1>8, <2>1, <2>2, <4>1 DEF CallInv
    <3> QED BY <3>1, <3>2
  <2> QED BY <1>2, <1>5, <2>2, <2>3, <2>5 DEF LinkInv
<1>12. ASSUME NEW c \in Callers, LinkSecond(c) PROVE LinkInv'
  BY <1>6, <1>7, <1>12 DEF LinkSecond
<1>13. ASSUME NEW c \in Callers, SpawnLinkBack(c) PROVE LinkInv'
  <2>1. PICK a, b \in Pids : call[c] = Pending("spawn_link", a, b)
    BY <1>6, <1>13 DEF SpawnLinkBack
  <2>2. \A x, y \in Pids : links[x][y] # 0 => links'[x][y] # 0
    BY <1>1, <1>13, <2>1 DEF SpawnLinkBack, LinksOK, Pending
  <2>3. \A d \in Callers : call'[d] = call[d] \/ call'[d] = Idle
    BY <1>1, <1>13 DEF SpawnLinkBack, CallsOK
  <2>4. CASE ~InTable(a)
    <3>1. UNCHANGED <<linked, unlinked>>
      BY <1>13, <2>1, <2>4 DEF SpawnLinkBack, Pending
    <3> QED BY <1>9, <2>2, <2>3, <3>1
  <2>5. CASE InTable(a)
    <3>1. /\ links' = [links EXCEPT ![a][b] = @ + 1]
          /\ linked' = linked \cup {{a, b}} /\ unlinked' = unlinked
      BY <1>13, <2>1, <2>5 DEF SpawnLinkBack, Pending
    <3>2. /\ Issued(a) /\ Issued(b)
          /\ {a, b} \notin unlinked => Bound(b, a)
      BY <2>1 DEF LinkInv, CallInv
    <3>3. {a, b} \notin unlinked => Bound(b, a)'
      BY <1>8, <2>2, <3>2
    <3>4. Bound(a, b)'
      <4>1. links[a][b] + 1 # 0
        BY <1>1 DEF LinksOK
      <4>2. links'[a][b] = links[a][b] + 1
        BY <1>1, <3>1 DEF LinksOK
      <4> QED BY <4>1, <4>2 DEF Bound
    <3>5. \A x, y \in Pids : {x, y} \in linked \ unlinked => Bound(x, y)'
      BY <1>4, <1>8, <2>2 DEF LinkInv
    <3>6. \A x, y \in Pids : {x, y} \in linked' \ unlinked' => Bound(x, y)'
      <4>1. SUFFICES ASSUME NEW x \in Pids, NEW y \in Pids, {x, y} = {a, b},
                            {x, y} \notin unlinked
            PROVE  Bound(x, y)'
        BY <3>1, <3>5
      <4>2. (x = a /\ y = b) \/ (x = b /\ y = a)
        BY <4>1
      <4> QED BY <3>3, <3>4, <4>1, <4>2
    <3>7. \A pair \in linked' : \A p \in pair : Issued(p)'
      BY <1>2, <1>5, <3>1, <3>2
    <3>8. ASSUME NEW d \in Callers PROVE CallInv(d)'
      <4>1. CallInv(d)
        BY DEF LinkInv
      <4>2. CASE call'[d] = call[d]
        BY <1>2, <1>8, <2>2, <3>1, <4>1, <4>2 DEF CallInv
      <4>3. CASE call'[d] = Idle
        BY <4>3 DEF CallInv, Idle, Pending
      <4> QED BY <2>3, <4>2, <4>3
    <3> QED BY <3>6, <3>7, <3>8 DEF LinkInv
  <2> QED BY <2>4, <2>5
<1>14. ASSUME NEW c \in Callers, LinkUndo(c) PROVE LinkInv'
  <2>1. PICK a, b \in Pids : call[c] = Pending("undo", a, b)
    BY <1>6, <1>14 DEF LinkUndo
  <2>2. phase[b] = "removed" /\ call[c].a = a /\ call[c].b = b
    <3>1. CallInv(c)
      BY DEF LinkInv
    <3>2. phase[b] = "removed"
      BY <2>1, <3>1 DEF CallInv
    <3> QED BY <2>1, <3>2 DEF Pending
  <2>3. \A x, y \in Pids : (links[x][y] # 0 => links'[x][y] # 0) \/ y = b
    BY <1>1, <1>14, <2>2 DEF LinkUndo, RemoveLink, LinksOK
  <2>4. \A d \in Callers : call'[d] = call[d] \/ call'[d] = Idle
    BY <1>1, <1>14 DEF LinkUndo, CallsOK
  <2>5. \A x, y \in Pids : Issued(x) /\ Issued(y) /\ Bound(x, y) => Bound(x, y)'
    BY <2>2, <2>3, BoundStable
  <2> QED BY <1>14, <2>4, <2>5, LinkKeeps DEF LinkUndo, history
<1>15. ASSUME NEW c \in Callers, UnlinkSecond(c) PROVE LinkInv'
  <2>1. PICK a, b \in Pids : call[c] = Pending("unlink", a, b)
    BY <1>6, <1>15 DEF UnlinkSecond
  <2>2. {a, b} \in unlinked /\ call[c].a = a /\ call[c].b = b
    <3>1. CallInv(c)
      BY DEF LinkInv
    <3>2. {a, b} \in unlinked
      BY <2>1, <3>1 DEF CallInv
    <3> QED BY <2>1, <3>2 DEF Pending
  <2>3. \A x, y \in Pids :
          (links[x][y] # 0 => links'[x][y] # 0) \/ {x, y} \in unlinked
    BY <1>1, <1>15, <2>2 DEF UnlinkSecond, RemoveLink, LinksOK
  <2>4. \A d \in Callers : call'[d] = call[d] \/ call'[d] = Idle
    BY <1>1, <1>15 DEF UnlinkSecond, CallsOK
  <2>5. \A x, y \in Pids :
          Issued(x) /\ Issued(y) /\ {x, y} \notin unlinked /\ Bound(x, y)
            => Bound(x, y)'
    BY <1>8, <2>3
  <2> QED BY <1>15, <2>4, <2>5, LinkKeeps DEF UnlinkSecond, history
<1>16. ASSUME NEW c \in Callers, NEW a \in Pids, NEW b \in Pids,
              UnlinkFirst(c, a, b) PROVE LinkInv'
  <2>1. /\ linked' = linked /\ unlinked' = unlinked \cup {{a, b}}
        /\ call'[c] = Pending("unlink", a, b)
        /\ \A d \in Callers : d # c => call'[d] = call[d]
    BY <1>1, <1>16 DEF UnlinkFirst, CallsOK
  <2>2. \A x, y \in Pids : \/ links[x][y] # 0 => links'[x][y] # 0
                           \/ {x, y} \in unlinked'
    BY <1>1, <1>16 DEF UnlinkFirst, RemoveLink, LinksOK
  <2>3. \A x, y \in Pids :
          Issued(x) /\ Issued(y) /\ {x, y} \notin unlinked' /\ Bound(x, y)
            => Bound(x, y)'
    BY <1>8, <2>2
  <2>4. \A x, y \in Pids : {x, y} \in linked' \ unlinked' => Bound(x, y)'
    BY <1>4, <2>1, <2>3 DEF LinkInv
  <2>5. ASSUME NEW d \in Callers PROVE CallInv(d)'
    <3>1. CASE d = c
      BY <2>1, <3>1 DEF CallInv, Pending
    <3>2. CASE d # c
      <4>1. CallInv(d) /\ call'[d] = call[d]
        BY <2>1, <3>2 DEF LinkInv
      <4> QED BY <1>2, <2>1, <2>3, <4>1 DEF CallInv
    <3> QED BY <3>1, <3>2
  <2> QED BY <1>2, <1>5, <2>1, <2>4, <2>5 DEF LinkInv
<1>17. ASSUME NEW p \in Pids, NEW q \in Pids, PropagateExit(p, q)
       PROVE LinkInv'
  <2>1. phase[p] = "removed" /\ UNCHANGED <<linked, unlinked, call, phase, reason>>
    BY <1>17 DEF PropagateExit, ExitReaches, history
  <2>2. \A x, y \in Pids : \/ links[x][y] # 0 => links'[x][y] # 0
                           \/ x = p /\ y = q
                           \/ x = q /\ y = p
    BY <1>1, <1>17 DEF PropagateExit, ExitReaches, LinksOK
  <2>3. Issued(q) => phase[q] = "removed" \/ (Abnormal(reason[p]) => Shared(q, p)')
    <3>1. CASE ~InTable(q)
      BY <1>3, <3>1
    <3>2. CASE phase[q] = "ended"
      BY <2>1, <3>2 DEF Shared
    <3>3. CASE phase[q] = "running" /\ trap[q]
      <4>1. ExitSignal(p, reason[p]) \in Signals
        BY <1>1, <1>17 DEF PropagateExit, ExitReaches, ExitSignal, Signals, EntriesOK
      <4>2. mailbox' = Delivered(q, ExitSignal(p, reason[p]))
        BY <1>17, <3>3 DEF PropagateExit, ExitReaches, InTable
      <4>3. \E i \in DOMAIN mailbox'[q] : mailbox'[q][i] = ExitSignal(p, reason[p])
        BY <3>3, <4>1, <4>2, DeliveredEntries DEF TypeOK
      <4> QED BY <4>3 DEF Shared, Told, ExitSignal
    <3>4. CASE phase[q] = "running" /\ ~trap[q]
      <4>1. Abnormal(reason[p]) => aborted'[q]
        BY <1>1, <1>17, <3>4 DEF PropagateExit, ExitReaches, InTable, EntriesOK
      <4> QED BY <4>1 DEF Shared
    <3> QED BY <3>1, <3>2, <3>3, <3>4 DEF InTable
  <2>4. \A x, y \in Pids : Issued(x) /\ Issued(y) /\ Bound(x, y) => Bound(x, y)'
    BY <2>1, <2>2, <2>3, BoundStable
  <2> QED BY <2>1, <2>4, LinkKeeps
<1>18. CASE UNCHANGED <<links, linked, unlinked, call>>
  BY <1>9, <1>18
<1> QED
  BY <1>10, <1>11, <1>12, <1>13, <1>14, <1>15, <1>16, <1>17, <1>18
  DEF Next, vars, history, Spawn, Monitor, Kill, Exit, SetTrapExit, BodyEnds,
      BodyAborted, Remove, NotifyWatcher

\* Linked processes share their fate in every run.
THEOREM LinkedProcessesShareFate == Spec => []LinkedSharedFate
<1>1. TypeOK /\ LinkInv => LinkedSharedFate
  BY DEF TypeOK, LinksOK, LinkInv, Bound, LinkedSharedFate, Shared
<1> QED BY LinkInit, LinkStep, TypeCorrect, <1>1, PTL DEF Spec

-----------------------------------------------------------------------------
(* Isolation.                                                              *)

\* The caller c is between the two steps of an unlink of a and b.
Parting(c, a, b) ==
  call[c] = Pending("unlink", a, b) /\ links[a][b] = 0 /\ ~Linking(a, b)

\* A list names only peers that are tied: some call asked for it, and while an
\* unlink that met nothing linking the pair runs, its first side stays empty.
TiedInv ==
  /\ \A p, q \in Pids : links[p][q] # 0 => {p, q} \in tied
  /\ \A c \in Callers : call[c].op \in {"spawn_link", "link"}
                           => {call[c].a, call[c].b} \in tied
  /\ \A c \in clean : \E a, b \in Pids : Parting(c, a, b)

LEMMA TiedInit == Init => TiedInv
BY DEF Init, TiedInv, Idle, Pending

\* A step that links nothing and begins no call keeps TiedInv.
LEMMA TiedKeeps ==
  ASSUME TypeOK, TiedInv, tied' = tied, clean' \subseteq clean,
         \A p, q \in Pids : links'[p][q] # 0 => links[p][q] # 0,
         \A c \in Callers : \/ call'[c] = call[c]
                            \/ c \notin clean' /\ call'[c].op \notin {"spawn_link", "link"}
  PROVE  TiedInv'
<1>1. clean \subseteq Callers /\ links \in [Pids -> [Pids -> Nat]]
  BY DEF TypeOK, LinksOK
<1>2. \A p, q \in Pids : links'[p][q] # 0 => {p, q} \in tied'
  BY DEF TiedInv
<1>3. \A c \in Callers : call'[c].op \in {"spawn_link", "link"}
                           => {call'[c].a, call'[c].b} \in tied'
  BY DEF TiedInv
<1>4. ASSUME NEW c \in clean' PROVE \E a, b \in Pids : Parting(c, a, b)'
  <2>1. c \in clean /\ c \in Callers /\ call'[c] = call[c]
    BY <1>1, <1>4
  <2>2. PICK a, b \in Pids : Parting(c, a, b)
    BY <2>1 DEF TiedInv
  <2>3. links'[a][b] = 0
    BY <2>2 DEF Parting
  <2>4. ~Linking(a, b)'
    BY <2>2 DEF Linking, Parting
  <2>5. Parting(c, a, b)'
    BY <2>1, <2>2, <2>3, <2>4 DEF Parting
  <2> QED BY <2>5
<1> QED BY <1>2, <1>3, <1>4 DEF TiedInv

LEMMA TiedStep == TypeOK /\ TiedInv /\ [Next]_vars => TiedInv'
<1> SUFFICES ASSUME TypeOK, TiedInv, [Next]_vars PROVE TiedInv'
  OBVIOUS
<1>1. EntriesOK /\ LinksOK /\ CallsOK
  BY DEF TypeOK
<1>2. ASSUME NEW c \in Callers, call[c].op # "idle"
      PROVE  call[c].a \in Pids /\ call[c].b \in Pids
  BY <1>1, <1>2 DEF CallsOK, Idle, Pending
\* A call begins that ties a and b.
<1>3. ASSUME NEW c \in Callers, NEW a \in Pids, NEW b \in Pids,
             NEW op \in {"spawn_link", "link"},
             Ties(a, b), call[c] = Idle,
             call' = [call EXCEPT ![c] = Pending(op, a, b)],
             \A p, q \in Pids : {p, q} # {a, b} => links'[p][q] = links[p][q]
      PROVE  TiedInv'
  <2>1. tied' = tied \cup {{a, b}}
    BY <1>3 DEF Ties
  <2>2. call'[c] = Pending(op, a, b) /\ \A d \in Callers : d # c => call'[d] = call[d]
    BY <1>1, <1>3 DEF CallsOK
  <2>3. \A p, q \in Pids : links'[p][q] # 0 => {p, q} \in tied'
    <3>1. SUFFICES ASSUME NEW p \in Pids, NEW q \in Pids, links'[p][q] # 0,
                          {p, q} # {a, b}
          PROVE  {p, q} \in tied
      BY <2>1
    <3> QED BY <1>3, <3>1 DEF TiedInv
  <2>4. \A d \in Callers : call'[d].op \in {"spawn_link", "link"}
                             => {call'[d].a, call'[d].b} \in tied'
    <3>1. call'[c].a = a /\ call'[c].b = b
      BY <2>2 DEF Pending
    <3>2. \A d \in Callers : d # c => (call'[d].op \in {"spawn_link", "link"}
                                        => {call'[d].a, call'[d].b} \in tied')
      BY <2>1, <2>2 DEF TiedInv
    <3> QED BY <2>1, <3>1, <3>2
  <2>5. ASSUME NEW d \in clean' PROVE \E x, y \in Pids : Parting(d, x, y)'
    <3>1. d \in clean /\ d \in Callers /\ {call[d].a, call[d].b} # {a, b}
      BY <1>1, <1>3, <2>5 DEF Ties, LinksOK
    <3>2. PICK x, y \in Pids : Parting(d, x, y)
      BY <3>1 DEF TiedInv
    <3>3. d # c
      BY <1>3, <3>2 DEF Idle, Pending, Parting
    <3>4. call'[d] = call[d] /\ {x, y} # {a, b}
      BY <2>2, <3>1, <3>2, <3>3 DEF Parting, Pending
    <3>5. links'[x][y] = 0
      BY <1>3, <3>2, <3>4 DEF Parting
    <3>6. ~Linking(x, y)'
      BY <2>2, <3>2, <3>4 DEF Linking, Pending, Parting
    <3>7. Parting(d, x, y)'
      BY <3>2, <3>4, <3>5, <3>6 DEF Parting
    <3> QED BY <3>7
  <2> QED BY <2>3, <2>4, <2>5 DEF TiedInv
<1>4. ASSUME NEW c \in Callers, NEW p \in Pids, SpawnLink(c, p) PROVE TiedInv'
  <2>1. nextId \in Pids
    BY <1>1, <1>4 DEF SpawnLink, Enter, Pids, EntriesOK
  <2>2. /\ Ties(p, nextId) /\ call[c] = Idle
        /\ call' = [call EXCEPT ![c] = Pending("spawn_link", p, nextId)]
        /\ links' = [links EXCEPT ![nextId][p] = 1]
    BY <1>4 DEF SpawnLink
  <2>3. \A x, y \in Pids : {x, y} # {p, nextId} => links'[x][y] = links[x][y]
    BY <1>1, <2>2 DEF LinksOK
  <2>4. PICK b \in Pids : b = nextId
    BY <2>1
  <2> QED BY <1>3, <2>2, <2>3, <2>4
<1>5. ASSUME NEW c \in Callers, NEW a \in Pids, NEW b \in Pids,
             LinkFirst(c, a, b) PROVE TiedInv'
  <2>1. /\ Ties(a, b) /\ call[c] = Idle
        /\ call' = [call EXCEPT ![c] = Pending("link", a, b)]
        /\ links' = AddLink(a, b)
    BY <1>5 DEF LinkFirst
  <2>2. \A x, y \in Pids : {x, y} # {a, b} => links'[x][y] = links[x][y]
    BY <1>1, <2>1 DEF AddLink, LinksOK
  <2> QED BY <1>3, <2>1, <2>2
\* The second half of a call that links: the pair is tied, and no unlink of
\* it is clean.
<1>6. ASSUME NEW c \in Callers, SpawnLinkBack(c) \/ LinkSecond(c) PROVE TiedInv'
  <2>1. PICK a, b \in Pids : call[c].a = a /\ call[c].b = b
    BY <1>2, <1>6 DEF SpawnLinkBack, LinkSecond
  <2>2. call[c].op \in {"spawn_link", "link"} /\ {a, b} \in tied
        /\ tied' = tied /\ clean' = clean
    BY <1>6, <2>1 DEF SpawnLinkBack, LinkSecond, TiedInv
  <2>3. \A p, q \in Pids : links'[p][q] = links[p][q] \/ {p, q} = {a, b}
    BY <1>1, <1>6, <2>1 DEF SpawnLinkBack, LinkSecond, AddLink, LinksOK
  <2>4. /\ call'[c].op \notin {"spawn_link", "link"}
        /\ \A d \in Callers : d # c => call'[d] = call[d]
    BY <1>1, <1>6 DEF SpawnLinkBack, LinkSecond, CallsOK, Idle, Pending
  <2>5. \A p, q \in Pids : links'[p][q] # 0 => {p, q} \in tied'
    BY <2>2, <2>3 DEF TiedInv
  <2>6. \A d \in Callers : call'[d].op \in {"spawn_link", "link"}
                             => {call'[d].a, call'[d].b} \in tied'
    BY <2>2, <2>4 DEF TiedInv
  <2>7. ASSUME NEW d \in clean' PROVE \E x, y \in Pids : Parting(d, x, y)'
    <3>1. d \in clean /\ d \in Callers
      BY <1>1, <2>2, <2>7 DEF LinksOK
    <3>2. PICK x, y \in Pids : Parting(d, x, y)
      BY <3>1 DEF TiedInv
    <3>3. d # c /\ call'[d] = call[d]
      BY <2>2, <2>4, <3>1, <3>2 DEF Parting, Pending
    <3>4. {x, y} # {a, b}
      BY <2>1, <2>2, <3>2 DEF Linking, Parting
    <3>5. links'[x][y] = 0
      BY <2>3, <3>2, <3>4 DEF Parting
    <3>6. ~Linking(x, y)'
      BY <2>4, <3>2 DEF Linking, Parting
    <3>7. Parting(d, x, y)'
      BY <3>2, <3>3, <3>5, <3>6 DEF Parting
    <3> QED BY <3>7
  <2> QED BY <2>5, <2>6, <2>7 DEF TiedInv
<1>7. ASSUME NEW c \in Callers, LinkUndo(c) PROVE TiedInv'
  <2>1. PICK a, b \in Pids : links' = RemoveLink(a, b)
    BY <1>2, <1>7 DEF LinkUndo
  <2>2. \A p, q \in Pids : links'[p][q] # 0 => links[p][q] # 0
    BY <1>1, <2>1 DEF RemoveLink, LinksOK
  <2>3. c \notin clean
    <3>1. call[c].op = "undo"
      BY <1>7 DEF LinkUndo
    <3>2. \A x, y : call[c] # Pending("unlink", x, y)
      BY <3>1 DEF Pending
    <3> QED BY <3>2 DEF TiedInv, Parting
  <2>4. tied' = tied /\ clean' = clean
    BY <1>7 DEF LinkUndo, history
  <2>5. \A d \in Callers : \/ call'[d] = call[d]
                           \/ d \notin clean' /\ call'[d].op \notin {"spawn_link", "link"}
    BY <1>1, <1>7, <2>3, <2>4 DEF LinkUndo, CallsOK, Idle, Pending
  <2> QED BY <2>2, <2>4, <2>5, TiedKeeps
<1>8. ASSUME NEW c \in Callers, NEW a \in Pids, NEW b \in Pids,
             UnlinkFirst(c, a, b) PROVE TiedInv'
  <2>1. /\ call[c] = Idle /\ call' = [call EXCEPT ![c] = Pending("unlink", a, b)]
        /\ links' = RemoveLink(a, b) /\ tied' = tied
        /\ clean' = IF InTable(a) /\ ~Linking(a, b) THEN clean \cup {c} ELSE clean
    BY <1>8 DEF UnlinkFirst
  <2>2. call'[c] = Pending("unlink", a, b) /\ \A d \in Callers : d # c => call'[d] = call[d]
    BY <1>1, <2>1 DEF CallsOK
  <2>3. \A p, q \in Pids : links'[p][q] # 0 => links[p][q] # 0
    BY <1>1, <2>1 DEF RemoveLink, LinksOK
  <2>4. \A p, q \in Pids : links'[p][q] # 0 => {p, q} \in tied'
    BY <2>1, <2>3 DEF TiedInv
  <2>5. \A d \in Callers : call'[d].op \in {"spawn_link", "link"}
                             => d # c /\ call'[d] = call[d]
    BY <2>2 DEF Pending
  <2>6. \A d \in Callers : call'[d].op \in {"spawn_link", "link"}
                             => {call'[d].a, call'[d].b} \in tied'
    <3>1. \A d \in Callers : call'[d].op \in {"spawn_link", "link"}
                               => {call[d].a, call[d].b} \in tied
      BY <2>5 DEF TiedInv
    <3> QED BY <2>1, <2>5, <3>1
  <2>7. \A x, y : ~Linking(x, y) => ~Linking(x, y)'
    BY <2>5 DEF Linking
  <2>8. ASSUME NEW d \in clean' PROVE \E x, y \in Pids : Parting(d, x, y)'
    <3>1. CASE d = c /\ InTable(a) /\ ~Linking(a, b)
      <4>1. links'[a][b] = 0
        BY <1>1, <2>1, <3>1 DEF RemoveLink, LinksOK
      <4>2. ~Linking(a, b)'
        BY <2>7, <3>1
      <4>3. Parting(d, a, b)'
        BY <2>2, <3>1, <4>1, <4>2 DEF Parting
      <4> QED BY <4>3
    <3>2. CASE d \in clean
      <4>1. d \in Callers
        BY <1>1, <3>2 DEF LinksOK
      <4>2. PICK x, y \in Pids : Parting(d, x, y)
        BY <3>2 DEF TiedInv
      <4>3. call'[d] = call[d]
        BY <2>1, <2>2, <4>1, <4>2 DEF Idle, Pending, Parting
      <4>4. links'[x][y] = 0
        BY <2>3, <4>2 DEF Parting
      <4>5. ~Linking(x, y)'
        BY <2>7, <4>2 DEF Parting
      <4>6. Parting(d, x, y)'
        BY <4>2, <4>3, <4>4, <4>5 DEF Parting
      <4> QED BY <4>6
    <3> QED BY <2>1, <2>8, <3>1, <3>2
  <2> QED BY <2>4, <2>6, <2>8 DEF TiedInv
\* Once a clean unlink is over, neither side names the other.
<1>9. ASSUME NEW c \in Callers, UnlinkSecond(c) PROVE TiedInv'
  <2>1. PICK a, b \in Pids : call[c].a = a /\ call[c].b = b
    BY <1>2, <1>9 DEF UnlinkSecond
  <2>2. /\ links' = RemoveLink(b, a)
        /\ tied' = IF c \in clean /\ InTable(b) THEN tied \ {{a, b}} ELSE tied
        /\ clean' = clean \ {c}
    BY <1>9, <2>1 DEF UnlinkSecond, Parts
  <2>3. \A p, q \in Pids : links'[p][q] # 0 => links[p][q] # 0
    BY <1>1, <2>2 DEF RemoveLink, LinksOK
  <2>4. call'[c] = Idle /\ \A d \in Callers : d # c => call'[d] = call[d]
    BY <1>1, <1>9 DEF UnlinkSecond, CallsOK
  <2>5. CASE ~(c \in clean /\ InTable(b))
    <3>1. tied' = tied /\ clean' \subseteq clean /\ c \notin clean'
      BY <2>2, <2>5
    <3>2. \A d \in Callers : \/ call'[d] = call[d]
                             \/ d \notin clean' /\ call'[d].op \notin {"spawn_link", "link"}
      BY <2>4, <3>1 DEF Idle, Pending
    <3> QED BY <2>3, <3>1, <3>2, TiedKeeps
  <2>6. CASE c \in clean /\ InTable(b)
    <3>1. links[a][b] = 0 /\ ~Linking(a, b)
      <4>1. PICK x, y \in Pids : Parting(c, x, y)
        BY <2>6 DEF TiedInv
      <4>2. x = a /\ y = b
        BY <2>1, <4>1 DEF Parting, Pending
      <4> QED BY <4>1, <4>2 DEF Parting
    <3>2. links'[b][a] = 0 /\ links'[a][b] = 0
      BY <1>1, <2>2, <2>3, <2>6, <3>1 DEF RemoveLink, LinksOK
    <3>3. \A p, q \in Pids : links'[p][q] # 0 => {p, q} \in tied'
      <4>1. SUFFICES ASSUME NEW p \in Pids, NEW q \in Pids, links'[p][q] # 0
            PROVE  {p, q} \in tied'
        OBVIOUS
      <4>2. {p, q} \in tied
        BY <2>3, <4>1 DEF TiedInv
      <4>3. {p, q} # {a, b}
        BY <3>2, <4>1
      <4> QED BY <2>2, <2>6, <4>2, <4>3
    <3>4. \A d \in Callers : call'[d].op \in {"spawn_link", "link"}
                               => d # c /\ call'[d] = call[d]
      BY <2>4 DEF Idle, Pending
    <3>5. \A d \in Callers : call'[d].op \in {"spawn_link", "link"}
                               => {call'[d].a, call'[d].b} \in tied'
      BY <2>2, <2>6, <3>1, <3>4 DEF TiedInv, Linking
    <3>6. \A x, y : ~Linking(x, y) => ~Linking(x, y)'
      BY <3>4 DEF Linking
    <3>7. ASSUME NEW d \in clean' PROVE \E x, y \in Pids : Parting(d, x, y)'
      <4>1. d \in clean /\ d # c /\ d \in Callers
        BY <1>1, <2>2, <3>7 DEF LinksOK
      <4>2. PICK x, y \in Pids : Parting(d, x, y)
        BY <4>1 DEF TiedInv
      <4>3. call'[d] = call[d]
        BY <2>4, <4>1
      <4>4. links'[x][y] = 0
        BY <2>3, <4>2 DEF Parting
      <4>5. ~Linking(x, y)'
        BY <3>6, <4>2 DEF Parting
      <4>6. Parting(d, x, y)'
        BY <4>2, <4>3, <4>4, <4>5 DEF Parting
      <4> QED BY <4>6
    <3> QED BY <3>3, <3>5, <3>7 DEF TiedInv
  <2> QED BY <2>5, <2>6
<1>10. ASSUME NEW p \in Pids, NEW q \in Pids, PropagateExit(p, q) PROVE TiedInv'
  <2>1. \A x, y \in Pids : links'[x][y] # 0 => links[x][y] # 0
    BY <1>1, <1>10 DEF PropagateExit, ExitReaches, LinksOK
  <2>2. UNCHANGED <<tied, clean, call>>
    BY <1>10 DEF PropagateExit, ExitReaches, history
  <2> QED BY <2>1, <2>2, TiedKeeps
<1>11. CASE UNCHANGED <<links, tied, clean, call>>
  BY <1>11, TiedKeeps
<1> QED
  BY <1>4, <1>5, <1>6, <1>7, <1>8, <1>9, <1>10, <1>11
  DEF Next, vars, tableVars, history, Spawn, Monitor, Kill, Exit, SetTrapExit, BodyEnds,
      BodyAborted, Remove, NotifyWatcher

\* Only a cascade stops a process nobody killed, or tells it of an end, and it
\* takes its way from the list of the process that ended.
LEMMA CascadeStep == TypeOK /\ TiedInv /\ [Next]_vars => [StepAlongLinks]_vars
<1> SUFFICES ASSUME TypeOK, TiedInv, [Next]_vars PROVE StepAlongLinks
  OBVIOUS
<1>1. EntriesOK /\ LinksOK /\ MonitorsOK /\ MailboxOK
  BY DEF TypeOK
<1>2. ASSUME NEW p \in Pids, NEW q \in Pids, PropagateExit(p, q)
      PROVE  /\ phase[p] = "removed" /\ {q, p} \in tied
             /\ \A r \in Pids : aborted'[r] # aborted[r] => r = q /\ Abnormal(reason[p])
             /\ \A r, x \in Pids : ~Told(r, x) /\ Told(r, x)' => r = q /\ x = p
  <2>1. links[p][q] # 0 /\ phase[p] = "removed"
    BY <1>1, <1>2 DEF PropagateExit, ExitReaches, LinksOK
  <2>2. {q, p} \in tied
    <3>1. {p, q} = {q, p}
      OBVIOUS
    <3> QED BY <2>1, <3>1 DEF TiedInv
  <2>3. \A r \in Pids : aborted'[r] # aborted[r] => r = q /\ Abnormal(reason[p])
    BY <1>1, <1>2 DEF PropagateExit, ExitReaches, EntriesOK
  <2>4. ExitSignal(p, reason[p]) \in Signals
    BY <1>1, <2>1 DEF ExitSignal, Signals, EntriesOK
  <2>5. mailbox' = mailbox \/ mailbox' = Delivered(q, ExitSignal(p, reason[p]))
    BY <1>2 DEF PropagateExit, ExitReaches
  <2>6. \A r \in Pids : \A i \in DOMAIN mailbox'[r] :
          \/ i \in DOMAIN mailbox[r] /\ mailbox'[r][i] = mailbox[r][i]
          \/ r = q /\ mailbox'[r][i] = ExitSignal(p, reason[p])
    BY <1>1, <2>4, <2>5, DeliveredEntries
  <2>7. \A r, x \in Pids : ~Told(r, x) /\ Told(r, x)' => r = q /\ x = p
    BY <2>6 DEF Told, ExitSignal
  <2> QED BY <2>1, <2>2, <2>3, <2>7
<1>3. ASSUME NEW w \in Pids, NEW ref \in Nat, NEW t \in Pids, NEW r \in Reasons,
             mailbox' = Delivered(w, Down(ref, t, r))
      PROVE  \A p, q \in Pids : Told(p, q)' => Told(p, q)
  <2>1. Down(ref, t, r) \in Signals
    BY DEF Down, Signals
  <2>2. \A p \in Pids : \A i \in DOMAIN mailbox'[p] :
          \/ i \in DOMAIN mailbox[p] /\ mailbox'[p][i] = mailbox[p][i]
          \/ mailbox'[p][i] = Down(ref, t, r)
    BY <1>1, <1>3, <2>1, DeliveredEntries
  <2> QED BY <2>2 DEF Told, Down
<1>4. \/ \E p, q \in Pids : PropagateExit(p, q)
      \/ \A p, q \in Pids : Told(p, q)' => Told(p, q)
  <2>1. ASSUME NEW w \in Pids, NEW t \in Pids, Monitor(w, t)
        PROVE  \A p, q \in Pids : Told(p, q)' => Told(p, q)
    <3>1. nextRef \in Nat /\ "NoProc" \in Reasons
      BY <1>1 DEF MonitorsOK, Reasons
    <3>2. mailbox' = mailbox \/ mailbox' = Delivered(w, Down(nextRef, t, "NoProc"))
      BY <2>1 DEF Monitor
    <3> QED BY <1>3, <3>1, <3>2 DEF Told
  <2>2. ASSUME NEW p \in Pids, NotifyWatcher(p)
        PROVE  \A x, y \in Pids : Told(x, y)' => Told(x, y)
    <3>1. PICK m \in monitors[p] :
            mailbox' = Delivered(m.watcher, Down(m.ref, p, reason[p]))
      BY <2>2 DEF NotifyWatcher
    <3>2. m.watcher \in Pids /\ m.ref \in Nat
      BY <1>1 DEF MonitorsOK, Monitors
    <3>3. reason[p] \in Reasons
      BY <1>1, <2>2 DEF NotifyWatcher, EntriesOK
    <3> QED BY <1>3, <3>1, <3>2, <3>3
  <2>3. CASE UNCHANGED mailbox
    BY <2>3 DEF Told
  <2> QED
    BY <2>1, <2>2, <2>3
    DEF Next, vars, Spawn, SpawnLink, SpawnLinkBack, LinkFirst, LinkSecond,
        LinkUndo, UnlinkFirst, UnlinkSecond, Kill, Exit, SetTrapExit, BodyEnds,
        BodyAborted, Remove
<1>5. \/ \E p, q \in Pids : PropagateExit(p, q)
      \/ \A p \in Pids : ~aborted[p] /\ aborted'[p] => p \in condemned'
  <2>1. ASSUME NEW r \in Pids, Kill(r) \/ \E how \in ExitArgs : Exit(r, how)
        PROVE  \A p \in Pids : ~aborted[p] /\ aborted'[p] => p \in condemned'
    <3>1. condemned' = condemned \cup {r} /\ aborted' = [aborted EXCEPT ![r] = TRUE]
      BY <2>1 DEF Kill, Exit
    <3> QED BY <1>1, <3>1 DEF EntriesOK
  <2>2. CASE UNCHANGED aborted
    BY <2>2
  <2> QED
    BY <2>1, <2>2
    DEF Next, vars, tableVars, Spawn, Enter, SpawnLink, SpawnLinkBack, LinkFirst,
        LinkSecond, LinkUndo, UnlinkFirst, UnlinkSecond, Monitor, SetTrapExit,
        BodyEnds, BodyAborted, Remove, NotifyWatcher
<1>6. ASSUME NEW p \in Pids, NEW q \in Pids, PropagateExit(p, q)
      PROVE  StepAlongLinks
  BY <1>2, <1>6 DEF StepAlongLinks
<1> QED BY <1>4, <1>5, <1>6 DEF StepAlongLinks

\* In every run a process nobody killed is stopped, or told of an end, only
\* along its links, and not along one that an unlink has taken away.
THEOREM ExitsCascadeOnlyAlongLinks == Spec => CascadeOnlyAlongLinks
<1>1. Spec => [](TypeOK /\ TiedInv)
  BY TiedInit, TiedStep, TypeCorrect, PTL DEF Spec
<1> QED BY CascadeStep, <1>1, PTL DEF Spec, CascadeOnlyAlongLinks

=============================================================================
