---------------------------- MODULE ProcessTable ----------------------------
(***************************************************************************)
(* The process table of rusm-otp (runtime.rs): spawn, spawn_link, link,    *)
(* unlink, monitor, kill, exit, set_trap_exit, and the teardown of a       *)
(* process with its fan-out to monitors and links.                         *)
(*                                                                         *)
(* One action is one critical section: every table operation of the code   *)
(* holds the lock of a single DashMap entry, and nothing holds two.  A     *)
(* call that locks twice (link, unlink, spawn_link) is two actions of one  *)
(* caller, so that any other operation may fall between them.              *)
(*                                                                         *)
(* Bodies are abstract: one returns or panics at any time, and one whose   *)
(* abort flag is set may be stopped at its next suspension point.  A body  *)
(* keeps its Context until it ends.  The mailbox here is the log of the    *)
(* system signals that entered it; receiving is the subject of Mailbox.    *)
(***************************************************************************)
EXTENDS Naturals, Sequences

CONSTANTS
  Callers,       \* threads and processes that call the runtime
  ExitArgs,      \* the reasons callers pass to exit()
  MaxProcs,      \* bound on the processes ever spawned
  Budget         \* Budget[op]: bound on the calls of each other operation

Ops == {"spawn_link", "link", "unlink", "monitor", "kill", "exit", "trap_exit"}
Reasons == {"Normal", "Killed", "Crashed", "NoProc"}

ASSUME BoundsAssumption ==
  /\ MaxProcs \in Nat
  /\ Budget \in [Ops -> Nat]
ASSUME ExitArgsAssumption == ExitArgs \subseteq Reasons

VARIABLES
  nextId,      \* Inner.next_id: the pid the next spawn takes
  nextRef,     \* Inner.next_ref
  phase,       \* phase[p]: unborn, running, ended (body dropped), removed
  aborted,     \* the flag of p's AbortHandle
  trap,        \* ProcessEntry.trap_exit
  staged,      \* ProcessEntry.exit_reason
  reason,      \* how p's body ended, then the reason its exit is told with
  links,       \* links[p][q]: how often q is in p's ProcessEntry.links
  monitors,    \* ProcessEntry.monitors: what is left to tell once removed
  mailbox,     \* the Down and Exit signals that entered p's mailbox
  call,        \* what a caller has still to do under a second lock
  calls,       \* calls[op]: how many calls of op were made (for the bound)
  issued,      \* history: the monitors set up
  late,        \* history: the references of those that found no process
  linked,      \* history: pairs both of whose sides some call recorded
  spawnLinked, \* history: child and parent, there when spawn_link began
  tied,        \* history: pairs a link or spawn_link call named, and no unlink
               \* without another such call beside it has parted
  clean,       \* history: callers in such an unlink
  unlinked,    \* history: pairs any unlink call named
  condemned    \* history: pids a kill or exit call found in the table

tableVars == <<nextId, phase, aborted, trap, staged, reason>>
history == <<issued, late, linked, spawnLinked, tied, clean, unlinked, condemned>>
vars == <<tableVars, nextRef, links, monitors, mailbox, call, calls,
          history>>

Pids == 0 .. MaxProcs - 1
Issued(p) == p < nextId
InTable(p) == phase[p] \in {"running", "ended"}
Abnormal(r) == r # "Normal"

Pending(op, a, b) == [op |-> op, a |-> a, b |-> b]
Idle == Pending("idle", 0, 0)
Down(ref, p, r) == [kind |-> "Down", ref |-> ref, pid |-> p, reason |-> r]
ExitSignal(from, r) == [kind |-> "Exit", pid |-> from, reason |-> r]

\* One more call of op is made, within the bound.
Called(op) ==
  /\ calls[op] < Budget[op]
  /\ calls' = [calls EXCEPT ![op] = @ + 1]

\* The mailboxes after `item` was sent to p: an entry whose body is gone has
\* lost its receiver, so the send fails.
Delivered(p, item) ==
  IF phase[p] = "running" THEN [mailbox EXCEPT ![p] = Append(@, item)]
                          ELSE mailbox

\* add_link and remove_link: one side, under the owner's lock.
AddLink(owner, peer) ==
  [links EXCEPT ![owner][peer] = IF @ = 0 THEN 1 ELSE @]
RemoveLink(owner, peer) ==
  IF InTable(owner) THEN [links EXCEPT ![owner][peer] = 0] ELSE links

Init ==
  /\ nextId = 0 /\ nextRef = 0 /\ calls = [op \in Ops |-> 0]
  /\ phase = [p \in Pids |-> "unborn"]
  /\ aborted = [p \in Pids |-> FALSE]
  /\ trap = [p \in Pids |-> FALSE]
  /\ staged = [p \in Pids |-> "none"]
  /\ reason = [p \in Pids |-> "none"]
  /\ links = [p \in Pids |-> [q \in Pids |-> 0]]
  /\ monitors = [p \in Pids |-> {}]
  /\ mailbox = [p \in Pids |-> <<>>]
  /\ call = [c \in Callers |-> Idle]
  /\ issued = {} /\ late = {} /\ linked = {} /\ spawnLinked = {}
  /\ tied = {} /\ clean = {} /\ unlinked = {} /\ condemned = {}

-----------------------------------------------------------------------------
(* Spawning.                                                               *)

\* The entry is inserted before the task exists, so a running process is
\* always in the table.
Enter ==
  /\ nextId < MaxProcs
  /\ nextId' = nextId + 1
  /\ phase' = [phase EXCEPT ![nextId] = "running"]

Spawn ==
  /\ Enter
  /\ UNCHANGED <<aborted, trap, staged, reason, nextRef, links, monitors,
                 mailbox, call, calls, history>>

\* Of the history: a call that links a and b has begun, or runs.
Ties(a, b) ==
  /\ tied' = tied \cup {{a, b}}
  /\ clean' = {c \in clean : {call[c].a, call[c].b} # {a, b}}
Linking(a, b) ==
  \E c \in Callers : /\ call[c].op \in {"spawn_link", "link"}
                    /\ {call[c].a, call[c].b} = {a, b}

\* spawn_link enters the child with the parent in its list and starts it ...
SpawnLink(c, parent) ==
  /\ call[c] = Idle
  /\ Called("spawn_link")
  /\ Issued(parent)
  /\ Enter
  /\ links' = [links EXCEPT ![nextId][parent] = 1]
  /\ call' = [call EXCEPT ![c] = Pending("spawn_link", parent, nextId)]
  /\ Ties(parent, nextId)
  /\ spawnLinked' = IF InTable(parent)
                    THEN spawnLinked \cup {{parent, nextId}} ELSE spawnLinked
  /\ UNCHANGED <<aborted, trap, staged, reason, nextRef, monitors, mailbox,
                 issued, late, linked, unlinked, condemned>>

\* ... and only then pushes the child onto the parent's list, if the parent
\* is still in the table, without looking whether it is there already.
SpawnLinkBack(c) ==
  LET parent == call[c].a
      child == call[c].b
  IN /\ call[c].op = "spawn_link"
     /\ links' = IF InTable(parent)
                 THEN [links EXCEPT ![parent][child] = @ + 1]
                 ELSE links
     /\ linked' = IF InTable(parent) THEN linked \cup {{parent, child}} ELSE linked
     /\ call' = [call EXCEPT ![c] = Idle]
     /\ UNCHANGED <<tableVars, nextRef, monitors, mailbox, calls, issued, late,
                    spawnLinked, tied, clean, unlinked, condemned>>

-----------------------------------------------------------------------------
(* Linking two existing processes.                                         *)

\* link: record b with a; a call that finds a gone changes nothing.
LinkFirst(c, a, b) ==
  /\ call[c] = Idle
  /\ Called("link")
  /\ a # b /\ Issued(a) /\ Issued(b)
  /\ InTable(a)
  /\ links' = AddLink(a, b)
  /\ call' = [call EXCEPT ![c] = Pending("link", a, b)]
  /\ Ties(a, b)
  /\ UNCHANGED <<tableVars, nextRef, monitors, mailbox, issued, late, linked,
                 spawnLinked, unlinked, condemned>>

\* Then a with b ...
LinkSecond(c) ==
  LET a == call[c].a
      b == call[c].b
  IN /\ call[c].op = "link"
     /\ IF InTable(b)
        THEN /\ links' = AddLink(b, a)
             /\ call' = [call EXCEPT ![c] = Idle]
             /\ linked' = linked \cup {{a, b}}
        ELSE /\ call' = [call EXCEPT ![c] = Pending("undo", a, b)]
             /\ UNCHANGED <<links, linked>>
     /\ UNCHANGED <<tableVars, nextRef, monitors, mailbox, calls,
                    issued, late, spawnLinked, tied, clean, unlinked,
                    condemned>>

\* ... and if b is gone, take the first half back.
LinkUndo(c) ==
  /\ call[c].op = "undo"
  /\ links' = RemoveLink(call[c].a, call[c].b)
  /\ call' = [call EXCEPT ![c] = Idle]
  /\ UNCHANGED <<tableVars, nextRef, monitors, mailbox, calls, history>>

UnlinkFirst(c, a, b) ==
  /\ call[c] = Idle
  /\ Called("unlink")
  /\ a # b /\ Issued(a) /\ Issued(b)
  /\ links' = RemoveLink(a, b)
  /\ call' = [call EXCEPT ![c] = Pending("unlink", a, b)]
  /\ unlinked' = unlinked \cup {{a, b}}
  /\ clean' = IF InTable(a) /\ ~Linking(a, b) THEN clean \cup {c} ELSE clean
  /\ UNCHANGED <<tableVars, nextRef, monitors, mailbox, issued, late, linked,
                 spawnLinked, tied, condemned>>

\* Of the history: both were there, and nothing links them any more.
Parts(c) ==
  /\ tied' = IF c \in clean /\ InTable(call[c].b)
             THEN tied \ {{call[c].a, call[c].b}} ELSE tied
  /\ clean' = clean \ {c}

\* Mutant: the second side stays.
UnlinkSecondLeft(c) ==
  /\ call[c].op = "unlink"
  /\ Parts(c)
  /\ call' = [call EXCEPT ![c] = Idle]
  /\ UNCHANGED <<tableVars, nextRef, links, monitors, mailbox, calls, issued, late,
                 linked, spawnLinked, unlinked, condemned>>

UnlinkSecond(c) ==
  /\ call[c].op = "unlink"
  /\ links' = RemoveLink(call[c].b, call[c].a)
  /\ Parts(c)
  /\ call' = [call EXCEPT ![c] = Idle]
  /\ UNCHANGED <<tableVars, nextRef, monitors, mailbox, calls, issued, late,
                 linked, spawnLinked, unlinked, condemned>>

-----------------------------------------------------------------------------
(* Monitoring.                                                             *)

\* Mutant: a monitor that comes too late is not answered.
MonitorUnanswered(watcher, target) ==
  /\ Called("monitor")
  /\ Issued(watcher) /\ Issued(target)
  /\ nextRef' = nextRef + 1
  /\ monitors' = IF InTable(target)
                 THEN [monitors EXCEPT ![target] =
                         @ \cup {[watcher |-> watcher, ref |-> nextRef]}]
                 ELSE monitors
  /\ issued' = issued \cup
       {[watcher |-> watcher, target |-> target, ref |-> nextRef]}
  /\ late' = IF InTable(target) THEN late ELSE late \cup {nextRef}
  /\ UNCHANGED <<tableVars, links, mailbox, call, linked, spawnLinked,
                 tied, clean, unlinked, condemned>>

\* A monitor of a process that is gone is answered at once, with NoProc.
\* Nothing can revive the target, so check and delivery are one step.
Monitor(watcher, target) ==
  /\ Called("monitor")
  /\ Issued(watcher) /\ Issued(target)
  /\ nextRef' = nextRef + 1
  /\ IF InTable(target)
     THEN /\ monitors' = [monitors EXCEPT ![target] =
                            @ \cup {[watcher |-> watcher, ref |-> nextRef]}]
          /\ UNCHANGED mailbox
     ELSE /\ mailbox' = Delivered(watcher, Down(nextRef, target, "NoProc"))
          /\ UNCHANGED monitors
  /\ issued' = issued \cup
       {[watcher |-> watcher, target |-> target, ref |-> nextRef]}
  /\ late' = IF InTable(target) THEN late ELSE late \cup {nextRef}
  /\ UNCHANGED <<tableVars, links, call, linked, spawnLinked,
                 tied, clean, unlinked, condemned>>

-----------------------------------------------------------------------------
(* Stopping a process.                                                     *)

\* kill, and what kill_tag and shutdown do to each process they reach.
Kill(p) ==
  /\ Called("kill")
  /\ InTable(p)
  /\ aborted' = [aborted EXCEPT ![p] = TRUE]
  /\ condemned' = condemned \cup {p}
  /\ UNCHANGED <<nextId, phase, trap, staged, reason, nextRef, links,
                 monitors, mailbox, call, issued, late, linked,
                 spawnLinked, tied, clean, unlinked>>

\* exit(pid, reason): the last reason staged is the one that will be told.
Exit(p, r) ==
  /\ Called("exit")
  /\ InTable(p)
  /\ staged' = [staged EXCEPT ![p] = r]
  /\ aborted' = [aborted EXCEPT ![p] = TRUE]
  /\ condemned' = condemned \cup {p}
  /\ UNCHANGED <<nextId, phase, trap, reason, nextRef, links, monitors,
                 mailbox, call, issued, late, linked, spawnLinked,
                 tied, clean, unlinked>>

SetTrapExit(p, t) ==
  /\ Called("trap_exit")
  /\ InTable(p)
  /\ trap' = [trap EXCEPT ![p] = t]
  /\ UNCHANGED <<nextId, phase, aborted, staged, reason, nextRef, links,
                 monitors, mailbox, call, history>>

-----------------------------------------------------------------------------
(* The end of a body, and the reaper.                                      *)

\* run and ProcessGuard: the body completes (Normal), unwinds (Crashed) or,
\* once aborted, is dropped at a suspension point (Killed).  Its Context,
\* and with it the mailbox receiver, is dropped here, before deregister.
BodyEnds(p, outcome) ==
  /\ phase[p] = "running"
  /\ phase' = [phase EXCEPT ![p] = "ended"]
  /\ reason' = [reason EXCEPT ![p] = outcome]
  /\ UNCHANGED <<nextId, aborted, trap, staged, nextRef, links, monitors,
                 mailbox, call, calls, history>>

BodyAborted(p) == aborted[p] /\ BodyEnds(p, "Killed")

\* Mutant: the reason is how the body ended, whatever was staged.
RemoveUnstaged(p) ==
  /\ phase[p] = "ended"
  /\ phase' = [phase EXCEPT ![p] = "removed"]
  /\ UNCHANGED <<nextId, aborted, trap, staged, reason, nextRef, links, monitors,
                 mailbox, call, calls, history>>

\* deregister: the entry leaves the table; a staged reason overrides.
Remove(p) ==
  /\ phase[p] = "ended"
  /\ phase' = [phase EXCEPT ![p] = "removed"]
  /\ reason' = [reason EXCEPT ![p] = IF staged[p] = "none" THEN @
                                                           ELSE staged[p]]
  /\ UNCHANGED <<nextId, aborted, trap, staged, nextRef, links, monitors,
                 mailbox, call, calls, history>>

\* Mutant: a watcher that is gone holds up the rest.
NotifyWatcherStuck(p) ==
  /\ phase[p] = "removed"
  /\ \E m \in monitors[p] :
       /\ phase[m.watcher] = "running"
       /\ monitors' = [monitors EXCEPT ![p] = @ \ {m}]
       /\ mailbox' = Delivered(m.watcher, Down(m.ref, p, reason[p]))
  /\ UNCHANGED <<tableVars, nextRef, links, call, calls, history>>

\* Then each monitor is told, one watcher's mailbox at a time ...
NotifyWatcher(p) ==
  /\ phase[p] = "removed"
  /\ \E m \in monitors[p] :
       /\ monitors' = [monitors EXCEPT ![p] = @ \ {m}]
       /\ mailbox' = Delivered(m.watcher, Down(m.ref, p, reason[p]))
  /\ UNCHANGED <<tableVars, nextRef, links, call, calls, history>>

\* What p's exit does to a peer q still in the table: one that traps gets it
\* as a signal, any other is stopped by an abnormal one.
ExitReaches(p, q) ==
  IF trap[q]
  THEN /\ mailbox' = Delivered(q, ExitSignal(p, reason[p]))
       /\ UNCHANGED <<staged, aborted>>
  ELSE /\ staged' = IF Abnormal(reason[p])
                    THEN [staged EXCEPT ![q] = reason[p]] ELSE staged
       /\ aborted' = IF Abnormal(reason[p])
                     THEN [aborted EXCEPT ![q] = TRUE] ELSE aborted
       /\ UNCHANGED mailbox

\* Mutant: a peer that is gone ends the fan-out (return for continue).
PropagateExitGivesUp(p, q) ==
  /\ phase[p] = "removed"
  /\ monitors[p] = {}
  /\ links[p][q] > 0
  /\ IF InTable(q)
     THEN /\ links' = [links EXCEPT ![p][q] = @ - 1, ![q][p] = 0]
          /\ ExitReaches(p, q)
     ELSE /\ links' = [links EXCEPT ![p] = [x \in Pids |-> 0]]
          /\ UNCHANGED <<mailbox, staged, aborted>>
  /\ UNCHANGED <<nextId, phase, trap, reason, nextRef, monitors, call,
                 calls, history>>

\* ... and then each linked peer, under the peer's lock (propagate_exit).
\* links[p] counts what is left to tell; links[q] forgets p altogether.
PropagateExit(p, q) ==
  /\ phase[p] = "removed"
  /\ monitors[p] = {}
  /\ links[p][q] > 0
  /\ IF InTable(q)
     THEN /\ links' = [links EXCEPT ![p][q] = @ - 1, ![q][p] = 0]
          /\ ExitReaches(p, q)
     ELSE /\ links' = [links EXCEPT ![p][q] = @ - 1]
          /\ UNCHANGED <<mailbox, staged, aborted>>
  /\ UNCHANGED <<nextId, phase, trap, reason, nextRef, monitors, call,
                 calls, history>>

-----------------------------------------------------------------------------
\* What the task of p does by itself once its body is over.
Teardown(p) == Remove(p) \/ NotifyWatcher(p) \/ \E q \in Pids : PropagateExit(p, q)

\* What is left of a caller's call.
Finish(c) == \/ SpawnLinkBack(c) \/ LinkSecond(c) \/ LinkUndo(c)
             \/ UnlinkSecond(c)

Next ==
  \/ Spawn
  \/ \E c \in Callers, p \in Pids : SpawnLink(c, p)
  \/ \E c \in Callers : SpawnLinkBack(c)
  \/ \E c \in Callers, a, b \in Pids : LinkFirst(c, a, b)
  \/ \E c \in Callers : LinkSecond(c)
  \/ \E c \in Callers : LinkUndo(c)
  \/ \E c \in Callers, a, b \in Pids : UnlinkFirst(c, a, b)
  \/ \E c \in Callers : UnlinkSecond(c)
  \/ \E w, t \in Pids : Monitor(w, t)
  \/ \E p \in Pids : Kill(p)
  \/ \E p \in Pids, r \in ExitArgs : Exit(p, r)
  \/ \E p \in Pids, t \in BOOLEAN : SetTrapExit(p, t)
  \/ \E p \in Pids, o \in {"Normal", "Crashed"} : BodyEnds(p, o)
  \/ \E p \in Pids : BodyAborted(p)
  \/ \E p \in Pids : Remove(p)
  \/ \E p \in Pids : NotifyWatcher(p)
  \/ \E p, q \in Pids : PropagateExit(p, q)

\* A killed body reaches a suspension point (and is then dropped by the poll
\* that finds the flag), a task that is being torn down runs on, since Drop
\* never suspends, and so does a call.  Nothing says that a body ends.
Fairness ==
  /\ \A p \in Pids : WF_vars(BodyAborted(p)) /\ WF_vars(Teardown(p))
  /\ \A c \in Callers : WF_vars(Finish(c))

Spec == Init /\ [][Next]_vars
FairSpec == Spec /\ Fairness

-----------------------------------------------------------------------------
(* Properties.                                                             *)

Monitors == [watcher : Pids, ref : Nat]
Signals == [kind : {"Down"}, ref : Nat, pid : Pids, reason : Reasons]
             \cup [kind : {"Exit"}, pid : Pids, reason : Reasons]

EntriesOK ==
  /\ nextId \in 0 .. MaxProcs
  /\ phase \in [Pids -> {"unborn", "running", "ended", "removed"}]
  /\ \A p \in Pids : phase[p] = "unborn" <=> ~Issued(p)
  /\ aborted \in [Pids -> BOOLEAN]
  /\ trap \in [Pids -> BOOLEAN]
  /\ staged \in [Pids -> Reasons \cup {"none"}]
  /\ reason \in [Pids -> Reasons \cup {"none"}]
  /\ \A p \in Pids : reason[p] = "none" <=> phase[p] \in {"unborn", "running"}
LinksOK ==
  /\ links \in [Pids -> [Pids -> Nat]]
  /\ linked \subseteq SUBSET Pids /\ spawnLinked \subseteq SUBSET Pids
  /\ tied \subseteq SUBSET Pids /\ unlinked \subseteq SUBSET Pids
  /\ clean \subseteq Callers
MonitorsOK ==
  /\ nextRef \in Nat
  /\ monitors \in [Pids -> SUBSET Monitors]
  /\ issued \subseteq [watcher : Pids, target : Pids, ref : Nat]
  /\ late \subseteq Nat
MailboxOK == mailbox \in [Pids -> Seq(Signals)]
CallsOK ==
  /\ calls \in [Ops -> Nat]
  /\ call \in [Callers -> {Idle} \cup
       [op : {"spawn_link", "link", "undo", "unlink"}, a : Pids, b : Pids]]
  /\ condemned \subseteq Pids

\* Every variable stays within its type: above all, a process has a reason
\* exactly from the end of its body on, and a call in flight names processes.
TypeOK ==
  EntriesOK /\ LinksOK /\ MonitorsOK /\ MailboxOK /\ CallsOK

\* Entry i of p's mailbox answers monitor `ref`.
Answers(p, i, ref) ==
  mailbox[p][i].kind = "Down" /\ mailbox[p][i].ref = ref
Armed(m) == [watcher |-> m.watcher, ref |-> m.ref] \in monitors[m.target]

\* A monitor is never lost and never answered twice, whenever its target ends
\* and whoever else ends meanwhile: while its watcher runs it is either still
\* armed or answered by exactly one Down, never both (deregister, monitor).
MonitorAccounted ==
  \A m \in issued : LET seen == DOMAIN mailbox[m.watcher] IN
    /\ \A i, j \in seen : Answers(m.watcher, i, m.ref)
                           /\ Answers(m.watcher, j, m.ref) => i = j
    /\ Armed(m) => \A i \in seen : ~Answers(m.watcher, i, m.ref)
    /\ ~Armed(m) /\ phase[m.watcher] = "running"
         => \E i \in seen : Answers(m.watcher, i, m.ref)

DownsTrue ==
  \A p \in Pids : \A i \in DOMAIN mailbox[p] :
    LET down == mailbox[p][i]
    IN down.kind = "Down" =>
         /\ [watcher |-> p, target |-> down.pid, ref |-> down.ref] \in issued
         /\ phase[down.pid] = "removed"
         /\ down.reason = IF down.ref \in late THEN "NoProc" ELSE reason[down.pid]
LastStaged ==
  \A p \in Pids : phase[p] = "removed" /\ staged[p] # "none" => reason[p] = staged[p]

\* A Down tells the truth: it names the monitor's target, which has left the
\* table by then, and NoProc if that was so when it was monitored; otherwise
\* the reason every other watcher and peer is told, which is the last one an
\* exit() or a cascade staged before the entry was out, however the body had
\* ended meanwhile, and is not changed by one that comes later (deregister,
\* exit, propagate_exit).  (Stated with the types of all variables.)
DownTruthful == TypeOK /\ DownsTrue /\ LastStaged

\* `b` has met the end of `a`: it is told, or stopped, or over anyway.
Told(b, a) == \E i \in DOMAIN mailbox[b] :
                mailbox[b][i].kind = "Exit" /\ mailbox[b][i].pid = a
Shared(b, a) == phase[b] # "running" \/ aborted[b] \/ Told(b, a)

\* Both or neither: once a link or spawn_link has recorded both sides, and
\* unless some call unlinks the pair, a process that went down abnormally and
\* has done its fan-out leaves no untouched peer, however ends, links, undos
\* and changes of trap_exit interleave (link, spawn_link, propagate_exit).
LinkedSharedFate ==
  \A a, b \in Pids :
    ( /\ {a, b} \in linked \ unlinked
      /\ phase[a] = "removed" /\ Abnormal(reason[a]) /\ links[a][b] = 0 )
    => Shared(b, a)

\* Isolation: the runtime stops a process nobody killed, or tells it of an
\* end, only because a process it is linked to is gone - abnormally, if it is
\* stopped.  Two processes are not linked any more once an unlink has returned
\* that both were there for, and in which no other call linked them: neither
\* half is left to fire later (unlink, propagate_exit).
StepAlongLinks ==
  \A p \in Pids :
    /\ ~aborted[p] /\ aborted'[p] /\ p \notin condemned' =>
         \E q \in Pids : /\ {p, q} \in tied /\ phase[q] = "removed"
                         /\ Abnormal(reason[q])
    /\ \A q \in Pids : ~Told(p, q) /\ Told(p, q)' =>
         {p, q} \in tied /\ phase[q] = "removed"
CascadeOnlyAlongLinks == [][StepAlongLinks]_vars

\* Whatever ends, is killed or caught by a cascade is taken out of the table
\* and has told every watcher and every peer in the end: with LinkedSharedFate
\* a crash travels to the last process of a chain or ring of links.
KilledIsReaped ==
  \A p \in Pids : aborted[p] \/ phase[p] = "ended" ~>
    phase[p] = "removed" /\ monitors[p] = {}
      /\ \A q \in Pids : links[p][q] = 0

\* runtime.rs:506 of spawn_link: "the child is linked to parent before it
\* runs - so the link is in place even if the child exits immediately, with
\* no race": once the call has returned, a parent that was there when it
\* began and the child share their fate like any linked pair.
SpawnLinkPending(a, b) ==
  \E c \in Callers : call[c] = Pending("spawn_link", a, b)
SpawnLinkedSharedFate ==
  \A a, b \in Pids :
    ( /\ {a, b} \in spawnLinked \ unlinked
      /\ ~SpawnLinkPending(a, b)
      /\ phase[a] = "removed" /\ Abnormal(reason[a]) /\ links[a][b] = 0 )
    => Shared(b, a)

=============================================================================
