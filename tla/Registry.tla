------------------------------ MODULE Registry ------------------------------
(***************************************************************************)
(* The name registry and the process groups of rusm-otp (runtime.rs):      *)
(* register, whereis, unregister, whereis_or_spawn, register_tag,          *)
(* whereis_tag, unregister_tag, kill_tag, and what the teardown of a       *)
(* process does to its names and tags.                                     *)
(*                                                                         *)
(* register and register_tag hold the process entry and the slot of the    *)
(* name or tag at once, so each is one step.  Everything else locks one    *)
(* map at a time: unregister, whereis_or_spawn and the teardown are        *)
(* several steps, and other calls fall between them.  The body of a        *)
(* process is abstract; whatever ends it is one step, Leaves.              *)
(***************************************************************************)
EXTENDS Naturals

CONSTANTS
  Callers,     \* threads and processes that make the calls of several steps
  Names, Tags,
  MaxProcs,    \* bound on the processes ever spawned
  Budgets      \* the bounds explored: budget[op] calls of op each

Ops == {"register", "unregister", "whereis_or_spawn", "register_tag",
        "unregister_tag", "kill_tag"}
ASSUME BoundsAssumption == 
  MaxProcs \in Nat /\ Budgets \subseteq [Ops -> Nat]

VARIABLES
  nextId,
  phase,         \* phase[p]: unborn, running (in the table), removed
  aborted,       \* the flag of p's AbortHandle
  registry,      \* registry[n]: the pid the name resolves to, or NoPid
  names,         \* names[p][n]: how often n is in p's ProcessEntry.names
  tags,          \* tags[t]: the group's members (empty: no such group)
  held,          \* held[p][t]: how often t is in p's ProcessEntry.tags
  call,          \* where a caller is in a call of several steps
  left,          \* left[op]: how many calls of op are still to come (bound)
  owner,         \* history: who was last granted n and not unregistered
  joined,        \* history: (t, p) that joined and no unregister_tag ended
  unregistered,  \* history: names, and (t, p), any call tried to release
  crossed,       \* history: names, and (t, p), registered while a list had them
  candidates,    \* history: the pids whereis_or_spawn spawned
  answers        \* history: [name, pid] answered by whereis_or_spawn

procs == <<nextId, phase, aborted>>
groups == <<tags, held, joined>>
history == <<unregistered, crossed, candidates, answers>>
vars == <<procs, registry, names, groups, call, left, owner, history>>

Pids == 1 .. MaxProcs
NoPid == 0
InTable(p) == p \in Pids /\ phase[p] = "running"

Idle == [op |-> "idle"]
Naming(op, n, p) == [op |-> op, name |-> n, pid |-> p]
Grouping(op, t, P) == [op |-> op, tag |-> t, pids |-> P]
Called(op) ==
  /\ left[op] > 0
  /\ left' = [left EXCEPT ![op] = @ - 1]

Init ==
  /\ nextId = 1
  /\ phase = [p \in Pids |-> "unborn"]
  /\ aborted = [p \in Pids |-> FALSE]
  /\ registry = [n \in Names |-> NoPid]
  /\ names = [p \in Pids |-> [n \in Names |-> 0]]
  /\ tags = [t \in Tags |-> {}]
  /\ held = [p \in Pids |-> [t \in Tags |-> 0]]
  /\ call = [c \in Callers |-> Idle]
  /\ left \in Budgets
  /\ owner = [n \in Names |-> NoPid]
  /\ joined = {} /\ unregistered = {} /\ crossed = {}
  /\ candidates = {} /\ answers = {}

-----------------------------------------------------------------------------
(* Processes come, and leave with their names and groups.                  *)

Enter ==
  /\ nextId <= MaxProcs
  /\ nextId' = nextId + 1
  /\ phase' = [phase EXCEPT ![nextId] = "running"]

Spawn ==
  /\ Enter
  /\ UNCHANGED <<aborted, registry, names, groups, call, left, owner, history>>

\* The body is over, for whatever reason, and the entry leaves the table ...
Leaves(p) ==
  /\ phase[p] = "running"
  /\ phase' = [phase EXCEPT ![p] = "removed"]
  /\ UNCHANGED <<nextId, aborted, registry, names, groups, call, left, owner,
                 history>>

\* ... then deregister takes each name the entry listed out of the registry,
\* whoever holds it by now ...
ReleaseName(p, n) ==
  /\ phase[p] = "removed" /\ names[p][n] > 0
  /\ registry' = [registry EXCEPT ![n] = NoPid]
  /\ names' = [names EXCEPT ![p][n] = @ - 1]
  /\ UNCHANGED <<procs, groups, call, left, owner, history>>

\* ... and the process out of each group, dropping the groups that empty.
ReleaseTag(p, t) ==
  /\ phase[p] = "removed" /\ \A n \in Names : names[p][n] = 0
  /\ held[p][t] > 0
  /\ tags' = [tags EXCEPT ![t] = @ \ {p}]
  /\ held' = [held EXCEPT ![p][t] = @ - 1]
  /\ UNCHANGED <<procs, registry, names, call, left, owner, joined, history>>

-----------------------------------------------------------------------------
(* Names.                                                                  *)

\* register: granted if p is in the table and the name is free.
\* Mutant: the entry does not remember the name.
GrantForgets(n, p) ==
  /\ registry' = [registry EXCEPT ![n] = p]
  /\ owner' = [owner EXCEPT ![n] = p]
  /\ UNCHANGED <<names, crossed>>
Grant(n, p) ==
  /\ registry' = [registry EXCEPT ![n] = p]
  /\ names' = [names EXCEPT ![p][n] = @ + 1]
  /\ owner' = [owner EXCEPT ![n] = p]
  /\ crossed' = IF \E q \in Pids : names[q][n] > 0
                THEN crossed \cup {n} ELSE crossed

\* Mutant: the last to register has the name.
RegisterOverwrites(n, p) ==
  /\ Called("register")
  /\ InTable(p)
  /\ Grant(n, p)
  /\ UNCHANGED <<procs, groups, call, unregistered, candidates, answers>>
Register(n, p) ==
  /\ Called("register")
  /\ InTable(p) /\ registry[n] = NoPid
  /\ Grant(n, p)
  /\ UNCHANGED <<procs, groups, call, unregistered, candidates, answers>>

\* unregister: the name out of the registry ...
UnregisterName(c, n) ==
  /\ call[c] = Idle
  /\ Called("unregister")
  /\ registry[n] # NoPid
  /\ registry' = [registry EXCEPT ![n] = NoPid]
  /\ owner' = [owner EXCEPT ![n] = NoPid]
  /\ call' = [call EXCEPT ![c] = Naming("forget", n, registry[n])]
  /\ unregistered' = unregistered \cup {n}
  /\ UNCHANGED <<procs, names, groups, crossed, candidates, answers>>

\* ... then out of its holder's list, if the holder is still in the table.
ForgetName(c) ==
  LET n == call[c].name
      p == call[c].pid
  IN /\ call[c].op = "forget"
     /\ names' = IF InTable(p) THEN [names EXCEPT ![p][n] = 0] ELSE names
     /\ call' = [call EXCEPT ![c] = Idle]
     /\ UNCHANGED <<procs, registry, groups, left, owner, history>>

-----------------------------------------------------------------------------
(* whereis_or_spawn, with no lock held from one step to the next.          *)

Answer(c, n, p) ==
  /\ call' = [call EXCEPT ![c] = Idle]
  /\ answers' = answers \cup {[name |-> n, pid |-> p]}

\* whereis answers at once, or the caller goes on to spawn.
Lookup(c, n) ==
  /\ call[c] = Idle
  /\ Called("whereis_or_spawn")
  /\ IF registry[n] # NoPid
     THEN Answer(c, n, registry[n])
     ELSE /\ call' = [call EXCEPT ![c] = Naming("spawn", n, NoPid)]
          /\ UNCHANGED answers
  /\ UNCHANGED <<procs, registry, names, groups, owner, unregistered, crossed,
                 candidates>>

SpawnCandidate(c) ==
  /\ call[c].op = "spawn"
  /\ Enter
  /\ call' = [call EXCEPT ![c] = Naming("claim", call[c].name, nextId)]
  /\ candidates' = candidates \cup {nextId}
  /\ UNCHANGED <<aborted, registry, names, groups, left, owner,
                 unregistered, crossed, answers>>

\* Mutant: the caller goes with its candidate, whether it won or not.
ClaimNameAnyway(c) ==
  LET n == call[c].name
      p == call[c].pid
  IN /\ call[c].op = "claim"
     /\ IF InTable(p) /\ registry[n] = NoPid
        THEN Grant(n, p) ELSE UNCHANGED <<registry, names, owner, crossed>>
     /\ Answer(c, n, p)
     /\ UNCHANGED <<procs, groups, left, unregistered, candidates>>

\* The claim is a register(): the winner answers with its candidate.
ClaimName(c) ==
  LET n == call[c].name
      p == call[c].pid
  IN /\ call[c].op = "claim"
     /\ IF InTable(p) /\ registry[n] = NoPid
        THEN Grant(n, p) /\ Answer(c, n, p)
        ELSE /\ call' = [call EXCEPT ![c] = Naming("lost", n, p)]
             /\ UNCHANGED <<registry, names, owner, crossed, answers>>
     /\ UNCHANGED <<procs, groups, left, unregistered, candidates>>

\* A loser kills its candidate, by handle ...
KillCandidate(c) ==
  /\ call[c].op = "lost"
  /\ aborted' = [aborted EXCEPT ![call[c].pid] = TRUE]
  /\ call' = [call EXCEPT ![c] = Naming("again", call[c].name, call[c].pid)]
  /\ UNCHANGED <<nextId, phase, registry, names, groups, left, owner, history>>

\* ... and answers with whoever holds the name now, or its own candidate.
LookupAgain(c) ==
  LET n == call[c].name
  IN /\ call[c].op = "again"
     /\ Answer(c, n, IF registry[n] # NoPid THEN registry[n] ELSE call[c].pid)
     /\ UNCHANGED <<procs, registry, names, groups, left, owner,
                    unregistered, crossed, candidates>>

-----------------------------------------------------------------------------
(* Process groups.                                                         *)

\* It joins; a list that still has the tag is that of a call under way.
Join(t, p) ==
  /\ tags' = [tags EXCEPT ![t] = @ \cup {p}]
  /\ joined' = joined \cup {<<t, p>>}
  /\ crossed' = IF p \notin tags[t] /\ held[p][t] > 0
                THEN crossed \cup {<<t, p>>} ELSE crossed

\* Mutant: the entry remembers the tag only when the group is new.
RegisterTagOnce(t, p) ==
  /\ Called("register_tag")
  /\ InTable(p)
  /\ Join(t, p)
  /\ held' = IF tags[t] # {} THEN held ELSE [held EXCEPT ![p][t] = @ + 1]
  /\ UNCHANGED <<procs, registry, names, call, owner, unregistered, candidates,
                 answers>>

RegisterTag(t, p) ==
  /\ Called("register_tag")
  /\ InTable(p)
  /\ Join(t, p)
  /\ held' = IF p \in tags[t] THEN held ELSE [held EXCEPT ![p][t] = @ + 1]
  /\ UNCHANGED <<procs, registry, names, call, owner, unregistered, candidates,
                 answers>>

\* unregister_tag: the process out of the group ...
UnregisterTag(c, t, p) ==
  /\ call[c] = Idle
  /\ Called("unregister_tag")
  /\ p \in tags[t]
  /\ tags' = [tags EXCEPT ![t] = @ \ {p}]
  /\ joined' = joined \ {<<t, p>>}
  /\ call' = [call EXCEPT ![c] = Grouping("forget_tag", t, {p})]
  /\ unregistered' = unregistered \cup {<<t, p>>}
  /\ UNCHANGED <<procs, registry, names, held, owner, crossed, candidates,
                 answers>>

\* ... then the tag out of the process's list.
ForgetTag(c) ==
  /\ call[c].op = "forget_tag"
  /\ held' = [p \in Pids |->
                IF p \in call[c].pids /\ InTable(p)
                THEN [held[p] EXCEPT ![call[c].tag] = 0] ELSE held[p]]
  /\ call' = [call EXCEPT ![c] = Idle]
  /\ UNCHANGED <<procs, registry, names, tags, joined, left, owner, history>>

\* kill_tag takes the members it finds, and terminates those still there.
SnapshotTag(c, t) ==
  /\ call[c] = Idle
  /\ Called("kill_tag")
  /\ tags[t] # {}
  /\ call' = [call EXCEPT ![c] = Grouping("kill_tag", t, tags[t])]
  /\ UNCHANGED <<procs, registry, names, groups, owner, history>>
KillMembers(c) ==
  /\ call[c].op = "kill_tag"
  /\ aborted' = [p \in Pids |->
                   aborted[p] \/ (p \in call[c].pids /\ InTable(p))]
  /\ call' = [call EXCEPT ![c] = Idle]
  /\ UNCHANGED <<nextId, phase, registry, names, groups, left, owner, history>>

-----------------------------------------------------------------------------
CallStep(c) ==
  \/ ForgetName(c) \/ SpawnCandidate(c) \/ ClaimName(c) \/ KillCandidate(c)
  \/ LookupAgain(c) \/ ForgetTag(c) \/ KillMembers(c)

Release(p) ==
  \/ \E n \in Names : ReleaseName(p, n)
  \/ \E t \in Tags : ReleaseTag(p, t)

Next ==
  \/ Spawn
  \/ \E p \in Pids : Leaves(p)
  \/ \E p \in Pids, n \in Names : ReleaseName(p, n)
  \/ \E p \in Pids, t \in Tags : ReleaseTag(p, t)
  \/ \E n \in Names, p \in Pids : Register(n, p)
  \/ \E c \in Callers, n \in Names : UnregisterName(c, n)
  \/ \E c \in Callers : ForgetName(c)
  \/ \E c \in Callers, n \in Names : Lookup(c, n)
  \/ \E c \in Callers : SpawnCandidate(c)
  \/ \E c \in Callers : ClaimName(c)
  \/ \E c \in Callers : KillCandidate(c)
  \/ \E c \in Callers : LookupAgain(c)
  \/ \E t \in Tags, p \in Pids : RegisterTag(t, p)
  \/ \E c \in Callers, t \in Tags, p \in Pids : UnregisterTag(c, t, p)
  \/ \E c \in Callers : ForgetTag(c)
  \/ \E c \in Callers, t \in Tags : SnapshotTag(c, t)
  \/ \E c \in Callers : KillMembers(c)

\* Teardown runs on, an aborted body reaches a suspension point, and so does
\* each call go on to its end.
Fairness ==
  /\ \A p \in Pids : WF_vars(Release(p)) /\ WF_vars(aborted[p] /\ Leaves(p))
  /\ \A c \in Callers : WF_vars(CallStep(c))

Spec == Init /\ [][Next]_vars
FairSpec == Spec /\ Fairness

-----------------------------------------------------------------------------
(* Properties.                                                             *)

ProcsOK ==
  /\ nextId \in 1 .. MaxProcs + 1
  /\ phase \in [Pids -> {"unborn", "running", "removed"}]
  /\ \A p \in Pids : phase[p] = "unborn" <=> p >= nextId
  /\ aborted \in [Pids -> BOOLEAN]
NamesOK ==
  /\ registry \in [Names -> Pids \cup {NoPid}]
  /\ names \in [Pids -> [Names -> Nat]]
  /\ owner \in [Names -> Pids \cup {NoPid}]
TagsOK ==
  /\ tags \in [Tags -> SUBSET Pids]
  /\ held \in [Pids -> [Tags -> Nat]]
  /\ joined \subseteq Tags \X Pids
CallsOK ==
  /\ call \in [Callers -> {Idle}
       \cup [op : {"spawn"}, name : Names, pid : {NoPid}]
       \cup [op : {"forget", "claim", "lost", "again"}, name : Names, pid : Pids]
       \cup [op : {"forget_tag", "kill_tag"}, tag : Tags, pids : SUBSET Pids]]
  /\ left \in [Ops -> Nat]
  /\ candidates \subseteq Pids
  /\ answers \subseteq [name : Names, pid : Pids]

TypeOK == ProcsOK /\ NamesOK /\ TagsOK /\ CallsOK

Released(p) ==
  /\ phase[p] = "removed"
  /\ \A n \in Names : names[p][n] = 0
  /\ \A t \in Tags : held[p][t] = 0

\* A name belongs to the process it was granted to until that one ends or the
\* name is unregistered, whoever registers, exits or claims it meanwhile, and
\* is nobody's once its teardown is through (register, unregister,
\* deregister).  Except for a name that was granted anew between the two steps
\* of an unregister, with the list of its former holder still to be struck.
\* (Stated with the types of all variables.)
NamesFollowLife ==
  /\ TypeOK
  /\ \A n \in Names \ crossed :
       /\ owner[n] # NoPid /\ InTable(owner[n]) => registry[n] = owner[n]
       /\ registry[n] # NoPid => owner[n] = registry[n] /\ ~Released(registry[n])
  /\ crossed \subseteq unregistered

\* The same of groups: in a group are those who joined it and did not leave it,
\* each until its end (register_tag, unregister_tag, deregister), and no longer
\* - except for one that joined anew between the two steps of its leaving.
TagsFollowLife ==
  \A t \in Tags, p \in Pids :
    /\ p \in tags[t] => <<t, p>> \in joined
    /\ <<t, p>> \in joined /\ InTable(p) => p \in tags[t]
    /\ Released(p) /\ p \in tags[t] => <<t, p>> \in crossed

\* Two callers of whereis_or_spawn never go away with two processes that are
\* both meant to live, however their spawns and claims interleave, unless
\* the name was unregistered; and a candidate that lost is reaped: once its
\* caller is done with it, some caller was answered it, or it is killed.
SingletonAgreement ==
  /\ \A a, b \in answers :
       a.name = b.name /\ a.name \notin unregistered /\ a.pid # b.pid
         => \/ ~InTable(a.pid) \/ aborted[a.pid]
            \/ ~InTable(b.pid) \/ aborted[b.pid]
  /\ \A p \in candidates :
       \/ \E a \in answers : a.pid = p
       \/ \E c \in Callers : call[c].op \in {"claim", "lost"} /\ call[c].pid = p
       \/ aborted[p]

\* A dead process gives its names back in the end, but for those that crossed
\* an unregister.
NameFreed ==
  \A p \in Pids, n \in Names :
    phase[p] = "removed" ~> registry[n] # p \/ n \in crossed

\* runtime.rs:879-880 of register: "Names are released automatically when the
\* process exits": a teardown that is through leaves no name behind, however
\* the names came and went.
NameReleasedOnExit ==
  \A n \in Names : registry[n] # NoPid => ~Released(registry[n])

\* runtime.rs:945-946 of register_tag: "Tags are released automatically on exit
\* (like names)", and runtime.rs:975-976 of whereis_tag: "The set holds only live
\* pids".
TagReleasedOnExit ==
  \A t \in Tags : \A p \in tags[t] : ~Released(p)

=============================================================================
