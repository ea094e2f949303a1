--------------------------- MODULE RegistryProofs ---------------------------
(***************************************************************************)
(* What holds of names and groups for every number of processes, callers,  *)
(* names, tags and calls: the type invariant, that names and groups follow *)
(* the life of their holders, and that get-or-spawn agrees on one process. *)
(***************************************************************************)
EXTENDS Registry, TLAPS

USE BoundsAssumption

-----------------------------------------------------------------------------
(* Type correctness.                                                       *)

LEMMA TypeInit == Init => TypeOK
BY DEF Init, TypeOK, ProcsOK, NamesOK, TagsOK, CallsOK, Pids, NoPid

\* What a call in flight is about.
LEMMA CallFields ==
  ASSUME CallsOK, NEW c \in Callers
  PROVE  /\ call[c].op \in {"spawn", "forget", "claim", "lost", "again"}
              => call[c].name \in Names
         /\ call[c].op \in {"forget", "claim", "lost", "again"}
              => call[c].pid \in Pids
         /\ call[c].op \in {"forget_tag", "kill_tag"}
              => call[c].tag \in Tags /\ call[c].pids \in SUBSET Pids
BY DEF CallsOK, Idle

LEMMA EnterType == ProcsOK /\ Enter => nextId \in Pids /\ nextId' \in 1 .. MaxProcs + 1
BY DEF ProcsOK, Enter, Pids

LEMMA ProcsStep == TypeOK /\ [Next]_vars => ProcsOK'
<1> SUFFICES ASSUME TypeOK, [Next]_vars PROVE ProcsOK'
  OBVIOUS
<1>0. ProcsOK /\ CallsOK
  BY DEF TypeOK
<1>1. ASSUME Enter, UNCHANGED aborted PROVE ProcsOK'
  BY <1>0, <1>1 DEF Enter, ProcsOK, Pids
<1>2. ASSUME NEW p \in Pids, Leaves(p) PROVE ProcsOK'
  BY <1>0, <1>2 DEF Leaves, ProcsOK, Pids
<1>3. ASSUME NEW c \in Callers, KillCandidate(c) PROVE ProcsOK'
  BY <1>0, <1>3 DEF KillCandidate, ProcsOK
<1>4. ASSUME NEW c \in Callers, KillMembers(c) PROVE ProcsOK'
  BY <1>0, <1>4 DEF KillMembers, ProcsOK
<1>5. CASE UNCHANGED procs
  BY <1>0, <1>5 DEF procs, ProcsOK
<1> QED
  BY <1>1, <1>2, <1>3, <1>4, <1>5
  DEF Next, vars, Spawn, ReleaseName, ReleaseTag, Register, UnregisterName,
      ForgetName, Lookup, SpawnCandidate, ClaimName, LookupAgain, RegisterTag,
      UnregisterTag, ForgetTag, SnapshotTag

\* What a grant does to the names.
LEMMA GrantType ==
  ASSUME NamesOK, NEW n \in Names, NEW p \in Pids, Grant(n, p)
  PROVE  NamesOK'
BY DEF Grant, NamesOK

LEMMA NamesStep == TypeOK /\ [Next]_vars => NamesOK'
<1> SUFFICES ASSUME TypeOK, [Next]_vars PROVE NamesOK'
  OBVIOUS
<1>0. NamesOK /\ CallsOK
  BY DEF TypeOK
<1>1. ASSUME NEW p \in Pids, NEW n \in Names, ReleaseName(p, n) PROVE NamesOK'
  BY <1>0, <1>1 DEF ReleaseName, NamesOK
<1>2. ASSUME NEW n \in Names, NEW p \in Pids, Register(n, p) PROVE NamesOK'
  BY <1>0, <1>2, GrantType DEF Register
<1>3. ASSUME NEW c \in Callers, NEW n \in Names, UnregisterName(c, n)
      PROVE NamesOK'
  BY <1>0, <1>3 DEF UnregisterName, NamesOK
<1>4. ASSUME NEW c \in Callers, ForgetName(c) PROVE NamesOK'
  BY <1>0, <1>4, CallFields DEF ForgetName, NamesOK
<1>5. ASSUME NEW c \in Callers, ClaimName(c) PROVE NamesOK'
  <2>1. CASE Grant(call[c].name, call[c].pid)
    BY <1>0, <1>5, <2>1, CallFields, GrantType DEF ClaimName
  <2>2. CASE UNCHANGED <<registry, names, owner>>
    BY <1>0, <2>2 DEF NamesOK
  <2> QED BY <1>5, <2>1, <2>2 DEF ClaimName
<1>6. CASE UNCHANGED <<registry, names, owner>>
  BY <1>0, <1>6 DEF NamesOK
<1> QED
  BY <1>1, <1>2, <1>3, <1>4, <1>5, <1>6
  DEF Next, vars, Spawn, Leaves, ReleaseTag, Lookup, SpawnCandidate,
      KillCandidate, LookupAgain, RegisterTag, UnregisterTag, ForgetTag,
      SnapshotTag, KillMembers

LEMMA TagsStep == TypeOK /\ [Next]_vars => TagsOK'
<1> SUFFICES ASSUME TypeOK, [Next]_vars PROVE TagsOK'
  OBVIOUS
<1>0. TagsOK /\ CallsOK
  BY DEF TypeOK
<1>1. ASSUME NEW p \in Pids, NEW t \in Tags, ReleaseTag(p, t) PROVE TagsOK'
  BY <1>0, <1>1 DEF ReleaseTag, TagsOK
<1>2. ASSUME NEW t \in Tags, NEW p \in Pids, RegisterTag(t, p) PROVE TagsOK'
  BY <1>0, <1>2 DEF RegisterTag, Join, TagsOK
<1>3. ASSUME NEW c \in Callers, NEW t \in Tags, NEW p \in Pids,
             UnregisterTag(c, t, p) PROVE TagsOK'
  BY <1>0, <1>3 DEF UnregisterTag, TagsOK
<1>4. ASSUME NEW c \in Callers, ForgetTag(c) PROVE TagsOK'
  <2>1. ASSUME NEW p \in Pids
        PROVE  [held[p] EXCEPT ![call[c].tag] = 0] \in [Tags -> Nat]
    BY <1>0 DEF TagsOK
  <2> QED BY <1>0, <1>4, <2>1 DEF ForgetTag, TagsOK
<1>5. CASE UNCHANGED groups
  BY <1>0, <1>5 DEF groups, TagsOK
<1> QED
  BY <1>1, <1>2, <1>3, <1>4, <1>5
  DEF Next, vars, Spawn, Leaves, ReleaseName, Register, UnregisterName,
      ForgetName, Lookup, SpawnCandidate, ClaimName, KillCandidate,
      LookupAgain, SnapshotTag, KillMembers

LEMMA CallsStep == TypeOK /\ [Next]_vars => CallsOK'
<1> SUFFICES ASSUME TypeOK, [Next]_vars PROVE CallsOK'
  OBVIOUS
<1>0. ProcsOK /\ CallsOK /\ NamesOK /\ TagsOK
  BY DEF TypeOK
<1>a. ASSUME NEW op \in Ops, Called(op) PROVE left' \in [Ops -> Nat]
  BY <1>0, <1>a DEF Called, CallsOK
<1>b. {"register", "unregister", "whereis_or_spawn", "register_tag",
       "unregister_tag", "kill_tag"} \subseteq Ops
  BY DEF Ops
<1>c. ASSUME NEW c \in Callers, NEW n \in Names, NEW p \in Pids, Answer(c, n, p)
      PROVE  /\ answers' \subseteq [name : Names, pid : Pids]
             /\ call' = [call EXCEPT ![c] = Idle]
  BY <1>0, <1>c DEF Answer, CallsOK
<1>1. ASSUME NEW c \in Callers, NEW n \in Names, UnregisterName(c, n)
      PROVE CallsOK'
  BY <1>0, <1>a, <1>b, <1>1 DEF UnregisterName, CallsOK, NamesOK, Naming
<1>2. ASSUME NEW c \in Callers, NEW n \in Names, Lookup(c, n) PROVE CallsOK'
  <2>1. left' \in [Ops -> Nat] /\ candidates' = candidates
    BY <1>a, <1>b, <1>2 DEF Lookup
  <2>2. CASE registry[n] # NoPid
    BY <1>0, <1>2, <1>c, <2>1, <2>2 DEF Lookup, CallsOK, NamesOK
  <2>3. CASE registry[n] = NoPid
    BY <1>0, <1>2, <2>1, <2>3 DEF Lookup, CallsOK, Naming
  <2> QED BY <2>2, <2>3
<1>3. ASSUME NEW c \in Callers, SpawnCandidate(c) PROVE CallsOK'
  <2>1. nextId \in Pids /\ call[c].name \in Names
    BY <1>0, <1>3, CallFields, EnterType DEF SpawnCandidate
  <2> QED BY <1>0, <1>3, <2>1 DEF SpawnCandidate, CallsOK, Naming
<1>4. ASSUME NEW c \in Callers, ClaimName(c) PROVE CallsOK'
  <2>1. call[c].name \in Names /\ call[c].pid \in Pids
    BY <1>0, <1>4, CallFields DEF ClaimName
  <2>2. UNCHANGED <<left, candidates>>
    BY <1>4 DEF ClaimName
  <2>3. CASE Answer(c, call[c].name, call[c].pid)
    BY <1>0, <1>c, <2>1, <2>2, <2>3 DEF CallsOK
  <2>4. CASE /\ call' = [call EXCEPT ![c] = Naming("lost", call[c].name, call[c].pid)]
             /\ UNCHANGED answers
    BY <1>0, <2>1, <2>2, <2>4 DEF CallsOK, Naming
  <2> QED BY <1>4, <2>3, <2>4 DEF ClaimName
<1>5. ASSUME NEW c \in Callers, KillCandidate(c) PROVE CallsOK'
  <2>1. call[c].name \in Names /\ call[c].pid \in Pids
    BY <1>0, <1>5, CallFields DEF KillCandidate
  <2> QED BY <1>0, <1>5, <2>1 DEF KillCandidate, history, CallsOK, Naming
<1>6. ASSUME NEW c \in Callers, LookupAgain(c) PROVE CallsOK'
  <2>1. call[c].name \in Names /\ call[c].pid \in Pids
    BY <1>0, <1>6, CallFields DEF LookupAgain
  <2>2. (IF registry[call[c].name] # NoPid THEN registry[call[c].name]
         ELSE call[c].pid) \in Pids
    BY <1>0, <2>1 DEF NamesOK
  <2> QED BY <1>0, <1>6, <1>c, <2>1, <2>2 DEF LookupAgain, CallsOK
<1>7. ASSUME NEW c \in Callers, NEW t \in Tags, NEW p \in Pids,
             UnregisterTag(c, t, p) PROVE CallsOK'
  BY <1>0, <1>a, <1>b, <1>7 DEF UnregisterTag, CallsOK, Grouping
<1>8. ASSUME NEW c \in Callers, NEW t \in Tags, SnapshotTag(c, t) PROVE CallsOK'
  BY <1>0, <1>a, <1>b, <1>8 DEF SnapshotTag, history, CallsOK, TagsOK, Grouping
<1>9. ASSUME NEW c \in Callers, ForgetName(c) \/ ForgetTag(c) \/ KillMembers(c)
      PROVE CallsOK'
  BY <1>0, <1>9 DEF ForgetName, ForgetTag, KillMembers, history, CallsOK
<1>10. ASSUME Called("register") \/ Called("register_tag"),
              UNCHANGED <<call, candidates, answers>> PROVE CallsOK'
  BY <1>0, <1>a, <1>b, <1>10 DEF CallsOK
<1>11. CASE UNCHANGED <<call, left, candidates, answers>>
  BY <1>0, <1>11 DEF CallsOK
<1> QED
  BY <1>1, <1>2, <1>3, <1>4, <1>5, <1>6, <1>7, <1>8, <1>9, <1>10, <1>11
  DEF Next, vars, history, Spawn, Leaves, ReleaseName, ReleaseTag, Register,
      RegisterTag

\* Every variable stays within its type: above all, a call in flight names
\* processes and names that exist.
THEOREM TypeCorrect == Spec => []TypeOK
<1>1. TypeOK /\ [Next]_vars => TypeOK'
  BY ProcsStep, NamesStep, TagsStep, CallsStep DEF TypeOK
<1> QED BY TypeInit, <1>1, PTL DEF Spec

-----------------------------------------------------------------------------
(* Who is named anywhere was spawned.                                      *)

Spawned(p) == p < nextId
IssuedInv ==
  /\ \A n \in Names : Spawned(registry[n]) /\ Spawned(owner[n])
  /\ \A t \in Tags, p \in Pids : <<t, p>> \in joined => Spawned(p)
  /\ \A t \in Tags : \A p \in tags[t] : Spawned(p)
  /\ \A c \in Callers :
       /\ call[c].op \in {"forget", "claim", "lost", "again"} => Spawned(call[c].pid)
       /\ call[c].op = "forget_tag" => \A p \in call[c].pids : Spawned(p)
  /\ \A a \in answers : Spawned(a.pid)

LEMMA IssuedInit == Init => IssuedInv
BY DEF Init, IssuedInv, Spawned, Idle, NoPid

LEMMA InTableSpawned ==
  ASSUME ProcsOK, NEW p, InTable(p)
  PROVE  Spawned(p)
BY DEF ProcsOK, InTable, Spawned, Pids

LEMMA IssuedStep == TypeOK /\ IssuedInv /\ [Next]_vars => IssuedInv'
<1> SUFFICES ASSUME TypeOK, IssuedInv, [Next]_vars PROVE IssuedInv'
  OBVIOUS
<1>0. ProcsOK /\ NamesOK /\ TagsOK /\ CallsOK /\ nextId \in Nat /\ NoPid < nextId
  BY DEF TypeOK, ProcsOK, NoPid
<1> USE DEF IssuedInv, Spawned
<1>a. /\ \A n \in Names : registry[n] < nextId /\ owner[n] < nextId
      /\ \A t \in Tags, p \in Pids : <<t, p>> \in joined => p < nextId
      /\ \A t \in Tags : \A p \in tags[t] : p < nextId
      /\ \A c \in Callers :
           /\ call[c].op \in {"forget", "claim", "lost", "again"} => call[c].pid < nextId
           /\ call[c].op = "forget_tag" => \A p \in call[c].pids : p < nextId
      /\ \A a \in answers : a.pid < nextId
  OBVIOUS
<1>b. nextId \in Nat /\ nextId' \in Nat /\ nextId <= nextId'
  <2>1. CASE Enter
    BY <1>0, <2>1 DEF Enter
  <2>2. CASE UNCHANGED nextId
    BY <1>0, <2>2
  <2> QED
    BY <2>1, <2>2
    DEF Next, vars, procs, Spawn, Leaves, ReleaseName, ReleaseTag, Register,
        UnregisterName, ForgetName, Lookup, SpawnCandidate, ClaimName, KillCandidate,
        LookupAgain, RegisterTag, UnregisterTag, ForgetTag, SnapshotTag, KillMembers
\* The names.
<1>1. ASSUME NEW n \in Names PROVE registry'[n] < nextId' /\ owner'[n] < nextId'
  <2>0. /\ registry[n] \in Nat /\ owner[n] \in Nat
        /\ registry[n] < nextId /\ owner[n] < nextId /\ NoPid \in Nat
    BY <1>0, <1>a DEF NamesOK, Pids, NoPid
  <2>1. ASSUME NEW m \in Names, NEW p \in Pids, InTable(p), Grant(m, p)
        PROVE  registry'[n] < nextId' /\ owner'[n] < nextId'
    <3>1. p < nextId /\ p \in Nat
      BY <1>0, <2>1, InTableSpawned DEF Pids
    <3>2. registry'[n] \in {registry[n], p} /\ owner'[n] \in {owner[n], p}
      BY <1>0, <2>1 DEF Grant, NamesOK
    <3> QED BY <1>b, <2>0, <3>1, <3>2
  <2>2. CASE registry'[n] \in {registry[n], NoPid} /\ owner'[n] \in {owner[n], NoPid}
    BY <1>0, <1>b, <2>0, <2>2
  <2>3. CASE \E p \in Pids, m \in Names : ReleaseName(p, m)
    BY <1>0, <2>2, <2>3 DEF ReleaseName, NamesOK
  <2>4. CASE \E m \in Names, p \in Pids : Register(m, p)
    BY <2>1, <2>4 DEF Register
  <2>5. CASE \E c \in Callers, m \in Names : UnregisterName(c, m)
    BY <1>0, <2>2, <2>5 DEF UnregisterName, NamesOK
  <2>6. CASE \E c \in Callers : ClaimName(c)
    BY <1>0, <2>1, <2>2, <2>6, CallFields DEF ClaimName
  <2>7. CASE UNCHANGED <<registry, owner>>
    BY <2>2, <2>7
  <2> QED
    BY <2>3, <2>4, <2>5, <2>6, <2>7
    DEF Next, vars, Spawn, Leaves, ReleaseTag, ForgetName, Lookup, SpawnCandidate,
        KillCandidate, LookupAgain, RegisterTag, UnregisterTag, ForgetTag, SnapshotTag,
        KillMembers
\* The groups.
<1>2. ASSUME NEW t \in Tags, NEW p \in Pids, <<t, p>> \in joined' \/ p \in tags'[t]
      PROVE  p < nextId'
  <2>1. CASE <<t, p>> \in joined \/ p \in tags[t]
    <3>1. p < nextId /\ p \in Nat
      BY <1>a, <2>1 DEF Pids
    <3> QED BY <1>b, <3>1
  <2>2. CASE InTable(p)
    <3>1. p < nextId /\ p \in Nat
      BY <1>0, <2>2, InTableSpawned DEF Pids
    <3> QED BY <1>b, <3>1
  <2>3. CASE \E q \in Pids, s \in Tags : ReleaseTag(q, s)
    BY <1>0, <1>2, <2>1, <2>3 DEF ReleaseTag, TagsOK
  <2>4. CASE \E s \in Tags, q \in Pids : RegisterTag(s, q)
    BY <1>0, <1>2, <2>1, <2>2, <2>4 DEF RegisterTag, Join, TagsOK
  <2>5. CASE \E c \in Callers, s \in Tags, q \in Pids : UnregisterTag(c, s, q)
    BY <1>0, <1>2, <2>1, <2>5 DEF UnregisterTag, TagsOK
  <2>6. CASE UNCHANGED <<tags, joined>>
    BY <1>2, <2>1, <2>6
  <2> QED
    BY <2>3, <2>4, <2>5, <2>6
    DEF Next, vars, groups, Spawn, Leaves, ReleaseName, Register, UnregisterName,
        ForgetName, Lookup, SpawnCandidate, ClaimName, KillCandidate, LookupAgain,
        ForgetTag, SnapshotTag, KillMembers
\* The calls in flight.
<1>3. ASSUME NEW c \in Callers
      PROVE  /\ call'[c].op \in {"forget", "claim", "lost", "again"} => call'[c].pid < nextId'
             /\ call'[c].op = "forget_tag" => \A p \in call'[c].pids : p < nextId'
  <2>1. CASE call'[c] = call[c]
    <3>1. /\ call[c].op \in {"forget", "claim", "lost", "again"}
               => call[c].pid \in Nat /\ call[c].pid < nextId
          /\ call[c].op = "forget_tag"
               => \A p \in call[c].pids : p \in Nat /\ p < nextId
      BY <1>0, <1>a, CallFields DEF Pids
    <3> QED BY <1>b, <2>1, <3>1
  <2>2. CASE call'[c].op \in {"idle", "spawn", "kill_tag"}
    BY <2>2
  <2>3. ASSUME NEW op, NEW n, NEW p \in Nat, p < nextId', call'[c] = Naming(op, n, p),
               op # "forget_tag"
        PROVE  <1>3!2
    BY <2>3 DEF Naming
  <2>4. CASE \E d \in Callers, n \in Names : UnregisterName(d, n)
    <3>1. PICK d \in Callers, n \in Names : UnregisterName(d, n)
      BY <2>4
    <3>2. registry[n] \in Nat /\ registry[n] < nextId
      BY <1>0, <1>a DEF NamesOK, Pids, NoPid
    <3>3. registry[n] < nextId'
      BY <1>b, <3>2
    <3>4. call'[c] = call[c] \/ call'[c] = Naming("forget", n, registry[n])
      BY <1>0, <3>1 DEF UnregisterName, CallsOK
    <3> QED BY <2>1, <2>3, <3>2, <3>3, <3>4
  <2>5. CASE \E d \in Callers : SpawnCandidate(d)
    <3>1. PICK d \in Callers : SpawnCandidate(d)
      BY <2>5
    <3>2. call'[c] = call[c] \/ call'[c] = Naming("claim", call[d].name, nextId)
      BY <1>0, <3>1 DEF SpawnCandidate, CallsOK
    <3>3. nextId < nextId'
      BY <1>0, <3>1 DEF SpawnCandidate, Enter
    <3> QED BY <1>0, <2>1, <2>3, <3>2, <3>3
  <2>6. CASE \E d \in Callers : ClaimName(d) \/ KillCandidate(d)
    <3>1. PICK d \in Callers : ClaimName(d) \/ KillCandidate(d)
      BY <2>6
    <3>2. call[d].op \in {"claim", "lost"}
      BY <3>1 DEF ClaimName, KillCandidate
    <3>3. call[d].pid \in Nat /\ call[d].pid < nextId
      BY <1>0, <1>a, <3>2, CallFields DEF Pids
    <3>4. call[d].pid < nextId'
      BY <1>b, <3>3
    <3>5. \/ call'[c] = call[c] \/ call'[c] = Idle
          \/ call'[c] = Naming("lost", call[d].name, call[d].pid)
          \/ call'[c] = Naming("again", call[d].name, call[d].pid)
      BY <1>0, <3>1 DEF ClaimName, KillCandidate, Answer, CallsOK
    <3>6. Idle.op = "idle"
      BY DEF Idle
    <3> QED BY <2>1, <2>2, <2>3, <3>3, <3>4, <3>5, <3>6
  <2>7. CASE \E d \in Callers, t \in Tags, p \in Pids : UnregisterTag(d, t, p)
    <3>1. PICK d \in Callers, t \in Tags, p \in Pids : UnregisterTag(d, t, p)
      BY <2>7
    <3>2. p \in Nat /\ p < nextId
      BY <1>a, <3>1 DEF UnregisterTag, Pids
    <3>3. p < nextId'
      BY <1>b, <3>2
    <3>4. call'[c] = call[c] \/ call'[c] = Grouping("forget_tag", t, {p})
      BY <1>0, <3>1 DEF UnregisterTag, CallsOK
    <3> QED BY <2>1, <3>3, <3>4 DEF Grouping
  <2>8. CASE \E d \in Callers :
               \/ ForgetName(d) \/ LookupAgain(d) \/ ForgetTag(d) \/ KillMembers(d)
               \/ \E n \in Names : Lookup(d, n)
               \/ \E t \in Tags : SnapshotTag(d, t)
    <3>1. PICK d \in Callers :
               \/ ForgetName(d) \/ LookupAgain(d) \/ ForgetTag(d) \/ KillMembers(d)
               \/ \E n \in Names : Lookup(d, n)
               \/ \E t \in Tags : SnapshotTag(d, t)
      BY <2>8
    <3>2. \/ call' = [call EXCEPT ![d] = Idle]
          \/ \E n : call' = [call EXCEPT ![d] = Naming("spawn", n, NoPid)]
          \/ \E t, P : call' = [call EXCEPT ![d] = Grouping("kill_tag", t, P)]
      BY <3>1 DEF ForgetName, LookupAgain, ForgetTag, KillMembers, Lookup, SnapshotTag,
         Answer
    <3>3. call'[c] = call[c] \/ call'[c].op \in {"idle", "spawn", "kill_tag"}
      BY <1>0, <3>2 DEF CallsOK, Idle, Naming, Grouping
    <3> QED BY <2>1, <2>2, <3>3
  <2>9. CASE UNCHANGED call
    BY <2>1, <2>9
  <2> QED
    BY <2>4, <2>5, <2>6, <2>7, <2>8, <2>9
    DEF Next, vars, Spawn, Leaves, ReleaseName, ReleaseTag, Register, RegisterTag
\* The answers.
<1>4. ASSUME NEW a \in answers' PROVE a.pid < nextId'
  <2>1. CASE a \in answers
    <3>1. a.pid \in Nat /\ a.pid < nextId
      BY <1>0, <1>a, <2>1 DEF CallsOK, Pids
    <3> QED BY <1>b, <3>1
  <2>2. ASSUME NEW n, NEW p \in Nat, p < nextId, a = [name |-> n, pid |-> p]
        PROVE  a.pid < nextId'
    BY <1>b, <2>2
  <2>3. \A n \in Names : registry[n] \in Nat /\ registry[n] < nextId
    BY <1>0, <1>a DEF NamesOK, Pids, NoPid
  <2>4. \A c \in Callers : call[c].op \in {"claim", "again"} =>
          call[c].name \in Names /\ call[c].pid \in Nat /\ call[c].pid < nextId
    BY <1>0, <1>a, CallFields DEF Pids
  <2>5. CASE \E c \in Callers, n \in Names : Lookup(c, n)
    BY <1>4, <2>1, <2>2, <2>3, <2>5 DEF Lookup, Answer
  <2>6. CASE \E c \in Callers : ClaimName(c)
    BY <1>4, <2>1, <2>2, <2>4, <2>6 DEF ClaimName, Answer
  <2>7. CASE \E c \in Callers : LookupAgain(c)
    BY <1>4, <2>1, <2>2, <2>3, <2>4, <2>7 DEF LookupAgain, Answer
  <2>8. CASE UNCHANGED answers
    BY <1>4, <2>1, <2>8
  <2> QED
    BY <2>5, <2>6, <2>7, <2>8
    DEF Next, vars, history, Spawn, Leaves, ReleaseName, ReleaseTag, Register,
        UnregisterName, ForgetName, SpawnCandidate, KillCandidate, RegisterTag,
        UnregisterTag, ForgetTag, SnapshotTag, KillMembers
<1>5. \A t \in Tags : tags'[t] \subseteq Pids
  BY TagsStep DEF TagsOK
<1> QED BY <1>1, <1>2, <1>3, <1>4, <1>5

-----------------------------------------------------------------------------
(* Names.                                                                  *)

\* The registry and the lists of the entries agree on every name that nobody
\* unregistered: the list of its holder has it once, no other list has it.
\* That is why a teardown that releases by name takes nobody else's.
ListsAgree ==
  \A n \in Names \ unregistered :
    /\ \A p \in Pids : names[p][n] = IF registry[n] = p THEN 1 ELSE 0
    /\ InTable(owner[n]) => registry[n] = owner[n]
\* Only names that were unregistered are ever struck off a list.
ForgetsUnregistered ==
  \A c \in Callers : call[c].op = "forget" => call[c].name \in unregistered
NamesInv == ListsAgree /\ ForgetsUnregistered

LEMMA NamesInit == Init => NamesInv
BY DEF Init, NamesInv, ListsAgree, ForgetsUnregistered, Idle, NoPid, Pids, InTable

\* A name that is free is on no list, and is then on one.
LEMMA GrantKeepsLists ==
  ASSUME NamesOK, ListsAgree, NEW n \in Names, NEW p \in Pids,
         registry[n] = NoPid, Grant(n, p), UNCHANGED <<phase, unregistered>>
  PROVE  ListsAgree'
<1>1. ASSUME NEW m \in Names \ unregistered, NEW q \in Pids
      PROVE  names'[q][m] = IF registry'[m] = q THEN 1 ELSE 0
  BY <1>1 DEF Grant, NamesOK, ListsAgree, NoPid, Pids
<1>2. ASSUME NEW m \in Names \ unregistered, InTable(owner'[m])
      PROVE  registry'[m] = owner'[m]
  BY <1>2 DEF Grant, NamesOK, ListsAgree
<1> QED BY <1>1, <1>2 DEF ListsAgree, InTable

LEMMA ListsStep == TypeOK /\ IssuedInv /\ NamesInv /\ [Next]_vars => ListsAgree'
<1> SUFFICES ASSUME TypeOK, IssuedInv, NamesInv, [Next]_vars PROVE ListsAgree'
  OBVIOUS
<1>0. /\ ProcsOK /\ NamesOK /\ CallsOK
      /\ ListsAgree /\ ForgetsUnregistered
  BY DEF TypeOK, NamesInv
<1>1. ASSUME Enter, UNCHANGED <<registry, names, owner, unregistered>>
      PROVE  ListsAgree'
  <2>1. \A n \in Names : owner[n] # nextId
    BY <1>0 DEF IssuedInv, Spawned, ProcsOK
  <2> QED BY <1>0, <1>1, <2>1 DEF Enter, InTable, ListsAgree, ProcsOK
<1>2. ASSUME NEW p \in Pids, Leaves(p) PROVE ListsAgree'
  BY <1>0, <1>2 DEF Leaves, InTable, ListsAgree, ProcsOK, history
\* The one list that has the name is that of its holder, who is gone.
<1>3. ASSUME NEW p \in Pids, NEW n \in Names, ReleaseName(p, n) PROVE ListsAgree'
  <2>1. CASE n \in unregistered
    BY <1>0, <1>3, <2>1 DEF ReleaseName, ListsAgree, InTable, NamesOK, procs, history
  <2>2. CASE n \notin unregistered
    <3>1. registry[n] = p /\ names[p][n] = 1 /\ ~InTable(owner[n])
      BY <1>0, <1>3, <2>2 DEF ReleaseName, ListsAgree, InTable
    <3>2. \A q \in Pids : names'[q][n] = 0
      BY <1>0, <1>3, <2>2, <3>1 DEF ReleaseName, ListsAgree, NamesOK
    <3>3. \A q \in Pids, m \in Names \ {n} : names'[q][m] = names[q][m]
      BY <1>0, <1>3 DEF ReleaseName, NamesOK
    <3>4. /\ registry' = [registry EXCEPT ![n] = NoPid] /\ NoPid \notin Pids
          /\ UNCHANGED <<phase, owner, unregistered>>
      BY <1>3 DEF ReleaseName, procs, history, NoPid, Pids
    <3> QED BY <1>0, <3>1, <3>2, <3>3, <3>4 DEF ListsAgree, InTable, NamesOK
  <2> QED BY <2>1, <2>2
<1>4. ASSUME NEW n \in Names, NEW p \in Pids, Register(n, p) PROVE ListsAgree'
  BY <1>0, <1>4, GrantKeepsLists DEF Register, procs, history
<1>5. ASSUME NEW c \in Callers, ClaimName(c) PROVE ListsAgree'
  <2>1. call[c].name \in Names /\ call[c].pid \in Pids
    BY <1>0, <1>5, CallFields DEF ClaimName
  <2>2. UNCHANGED <<phase, unregistered>>
    BY <1>5 DEF ClaimName, procs
  <2>3. CASE InTable(call[c].pid) /\ registry[call[c].name] = NoPid
    BY <1>0, <1>5, <2>1, <2>2, <2>3, GrantKeepsLists DEF ClaimName
  <2>4. CASE UNCHANGED <<registry, names, owner>>
    BY <1>0, <2>2, <2>4 DEF ListsAgree, InTable
  <2> QED BY <1>5, <2>3, <2>4 DEF ClaimName
<1>6. ASSUME NEW c \in Callers, NEW n \in Names, UnregisterName(c, n)
      PROVE  ListsAgree'
  BY <1>0, <1>6 DEF UnregisterName, ListsAgree, InTable, NamesOK, procs
<1>7. ASSUME NEW c \in Callers, ForgetName(c) PROVE ListsAgree'
  BY <1>0, <1>7, CallFields
  DEF ForgetName, ForgetsUnregistered, ListsAgree, InTable, NamesOK, procs, history
<1>8. CASE /\ UNCHANGED <<phase, registry, names, owner>>
           /\ unregistered \subseteq unregistered'
  BY <1>0, <1>8 DEF ListsAgree, InTable
<1> QED
  BY <1>1, <1>2, <1>3, <1>4, <1>5, <1>6, <1>7, <1>8
  DEF Next, vars, procs, groups, history, Spawn, ReleaseTag, Lookup, SpawnCandidate,
      KillCandidate, LookupAgain, RegisterTag, UnregisterTag, ForgetTag,
      SnapshotTag, KillMembers

LEMMA ForgetsStep ==
  TypeOK /\ ForgetsUnregistered /\ [Next]_vars => ForgetsUnregistered'
<1> SUFFICES ASSUME TypeOK, ForgetsUnregistered, [Next]_vars
             PROVE  ForgetsUnregistered'
  OBVIOUS
<1>0. CallsOK
  BY DEF TypeOK
<1> USE DEF ForgetsUnregistered
<1>1. ASSUME NEW c \in Callers, NEW n \in Names, UnregisterName(c, n)
      PROVE  ForgetsUnregistered'
  BY <1>0, <1>1 DEF UnregisterName, CallsOK, Naming
<1>2. ASSUME NEW c \in Callers, UNCHANGED unregistered,
             \/ call' = [call EXCEPT ![c] = Idle]
             \/ \E n, p : call' = [call EXCEPT ![c] = Naming("spawn", n, p)]
             \/ \E n, p : call' = [call EXCEPT ![c] = Naming("claim", n, p)]
             \/ \E n, p : call' = [call EXCEPT ![c] = Naming("lost", n, p)]
             \/ \E n, p : call' = [call EXCEPT ![c] = Naming("again", n, p)]
             \/ \E t, P : call' = [call EXCEPT ![c] = Grouping("kill_tag", t, P)]
      PROVE  ForgetsUnregistered'
  BY <1>0, <1>2 DEF CallsOK, Idle, Naming, Grouping
<1>3. ASSUME NEW c \in Callers, NEW t \in Tags, NEW p \in Pids,
             UnregisterTag(c, t, p)
      PROVE  ForgetsUnregistered'
  BY <1>0, <1>3 DEF UnregisterTag, CallsOK, Grouping
<1>4. CASE UNCHANGED <<call, unregistered>>
  BY <1>4
<1>5. ASSUME NEW c \in Callers, NEW n \in Names, Lookup(c, n)
      PROVE  ForgetsUnregistered'
  BY <1>2, <1>5 DEF Lookup, Answer
<1>6. ASSUME NEW c \in Callers, CallStep(c) PROVE ForgetsUnregistered'
  BY <1>2, <1>6 DEF CallStep, ForgetName, SpawnCandidate, ClaimName, KillCandidate,
     LookupAgain, ForgetTag, KillMembers, Answer, history
<1>7. ASSUME NEW c \in Callers, NEW t \in Tags, SnapshotTag(c, t)
      PROVE  ForgetsUnregistered'
  BY <1>2, <1>7 DEF SnapshotTag, history
<1> QED
  BY <1>1, <1>3, <1>4, <1>5, <1>6, <1>7
  DEF Next, CallStep, vars, history, Spawn, Leaves, ReleaseName, ReleaseTag,
      Register, RegisterTag

\* Of a name that did not cross an unregister: the holder's list has it and no
\* other; it is the owner's while he lives; and an unregister that has still to
\* strike it off the list of a living process finds it there, is the only one,
\* and the name is not that process's any more.
Forgets(c, n) ==
  call[c].op = "forget" /\ call[c].name = n /\ InTable(call[c].pid)
Orderly(n) ==
  /\ registry[n] # NoPid =>
       /\ owner[n] = registry[n]
       /\ \A p \in Pids : names[p][n] > 0 <=> p = registry[n]
  /\ owner[n] # NoPid /\ InTable(owner[n]) => registry[n] = owner[n]
  /\ \A c \in Callers : Forgets(c, n) =>
       names[call[c].pid][n] > 0 /\ registry[n] # call[c].pid
  /\ \A c, d \in Callers :
       Forgets(c, n) /\ Forgets(d, n) /\ call[c].pid = call[d].pid => c = d
OrderlyInv == \A n \in Names \ crossed : Orderly(n)

LEMMA OrderlyInit == Init => OrderlyInv
BY DEF Init, OrderlyInv, Orderly, Forgets, Idle

\* Steps that leave a name alone, but for processes that end.
LEMMA OrderlyKept ==
  ASSUME NamesOK, CallsOK, NEW n \in Names, Orderly(n),
         UNCHANGED <<registry, owner, names>>,
         \A p \in Pids : InTable(p)' => InTable(p) \/
            (p # owner[n] /\ \A c \in Callers : call[c].op = "forget" => call[c].pid # p),
         \A c \in Callers : call'[c].op = "forget" => call'[c] = call[c]
  PROVE  Orderly(n)'
<1>1. ASSUME NEW c \in Callers, Forgets(c, n)'
      PROVE  Forgets(c, n) /\ call'[c] = call[c]
  BY <1>1, CallFields DEF Forgets
<1>2. InTable(owner[n])' /\ owner[n] # NoPid => InTable(owner[n])
  BY DEF NamesOK
<1> QED BY <1>1, <1>2 DEF Orderly

LEMMA OrderlyGrant ==
  ASSUME NamesOK, CallsOK, NEW n \in Names, n \notin crossed => Orderly(n), n \notin crossed',
         NEW m \in Names, NEW p \in Pids, InTable(p), registry[m] = NoPid, Grant(m, p),
         UNCHANGED phase,
         \A c \in Callers : call'[c].op = "forget" => call'[c] = call[c]
  PROVE  Orderly(n)'
<1>0. n \notin crossed /\ Orderly(n)
  BY DEF Grant
<1>1. ASSUME NEW c \in Callers, Forgets(c, n)'
      PROVE  Forgets(c, n) /\ call'[c] = call[c] /\ call[c].pid \in Pids
  BY <1>1, CallFields DEF Forgets, InTable
<1>2. CASE n = m
  <2>1. \A q \in Pids : names[q][n] = 0
    BY <1>2 DEF Grant, NamesOK
  <2>2. /\ registry'[n] = p /\ owner'[n] = p
        /\ \A q \in Pids : names'[q][n] = IF q = p THEN 1 ELSE 0
    BY <1>2, <2>1 DEF Grant, NamesOK
  <2>3. \A c \in Callers : ~Forgets(c, n)
    BY <1>0, <1>1, <2>1, CallFields DEF Forgets, Orderly
  <2> QED BY <1>1, <2>2, <2>3 DEF Orderly
<1>3. CASE n # m
  <2>1. /\ registry'[n] = registry[n] /\ owner'[n] = owner[n]
        /\ \A q \in Pids : names'[q][n] = names[q][n]
    BY <1>3 DEF Grant, NamesOK
  <2>2. InTable(owner[n])' <=> InTable(owner[n])
    BY <2>1 DEF InTable
  <2> QED BY <1>0, <1>1, <2>1, <2>2 DEF Orderly
<1> QED BY <1>2, <1>3

LEMMA OrderlyStep ==
  TypeOK /\ IssuedInv /\ OrderlyInv /\ [Next]_vars => OrderlyInv'
<1> SUFFICES ASSUME TypeOK, IssuedInv, OrderlyInv, [Next]_vars,
                    NEW n \in Names, n \notin crossed'
             PROVE  Orderly(n)'
  BY DEF OrderlyInv
<1>0. ProcsOK /\ NamesOK /\ CallsOK /\ (n \notin crossed => Orderly(n))
  BY DEF TypeOK, OrderlyInv
<1>a. ASSUME UNCHANGED crossed PROVE Orderly(n)
  BY <1>0, <1>a
\* Nobody is made anew who is named anywhere.
<1>1. ASSUME Enter, UNCHANGED <<registry, owner, names, crossed>>,
             \A c \in Callers : call'[c].op = "forget" => call'[c] = call[c]
      PROVE  Orderly(n)'
  <2>1. \A p \in Pids : InTable(p)' => InTable(p) \/ p = nextId
    BY <1>0, <1>1 DEF Enter, InTable, ProcsOK
  <2>2. /\ nextId # owner[n]
        /\ \A c \in Callers : call[c].op = "forget" => call[c].pid # nextId
    BY <1>0 DEF IssuedInv, Spawned, ProcsOK
  <2> QED BY <1>0, <1>1, <1>a, <2>1, <2>2, OrderlyKept
<1>2. ASSUME UNCHANGED <<registry, owner, names, crossed>>,
             \A p \in Pids : phase'[p] = "running" => phase[p] = "running",
             \A c \in Callers : call'[c].op = "forget" => call'[c] = call[c]
      PROVE  Orderly(n)'
  <2>1. \A p \in Pids : InTable(p)' => InTable(p)
    BY <1>2 DEF InTable
  <2> QED BY <1>0, <1>2, <1>a, <2>1, OrderlyKept
<1>3. ASSUME NEW p \in Pids, NEW m \in Names, ReleaseName(p, m) PROVE Orderly(n)'
  <2>0. /\ Orderly(n) /\ phase' = phase /\ call' = call /\ owner' = owner
        /\ phase[p] = "removed" /\ names[p][m] > 0
    BY <1>3, <1>a DEF ReleaseName, procs, history
  <2>1. CASE n = m
    <3>1. registry[n] # NoPid => registry[n] = p
      BY <1>0, <2>0, <2>1 DEF Orderly
    <3>2. owner[n] # NoPid => ~InTable(owner[n])
      BY <2>0, <3>1 DEF Orderly, InTable
    <3>3. registry'[n] = NoPid /\ \A q \in Pids \ {p} : names'[q][n] = names[q][n]
      BY <1>0, <1>3, <2>1 DEF ReleaseName, NamesOK
    <3>4. \A c \in Callers : Forgets(c, n)' => Forgets(c, n) /\ call[c].pid \in Pids \ {p}
      BY <2>0 DEF Forgets, InTable
    <3>5. InTable(owner[n])' <=> InTable(owner[n])
      BY <2>0 DEF InTable
    <3>6. NoPid \notin Pids
      BY DEF NoPid, Pids
    <3> QED BY <2>0, <3>2, <3>3, <3>4, <3>5, <3>6 DEF Orderly
  <2>2. CASE n # m
    <3>1. registry'[n] = registry[n] /\ \A q \in Pids : names'[q][n] = names[q][n]
      BY <1>0, <1>3, <2>2 DEF ReleaseName, NamesOK
    <3>2. \A c \in Callers : Forgets(c, n)' <=> Forgets(c, n) /\ call[c].pid \in Pids
      BY <2>0 DEF Forgets, InTable
    <3>3. InTable(owner[n])' <=> InTable(owner[n])
      BY <2>0 DEF InTable
    <3> QED BY <2>0, <3>1, <3>2, <3>3 DEF Orderly
  <2> QED BY <2>1, <2>2
<1>4. ASSUME NEW m \in Names, NEW p \in Pids, Register(m, p) PROVE Orderly(n)'
  <2>1. /\ InTable(p) /\ registry[m] = NoPid /\ Grant(m, p)
        /\ UNCHANGED <<phase, call>>
    BY <1>4 DEF Register, procs
  <2> QED BY <1>0, <2>1, OrderlyGrant
<1>5. ASSUME NEW c \in Callers, ClaimName(c) PROVE Orderly(n)'
  <2>1. /\ call[c].name \in Names /\ call[c].pid \in Pids
        /\ UNCHANGED phase
    BY <1>0, <1>5, CallFields DEF ClaimName, procs
  <2>2. \A d \in Callers : call'[d].op = "forget" => call'[d] = call[d]
    BY <1>0, <1>5 DEF ClaimName, Answer, CallsOK, Idle, Naming
  <2>3. CASE /\ InTable(call[c].pid) /\ registry[call[c].name] = NoPid
             /\ Grant(call[c].name, call[c].pid)
    BY <1>0, <2>1, <2>2, <2>3, OrderlyGrant
  <2>4. CASE UNCHANGED <<registry, names, owner, crossed>>
    BY <1>2, <2>1, <2>2, <2>4
  <2> QED BY <1>5, <2>3, <2>4 DEF ClaimName
<1>6. ASSUME NEW c \in Callers, NEW m \in Names, UnregisterName(c, m) PROVE Orderly(n)'
  <2>0. /\ Orderly(n) /\ UNCHANGED <<phase, names>> /\ registry[m] # NoPid
        /\ call' = [call EXCEPT ![c] = Naming("forget", m, registry[m])]
        /\ registry' = [registry EXCEPT ![m] = NoPid]
        /\ owner' = [owner EXCEPT ![m] = NoPid]
    BY <1>6, <1>a DEF UnregisterName, procs
  <2>1. ASSUME NEW d \in Callers, Forgets(d, n)'
        PROVE  \/ d # c /\ Forgets(d, n) /\ call'[d] = call[d] /\ call[d].pid \in Pids
               \/ d = c /\ n = m /\ call'[d].pid = registry[n]
    BY <1>0, <2>0, <2>1 DEF Forgets, InTable, CallsOK, Naming
  <2>2. CASE n = m
    <3>1. registry'[n] = NoPid /\ owner'[n] = NoPid /\ NoPid \notin Pids
      BY <1>0, <2>0, <2>2 DEF NamesOK, NoPid, Pids
    <3>2. registry[n] \in Pids /\ names[registry[n]][n] > 0
      BY <1>0, <2>0, <2>2 DEF NamesOK, Orderly
    <3>3. \A d \in Callers : Forgets(d, n)' =>
            names'[call'[d].pid][n] > 0 /\ registry'[n] # call'[d].pid
      BY <2>0, <2>1, <3>1, <3>2 DEF Orderly
    <3>4. ASSUME NEW d \in Callers, NEW e \in Callers, Forgets(d, n)', Forgets(e, n)',
                 call'[d].pid = call'[e].pid
          PROVE  d = e
      BY <2>0, <2>1, <3>4 DEF Orderly
    <3> QED BY <3>1, <3>3, <3>4 DEF Orderly
  <2>3. CASE n # m
    <3>1. registry'[n] = registry[n] /\ owner'[n] = owner[n]
      BY <1>0, <2>0, <2>3 DEF NamesOK
    <3>2. InTable(owner[n])' <=> InTable(owner[n])
      BY <2>0, <3>1 DEF InTable
    <3> QED BY <2>0, <2>1, <2>3, <3>1, <3>2 DEF Orderly
  <2> QED BY <2>2, <2>3
<1>7. ASSUME NEW c \in Callers, ForgetName(c) PROVE Orderly(n)'
  <2>0. /\ Orderly(n) /\ UNCHANGED <<phase, registry, owner>>
        /\ call[c].op = "forget" /\ call[c].name \in Names /\ call[c].pid \in Pids
        /\ call' = [call EXCEPT ![c] = Idle]
    BY <1>0, <1>7, <1>a, CallFields DEF ForgetName, procs, history
  <2>1. ASSUME NEW d \in Callers, Forgets(d, n)'
        PROVE  d # c /\ Forgets(d, n) /\ call'[d] = call[d] /\ call[d].pid \in Pids
    BY <1>0, <2>0, <2>1 DEF Forgets, InTable, CallsOK, Idle
  <2>2. ASSUME NEW q \in Pids
        PROVE  \/ names'[q][n] = names[q][n]
               \/ q = call[c].pid /\ Forgets(c, n) /\ names'[q][n] = 0
    BY <1>0, <1>7, <2>0 DEF ForgetName, NamesOK, Forgets
  <2>3. Forgets(c, n) => names[call[c].pid][n] > 0 /\ registry[n] # call[c].pid
    BY <2>0 DEF Orderly
  <2>4. registry[n] # NoPid => \A q \in Pids : names'[q][n] > 0 <=> q = registry[n]
    BY <2>0, <2>2, <2>3 DEF Orderly
  <2>5. \A d \in Callers : Forgets(d, n)' => names'[call[d].pid][n] > 0
    BY <2>0, <2>1, <2>2 DEF Orderly
  <2>6. InTable(owner[n])' <=> InTable(owner[n])
    BY <2>0 DEF InTable
  <2> QED BY <2>0, <2>1, <2>4, <2>5, <2>6 DEF Orderly
\* Everything else leaves names alone.
<1>8. CASE \E c \in Callers :
             \/ KillCandidate(c) \/ LookupAgain(c) \/ ForgetTag(c) \/ KillMembers(c)
             \/ \E m \in Names : Lookup(c, m)
             \/ \E t \in Tags : SnapshotTag(c, t) \/ \E p \in Pids : UnregisterTag(c, t, p)
  <2>1. UNCHANGED <<phase, registry, owner, names, crossed>>
    BY <1>8 DEF KillCandidate, LookupAgain, ForgetTag, KillMembers, Lookup, SnapshotTag,
       UnregisterTag, procs, history
  <2>2. PICK c \in Callers :
          call' = [call EXCEPT ![c] = call'[c]] /\ call'[c].op # "forget"
    <3>1. PICK c \in Callers :
             \/ KillCandidate(c) \/ LookupAgain(c) \/ ForgetTag(c) \/ KillMembers(c)
             \/ \E m \in Names : Lookup(c, m)
             \/ \E t \in Tags : SnapshotTag(c, t) \/ \E p \in Pids : UnregisterTag(c, t, p)
      BY <1>8
    <3>2. \/ call' = [call EXCEPT ![c] = Idle]
          \/ \E m, p : call' = [call EXCEPT ![c] = Naming("spawn", m, p)]
          \/ \E m, p : call' = [call EXCEPT ![c] = Naming("again", m, p)]
          \/ \E t, P : call' = [call EXCEPT ![c] = Grouping("kill_tag", t, P)]
          \/ \E t, P : call' = [call EXCEPT ![c] = Grouping("forget_tag", t, P)]
      BY <3>1 DEF KillCandidate, LookupAgain, ForgetTag, KillMembers, Lookup, SnapshotTag,
         UnregisterTag, Answer
    <3>3. call' = [call EXCEPT ![c] = call'[c]] /\ call'[c].op # "forget"
      BY <1>0, <3>2 DEF CallsOK, Idle, Naming, Grouping
    <3> QED BY <3>3
  <2>3. \A d \in Callers : call'[d].op = "forget" => call'[d] = call[d]
    BY <1>0, <2>2 DEF CallsOK
  <2> QED BY <1>2, <2>1, <2>3
<1>9. CASE \/ UNCHANGED vars \/ \E p \in Pids : Leaves(p) \/ \E t \in Tags : ReleaseTag(p, t)
  <2>1. /\ UNCHANGED <<registry, owner, names, call, crossed>>
        /\ \A p \in Pids : phase'[p] = "running" => phase[p] = "running"
    BY <1>0, <1>9 DEF Leaves, ReleaseTag, vars, procs, history, ProcsOK
  <2> QED BY <1>2, <2>1
<1>10. CASE Spawn
  BY <1>1, <1>10 DEF Spawn, history
<1>11. CASE \E c \in Callers : SpawnCandidate(c)
  <2>1. \A d \in Callers : call'[d].op = "forget" => call'[d] = call[d]
    BY <1>0, <1>11 DEF SpawnCandidate, CallsOK, Naming
  <2> QED BY <1>1, <1>11, <2>1 DEF SpawnCandidate
<1>12. CASE \E t \in Tags, p \in Pids : RegisterTag(t, p)
  <2>1. /\ UNCHANGED <<phase, registry, owner, names, call>> /\ n \notin crossed
    BY <1>12 DEF RegisterTag, Join, procs
  <2>2. \A p \in Pids : InTable(p)' => InTable(p)
    BY <2>1 DEF InTable
  <2> QED BY <1>0, <2>1, <2>2, OrderlyKept
<1> QED
  BY <1>3, <1>4, <1>5, <1>6, <1>7, <1>8, <1>9, <1>10, <1>11, <1>12 DEF Next

-----------------------------------------------------------------------------
(* Groups.                                                                 *)

\* The same of groups: the list of a process that no call tried to take out
\* of a group has the tag once while it is a member, and not otherwise.
MembershipsAgree ==
  \A t \in Tags, p \in Pids : <<t, p>> \notin unregistered =>
    /\ held[p][t] = IF p \in tags[t] THEN 1 ELSE 0
    /\ <<t, p>> \in joined /\ InTable(p) => p \in tags[t]
ForgetsUntagged ==
  \A c \in Callers : call[c].op = "forget_tag" =>
    \A p \in call[c].pids : <<call[c].tag, p>> \in unregistered
TagsInv == MembershipsAgree /\ ForgetsUntagged

LEMMA TagsInit == Init => TagsInv
BY DEF Init, TagsInv, MembershipsAgree, ForgetsUntagged, Idle

LEMMA MembershipsStep ==
  TypeOK /\ IssuedInv /\ TagsInv /\ [Next]_vars => MembershipsAgree'
<1> SUFFICES ASSUME TypeOK, IssuedInv, TagsInv, [Next]_vars
             PROVE  MembershipsAgree'
  OBVIOUS
<1>0. ProcsOK /\ TagsOK /\ CallsOK /\ MembershipsAgree /\ ForgetsUntagged
  BY DEF TypeOK, TagsInv
<1>1. ASSUME Enter, UNCHANGED <<tags, held, joined, unregistered>>
      PROVE  MembershipsAgree'
  <2>1. \A t \in Tags : nextId \in Pids => <<t, nextId>> \notin joined
    BY <1>0 DEF IssuedInv, Spawned, ProcsOK
  <2> QED BY <1>0, <1>1, <2>1 DEF Enter, InTable, MembershipsAgree, ProcsOK
<1>2. ASSUME NEW p \in Pids, Leaves(p) PROVE MembershipsAgree'
  BY <1>0, <1>2 DEF Leaves, InTable, MembershipsAgree, ProcsOK, groups, history
<1>3. ASSUME NEW p \in Pids, NEW t \in Tags, ReleaseTag(p, t)
      PROVE  MembershipsAgree'
  <2>1. ASSUME NEW s \in Tags, NEW q \in Pids, <<s, q>> \notin unregistered
        PROVE  /\ held'[q][s] = IF q \in tags'[s] THEN 1 ELSE 0
               /\ <<s, q>> \in joined /\ InTable(q) => q \in tags'[s]
    <3>1. CASE q = p /\ s = t
      BY <1>0, <1>3, <2>1, <3>1 DEF ReleaseTag, InTable, MembershipsAgree, TagsOK
    <3>2. CASE ~(q = p /\ s = t)
      <4>1. held'[q][s] = held[q][s] /\ (q \in tags'[s] <=> q \in tags[s])
        BY <1>0, <1>3, <3>2 DEF ReleaseTag, TagsOK
      <4> QED BY <1>0, <2>1, <4>1 DEF MembershipsAgree
    <3> QED BY <3>1, <3>2
  <2> QED BY <1>3, <2>1 DEF ReleaseTag, MembershipsAgree, InTable, procs, history
<1>4. ASSUME NEW t \in Tags, NEW p \in Pids, RegisterTag(t, p)
      PROVE  MembershipsAgree'
  <2>1. ASSUME NEW s \in Tags, NEW q \in Pids, <<s, q>> \notin unregistered
        PROVE  /\ held'[q][s] = IF q \in tags'[s] THEN 1 ELSE 0
               /\ <<s, q>> \in joined' /\ InTable(q) => q \in tags'[s]
    <3>1. CASE q = p /\ s = t
      BY <1>0, <1>4, <2>1, <3>1 DEF RegisterTag, Join, MembershipsAgree, TagsOK
    <3>2. CASE ~(q = p /\ s = t)
      <4>1. /\ held'[q][s] = held[q][s] /\ (q \in tags'[s] <=> q \in tags[s])
            /\ <<s, q>> \in joined' <=> <<s, q>> \in joined
        BY <1>0, <1>4, <3>2 DEF RegisterTag, Join, TagsOK
      <4> QED BY <1>0, <2>1, <4>1 DEF MembershipsAgree
    <3> QED BY <3>1, <3>2
  <2> QED BY <1>4, <2>1 DEF RegisterTag, Join, MembershipsAgree, InTable, procs, history
<1>5. ASSUME NEW c \in Callers, NEW t \in Tags, NEW p \in Pids,
             UnregisterTag(c, t, p)
      PROVE  MembershipsAgree'
  <2>1. ASSUME NEW s \in Tags, NEW q \in Pids, <<s, q>> \notin unregistered'
        PROVE  <<s, q>> \notin unregistered /\ (q \in tags'[s] <=> q \in tags[s])
    BY <1>0, <1>5, <2>1 DEF UnregisterTag, TagsOK
  <2> QED BY <1>0, <1>5, <2>1 DEF UnregisterTag, MembershipsAgree, InTable, procs
<1>6. ASSUME NEW c \in Callers, ForgetTag(c) PROVE MembershipsAgree'
  <2>1. ASSUME NEW s \in Tags, NEW q \in Pids, <<s, q>> \notin unregistered
        PROVE  held'[q][s] = held[q][s]
    BY <1>0, <1>6, <2>1, CallFields DEF ForgetTag, ForgetsUntagged, TagsOK
  <2> QED BY <1>0, <1>6, <2>1 DEF ForgetTag, MembershipsAgree, InTable, procs, history
<1>7. CASE UNCHANGED <<phase, groups>> /\ unregistered \subseteq unregistered'
  BY <1>0, <1>7 DEF MembershipsAgree, InTable, groups
<1> QED
  BY <1>1, <1>2, <1>3, <1>4, <1>5, <1>6, <1>7
  DEF Next, vars, procs, groups, history, Spawn, ReleaseName, Register,
      UnregisterName, ForgetName, Lookup, SpawnCandidate, ClaimName,
      KillCandidate, LookupAgain, SnapshotTag, KillMembers

LEMMA ForgetsTagStep ==
  TypeOK /\ ForgetsUntagged /\ [Next]_vars => ForgetsUntagged'
<1> SUFFICES ASSUME TypeOK, ForgetsUntagged, [Next]_vars PROVE ForgetsUntagged'
  OBVIOUS
<1>0. CallsOK
  BY DEF TypeOK
<1> USE DEF ForgetsUntagged
<1>1. ASSUME NEW c \in Callers, NEW t \in Tags, NEW p \in Pids,
             UnregisterTag(c, t, p)
      PROVE  ForgetsUntagged'
  BY <1>0, <1>1 DEF UnregisterTag, CallsOK, Grouping
<1>2. ASSUME NEW c \in Callers, unregistered \subseteq unregistered',
             \/ call' = [call EXCEPT ![c] = Idle]
             \/ \E n, p : call' = [call EXCEPT ![c] = Naming("forget", n, p)]
             \/ \E n, p : call' = [call EXCEPT ![c] = Naming("spawn", n, p)]
             \/ \E n, p : call' = [call EXCEPT ![c] = Naming("claim", n, p)]
             \/ \E n, p : call' = [call EXCEPT ![c] = Naming("lost", n, p)]
             \/ \E n, p : call' = [call EXCEPT ![c] = Naming("again", n, p)]
             \/ \E t, P : call' = [call EXCEPT ![c] = Grouping("kill_tag", t, P)]
      PROVE  ForgetsUntagged'
  BY <1>0, <1>2 DEF CallsOK, Idle, Naming, Grouping
<1>3. CASE UNCHANGED <<call, unregistered>>
  BY <1>3
<1>4. ASSUME NEW c \in Callers, NEW n \in Names,
             UnregisterName(c, n) \/ Lookup(c, n)
      PROVE  ForgetsUntagged'
  BY <1>2, <1>4 DEF UnregisterName, Lookup, Answer
<1>5. ASSUME NEW c \in Callers, CallStep(c) PROVE ForgetsUntagged'
  BY <1>2, <1>5 DEF CallStep, ForgetName, SpawnCandidate, ClaimName, KillCandidate,
     LookupAgain, ForgetTag, KillMembers, Answer, history
<1>6. ASSUME NEW c \in Callers, NEW t \in Tags, SnapshotTag(c, t)
      PROVE  ForgetsUntagged'
  BY <1>2, <1>6 DEF SnapshotTag, history
<1> QED
  BY <1>1, <1>3, <1>4, <1>5, <1>6
  DEF Next, CallStep, vars, history, Spawn, Leaves, ReleaseName, ReleaseTag,
      Register, RegisterTag

\* A group is who joined it and did not leave it, but for the dead; and unless the
\* process joined anew while it was leaving, its list has the tag as long as it is
\* a member, and so has the list a leaving that is still to strike it off.
Leaving(c, t, p) ==
  call[c].op = "forget_tag" /\ call[c].tag = t /\ p \in call[c].pids /\ InTable(p)
Kept(t, p) ==
  /\ p \in tags[t] => held[p][t] > 0
  /\ \A c \in Callers : Leaving(c, t, p) => held[p][t] > 0 /\ p \notin tags[t]
  /\ \A c, d \in Callers : Leaving(c, t, p) /\ Leaving(d, t, p) => c = d
Joined(t, p) ==
  /\ p \in tags[t] => <<t, p>> \in joined
  /\ <<t, p>> \in joined /\ InTable(p) => p \in tags[t]
  /\ <<t, p>> \notin crossed => Kept(t, p)
JoinedInv == \A t \in Tags, p \in Pids : Joined(t, p)

LEMMA JoinedInit == Init => JoinedInv
BY DEF Init, JoinedInv, Joined, Kept, Leaving, Idle

\* Steps that leave groups and lists alone, but for processes that end.
LEMMA JoinedKept ==
  ASSUME CallsOK, NEW t \in Tags, NEW p \in Pids, Joined(t, p),
         UNCHANGED groups, <<t, p>> \in crossed => <<t, p>> \in crossed',
         InTable(p)' => InTable(p) \/
           (<<t, p>> \notin joined /\
            \A c \in Callers : call[c].op = "forget_tag" => p \notin call[c].pids),
         \A c \in Callers : call'[c].op = "forget_tag" => call'[c] = call[c]
  PROVE  Joined(t, p)'
<1>1. ASSUME NEW c \in Callers, Leaving(c, t, p)' PROVE Leaving(c, t, p)
  BY <1>1 DEF Leaving
<1> QED BY <1>1 DEF Joined, Kept, groups

LEMMA JoinedStep == TypeOK /\ IssuedInv /\ JoinedInv /\ [Next]_vars => JoinedInv'
<1> SUFFICES ASSUME TypeOK, IssuedInv, JoinedInv, [Next]_vars,
                    NEW t \in Tags, NEW p \in Pids
             PROVE  Joined(t, p)'
  BY DEF JoinedInv
<1>0. ProcsOK /\ TagsOK /\ CallsOK /\ Joined(t, p)
  BY DEF TypeOK, JoinedInv
<1>1. ASSUME Enter, UNCHANGED groups, UNCHANGED crossed,
             \A c \in Callers : call'[c].op = "forget_tag" => call'[c] = call[c]
      PROVE  Joined(t, p)'
  <2>1. InTable(p)' => InTable(p) \/ p = nextId
    BY <1>0, <1>1 DEF Enter, InTable, ProcsOK
  <2>2. p = nextId =>
          /\ <<t, p>> \notin joined
          /\ \A c \in Callers : call[c].op = "forget_tag" => p \notin call[c].pids
    BY <1>0 DEF IssuedInv, Spawned, ProcsOK
  <2> QED BY <1>0, <1>1, <2>1, <2>2, JoinedKept
<1>2. ASSUME UNCHANGED groups, crossed \subseteq crossed',
             phase'[p] = "running" => phase[p] = "running",
             \A c \in Callers : call'[c].op = "forget_tag" => call'[c] = call[c]
      PROVE  Joined(t, p)'
  BY <1>0, <1>2, JoinedKept DEF InTable
<1>3. ASSUME NEW q \in Pids, NEW s \in Tags, ReleaseTag(q, s) PROVE Joined(t, p)'
  <2>0. phase[q] = "removed" /\ UNCHANGED <<phase, joined, call, crossed>>
    BY <1>3 DEF ReleaseTag, procs, history
  <2>1. CASE p = q /\ t = s
    <3>1. p \notin tags'[t] /\ ~InTable(p)'
      BY <1>0, <1>3, <2>0, <2>1 DEF ReleaseTag, TagsOK, InTable
    <3> QED BY <3>1 DEF Joined, Kept, Leaving
  <2>2. CASE ~(p = q /\ t = s)
    <3>1. held'[p][t] = held[p][t] /\ (p \in tags'[t] <=> p \in tags[t])
      BY <1>0, <1>3, <2>2 DEF ReleaseTag, TagsOK
    <3> QED BY <1>0, <2>0, <3>1 DEF Joined, Kept, Leaving, InTable
  <2> QED BY <2>1, <2>2
<1>4. ASSUME NEW s \in Tags, NEW q \in Pids, RegisterTag(s, q) PROVE Joined(t, p)'
  <2>0. InTable(q) /\ UNCHANGED <<phase, call>>
    BY <1>4 DEF RegisterTag, procs
  <2>1. CASE p = q /\ t = s
    <3>1. p \in tags'[t] /\ <<t, p>> \in joined'
      BY <1>0, <1>4, <2>1 DEF RegisterTag, Join, TagsOK
    <3>2. CASE p \in tags[t]
      <4>1. held'[p][t] = held[p][t] /\ (<<t, p>> \in crossed' <=> <<t, p>> \in crossed)
        BY <1>0, <1>4, <2>1, <3>2 DEF RegisterTag, Join, TagsOK
      <4> QED BY <1>0, <2>0, <3>1, <3>2, <4>1 DEF Joined, Kept, Leaving, InTable
    <3>3. CASE p \notin tags[t] /\ held[p][t] > 0
      <4>1. <<t, p>> \in crossed'
        BY <1>4, <2>1, <3>3 DEF RegisterTag, Join
      <4> QED BY <3>1, <4>1 DEF Joined
    <3>4. CASE p \notin tags[t] /\ ~(held[p][t] > 0)
      <4>1. held'[p][t] > 0 /\ (<<t, p>> \in crossed' <=> <<t, p>> \in crossed)
        BY <1>0, <1>4, <2>1, <3>4 DEF RegisterTag, Join, TagsOK
      <4>2. <<t, p>> \notin crossed => \A c \in Callers : ~Leaving(c, t, p)
        BY <1>0, <3>4 DEF Joined, Kept
      <4> QED BY <2>0, <3>1, <4>1, <4>2 DEF Joined, Kept, Leaving, InTable
    <3> QED BY <3>2, <3>3, <3>4
  <2>2. CASE ~(p = q /\ t = s)
    <3>1. /\ held'[p][t] = held[p][t] /\ (p \in tags'[t] <=> p \in tags[t])
          /\ <<t, p>> \in joined' <=> <<t, p>> \in joined
          /\ <<t, p>> \in crossed' <=> <<t, p>> \in crossed
      BY <1>0, <1>4, <2>2 DEF RegisterTag, Join, TagsOK
    <3> QED BY <1>0, <2>0, <3>1 DEF Joined, Kept, Leaving, InTable
  <2> QED BY <2>1, <2>2
<1>5. ASSUME NEW c \in Callers, NEW s \in Tags, NEW q \in Pids, UnregisterTag(c, s, q)
      PROVE  Joined(t, p)'
  <2>0. /\ UNCHANGED <<phase, held, crossed>>
        /\ call' = [call EXCEPT ![c] = Grouping("forget_tag", s, {q})]
        /\ q \in tags[s] /\ tags' = [tags EXCEPT ![s] = @ \ {q}]
        /\ joined' = joined \ {<<s, q>>}
    BY <1>5 DEF UnregisterTag, procs
  <2>1. ASSUME NEW d \in Callers, Leaving(d, t, p)'
        PROVE  (d # c /\ Leaving(d, t, p)) \/ (d = c /\ p = q /\ t = s)
    <3>1. InTable(p) /\ call'[d].op = "forget_tag" /\ call'[d].tag = t /\ p \in call'[d].pids
      BY <2>0, <2>1 DEF Leaving, InTable
    <3>2. CASE d = c
      <4>1. call'[d] = Grouping("forget_tag", s, {q})
        BY <1>0, <2>0, <3>2 DEF CallsOK
      <4> QED BY <3>1, <3>2, <4>1 DEF Grouping
    <3>3. CASE d # c
      <4>1. call'[d] = call[d]
        BY <1>0, <2>0, <3>3 DEF CallsOK
      <4> QED BY <3>1, <3>3, <4>1 DEF Leaving
    <3> QED BY <3>2, <3>3
  <2>2. CASE p = q /\ t = s
    <3>1. p \notin tags'[t] /\ <<t, p>> \notin joined' /\ p \in tags[t]
      BY <1>0, <2>0, <2>2 DEF TagsOK
    <3>2. <<t, p>> \notin crossed =>
            held[p][t] > 0 /\ \A d \in Callers : Leaving(d, t, p)' => d = c
      BY <1>0, <2>1, <3>1 DEF Joined, Kept
    <3> QED BY <2>0, <3>1, <3>2 DEF Joined, Kept
  <2>3. CASE ~(p = q /\ t = s)
    <3>1. /\ p \in tags'[t] <=> p \in tags[t]
          /\ <<t, p>> \in joined' <=> <<t, p>> \in joined
      BY <1>0, <2>0, <2>3 DEF TagsOK
    <3>2. InTable(p)' <=> InTable(p)
      BY <2>0 DEF InTable
    <3>3. \A d \in Callers : Leaving(d, t, p)' => Leaving(d, t, p)
      BY <2>1, <2>3
    <3> QED BY <1>0, <2>0, <3>1, <3>2, <3>3 DEF Joined, Kept
  <2> QED BY <2>2, <2>3
<1>6. ASSUME NEW c \in Callers, ForgetTag(c) PROVE Joined(t, p)'
  <2>0. /\ UNCHANGED <<phase, tags, joined, crossed>> /\ call[c].op = "forget_tag"
        /\ call' = [call EXCEPT ![c] = Idle]
    BY <1>6 DEF ForgetTag, procs, history
  <2>1. ASSUME NEW d \in Callers, Leaving(d, t, p)' PROVE d # c /\ Leaving(d, t, p)
    BY <1>0, <2>0, <2>1 DEF Leaving, InTable, CallsOK, Idle
  <2>2. held'[p][t] = held[p][t] \/ Leaving(c, t, p)
    BY <1>0, <1>6, CallFields DEF ForgetTag, Leaving, TagsOK
  <2>3. CASE Leaving(c, t, p)
    <3>1. <<t, p>> \notin crossed => p \notin tags[t] /\ \A d \in Callers : ~Leaving(d, t, p)'
      BY <1>0, <2>1, <2>3 DEF Joined, Kept
    <3> QED BY <1>0, <2>0, <3>1 DEF Joined, Kept, InTable
  <2>4. CASE held'[p][t] = held[p][t]
    <3>1. InTable(p)' <=> InTable(p)
      BY <2>0 DEF InTable
    <3> QED BY <1>0, <2>0, <2>1, <2>4, <3>1 DEF Joined, Kept
  <2> QED BY <2>2, <2>3, <2>4
\* Everything else leaves groups alone.
<1>7. CASE \E c \in Callers :
             \/ ForgetName(c) \/ ClaimName(c) \/ KillCandidate(c) \/ LookupAgain(c)
             \/ KillMembers(c) \/ \E n \in Names : UnregisterName(c, n) \/ Lookup(c, n)
             \/ \E s \in Tags : SnapshotTag(c, s)
  <2>1. PICK c \in Callers :
             \/ ForgetName(c) \/ ClaimName(c) \/ KillCandidate(c) \/ LookupAgain(c)
             \/ KillMembers(c) \/ \E n \in Names : UnregisterName(c, n) \/ Lookup(c, n)
             \/ \E s \in Tags : SnapshotTag(c, s)
    BY <1>7
  <2>2. UNCHANGED groups /\ crossed \subseteq crossed' /\ UNCHANGED phase
    BY <2>1 DEF ForgetName, ClaimName, Grant, KillCandidate, LookupAgain, KillMembers,
       UnregisterName, Lookup, SnapshotTag, procs, history
  <2>3. \/ call' = [call EXCEPT ![c] = Idle]
        \/ \E n, q : call' = [call EXCEPT ![c] = Naming("forget", n, q)]
        \/ \E n, q : call' = [call EXCEPT ![c] = Naming("spawn", n, q)]
        \/ \E n, q : call' = [call EXCEPT ![c] = Naming("lost", n, q)]
        \/ \E n, q : call' = [call EXCEPT ![c] = Naming("again", n, q)]
        \/ \E s, P : call' = [call EXCEPT ![c] = Grouping("kill_tag", s, P)]
    BY <2>1 DEF ForgetName, ClaimName, KillCandidate, LookupAgain, KillMembers,
       UnregisterName, Lookup, SnapshotTag, Answer
  <2>4. \A d \in Callers : call'[d].op = "forget_tag" => call'[d] = call[d]
    BY <1>0, <2>3 DEF CallsOK, Idle, Naming, Grouping
  <2> QED BY <1>2, <2>2, <2>4
<1>8. CASE \/ UNCHANGED vars \/ \E q \in Pids : Leaves(q) \/ \E n \in Names : ReleaseName(q, n)
           \/ \E n \in Names, q \in Pids : Register(n, q)
  <2>1. /\ UNCHANGED <<groups, call>> /\ crossed \subseteq crossed'
        /\ phase'[p] = "running" => phase[p] = "running"
    BY <1>0, <1>8 DEF Leaves, ReleaseName, Register, Grant, vars, procs, history, ProcsOK
  <2> QED BY <1>2, <2>1
<1>9. CASE Spawn
  BY <1>1, <1>9 DEF Spawn, history
<1>10. CASE \E c \in Callers : SpawnCandidate(c)
  <2>1. \A d \in Callers : call'[d].op = "forget_tag" => call'[d] = call[d]
    BY <1>0, <1>10 DEF SpawnCandidate, CallsOK, Naming
  <2> QED BY <1>1, <1>10, <2>1 DEF SpawnCandidate
<1> QED
  BY <1>3, <1>4, <1>5, <1>6, <1>7, <1>8, <1>9, <1>10 DEF Next

\* In a group is who joined it and did not leave it, until the end of the process
\* and no longer, but for pairs that rejoined while they were leaving.
THEOREM TagsFollowTheirMembers == Spec => []TagsFollowLife
<1>1. Init => IssuedInv /\ JoinedInv
  BY IssuedInit, JoinedInit
<1>2. TypeOK /\ IssuedInv /\ JoinedInv /\ [Next]_vars => IssuedInv' /\ JoinedInv'
  BY IssuedStep, JoinedStep
<1>3. JoinedInv => TagsFollowLife
  <2> SUFFICES ASSUME JoinedInv, NEW t \in Tags, NEW p \in Pids
               PROVE  /\ p \in tags[t] => <<t, p>> \in joined
                      /\ <<t, p>> \in joined /\ InTable(p) => p \in tags[t]
                      /\ Released(p) /\ p \in tags[t] => <<t, p>> \in crossed
    BY DEF TagsFollowLife
  <2>1. Joined(t, p)
    BY DEF JoinedInv
  <2>2. ASSUME Released(p) PROVE ~(held[p][t] > 0)
    BY <2>2 DEF Released
  <2> QED BY <2>1, <2>2 DEF Joined, Kept
<1> QED BY <1>1, <1>2, <1>3, TypeCorrect, PTL DEF Spec

-----------------------------------------------------------------------------
(* What crosses, and the names.                                            *)

\* Only what some call unregisters is ever registered while a list has it.
LEMMA CrossedStep ==
  ASSUME TypeOK, NamesInv, TagsInv, crossed \subseteq unregistered, [Next]_vars
  PROVE  crossed' \subseteq unregistered'
<1>0. NamesOK /\ TagsOK /\ CallsOK /\ ListsAgree /\ MembershipsAgree
  BY DEF TypeOK, NamesInv, TagsInv
<1>1. ASSUME NEW n \in Names, NEW p \in Pids, registry[n] = NoPid, Grant(n, p),
             UNCHANGED unregistered
      PROVE  crossed' \subseteq unregistered'
  <2>1. n \notin unregistered => \A q \in Pids : ~(names[q][n] > 0)
    BY <1>0, <1>1 DEF ListsAgree, NoPid, Pids
  <2> QED BY <1>1, <2>1 DEF Grant
<1>2. CASE \E n \in Names, p \in Pids : Register(n, p)
  BY <1>1, <1>2 DEF Register
<1>3. CASE \E c \in Callers : ClaimName(c)
  BY <1>0, <1>1, <1>3, CallFields DEF ClaimName
<1>4. ASSUME NEW t \in Tags, NEW p \in Pids, RegisterTag(t, p)
      PROVE  crossed' \subseteq unregistered'
  <2>1. <<t, p>> \notin unregistered /\ p \notin tags[t] => held[p][t] = 0
    BY <1>0 DEF MembershipsAgree
  <2> QED BY <1>4, <2>1 DEF RegisterTag, Join
<1>5. CASE UNCHANGED crossed /\ unregistered \subseteq unregistered'
  BY <1>5
<1> QED
  BY <1>2, <1>3, <1>4, <1>5
  DEF Next, vars, history, Spawn, Leaves, ReleaseName, ReleaseTag, UnregisterName,
      ForgetName, Lookup, SpawnCandidate, KillCandidate, LookupAgain, UnregisterTag,
      ForgetTag, SnapshotTag, KillMembers

\* Names live as long as their holders and no longer, unless they were granted
\* anew while an unregister was under way, and no other call brings that about.
THEOREM NamesFollowTheirHolders == Spec => []NamesFollowLife
<1> DEFINE Inv == /\ IssuedInv /\ NamesInv /\ TagsInv /\ OrderlyInv
                  /\ crossed \subseteq unregistered
<1>1. Init => Inv
  BY IssuedInit, NamesInit, TagsInit, OrderlyInit DEF Init
<1>2. TypeOK /\ Inv /\ [Next]_vars => Inv'
  <2> SUFFICES ASSUME TypeOK, Inv, [Next]_vars PROVE Inv'
    OBVIOUS
  <2>1. IssuedInv' /\ OrderlyInv'
    BY IssuedStep, OrderlyStep
  <2>2. NamesInv'
    BY ListsStep, ForgetsStep DEF NamesInv
  <2>3. TagsInv'
    BY MembershipsStep, ForgetsTagStep DEF TagsInv
  <2>4. crossed' \subseteq unregistered'
    BY CrossedStep
  <2> QED BY <2>1, <2>2, <2>3, <2>4
<1>3. TypeOK /\ Inv => NamesFollowLife
  <2> SUFFICES ASSUME TypeOK, Inv, NEW n \in Names \ crossed
               PROVE  /\ owner[n] # NoPid /\ InTable(owner[n]) => registry[n] = owner[n]
                      /\ registry[n] # NoPid
                           => owner[n] = registry[n] /\ ~Released(registry[n])
    BY DEF NamesFollowLife
  <2>1. registry[n] # NoPid => registry[n] \in Pids
    BY DEF TypeOK, NamesOK
  <2>2. Orderly(n)
    BY DEF OrderlyInv
  <2> QED BY <2>1, <2>2 DEF Orderly, Released
<1> QED BY <1>1, <1>2, <1>3, TypeCorrect, PTL DEF Spec

-----------------------------------------------------------------------------
(* Get-or-spawn.                                                           *)

\* An answer is the holder of the name, or a process that is not to live.
Settled(n, p) == ~InTable(p) \/ aborted[p] \/ registry[n] = p
AnswersSettled ==
  \A a \in answers : a.name \notin unregistered => Settled(a.name, a.pid)
\* A caller that looks again has killed its candidate.
LosersKilled ==
  \A c \in Callers : call[c].op = "again" => aborted[call[c].pid]
\* A candidate is answered, in its caller's hands, or killed.
CandidatesReaped ==
  \A p \in candidates :
    \/ \E a \in answers : a.pid = p
    \/ \E c \in Callers : call[c].op \in {"claim", "lost"} /\ call[c].pid = p
    \/ aborted[p]
SingletonInv == AnswersSettled /\ LosersKilled /\ CandidatesReaped

LEMMA SingletonInit == Init => SingletonInv
BY DEF Init, SingletonInv, AnswersSettled, LosersKilled, CandidatesReaped, Idle

\* Once killed, always killed; and who is in the table was there, or is new.
LEMMA ProcsMonotone ==
  ASSUME ProcsOK, [Next]_vars, NEW p \in Pids
  PROVE  /\ aborted[p] => aborted'[p]
         /\ phase'[p] = "running" => phase[p] = "running" \/ p = nextId
<1>1. CASE Enter /\ UNCHANGED aborted
  BY <1>1 DEF Enter, ProcsOK
<1>2. CASE \E q \in Pids : Leaves(q)
  BY <1>2 DEF Leaves, ProcsOK
<1>3. CASE \E c \in Callers : KillCandidate(c) \/ KillMembers(c)
  BY <1>3 DEF KillCandidate, KillMembers, ProcsOK
<1>4. CASE UNCHANGED procs
  BY <1>4 DEF procs
<1> QED
  BY <1>1, <1>2, <1>3, <1>4
  DEF Next, vars, Spawn, ReleaseName, ReleaseTag, Register, UnregisterName,
      ForgetName, Lookup, SpawnCandidate, ClaimName, LookupAgain, RegisterTag,
      UnregisterTag, ForgetTag, SnapshotTag

\* A name that nobody unregisters changes hands only over a dead holder.
LEMMA HoldersOutlast ==
  ASSUME TypeOK, ListsAgree, [Next]_vars,
         NEW n \in Names, n \notin unregistered', NEW p \in Pids, registry[n] = p
  PROVE  registry'[n] = p \/ ~InTable(p)
<1>0. NamesOK /\ CallsOK /\ registry[n] # NoPid
  BY DEF TypeOK, NoPid, Pids
<1>1. CASE \E q \in Pids, m \in Names : ReleaseName(q, m)
  BY <1>0, <1>1 DEF ReleaseName, ListsAgree, NamesOK, InTable, history
<1>2. CASE \E m \in Names, q \in Pids : Register(m, q)
  BY <1>0, <1>2 DEF Register, Grant, NamesOK
<1>3. CASE \E c \in Callers, m \in Names : UnregisterName(c, m)
  BY <1>0, <1>3 DEF UnregisterName, NamesOK
<1>4. CASE \E c \in Callers : ClaimName(c)
  BY <1>0, <1>4 DEF ClaimName, Grant, NamesOK
<1>5. CASE UNCHANGED registry
  BY <1>5
<1> QED
  BY <1>1, <1>2, <1>3, <1>4, <1>5
  DEF Next, vars, Spawn, Leaves, ReleaseTag, ForgetName, Lookup, SpawnCandidate,
      KillCandidate, LookupAgain, RegisterTag, UnregisterTag, ForgetTag,
      SnapshotTag, KillMembers

\* So what is settled stays settled.
LEMMA SettledStays ==
  ASSUME TypeOK, ListsAgree, [Next]_vars, NEW n \in Names, n \notin unregistered',
         NEW p \in Pids, Spawned(p), Settled(n, p)
  PROVE  Settled(n, p)'
<1>1. ProcsOK /\ p # nextId
  BY DEF TypeOK, ProcsOK, Spawned
<1> QED BY <1>1, ProcsMonotone, HoldersOutlast DEF Settled, InTable

\* What a step may add to the answers.
LEMMA NewAnswers ==
  ASSUME TypeOK, [Next]_vars, NEW a \in answers', a \notin answers
  PROVE  \/ registry'[a.name] = a.pid
         \/ \E c \in Callers : /\ call[c].op = "again" /\ a.pid = call[c].pid
                               /\ UNCHANGED aborted
<1>0. NamesOK /\ CallsOK
  BY DEF TypeOK
<1>1. CASE \E c \in Callers, n \in Names : Lookup(c, n)
  BY <1>1 DEF Lookup, Answer
<1>2. CASE \E c \in Callers : ClaimName(c)
  BY <1>0, <1>2, CallFields DEF ClaimName, Grant, Answer, NamesOK
<1>3. CASE \E c \in Callers : LookupAgain(c)
  BY <1>0, <1>3, CallFields DEF LookupAgain, Answer, procs
<1>4. CASE UNCHANGED answers
  BY <1>4
<1> QED
  BY <1>1, <1>2, <1>3, <1>4
  DEF Next, vars, history, Spawn, Leaves, ReleaseName, ReleaseTag, Register,
      UnregisterName, ForgetName, SpawnCandidate, KillCandidate, RegisterTag,
      UnregisterTag, ForgetTag, SnapshotTag, KillMembers

\* The calls that are claims or losers after a step, and what became of the
\* claims and losers before it.
LEMMA ClaimsStep ==
  ASSUME TypeOK, [Next]_vars, NEW c \in Callers
  PROVE  /\ call'[c].op = "again" =>
              \/ call[c].op = "again" /\ call'[c].pid = call[c].pid
              \/ call'[c].pid \in Pids /\ aborted'[call'[c].pid]
         /\ call[c].op \in {"claim", "lost"} =>
              \/ call'[c].op \in {"claim", "lost"} /\ call'[c].pid = call[c].pid
              \/ aborted'[call[c].pid]
              \/ \E a \in answers' : a.pid = call[c].pid
<1>0. ProcsOK /\ CallsOK
  BY DEF TypeOK
<1>1. CASE \E d \in Callers : KillCandidate(d)
  BY <1>0, <1>1, CallFields DEF KillCandidate, CallsOK, ProcsOK, Naming
<1>2. CASE \E d \in Callers : ClaimName(d)
  <2>1. PICK d \in Callers : ClaimName(d)
    BY <1>2
  <2>2. CASE Answer(d, call[d].name, call[d].pid)
    <3>1. /\ call' = [call EXCEPT ![d] = Idle]
          /\ [name |-> call[d].name, pid |-> call[d].pid] \in answers'
      BY <2>2 DEF Answer
    <3>2. \E a \in answers' : a.pid = call[d].pid
      BY <3>1
    <3> QED BY <1>0, <3>1, <3>2 DEF CallsOK, Idle
  <2>3. CASE call' = [call EXCEPT ![d] = Naming("lost", call[d].name, call[d].pid)]
    BY <1>0, <2>3 DEF CallsOK, Naming
  <2> QED BY <2>1, <2>2, <2>3 DEF ClaimName
<1>3. CASE \E d \in Callers : SpawnCandidate(d) \/ LookupAgain(d)
  BY <1>0, <1>3 DEF SpawnCandidate, LookupAgain, Answer, CallsOK, Naming, Idle
<1>4. CASE \E d \in Callers : ForgetName(d) \/ ForgetTag(d) \/ KillMembers(d)
  BY <1>0, <1>4 DEF ForgetName, ForgetTag, KillMembers, CallsOK, Idle
<1>5. CASE \E d \in Callers, n \in Names : UnregisterName(d, n) \/ Lookup(d, n)
  <2>1. PICK d \in Callers, n \in Names : UnregisterName(d, n) \/ Lookup(d, n)
    BY <1>5
  <2>2. /\ call[d] = Idle
        /\ \/ call' = [call EXCEPT ![d] = Idle]
           \/ call' = [call EXCEPT ![d] = Naming("spawn", n, NoPid)]
           \/ call' = [call EXCEPT ![d] = Naming("forget", n, registry[n])]
    BY <2>1 DEF UnregisterName, Lookup, Answer
  <2> QED BY <1>0, <2>2 DEF CallsOK, Naming, Idle
<1>6. CASE \E d \in Callers, t \in Tags :
             SnapshotTag(d, t) \/ \E p \in Pids : UnregisterTag(d, t, p)
  BY <1>0, <1>6 DEF SnapshotTag, UnregisterTag, CallsOK, Grouping, Idle
<1>7. CASE UNCHANGED call
  BY <1>7
<1> QED
  BY <1>1, <1>2, <1>3, <1>4, <1>5, <1>6, <1>7
  DEF Next, vars, Spawn, Leaves, ReleaseName, ReleaseTag, Register, RegisterTag

\* Who becomes a candidate is at once in its caller's hands; nobody ceases
\* to be one, and no answer is taken back.
LEMMA NewCandidates ==
  ASSUME TypeOK, [Next]_vars
  PROVE  /\ answers \subseteq answers'
         /\ \A p \in candidates' \ candidates :
              \E c \in Callers : call'[c].op \in {"claim", "lost"} /\ call'[c].pid = p
<1>0. CallsOK
  BY DEF TypeOK
<1>1. CASE \E c \in Callers : SpawnCandidate(c)
  BY <1>0, <1>1 DEF SpawnCandidate, CallsOK, Naming
<1>2. CASE answers \subseteq answers' /\ UNCHANGED candidates
  BY <1>2
<1> QED
  BY <1>1, <1>2
  DEF Next, vars, history, Spawn, Leaves, ReleaseName, ReleaseTag, Register,
      UnregisterName, ForgetName, Lookup, ClaimName, KillCandidate, LookupAgain,
      RegisterTag, UnregisterTag, ForgetTag, SnapshotTag, KillMembers, Answer

LEMMA SingletonStep ==
  TypeOK /\ IssuedInv /\ NamesInv /\ SingletonInv /\ [Next]_vars => SingletonInv'
<1> SUFFICES ASSUME TypeOK, IssuedInv, NamesInv, SingletonInv, [Next]_vars
             PROVE  SingletonInv'
  OBVIOUS
<1>0. ProcsOK /\ CallsOK /\ ListsAgree
  BY DEF TypeOK, NamesInv
<1>1. ASSUME NEW a \in answers', a.name \notin unregistered'
      PROVE  Settled(a.name, a.pid)'
  <2>1. CASE a \in answers
    <3>1. a.name \in Names /\ a.pid \in Pids /\ Spawned(a.pid)
      BY <1>0, <2>1 DEF CallsOK, IssuedInv
    <3>2. a.name \notin unregistered
      BY <1>1 DEF Next, vars, history, Spawn, Leaves, ReleaseName, ReleaseTag,
         Register, UnregisterName, ForgetName, Lookup, SpawnCandidate, ClaimName,
         KillCandidate, LookupAgain, RegisterTag, UnregisterTag, ForgetTag,
         SnapshotTag, KillMembers
    <3> QED BY <1>1, <2>1, <3>1, <3>2, <1>0, SettledStays
            DEF SingletonInv, AnswersSettled
  <2>2. CASE a \notin answers
    BY <1>1, <2>2, NewAnswers DEF SingletonInv, LosersKilled, Settled
  <2> QED BY <2>1, <2>2
<1>2. ASSUME NEW c \in Callers, call'[c].op = "again"
      PROVE  aborted'[call'[c].pid]
  BY <1>0, <1>2, ClaimsStep, CallFields, ProcsMonotone DEF SingletonInv, LosersKilled
<1>3. ASSUME NEW p \in candidates'
      PROVE  \/ \E a \in answers' : a.pid = p
             \/ \E c \in Callers : call'[c].op \in {"claim", "lost"} /\ call'[c].pid = p
             \/ aborted'[p]
  <2>1. CASE p \in candidates
    <3>1. p \in Pids
      BY <1>0, <2>1 DEF CallsOK
    <3> QED BY <1>0, <2>1, <3>1, NewCandidates, ClaimsStep, ProcsMonotone
            DEF SingletonInv, CandidatesReaped
  <2>2. CASE p \notin candidates
    BY <1>3, <2>2, NewCandidates
  <2> QED BY <2>1, <2>2
<1> QED
  BY <1>1, <1>2, <1>3 DEF SingletonInv, AnswersSettled, LosersKilled, CandidatesReaped

\* Callers of get-or-spawn agree on one living process per name, and every
\* candidate that lost is killed.
THEOREM GetOrSpawnAgrees == Spec => []SingletonAgreement
<1>1. Init => IssuedInv /\ NamesInv /\ SingletonInv
  BY IssuedInit, NamesInit, SingletonInit
<1>2. TypeOK /\ IssuedInv /\ NamesInv /\ SingletonInv /\ [Next]_vars
        => IssuedInv' /\ NamesInv' /\ SingletonInv'
  BY IssuedStep, ListsStep, ForgetsStep, SingletonStep DEF NamesInv
<1>3. SingletonInv => SingletonAgreement
  BY DEF SingletonInv, AnswersSettled, CandidatesReaped, Settled, SingletonAgreement
<1> QED BY <1>1, <1>2, <1>3, TypeCorrect, PTL DEF Spec
=============================================================================
