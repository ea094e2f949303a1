---------------------------- MODULE ClusterProofs ----------------------------
(***************************************************************************)
(* What holds of a cluster for any number of nodes, connections, names and *)
(* requests: the type invariant, that every route a node lists and every   *)
(* foreign owner it knows is watched by a control loop that would take it  *)
(* back, and - between nodes that are not restarted - that every answer is *)
(* that of its own request, run once.                                      *)
(***************************************************************************)
EXTENDS Cluster, SequenceTheorems, FiniteSetTheorems, TLAPS

LEMMA Bounds == MaxConns \in Nat /\ MaxRequests \in Nat
BY BoundsAssumption

USE Bounds, NodesAssumption DEF NoNode, NoConn, NoRequest

-----------------------------------------------------------------------------
(* The inductive invariant.                                                *)

Kinds == {"dial", "register", "exit", "request", "oversize", "lose", "restart"}
Frames ==
  [kind : {"Register"}, name : Names, node : Nodes, over : BOOLEAN]
  \cup [kind : {"Request", "Reply"}, id : Requests, of : Requests, over : BOOLEAN]
RequestType ==
  [at : {"none", "waiting", "ok", "error", "gone"}, from : Nodes \cup {NoNode},
   to : Nodes \cup {NoNode}, via : Conns \cup {NoConn}, big : {"no", "request", "reply"},
   answer : Requests \cup {NoRequest}]

\* n is at one end of the connection c.
At(c, n) == Used(c) /\ n \in Ends(c)

\* Connections are taken in order, and there is one left for every dial.
ConnOK ==
  /\ left \in [Kinds -> Nat]
  /\ conn \in [Conns -> [dialer : Nodes \cup {NoNode}, acceptor : Nodes \cup {NoNode},
                         up : BOOLEAN]]
  /\ \A c \in Conns :
       IF Used(c) THEN conn[c].acceptor \in Nodes \ {conn[c].dialer}
                  ELSE conn[c].acceptor = NoNode /\ ~conn[c].up
  /\ \E k \in 0 .. MaxConns : /\ k + left["dial"] <= MaxConns
                              /\ \A c \in Conns : Used(c) <=> c <= k
TasksOK ==
  /\ reader \in [Conns -> [Nodes -> {"none", "greeted", "running", "pruning", "ended"}]]
  /\ boot \in [Conns -> [Nodes -> [at : {"done", "snapshot", "write"}, names : SUBSET Names]]]
  /\ \A c \in Conns, n \in Nodes :
       reader[c][n] # "none" \/ boot[c][n].at # "done" => At(c, n)
  /\ casts \subseteq [id : Nat, node : Nodes, name : Names, at : {"spawned", "write"},
                      targets : SUBSET Conns]
  /\ \A t \in casts : \A c \in t.targets : At(c, t.node)
\* A node speaks for itself: the owner a frame names is its sender.
WireOK ==
  /\ wire \in [Conns -> [Nodes -> Seq(Frames)]]
  /\ \A c \in Conns, n \in Nodes : \A i \in 1 .. Len(wire[c][n]) :
       /\ At(c, n)
       /\ wire[c][n][i].kind = "Register" => wire[c][n][i].node = Other(c, n)
PeersOK ==
  /\ peers \in [Nodes -> [Nodes -> {NoConn} \cup Conns]]
  /\ \A n, m \in Nodes, c \in Conns : peers[n][m] = c =>
       Ends(c) = {n, m} /\ n # m /\ reader[c][n] = "running"
NamesOK ==
  /\ globals \in [Nodes -> [Names -> {NoNode} \cup Nodes]]
  /\ local \in [Nodes -> SUBSET Names]
  /\ \A n, m \in Nodes, x \in Names : n # m /\ globals[n][x] = m =>
       \E c \in Conns : /\ Used(c) /\ Ends(c) = {n, m}
                        /\ reader[c][n] \in {"running", "pruning"}
\* Requests are taken in order as well, and the numbers of a node are too: no
\* number is beyond the number of requests, none that is still to be given is
\* in use, and each is that of one waiter at most.
CallsOK ==
  /\ request \in [Requests -> RequestType]
  /\ pending \in [Nodes -> [Requests -> Requests \cup {NoRequest}]]
  /\ nextReq \in [Nodes -> Nat \ {0}]
  /\ handled \in [Requests -> Nat]
  /\ tasks \subseteq [node : Nodes, peer : Nodes, id : Requests, of : Requests]
  /\ \E k \in 0 .. MaxRequests :
       /\ k + left["request"] <= MaxRequests
       /\ \A r \in Requests : request[r].at # "none" <=> r <= k
       /\ \A n \in Nodes : nextReq[n] <= k + 1
WaitersOK ==
  /\ \A n \in Nodes, i \in Requests : pending[n][i] # NoRequest =>
       /\ request[pending[n][i]].from = n /\ request[pending[n][i]].at = "waiting"
       /\ i < nextReq[n]
       /\ \A j \in Requests : pending[n][j] = pending[n][i] => i = j
  /\ \A r \in Requests : request[r].at = "waiting" =>
       \E i \in Requests : pending[request[r].from][i] = r
  /\ \A r \in Requests : request[r].at # "none" => request[r].from \in Nodes

TypeInv ==
  /\ ConnOK /\ TasksOK /\ WireOK /\ PeersOK /\ NamesOK
  /\ CallsOK /\ WaitersOK

-----------------------------------------------------------------------------
(* Connections.                                                            *)

\* The two ends of a connection.
LEMMA OtherEnd ==
  ASSUME ConnOK, NEW c \in Conns, NEW n \in Nodes, At(c, n)
  PROVE  /\ Other(c, n) \in Nodes /\ Other(c, n) # n /\ Ends(c) = {n, Other(c, n)}
         /\ At(c, Other(c, n)) /\ Other(c, Other(c, n)) = n
         /\ \A m : Ends(c) = {n, m} /\ n # m => m = Other(c, n)
<1>1. /\ conn[c].dialer \in Nodes /\ conn[c].acceptor \in Nodes /\ conn[c].dialer # conn[c].acceptor
      /\ n \in {conn[c].dialer, conn[c].acceptor} /\ Used(c)
  BY DEF ConnOK, At, Used, Ends
<1>2. Other(c, n) \in Ends(c) /\ Other(c, n) # n
  <2>1. \E m \in Ends(c) : m # n
    BY <1>1 DEF Ends
  <2> QED BY <2>1 DEF Other
<1>3. Other(c, Other(c, n)) \in Ends(c) /\ Other(c, Other(c, n)) # Other(c, n)
  <2>1. \E m \in Ends(c) : m # Other(c, n)
    BY <1>1, <1>2 DEF Ends
  <2> QED BY <2>1 DEF Other
<1> QED BY <1>1, <1>2, <1>3 DEF Ends, At

LEMMA SpendLeft ==
  ASSUME left \in [Kinds -> Nat], NEW what \in Kinds, Spend(what)
  PROVE  /\ left' \in [Kinds -> Nat] /\ left'[what] = left[what] - 1 /\ left[what] > 0
         /\ \A k \in Kinds : k # what => left'[k] = left[k]
BY DEF Spend

\* What may still happen becomes less.
LEMMA LeftStep ==
  ASSUME left \in [Kinds -> Nat], [Next]_vars
  PROVE  left' \in [Kinds -> Nat] /\ \A k \in Kinds : left'[k] <= left[k]
<1>1. ASSUME NEW what \in Kinds, Spend(what) PROVE \A k \in Kinds : left'[k] <= left[k]
  BY <1>1, SpendLeft
<1>2. {"dial", "register", "exit", "request", "oversize", "lose", "restart"} = Kinds
  BY DEF Kinds
<1>3. CASE \E what \in Kinds : Spend(what)
  BY <1>1, <1>3, SpendLeft
<1>4. ASSUME NEW r \in Requests, NEW n \in Nodes, NEW m \in Nodes,
             NEW big \in {"no", "request", "reply"}, Ask(r, n, m, big)
      PROVE  left' \in [Kinds -> Nat] /\ \A k \in Kinds : left'[k] <= left[k]
  BY <1>2, <1>4 DEF Ask
<1>5. CASE UNCHANGED left
  BY <1>5
<1> QED BY <1>2, <1>3, <1>4, <1>5
        DEF Next, Proceed, Happen, Broadcasting, Serving, Booting, Reading, vars, Dial, Lose,
            Restart, RegisterGlobal, HolderExits, Greet, Accept, Connected, BroadcastSnapshot,
            BroadcastWrite, Serve, BootSnapshot, BootWrite, ReadFrame, ReaderEnds, Prune

\* The connection a dial takes.
LEMMA DialTakes ==
  ASSUME ConnOK, NEW n \in Nodes, NEW m \in Nodes, Dial(n, m)
  PROVE  \E c \in Conns :
           /\ ~Used(c) /\ n # m /\ left["dial"] > 0
           /\ conn' = [conn EXCEPT ![c] = [dialer |-> n, acceptor |-> m, up |-> TRUE]]
           /\ \A j \in Conns : j < c <=> Used(j)
<1>1. PICK k \in 0 .. MaxConns : /\ k + left["dial"] <= MaxConns
                                 /\ \A c \in Conns : Used(c) <=> c <= k
  BY DEF ConnOK
<1>2. left["dial"] \in Nat \ {0} /\ n # m
  BY SpendLeft DEF ConnOK, Dial, Spend, Kinds
<1>3. k + 1 \in Conns
  BY <1>1, <1>2 DEF Conns
<1> DEFINE first == CHOOSE i \in Conns : ~Used(i) /\ \A j \in Conns : j < i => Used(j)
<1>4. first \in Conns /\ ~Used(first) /\ \A j \in Conns : j < first => Used(j)
  <2>1. ~Used(k + 1) /\ \A j \in Conns : j < k + 1 => Used(j)
    BY <1>1, <1>3 DEF Conns
  <2> QED BY <1>3, <2>1
<1>5. conn' = [conn EXCEPT ![first] = [dialer |-> n, acceptor |-> m, up |-> TRUE]]
  BY DEF Dial
<1>6. \A j \in Conns : j < first <=> Used(j)
  BY <1>1, <1>4 DEF Conns
<1> HIDE DEF first
<1>7. left["dial"] > 0
  BY <1>2
<1> QED BY <1>2, <1>4, <1>5, <1>6, <1>7

\* What changes the connections.
LEMMA ConnMoves ==
  ASSUME [Next]_vars
  PROVE  \/ \E n, m \in Nodes : Dial(n, m)
         \/ \E c \in Conns : Lose(c)
         \/ \E n \in Nodes : Restart(n)
         \/ UNCHANGED conn
<1>1. CASE Proceed
  <2>1. CASE \E c \in Conns : Greet(c) \/ Accept(c) \/ Connected(c)
    BY <2>1 DEF Greet, Accept, Connected
  <2>2. CASE Broadcasting
    BY <2>2 DEF Broadcasting, BroadcastSnapshot, BroadcastWrite, links
  <2>3. CASE Serving
    BY <2>3 DEF Serving, Serve
  <2>4. CASE \E c \in Conns, n \in Nodes : Booting(c, n) \/ Reading(c, n)
    BY <2>4 DEF Booting, Reading, BootSnapshot, BootWrite, ReadFrame, ReaderEnds, Prune
  <2> QED BY <1>1, <2>1, <2>2, <2>3, <2>4 DEF Proceed
<1>2. CASE \E n \in Nodes, x \in Names : RegisterGlobal(n, x) \/ HolderExits(n, x)
  BY <1>2 DEF RegisterGlobal, HolderExits, links
<1>3. CASE \E r \in Requests, n, m \in Nodes, big \in {"no", "request", "reply"} : Ask(r, n, m, big)
  BY <1>3 DEF Ask
<1>4. CASE UNCHANGED vars
  BY <1>4 DEF vars, links
<1> QED BY <1>1, <1>2, <1>3, <1>4 DEF Next, Happen

LEMMA ConnStep == ConnOK /\ [Next]_vars => ConnOK'
<1> SUFFICES ASSUME ConnOK, [Next]_vars PROVE ConnOK'
  OBVIOUS
<1>1. left' \in [Kinds -> Nat] /\ left'["dial"] \in Nat /\ left'["dial"] <= left["dial"]
      /\ left["dial"] \in Nat
  BY LeftStep DEF ConnOK, Kinds
<1>2. PICK k \in 0 .. MaxConns : /\ k + left["dial"] <= MaxConns
                                 /\ \A c \in Conns : Used(c) <=> c <= k
  BY DEF ConnOK
<1>3. ASSUME NEW n \in Nodes, NEW m \in Nodes, Dial(n, m) PROVE ConnOK'
  <2>1. PICK c \in Conns :
           /\ ~Used(c) /\ n # m /\ left["dial"] > 0
           /\ conn' = [conn EXCEPT ![c] = [dialer |-> n, acceptor |-> m, up |-> TRUE]]
           /\ \A j \in Conns : j < c <=> Used(j)
    BY <1>3, DialTakes
  <2>2. left'["dial"] = left["dial"] - 1
    BY <1>3, SpendLeft DEF Dial, ConnOK, Kinds
  <2>3. /\ c \in 0 .. MaxConns /\ c + left'["dial"] <= MaxConns
        /\ \A d \in Conns : Used(d)' <=> d <= c
    <3>1. c = k + 1
      BY <1>1, <1>2, <2>1 DEF Conns
    <3>2. \A d \in Conns : Used(d)' <=> d = c \/ Used(d)
      BY <2>1 DEF Used, ConnOK
    <3> QED BY <1>1, <1>2, <2>1, <2>2, <3>1, <3>2 DEF Conns
  <2>4. /\ conn' \in [Conns -> [dialer : Nodes \cup {NoNode}, acceptor : Nodes \cup {NoNode},
                                up : BOOLEAN]]
        /\ \A d \in Conns :
             IF Used(d)' THEN conn'[d].acceptor \in Nodes \ {conn'[d].dialer}
                         ELSE conn'[d].acceptor = NoNode /\ ~conn'[d].up
    BY <2>1 DEF ConnOK, Used
  <2> QED BY <1>1, <2>3, <2>4 DEF ConnOK
<1>4. ASSUME NEW down \in SUBSET Conns, \A d \in down : Used(d),
             conn' = [c \in Conns |-> IF c \in down THEN [conn[c] EXCEPT !.up = FALSE] ELSE conn[c]]
      PROVE  ConnOK'
  <2>1. \A d \in Conns : /\ conn'[d].dialer = conn[d].dialer
                         /\ conn'[d].acceptor = conn[d].acceptor
                         /\ conn'[d] \in [dialer : Nodes \cup {NoNode},
                                          acceptor : Nodes \cup {NoNode}, up : BOOLEAN]
                         /\ d \notin down => conn'[d] = conn[d]
    BY <1>4 DEF ConnOK
  <2>2. conn' \in [Conns -> [dialer : Nodes \cup {NoNode}, acceptor : Nodes \cup {NoNode},
                             up : BOOLEAN]]
    BY <1>4, <2>1
  <2>3. \A d \in Conns : Used(d)' <=> Used(d)
    BY <2>1 DEF Used
  <2>4. \E j \in 0 .. MaxConns : /\ j + left'["dial"] <= MaxConns
                                 /\ \A d \in Conns : Used(d)' <=> d <= j
    BY <1>1, <1>2, <2>3
  <2>5. \A d \in Conns :
          IF Used(d)' THEN conn'[d].acceptor \in Nodes \ {conn'[d].dialer}
                      ELSE conn'[d].acceptor = NoNode /\ ~conn'[d].up
    BY <1>4, <2>1, <2>3 DEF ConnOK
  <2> QED BY <1>1, <2>2, <2>4, <2>5 DEF ConnOK
<1>5. CASE \E c \in Conns : Lose(c)
  <2>1. PICK c \in Conns : Used(c) /\ conn' = [conn EXCEPT ![c].up = FALSE]
    BY <1>5 DEF Lose
  <2>2. conn' = [d \in Conns |-> IF d \in {c} THEN [conn[d] EXCEPT !.up = FALSE] ELSE conn[d]]
    BY <2>1 DEF ConnOK
  <2> QED BY <1>4, <2>1, <2>2
<1>6. CASE \E n \in Nodes : Restart(n)
  <2> PICK n \in Nodes : Restart(n)
    BY <1>6
  <2> DEFINE mine == {d \in Conns : Used(d) /\ n \in Ends(d)}
  <2>1. conn' = [c \in Conns |-> IF c \in mine THEN [conn[c] EXCEPT !.up = FALSE] ELSE conn[c]]
    BY DEF Restart
  <2>2. mine \in SUBSET Conns /\ \A d \in mine : Used(d)
    OBVIOUS
  <2> HIDE DEF mine
  <2> QED BY <1>4, <2>1, <2>2
<1>7. CASE UNCHANGED conn
  BY <1>1, <1>2, <1>7 DEF ConnOK, Used
<1> QED BY <1>3, <1>5, <1>6, <1>7, ConnMoves

\* The ends of a connection are for ever.
LEMMA EndsStay ==
  ASSUME ConnOK, [Next]_vars, NEW c \in Conns, Used(c)
  PROVE  /\ Used(c)' /\ Ends(c)' = Ends(c)
         /\ \A n \in Nodes : (At(c, n)' <=> At(c, n)) /\ Other(c, n)' = Other(c, n)
<1>1. /\ conn'[c].dialer = conn[c].dialer /\ conn'[c].acceptor = conn[c].acceptor
  <2>1. ASSUME NEW n \in Nodes, NEW m \in Nodes, Dial(n, m) PROVE conn'[c] = conn[c]
    BY <2>1, DialTakes DEF ConnOK
  <2>2. CASE (\E d \in Conns : Lose(d)) \/ (\E n \in Nodes : Restart(n))
    <3>1. CASE \E d \in Conns : Lose(d)
      BY <3>1 DEF Lose, ConnOK
    <3>2. CASE \E n \in Nodes : Restart(n)
      BY <3>2 DEF Restart, ConnOK
    <3> QED BY <2>2, <3>1, <3>2
  <2>3. CASE UNCHANGED conn
    BY <2>3
  <2> QED BY <2>1, <2>2, <2>3, ConnMoves
<1> QED BY <1>1 DEF Used, Ends, At, Other

-----------------------------------------------------------------------------
(* The tasks of a node.                                                    *)

\* A listed connection is one of its node's.
LEMMA Listed ==
  ASSUME ConnOK, PeersOK, NEW n \in Nodes, NEW m \in Nodes, NEW c, peers[n][m] = c, c # NoConn
  PROVE  /\ c \in Conns /\ At(c, n) /\ At(c, m) /\ reader[c][n] = "running"
         /\ Other(c, n) = m /\ Other(c, m) = n
<1>1. c \in Conns
  BY DEF PeersOK
<1>2. Ends(c) = {n, m} /\ n # m /\ reader[c][n] = "running"
  BY <1>1 DEF PeersOK
<1>3. Used(c)
  BY <1>2 DEF Used, Ends
<1>4. At(c, n) /\ At(c, m)
  BY <1>2, <1>3 DEF At
<1> QED BY <1>1, <1>2, <1>4, OtherEnd

\* Who is at an end stays there, and those that are gone are not missed.
LEMMA AtStays ==
  ASSUME ConnOK, [Next]_vars, NEW c \in Conns, NEW n \in Nodes, At(c, n)
  PROVE  At(c, n)' /\ Other(c, n)' = Other(c, n)
BY EndsStay DEF At

LEMMA ReaderStep ==
  ASSUME ConnOK, TasksOK, [Next]_vars
  PROVE  /\ reader' \in [Conns -> [Nodes -> {"none", "greeted", "running", "pruning", "ended"}]]
         /\ \A c \in Conns, n \in Nodes : reader'[c][n] # "none" => At(c, n)'
<1> SUFFICES /\ reader' \in [Conns -> [Nodes -> {"none", "greeted", "running", "pruning", "ended"}]]
             /\ \A c \in Conns, n \in Nodes : reader'[c][n] # "none" => At(c, n)
  BY AtStays
<1>0. /\ reader \in [Conns -> [Nodes -> {"none", "greeted", "running", "pruning", "ended"}]]
      /\ \A c \in Conns, n \in Nodes : reader[c][n] # "none" => At(c, n)
  BY DEF TasksOK
<1>1. ASSUME NEW c \in Conns, NEW n \in Nodes, At(c, n),
             NEW new \in {"greeted", "running", "pruning", "ended"},
             reader' = [reader EXCEPT ![c][n] = new]
      PROVE  /\ reader' \in [Conns -> [Nodes -> {"none", "greeted", "running", "pruning", "ended"}]]
             /\ \A d \in Conns, m \in Nodes : reader'[d][m] # "none" => At(d, m)
  BY <1>0, <1>1
<1>2. CASE \E c \in Conns : Greet(c) \/ Accept(c) \/ Connected(c)
  <2> PICK c \in Conns : Greet(c) \/ Accept(c) \/ Connected(c)
    BY <1>2
  <2>1. /\ conn[c].dialer \in Nodes /\ At(c, conn[c].dialer)
        /\ conn[c].acceptor \in Nodes /\ At(c, conn[c].acceptor)
    BY DEF ConnOK, At, Ends, Used, Greet, Accept, Connected
  <2>2. \/ reader' = [reader EXCEPT ![c][conn[c].dialer] = "running"]
        \/ reader' = [reader EXCEPT ![c][conn[c].dialer] = "ended"]
        \/ reader' = [reader EXCEPT ![c][conn[c].acceptor] = "running"]
        \/ reader' = [reader EXCEPT ![c][conn[c].acceptor] = "greeted"]
    BY DEF Greet, Accept, Connected, ServePeer
  <2> QED BY <1>1, <2>1, <2>2
<1>3. CASE \E n \in Nodes : Restart(n)
  <2>1. PICK n \in Nodes : reader' = [c \in Conns |->
            IF c \in {d \in Conns : Used(d) /\ n \in Ends(d)}
              THEN [reader[c] EXCEPT ![n] =
                                IF @ = "none" /\ n = conn[c].acceptor THEN @ ELSE "ended"]
                         ELSE reader[c]]
    BY <1>3 DEF Restart
  <2> QED BY <1>0, <2>1 DEF At
<1>4. CASE \E c \in Conns, n \in Nodes : Reading(c, n)
  <2>1. PICK c \in Conns, n \in Nodes : Reading(c, n)
    BY <1>4
  <2>2. At(c, n)
    BY <2>1 DEF Reading, At
  <2>3. \/ reader' = [reader EXCEPT ![c][n] = "pruning"]
        \/ reader' = [reader EXCEPT ![c][n] = "ended"]
        \/ reader' = reader
    BY <2>1 DEF Reading, ReadFrame, ReaderEnds, Prune
  <2> QED BY <1>0, <1>1, <2>2, <2>3
<1>5. CASE reader' = reader
  BY <1>0, <1>5
<1>6. CASE Broadcasting
  BY <1>5, <1>6 DEF Broadcasting, BroadcastSnapshot, BroadcastWrite, links
<1>7. CASE Serving \/ \E c \in Conns, n \in Nodes : Booting(c, n)
  BY <1>5, <1>7 DEF Serving, Serve, Booting, BootSnapshot, BootWrite
<1>8. CASE \E n \in Nodes, x \in Names : RegisterGlobal(n, x) \/ HolderExits(n, x)
  BY <1>5, <1>8 DEF RegisterGlobal, HolderExits, links
<1>9. CASE \/ \E n, m \in Nodes : Dial(n, m) 
           \/ \E c \in Conns : Lose(c)
           \/ \E r \in Requests, n, m \in Nodes, big \in {"no", "request", "reply"} : Ask(r, n, m, big)
  <2>1. CASE (\E n, m \in Nodes : Dial(n, m)) \/ \E c \in Conns : Lose(c)
    BY <1>5, <2>1 DEF Dial, Lose
  <2>2. ASSUME NEW r \in Requests, NEW n \in Nodes, NEW m \in Nodes,
               NEW big \in {"no", "request", "reply"}, Ask(r, n, m, big)
        PROVE  reader' = reader
    BY <2>2 DEF Ask
  <2> QED BY <1>5, <1>9, <2>1, <2>2
<1>10. CASE UNCHANGED vars
  BY <1>5, <1>10 DEF vars, links
<1> QED BY <1>2, <1>3, <1>4, <1>6, <1>7, <1>8, <1>9, <1>10 DEF Next, Proceed, Happen

LEMMA BootStep ==
  ASSUME ConnOK, TasksOK, [Next]_vars
  PROVE  /\ boot' \in [Conns -> [Nodes -> [at : {"done", "snapshot", "write"}, names : SUBSET Names]]]
         /\ \A c \in Conns, n \in Nodes : boot'[c][n].at # "done" => At(c, n)'
<1> DEFINE Boots == [at : {"done", "snapshot", "write"}, names : SUBSET Names]
<1> SUFFICES /\ boot' \in [Conns -> [Nodes -> Boots]]
             /\ \A c \in Conns, n \in Nodes : boot'[c][n].at # "done" => At(c, n)
  BY AtStays
<1>0. /\ boot \in [Conns -> [Nodes -> Boots]]
      /\ \A c \in Conns, n \in Nodes : boot[c][n].at # "done" => At(c, n)
  BY DEF TasksOK
<1>x. /\ NoBoot \in Boots /\ NoBoot.at = "done" /\ [at |-> "snapshot", names |-> {}] \in Boots
      /\ \A mine \in SUBSET Names : [at |-> "write", names |-> mine] \in Boots
  BY DEF NoBoot
<1> HIDE DEF Boots
<1>1. ASSUME NEW c \in Conns, NEW n \in Nodes, At(c, n), NEW new \in Boots,
             boot' = [boot EXCEPT ![c][n] = new]
      PROVE  /\ boot' \in [Conns -> [Nodes -> Boots]]
             /\ \A d \in Conns, m \in Nodes : boot'[d][m].at # "done" => At(d, m)
  BY <1>0, <1>1
<1>2. CASE \E c \in Conns : Greet(c) \/ Accept(c) \/ Connected(c)
  <2> PICK c \in Conns : Greet(c) \/ Accept(c) \/ Connected(c)
    BY <1>2
  <2>1. /\ conn[c].dialer \in Nodes /\ At(c, conn[c].dialer)
        /\ conn[c].acceptor \in Nodes /\ At(c, conn[c].acceptor)
    BY DEF ConnOK, At, Ends, Used, Greet, Accept, Connected
  <2>2. \/ boot' = [boot EXCEPT ![c][conn[c].dialer] = [at |-> "snapshot", names |-> {}]]
        \/ boot' = [boot EXCEPT ![c][conn[c].acceptor] = [at |-> "snapshot", names |-> {}]]
        \/ boot' = boot
    BY DEF Greet, Accept, Connected, ServePeer
  <2> QED BY <1>0, <1>1, <1>x, <2>1, <2>2
<1>3. CASE \E n \in Nodes : Restart(n)
  <2>1. PICK n \in Nodes : boot' = [c \in Conns |->
            IF c \in {d \in Conns : Used(d) /\ n \in Ends(d)}
              THEN [boot[c] EXCEPT ![n] = NoBoot] ELSE boot[c]]
    BY <1>3 DEF Restart
  <2> QED BY <1>0, <1>x, <2>1
<1>4. CASE \E c \in Conns, n \in Nodes : Booting(c, n)
  <2>1. PICK c \in Conns, n \in Nodes : Booting(c, n)
    BY <1>4
  <2>2. At(c, n)
    BY <2>1 DEF Booting, At
  <2>3. \E new \in Boots : boot' = [boot EXCEPT ![c][n] = new]
    <3>1. CASE BootSnapshot(c, n)
      <4> DEFINE mine == {x \in Names : globals[n][x] = n}
      <4>1. boot' = [boot EXCEPT ![c][n] = IF mine = {} THEN NoBoot ELSE [at |-> "write", names |-> mine]]
        BY <3>1 DEF BootSnapshot
      <4>2. mine \in SUBSET Names
        OBVIOUS
      <4> HIDE DEF mine
      <4> QED BY <1>x, <4>1, <4>2
    <3>2. CASE BootWrite(c, n)
      BY <1>x, <3>2 DEF BootWrite
    <3> QED BY <2>1, <3>1, <3>2 DEF Booting
  <2> QED BY <1>1, <2>2, <2>3
<1>5. CASE boot' = boot
  BY <1>0, <1>5
<1>6. CASE Broadcasting
  BY <1>5, <1>6 DEF Broadcasting, BroadcastSnapshot, BroadcastWrite, links
<1>7. CASE Serving \/ \E c \in Conns, n \in Nodes : Reading(c, n)
  BY <1>5, <1>7 DEF Serving, Serve, Reading, ReadFrame, ReaderEnds, Prune
<1>8. CASE \E n \in Nodes, x \in Names : RegisterGlobal(n, x) \/ HolderExits(n, x)
  BY <1>5, <1>8 DEF RegisterGlobal, HolderExits, links
<1>9. CASE \/ \E n, m \in Nodes : Dial(n, m)
           \/ \E c \in Conns : Lose(c)
           \/ \E r \in Requests, n, m \in Nodes, big \in {"no", "request", "reply"} : Ask(r, n, m, big)
  <2>1. CASE (\E n, m \in Nodes : Dial(n, m)) \/ \E c \in Conns : Lose(c)
    BY <1>5, <2>1 DEF Dial, Lose
  <2>2. ASSUME NEW r \in Requests, NEW n \in Nodes, NEW m \in Nodes,
               NEW big \in {"no", "request", "reply"}, Ask(r, n, m, big)
        PROVE  boot' = boot
    BY <2>2 DEF Ask
  <2> QED BY <1>5, <1>9, <2>1, <2>2
<1>10. CASE UNCHANGED vars
  BY <1>5, <1>10 DEF vars, links
<1> QED BY <1>2, <1>3, <1>4, <1>6, <1>7, <1>8, <1>9, <1>10 DEF Next, Proceed, Happen

Cast == [id : Nat, node : Nodes, name : Names, at : {"spawned", "write"}, targets : SUBSET Conns]

LEMMA CastsStep ==
  ASSUME ConnOK, PeersOK, TasksOK, [Next]_vars
  PROVE  casts' \subseteq Cast /\ \A t \in casts' : \A c \in t.targets : At(c, t.node)'
<1>0. casts \subseteq Cast /\ \A t \in casts : \A c \in t.targets : At(c, t.node)
  BY DEF TasksOK, Cast
<1> SUFFICES casts' \subseteq Cast /\ \A t \in casts' : \A c \in t.targets : At(c, t.node)
  <2>1. \A t \in Cast : t.node \in Nodes /\ t.targets \subseteq Conns
    BY DEF Cast
  <2> QED BY <2>1, AtStays
<1>1. ASSUME NEW t \in casts, NEW new \in Cast, \A c \in new.targets : At(c, new.node),
             casts' \subseteq casts \cup {new}
      PROVE  casts' \subseteq Cast /\ \A u \in casts' : \A c \in u.targets : At(c, u.node)
  BY <1>0, <1>1
<1>2. ASSUME NEW t \in casts, BroadcastSnapshot(t)
      PROVE  casts' \subseteq Cast /\ \A u \in casts' : \A c \in u.targets : At(c, u.node)
  <2> DEFINE targets == {peers[t.node][m] : m \in Nodes} \ {NoConn}
             new == [t EXCEPT !.at = "write", !.targets = targets]
  <2>1. casts' \subseteq casts \cup {new}
    BY <1>2 DEF BroadcastSnapshot
  <2>2. t \in Cast /\ t.node \in Nodes
    BY <1>0 DEF Cast
  <2>3. targets \subseteq Conns /\ \A c \in targets : At(c, t.node)
    <3> SUFFICES ASSUME NEW m \in Nodes, NEW c, c = peers[t.node][m], c # NoConn
                 PROVE  c \in Conns /\ At(c, t.node)
      OBVIOUS
    <3> QED BY <2>2, Listed
  <2> HIDE DEF targets
  <2>4. new \in Cast /\ new.targets = targets /\ new.node = t.node
    BY <2>2, <2>3 DEF Cast
  <2> HIDE DEF new
  <2> QED BY <1>1, <2>1, <2>3, <2>4
<1>3. ASSUME NEW t \in casts, NEW c \in t.targets, BroadcastWrite(t, c)
      PROVE  casts' \subseteq Cast /\ \A u \in casts' : \A d \in u.targets : At(d, u.node)
  <2> DEFINE new == [t EXCEPT !.targets = @ \ {c}]
  <2>1. casts' \subseteq casts \cup {new}
    BY <1>3 DEF BroadcastWrite
  <2>2. t \in Cast
    BY <1>0
  <2>3. new \in Cast /\ new.targets = t.targets \ {c} /\ new.node = t.node
    BY <2>2 DEF Cast
  <2> HIDE DEF new
  <2> QED BY <1>0, <1>1, <2>1, <2>3
<1>4. ASSUME NEW n \in Nodes, NEW x \in Names, RegisterGlobal(n, x)
      PROVE  casts' \subseteq Cast /\ \A u \in casts' : \A d \in u.targets : At(d, u.node)
  <2> DEFINE new == [id |-> left["register"], node |-> n, name |-> x, at |-> "spawned", targets |-> {}]
  <2>1. casts' = casts \cup {new}
    BY <1>4 DEF RegisterGlobal
  <2>2. new \in Cast /\ new.targets = {}
    <3>1. left["register"] \in Nat
      BY DEF ConnOK, Kinds
    <3> QED BY <3>1 DEF Cast
  <2> HIDE DEF new
  <2> QED BY <1>0, <2>1, <2>2
<1>5. CASE casts' \subseteq casts
  BY <1>0, <1>5
<1>6. CASE Broadcasting
  BY <1>2, <1>3, <1>6 DEF Broadcasting
<1>7. CASE Serving \/ \E c \in Conns : Greet(c) \/ Accept(c) \/ Connected(c)
  BY <1>5, <1>7 DEF Serving, Serve, Greet, Accept, Connected, names
<1>8. CASE \E n \in Nodes, x \in Names : RegisterGlobal(n, x) \/ HolderExits(n, x)
  BY <1>4, <1>5, <1>8 DEF HolderExits
<1>9. CASE \/ \E n, m \in Nodes : Dial(n, m)
           \/ \E c \in Conns : Lose(c)
           \/ \E n \in Nodes : Restart(n)
           \/ \E r \in Requests, n, m \in Nodes, big \in {"no", "request", "reply"} : Ask(r, n, m, big)
  <2>1. CASE \/ \E n, m \in Nodes : Dial(n, m)
             \/ \E c \in Conns : Lose(c)
             \/ \E n \in Nodes : Restart(n)
    BY <1>5, <2>1 DEF Dial, Lose, Restart, names
  <2>2. ASSUME NEW r \in Requests, NEW n \in Nodes, NEW m \in Nodes,
               NEW big \in {"no", "request", "reply"}, Ask(r, n, m, big)
        PROVE  casts' \subseteq casts
    BY <2>2 DEF Ask, names
  <2> QED BY <1>5, <1>9, <2>1, <2>2
<1>10. CASE \E c \in Conns, n \in Nodes : Booting(c, n) \/ Reading(c, n)
  <2>1. CASE \E c \in Conns, n \in Nodes : Booting(c, n)
    BY <1>5, <2>1 DEF Booting, BootSnapshot, BootWrite, names
  <2>2. CASE \E c \in Conns, n \in Nodes : Reading(c, n)
    <3> PICK c \in Conns, n \in Nodes : Reading(c, n)
      BY <2>2
    <3>1. casts' = casts
      BY DEF Reading, ReadFrame, ReadRegister, ReadRequest, ReadReply, ReaderEnds, Prune, names
    <3> QED BY <1>5, <3>1
  <2> QED BY <1>10, <2>1, <2>2
<1>11. CASE UNCHANGED vars
  BY <1>5, <1>11 DEF vars, names
<1> QED BY <1>6, <1>7, <1>8, <1>9, <1>10, <1>11 DEF Next, Proceed, Happen

LEMMA TasksStep == ConnOK /\ PeersOK /\ TasksOK /\ [Next]_vars => TasksOK'
BY ReaderStep, BootStep, CastsStep DEF TasksOK, Cast

-----------------------------------------------------------------------------
(* Routes and names.                                                       *)

\* What happens to the entries of the peers.
LEMMA PeersStep ==
  ASSUME ConnOK, TasksOK, PeersOK, [Next]_vars
  PROVE  PeersOK'
<1>0. /\ peers \in [Nodes -> [Nodes -> {NoConn} \cup Conns]]
      /\ reader \in [Conns -> [Nodes -> {"none", "greeted", "running", "pruning", "ended"}]]
  BY DEF PeersOK, TasksOK
<1>w. \A n, m \in Nodes, c \in Conns : peers[n][m] = c =>
        Ends(c) = {n, m} /\ n # m /\ reader[c][n] = "running"
  BY DEF PeersOK
<1> DEFINE Watched(n, m, c) ==
             peers'[n][m] = c => Ends(c) = {n, m} /\ n # m /\ reader'[c][n] = "running"
<1> SUFFICES /\ peers' \in [Nodes -> [Nodes -> {NoConn} \cup Conns]]
             /\ \A n, m \in Nodes, c \in Conns : Watched(n, m, c)
  <2>1. ASSUME NEW n \in Nodes, NEW m \in Nodes, NEW c \in Conns, Ends(c) = {n, m}
        PROVE  Ends(c)' = {n, m}
    <3>1. Used(c)
      BY <2>1 DEF Used, Ends
    <3> QED BY <2>1, <3>1, EndsStay
  <2> QED BY <2>1 DEF PeersOK
<1>1. CASE \E c \in Conns : Greet(c) \/ Accept(c) \/ Connected(c)
  <2> PICK c \in Conns : Greet(c) \/ Accept(c) \/ Connected(c)
    BY <1>1
  <2>1. /\ conn[c].dialer \in Nodes /\ At(c, conn[c].dialer)
        /\ conn[c].acceptor \in Nodes /\ At(c, conn[c].acceptor)
    BY DEF ConnOK, At, Ends, Used, Greet, Accept, Connected
  <2>2. CASE /\ peers' = peers
             /\ \E n \in Nodes : /\ reader[c][n] = "none"
                                /\ \E new : reader' = [reader EXCEPT ![c][n] = new]
    <3>1. \A d \in Conns, n \in Nodes : reader[d][n] = "running" => reader'[d][n] = "running"
      BY <1>0, <2>2
    <3>2. ASSUME NEW n \in Nodes, NEW m \in Nodes, NEW d \in Conns, peers'[n][m] = d
          PROVE  Watched(n, m, d)
      <4>1. peers[n][m] = d
        BY <2>2, <3>2
      <4>2. Ends(d) = {n, m} /\ n # m /\ reader[d][n] = "running"
        BY <1>w, <4>1
      <4>3. reader'[d][n] = "running"
        BY <3>1, <4>2
      <4> QED BY <4>2, <4>3
    <3> QED BY <1>0, <2>2, <3>2
  <2>3. CASE \E n \in Nodes : At(c, n) /\ ServePeer(c, n)
    <3>2. PICK n \in Nodes : At(c, n) /\ ServePeer(c, n)
      BY <2>3
    <3>3. /\ reader' = [reader EXCEPT ![c][n] = "running"]
          /\ peers' = [peers EXCEPT ![n][Other(c, n)] = c]
          /\ Other(c, n) \in Nodes /\ Other(c, n) # n /\ Ends(c) = {n, Other(c, n)}
      BY <3>2, OtherEnd DEF ServePeer
    <3> DEFINE o == Other(c, n)
    <3> HIDE DEF o
    <3>4. peers' = [peers EXCEPT ![n][o] = c] /\ o \in Nodes /\ o # n /\ Ends(c) = {n, o}
      BY <3>3 DEF o
    <3>5. peers' \in [Nodes -> [Nodes -> {NoConn} \cup Conns]]
      BY <1>0, <3>4
    <3>6. ASSUME NEW m \in Nodes, NEW k \in Nodes, NEW d \in Conns, peers'[m][k] = d
          PROVE  Watched(m, k, d)
      <4>1. CASE m = n /\ k = o
        BY <1>0, <3>3, <3>4, <3>6, <4>1
      <4>2. CASE m # n \/ k # o
        <5>1. peers[m][k] = d
          BY <1>0, <3>4, <3>6, <4>2
        <5> QED BY <1>0, <1>w, <3>3, <5>1
      <4> QED BY <4>1, <4>2
    <3> QED BY <3>5, <3>6
  <2> QED BY <2>1, <2>2, <2>3 DEF Greet, Accept, Connected
<1>2. CASE \E n \in Nodes : Restart(n)
  <2>1. PICK n \in Nodes :
          /\ reader' = [c \in Conns |->
               IF c \in {d \in Conns : Used(d) /\ n \in Ends(d)}
                 THEN [reader[c] EXCEPT ![n] =
                                IF @ = "none" /\ n = conn[c].acceptor THEN @ ELSE "ended"]
                         ELSE reader[c]]
          /\ peers' = [peers EXCEPT ![n] = [m \in Nodes |-> NoConn]]
    BY <1>2 DEF Restart
  <2>2. peers' \in [Nodes -> [Nodes -> {NoConn} \cup Conns]]
    BY <1>0, <2>1
  <2>3. ASSUME NEW m \in Nodes, NEW k \in Nodes, NEW d \in Conns PROVE Watched(m, k, d)
    <3>1. CASE m = n
      BY <1>0, <2>1, <3>1 DEF Conns
    <3>2. CASE m # n
      <4>1. peers'[m][k] = peers[m][k]
        BY <1>0, <2>1, <3>2
      <4>2. \A c \in Conns : reader'[c][m] = reader[c][m]
        BY <1>0, <2>1, <3>2
      <4> QED BY <1>w, <4>1, <4>2
    <3> QED BY <3>1, <3>2
  <2> QED BY <2>2, <2>3
<1>3. CASE \E c \in Conns, n \in Nodes : Reading(c, n)
  <2>1. PICK c \in Conns, n \in Nodes : Reading(c, n)
    BY <1>3
  <2>2. At(c, n) /\ Other(c, n) \in Nodes /\ \A m : Ends(c) = {n, m} /\ n # m => m = Other(c, n)
    BY <2>1, OtherEnd DEF Reading, At
  <2> DEFINE o == Other(c, n)
  <2>3. CASE ReaderEnds(c, n)
    <3>1. /\ peers' = [peers EXCEPT ![n][o] = NoConn]
          /\ reader' = [reader EXCEPT ![c][n] = "pruning"]
      BY <2>3 DEF ReaderEnds
    <3>2. o \in Nodes /\ \A m : Ends(c) = {n, m} /\ n # m => m = o
      BY <2>2
    <3> HIDE DEF o
    <3>3. peers' \in [Nodes -> [Nodes -> {NoConn} \cup Conns]]
      BY <1>0, <3>1, <3>2
    <3>4. ASSUME NEW m \in Nodes, NEW k \in Nodes, NEW d \in Conns, peers'[m][k] = d
          PROVE  Watched(m, k, d)
      <4>1. peers[m][k] = d /\ (m # n \/ k # o)
        BY <1>0, <3>1, <3>2, <3>4 DEF Conns
      <4>2. Ends(d) = {m, k} /\ m # k /\ reader[d][m] = "running"
        BY <1>w, <4>1
      <4>3. d # c \/ m # n
        BY <3>2, <4>1, <4>2
      <4> QED BY <1>0, <3>1, <4>2, <4>3
    <3> QED BY <3>3, <3>4
  <2>4. CASE Prune(c, n)
    <3>1. /\ peers' = peers /\ reader[c][n] = "pruning"
          /\ reader' = [reader EXCEPT ![c][n] = "ended"]
      BY <2>4 DEF Prune
    <3>2. ASSUME NEW m \in Nodes, NEW k \in Nodes, NEW d \in Conns, peers[m][k] = d
          PROVE  Watched(m, k, d)
      <4>1. Ends(d) = {m, k} /\ m # k /\ reader[d][m] = "running"
        BY <1>w, <3>2
      <4>2. reader'[d][m] = "running"
        BY <1>0, <3>1, <4>1
      <4> QED BY <4>1, <4>2
    <3> QED BY <1>0, <3>1, <3>2
  <2>5. CASE ReadFrame(c, n)
    BY <1>0, <1>w, <2>5 DEF ReadFrame
  <2> QED BY <2>1, <2>3, <2>4, <2>5 DEF Reading
<1>4. CASE UNCHANGED <<peers, reader>>
  BY <1>0, <1>w, <1>4
<1>5. CASE Broadcasting
  BY <1>4, <1>5 DEF Broadcasting, BroadcastSnapshot, BroadcastWrite, links
<1>6. CASE Serving \/ \E c \in Conns, n \in Nodes : Booting(c, n)
  BY <1>4, <1>6 DEF Serving, Serve, Booting, BootSnapshot, BootWrite
<1>7. CASE \E n \in Nodes, x \in Names : RegisterGlobal(n, x) \/ HolderExits(n, x)
  BY <1>4, <1>7 DEF RegisterGlobal, HolderExits, links
<1>8. CASE \/ \E n, m \in Nodes : Dial(n, m)
           \/ \E c \in Conns : Lose(c)
           \/ \E r \in Requests, n, m \in Nodes, big \in {"no", "request", "reply"} : Ask(r, n, m, big)
  <2>1. ASSUME NEW r \in Requests, NEW n \in Nodes, NEW m \in Nodes,
               NEW big \in {"no", "request", "reply"}, Ask(r, n, m, big)
        PROVE  UNCHANGED <<peers, reader>>
    BY <2>1 DEF Ask
  <2>2. CASE (\E n, m \in Nodes : Dial(n, m)) \/ \E c \in Conns : Lose(c)
    BY <1>4, <2>2 DEF Dial, Lose
  <2> QED BY <1>4, <1>8, <2>1, <2>2
<1>9. CASE UNCHANGED vars
  BY <1>4, <1>9 DEF vars, links
<1> QED BY <1>1, <1>2, <1>3, <1>5, <1>6, <1>7, <1>8, <1>9 DEF Next, Proceed, Happen

\* A control loop between two nodes goes on to its pruning.
Watches(n, m) ==
  \E c \in Conns : /\ Used(c) /\ Ends(c) = {n, m} /\ reader[c][n] \in {"running", "pruning"}

\* A name is known of a peer whose loop is at work.
LEMMA NamesStep ==
  ASSUME ConnOK, TasksOK, WireOK, NamesOK, [Next]_vars
  PROVE  NamesOK'
<1>0. /\ globals \in [Nodes -> [Names -> {NoNode} \cup Nodes]] /\ local \in [Nodes -> SUBSET Names]
      /\ \A n, m \in Nodes, x \in Names : n # m /\ globals[n][x] = m => Watches(n, m)
  BY DEF NamesOK, Watches
<1> SUFFICES /\ globals' \in [Nodes -> [Names -> {NoNode} \cup Nodes]]
             /\ local' \in [Nodes -> SUBSET Names]
             /\ \A n, m \in Nodes, x \in Names : n # m /\ globals'[n][x] = m => Watches(n, m)'
  BY DEF NamesOK, Watches
<1>2. CASE \E n \in Nodes, x \in Names : RegisterGlobal(n, x)
  <2>1. PICK n \in Nodes, x \in Names : RegisterGlobal(n, x)
    BY <1>2
  <2>2. /\ local' = [local EXCEPT ![n] = @ \cup {x}] /\ globals' = [globals EXCEPT ![n][x] = n]
        /\ UNCHANGED reader /\ UNCHANGED conn
    BY <2>1 DEF RegisterGlobal, links
  <2>3. /\ globals' \in [Nodes -> [Names -> {NoNode} \cup Nodes]]
        /\ local' \in [Nodes -> SUBSET Names]
    BY <1>0, <2>2
  <2>4. ASSUME NEW k \in Nodes, NEW m \in Nodes, NEW y \in Names, k # m, globals'[k][y] = m
        PROVE  Watches(k, m)'
    <3>1. globals[k][y] = m
      BY <1>0, <2>2, <2>4
    <3> QED BY <1>0, <2>2, <2>4, <3>1 DEF Watches, Used, Ends
  <2> QED BY <2>3, <2>4
<1>3. CASE \E n \in Nodes, x \in Names : HolderExits(n, x)
  <2>1. UNCHANGED <<globals, conn, reader>>
    BY <1>3 DEF HolderExits, links
  <2>2. local' \in [Nodes -> SUBSET Names]
    BY <1>0, <1>3 DEF HolderExits
  <2>3. \A n, m \in Nodes : Watches(n, m)' = Watches(n, m)
    BY <2>1 DEF Watches, Used, Ends
  <2> QED BY <1>0, <2>1, <2>2, <2>3
<1>4. CASE \E n \in Nodes : Restart(n)
  <2>1. PICK n \in Nodes : Restart(n)
    BY <1>4
  <2>2. /\ globals' = [globals EXCEPT ![n] = [x \in Names |-> NoNode]]
        /\ local' = [local EXCEPT ![n] = {}]
        /\ reader' = [c \in Conns |-> IF c \in {d \in Conns : Used(d) /\ n \in Ends(d)}
                         THEN [reader[c] EXCEPT ![n] =
                                IF @ = "none" /\ n = conn[c].acceptor THEN @ ELSE "ended"]
                         ELSE reader[c]]
    BY <2>1 DEF Restart
  <2>3. ASSUME NEW k \in Nodes, NEW m \in Nodes, NEW y \in Names, k # m, globals'[k][y] = m
        PROVE  Watches(k, m)'
    <3>1. k # n /\ globals[k][y] = m
      BY <1>0, <2>2, <2>3
    <3>2. PICK c \in Conns : /\ Used(c) /\ Ends(c) = {k, m}
                             /\ reader[c][k] \in {"running", "pruning"}
      BY <1>0, <2>3, <3>1 DEF Watches
    <3>3. reader'[c][k] = reader[c][k]
      BY <2>2, <3>1 DEF TasksOK
    <3>4. Used(c)' /\ Ends(c)' = {k, m}
      BY <3>2, EndsStay
    <3> QED BY <3>2, <3>3, <3>4 DEF Watches
  <2> QED BY <1>0, <2>2, <2>3
<1>5. CASE \E c \in Conns, n \in Nodes : Reading(c, n)
  <2> PICK c \in Conns, n \in Nodes : Reading(c, n)
    BY <1>5
  <2>1. At(c, n) /\ Other(c, n) \in Nodes /\ Other(c, n) # n /\ Ends(c) = {n, Other(c, n)}
    BY OtherEnd DEF Reading, At
  <2>2. PICK o \in Nodes : o = Other(c, n)
    BY <2>1
  <2>3. CASE Prune(c, n)
    <3>1. /\ globals' = [globals EXCEPT ![n] = [x \in Names |-> IF @[x] = o THEN NoNode ELSE @[x]]]
          /\ local' = local
          /\ reader' = [reader EXCEPT ![c][n] = "ended"]
          /\ conn' = conn /\ reader[c][n] = "pruning"
      BY <2>2, <2>3 DEF Prune
    <3>2. /\ globals' \in [Nodes -> [Names -> {NoNode} \cup Nodes]]
          /\ local' \in [Nodes -> SUBSET Names]
      BY <1>0, <3>1
    <3>3. ASSUME NEW k \in Nodes, NEW m \in Nodes, NEW y \in Names, k # m, globals'[k][y] = m
          PROVE  Watches(k, m)'
      <4>1. globals[k][y] = m /\ (k # n \/ m # o)
        BY <1>0, <3>1, <3>3
      <4>2. PICK d \in Conns : /\ Used(d) /\ Ends(d) = {k, m}
                               /\ reader[d][k] \in {"running", "pruning"}
        BY <1>0, <3>3, <4>1 DEF Watches
      <4>3. d # c \/ k # n
        <5>1. Ends(c) = {n, o}
          BY <2>1, <2>2
        <5> QED BY <3>3, <4>1, <4>2, <5>1
      <4>4. reader'[d][k] = reader[d][k]
        BY <3>1, <4>3 DEF TasksOK
      <4>5. Used(d)' /\ Ends(d)' = {k, m}
        BY <4>2, EndsStay
      <4> QED BY <4>2, <4>4, <4>5 DEF Watches
    <3> QED BY <3>2, <3>3
  <2>4. CASE ReadFrame(c, n)
    <3>1. UNCHANGED <<conn, reader, local>>
      BY <2>4 DEF ReadFrame, ReadRegister, ReadRequest, ReadReply, names
    <3>2. \A k, m \in Nodes : Watches(k, m)' = Watches(k, m)
      BY <3>1 DEF Watches, Used, Ends
    <3>3. CASE ReadRegister(c, n)
      <4> DEFINE f == Head(wire[c][n])
      <4>1. /\ f.kind = "Register" /\ globals' = [globals EXCEPT ![n][f.name] = f.node]
            /\ wire[c][n] # <<>> /\ reader[c][n] = "running"
        BY <2>4, <3>3 DEF ReadRegister, ReadFrame
      <4>2. f \in Frames /\ f.node = o /\ f.name \in Names
        <5>1. wire[c][n] \in Seq(Frames)
          BY DEF WireOK
        <5>2. f = wire[c][n][1] /\ 1 \in 1 .. Len(wire[c][n]) /\ f \in Frames
          BY <4>1, <5>1, HeadTailProperties, EmptySeq, LenProperties, ElementOfSeq
        <5>3. f.node = o
          BY <2>2, <4>1, <5>2 DEF WireOK
        <5> QED BY <4>1, <5>2, <5>3 DEF Frames
      <4> HIDE DEF f
      <4>3. Watches(n, o)
        BY <2>1, <2>2, <4>1 DEF Watches, At
      <4> QED BY <1>0, <3>1, <3>2, <4>1, <4>2, <4>3
    <3>4. CASE globals' = globals
      BY <1>0, <3>1, <3>2, <3>4
    <3> QED BY <2>4, <3>3, <3>4 DEF ReadFrame, ReadRequest, ReadReply, names
  <2>5. CASE ReaderEnds(c, n)
    <3>1. /\ UNCHANGED <<conn, globals, local>> /\ reader' = [reader EXCEPT ![c][n] = "pruning"]
      BY <2>5 DEF ReaderEnds, names
    <3>2. \A k, m \in Nodes : Watches(k, m) => Watches(k, m)'
      BY <3>1 DEF Watches, Used, Ends, TasksOK
    <3> QED BY <1>0, <3>1, <3>2
  <2> QED BY <2>3, <2>4, <2>5 DEF Reading
\* The others leave the names alone, and neither restart nor prune.
<1>6. CASE UNCHANGED <<globals, local>> /\ \A k, m \in Nodes : Watches(k, m) => Watches(k, m)'
  BY <1>0, <1>6
<1>7. CASE \E c \in Conns : Greet(c) \/ Accept(c) \/ Connected(c)
  <2>1. UNCHANGED <<globals, local, conn>>
    BY <1>7 DEF Greet, Accept, Connected, names
  <2>2. \A c \in Conns, n \in Nodes :
          reader[c][n] \in {"running", "pruning"} => reader'[c][n] \in {"running", "pruning"}
    <3> PICK d \in Conns : Greet(d) \/ Accept(d) \/ Connected(d)
      BY <1>7
    <3>1. PICK k, new : /\ reader' = [reader EXCEPT ![d][k] = new]
                        /\ new = "running" \/ reader[d][k] = "none"
      BY DEF Greet, Accept, Connected, ServePeer
    <3> QED BY <3>1 DEF TasksOK
  <2> QED BY <1>6, <2>1, <2>2 DEF Watches, Used, Ends
<1>8. CASE UNCHANGED <<globals, local, conn, reader>>
  BY <1>6, <1>8 DEF Watches, Used, Ends
<1>9. CASE Broadcasting
  BY <1>8, <1>9 DEF Broadcasting, BroadcastSnapshot, BroadcastWrite, links
<1>10. CASE Serving \/ \E c \in Conns, n \in Nodes : Booting(c, n)
  BY <1>8, <1>10 DEF Serving, Serve, Booting, BootSnapshot, BootWrite, names
<1>11. CASE (\E n, m \in Nodes : Dial(n, m)) \/ \E c \in Conns : Lose(c)
  <2>1. UNCHANGED <<globals, local, reader>>
    BY <1>11 DEF Dial, Lose, names
  <2>2. ASSUME NEW k \in Nodes, NEW m \in Nodes, Watches(k, m) PROVE Watches(k, m)'
    <3>1. PICK d \in Conns : /\ Used(d) /\ Ends(d) = {k, m}
                             /\ reader[d][k] \in {"running", "pruning"}
      BY <2>2 DEF Watches
    <3>2. Used(d)' /\ Ends(d)' = {k, m}
      BY <3>1, EndsStay
    <3> QED BY <2>1, <3>1, <3>2 DEF Watches
  <2> QED BY <1>6, <2>1, <2>2
<1>12. ASSUME NEW r \in Requests, NEW i \in Nodes, NEW k \in Nodes,
              NEW big \in {"no", "request", "reply"}, Ask(r, i, k, big)
       PROVE  UNCHANGED <<globals, local, conn, reader>>
  BY <1>12 DEF Ask, names
<1>13. CASE UNCHANGED vars
  BY <1>8, <1>13 DEF vars, links, names
<1> QED BY <1>2, <1>3, <1>4, <1>5, <1>7, <1>8, <1>9, <1>10, <1>11, <1>12, <1>13
        DEF Next, Proceed, Happen

-----------------------------------------------------------------------------
(* What is on its way.                                                     *)

\* A stream that is read or cut keeps part of what it held, in its order.
Shrunk(c, n) ==
  \E k \in Nat :
    /\ Len(wire'[c][n]) + k <= Len(wire[c][n])
    /\ \A i \in 1 .. Len(wire'[c][n]) : wire'[c][n][i] = wire[c][n][i + k]
\* n has put frames on its stream of c.
Grown(c, n, frames) == wire' = [wire EXCEPT ![c][Other(c, n)] = @ \o frames]

LEMMA ShrunkSame ==
  ASSUME WireOK, NEW c \in Conns, NEW n \in Nodes, wire'[c][n] = wire[c][n]
  PROVE  Shrunk(c, n) /\ wire'[c][n] \in Seq(Frames)
<1>1. wire[c][n] \in Seq(Frames) /\ Len(wire[c][n]) \in Nat
  BY LenProperties DEF WireOK
<1>2. /\ 0 \in Nat /\ Len(wire'[c][n]) + 0 <= Len(wire[c][n])
      /\ \A i \in 1 .. Len(wire'[c][n]) : wire'[c][n][i] = wire[c][n][i + 0]
  BY <1>1
<1> QED BY <1>1, <1>2 DEF Shrunk

LEMMA ShrunkEmpty ==
  ASSUME WireOK, NEW c \in Conns, NEW n \in Nodes, wire'[c][n] = <<>>
  PROVE  Shrunk(c, n) /\ wire'[c][n] \in Seq(Frames)
<1>1. wire[c][n] \in Seq(Frames) /\ Len(wire[c][n]) \in Nat /\ Len(<<>>) = 0 /\ <<>> \in Seq(Frames)
  BY LenProperties, EmptySeq DEF WireOK
<1>2. /\ 0 \in Nat /\ Len(wire'[c][n]) + 0 <= Len(wire[c][n])
      /\ \A i \in 1 .. Len(wire'[c][n]) : wire'[c][n][i] = wire[c][n][i + 0]
  BY <1>1
<1> QED BY <1>1, <1>2 DEF Shrunk

LEMMA ShrunkTail ==
  ASSUME WireOK, NEW c \in Conns, NEW n \in Nodes, wire[c][n] # <<>>, wire'[c][n] = Tail(wire[c][n])
  PROVE  Shrunk(c, n) /\ wire'[c][n] \in Seq(Frames)
<1>1. wire[c][n] \in Seq(Frames)
  BY DEF WireOK
<1>2. /\ wire'[c][n] \in Seq(Frames) /\ Len(wire'[c][n]) = Len(wire[c][n]) - 1
      /\ Len(wire[c][n]) \in Nat
      /\ \A i \in 1 .. Len(wire'[c][n]) : wire'[c][n][i] = wire[c][n][i + 1]
  BY <1>1, HeadTailProperties, LenProperties
<1>3. 1 \in Nat /\ Len(wire'[c][n]) + 1 <= Len(wire[c][n])
  BY <1>2
<1> QED BY <1>2, <1>3 DEF Shrunk

LEMMA ShrunkCut ==
  ASSUME WireOK, NEW c \in Conns, NEW n \in Nodes, NEW cut \in Nat, cut <= Len(wire[c][n]),
         wire'[c][n] = SubSeq(wire[c][n], 1, cut)
  PROVE  Shrunk(c, n) /\ wire'[c][n] \in Seq(Frames)
<1>1. wire[c][n] \in Seq(Frames) /\ Len(wire[c][n]) \in Nat
  BY LenProperties DEF WireOK
<1>2. /\ wire'[c][n] \in Seq(Frames) /\ Len(wire'[c][n]) = cut
      /\ \A i \in 1 .. cut : wire'[c][n][i] = wire[c][n][i]
  <2>1. 1 \in 1 .. Len(wire[c][n]) + 1 /\ cut \in 1 - 1 .. Len(wire[c][n])
    BY <1>1
  <2> QED BY <1>1, <2>1, SubSeqProperties
<1>3. /\ 0 \in Nat /\ Len(wire'[c][n]) + 0 <= Len(wire[c][n])
      /\ \A i \in 1 .. Len(wire'[c][n]) : wire'[c][n][i] = wire[c][n][i + 0]
  BY <1>1, <1>2
<1> QED BY <1>2, <1>3 DEF Shrunk

\* A write adds to one stream, or to none.
LEMMA WrittenGrows ==
  ASSUME ConnOK, WireOK, NEW c \in Conns, NEW n \in Nodes, At(c, n),
         NEW frames \in Seq(Frames), wire' = Written(c, n, frames)
  PROVE  /\ wire' \in [Conns -> [Nodes -> Seq(Frames)]]
         /\ Grown(c, n, frames) \/ wire' = wire
<1>1. Other(c, n) \in Nodes
  BY OtherEnd
<1>2. wire[c][Other(c, n)] \o frames \in Seq(Frames)
  BY <1>1, ConcatProperties DEF WireOK
<1>3. CASE wire' = wire
  BY <1>3 DEF WireOK
<1>4. CASE wire' = [wire EXCEPT ![c][Other(c, n)] = @ \o frames]
  BY <1>1, <1>2, <1>4 DEF WireOK, Grown
<1> QED BY <1>3, <1>4 DEF Written

\* The number a request takes is a number, and the request the next of all.
LEMMA AskNumber ==
  ASSUME ConnOK, CallsOK, NEW r \in Requests, NEW n \in Nodes, NEW m \in Nodes,
         NEW big \in {"no", "request", "reply"}, Ask(r, n, m, big)
  PROVE  /\ nextReq[n] \in Requests /\ left'["request"] = left["request"] - 1
         /\ left["request"] \in Nat /\ r - 1 \in 0 .. MaxRequests
         /\ r - 1 + left["request"] <= MaxRequests
         /\ \A q \in Requests : request[q].at # "none" <=> q < r
         /\ \A k \in Nodes : nextReq[k] <= r
<1>1. PICK k \in 0 .. MaxRequests :
       /\ k + left["request"] <= MaxRequests
       /\ \A q \in Requests : request[q].at # "none" <=> q <= k
       /\ \A i \in Nodes : nextReq[i] <= k + 1
  BY DEF CallsOK
<1>2. /\ left["request"] \in Nat /\ left["request"] > 0
      /\ left'["request"] = left["request"] - 1
  BY DEF Ask, ConnOK, Kinds
<1>3. /\ request[r].at = "none" /\ \A q \in Requests : q < r => request[q].at # "none"
  BY DEF Ask
<1>4. k + 1 \in Requests
  BY <1>1, <1>2 DEF Requests
<1>5. r = k + 1
  BY <1>1, <1>3, <1>4 DEF Requests
<1>6. nextReq[n] \in Nat \ {0} /\ nextReq[n] <= k + 1
  BY <1>1 DEF CallsOK
<1>7. nextReq[n] \in Requests
  BY <1>1, <1>4, <1>6 DEF Requests
<1>8. \A q \in Requests : request[q].at # "none" <=> q < r
  BY <1>1, <1>5 DEF Requests
<1> QED BY <1>1, <1>2, <1>5, <1>7, <1>8

NewRequest(c, n, f) ==
  \E r \in Requests, m \in Nodes, big \in {"no", "request", "reply"} :
    /\ Ask(r, n, m, big) /\ request'[r].at = "waiting"
    /\ f.kind = "Request" /\ f.id = nextReq[n] /\ f.of = r
NewReply(c, n, f) ==
  \E t \in tasks : /\ Serve(t) /\ t.node = n /\ Other(c, n) = t.peer
                   /\ f.kind = "Reply" /\ f.id = t.id /\ f.of = t.of
Spoken(n, frames) ==
  \A i \in 1 .. Len(frames) : frames[i].kind = "Register" /\ frames[i].node = n

\* What a step does to what is on its way: it only takes, or else one node
\* speaks on one connection, for itself, with one request or with one reply.
WireMove ==
  \/ \A c \in Conns, n \in Nodes : Shrunk(c, n)
  \/ \E c \in Conns, n \in Nodes : /\ At(c, n)
       /\ \/ \E frames \in Seq(Frames) : Grown(c, n, frames) /\ Spoken(n, frames)
          \/ \E f \in Frames : /\ Grown(c, n, <<f>>)
                               /\ NewRequest(c, n, f) \/ NewReply(c, n, f)
WireType == wire' \in [Conns -> [Nodes -> Seq(Frames)]]

LEMMA WireSame == WireOK /\ wire' = wire => WireType /\ WireMove
<1> SUFFICES ASSUME WireOK, wire' = wire PROVE WireType /\ WireMove
  OBVIOUS
<1>1. \A c \in Conns, n \in Nodes : Shrunk(c, n)
  BY ShrunkSame
<1> QED BY <1>1 DEF WireType, WireMove, WireOK

\* Streams that are only read or cut.
LEMMA WireTakes ==
  ASSUME WireOK, wire' = [c \in Conns |-> [n \in Nodes |-> wire'[c][n]]],
         \A c \in Conns, n \in Nodes : Shrunk(c, n) /\ wire'[c][n] \in Seq(Frames)
  PROVE  WireType /\ WireMove
BY DEF WireType, WireMove

LEMMA WireRead ==
  ASSUME WireOK, NEW c \in Conns, NEW n \in Nodes,
         \/ wire[c][n] # <<>> /\ wire' = [wire EXCEPT ![c][n] = Tail(@)]
         \/ wire' = [wire EXCEPT ![c][n] = <<>>]
  PROVE  WireType /\ WireMove
<1>1. PICK new : /\ wire' = [wire EXCEPT ![c][n] = new]
                 /\ \/ wire[c][n] # <<>> /\ new = Tail(wire[c][n])
                    \/ new = <<>>
  OBVIOUS
<1>2. /\ \A d \in Conns, m \in Nodes : d # c \/ m # n => wire'[d][m] = wire[d][m]
      /\ wire'[c][n] = new
  BY <1>1 DEF WireOK
<1>3. \A d \in Conns, m \in Nodes : Shrunk(d, m) /\ wire'[d][m] \in Seq(Frames)
  <2>1. Shrunk(c, n) /\ wire'[c][n] \in Seq(Frames)
    BY <1>1, <1>2, ShrunkTail, ShrunkEmpty
  <2>2. \A d \in Conns, m \in Nodes :
          d # c \/ m # n => Shrunk(d, m) /\ wire'[d][m] \in Seq(Frames)
    BY <1>2, ShrunkSame
  <2> QED BY <2>1, <2>2
<1>4. WireType
  BY <1>1, <1>2, <1>3 DEF WireType, WireOK
<1> QED BY <1>3, <1>4 DEF WireMove

LEMMA WireLost ==
  ASSUME ConnOK, WireOK, NEW c \in Conns, Lose(c)
  PROVE  WireType /\ WireMove
<1>1. /\ conn[c].dialer \in Nodes /\ conn[c].acceptor \in Nodes /\ Ends(c) \subseteq Nodes
      /\ Len(wire[c][conn[c].dialer]) \in Nat /\ Len(wire[c][conn[c].acceptor]) \in Nat
  <2>1. conn[c].dialer \in Nodes /\ conn[c].acceptor \in Nodes
    BY DEF Lose, ConnOK, Used
  <2> QED BY <2>1, LenProperties DEF Ends, WireOK
<1>2. PICK d, a \in 0 .. Len(wire[c][conn[c].dialer]) + Len(wire[c][conn[c].acceptor]) :
       LET cut == [n \in Nodes |-> IF n = conn[c].dialer THEN d ELSE a]
       IN /\ \A n \in Ends(c) : cut[n] <= Len(wire[c][n])
          /\ wire' = [wire EXCEPT ![c] =
               [n \in Nodes |-> IF n \in Ends(c) THEN SubSeq(@[n], 1, cut[n]) ELSE <<>>]]
  BY DEF Lose
<1> DEFINE cut == [n \in Nodes |-> IF n = conn[c].dialer THEN d ELSE a]
<1>3. /\ \A n \in Nodes : cut[n] \in Nat
      /\ \A n \in Ends(c) : cut[n] <= Len(wire[c][n])
      /\ wire' = [wire EXCEPT ![c] =
           [n \in Nodes |-> IF n \in Ends(c) THEN SubSeq(wire[c][n], 1, cut[n]) ELSE <<>>]]
  <2>1. \A n \in Nodes : cut[n] \in Nat
    BY <1>1
  <2>2. wire' = [wire EXCEPT ![c] =
           [n \in Nodes |-> IF n \in Ends(c) THEN SubSeq(wire[c][n], 1, cut[n]) ELSE <<>>]]
    BY <1>2, Zenon DEF WireOK
  <2> QED BY <1>2, <2>1, <2>2
<1> HIDE DEF cut
<1>4. /\ wire' = [e \in Conns |-> [m \in Nodes |-> wire'[e][m]]]
      /\ \A e \in Conns, m \in Nodes : e # c => wire'[e][m] = wire[e][m]
      /\ \A m \in Nodes : wire'[c][m] =
            IF m \in Ends(c) THEN SubSeq(wire[c][m], 1, cut[m]) ELSE <<>>
  BY <1>3 DEF WireOK
<1>5. \A e \in Conns, m \in Nodes : Shrunk(e, m) /\ wire'[e][m] \in Seq(Frames)
  BY <1>3, <1>4, ShrunkSame, ShrunkCut, ShrunkEmpty
<1> QED BY <1>4, <1>5, WireTakes

LEMMA WireRestart ==
  ASSUME WireOK, NEW n \in Nodes, Restart(n)
  PROVE  WireType /\ WireMove
<1> DEFINE mine == {d \in Conns : Used(d) /\ n \in Ends(d)}
<1>1. PICK keep \in BOOLEAN :
        wire' = [c \in Conns |-> IF c \in mine
                   THEN [m \in Nodes |-> IF keep /\ m # n THEN wire[c][m] ELSE <<>>]
                   ELSE wire[c]]
  BY DEF Restart
<1> HIDE DEF mine
<1>2. /\ wire' = [c \in Conns |-> [m \in Nodes |-> wire'[c][m]]]
      /\ \A c \in Conns, m \in Nodes : wire'[c][m] = wire[c][m] \/ wire'[c][m] = <<>>
  BY <1>1 DEF WireOK
<1>3. \A c \in Conns, m \in Nodes : Shrunk(c, m) /\ wire'[c][m] \in Seq(Frames)
  BY <1>2, ShrunkSame, ShrunkEmpty
<1> QED BY <1>2, <1>3, WireTakes

LEMMA WireSpoken ==
  ASSUME ConnOK, WireOK, NEW c \in Conns, NEW n \in Nodes, At(c, n),
         NEW frames \in Seq(Frames), Spoken(n, frames), wire' = Written(c, n, frames)
  PROVE  WireType /\ WireMove
<1>1. WireType /\ (Grown(c, n, frames) \/ wire' = wire)
  BY WrittenGrows DEF WireType
<1>2. CASE Grown(c, n, frames)
  BY <1>1, <1>2 DEF WireMove
<1>3. CASE wire' = wire
  BY <1>3, WireSame
<1> QED BY <1>1, <1>2, <1>3

LEMMA WireTold ==
  ASSUME ConnOK, WireOK, NEW c \in Conns, NEW n \in Nodes, At(c, n),
         NEW f \in Frames, NewRequest(c, n, f) \/ NewReply(c, n, f),
         wire' = Written(c, n, <<f>>)
  PROVE  WireType /\ WireMove
<1>0. <<f>> \in Seq(Frames)
  OBVIOUS
<1>1. WireType /\ (Grown(c, n, <<f>>) \/ wire' = wire)
  BY <1>0, WrittenGrows DEF WireType
<1>2. CASE Grown(c, n, <<f>>)
  BY <1>1, <1>2 DEF WireMove
<1>3. CASE wire' = wire
  BY <1>3, WireSame
<1> QED BY <1>1, <1>2, <1>3

LEMMA RegisterFrameType ==
  ASSUME NEW x \in Names, NEW n \in Nodes
  PROVE  /\ RegisterFrame(x, n) \in Frames
         /\ RegisterFrame(x, n).kind = "Register" /\ RegisterFrame(x, n).node = n
BY DEF RegisterFrame, Frames

LEMMA WireMoves == TypeInv /\ [Next]_vars => WireType /\ WireMove
<1> SUFFICES ASSUME TypeInv, [Next]_vars PROVE WireType /\ WireMove
  OBVIOUS
<1>0. ConnOK /\ TasksOK /\ WireOK /\ PeersOK /\ CallsOK
  BY DEF TypeInv
<1>1. ASSUME NEW t \in casts, NEW c \in t.targets, BroadcastWrite(t, c)
      PROVE  WireType /\ WireMove
  <2>1. c \in Conns /\ t.node \in Nodes /\ t.name \in Names /\ At(c, t.node)
    BY <1>0 DEF TasksOK
  <2> DEFINE f == RegisterFrame(t.name, t.node)
  <2>2. f \in Frames /\ f.kind = "Register" /\ f.node = t.node
    BY <2>1, RegisterFrameType
  <2> HIDE DEF f
  <2>3. <<f>> \in Seq(Frames) /\ Spoken(t.node, <<f>>)
    BY <2>2 DEF Spoken
  <2>4. wire' = Written(c, t.node, <<f>>)
    BY <1>1 DEF BroadcastWrite, f
  <2> QED BY <1>0, <2>1, <2>3, <2>4, WireSpoken
<1>2. ASSUME NEW c \in Conns, NEW n \in Nodes, BootWrite(c, n), At(c, n)
      PROVE  WireType /\ WireMove
  <2>1. PICK order \in [1 .. Cardinality(boot[c][n].names) -> boot[c][n].names] :
          wire' = Written(c, n, [i \in DOMAIN order |-> RegisterFrame(order[i], n)])
    BY <1>2 DEF BootWrite
  <2> DEFINE frames == [i \in DOMAIN order |-> RegisterFrame(order[i], n)]
             size == Cardinality(boot[c][n].names)
  <2>2. boot[c][n].names \subseteq Names
    BY <1>0 DEF TasksOK
  <2>3. \A i \in 1 .. size : frames[i] = RegisterFrame(order[i], n) /\ order[i] \in Names
    BY <2>2
  <2>4. \A i \in 1 .. size : frames[i] \in Frames /\ frames[i].kind = "Register" /\ frames[i].node = n
    BY <2>3, RegisterFrameType
  <2>5. frames \in Seq(Frames) /\ Spoken(n, frames)
    <3>1. DOMAIN frames = 1 .. size
      OBVIOUS
    <3>2. size \in Nat
      BY <2>2, NamesAssumption, FS_Subset, FS_CardinalityType
    <3> HIDE DEF frames, size
    <3>3. frames = [i \in 1 .. size |-> frames[i]]
      BY <3>1 DEF frames
    <3>4. frames \in Seq(Frames) /\ Len(frames) = size
      BY <2>4, <3>2, <3>3
    <3> QED BY <2>4, <3>4 DEF Spoken
  <2> QED BY <1>0, <1>2, <2>1, <2>5, WireSpoken
<1>3. ASSUME NEW r \in Requests, NEW n \in Nodes, NEW m \in Nodes,
             NEW big \in {"no", "request", "reply"}, Ask(r, n, m, big)
      PROVE  WireType /\ WireMove
  <2>1. CASE wire' = wire
    BY <1>0, <2>1, WireSame
  <2>2. CASE wire' # wire
    <3> DEFINE f == RequestFrame(nextReq[n], r)
    <3>1. PICK c : c = peers[n][m] /\ c # NoConn /\ wire' = Written(c, n, <<f>>)
                   /\ request'[r].at = "waiting"
      <4> DEFINE asked == [at |-> "waiting", from |-> n, to |-> m, via |-> peers[n][m],
                           big |-> big, answer |-> NoRequest]
      <4>1. /\ peers[n][m] # NoConn /\ request' = [request EXCEPT ![r] = asked]
            /\ wire' = Written(peers[n][m], n, <<f>>)
        BY <1>3, <2>2 DEF Ask
      <4>2. request'[r].at = "waiting"
        BY <1>0, <4>1 DEF CallsOK
      <4> QED BY <4>1, <4>2
    <3>2. c \in Conns /\ At(c, n)
      BY <1>0, <3>1, Listed
    <3>3. nextReq[n] \in Requests
      BY <1>0, <1>3, AskNumber
    <3>4. f \in Frames /\ f.kind = "Request" /\ f.id = nextReq[n] /\ f.of = r
      BY <3>3 DEF RequestFrame, Frames
    <3> HIDE DEF f
    <3>5. NewRequest(c, n, f)
      BY <1>3, <3>1, <3>4 DEF NewRequest
    <3> QED BY <1>0, <3>1, <3>2, <3>4, <3>5, WireTold
  <2> QED BY <2>1, <2>2
<1>4. ASSUME NEW t \in tasks, Serve(t) PROVE WireType /\ WireMove
  <2>1. t.node \in Nodes /\ t.peer \in Nodes /\ t.id \in Requests /\ t.of \in Requests
    BY <1>0 DEF CallsOK
  <2>2. CASE wire' = wire
    BY <1>0, <2>2, WireSame
  <2>3. CASE wire' # wire
    <3> DEFINE f == ReplyFrame(t.id, t.of)
    <3>1. PICK c : c = peers[t.node][t.peer] /\ c # NoConn /\ wire' = Written(c, t.node, <<f>>)
      BY <1>4, <2>3 DEF Serve
    <3>2. c \in Conns /\ At(c, t.node) /\ Other(c, t.node) = t.peer
      BY <1>0, <2>1, <3>1, Listed
    <3>3. f \in Frames /\ f.kind = "Reply" /\ f.id = t.id /\ f.of = t.of
      BY <2>1 DEF ReplyFrame, Frames
    <3> HIDE DEF f
    <3>4. NewReply(c, t.node, f)
      BY <1>4, <3>2, <3>3 DEF NewReply
    <3> QED BY <1>0, <2>1, <3>1, <3>2, <3>3, <3>4, WireTold
  <2> QED BY <2>2, <2>3
<1>5. CASE wire' = wire
  BY <1>0, <1>5, WireSame
<1>6. CASE Broadcasting
  BY <1>1, <1>5, <1>6 DEF Broadcasting, BroadcastSnapshot, links
<1>7. CASE Serving
  BY <1>4, <1>7 DEF Serving
<1>8. CASE \E c \in Conns, n \in Nodes : Booting(c, n)
  BY <1>2, <1>5, <1>8 DEF Booting, BootSnapshot, At
<1>9. CASE \E c \in Conns, n \in Nodes : Reading(c, n)
  <2> PICK c \in Conns, n \in Nodes : Reading(c, n)
    BY <1>9
  <2>1. CASE ReadFrame(c, n)
    BY <1>0, <2>1, WireRead DEF ReadFrame
  <2>2. CASE ReaderEnds(c, n)
    BY <1>0, <2>2, WireRead DEF ReaderEnds
  <2>3. CASE Prune(c, n)
    BY <1>5, <2>3 DEF Prune
  <2> QED BY <2>1, <2>2, <2>3 DEF Reading
<1>10. CASE \E c \in Conns : Greet(c) \/ Accept(c) \/ Connected(c)
  BY <1>5, <1>10 DEF Greet, Accept, Connected
<1>11. CASE \E n \in Nodes, x \in Names : RegisterGlobal(n, x) \/ HolderExits(n, x)
  BY <1>5, <1>11 DEF RegisterGlobal, HolderExits, links
<1>12. CASE \E n, m \in Nodes : Dial(n, m)
  BY <1>5, <1>12 DEF Dial
<1>13. CASE \E c \in Conns : Lose(c)
  BY <1>0, <1>13, WireLost
<1>14. CASE \E n \in Nodes : Restart(n)
  BY <1>0, <1>14, WireRestart
<1>15. CASE UNCHANGED vars
  BY <1>5, <1>15 DEF vars, links
<1> QED BY <1>3, <1>6, <1>7, <1>8, <1>9, <1>10, <1>11, <1>12, <1>13, <1>14, <1>15
        DEF Next, Proceed, Happen

\* Every frame of the wire after a step was on it before, or was put there.
LEMMA FrameOrigin ==
  ASSUME TypeInv, [Next]_vars, NEW c \in Conns, NEW n \in Nodes, NEW i \in 1 .. Len(wire'[c][n])
  PROVE  \/ \E j \in 1 .. Len(wire[c][n]) : wire'[c][n][i] = wire[c][n][j]
         \/ \E m \in Nodes : /\ At(c, m) /\ n = Other(c, m)
              /\ \/ wire'[c][n][i].kind = "Register" /\ wire'[c][n][i].node = m
                 \/ NewRequest(c, m, wire'[c][n][i]) \/ NewReply(c, m, wire'[c][n][i])
<1>0. ConnOK /\ WireOK /\ WireType /\ WireMove
  BY WireMoves DEF TypeInv
<1>1. /\ wire[c][n] \in Seq(Frames) /\ Len(wire[c][n]) \in Nat
      /\ wire'[c][n] \in Seq(Frames) /\ Len(wire'[c][n]) \in Nat
  BY <1>0, LenProperties DEF WireOK, WireType
<1>2. CASE Shrunk(c, n)
  <2>1. PICK k \in Nat : /\ Len(wire'[c][n]) + k <= Len(wire[c][n])
                         /\ wire'[c][n][i] = wire[c][n][i + k]
    BY <1>2 DEF Shrunk
  <2>2. i + k \in 1 .. Len(wire[c][n])
    BY <1>1, <2>1
  <2> QED BY <2>1, <2>2
<1>3. ASSUME NEW d \in Conns, NEW m \in Nodes, At(d, m), NEW frames \in Seq(Frames),
             Grown(d, m, frames)
      PROVE  \/ \E j \in 1 .. Len(wire[c][n]) : wire'[c][n][i] = wire[c][n][j]
             \/ /\ c = d /\ n = Other(c, m)
                /\ \E j \in 1 .. Len(frames) : wire'[c][n][i] = frames[j]
  <2>1. PICK o \in Nodes : o = Other(d, m)
    BY <1>0, <1>3, OtherEnd
  <2>2. wire' = [wire EXCEPT ![d][o] = wire[d][o] \o frames]
    BY <1>3, <2>1 DEF Grown
  <2>3. CASE c # d \/ n # o
    <3>1. wire'[c][n] = wire[c][n]
      BY <1>0, <2>2, <2>3 DEF WireOK
    <3> QED BY <3>1
  <2>4. CASE c = d /\ n = o
    <3>1. wire'[c][n] = wire[c][n] \o frames
      BY <1>0, <2>2, <2>4 DEF WireOK
    <3>2. /\ Len(frames) \in Nat /\ Len(wire'[c][n]) = Len(wire[c][n]) + Len(frames)
          /\ wire'[c][n][i] = IF i <= Len(wire[c][n]) THEN wire[c][n][i]
                                                      ELSE frames[i - Len(wire[c][n])]
      BY <1>1, <3>1, ConcatProperties, LenProperties
    <3>3. CASE i <= Len(wire[c][n])
      <4>1. i \in 1 .. Len(wire[c][n])
        BY <1>1, <3>3
      <4> QED BY <3>2, <3>3, <4>1
    <3>4. CASE ~(i <= Len(wire[c][n]))
      <4>1. i - Len(wire[c][n]) \in 1 .. Len(frames)
        BY <1>1, <3>2, <3>4
      <4> QED BY <2>1, <2>4, <3>2, <3>4, <4>1
    <3> QED BY <3>3, <3>4
  <2> QED BY <2>3, <2>4
<1>4. CASE \E d \in Conns, m \in Nodes : /\ At(d, m)
             /\ \E frames \in Seq(Frames) : Grown(d, m, frames) /\ Spoken(m, frames)
  <2>1. PICK d \in Conns, m \in Nodes, frames \in Seq(Frames) :
           At(d, m) /\ Grown(d, m, frames) /\ Spoken(m, frames)
    BY <1>4
  <2> QED BY <1>3, <2>1 DEF Spoken
<1>5. CASE \E d \in Conns, m \in Nodes : /\ At(d, m)
             /\ \E f \in Frames : /\ Grown(d, m, <<f>>)
                                  /\ NewRequest(d, m, f) \/ NewReply(d, m, f)
  <2>1. PICK d \in Conns, m \in Nodes, f \in Frames :
           At(d, m) /\ Grown(d, m, <<f>>) /\ (NewRequest(d, m, f) \/ NewReply(d, m, f))
    BY <1>5
  <2>2. <<f>> \in Seq(Frames) /\ Len(<<f>>) = 1 /\ <<f>>[1] = f
    OBVIOUS
  <2>3. \A j \in 1 .. Len(<<f>>) : <<f>>[j] = f
    BY <2>2
  <2> HIDE DEF NewRequest, NewReply
  <2>4. CASE \E j \in 1 .. Len(wire[c][n]) : wire'[c][n][i] = wire[c][n][j]
    BY <2>4
  <2>5. CASE c = d /\ n = Other(c, m) /\ wire'[c][n][i] = f
    BY <2>1, <2>5
  <2> QED BY <1>3, <2>1, <2>2, <2>3, <2>4, <2>5
<1> QED BY <1>0, <1>2, <1>4, <1>5 DEF WireMove

\* On every stream there is only what its other end has said.
LEMMA WireStep == TypeInv /\ [Next]_vars => WireOK'
<1> SUFFICES ASSUME TypeInv, [Next]_vars PROVE WireOK'
  OBVIOUS
<1>0. ConnOK /\ WireOK /\ WireType
  BY WireMoves DEF TypeInv
<1>1. ASSUME NEW c \in Conns, NEW n \in Nodes, NEW i \in 1 .. Len(wire'[c][n])
      PROVE  At(c, n) /\ (wire'[c][n][i].kind = "Register" => wire'[c][n][i].node = Other(c, n))
  <2>1. CASE \E j \in 1 .. Len(wire[c][n]) : wire'[c][n][i] = wire[c][n][j]
    BY <1>0, <2>1 DEF WireOK
  <2>2. CASE \E m \in Nodes : /\ At(c, m) /\ n = Other(c, m)
              /\ \/ wire'[c][n][i].kind = "Register" /\ wire'[c][n][i].node = m
                 \/ NewRequest(c, m, wire'[c][n][i]) \/ NewReply(c, m, wire'[c][n][i])
    <3>1. PICK m \in Nodes : /\ At(c, m) /\ n = Other(c, m)
              /\ \/ wire'[c][n][i].kind = "Register" /\ wire'[c][n][i].node = m
                 \/ wire'[c][n][i].kind # "Register"
      BY <2>2 DEF NewRequest, NewReply
    <3> QED BY <1>0, <3>1, OtherEnd
  <2> QED BY <2>1, <2>2, FrameOrigin
<1>2. ASSUME NEW c \in Conns, NEW n \in Nodes, NEW i \in 1 .. Len(wire'[c][n])
      PROVE  At(c, n)' /\ (wire'[c][n][i].kind = "Register" => wire'[c][n][i].node = Other(c, n)')
  BY <1>0, <1>1, <1>2, AtStays
<1> QED BY <1>0, <1>2 DEF WireOK, WireType

-----------------------------------------------------------------------------
(* Requests.                                                               *)

\* What changes the requests.
LEMMA CallMoves ==
  ASSUME [Next]_vars
  PROVE  \/ \E r \in Requests, n, m \in Nodes, big \in {"no", "request", "reply"} : Ask(r, n, m, big)
         \/ \E n \in Nodes : Restart(n)
         \/ \E t \in tasks : Serve(t)
         \/ \E c \in Conns, n \in Nodes : At(c, n) /\ ReadFrame(c, n) /\ ReadReply(c, n)
         \/ \E c \in Conns, n \in Nodes : At(c, n) /\ ReadFrame(c, n) /\ ReadRequest(c, n)
         \/ UNCHANGED calls
<1>1. ASSUME NEW c \in Conns, NEW n \in Nodes, Reading(c, n)
      PROVE  \/ At(c, n) /\ ReadFrame(c, n) /\ ReadReply(c, n)
             \/ At(c, n) /\ ReadFrame(c, n) /\ ReadRequest(c, n)
             \/ UNCHANGED calls
  <2>1. CASE ReadFrame(c, n)
    <3>1. CASE ReadRegister(c, n)
      BY <3>1 DEF ReadRegister
    <3> QED BY <1>1, <2>1, <3>1 DEF ReadFrame, Reading, At
  <2>2. CASE ReaderEnds(c, n) \/ Prune(c, n)
    BY <2>2 DEF ReaderEnds, Prune
  <2> QED BY <1>1, <2>1, <2>2 DEF Reading
<1>2. CASE \E c \in Conns : Greet(c) \/ Accept(c) \/ Connected(c)
  BY <1>2 DEF Greet, Accept, Connected
<1>3. CASE Broadcasting
  BY <1>3 DEF Broadcasting, BroadcastSnapshot, BroadcastWrite
<1>4. CASE \E c \in Conns, n \in Nodes : Booting(c, n)
  BY <1>4 DEF Booting, BootSnapshot, BootWrite
<1>5. CASE \E n \in Nodes, x \in Names : RegisterGlobal(n, x) \/ HolderExits(n, x)
  BY <1>5 DEF RegisterGlobal, HolderExits
<1>6. CASE (\E n, m \in Nodes : Dial(n, m)) \/ \E c \in Conns : Lose(c)
  BY <1>6 DEF Dial, Lose
<1>7. CASE UNCHANGED vars
  BY <1>7 DEF vars
<1> QED BY <1>1, <1>2, <1>3, <1>4, <1>5, <1>6, <1>7 DEF Next, Proceed, Happen, Serving

\* A step that begins and ends no request, and frees no number.
LEMMA CallsStay ==
  ASSUME TypeInv, [Next]_vars, UNCHANGED <<request, pending, nextReq>>,
         handled' \in [Requests -> Nat],
         tasks' \subseteq [node : Nodes, peer : Nodes, id : Requests, of : Requests]
  PROVE  CallsOK' /\ WaitersOK'
<1>1. left'["request"] \in Nat /\ left'["request"] <= left["request"] /\ left["request"] \in Nat
  BY LeftStep DEF TypeInv, ConnOK, Kinds
<1>2. PICK k \in 0 .. MaxRequests :
       /\ k + left["request"] <= MaxRequests
       /\ \A r \in Requests : request[r].at # "none" <=> r <= k
       /\ \A n \in Nodes : nextReq[n] <= k + 1
  BY DEF TypeInv, CallsOK
<1>3. k + left'["request"] <= MaxRequests
  BY <1>1, <1>2
<1>4. CallsOK'
  BY <1>2, <1>3 DEF TypeInv, CallsOK
<1>5. WaitersOK'
  BY DEF TypeInv, WaitersOK
<1> QED BY <1>4, <1>5

\* The next request, under the next number of its node.
LEMMA AskCalls ==
  ASSUME TypeInv, NEW r \in Requests, NEW n \in Nodes, NEW m \in Nodes,
         NEW big \in {"no", "request", "reply"}, Ask(r, n, m, big)
  PROVE  CallsOK' /\ WaitersOK'
<1>0. CallsOK /\ WaitersOK /\ ConnOK /\ PeersOK
  BY DEF TypeInv
<1> DEFINE id == nextReq[n]
           asked == [at |-> "waiting", from |-> n, to |-> m, via |-> peers[n][m],
                     big |-> big, answer |-> NoRequest]
           failed == [asked EXCEPT !.at = "error"]
<1>1. /\ id \in Requests /\ left'["request"] = left["request"] - 1
      /\ left["request"] \in Nat /\ r - 1 \in 0 .. MaxRequests
      /\ r - 1 + left["request"] <= MaxRequests /\ left["request"] > 0
      /\ \A q \in Requests : request[q].at # "none" <=> q < r
      /\ \A k \in Nodes : nextReq[k] <= r
  BY <1>0, AskNumber DEF Ask
<1>2. /\ nextReq' = [nextReq EXCEPT ![n] = id + 1] /\ request[r].at = "none"
      /\ \/ request' = [request EXCEPT ![r] = asked] /\ pending' = [pending EXCEPT ![n][id] = r]
         \/ request' = [request EXCEPT ![r] = failed]
            /\ pending' = [pending EXCEPT ![n][id] = NoRequest]
      /\ tasks' = tasks /\ handled' = handled
  BY DEF Ask, TakeNumber
<1>3. /\ asked \in RequestType /\ failed \in RequestType
      /\ asked.at = "waiting" /\ asked.from = n /\ failed.at = "error" /\ failed.from = n
  BY <1>0 DEF RequestType, PeersOK
<1> HIDE DEF asked, failed
<1>4. PICK new \in RequestType, slot \in {r, NoRequest} :
        /\ request' = [request EXCEPT ![r] = new] /\ new.from = n
        /\ pending' = [pending EXCEPT ![n][id] = slot]
        /\ \/ new.at = "waiting" /\ slot = r
           \/ new.at = "error" /\ slot = NoRequest
  BY <1>2, <1>3
<1>5. /\ \A q \in Requests : request'[q] = IF q = r THEN new ELSE request[q]
      /\ request' \in [Requests -> RequestType]
      /\ \A k \in Nodes, i \in Requests :
           pending'[k][i] = IF k = n /\ i = id THEN slot ELSE pending[k][i]
      /\ pending' \in [Nodes -> [Requests -> Requests \cup {NoRequest}]]
      /\ \A k \in Nodes : nextReq'[k] = IF k = n THEN id + 1 ELSE nextReq[k]
      /\ nextReq' \in [Nodes -> Nat \ {0}]
      /\ id \in Nat
  BY <1>0, <1>1, <1>2, <1>4 DEF CallsOK
<1>6. CallsOK'
  <2>1. /\ r \in 0 .. MaxRequests /\ r + left'["request"] <= MaxRequests
        /\ \A k \in Nodes : nextReq'[k] <= r + 1
    <3>1. \A k \in Nodes : nextReq[k] \in Nat
      BY <1>0 DEF CallsOK
    <3>2. r \in Nat /\ r <= MaxRequests
      BY DEF Requests
    <3>3. r + left'["request"] <= MaxRequests
      BY <1>1, <3>2
    <3>4. id + 1 <= r + 1 /\ \A k \in Nodes : nextReq[k] <= r + 1
      BY <1>1, <1>5, <3>1, <3>2
    <3>5. \A k \in Nodes : nextReq'[k] <= r + 1
      BY <1>5, <3>4
    <3> QED BY <3>2, <3>3, <3>5
  <2>2. \A q \in Requests : request'[q].at # "none" <=> q <= r
    BY <1>1, <1>4, <1>5 DEF Requests
  <2> QED BY <1>0, <1>2, <1>5, <2>1, <2>2 DEF CallsOK
<1>7. ASSUME NEW k \in Nodes, NEW i \in Requests, pending[k][i] # NoRequest
      PROVE  /\ pending[k][i] # r /\ (k # n \/ i # id)
             /\ pending[k][i] \in Requests
  BY <1>0, <1>2, <1>7 DEF WaitersOK, CallsOK
<1>8. ASSUME NEW k \in Nodes, NEW i \in Requests, pending'[k][i] # NoRequest
      PROVE  /\ request'[pending'[k][i]].from = k /\ request'[pending'[k][i]].at = "waiting"
             /\ i < nextReq'[k]
             /\ \A j \in Requests : pending'[k][j] = pending'[k][i] => i = j
  <2>1. CASE k = n /\ i = id
    <3>1. pending'[k][i] = r /\ new.at = "waiting" /\ i < nextReq'[k]
      BY <1>4, <1>5, <1>8, <2>1
    <3>2. \A j \in Requests : pending'[k][j] = r => j = id
      <4>1. r # NoRequest
        BY DEF Requests
      <4>2. ASSUME NEW j \in Requests, j # id PROVE pending'[n][j] # r
        <5>1. pending'[n][j] = pending[n][j]
          BY <1>5, <4>2
        <5>2. CASE pending[n][j] = NoRequest
          BY <4>1, <5>1, <5>2
        <5>3. CASE pending[n][j] # NoRequest
          BY <1>7, <5>1, <5>3
        <5> QED BY <5>2, <5>3
      <4> QED BY <2>1, <4>2
    <3> QED BY <1>4, <1>5, <2>1, <3>1, <3>2
  <2>2. CASE ~(k = n /\ i = id)
    <3>1. /\ pending'[k][i] = pending[k][i] /\ pending[k][i] # r /\ pending[k][i] \in Requests
          /\ request'[pending[k][i]] = request[pending[k][i]]
      BY <1>5, <1>7, <1>8, <2>2
    <3>2. i < nextReq[k] /\ nextReq[k] \in Nat /\ nextReq'[k] \in Nat
          /\ (k = n => nextReq'[k] = nextReq[k] + 1) /\ (k # n => nextReq'[k] = nextReq[k])
      BY <1>0, <1>5, <1>8, <3>1 DEF WaitersOK, CallsOK
    <3>3. i < nextReq'[k]
      BY <3>2 DEF Requests
    <3>4. \A j \in Requests : pending'[k][j] = pending[k][i] => pending[k][j] = pending[k][i]
      BY <1>4, <1>5, <1>8, <3>1
    <3> QED BY <1>0, <1>8, <3>1, <3>3, <3>4 DEF WaitersOK
  <2> QED BY <2>1, <2>2
<1>9. ASSUME NEW q \in Requests, request'[q].at = "waiting"
      PROVE  \E i \in Requests : pending'[request'[q].from][i] = q
  <2>1. CASE q = r
    BY <1>1, <1>4, <1>5, <1>9, <2>1
  <2>2. CASE q # r
    <3>1. request'[q] = request[q] /\ request[q].from \in Nodes /\ q # NoRequest
      BY <1>0, <1>5, <1>9, <2>2 DEF WaitersOK, Requests
    <3>2. PICK i \in Requests : pending[request[q].from][i] = q
      BY <1>0, <1>9, <3>1 DEF WaitersOK
    <3>3. pending'[request[q].from][i] = q
      BY <1>5, <1>7, <3>1, <3>2
    <3> QED BY <3>1, <3>3
  <2> QED BY <2>1, <2>2
<1>10. \A q \in Requests : request'[q].at # "none" => request'[q].from \in Nodes
  BY <1>0, <1>4, <1>5 DEF WaitersOK
<1> QED BY <1>6, <1>8, <1>9, <1>10 DEF WaitersOK

\* A reply ends the wait under its number.
LEMMA ReplyCalls ==
  ASSUME TypeInv, [Next]_vars, NEW c \in Conns, NEW n \in Nodes, ReadFrame(c, n), ReadReply(c, n)
  PROVE  CallsOK' /\ WaitersOK'
<1>0. CallsOK /\ WaitersOK /\ ConnOK /\ WireOK
  BY DEF TypeInv
<1> DEFINE f == Head(wire[c][n])
<1>1. f.id \in Requests /\ f.of \in Requests /\ f.kind = "Reply"
  <2>1. wire[c][n] \in Seq(Frames) /\ wire[c][n] # <<>>
    BY <1>0 DEF WireOK, ReadFrame
  <2>2. f \in Frames /\ f.kind = "Reply"
    BY <2>1, HeadTailProperties DEF ReadReply
  <2> QED BY <2>2 DEF Frames
<1>2. PICK id \in Requests, of \in Requests : id = f.id /\ of = f.of
  BY <1>1
<1>3. /\ nextReq' = nextReq /\ tasks' = tasks /\ handled' = handled
      /\ IF pending[n][id] = NoRequest THEN UNCHANGED <<request, pending>>
         ELSE /\ request' = [request EXCEPT ![pending[n][id]].at = "ok",
                                            ![pending[n][id]].answer = of]
              /\ pending' = [pending EXCEPT ![n][id] = NoRequest]
  BY <1>2 DEF ReadReply
<1>4. CASE pending[n][id] = NoRequest
  <2>1. UNCHANGED <<request, pending, nextReq, tasks, handled>>
    BY <1>3, <1>4
  <2> QED BY <1>0, <2>1, CallsStay DEF CallsOK
<1>5. CASE pending[n][id] # NoRequest
  <2>1. PICK r \in Requests : r = pending[n][id]
    BY <1>0, <1>5 DEF CallsOK
  <2>2. /\ request[r].from = n /\ request[r].at = "waiting"
        /\ \A j \in Requests : pending[n][j] = r => j = id
    BY <1>0, <1>5, <2>1 DEF WaitersOK
  <2>3. /\ request' = [request EXCEPT ![r] = [request[r] EXCEPT !.at = "ok", !.answer = of]]
        /\ pending' = [pending EXCEPT ![n][id] = NoRequest]
    BY <1>0, <1>3, <1>5, <2>1 DEF CallsOK
  <2>4. /\ request' \in [Requests -> RequestType]
        /\ request'[r].at = "ok" /\ request'[r].from = n
        /\ \A q \in Requests : q # r => request'[q] = request[q]
        /\ pending' \in [Nodes -> [Requests -> Requests \cup {NoRequest}]]
        /\ \A k \in Nodes, i \in Requests :
             pending'[k][i] = IF k = n /\ i = id THEN NoRequest ELSE pending[k][i]
    <3>1. [request[r] EXCEPT !.at = "ok", !.answer = of] \in RequestType
      <4>1. request[r] \in RequestType
        BY <1>0 DEF CallsOK
      <4> QED BY <4>1 DEF RequestType
    <3>2. /\ request' \in [Requests -> RequestType]
          /\ request'[r] = [request[r] EXCEPT !.at = "ok", !.answer = of]
          /\ \A q \in Requests : q # r => request'[q] = request[q]
      BY <1>0, <2>3, <3>1 DEF CallsOK
    <3>3. request'[r].at = "ok" /\ request'[r].from = n
      BY <1>0, <2>2, <3>2 DEF CallsOK, RequestType
    <3>4. /\ pending' \in [Nodes -> [Requests -> Requests \cup {NoRequest}]]
          /\ \A k \in Nodes, i \in Requests :
               pending'[k][i] = IF k = n /\ i = id THEN NoRequest ELSE pending[k][i]
      BY <1>0, <2>3 DEF CallsOK
    <3> QED BY <3>2, <3>3, <3>4
  <2>5. PICK k \in 0 .. MaxRequests :
         /\ k + left["request"] <= MaxRequests
         /\ \A q \in Requests : request[q].at # "none" <=> q <= k
         /\ \A i \in Nodes : nextReq[i] <= k + 1
    BY <1>0 DEF CallsOK
  <2>6. left' = left
    BY DEF ReadFrame
  <2>7. \A q \in Requests : request'[q].at # "none" <=> q <= k
    BY <2>2, <2>4, <2>5
  <2>8. CallsOK'
    BY <1>0, <1>3, <2>4, <2>5, <2>6, <2>7 DEF CallsOK
  <2>9. ASSUME NEW i \in Nodes, NEW j \in Requests, pending'[i][j] # NoRequest
        PROVE  /\ pending'[i][j] = pending[i][j] /\ pending[i][j] # r
               /\ pending[i][j] \in Requests
    BY <1>0, <2>1, <2>2, <2>4, <2>9 DEF WaitersOK, CallsOK
  <2>10. ASSUME NEW i \in Nodes, NEW j \in Requests, pending'[i][j] # NoRequest
         PROVE  /\ request'[pending'[i][j]].from = i /\ request'[pending'[i][j]].at = "waiting"
                /\ j < nextReq'[i]
                /\ \A l \in Requests : pending'[i][l] = pending'[i][j] => j = l
    <3>1. /\ pending'[i][j] = pending[i][j] /\ pending[i][j] # r /\ pending[i][j] \in Requests
          /\ request'[pending[i][j]] = request[pending[i][j]]
      BY <2>4, <2>9, <2>10
    <3>2. \A l \in Requests : pending'[i][l] = pending[i][j] => pending[i][l] = pending[i][j]
      BY <2>4, <2>10, <3>1
    <3> QED BY <1>0, <1>3, <2>10, <3>1, <3>2 DEF WaitersOK
  <2>11. ASSUME NEW q \in Requests, request'[q].at = "waiting"
         PROVE  \E i \in Requests : pending'[request'[q].from][i] = q
    <3>1. q # r /\ request'[q] = request[q] /\ request[q].from \in Nodes
      BY <1>0, <2>4, <2>11 DEF WaitersOK
    <3>2. PICK i \in Requests : pending[request[q].from][i] = q
      BY <1>0, <2>11, <3>1 DEF WaitersOK
    <3> QED BY <2>1, <2>4, <3>1, <3>2
  <2>12. \A q \in Requests : request'[q].at # "none" => request'[q].from \in Nodes
    BY <1>0, <2>4 DEF WaitersOK
  <2> QED BY <2>8, <2>10, <2>11, <2>12 DEF WaitersOK
<1> QED BY <1>4, <1>5

\* A node that is restarted forgets whom it asked.
LEMMA RestartCalls ==
  ASSUME TypeInv, [Next]_vars, NEW n \in Nodes, Restart(n)
  PROVE  CallsOK' /\ WaitersOK'
<1>0. CallsOK /\ WaitersOK /\ ConnOK
  BY DEF TypeInv
<1>1. /\ pending' = [pending EXCEPT ![n] = [i \in Requests |-> NoRequest]]
      /\ nextReq' = [nextReq EXCEPT ![n] = 1]
      /\ request' = [r \in Requests |->
           IF request[r].from = n /\ request[r].at = "waiting"
             THEN [request[r] EXCEPT !.at = "gone"] ELSE request[r]]
      /\ tasks' = {t \in tasks : t.node # n} /\ handled' = handled
  BY DEF Restart
<1>2. left'["request"] \in Nat /\ left'["request"] <= left["request"] /\ left["request"] \in Nat
  BY <1>0, LeftStep DEF ConnOK, Kinds
<1>3. PICK k \in 0 .. MaxRequests :
       /\ k + left["request"] <= MaxRequests
       /\ \A q \in Requests : request[q].at # "none" <=> q <= k
       /\ \A i \in Nodes : nextReq[i] <= k + 1
  BY <1>0 DEF CallsOK
<1>4. /\ \A r \in Requests : request'[r] \in RequestType /\ request'[r].from = request[r].from
      /\ \A r \in Requests : request'[r].at # "none" <=> request[r].at # "none"
      /\ \A r \in Requests : request'[r].at = "waiting" =>
            request[r].at = "waiting" /\ request[r].from # n
      /\ \A r \in Requests : request[r].from # n => request'[r] = request[r]
  <2>1. ASSUME NEW r \in Requests, request[r].from = n, request[r].at = "waiting"
        PROVE  /\ request'[r] \in RequestType /\ request'[r].from = request[r].from
               /\ request'[r].at = "gone"
    <3>1. request'[r] = [request[r] EXCEPT !.at = "gone"]
      BY <1>1, <2>1
    <3>2. request[r] \in RequestType
      BY <1>0 DEF CallsOK
    <3> QED BY <3>1, <3>2 DEF RequestType
  <2>2. ASSUME NEW r \in Requests, ~(request[r].from = n /\ request[r].at = "waiting")
        PROVE  request'[r] = request[r] /\ request[r] \in RequestType
    BY <1>0, <1>1, <2>2 DEF CallsOK
  <2> QED BY <2>1, <2>2
<1>5. CallsOK'
  <2>1. /\ request' \in [Requests -> RequestType]
        /\ pending' \in [Nodes -> [Requests -> Requests \cup {NoRequest}]]
        /\ nextReq' \in [Nodes -> Nat \ {0}]
        /\ tasks' \subseteq [node : Nodes, peer : Nodes, id : Requests, of : Requests]
    BY <1>0, <1>1, <1>4 DEF CallsOK
  <2>2. /\ k + left'["request"] <= MaxRequests
        /\ \A i \in Nodes : nextReq'[i] <= k + 1
    BY <1>0, <1>1, <1>2, <1>3 DEF CallsOK
  <2> QED BY <1>0, <1>1, <1>3, <1>4, <2>1, <2>2 DEF CallsOK
<1>6. \A i \in Nodes, j \in Requests :
        pending'[i][j] = IF i = n THEN NoRequest ELSE pending[i][j]
  BY <1>0, <1>1 DEF CallsOK
<1>7. ASSUME NEW i \in Nodes, NEW j \in Requests, pending'[i][j] # NoRequest
      PROVE  /\ request'[pending'[i][j]].from = i /\ request'[pending'[i][j]].at = "waiting"
             /\ j < nextReq'[i]
             /\ \A l \in Requests : pending'[i][l] = pending'[i][j] => j = l
  <2>1. i # n /\ pending'[i][j] = pending[i][j] /\ pending[i][j] \in Requests
        /\ nextReq'[i] = nextReq[i]
    BY <1>0, <1>1, <1>6, <1>7 DEF CallsOK
  <2>2. request[pending[i][j]].from = i /\ request[pending[i][j]].at = "waiting" /\ j < nextReq[i]
        /\ \A l \in Requests : pending[i][l] = pending[i][j] => j = l
    BY <1>0, <1>7, <2>1 DEF WaitersOK
  <2>3. request'[pending[i][j]] = request[pending[i][j]]
    BY <1>4, <2>1, <2>2
  <2> QED BY <1>6, <2>1, <2>2, <2>3
<1>8. ASSUME NEW q \in Requests, request'[q].at = "waiting"
      PROVE  \E i \in Requests : pending'[request'[q].from][i] = q
  <2>1. request[q].at = "waiting" /\ request[q].from # n /\ request'[q].from = request[q].from
        /\ request[q].from \in Nodes
    BY <1>0, <1>4, <1>8 DEF WaitersOK
  <2>2. PICK i \in Requests : pending[request[q].from][i] = q
    BY <1>0, <2>1 DEF WaitersOK
  <2> QED BY <1>6, <2>1, <2>2
<1>9. \A q \in Requests : request'[q].at # "none" => request'[q].from \in Nodes
  BY <1>0, <1>4 DEF WaitersOK
<1> QED BY <1>5, <1>7, <1>8, <1>9 DEF WaitersOK

LEMMA CallsStep == TypeInv /\ [Next]_vars => CallsOK' /\ WaitersOK'
<1> SUFFICES ASSUME TypeInv, [Next]_vars PROVE CallsOK' /\ WaitersOK'
  OBVIOUS
<1>0. CallsOK /\ ConnOK /\ WireOK
  BY DEF TypeInv
<1>1. CASE UNCHANGED calls
  BY <1>0, <1>1, CallsStay DEF calls, CallsOK
<1>2. CASE \E r \in Requests, n, m \in Nodes, big \in {"no", "request", "reply"} : Ask(r, n, m, big)
  BY <1>2, AskCalls
<1>3. CASE \E n \in Nodes : Restart(n)
  BY <1>3, RestartCalls
<1>4. CASE \E t \in tasks : Serve(t)
  <2>1. PICK t \in tasks : Serve(t)
    BY <1>4
  <2>2. /\ UNCHANGED <<request, pending, nextReq>> /\ tasks' = tasks \ {t}
        /\ handled' = [handled EXCEPT ![t.of] = @ + 1]
    BY <2>1 DEF Serve
  <2> QED BY <1>0, <2>2, CallsStay DEF CallsOK
<1>5. CASE \E c \in Conns, n \in Nodes : At(c, n) /\ ReadFrame(c, n) /\ ReadReply(c, n)
  BY <1>5, ReplyCalls
<1>6. CASE \E c \in Conns, n \in Nodes : At(c, n) /\ ReadFrame(c, n) /\ ReadRequest(c, n)
  <2> PICK c \in Conns, n \in Nodes : At(c, n) /\ ReadFrame(c, n) /\ ReadRequest(c, n)
    BY <1>6
  <2> DEFINE f == Head(wire[c][n])
  <2>1. f \in Frames /\ f.kind = "Request"
    BY <1>0, HeadTailProperties DEF WireOK, ReadFrame, ReadRequest
  <2>2. f.id \in Requests /\ f.of \in Requests
    BY <2>1 DEF Frames
  <2>3. tasks' = tasks \cup {[node |-> n, peer |-> Other(c, n), id |-> f.id, of |-> f.of]}
        /\ UNCHANGED <<request, pending, nextReq, handled>>
    BY DEF ReadRequest
  <2>4. Other(c, n) \in Nodes
    BY <1>0, OtherEnd
  <2> HIDE DEF f
  <2> QED BY <1>0, <2>2, <2>3, <2>4, CallsStay DEF CallsOK
<1> QED BY <1>1, <1>2, <1>3, <1>4, <1>5, <1>6, CallMoves

-----------------------------------------------------------------------------
(* The type invariant is inductive, and implies what is stated of it.      *)

LEMMA TypeInit == Init => TypeInv
<1> SUFFICES ASSUME Init PROVE TypeInv
  OBVIOUS
<1>1. /\ left \in [Kinds -> Nat] /\ left["dial"] \in Nat /\ left["request"] \in Nat
      /\ left["dial"] <= MaxConns /\ left["request"] <= MaxRequests
  BY BoundsAssumption DEF Init, Kinds
<1>2. \A c \in Conns : ~Used(c) /\ c > 0
  BY DEF Init, Used, Conns
<1>3. ConnOK
  <2>1. /\ 0 \in 0 .. MaxConns /\ 0 + left["dial"] <= MaxConns
        /\ \A c \in Conns : Used(c) <=> c <= 0
    BY <1>1, <1>2 DEF Conns
  <2>2. conn \in [Conns -> [dialer : Nodes \cup {NoNode}, acceptor : Nodes \cup {NoNode},
                           up : BOOLEAN]]
    BY DEF Init
  <2>3. \A c \in Conns : conn[c].acceptor = NoNode /\ ~conn[c].up
    BY DEF Init
  <2> QED BY <1>1, <1>2, <2>1, <2>2, <2>3 DEF ConnOK
<1>4. TasksOK
  BY DEF Init, TasksOK, NoBoot
<1>5. WireOK
  <2>1. <<>> \in Seq(Frames) /\ Len(<<>>) = 0
    BY EmptySeq
  <2> QED BY <2>1 DEF Init, WireOK
<1>6. PeersOK
  BY <1>2 DEF Init, PeersOK, Conns
<1>7. NamesOK
  BY DEF Init, NamesOK
<1>8. CallsOK
  <2>1. request \in [Requests -> RequestType] /\ \A r \in Requests : request[r].at = "none"
    BY DEF Init, NoRequestYet, RequestType
  <2>2. /\ 0 \in 0 .. MaxRequests /\ 0 + left["request"] <= MaxRequests
        /\ \A r \in Requests : request[r].at # "none" <=> r <= 0
    BY <1>1, <2>1 DEF Requests
  <2>3. \A n \in Nodes : nextReq[n] <= 0 + 1
    BY DEF Init
  <2>4. /\ pending \in [Nodes -> [Requests -> Requests \cup {NoRequest}]]
        /\ nextReq \in [Nodes -> Nat \ {0}] /\ handled \in [Requests -> Nat] /\ tasks = {}
    BY DEF Init
  <2> QED BY <2>1, <2>2, <2>3, <2>4 DEF CallsOK
<1>9. WaitersOK
  BY DEF Init, WaitersOK, NoRequestYet
<1> QED BY <1>3, <1>4, <1>5, <1>6, <1>7, <1>8, <1>9 DEF TypeInv

LEMMA TypeStep == TypeInv /\ [Next]_vars => TypeInv'
<1> SUFFICES ASSUME TypeInv, [Next]_vars PROVE TypeInv'
  OBVIOUS
<1>1. ConnOK /\ TasksOK /\ WireOK /\ PeersOK /\ NamesOK
  BY DEF TypeInv
<1>2. ConnOK'
  BY <1>1, ConnStep
<1>3. TasksOK'
  BY <1>1, TasksStep
<1>4. WireOK'
  BY WireStep
<1>5. PeersOK'
  BY <1>1, PeersStep
<1>6. NamesOK'
  BY <1>1, NamesStep
<1>7. CallsOK' /\ WaitersOK'
  BY CallsStep
<1> QED BY <1>2, <1>3, <1>4, <1>5, <1>6, <1>7 DEF TypeInv

LEMMA TypesHold == TypeInv => TypeOK
<1> SUFFICES ASSUME TypeInv PROVE TypeOK
  OBVIOUS
<1>0. ConnOK /\ TasksOK /\ PeersOK /\ NamesOK /\ CallsOK /\ WaitersOK
  BY DEF TypeInv
<1>1. \A c \in Conns : conn[c].up => Used(c)
  BY <1>0 DEF ConnOK
<1>2. \A n, m \in Nodes : peers[n][m] # NoConn =>
        Ends(peers[n][m]) = {n, m} /\ n # m /\ reader[peers[n][m]][n] # "none"
  <2> SUFFICES ASSUME NEW n \in Nodes, NEW m \in Nodes, peers[n][m] # NoConn
               PROVE  Ends(peers[n][m]) = {n, m} /\ n # m /\ reader[peers[n][m]][n] # "none"
    OBVIOUS
  <2>1. PICK c \in Conns : c = peers[n][m]
    BY <1>0 DEF PeersOK
  <2>2. Ends(c) = {n, m} /\ n # m /\ reader[c][n] = "running"
    BY <1>0, <2>1 DEF PeersOK
  <2> QED BY <2>1, <2>2
<1>3. /\ reader \in [Conns -> [Nodes -> {"none", "greeted", "running", "pruning", "ended"}]]
      /\ peers \in [Nodes -> [Nodes -> {NoConn} \cup Conns]]
      /\ globals \in [Nodes -> [Names -> {NoNode} \cup Nodes]]
      /\ local \in [Nodes -> SUBSET Names]
  BY <1>0 DEF TasksOK, PeersOK, NamesOK
<1>4. /\ \A n \in Nodes, i \in Requests : pending[n][i] # NoRequest =>
           request[pending[n][i]].from = n /\ request[pending[n][i]].at = "waiting"
      /\ \A r \in Requests : request[r].at = "waiting" =>
           \E i \in Requests : pending[request[r].from][i] = r
  BY <1>0 DEF WaitersOK
<1> QED BY <1>1, <1>2, <1>3, <1>4 DEF TypeOK

LEMMA RoutesHold == TypeInv => RoutesAreWatched
<1> SUFFICES ASSUME TypeInv, NEW n \in Nodes, NEW m \in Nodes, n # m
             PROVE  /\ peers[n][m] # NoConn => reader[peers[n][m]][n] = "running"
                    /\ (\E x \in Names : globals[n][x] = m) =>
                         \E c \in Conns : /\ Used(c) /\ Ends(c) = {n, m}
                                          /\ reader[c][n] \in {"running", "pruning"}
  BY DEF RoutesAreWatched
<1>0. PeersOK /\ NamesOK
  BY DEF TypeInv
<1>1. ASSUME peers[n][m] # NoConn PROVE reader[peers[n][m]][n] = "running"
  <2>1. PICK c \in Conns : c = peers[n][m]
    BY <1>0, <1>1 DEF PeersOK
  <2> QED BY <1>0, <2>1 DEF PeersOK
<1>2. ASSUME \E x \in Names : globals[n][x] = m
      PROVE  \E c \in Conns : /\ Used(c) /\ Ends(c) = {n, m}
                              /\ reader[c][n] \in {"running", "pruning"}
  BY <1>0, <1>2 DEF NamesOK
<1> QED BY <1>1, <1>2

-----------------------------------------------------------------------------
(* Answers.                                                                *)

Asked(r) == request[r].at # "none"
\* The frame at i of what is on its way to n on c is the request r.
RequestAt(c, n, i, r) ==
  /\ i \in 1 .. Len(wire[c][n])
  /\ wire[c][n][i].kind = "Request" /\ wire[c][n][i].of = r
\* n asked r under the number i, and nothing else waits under it.
Numbered(n, i, r) ==
  /\ request[r].from = n /\ Asked(r)
  /\ i < nextReq[n] /\ pending[n][i] \in {NoRequest, r}

\* A node that is restarted would begin its numbers anew.
NoRestarts == left["restart"] = 0 \/ (left["request"] = 0 /\ \A r \in Requests : ~Asked(r))
NumbersInv ==
  /\ \A c \in Conns, n \in Nodes : \A i \in 1 .. Len(wire[c][n]) :
       /\ wire[c][n][i].kind = "Request" =>
            Numbered(Other(c, n), wire[c][n][i].id, wire[c][n][i].of)
       /\ wire[c][n][i].kind = "Reply" =>
            Numbered(n, wire[c][n][i].id, wire[c][n][i].of) /\ handled[wire[c][n][i].of] = 1
  /\ \A t \in tasks : Numbered(t.peer, t.id, t.of)
OnWireOnce ==
  \A c, d \in Conns, n, m \in Nodes, r \in Requests, i, j \in Nat :
    RequestAt(c, n, i, r) /\ RequestAt(d, m, j, r) => c = d /\ n = m /\ i = j
\* A request is on its way, or with a task, or has been run: one at a time.
ServedOnce ==
  /\ \A c \in Conns, n \in Nodes, r \in Requests, i \in Nat :
       RequestAt(c, n, i, r) => handled[r] = 0 /\ \A t \in tasks : t.of # r
  /\ \A t \in tasks : handled[t.of] = 0 /\ \A u \in tasks : u.of = t.of => u = t
  /\ \A r \in Requests : handled[r] \in {0, 1} /\ (handled[r] = 1 => Asked(r))
AnswersOwn ==
  \A r \in Requests : request[r].at = "ok" => request[r].answer = r /\ handled[r] = 1
AnswersInv ==
  TypeInv /\ NoRestarts /\ NumbersInv /\ OnWireOnce /\ ServedOnce /\ AnswersOwn

\* What a reply does to the request it answers.
LEMMA ReplyEnds ==
  ASSUME TypeInv, NEW c \in Conns, NEW n \in Nodes, ReadFrame(c, n), ReadReply(c, n)
  PROVE  \E id, of \in Requests :
           /\ 1 \in 1 .. Len(wire[c][n]) /\ wire[c][n][1].kind = "Reply"
           /\ wire[c][n][1].id = id /\ wire[c][n][1].of = of
           /\ IF pending[n][id] = NoRequest THEN UNCHANGED <<request, pending>>
              ELSE /\ pending[n][id] \in Requests
                   /\ request' = [request EXCEPT ![pending[n][id]] =
                        [request[pending[n][id]] EXCEPT !.at = "ok", !.answer = of]]
                   /\ pending' = [pending EXCEPT ![n][id] = NoRequest]
           /\ UNCHANGED <<nextReq, tasks, handled>>
<1>0. CallsOK /\ WireOK
  BY DEF TypeInv
<1> DEFINE f == Head(wire[c][n])
<1>1. /\ f \in Frames /\ f.kind = "Reply" /\ f = wire[c][n][1] /\ 1 \in 1 .. Len(wire[c][n])
  <2>1. wire[c][n] \in Seq(Frames) /\ wire[c][n] # <<>> /\ f.kind = "Reply"
    BY <1>0 DEF WireOK, ReadFrame, ReadReply
  <2>2. f \in Frames /\ f = wire[c][n][1] /\ Len(wire[c][n]) \in Nat /\ Len(wire[c][n]) # 0
    BY <2>1, HeadTailProperties, LenProperties, EmptySeq
  <2> QED BY <2>1, <2>2
<1>2. f.id \in Requests /\ f.of \in Requests
  BY <1>1 DEF Frames
<1>3. /\ UNCHANGED <<nextReq, tasks, handled>>
      /\ IF pending[n][f.id] = NoRequest THEN UNCHANGED <<request, pending>>
         ELSE /\ request' = [request EXCEPT ![pending[n][f.id]].at = "ok",
                                            ![pending[n][f.id]].answer = f.of]
              /\ pending' = [pending EXCEPT ![n][f.id] = NoRequest]
  BY DEF ReadReply
<1> HIDE DEF f
<1>4. PICK id, of \in Requests : id = f.id /\ of = f.of
  BY <1>2
<1>5. CASE pending[n][id] = NoRequest
  BY <1>1, <1>3, <1>4, <1>5
<1>6. CASE pending[n][id] # NoRequest
  <2>1. PICK r \in Requests : r = pending[n][id]
    BY <1>0, <1>6 DEF CallsOK
  <2>2. request' = [request EXCEPT ![r] = [request[r] EXCEPT !.at = "ok", !.answer = of]]
    BY <1>0, <1>3, <1>4, <1>6, <2>1 DEF CallsOK
  <2> QED BY <1>1, <1>3, <1>4, <1>6, <2>1, <2>2
<1> QED BY <1>5, <1>6

\* A request that has been asked remains one of who asked it.
LEMMA AskedStays ==
  ASSUME TypeInv, [Next]_vars, NEW r \in Requests, Asked(r)
  PROVE  Asked(r)' /\ request'[r].from = request[r].from
<1>0. CallsOK
  BY DEF TypeInv
<1>1. CASE \E q \in Requests, n, m \in Nodes, big \in {"no", "request", "reply"} : Ask(q, n, m, big)
  <2>1. PICK q \in Requests, n \in Nodes, m \in Nodes, big \in {"no", "request", "reply"} :
          Ask(q, n, m, big)
    BY <1>1
  <2>2. request[q].at = "none" /\ \E new : request' = [request EXCEPT ![q] = new]
    BY <2>1 DEF Ask
  <2>3. request'[r] = request[r]
    BY <1>0, <2>2 DEF CallsOK, Asked
  <2> QED BY <2>3 DEF Asked
<1>2. CASE \E n \in Nodes : Restart(n)
  BY <1>0, <1>2 DEF Restart, CallsOK, RequestType, Asked
<1>3. CASE \E c \in Conns, n \in Nodes : At(c, n) /\ ReadFrame(c, n) /\ ReadReply(c, n)
  <2>1. \/ request' = request
        \/ \E p, of \in Requests :
             request' = [request EXCEPT ![p] = [request[p] EXCEPT !.at = "ok", !.answer = of]]
    BY <1>3, ReplyEnds
  <2>2. ASSUME NEW p \in Requests, NEW of \in Requests,
               request' = [request EXCEPT ![p] = [request[p] EXCEPT !.at = "ok", !.answer = of]]
        PROVE  Asked(r)' /\ request'[r].from = request[r].from
    <3>1. CASE r = p
      <4>1. request'[r] = [request[r] EXCEPT !.at = "ok", !.answer = of]
        BY <1>0, <2>2, <3>1 DEF CallsOK
      <4>2. request[r] \in RequestType
        BY <1>0 DEF CallsOK
      <4> QED BY <4>1, <4>2 DEF RequestType, Asked
    <3>2. CASE r # p
      BY <1>0, <2>2, <3>2 DEF CallsOK, Asked
    <3> QED BY <3>1, <3>2
  <2> QED BY <2>1, <2>2 DEF Asked
<1>4. CASE request' = request
  BY <1>4 DEF Asked
<1> QED BY <1>1, <1>2, <1>3, <1>4, CallMoves DEF Serve, ReadRequest, calls

\* So its number remains its own, as long as the node is the same.
LEMMA NumberedStays ==
  ASSUME TypeInv, [Next]_vars, NEW n \in Nodes, NEW i \in Requests, NEW r \in Requests,
         Numbered(n, i, r), ~\E k \in Nodes : Restart(k)
  PROVE  Numbered(n, i, r)'
<1>0. CallsOK /\ ConnOK
  BY DEF TypeInv
<1>1. Asked(r) /\ request[r].from = n /\ i < nextReq[n] /\ pending[n][i] \in {NoRequest, r}
  BY DEF Numbered
<1>2. Asked(r)' /\ request'[r].from = n
  BY <1>1, AskedStays
<1>3. CASE \E q \in Requests, k, m \in Nodes, big \in {"no", "request", "reply"} : Ask(q, k, m, big)
  <2>1. PICK q \in Requests, k \in Nodes, m \in Nodes, big \in {"no", "request", "reply"} :
          Ask(q, k, m, big)
    BY <1>3
  <2>2. PICK id \in Requests : id = nextReq[k]
    BY <1>0, <2>1, AskNumber
  <2>3. nextReq' = [nextReq EXCEPT ![k] = id + 1]
        /\ \E slot : pending' = [pending EXCEPT ![k][id] = slot]
    BY <2>1, <2>2 DEF Ask, TakeNumber
  <2>4. k # n \/ i # id
    BY <1>1, <2>2 DEF Requests
  <2>5. pending'[n][i] = pending[n][i]
    BY <1>0, <2>3, <2>4 DEF CallsOK
  <2>6. i < nextReq'[n]
    <3>1. nextReq'[n] = IF n = k THEN id + 1 ELSE nextReq[n]
      BY <1>0, <2>3 DEF CallsOK
    <3> QED BY <1>1, <2>2, <3>1 DEF Requests
  <2> QED BY <1>1, <1>2, <2>5, <2>6 DEF Numbered
<1>4. CASE \E c \in Conns, k \in Nodes : At(c, k) /\ ReadFrame(c, k) /\ ReadReply(c, k)
  <2>1. /\ nextReq' = nextReq
        /\ \/ pending' = pending
           \/ \E k \in Nodes, id \in Requests : pending' = [pending EXCEPT ![k][id] = NoRequest]
    <3> PICK c \in Conns, k \in Nodes : ReadFrame(c, k) /\ ReadReply(c, k)
      BY <1>4
    <3> PICK id \in Requests :
          /\ pending' = pending \/ pending' = [pending EXCEPT ![k][id] = NoRequest]
          /\ nextReq' = nextReq
      BY ReplyEnds
    <3> QED OBVIOUS
  <2>2. pending'[n][i] \in {NoRequest, r}
    BY <1>0, <1>1, <2>1 DEF CallsOK
  <2> QED BY <1>1, <1>2, <2>1, <2>2 DEF Numbered
<1>5. CASE UNCHANGED <<pending, nextReq>>
  BY <1>1, <1>2, <1>5 DEF Numbered
<1> QED BY <1>3, <1>4, <1>5, CallMoves DEF Serve, ReadRequest, calls

\* A node is restarted only where nothing is ever asked.
LEMMA NoRestartsStep ==
  ASSUME TypeInv, [Next]_vars, NoRestarts
  PROVE  NoRestarts'
<1>0. CallsOK /\ WaitersOK /\ ConnOK
  BY DEF TypeInv
<1>1. /\ left["restart"] \in Nat /\ left'["restart"] \in Nat /\ left'["restart"] <= left["restart"]
      /\ left["request"] \in Nat /\ left'["request"] \in Nat /\ left'["request"] <= left["request"]
  BY <1>0, LeftStep DEF ConnOK, Kinds
<1>2. CASE left["restart"] = 0
  <2>1. left'["restart"] = 0
    BY <1>1, <1>2
  <2> QED BY <2>1 DEF NoRestarts
<1>3. CASE left["request"] = 0 /\ \A r \in Requests : ~Asked(r)
  <2>1. left'["request"] = 0
    BY <1>1, <1>3
  <2>2. request' = request
    <3>1. ~\E r \in Requests, n, m \in Nodes, big \in {"no", "request", "reply"} : Ask(r, n, m, big)
      BY <1>3 DEF Ask
    <3>2. CASE \E n \in Nodes : Restart(n)
      <4>1. \A r \in Requests : request[r].at # "waiting"
        BY <1>3 DEF Asked
      <4> QED BY <1>0, <3>2, <4>1 DEF Restart, CallsOK
    <3>3. CASE \E c \in Conns, n \in Nodes : At(c, n) /\ ReadFrame(c, n) /\ ReadReply(c, n)
      <4>1. PICK c \in Conns, n \in Nodes : ReadFrame(c, n) /\ ReadReply(c, n)
        BY <3>3
      <4>2. PICK id \in Requests :
              IF pending[n][id] = NoRequest THEN UNCHANGED <<request, pending>>
              ELSE pending[n][id] \in Requests
        BY <4>1, ReplyEnds
      <4>3. pending[n][id] = NoRequest
        BY <1>0, <1>3, <4>2 DEF WaitersOK, Asked
      <4> QED BY <4>2, <4>3
    <3>4. CASE \/ \E t \in tasks : Serve(t)
               \/ \E c \in Conns, n \in Nodes : At(c, n) /\ ReadFrame(c, n) /\ ReadRequest(c, n)
               \/ UNCHANGED calls
      BY <3>4 DEF Serve, ReadRequest, calls
    <3> QED BY <3>1, <3>2, <3>3, <3>4, CallMoves
  <2> QED BY <1>3, <2>1, <2>2 DEF NoRestarts, Asked
<1> QED BY <1>2, <1>3 DEF NoRestarts

LEMMA RestartAnswers ==
  ASSUME AnswersInv, [Next]_vars, NEW n \in Nodes, Restart(n)
  PROVE  NumbersInv' /\ OnWireOnce' /\ ServedOnce' /\ AnswersOwn'
<1>0. CallsOK /\ WireOK /\ NoRestarts /\ NumbersInv /\ ServedOnce /\ AnswersOwn /\ TypeInv
  BY DEF AnswersInv, TypeInv
<1>1. left["request"] = 0 /\ \A r \in Requests : ~Asked(r)
  BY <1>0 DEF Restart, Spend, NoRestarts
<1>2. tasks = {}
  <2>1. \A t \in tasks : t.of \in Requests /\ Numbered(t.peer, t.id, t.of)
    BY <1>0 DEF NumbersInv, CallsOK
  <2> QED BY <1>1, <2>1 DEF Numbered
<1>3. ASSUME NEW c \in Conns, NEW m \in Nodes, NEW i \in 1 .. Len(wire[c][m])
      PROVE  wire[c][m][i].kind = "Register"
  <2>1. wire[c][m][i] \in Frames
    BY <1>0, ElementOfSeq DEF WireOK
  <2>2. CASE wire[c][m][i].kind = "Request"
    <3>1. Asked(wire[c][m][i].of) /\ wire[c][m][i].of \in Requests
      BY <1>0, <2>1, <2>2 DEF NumbersInv, Numbered, Frames
    <3> QED BY <1>1, <3>1
  <2>3. CASE wire[c][m][i].kind = "Reply"
    <3>1. Asked(wire[c][m][i].of) /\ wire[c][m][i].of \in Requests
      BY <1>0, <2>1, <2>3 DEF NumbersInv, Numbered, Frames
    <3> QED BY <1>1, <3>1
  <2> QED BY <2>1, <2>2, <2>3 DEF Frames
<1>4. ASSUME NEW c \in Conns, NEW m \in Nodes, NEW i \in 1 .. Len(wire'[c][m])
      PROVE  wire'[c][m][i].kind = "Register"
  <2>1. ~\E r \in Requests, j, k \in Nodes, big \in {"no", "request", "reply"} : Ask(r, j, k, big)
    BY <1>1 DEF Ask
  <2>2. \A k \in Nodes : /\ ~NewRequest(c, k, wire'[c][m][i])
                         /\ ~NewReply(c, k, wire'[c][m][i])
    BY <1>2, <2>1 DEF NewRequest, NewReply
  <2>3. CASE \E j \in 1 .. Len(wire[c][m]) : wire'[c][m][i] = wire[c][m][j]
    BY <1>3, <2>3
  <2>4. CASE wire'[c][m][i].kind = "Register"
    BY <2>4
  <2> QED BY <1>0, <2>2, <2>3, <2>4, FrameOrigin
<1>5. tasks' = {} /\ handled' = handled /\ \A r \in Requests : request'[r] = request[r]
  BY <1>1, <1>2 DEF Restart, Asked
<1>6. NumbersInv'
  BY <1>4, <1>5 DEF NumbersInv
<1>7. \A c \in Conns, m \in Nodes, r \in Requests, i \in Nat : ~RequestAt(c, m, i, r)'
  BY <1>4 DEF RequestAt
<1> QED BY <1>0, <1>5, <1>6, <1>7 DEF OnWireOnce, ServedOnce, AnswersOwn, Asked

\* Where a request on the wire was before the step.
LEMMA RequestOrigin ==
  ASSUME TypeInv, [Next]_vars
  PROVE  \/ \A c \in Conns, n \in Nodes : \E k \in Nat : \A i \in Nat, r \in Requests :
              RequestAt(c, n, i, r)' => RequestAt(c, n, i + k, r)
         \/ \E d \in Conns, o \in Nodes, q \in Requests, p \in Nat :
              /\ ~Asked(q) /\ UNCHANGED <<handled, tasks>>
              /\ \A c \in Conns, n \in Nodes, i \in Nat, r \in Requests :
                   RequestAt(c, n, i, r)' =>
                     RequestAt(c, n, i, r) \/ (c = d /\ n = o /\ i = p /\ r = q)
<1>0. WireType /\ WireMove /\ WireOK /\ ConnOK
  BY WireMoves DEF TypeInv
<1>1. \A c \in Conns, n \in Nodes : Len(wire[c][n]) \in Nat /\ Len(wire'[c][n]) \in Nat
  BY <1>0, LenProperties DEF WireOK, WireType
<1>2. CASE \A c \in Conns, n \in Nodes : Shrunk(c, n)
  <2>1. ASSUME NEW c \in Conns, NEW n \in Nodes
        PROVE  \E k \in Nat : \A i \in Nat, r \in Requests :
                 RequestAt(c, n, i, r)' => RequestAt(c, n, i + k, r)
    <3>1. PICK k \in Nat :
            /\ Len(wire'[c][n]) + k <= Len(wire[c][n])
            /\ \A i \in 1 .. Len(wire'[c][n]) : wire'[c][n][i] = wire[c][n][i + k]
      BY <1>2 DEF Shrunk
    <3>2. ASSUME NEW i \in Nat, NEW r \in Requests, RequestAt(c, n, i, r)'
          PROVE  RequestAt(c, n, i + k, r)
      <4>1. i \in 1 .. Len(wire'[c][n]) /\ wire'[c][n][i].kind = "Request" /\ wire'[c][n][i].of = r
        BY <3>2 DEF RequestAt
      <4>2. i + k \in 1 .. Len(wire[c][n])
        BY <1>1, <3>1, <4>1
      <4> QED BY <3>1, <4>1, <4>2 DEF RequestAt
    <3> QED BY <3>2
  <2> QED BY <2>1
<1>3. ASSUME NEW d \in Conns, NEW m \in Nodes, At(d, m), NEW frames \in Seq(Frames),
             Grown(d, m, frames),
             NEW c \in Conns, NEW n \in Nodes, NEW i \in Nat, NEW r \in Requests,
             RequestAt(c, n, i, r)'
      PROVE  \/ RequestAt(c, n, i, r)
             \/ /\ c = d /\ n = Other(d, m)
                /\ \E j \in 1 .. Len(frames) : /\ i = Len(wire[c][n]) + j
                     /\ frames[j].kind = "Request" /\ frames[j].of = r
  <2>1. PICK o \in Nodes : o = Other(d, m)
    BY <1>0, <1>3, OtherEnd
  <2>2. wire' = [wire EXCEPT ![d][o] = wire[d][o] \o frames]
    BY <1>3, <2>1 DEF Grown
  <2>3. i \in 1 .. Len(wire'[c][n]) /\ wire'[c][n][i].kind = "Request" /\ wire'[c][n][i].of = r
    BY <1>3 DEF RequestAt
  <2>4. CASE c # d \/ n # o
    <3>1. wire'[c][n] = wire[c][n]
      BY <1>0, <2>2, <2>4 DEF WireOK
    <3> QED BY <2>3, <3>1 DEF RequestAt
  <2>5. CASE c = d /\ n = o
    <3>1. wire'[c][n] = wire[c][n] \o frames /\ wire[c][n] \in Seq(Frames)
      BY <1>0, <2>2, <2>5 DEF WireOK
    <3>2. /\ Len(frames) \in Nat /\ Len(wire'[c][n]) = Len(wire[c][n]) + Len(frames)
          /\ wire'[c][n][i] = IF i <= Len(wire[c][n]) THEN wire[c][n][i]
                                                      ELSE frames[i - Len(wire[c][n])]
      BY <2>3, <3>1, ConcatProperties, LenProperties
    <3>3. CASE i <= Len(wire[c][n])
      <4>1. i \in 1 .. Len(wire[c][n])
        BY <1>1, <2>3, <3>3
      <4> QED BY <2>3, <3>2, <3>3, <4>1 DEF RequestAt
    <3>4. CASE ~(i <= Len(wire[c][n]))
      <4>1. PICK j \in 1 .. Len(frames) : i = Len(wire[c][n]) + j /\ j = i - Len(wire[c][n])
        <5>1. i - Len(wire[c][n]) \in 1 .. Len(frames)
              /\ i = Len(wire[c][n]) + (i - Len(wire[c][n]))
          BY <1>1, <2>3, <3>2, <3>4
        <5> QED BY <5>1
      <4> QED BY <2>1, <2>3, <2>5, <3>2, <3>4, <4>1
    <3> QED BY <3>3, <3>4
  <2> QED BY <2>4, <2>5
<1>4. ASSUME NEW d \in Conns, NEW m \in Nodes, At(d, m), NEW frames \in Seq(Frames),
             Grown(d, m, frames), \A j \in 1 .. Len(frames) : frames[j].kind # "Request"
      PROVE  \A c \in Conns, n \in Nodes : \E k \in Nat : \A i \in Nat, r \in Requests :
               RequestAt(c, n, i, r)' => RequestAt(c, n, i + k, r)
  <2>1. \A c \in Conns, n \in Nodes, i \in Nat, r \in Requests :
          RequestAt(c, n, i, r)' => RequestAt(c, n, i, r)
    <3> SUFFICES ASSUME NEW c \in Conns, NEW n \in Nodes, NEW i \in Nat, NEW r \in Requests,
                        RequestAt(c, n, i, r)'
                 PROVE  RequestAt(c, n, i, r)
      OBVIOUS
    <3>1. \/ RequestAt(c, n, i, r)
          \/ \E j \in 1 .. Len(frames) : frames[j].kind = "Request"
      BY <1>3, <1>4
    <3> QED BY <1>4, <3>1
  <2>2. \A c \in Conns, n \in Nodes, i \in Nat, r \in Requests :
          RequestAt(c, n, i, r)' => RequestAt(c, n, i + 0, r)
    <3>1. \A i \in Nat : i + 0 = i
      OBVIOUS
    <3> QED BY <2>1, <3>1
  <2> QED BY <2>2
<1>5. CASE \E d \in Conns, m \in Nodes : /\ At(d, m)
             /\ \E frames \in Seq(Frames) : Grown(d, m, frames) /\ Spoken(m, frames)
  BY <1>4, <1>5 DEF Spoken
<1>6. ASSUME NEW d \in Conns, NEW m \in Nodes, At(d, m), NEW f \in Frames,
             Grown(d, m, <<f>>), NewReply(d, m, f)
      PROVE  \A c \in Conns, n \in Nodes : \E k \in Nat : \A i \in Nat, r \in Requests :
               RequestAt(c, n, i, r)' => RequestAt(c, n, i + k, r)
  <2>1. <<f>> \in Seq(Frames) /\ \A j \in 1 .. Len(<<f>>) : <<f>>[j].kind # "Request"
    BY <1>6 DEF NewReply
  <2> QED BY <1>4, <1>6, <2>1
<1>7. ASSUME NEW d \in Conns, NEW m \in Nodes, At(d, m), NEW f \in Frames,
             Grown(d, m, <<f>>), NewRequest(d, m, f)
      PROVE  \E e \in Conns, o \in Nodes, q \in Requests, p \in Nat :
               /\ ~Asked(q) /\ UNCHANGED <<handled, tasks>>
               /\ \A c \in Conns, n \in Nodes, i \in Nat, r \in Requests :
                    RequestAt(c, n, i, r)' =>
                      RequestAt(c, n, i, r) \/ (c = e /\ n = o /\ i = p /\ r = q)
  <2>1. PICK q \in Requests : ~Asked(q) /\ UNCHANGED <<handled, tasks>> /\ f.of = q
    BY <1>7 DEF NewRequest, Ask, Asked
  <2>2. PICK o \in Nodes : o = Other(d, m)
    BY <1>0, <1>7, OtherEnd
  <2>3. PICK p \in Nat : p = Len(wire[d][o]) + 1
    BY <1>1
  <2>4. <<f>> \in Seq(Frames) /\ \A j \in 1 .. Len(<<f>>) : j = 1 /\ <<f>>[j] = f
    OBVIOUS
  <2>5. ASSUME NEW c \in Conns, NEW n \in Nodes, NEW i \in Nat, NEW r \in Requests,
               RequestAt(c, n, i, r)'
        PROVE  RequestAt(c, n, i, r) \/ (c = d /\ n = o /\ i = p /\ r = q)
    <3> DEFINE frames == <<f>>
    <3>1. /\ frames \in Seq(Frames) /\ Grown(d, m, frames)
          /\ \A j \in 1 .. Len(frames) : j = 1 /\ frames[j] = f
      BY <1>7, <2>4
    <3> HIDE DEF frames
    <3>2. \/ RequestAt(c, n, i, r)
          \/ /\ c = d /\ n = Other(d, m)
             /\ \E j \in 1 .. Len(frames) : /\ i = Len(wire[c][n]) + j
                  /\ frames[j].kind = "Request" /\ frames[j].of = r
      BY <1>3, <1>7, <2>5, <3>1
    <3> QED BY <2>1, <2>2, <2>3, <3>1, <3>2
  <2> QED BY <2>1, <2>5
<1> QED BY <1>0, <1>2, <1>5, <1>6, <1>7 DEF WireMove

LEMMA OnWireOnceStep ==
  ASSUME TypeInv, [Next]_vars, OnWireOnce, ServedOnce, NumbersInv
  PROVE  OnWireOnce'
<1>1. ASSUME \A c \in Conns, n \in Nodes : \E k \in Nat : \A i \in Nat, r \in Requests :
               RequestAt(c, n, i, r)' => RequestAt(c, n, i + k, r)
      PROVE  OnWireOnce'
  <2>1. ASSUME NEW c \in Conns, NEW d \in Conns, NEW n \in Nodes, NEW m \in Nodes,
               NEW r \in Requests, NEW i \in Nat, NEW j \in Nat,
               RequestAt(c, n, i, r)', RequestAt(d, m, j, r)'
        PROVE  c = d /\ n = m /\ i = j
    <3>1. PICK k \in Nat : \A x \in Nat, q \in Requests :
            RequestAt(c, n, x, q)' => RequestAt(c, n, x + k, q)
      BY <1>1
    <3>2. PICK l \in Nat : \A x \in Nat, q \in Requests :
            RequestAt(d, m, x, q)' => RequestAt(d, m, x + l, q)
      BY <1>1
    <3>3. RequestAt(c, n, i + k, r) /\ RequestAt(d, m, j + l, r)
      BY <2>1, <3>1, <3>2
    <3>4. c = d /\ n = m
      BY <3>3 DEF OnWireOnce
    <3>5. RequestAt(c, n, j + k, r)
      BY <2>1, <3>1, <3>4
    <3>6. i + k \in Nat /\ j + k \in Nat
      OBVIOUS
    <3>7. i + k = j + k
      BY <3>3, <3>5, <3>6 DEF OnWireOnce
    <3> QED BY <3>4, <3>7
  <2> QED BY <2>1 DEF OnWireOnce
<1>2. ASSUME NEW e \in Conns, NEW o \in Nodes, NEW q \in Requests, NEW p \in Nat, ~Asked(q),
             \A c \in Conns, n \in Nodes, i \in Nat, r \in Requests :
               RequestAt(c, n, i, r)' =>
                 RequestAt(c, n, i, r) \/ (c = e /\ n = o /\ i = p /\ r = q)
      PROVE  OnWireOnce'
  <2>1. \A c \in Conns, n \in Nodes, i \in Nat : ~RequestAt(c, n, i, q)
    BY <1>2 DEF RequestAt, NumbersInv, Numbered
  <2> QED BY <1>2, <2>1 DEF OnWireOnce
<1> QED BY <1>1, <1>2, RequestOrigin

\* A request that is read has been the last of its kind.
LEMMA ServedOnceStep ==
  ASSUME AnswersInv, [Next]_vars, ~\E k \in Nodes : Restart(k)
  PROVE  ServedOnce'
<1>0. TypeInv /\ CallsOK /\ WireOK /\ NumbersInv /\ OnWireOnce /\ ServedOnce
  BY DEF AnswersInv, TypeInv
<1> DEFINE OnlyHere == \A c \in Conns, n \in Nodes, r \in Requests, i \in Nat :
                         RequestAt(c, n, i, r)' => handled[r] = 0 /\ \A t \in tasks : t.of # r
\* A request on its way has not been read yet.
<1>1. OnlyHere
  <2>1. ASSUME NEW q \in Requests, ~Asked(q) PROVE handled[q] = 0 /\ \A t \in tasks : t.of # q
    BY <1>0, <2>1 DEF ServedOnce, NumbersInv, Numbered
  <2>2. CASE \A c \in Conns, n \in Nodes : \E k \in Nat : \A i \in Nat, r \in Requests :
               RequestAt(c, n, i, r)' => RequestAt(c, n, i + k, r)
    <3> SUFFICES ASSUME NEW c \in Conns, NEW n \in Nodes, NEW r \in Requests, NEW i \in Nat,
                        RequestAt(c, n, i, r)'
                 PROVE  handled[r] = 0 /\ \A t \in tasks : t.of # r
      OBVIOUS
    <3>1. PICK k \in Nat : RequestAt(c, n, i + k, r)
      BY <2>2
    <3>2. i + k \in Nat
      OBVIOUS
    <3> QED BY <1>0, <3>1, <3>2 DEF ServedOnce
  <2>3. CASE \E d \in Conns, o \in Nodes, q \in Requests, p \in Nat :
              /\ ~Asked(q) /\ UNCHANGED <<handled, tasks>>
              /\ \A c \in Conns, n \in Nodes, i \in Nat, r \in Requests :
                   RequestAt(c, n, i, r)' =>
                     RequestAt(c, n, i, r) \/ (c = d /\ n = o /\ i = p /\ r = q)
    BY <1>0, <2>1, <2>3 DEF ServedOnce
  <2> QED BY <1>0, <2>2, <2>3, RequestOrigin
<1>2. \A r \in Requests : Asked(r) => Asked(r)'
  BY <1>0, AskedStays
<1>3. CASE \E t \in tasks : Serve(t)
  <2>1. PICK t \in tasks : Serve(t)
    BY <1>3
  <2>2. PICK q \in Requests : q = t.of
    BY <1>0 DEF CallsOK
  <2>3. /\ tasks' = tasks \ {t} /\ handled' = [handled EXCEPT ![q] = handled[q] + 1]
        /\ handled[q] = 0 /\ Asked(q)
        /\ \A u \in tasks : u # t => u.of # q
    BY <1>0, <2>1, <2>2 DEF Serve, ServedOnce, NumbersInv, Numbered
  <2>4. /\ handled'[q] = 1 /\ \A r \in Requests : r # q => handled'[r] = handled[r]
    BY <1>0, <2>3 DEF CallsOK
  <2>5. \A u \in tasks' : u \in tasks /\ u.of # q /\ u.of \in Requests
    BY <1>0, <2>3 DEF CallsOK
  <2>6. \A r \in Requests : (handled[r] = 0 /\ \A u \in tasks : u.of # r) =>
                              handled'[r] = 0 /\ \A u \in tasks' : u.of # r
    BY <2>1, <2>2, <2>3, <2>4
  <2>7. \A u \in tasks' : handled'[u.of] = 0 /\ \A v \in tasks' : v.of = u.of => v = u
    BY <1>0, <2>4, <2>5 DEF ServedOnce
  <2>8. \A r \in Requests : handled'[r] \in {0, 1} /\ (handled'[r] = 1 => Asked(r)')
    BY <1>0, <1>2, <2>3, <2>4 DEF ServedOnce
  <2> HIDE DEF OnlyHere
  <2>9. \A c \in Conns, n \in Nodes, r \in Requests, i \in Nat :
          RequestAt(c, n, i, r)' => handled'[r] = 0 /\ \A u \in tasks' : u.of # r
    BY <1>1, <2>6 DEF OnlyHere
  <2> QED BY <2>7, <2>8, <2>9 DEF ServedOnce
<1>4. CASE \E c \in Conns, n \in Nodes : At(c, n) /\ ReadFrame(c, n) /\ ReadRequest(c, n)
  <2>1. PICK c \in Conns, n \in Nodes : ReadFrame(c, n) /\ ReadRequest(c, n)
    BY <1>4
  <2> DEFINE f == Head(wire[c][n])
             new == [node |-> n, peer |-> Other(c, n), id |-> f.id, of |-> f.of]
  <2>2. /\ wire[c][n] \in Seq(Frames) /\ wire[c][n] # <<>> /\ f.kind = "Request"
        /\ wire' = [wire EXCEPT ![c][n] = Tail(wire[c][n])]
        /\ tasks' = tasks \cup {new} /\ handled' = handled
    BY <1>0, <2>1 DEF WireOK, ReadFrame, ReadRequest
  <2>3. /\ f \in Frames /\ f = wire[c][n][1] /\ Len(wire[c][n]) \in Nat /\ Len(wire[c][n]) # 0
        /\ Len(Tail(wire[c][n])) = Len(wire[c][n]) - 1
        /\ \A i \in 1 .. Len(wire[c][n]) - 1 : Tail(wire[c][n])[i] = wire[c][n][i + 1]
    BY <2>2, HeadTailProperties, LenProperties, EmptySeq
  <2>4. f.of \in Requests
    BY <2>2, <2>3 DEF Frames
  <2>5. new.of = f.of
    OBVIOUS
  <2> HIDE DEF f, new
  <2>6. PICK q \in Requests : q = f.of
    BY <2>4
  <2>7. RequestAt(c, n, 1, q)
    BY <2>2, <2>3, <2>6 DEF RequestAt
  <2>8. handled[q] = 0 /\ \A t \in tasks : t.of # q
    BY <1>0, <2>7 DEF ServedOnce
  <2>9. ASSUME NEW d \in Conns, NEW m \in Nodes, NEW i \in Nat, RequestAt(d, m, i, q)'
        PROVE  FALSE
    <3>1. i \in 1 .. Len(wire'[d][m]) /\ wire'[d][m][i].kind = "Request" /\ wire'[d][m][i].of = q
      BY <2>9 DEF RequestAt
    <3>2. CASE d = c /\ m = n
      <4>1. wire'[d][m] = Tail(wire[c][n])
        BY <1>0, <2>2, <3>2 DEF WireOK
      <4>2. i + 1 \in 1 .. Len(wire[c][n]) /\ wire'[d][m][i] = wire[c][n][i + 1] /\ i # 0
        BY <2>3, <3>1, <4>1
      <4>3. RequestAt(c, n, i + 1, q)
        BY <3>1, <4>2 DEF RequestAt
      <4>4. i + 1 = 1
        BY <1>0, <2>7, <4>2, <4>3 DEF OnWireOnce
      <4> QED BY <4>2, <4>4
    <3>3. CASE ~(d = c /\ m = n)
      <4>1. wire'[d][m] = wire[d][m]
        BY <1>0, <2>2, <3>3 DEF WireOK
      <4>2. RequestAt(d, m, i, q)
        BY <3>1, <4>1 DEF RequestAt
      <4> QED BY <1>0, <2>7, <3>3, <4>2 DEF OnWireOnce
    <3> QED BY <3>2, <3>3
  <2> HIDE DEF OnlyHere
  <2>10. \A d \in Conns, m \in Nodes, r \in Requests, i \in Nat :
           RequestAt(d, m, i, r)' => handled'[r] = 0 /\ \A t \in tasks' : t.of # r
    BY <1>1, <2>2, <2>5, <2>6, <2>9 DEF OnlyHere
  <2>11. \A t \in tasks' : handled'[t.of] = 0 /\ \A u \in tasks' : u.of = t.of => u = t
    BY <1>0, <2>2, <2>5, <2>6, <2>8 DEF ServedOnce
  <2> QED BY <1>0, <1>2, <2>2, <2>10, <2>11 DEF ServedOnce
<1>5. CASE UNCHANGED <<tasks, handled>>
  <2>1. \A t \in tasks' : handled'[t.of] = 0 /\ \A u \in tasks' : u.of = t.of => u = t
    BY <1>0, <1>5 DEF ServedOnce
  <2>2. \A r \in Requests : handled'[r] \in {0, 1} /\ (handled'[r] = 1 => Asked(r)')
    BY <1>0, <1>2, <1>5 DEF ServedOnce
  <2>3. \A c \in Conns, n \in Nodes, r \in Requests, i \in Nat :
          RequestAt(c, n, i, r)' => handled'[r] = 0 /\ \A t \in tasks' : t.of # r
    BY <1>1, <1>5
  <2> QED BY <2>1, <2>2, <2>3 DEF ServedOnce
<1>6. ASSUME NEW r \in Requests, NEW n \in Nodes, NEW m \in Nodes,
             NEW big \in {"no", "request", "reply"}, Ask(r, n, m, big)
      PROVE  UNCHANGED <<tasks, handled>>
  BY <1>6 DEF Ask
<1>7. CASE \E c \in Conns, n \in Nodes : At(c, n) /\ ReadFrame(c, n) /\ ReadReply(c, n)
  BY <1>5, <1>7 DEF ReadReply
<1> HIDE DEF OnlyHere
<1> QED BY <1>3, <1>4, <1>5, <1>6, <1>7, CallMoves DEF calls

LEMMA NumbersStep ==
  ASSUME AnswersInv, [Next]_vars, ~\E k \in Nodes : Restart(k)
  PROVE  NumbersInv'
<1>0. TypeInv /\ ConnOK /\ CallsOK /\ WireOK /\ NumbersInv /\ ServedOnce
  BY DEF AnswersInv, TypeInv
<1>1. WireOK' /\ ConnOK'
  BY <1>0, WireStep, ConnStep
<1>2. \A n \in Nodes, i, r \in Requests : Numbered(n, i, r) => Numbered(n, i, r)'
  BY <1>0, NumberedStays
\* A request that has been run is run no more.
<1>3. ASSUME NEW r \in Requests, handled[r] = 1 PROVE handled'[r] = 1
  <2>1. CASE \E t \in tasks : Serve(t)
    <3>1. PICK t \in tasks : handled' = [handled EXCEPT ![t.of] = @ + 1]
      BY <2>1 DEF Serve
    <3>2. t.of # r
      BY <1>0, <1>3 DEF ServedOnce
    <3> QED BY <1>0, <1>3, <3>1, <3>2 DEF CallsOK
  <2>2. ASSUME NEW q \in Requests, NEW n \in Nodes, NEW m \in Nodes,
               NEW big \in {"no", "request", "reply"}, Ask(q, n, m, big)
        PROVE  handled' = handled
    BY <2>2 DEF Ask
  <2>3. CASE \E c \in Conns, n \in Nodes : ReadReply(c, n) \/ ReadRequest(c, n)
    BY <1>3, <2>3 DEF ReadReply, ReadRequest
  <2> QED BY <1>3, <2>1, <2>2, <2>3, CallMoves DEF calls
<1>4. ASSUME NEW f \in Frames
      PROVE  f.kind # "Register" => f.id \in Requests /\ f.of \in Requests
  BY <1>4 DEF Frames
<1>5. ASSUME NEW c \in Conns, NEW n \in Nodes, NEW i \in 1 .. Len(wire'[c][n]),
             NEW f \in Frames, f = wire'[c][n][i]
      PROVE  \E o \in Nodes :
               /\ o = Other(c, n)'
               /\ f.kind = "Request" => Numbered(o, f.id, f.of)'
               /\ f.kind = "Reply" => Numbered(n, f.id, f.of)' /\ handled'[f.of] = 1
  <2>1. PICK o \in Nodes : o = Other(c, n) /\ o = Other(c, n)'
    <3>1. At(c, n)'
      BY <1>1 DEF WireOK
    <3>2. At(c, n)
      <4>1. CASE \E j \in 1 .. Len(wire[c][n]) : wire'[c][n][i] = wire[c][n][j]
        BY <1>0, <4>1 DEF WireOK
      <4>2. CASE \E m \in Nodes : At(c, m) /\ n = Other(c, m)
        BY <1>0, <4>2, OtherEnd
      <4> QED BY <1>0, <4>1, <4>2, FrameOrigin
    <3> QED BY <1>0, <3>2, OtherEnd, AtStays
  <2> SUFFICES /\ f.kind = "Request" => Numbered(o, f.id, f.of)'
               /\ f.kind = "Reply" => Numbered(n, f.id, f.of)' /\ handled'[f.of] = 1
    BY <2>1
  <2>2. CASE \E j \in 1 .. Len(wire[c][n]) : f = wire[c][n][j]
    <3>1. /\ f.kind = "Request" => Numbered(o, f.id, f.of)
          /\ f.kind = "Reply" => Numbered(n, f.id, f.of) /\ handled[f.of] = 1
      <4> PICK j \in 1 .. Len(wire[c][n]) : f = wire[c][n][j]
        BY <2>2
      <4>1. /\ f.kind = "Request" => Numbered(Other(c, n), f.id, f.of)
            /\ f.kind = "Reply" => Numbered(n, f.id, f.of) /\ handled[f.of] = 1
        BY <1>0 DEF NumbersInv
      <4> QED BY <2>1, <4>1
    <3> QED BY <1>2, <1>3, <1>4, <3>1
  <2>3. CASE f.kind = "Register"
    BY <2>3
  <2>4. ASSUME NEW m \in Nodes, At(c, m), n = Other(c, m), NewRequest(c, m, f)
        PROVE  f.kind = "Request" /\ Numbered(o, f.id, f.of)'
    <3>1. o = m
      BY <1>0, <2>1, <2>4, OtherEnd
    <3>2. PICK r \in Requests, k \in Nodes, big \in {"no", "request", "reply"} :
            /\ Ask(r, m, k, big) /\ request'[r].at = "waiting"
            /\ f.kind = "Request" /\ f.id = nextReq[m] /\ f.of = r
      BY <2>4 DEF NewRequest
    <3>3. PICK id \in Requests : id = nextReq[m]
      BY <1>0, <3>2, AskNumber
    <3>4. /\ nextReq' = [nextReq EXCEPT ![m] = id + 1]
          /\ \E slot \in {r, NoRequest} : pending' = [pending EXCEPT ![m][id] = slot]
          /\ \E new : request' = [request EXCEPT ![r] = new] /\ new.from = m
      BY <3>2, <3>3 DEF Ask, TakeNumber
    <3>5. nextReq'[m] = id + 1 /\ pending'[m][id] \in {NoRequest, r} /\ request'[r].from = m
      BY <1>0, <3>4 DEF CallsOK
    <3>6. id < nextReq'[m] /\ Asked(r)'
      BY <3>2, <3>5 DEF Asked, Requests
    <3> QED BY <3>1, <3>2, <3>3, <3>5, <3>6 DEF Numbered
  <2>5. ASSUME NEW m \in Nodes, At(c, m), n = Other(c, m), NewReply(c, m, f)
        PROVE  f.kind = "Reply" /\ Numbered(n, f.id, f.of)' /\ handled'[f.of] = 1
    <3>1. PICK t \in tasks : /\ Serve(t) /\ n = t.peer
                             /\ f.kind = "Reply" /\ f.id = t.id /\ f.of = t.of
      BY <2>5 DEF NewReply
    <3>2. /\ t.id \in Requests /\ t.of \in Requests /\ Numbered(n, t.id, t.of)
          /\ handled[t.of] = 0
      BY <1>0, <3>1 DEF NumbersInv, ServedOnce, CallsOK
    <3>3. handled'[t.of] = 1
      BY <1>0, <3>1, <3>2 DEF Serve, CallsOK
    <3> QED BY <1>2, <3>1, <3>2, <3>3
  <2> QED BY <1>0, <1>5, <2>2, <2>3, <2>4, <2>5, FrameOrigin
<1>6. ASSUME NEW t \in tasks' PROVE Numbered(t.peer, t.id, t.of)'
  <2>1. CASE t \in tasks
    <3>1. t.peer \in Nodes /\ t.id \in Requests /\ t.of \in Requests
      BY <1>0, <2>1 DEF CallsOK
    <3> QED BY <1>0, <1>2, <2>1, <3>1 DEF NumbersInv
  <2>2. CASE \E c \in Conns, n \in Nodes : At(c, n) /\ ReadFrame(c, n) /\ ReadRequest(c, n)
    <3>1. CASE t \in tasks
      BY <2>1, <3>1
    <3>2. CASE t \notin tasks
      <4>1. PICK c \in Conns, n \in Nodes : At(c, n) /\ ReadFrame(c, n) /\ ReadRequest(c, n)
        BY <2>2
      <4> DEFINE f == Head(wire[c][n])
      <4>2. /\ t = [node |-> n, peer |-> Other(c, n), id |-> f.id, of |-> f.of]
            /\ f.kind = "Request" /\ wire[c][n] \in Seq(Frames) /\ wire[c][n] # <<>>
        BY <1>0, <1>6, <3>2, <4>1 DEF ReadFrame, ReadRequest, WireOK
      <4>3. /\ f \in Frames /\ f = wire[c][n][1] /\ Len(wire[c][n]) \in Nat /\ Len(wire[c][n]) # 0
        BY <4>2, HeadTailProperties, LenProperties, EmptySeq
      <4>4. t.peer = Other(c, n) /\ t.id = f.id /\ t.of = f.of
        BY <4>2
      <4> HIDE DEF f
      <4>5. Numbered(Other(c, n), f.id, f.of) /\ Other(c, n) \in Nodes
        BY <1>0, <4>1, <4>2, <4>3, OtherEnd DEF NumbersInv
      <4> QED BY <1>2, <1>4, <4>2, <4>3, <4>4, <4>5
    <3> QED BY <3>1, <3>2
  <2>3. CASE tasks' \subseteq tasks
    BY <1>6, <2>1, <2>3
  <2>4. ASSUME NEW q \in Requests, NEW n \in Nodes, NEW m \in Nodes,
               NEW big \in {"no", "request", "reply"}, Ask(q, n, m, big)
        PROVE  tasks' = tasks
    BY <2>4 DEF Ask
  <2>5. CASE \E c \in Conns, n \in Nodes : ReadReply(c, n)
    BY <2>3, <2>5 DEF ReadReply
  <2>6. CASE \E u \in tasks : Serve(u)
    BY <2>3, <2>6 DEF Serve
  <2> QED BY <2>2, <2>3, <2>4, <2>5, <2>6, CallMoves DEF calls
<1>7. ASSUME NEW c \in Conns, NEW n \in Nodes, NEW i \in 1 .. Len(wire'[c][n])
      PROVE  /\ wire'[c][n][i].kind = "Request" =>
                  (Numbered(Other(c, n), wire[c][n][i].id, wire[c][n][i].of))'
             /\ wire'[c][n][i].kind = "Reply" =>
                  /\ (Numbered(n, wire[c][n][i].id, wire[c][n][i].of))'
                  /\ handled'[wire'[c][n][i].of] = 1
  <2>1. PICK f \in Frames : f = wire'[c][n][i]
    BY <1>1, <1>7, ElementOfSeq DEF WireOK
  <2>2. PICK o \in Nodes :
          /\ o = Other(c, n)'
          /\ f.kind = "Request" => Numbered(o, f.id, f.of)'
          /\ f.kind = "Reply" => Numbered(n, f.id, f.of)' /\ handled'[f.of] = 1
    BY <1>5, <1>7, <2>1
  <2> QED BY <2>1, <2>2 DEF Numbered, Asked
<1> QED BY <1>6, <1>7 DEF NumbersInv

LEMMA AnswersOwnStep ==
  ASSUME AnswersInv, [Next]_vars, ~\E k \in Nodes : Restart(k)
  PROVE  AnswersOwn'
<1>0. TypeInv /\ CallsOK /\ NumbersInv /\ ServedOnce /\ AnswersOwn
  BY DEF AnswersInv, TypeInv
<1>1. CASE \E c \in Conns, n \in Nodes : At(c, n) /\ ReadFrame(c, n) /\ ReadReply(c, n)
  <2>1. PICK c \in Conns, n \in Nodes : ReadFrame(c, n) /\ ReadReply(c, n)
    BY <1>1
  <2>2. PICK id \in Requests, of \in Requests :
           /\ 1 \in 1 .. Len(wire[c][n]) /\ wire[c][n][1].kind = "Reply"
           /\ wire[c][n][1].id = id /\ wire[c][n][1].of = of
           /\ IF pending[n][id] = NoRequest THEN UNCHANGED <<request, pending>>
              ELSE /\ pending[n][id] \in Requests
                   /\ request' = [request EXCEPT ![pending[n][id]] =
                        [request[pending[n][id]] EXCEPT !.at = "ok", !.answer = of]]
                   /\ pending' = [pending EXCEPT ![n][id] = NoRequest]
           /\ UNCHANGED <<nextReq, tasks, handled>>
    BY <1>0, <2>1, ReplyEnds
  <2>3. pending[n][id] \in {NoRequest, of} /\ handled[of] = 1
    BY <1>0, <2>2 DEF NumbersInv, Numbered
  <2>4. CASE pending[n][id] = NoRequest
    BY <1>0, <2>2, <2>4 DEF AnswersOwn
  <2>5. CASE pending[n][id] # NoRequest
    <3>1. request' = [request EXCEPT ![of] = [request[of] EXCEPT !.at = "ok", !.answer = of]]
      BY <2>2, <2>3, <2>5
    <3>2. /\ request'[of] = [request[of] EXCEPT !.at = "ok", !.answer = of]
          /\ \A r \in Requests : r # of => request'[r] = request[r]
      BY <1>0, <3>1 DEF CallsOK
    <3>3. request'[of].answer = of
      BY <1>0, <3>2 DEF CallsOK, RequestType
    <3>4. ASSUME NEW r \in Requests, request'[r].at = "ok"
          PROVE  request'[r].answer = r /\ handled'[r] = 1
      <4>1. handled' = handled
        BY <2>2
      <4>2. CASE r = of
        BY <2>3, <3>3, <4>1, <4>2
      <4>3. CASE r # of
        BY <1>0, <3>2, <3>4, <4>1, <4>3 DEF AnswersOwn
      <4> QED BY <4>2, <4>3
    <3> QED BY <3>4 DEF AnswersOwn
  <2> QED BY <2>4, <2>5
<1>2. CASE \E t \in tasks : Serve(t)
  <2>1. PICK t \in tasks : handled' = [handled EXCEPT ![t.of] = @ + 1] /\ request' = request
    BY <1>2 DEF Serve
  <2>2. handled[t.of] = 0 /\ t.of \in Requests
    BY <1>0 DEF ServedOnce, CallsOK
  <2> QED BY <1>0, <2>1, <2>2 DEF AnswersOwn, CallsOK
<1>3. CASE \E q \in Requests, n, m \in Nodes, big \in {"no", "request", "reply"} : Ask(q, n, m, big)
  <2>1. PICK q \in Requests, n \in Nodes, m \in Nodes, big \in {"no", "request", "reply"} :
          Ask(q, n, m, big)
    BY <1>3
  <2>2. /\ handled' = handled
        /\ \E new : request' = [request EXCEPT ![q] = new] /\ new.at \in {"waiting", "error"}
    BY <2>1 DEF Ask
  <2> QED BY <1>0, <2>2 DEF AnswersOwn, CallsOK
<1>4. CASE UNCHANGED <<request, handled>>
  BY <1>0, <1>4 DEF AnswersOwn
<1> QED BY <1>1, <1>2, <1>3, <1>4, CallMoves DEF ReadRequest, calls

LEMMA AnswersStep == AnswersInv /\ [Next]_vars => AnswersInv'
<1> SUFFICES ASSUME AnswersInv, [Next]_vars PROVE AnswersInv'
  OBVIOUS
<1>1. TypeInv /\ NoRestarts /\ OnWireOnce /\ ServedOnce /\ NumbersInv
  BY DEF AnswersInv
<1>2. TypeInv' /\ NoRestarts'
  BY <1>1, TypeStep, NoRestartsStep
<1>3. CASE \E k \in Nodes : Restart(k)
  BY <1>2, <1>3, RestartAnswers DEF AnswersInv
<1>4. CASE ~\E k \in Nodes : Restart(k)
  BY <1>1, <1>2, <1>4, NumbersStep, OnWireOnceStep, ServedOnceStep, AnswersOwnStep DEF AnswersInv
<1> QED BY <1>3, <1>4

-----------------------------------------------------------------------------
(* Theorems.                                                               *)

LEMMA TypeAlways == Spec => []TypeInv
BY TypeInit, TypeStep, PTL DEF Spec

\* The parts of every state fit together: a listed connection is one between
\* the two nodes that its node has served, and a waiter is one of that node's
\* own requests (lib.rs: Inner, serve_peer, request).
THEOREM TypeCorrect == Spec => []TypeOK
BY TypeAlways, TypesHold, PTL

\* A control loop watches every connection a node has listed, and one with the
\* owner watches, or is about to prune, every foreign name a node knows
\* (lib.rs:610-616), however often nodes dial each other, lose their
\* connections or begin again empty.
THEOREM RoutesStayWatched == Spec => []RoutesAreWatched
BY TypeAlways, RoutesHold, PTL

\* Numbers begin anew when a node is restarted, so that an answer to the one
\* that was could be taken for an answer to the one that is (lib.rs:406-416).
NoneRestarts == \A b \in Budgets : b["restart"] = 0 \/ b["request"] = 0

LEMMA AnswersInit == NoneRestarts /\ Init => AnswersInv
<1> SUFFICES ASSUME NoneRestarts, Init PROVE AnswersInv
  OBVIOUS
<1>1. TypeInv
  BY TypeInit
<1>2. \A r \in Requests : ~Asked(r) /\ handled[r] = 0 /\ request[r].at # "ok"
  BY DEF Init, Asked, NoRequestYet
<1>3. NoRestarts
  BY <1>2 DEF Init, NoneRestarts, NoRestarts
<1>4. tasks = {} /\ \A c \in Conns, n \in Nodes : Len(wire[c][n]) = 0
  BY EmptySeq DEF Init
<1>5. NumbersInv
  BY <1>4 DEF NumbersInv
<1>6. OnWireOnce /\ ServedOnce
  BY <1>2, <1>4 DEF OnWireOnce, ServedOnce, RequestAt
<1>7. AnswersOwn
  BY <1>2 DEF AnswersOwn
<1> QED BY <1>1, <1>3, <1>5, <1>6, <1>7 DEF AnswersInv

LEMMA AnswersHold == AnswersInv => AnswersMatch
<1> SUFFICES ASSUME AnswersInv PROVE AnswersMatch
  OBVIOUS
<1>1. TypeOK
  BY TypesHold DEF AnswersInv
<1>2. \A r \in Requests : handled[r] <= 1
  BY DEF AnswersInv, ServedOnce
<1> QED BY <1>1, <1>2 DEF AnswersInv, AnswersOwn, AnswersMatch

\* Between nodes that are not restarted no request is run twice, and an answer
\* is the one of its own request, run by then, whatever becomes of the
\* connections on the way (lib.rs:437-455, 590-606).
THEOREM AnswersAreOwn == NoneRestarts => (Spec => []AnswersMatch)
BY AnswersInit, AnswersStep, AnswersHold, PTL DEF Spec

=============================================================================
