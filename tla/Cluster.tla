------------------------------- MODULE Cluster -------------------------------
(***************************************************************************)
(* The control plane of a RUSM cluster (rusm-cluster/src/lib.rs): nodes    *)
(* that dial each other, the control stream of each connection with its    *)
(* reader, the gossip of global names, and remote requests.                *)
(*                                                                         *)
(* A node keeps its peers by NAME: one entry per peer, whatever number of  *)
(* connections there are.  Connections are lost, nodes dial again while an *)
(* old connection is still being given up, and a node may restart empty.   *)
(* QUIC is external: a stream is reliable and ordered until the connection *)
(* is lost, which leaves any prefix of what was under way; a send half     *)
(* that nobody holds is finished, and the other side reads its end.        *)
(***************************************************************************)
EXTENDS Integers, Sequences, FiniteSets

CONSTANTS
  Nodes, Names,
  MaxConns, MaxRegs, MaxRequests,   \* bounds: connections, registrations, requests
  Budgets        \* what may happen in a behaviour: bounds per kind of event

ASSUME BoundsAssumption ==
  /\ {MaxConns, MaxRegs, MaxRequests} \subseteq Nat
  /\ Budgets \subseteq
       [{"dial", "register", "exit", "request", "oversize", "lose", "restart"} -> Nat]
  /\ \A b \in Budgets : /\ b["dial"] <= MaxConns /\ b["register"] <= MaxRegs
                        /\ b["request"] <= MaxRequests
ASSUME NodesAssumption == "none" \notin Nodes   \* so that NoNode is nobody
ASSUME NamesAssumption == IsFiniteSet(Names)

Conns == 1 .. MaxConns
Requests == 1 .. MaxRequests
NoConn == 0
NoNode == "none"
NoRequest == 0

VARIABLES
  conn,       \* conn[c]: who dialled whom, and whether it is up
  reader,     \* reader[c][n]: the handshake of n on c, then its control loop
  boot,       \* boot[c][n]: bootstrap_globals of n on c, and its snapshot
  wire,       \* wire[c][n]: the control frames on their way to n
  peers,      \* peers[n][m]: the connection n has listed for m
  globals,    \* globals[n][x]: the owner of x as n knows it
  local,      \* local[n]: the names registered in n's own runtime
  casts,      \* the broadcast tasks, one per registration
  pending,    \* pending[n][i]: the request that waits for the reply i
  nextReq,    \* Inner.next_req
  request,    \* what became of each request
  tasks,      \* the tasks that serve a request
  left,       \* bounds
  owners,     \* history: every node that ever registered x
  handled     \* history: how often each request was run

links == <<conn, reader, boot, wire>>
names == <<globals, local, casts, owners>>
calls == <<pending, nextReq, request, tasks, handled>>
vars == <<links, peers, names, calls, left>>

Ends(c) == {conn[c].dialer, conn[c].acceptor}
Other(c, n) == CHOOSE m \in Ends(c) : m # n
Used(c) == conn[c].dialer # NoNode
Up(c) == conn[c].up
Spend(what) == left[what] > 0 /\ left' = [left EXCEPT ![what] = @ - 1]

RegisterFrame(x, n) == [kind |-> "Register", name |-> x, node |-> n, over |-> FALSE]
RequestFrame(i, r) ==
  [kind |-> "Request", id |-> i, of |-> r, over |-> request'[r].big = "request"]
ReplyFrame(i, r) ==
  [kind |-> "Reply", id |-> i, of |-> r, over |-> request[r].big = "reply"]

NoBoot == [at |-> "done", names |-> {}]
NoRequestYet == [at |-> "none", from |-> NoNode, to |-> NoNode, via |-> NoConn,
                 big |-> "no", answer |-> NoRequest]

Init ==
  /\ conn = [c \in Conns |-> [dialer |-> NoNode, acceptor |-> NoNode, up |-> FALSE]]
  /\ reader = [c \in Conns |-> [n \in Nodes |-> "none"]]
  /\ boot = [c \in Conns |-> [n \in Nodes |-> NoBoot]]
  /\ wire = [c \in Conns |-> [n \in Nodes |-> <<>>]]
  /\ peers = [n \in Nodes |-> [m \in Nodes |-> NoConn]]
  /\ globals = [n \in Nodes |-> [x \in Names |-> NoNode]]
  /\ local = [n \in Nodes |-> {}]
  /\ casts = {}
  /\ pending = [n \in Nodes |-> [i \in Requests |-> NoRequest]]
  /\ nextReq = [n \in Nodes |-> 1]
  /\ request = [r \in Requests |-> NoRequestYet]
  /\ tasks = {}
  /\ left \in Budgets
  /\ owners = [x \in Names |-> {}]
  /\ handled = [r \in Requests |-> 0]

-----------------------------------------------------------------------------
(* Control streams.                                                        *)

\* n writes frames to its control stream on c.  What is written to a lost
\* connection, or to a stream the other side has dropped, goes nowhere.
Written(c, n, frames) ==
  LET m == Other(c, n)
  IN IF Up(c) /\ reader[c][m] \in {"none", "greeted", "running"}
       THEN [wire EXCEPT ![c][m] = @ \o frames] ELSE wire
\* Such a write may report an error.
WriteMayFail(c, n) == ~Up(c) \/ reader[c][Other(c, n)] \in {"pruning", "ended"}

\* The send half of n on c is held by the peer entry and by the tasks that are
\* about to write; when the last of them lets go, the stream is finished.
Finished(c, n) ==
  /\ reader[c][n] \notin {"none", "greeted"}
  /\ peers[n][Other(c, n)] # c
  /\ boot[c][n].at = "done"
  /\ \A t \in casts : t.node = n => c \notin t.targets

-----------------------------------------------------------------------------
(* Connections.                                                            *)

Dial(n, m) ==
  /\ n # m
  /\ Spend("dial")
  /\ LET c == CHOOSE i \in Conns : ~Used(i) /\ \A j \in Conns : j < i => Used(j)
     IN conn' = [conn EXCEPT ![c] = [dialer |-> n, acceptor |-> m, up |-> TRUE]]
  /\ UNCHANGED <<reader, boot, wire, peers, names, calls>>

\* serve_peer: the entry (replacing another of that name), then the control
\* loop and bootstrap_globals as tasks of their own.
\* Mutant: the tasks first, the entry when they have run.
ServePeerLate(c, n) ==
  /\ reader' = [reader EXCEPT ![c][n] = "running"]
  /\ boot' = [boot EXCEPT ![c][n] =
       [at |-> "write", names |-> {x \in Names : globals[n][x] = n}]]
  /\ UNCHANGED peers
ServePeer(c, n) ==
  /\ peers' = [peers EXCEPT ![n][Other(c, n)] = c]
  /\ reader' = [reader EXCEPT ![c][n] = "running"]
  /\ boot' = [boot EXCEPT ![c][n] = [at |-> "snapshot", names |-> {}]]

\* The acceptor reads the dialer's name and announces its own ...
Greet(c) ==
  /\ Used(c) /\ Up(c) /\ reader[c][conn[c].acceptor] = "none"
  /\ reader' = [reader EXCEPT ![c][conn[c].acceptor] = "greeted"]
  /\ UNCHANGED <<conn, boot, wire, peers, names, calls, left>>
\* ... and serves the dialer ...
Accept(c) ==
  /\ Used(c) /\ reader[c][conn[c].acceptor] = "greeted"
  /\ ServePeer(c, conn[c].acceptor)
  /\ UNCHANGED <<conn, wire, names, calls, left>>
\* ... while the dialer reads the acceptor's name and serves it, before or after
\* that.  Of a connection that is lost by now it reads the name or an error.
Connected(c) ==
  /\ Used(c) /\ reader[c][conn[c].dialer] = "none" /\ reader[c][conn[c].acceptor] # "none"
  /\ \/ ServePeer(c, conn[c].dialer)
     \/ /\ ~Up(c)
        /\ reader' = [reader EXCEPT ![c][conn[c].dialer] = "ended"]
        /\ UNCHANGED <<boot, peers>>
  /\ UNCHANGED <<conn, wire, names, calls, left>>

\* The connection is lost (or shutdown() closes it): each end still reads some
\* prefix of what was sent to it.
Lose(c) ==
  /\ Used(c) /\ Up(c)
  /\ Spend("lose")
  /\ conn' = [conn EXCEPT ![c].up = FALSE]
  /\ \E d, a \in 0 .. Len(wire[c][conn[c].dialer]) + Len(wire[c][conn[c].acceptor]) :
       LET cut == [n \in Nodes |-> IF n = conn[c].dialer THEN d ELSE a]
       IN /\ \A n \in Ends(c) : cut[n] <= Len(wire[c][n])
          /\ wire' = [wire EXCEPT ![c] =
               [n \in Nodes |-> IF n \in Ends(c) THEN SubSeq(@[n], 1, cut[n]) ELSE <<>>]]
  /\ UNCHANGED <<reader, boot, peers, names, calls>>

\* A node is killed and bound again: empty, its connections lost, while its
\* peers have not noticed.
Restart(n) ==
  /\ Spend("restart")
  /\ LET mine == {c \in Conns : Used(c) /\ n \in Ends(c)}
     IN /\ conn' = [c \in Conns |-> IF c \in mine THEN [conn[c] EXCEPT !.up = FALSE]
                                                  ELSE conn[c]]
        /\ reader' = [c \in Conns |-> IF c \in mine
                        THEN [reader[c] EXCEPT ![n] =
                                IF @ = "none" /\ n = conn[c].acceptor THEN @ ELSE "ended"]
                        ELSE reader[c]]
        /\ boot' = [c \in Conns |-> IF c \in mine
                      THEN [boot[c] EXCEPT ![n] = NoBoot] ELSE boot[c]]
        /\ \E keep \in BOOLEAN :   \* what was sent arrived, or is lost
             wire' = [c \in Conns |-> IF c \in mine
                        THEN [m \in Nodes |-> IF keep /\ m # n THEN wire[c][m] ELSE <<>>]
                        ELSE wire[c]]
  /\ peers' = [peers EXCEPT ![n] = [m \in Nodes |-> NoConn]]
  /\ globals' = [globals EXCEPT ![n] = [x \in Names |-> NoNode]]
  /\ local' = [local EXCEPT ![n] = {}]
  /\ casts' = {t \in casts : t.node # n}
  /\ pending' = [pending EXCEPT ![n] = [i \in Requests |-> NoRequest]]
  /\ nextReq' = [nextReq EXCEPT ![n] = 1]
  /\ request' = [r \in Requests |->
       IF request[r].from = n /\ request[r].at = "waiting"
         THEN [request[r] EXCEPT !.at = "gone"] ELSE request[r]]
  /\ tasks' = {t \in tasks : t.node # n}
  /\ UNCHANGED <<owners, handled>>

-----------------------------------------------------------------------------
(* Global names.                                                           *)

\* register_global: refused if the name is in the local registry.  The
\* registration and the entry in globals are one step here: nobody reads one
\* of them between the two without reading the other later.
RegisterGlobal(n, x) ==
  /\ x \notin local[n]
  /\ Spend("register")
  /\ local' = [local EXCEPT ![n] = @ \cup {x}]
  /\ globals' = [globals EXCEPT ![n][x] = n]
  /\ casts' = casts \cup
       {[id |-> left["register"], node |-> n, name |-> x, at |-> "spawned", targets |-> {}]}
  /\ owners' = [owners EXCEPT ![x] = @ \cup {n}]
  /\ UNCHANGED <<links, peers, calls>>

\* The process ends: its runtime frees the name; globals is not told.
HolderExits(n, x) ==
  /\ x \in local[n]
  /\ Spend("exit")
  /\ local' = [local EXCEPT ![n] = @ \ {x}]
  /\ UNCHANGED <<links, peers, globals, casts, owners, calls>>

\* broadcast: the control streams of the peers there are now ...
BroadcastSnapshot(t) ==
  /\ t \in casts /\ t.at = "spawned"
  /\ LET now == {peers[t.node][m] : m \in Nodes} \ {NoConn}
     IN casts' = (casts \ {t}) \cup
          (IF now = {} THEN {} ELSE {[t EXCEPT !.at = "write", !.targets = now]})
  /\ UNCHANGED <<links, peers, globals, local, owners, calls, left>>
\* ... and a frame on each.
BroadcastWrite(t, c) ==
  /\ t \in casts /\ t.at = "write" /\ c \in t.targets
  /\ wire' = Written(c, t.node, <<RegisterFrame(t.name, t.node)>>)
  /\ casts' = (casts \ {t}) \cup
       (IF t.targets = {c} THEN {} ELSE {[t EXCEPT !.targets = @ \ {c}]})
  /\ UNCHANGED <<conn, reader, boot, peers, globals, local, owners, calls, left>>

\* bootstrap_globals: the names n owns at this moment ...
BootSnapshot(c, n) ==
  /\ boot[c][n].at = "snapshot"
  /\ LET mine == {x \in Names : globals[n][x] = n}
     IN boot' = [boot EXCEPT ![c][n] =
          IF mine = {} THEN NoBoot ELSE [at |-> "write", names |-> mine]]
  /\ UNCHANGED <<conn, reader, wire, peers, names, calls, left>>
\* ... written under one lock, in the order of a hash map.
BootWrite(c, n) ==
  /\ boot[c][n].at = "write"
  /\ \E order \in [1 .. Cardinality(boot[c][n].names) -> boot[c][n].names] :
       /\ {order[i] : i \in DOMAIN order} = boot[c][n].names
       /\ wire' = Written(c, n, [i \in DOMAIN order |-> RegisterFrame(order[i], n)])
  /\ boot' = [boot EXCEPT ![c][n] = NoBoot]
  /\ UNCHANGED <<conn, reader, peers, names, calls, left>>

-----------------------------------------------------------------------------
(* The control loop.                                                       *)

\* Register: the frame's node, whatever was there.  (Unregister is read by the
\* loop too, but no code writes it.)
ReadRegister(c, n) ==
  LET f == Head(wire[c][n])
  IN /\ f.kind = "Register"
     /\ globals' = [globals EXCEPT ![n][f.name] = f.node]
     /\ UNCHANGED <<local, casts, owners, calls>>
\* Request: served by a task, off the loop.
ReadRequest(c, n) ==
  LET f == Head(wire[c][n])
  IN /\ f.kind = "Request"
     /\ tasks' = tasks \cup {[node |-> n, peer |-> Other(c, n), id |-> f.id, of |-> f.of]}
     /\ UNCHANGED <<names, pending, nextReq, request, handled>>
\* Reply: to whoever waits under that number.
\* Mutant: a reply goes to whoever waits.
ReadReplyAny(c, n) ==
  LET f == Head(wire[c][n])
  IN /\ f.kind = "Reply"
     /\ \E r \in {q \in Requests : request[q].from = n /\ request[q].at = "waiting"} :
          /\ request' = [request EXCEPT ![r].at = "ok", ![r].answer = f.of]
          /\ pending' = [pending EXCEPT ![n] =
               [i \in Requests |-> IF @[i] = r THEN NoRequest ELSE @[i]]]
     /\ UNCHANGED <<names, nextReq, tasks, handled>>
ReadReply(c, n) ==
  LET f == Head(wire[c][n])
      r == pending[n][f.id]
  IN /\ f.kind = "Reply"
     /\ IF r = NoRequest THEN UNCHANGED <<request, pending>>
        ELSE /\ request' = [request EXCEPT ![r].at = "ok", ![r].answer = f.of]
             /\ pending' = [pending EXCEPT ![n][f.id] = NoRequest]
     /\ UNCHANGED <<names, nextReq, tasks, handled>>

ReadFrame(c, n) ==
  /\ reader[c][n] = "running" /\ wire[c][n] # <<>> /\ ~Head(wire[c][n]).over
  /\ wire' = [wire EXCEPT ![c][n] = Tail(@)]
  /\ ReadRegister(c, n) \/ ReadRequest(c, n) \/ ReadReply(c, n)
  /\ UNCHANGED <<conn, reader, boot, peers, left>>

\* The stream is at its end, its connection is lost, or a frame is over the
\* limit: the entry of that NAME goes, whichever connection it is for ...
EndOfStream(c, n) ==
  IF wire[c][n] = <<>> THEN ~Up(c) \/ Finished(c, Other(c, n))
                       ELSE Head(wire[c][n]).over
\* Mutant: the entry stays.
ReaderEndsQuietly(c, n) ==
  /\ reader[c][n] = "running" /\ EndOfStream(c, n)
  /\ reader' = [reader EXCEPT ![c][n] = "pruning"]
  /\ wire' = [wire EXCEPT ![c][n] = <<>>]
  /\ UNCHANGED <<conn, boot, peers, names, calls, left>>
ReaderEnds(c, n) ==
  /\ reader[c][n] = "running" /\ EndOfStream(c, n)
  /\ peers' = [peers EXCEPT ![n][Other(c, n)] = NoConn]
  /\ reader' = [reader EXCEPT ![c][n] = "pruning"]
  /\ wire' = [wire EXCEPT ![c][n] = <<>>]
  /\ UNCHANGED <<conn, boot, names, calls, left>>
\* ... and the names that peer owned.
\* Mutant: they stay if it is the loop that gave up, not the connection.
PruneOfLost(c, n) ==
  /\ reader[c][n] = "pruning"
  /\ reader' = [reader EXCEPT ![c][n] = "ended"]
  /\ globals' = IF Up(c) THEN globals
                ELSE [globals EXCEPT ![n] = [x \in Names |->
                        IF @[x] = Other(c, n) THEN NoNode ELSE @[x]]]
  /\ UNCHANGED <<conn, boot, wire, peers, local, casts, owners, calls, left>>
Prune(c, n) ==
  /\ reader[c][n] = "pruning"
  /\ reader' = [reader EXCEPT ![c][n] = "ended"]
  /\ globals' = [globals EXCEPT ![n] =
       [x \in Names |-> IF @[x] = Other(c, n) THEN NoNode ELSE @[x]]]
  /\ UNCHANGED <<conn, boot, wire, peers, local, casts, owners, calls, left>>

-----------------------------------------------------------------------------
(* Requests.                                                               *)

\* request: a number, a waiter under it, and the frame to the peer listed now.
TakeNumber(n) == nextReq' = [nextReq EXCEPT ![n] = @ + 1]

Ask(r, n, m, big) ==
  /\ request[r].at = "none" /\ \A q \in Requests : q < r => request[q].at # "none"
  /\ n # m
  /\ left["request"] > 0 /\ (big # "no" => left["oversize"] > 0)
  /\ left' = [left EXCEPT !["request"] = @ - 1, !["oversize"] = IF big = "no" THEN @ ELSE @ - 1]
  /\ TakeNumber(n)
  /\ LET c == peers[n][m]
         asked == [at |-> "waiting", from |-> n, to |-> m, via |-> c,
                   big |-> big, answer |-> NoRequest]
     IN \/ /\ c # NoConn
           /\ request' = [request EXCEPT ![r] = asked]
           /\ pending' = [pending EXCEPT ![n][nextReq[n]] = r]
           /\ wire' = Written(c, n, <<RequestFrame(nextReq[n], r)>>)
        \/ \* no such peer, or the write failed: the waiter is taken back
           /\ (c # NoConn => WriteMayFail(c, n))
           /\ request' = [request EXCEPT ![r] = [asked EXCEPT !.at = "error"]]
           /\ pending' = [pending EXCEPT ![n][nextReq[n]] = NoRequest]
           /\ UNCHANGED wire
  /\ UNCHANGED <<conn, reader, boot, peers, names, tasks, handled>>

\* handle_request, and the reply to the peer as it is listed then.
Serve(t) ==
  /\ t \in tasks
  /\ handled' = [handled EXCEPT ![t.of] = @ + 1]
  /\ tasks' = tasks \ {t}
  /\ LET c == peers[t.node][t.peer]
     IN wire' = IF c = NoConn THEN wire
                ELSE Written(c, t.node, <<ReplyFrame(t.id, t.of)>>)
  /\ UNCHANGED <<conn, reader, boot, peers, names, pending, nextReq, request, left>>

-----------------------------------------------------------------------------
Reading(c, n) ==
  Used(c) /\ n \in Ends(c) /\ (ReadFrame(c, n) \/ ReaderEnds(c, n) \/ Prune(c, n))
Booting(c, n) ==
  Used(c) /\ n \in Ends(c) /\ (BootSnapshot(c, n) \/ BootWrite(c, n))
Broadcasting == \E t \in casts : BroadcastSnapshot(t) \/ \E c \in t.targets : BroadcastWrite(t, c)
Serving == \E t \in tasks : Serve(t)

\* What goes on by itself: every task, and QUIC on a connection that is up.
Proceed ==
  \/ \E c \in Conns : Greet(c) \/ Accept(c) \/ Connected(c)
  \/ Broadcasting \/ Serving
  \/ \E c \in Conns, n \in Nodes : Booting(c, n) \/ Reading(c, n)
\* What somebody does, or what befalls the nodes.
Happen ==
  \/ \E n, m \in Nodes : Dial(n, m)
  \/ \E c \in Conns : Lose(c)
  \/ \E n \in Nodes : Restart(n)
  \/ \E n \in Nodes, x \in Names : RegisterGlobal(n, x) \/ HolderExits(n, x)
  \/ \E r \in Requests, n, m \in Nodes, big \in {"no", "request", "reply"} : Ask(r, n, m, big)
Next == Proceed \/ Happen

Spec == Init /\ [][Next]_vars

\* Every task that can go on does.  No step of one can be taken for ever, so
\* that fairness of them together is fairness of each.
FairSpec == Spec /\ WF_vars(Proceed)

-----------------------------------------------------------------------------
(* Properties.                                                             *)

\* Types, and what ties the parts: a listed connection is one between the two
\* nodes, which its node has served; a waiter is one of that node's requests.
TypeOK ==
  /\ \A c \in Conns : conn[c].up => Used(c)
  /\ reader \in [Conns -> [Nodes -> {"none", "greeted", "running", "pruning", "ended"}]]
  /\ peers \in [Nodes -> [Nodes -> {NoConn} \cup Conns]]
  /\ \A n, m \in Nodes : peers[n][m] # NoConn =>
       Ends(peers[n][m]) = {n, m} /\ n # m /\ reader[peers[n][m]][n] # "none"
  /\ globals \in [Nodes -> [Names -> {NoNode} \cup Nodes]]
  /\ local \in [Nodes -> SUBSET Names]
  /\ \A n \in Nodes, i \in Requests : pending[n][i] # NoRequest =>
       request[pending[n][i]].from = n /\ request[pending[n][i]].at = "waiting"
  /\ \A r \in Requests : request[r].at = "waiting" =>
       \E i \in Requests : pending[request[r].from][i] = r

\* Nothing a node knows of a peer outlives the loop that would take it back
\* (lib.rs:610-616): the connection listed is being read, and while a foreign
\* owner is known, some control loop with that node has still to prune it.
RoutesAreWatched ==
  \A n, m \in Nodes : n # m =>
    /\ peers[n][m] # NoConn => reader[peers[n][m]][n] = "running"
    /\ (\E x \in Names : globals[n][x] = m) =>
         \E c \in Conns : /\ Used(c) /\ Ends(c) = {n, m}
                          /\ reader[c][n] \in {"running", "pruning"}

\* An answered request was run once, by the node that was asked, and has its
\* own answer, whatever connection the reply came on (lib.rs:437-455, 590-606).
\* (For nodes that do not restart: numbers begin anew then.  Stated with the
\* types of all variables.)
AnswersMatch ==
  /\ TypeOK
  /\ \A r \in Requests :
    /\ handled[r] <= 1
    /\ request[r].at = "ok" => request[r].answer = r /\ handled[r] = 1

Sole(c) == \A d \in Conns : Used(d) => d = c

\* A global name gets to a peer whichever comes first, the registration or the
\* connection: either the broadcast finds the new peer or its bootstrap finds
\* the new name (lib.rs:330-347, 542-560).  For one connection that stays up
\* and a name only one node ever registers.
GossipReaches ==
  \A c \in Conns, n, m \in Nodes, x \in Names : n # m =>
    ((Used(c) /\ Ends(c) = {n, m} /\ Up(c) /\ globals[n][x] = n)
       ~> (\/ globals[m][x] = n /\ peers[m][n] = c
           \/ ~Up(c) \/ ~Sole(c) \/ owners[x] # {n}))

\* A peer that one end has given up - its loop ended for any reason - is given
\* up by the other as well: the send half goes with the entry, and the other
\* side reads the end of its stream.
GivenUpByBoth ==
  \A c \in Conns, n, m \in Nodes : n # m =>
    ((peers[n][m] = c /\ reader[c][m] = "ended") ~> (peers[n][m] # c))

Live(n, m) ==
  \E c \in Conns : /\ Used(c) /\ Up(c) /\ Ends(c) = {n, m}
                   /\ \A k \in Ends(c) : reader[c][k] \notin {"none", "greeted"}

\* (Violated.) lib.rs:423 - peers(): "The names of peer nodes this node
\* currently has a live connection to": a node that has one and has not listed
\* it lists it in the end.
LivePeersListed ==
  \A n, m \in Nodes : n # m =>
    ((Live(n, m) /\ peers[n][m] = NoConn) ~> (peers[n][m] # NoConn \/ ~Live(n, m)))

\* (Violated.) lib.rs:389-392 - a request "errors if ... the link drops before
\* it replies".
LostRequestsFail ==
  \A r \in Requests :
    (request[r].at = "waiting" /\ ~Up(request[r].via)) ~> (request[r].at # "waiting")
=============================================================================
