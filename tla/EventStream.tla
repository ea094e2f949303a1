----------------------------- MODULE EventStream -----------------------------
(***************************************************************************)
(* Server-sent events (rusm-wasm/src/bridges/sse.rs): for each connection a *)
(* task with its permit, which serves one stream after the other and reaps  *)
(* them when the client is gone; for each stream a writer process, which    *)
(* owns the body of the response, and a handler process, the guest.         *)
(*                                                                         *)
(* Events reach the writer on two ways: plain ones in its mailbox, rich     *)
(* ones on a bounded channel, which closes when the handler's store is      *)
(* dropped; the Down of the handler comes after that, behind the plain      *)
(* events.  The writer takes what is ready in any order (tokio::select).    *)
(* The HTTP server and the client are external: the server takes frames     *)
(* off the body, and drops it when it finds that the client is gone.        *)
(* Heartbeats and compression are left out.                                 *)
(***************************************************************************)
EXTENDS Integers, SequencesExt, FiniteSets

CONSTANTS
  Conns,
  MaxStreams,        \* bound on the streams
  Cap,               \* max_connections
  BodyCap, RichCap,  \* BODY_CAPACITY, SSE_OUT_CAPACITY
  Budgets            \* what may happen in a behaviour: bounds per kind of event

NoConn == "none"

ASSUME BoundsAssumption ==
  /\ MaxStreams \in Nat /\ {Cap, BodyCap, RichCap} \subseteq Nat \ {0}
  /\ Budgets \subseteq [{"plain", "rich", "crash"} -> Nat]
  /\ NoConn \notin Conns

Streams == 1 .. MaxStreams
\* An event is its kind and its number among those of its kind on its stream.
EventKinds == {"plain", "rich"}
Down == [kind |-> "down", n |-> 0]

VARIABLES
  client,    \* client[c]: whether it has come, and is still there
  task,      \* task[c]: where the connection's task is
  reap,      \* reap[c]: the streams still to reap, and whether the first is in its grace
  free,      \* permits of the limiter
  home,      \* home[s]: the connection of a stream
  writer,    \* writer[s], handler[s]: the two processes ...
  handler,
  killed,    \* ... and those of them that are told to stop
  watched,   \* watched[s]: the writer monitors the handler
  box,       \* box[s]: the writer's mailbox
  rich,      \* rich[s]: the channel of rich events
  body,      \* body[s]: the channel to the HTTP server
  served,    \* served[s]: the server holds the body
  left,      \* bounds
  sent,      \* history: how many events of each kind the writer was alive for
  seen       \* history: the numbers of those the client got, in order

procs == <<writer, handler, killed, watched>>
flow == <<box, rich, body, sent, seen>>
conns == <<client, task, reap, free>>
sseVars == <<conns, home, procs, flow, served, left>>

Of(c) == {s \in Streams : home[s] = c}
ClientGone(s) == \E c \in Conns : home[s] = c /\ client[c] = "gone"
Writing(s) == writer[s] \in {"running", "flushing"}
Room(s) == Len(body[s]) < BodyCap
\* The response is complete: its body is at its end.
Complete(s) == served[s] /\ writer[s] = "ended" /\ body[s] = <<>>

SseInit ==
  /\ client = [c \in Conns |-> "none"] /\ task = [c \in Conns |-> "none"]
  /\ reap = [c \in Conns |-> [todo |-> <<>>, grace |-> FALSE]]
  /\ free = Cap
  /\ home = [s \in Streams |-> NoConn]
  /\ writer = [s \in Streams |-> "none"] /\ handler = [s \in Streams |-> "none"]
  /\ killed = {} /\ watched = [s \in Streams |-> FALSE]
  /\ box = [s \in Streams |-> <<>>] /\ rich = [s \in Streams |-> <<>>]
  /\ body = [s \in Streams |-> <<>>] /\ served = [s \in Streams |-> FALSE]
  /\ left \in Budgets
  /\ sent = [s \in Streams |-> [kind \in EventKinds |-> 0]]
  /\ seen = [s \in Streams |-> [kind \in EventKinds |-> <<>>]]

-----------------------------------------------------------------------------
(* The connection's task.                                                  *)

\* serve: a permit, or the socket is dropped.
Serve(c) ==
  /\ task[c] = "none"
  /\ IF free > 0
       THEN /\ task' = [task EXCEPT ![c] = "serving"]
            /\ client' = [client EXCEPT ![c] = "here"]
            /\ free' = free - 1
       ELSE /\ task' = [task EXCEPT ![c] = "refused"]
            /\ UNCHANGED <<client, free>>
  /\ UNCHANGED <<reap, home, procs, flow, served, left>>

\* handle, for a request that is allowed and routed (another opens nothing):
\* the writer and the handler run ...
Open(c, s) ==
  /\ task[c] = "serving" /\ client[c] = "here"
  /\ home[s] = NoConn /\ \A t \in Streams : t < s => home[t] # NoConn
  /\ \A t \in Of(c) : Complete(t)
  /\ home' = [home EXCEPT ![s] = c]
  /\ writer' = [writer EXCEPT ![s] = "running"]
  /\ handler' = [handler EXCEPT ![s] = "starting"]
  /\ UNCHANGED <<conns, killed, watched, flow, served, left>>
\* ... before the one monitors the other, the pair is noted, and the server
\* has the body.  There is no await in between.
Watch(s) ==
  /\ writer[s] # "none" /\ ~watched[s]
  /\ watched' = [watched EXCEPT ![s] = TRUE]
  /\ box' = IF handler[s] = "gone" /\ Writing(s) THEN [box EXCEPT ![s] = Append(@, Down)] ELSE box
  /\ reap' = [reap EXCEPT ![home[s]].todo = Append(@, s)]
  /\ served' = [served EXCEPT ![s] = TRUE]
  /\ UNCHANGED <<client, task, free, home, writer, handler, killed, rich, body, sent, seen, left>>

\* The client goes away, at any moment ...
Disconnect(c) ==
  /\ client[c] = "here"
  /\ client' = [client EXCEPT ![c] = "gone"]
  /\ UNCHANGED <<task, reap, free, home, procs, flow, served, left>>
\* ... and the server finds out: serve_connection completes and drops the body.
\* Mutant: the permit was the service's, and goes with it.
ConnectionEndsFreeing(c) ==
  /\ task[c] = "serving" /\ client[c] = "gone" /\ \A s \in Of(c) : watched[s]
  /\ task' = [task EXCEPT ![c] = "reaping"]
  /\ served' = [s \in Streams |-> served[s] /\ home[s] # c]
  /\ body' = [s \in Streams |-> IF home[s] = c THEN <<>> ELSE body[s]]
  /\ free' = free + 1
  /\ UNCHANGED <<client, reap, home, procs, box, rich, sent, seen, left>>
ConnectionEnds(c) ==
  /\ task[c] = "serving" /\ client[c] = "gone" /\ \A s \in Of(c) : watched[s]
  /\ task' = [task EXCEPT ![c] = "reaping"]
  /\ served' = [s \in Streams |-> served[s] /\ home[s] # c]
  /\ body' = [s \in Streams |-> IF home[s] = c THEN <<>> ELSE body[s]]
  /\ UNCHANGED <<client, reap, free, home, procs, box, rich, sent, seen, left>>

\* One pair after the other: the writer is killed; the handler has a grace to
\* notice (which may be over at any time) and is killed if it is still there.
ReapWriter(c) ==
  /\ task[c] = "reaping" /\ reap[c].todo # <<>> /\ ~reap[c].grace
  /\ killed' = killed \cup {<<"writer", Head(reap[c].todo)>>}
  /\ reap' = [reap EXCEPT ![c].grace = TRUE]
  /\ UNCHANGED <<client, task, free, home, writer, handler, watched, flow, served, left>>
\* Mutant: the handler is left to itself.
ReapHandlerGently(c) ==
  /\ task[c] = "reaping" /\ reap[c].grace
  /\ reap' = [reap EXCEPT ![c] = [todo |-> Tail(@.todo), grace |-> FALSE]]
  /\ UNCHANGED <<client, task, free, home, procs, flow, served, left>>
ReapHandler(c) ==
  /\ task[c] = "reaping" /\ reap[c].grace
  /\ LET s == Head(reap[c].todo)
     IN killed' = IF handler[s] = "gone" THEN killed ELSE killed \cup {<<"handler", s>>}
  /\ reap' = [reap EXCEPT ![c] = [todo |-> Tail(@.todo), grace |-> FALSE]]
  /\ UNCHANGED <<client, task, free, home, writer, handler, watched, flow, served, left>>
Release(c) ==
  /\ task[c] = "reaping" /\ reap[c].todo = <<>>
  /\ task' = [task EXCEPT ![c] = "done"]
  /\ free' = free + 1
  /\ UNCHANGED <<client, reap, home, procs, flow, served, left>>

-----------------------------------------------------------------------------
(* The server and the client.                                              *)

Deliver(s) ==
  /\ served[s] /\ body[s] # <<>> /\ client[home[s]] = "here"
  /\ LET e == Head(body[s])
     IN seen' = [seen EXCEPT ![s][e.kind] = Append(@, e.n)]
  /\ body' = [body EXCEPT ![s] = Tail(@)]
  /\ UNCHANGED <<conns, home, procs, box, rich, sent, served, left>>

-----------------------------------------------------------------------------
(* The writer.                                                             *)

\* The body could not be sent to, was seen closed, or the handler is gone: the
\* writer returns, its mailbox and its ends of the channels with it.
Ends(s) ==
  /\ writer' = [writer EXCEPT ![s] = "ended"]
  /\ box' = [box EXCEPT ![s] = <<>>] /\ rich' = [rich EXCEPT ![s] = <<>>]
  /\ UNCHANGED body
\* Until the server has the body, handle holds it.
BodyClosed(s) == watched[s] /\ ~served[s]
WriterStep(s) == UNCHANGED <<conns, home, handler, killed, watched, sent, seen, served, left>>

ClientClosed(s) ==
  /\ Writing(s) /\ BodyClosed(s) /\ Ends(s) /\ WriterStep(s)
TakePlain(s) ==
  /\ writer[s] = "running" /\ box[s] # <<>> /\ Head(box[s]) # Down
  /\ Room(s) /\ ~BodyClosed(s)
  /\ box' = [box EXCEPT ![s] = Tail(@)]
  /\ body' = [body EXCEPT ![s] = Append(@, Head(box[s]))]
  /\ UNCHANGED <<writer, rich>> /\ WriterStep(s)
SendRich(s) ==
  /\ rich[s] # <<>> /\ Room(s) /\ ~BodyClosed(s)
  /\ rich' = [rich EXCEPT ![s] = Tail(@)]
  /\ body' = [body EXCEPT ![s] = Append(@, Head(rich[s]))]
  /\ UNCHANGED <<writer, box>> /\ WriterStep(s)
TakeRich(s) == writer[s] = "running" /\ SendRich(s)
RichClosed(s) ==
  /\ writer[s] = "running" /\ rich[s] = <<>> /\ handler[s] \in {"dropped", "gone"}
  /\ Ends(s) /\ WriterStep(s)
\* The Down of the handler: what is left on the channel is sent first.
\* Mutant: it is not.
TakeDownAtOnce(s) ==
  /\ writer[s] = "running" /\ box[s] # <<>> /\ Head(box[s]) = Down
  /\ Ends(s) /\ WriterStep(s)
TakeDown(s) ==
  /\ writer[s] = "running" /\ box[s] # <<>> /\ Head(box[s]) = Down
  /\ writer' = [writer EXCEPT ![s] = "flushing"]
  /\ UNCHANGED <<box, rich, body>> /\ WriterStep(s)
\* Mutant: the channel is waited for, while something here still holds its
\* other end.
FlushWaits(s) == writer[s] = "flushing" /\ SendRich(s)
Flush(s) ==
  /\ writer[s] = "flushing"
  /\ SendRich(s) \/ (rich[s] = <<>> /\ Ends(s) /\ WriterStep(s))
WriterAborted(s) ==
  /\ Writing(s) /\ <<"writer", s>> \in killed /\ Ends(s) /\ WriterStep(s)

-----------------------------------------------------------------------------
(* The handler: serve in rusm-rs/src/sse.rs, or a guest that does otherwise *)
(* and ignores the end of its writer.                                      *)

Running(s) == handler[s] \in {"starting", "running", "closing"}
HandlerStep(s) == UNCHANGED <<conns, home, writer, killed, watched, body, seen, served>>

\* It learns the writer's pid and monitors it.
Monitors(s) ==
  /\ handler[s] = "starting"
  /\ handler' = [handler EXCEPT ![s] = "running"]
  /\ UNCHANGED <<box, rich, sent, left>> /\ HandlerStep(s)
\* stream.data and stream.emit, from open, message or close; emit waits for
\* room.  After the writer's end both go nowhere.
Emit(s, kind) ==
  /\ handler[s] \in {"running", "closing"} /\ left[kind] > 0
  /\ left' = [left EXCEPT ![kind] = @ - 1]
  /\ LET e == [kind |-> kind, n |-> sent[s][kind] + 1]
     IN IF ~Writing(s) THEN UNCHANGED <<box, rich, sent>>
        ELSE /\ sent' = [sent EXCEPT ![s][kind] = @ + 1]
             /\ IF kind = "plain" THEN box' = [box EXCEPT ![s] = Append(@, e)] /\ UNCHANGED rich
                ELSE /\ Len(rich[s]) < RichCap
                     /\ rich' = [rich EXCEPT ![s] = Append(@, e)] /\ UNCHANGED box
  /\ UNCHANGED handler /\ HandlerStep(s)
\* stream.close, or the Down of the writer.
Closes(s) ==
  /\ handler[s] = "running"
  /\ handler' = [handler EXCEPT ![s] = "closing"]
  /\ UNCHANGED <<box, rich, sent, left>> /\ HandlerStep(s)
\* It returns, traps, or is aborted: its store goes ...
Drops(s) ==
  /\ handler' = [handler EXCEPT ![s] = "dropped"]
  /\ UNCHANGED <<box, rich, sent>> /\ HandlerStep(s)
Returns(s) == handler[s] = "closing" /\ Drops(s) /\ UNCHANGED left
Crashes(s) ==
  /\ Running(s) /\ left["crash"] > 0
  /\ left' = [left EXCEPT !["crash"] = @ - 1]
  /\ Drops(s)
HandlerAborted(s) == Running(s) /\ <<"handler", s>> \in killed /\ Drops(s) /\ UNCHANGED left
\* ... and then its entry in the table, with a Down to the writer.
Leaves(s) ==
  /\ handler[s] = "dropped"
  /\ handler' = [handler EXCEPT ![s] = "gone"]
  /\ box' = IF watched[s] /\ Writing(s) THEN [box EXCEPT ![s] = Append(@, Down)] ELSE box
  /\ UNCHANGED <<rich, sent, left>> /\ HandlerStep(s)

-----------------------------------------------------------------------------
Proceed ==
  \/ \E c \in Conns : ConnectionEnds(c) \/ ReapWriter(c) \/ ReapHandler(c) \/ Release(c)
  \/ \E s \in Streams :
       \/ Watch(s) \/ Deliver(s) \/ ClientClosed(s) \/ TakePlain(s) \/ TakeRich(s)
       \/ RichClosed(s) \/ TakeDown(s) \/ Flush(s) \/ WriterAborted(s)
       \/ HandlerAborted(s) \/ Leaves(s)
Happen ==
  \/ \E c \in Conns : Serve(c) \/ Disconnect(c) \/ \E s \in Streams : Open(c, s)
  \/ \E s \in Streams :
       \/ Monitors(s) \/ (\E kind \in EventKinds : Emit(s, kind))
       \/ Closes(s) \/ Returns(s) \/ Crashes(s)
SseNext == Proceed \/ Happen
SseSpec == SseInit /\ [][SseNext]_sseVars

\* The host's own steps are taken, and a client that is there reads.  A guest
\* need do nothing at all.  Only finitely many of these steps are possible, so
\* that fairness of all together is fairness of each.
FairSpec == SseSpec /\ WF_sseVars(Proceed)

-----------------------------------------------------------------------------
(* Properties.                                                             *)

\* Types, and the shape of a stream: channels hold no more than their capacity
\* and nothing once the writer has ended; its connection reaps each stream
\* once, and a stream that was reaped is over or told to stop.
SseTypeOK ==
  /\ client \in [Conns -> {"none", "here", "gone"}]
  /\ task \in [Conns -> {"none", "refused", "serving", "reaping", "done"}]
  /\ free = Cap - Cardinality({c \in Conns : task[c] \in {"serving", "reaping"}})
  /\ writer \in [Streams -> {"none", "running", "flushing", "ended"}]
  /\ handler \in [Streams -> {"none", "starting", "running", "closing", "dropped", "gone"}]
  /\ \A s \in Streams : /\ Len(body[s]) <= BodyCap /\ Len(rich[s]) <= RichCap
                        /\ ~Writing(s) => box[s] = <<>> /\ rich[s] = <<>>
  /\ \A c \in Conns : /\ IsInjective(reap[c].todo)
                      /\ task[c] = "serving" => ToSet(reap[c].todo) = {s \in Of(c) : watched[s]}

\* The limit bounds the handlers that run, over all connections and whatever
\* streams follow one another on one of them: a permit comes back only when
\* they are over or told to stop, and a new stream waits for the end of the old
\* one (sse.rs:197-275).  (Stated with the types of all variables.)
CapBoundsHandlers ==
  /\ SseTypeOK
  /\ Cardinality({s \in Streams : Running(s) /\ <<"handler", s>> \notin killed}) <= Cap

\* What the client gets of each kind is in the order it was sent, without a gap,
\* and a response that comes to its end has brought all rich events, however
\* the end of the handler, the close of its channel and its Down fell
\* (sse.rs:366-383).  Plain events have no such promise: RichClosed.
RichEventsArrive ==
  \A s \in Streams :
    /\ \A kind \in EventKinds :
         /\ Len(seen[s][kind]) <= sent[s][kind]
         /\ \A i \in DOMAIN seen[s][kind] : seen[s][kind][i] = i
    /\ Complete(s) => Len(seen[s]["rich"]) = sent[s]["rich"]

\* When a client is gone, everything of its connection goes, whatever the guest
\* does (sse.rs:255-273).
DisconnectReleases ==
  \A c \in Conns :
    (client[c] = "gone")
      ~> /\ task[c] = "done"
         /\ \A s \in Of(c) : writer[s] = "ended" /\ handler[s] = "gone"

\* A handler that is gone, in whatever way, ends the stream (sse.rs:364-383).
StreamEndsWithHandler ==
  \A s \in Streams : (handler[s] = "gone") ~> (Complete(s) \/ ClientGone(s))
=============================================================================
