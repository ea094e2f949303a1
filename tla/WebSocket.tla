------------------------------ MODULE WebSocket ------------------------------
(***************************************************************************)
(* WebSocket connections (rusm-wasm/src/bridges/ws.rs and ws_codec.rs): the *)
(* upgrade with its permit, the task of a connection that reads frames and  *)
(* assembles messages, the writer process, which owns the sink of the       *)
(* socket, and the handler process, the guest.                             *)
(*                                                                         *)
(* Binary frames reach the writer in its mailbox, text, pong and close on a *)
(* bounded channel, of which the reader holds an end; the writer takes what *)
(* is ready in any order (tokio::select).  The handler monitors the writer  *)
(* (serve in rusm-rs/src/ws.rs); nobody monitors the handler.  The client   *)
(* and the socket are external: it is reliable and ordered until the client *)
(* is gone.  Compression and the parsing of headers are left out.           *)
(***************************************************************************)
EXTENDS Integers, SequencesExt, FiniteSets

CONSTANTS
  Conns,
  Cap,        \* max_connections
  OutCap,     \* WS_OUT_CAPACITY
  MaxSize,    \* max_message_size, where a fragment has size 1
  Scripts,    \* Scripts[c]: the frames the client of c may send
  Budgets     \* what may happen in a behaviour: bounds per kind of event

ASSUME BoundsAssumption ==
  /\ {Cap, OutCap, MaxSize} \subseteq Nat \ {0}
  /\ Budgets \subseteq
       [{"accept", "frame", "binary", "text", "close", "crash", "hang", "reject"} -> Nat]

\* A frame: its opcode, whether it is final, and which part of which message.
Frame(op, m, part, fin) == [op |-> op, m |-> m, part |-> part, fin |-> fin]
DataOps == {"text", "binary", "continue"}
Frames == [op : DataOps \cup {"ping", "close"}, m : Nat, part : Nat, fin : BOOLEAN]
DownOfWriter == <<Frame("down", 0, 0, TRUE)>>
NoFragment == <<>>

\* What a label means: who begins a message gives it a number above those before,
\* and who continues an unfinished one gives the number and the next part.  A
\* label is read by no guard.
ASSUME ScriptsAssumption ==
  /\ Scripts \in [Conns -> Seq(Frames)]
  /\ \A c \in Conns : LET s == Scripts[c] IN
    /\ \A j \in DOMAIN s : s[j].op \in DataOps \ {"continue"} =>
         /\ s[j].part = 1
         /\ \A i \in 1 .. j - 1 : s[i].op \in DataOps \ {"continue"} => s[i].m < s[j].m
    /\ \A j \in DOMAIN s : s[j].op = "continue" =>
         \A i \in 1 .. j - 1 :
           /\ s[i].op \in DataOps /\ ~s[i].fin
           /\ \A k \in i + 1 .. j - 1 : s[k].op \notin DataOps
           => s[j].m = s[i].m /\ s[j].part = s[i].part + 1

VARIABLES
  client,     \* client[c]: whether it has come, and is still there
  task,       \* task[c]: where the connection is
  permit,     \* permit[c]: the connection holds one, and where
  free,       \* permits of the limiter
  todo,       \* todo[c]: what the client has still to send
  fragment,   \* WsStream.fragment: the frames of a message begun
  writer,     \* writer[c], handler[c]: the two processes ...
  handler,
  killed,     \* ... and those of them that are told to stop
  inbox,      \* inbox[c]: the handler's mailbox
  box,        \* box[c]: the writer's mailbox
  out,        \* out[c]: the channel of text, pong and close
  left,       \* bounds
  sent,       \* history: what the writer was alive for, in order, by ...
  seen,       \* history: the frames the client got, in order, ... its way
  got,        \* history: the messages the reader delivered, in order
  rejected    \* history: the connections with a request that was rejected

inbound == <<todo, fragment, inbox, got>>
outbound == <<box, out, sent, seen>>
limiter == <<permit, free, rejected>>
procs == <<writer, handler, killed>>
vars == <<client, task, limiter, inbound, outbound, procs, left>>

\* The ways to the writer, each in order.
Nothing == [mailbox |-> <<>>, channel |-> <<>>]
Running(c) == handler[c] \in {"starting", "running", "closing", "hung"}
\* The task has the stream half, and so the socket is not closed.
Reading(c) == task[c] = "reading"

Init ==
  /\ client = [c \in Conns |-> "none"] /\ task = [c \in Conns |-> "none"]
  /\ permit = [c \in Conns |-> "none"] /\ free = Cap
  /\ todo = Scripts /\ fragment = [c \in Conns |-> NoFragment]
  /\ writer = [c \in Conns |-> "none"] /\ handler = [c \in Conns |-> "none"]
  /\ killed = {}
  /\ inbox = [c \in Conns |-> <<>>]
  /\ box = [c \in Conns |-> <<>>] /\ out = [c \in Conns |-> <<>>]
  /\ left \in Budgets
  /\ sent = [c \in Conns |-> Nothing] /\ seen = [c \in Conns |-> Nothing]
  /\ got = [c \in Conns |-> <<>>] /\ rejected = {}

-----------------------------------------------------------------------------
(* From the socket to the connection.                                      *)

\* serve: a permit, or the socket is dropped.
Accept(c) ==
  /\ task[c] = "none" /\ left["accept"] > 0
  /\ left' = [left EXCEPT !["accept"] = @ - 1]
  /\ IF free > 0
       THEN /\ task' = [task EXCEPT ![c] = "http"]
            /\ client' = [client EXCEPT ![c] = "here"]
            /\ permit' = [permit EXCEPT ![c] = "service"]
            /\ free' = free - 1
       ELSE /\ task' = [task EXCEPT ![c] = "refused"]
            /\ UNCHANGED <<client, permit, free>>
  /\ UNCHANGED <<rejected, inbound, outbound, procs>>

\* upgrade takes the permit out of the service; one that ends in 401, 403, 404
\* or 426 drops it, and the connection serves requests on ...
Reject(c) ==
  /\ task[c] = "http" /\ client[c] = "here" /\ left["reject"] > 0
  /\ left' = [left EXCEPT !["reject"] = @ - 1]
  /\ rejected' = rejected \cup {c}
  /\ permit' = [permit EXCEPT ![c] = "none"]
  /\ free' = IF permit[c] = "service" THEN free + 1 ELSE free
  /\ UNCHANGED <<client, task, inbound, outbound, procs>>
\* ... or it moves to the task of the connection, whose run_connection starts
\* the writer and the handler and sends the one's pid to the other.
\* Mutant: the permit is not moved.
UpgradeDropping(c) ==
  /\ task[c] = "http" /\ client[c] = "here"
  /\ task' = [task EXCEPT ![c] = "reading"]
  /\ permit' = [permit EXCEPT ![c] = "none"]
  /\ free' = IF permit[c] = "service" THEN free + 1 ELSE free
  /\ writer' = [writer EXCEPT ![c] = "running"]
  /\ handler' = [handler EXCEPT ![c] = "starting"]
  /\ UNCHANGED <<client, rejected, inbound, outbound, killed, left>>
Upgrade(c) ==
  /\ task[c] = "http" /\ client[c] = "here"
  /\ task' = [task EXCEPT ![c] = "reading"]
  /\ permit' = [permit EXCEPT ![c] = IF @ = "service" THEN "task" ELSE @]
  /\ writer' = [writer EXCEPT ![c] = "running"]
  /\ handler' = [handler EXCEPT ![c] = "starting"]
  /\ UNCHANGED <<client, free, rejected, inbound, outbound, killed, left>>

\* The connection goes before it was upgraded.
HttpEnds(c) ==
  /\ task[c] = "http" /\ client[c] = "gone"
  /\ task' = [task EXCEPT ![c] = "done"]
  /\ permit' = [permit EXCEPT ![c] = "none"]
  /\ free' = IF permit[c] = "service" THEN free + 1 ELSE free
  /\ UNCHANGED <<client, rejected, inbound, outbound, procs, left>>

Disconnect(c) ==
  /\ client[c] = "here"
  /\ client' = [client EXCEPT ![c] = "gone"]
  /\ UNCHANGED <<task, limiter, inbound, outbound, procs, left>>

-----------------------------------------------------------------------------
(* The reader: WsStream::recv and the loop of run_connection.              *)

Frame1(c) == Head(todo[c])
HasFrame(c) == Reading(c) /\ todo[c] # <<>> /\ left["frame"] > 0
Took(c) == /\ todo' = [todo EXCEPT ![c] = Tail(@)]
           /\ left' = [left EXCEPT !["frame"] = @ - 1]

\* Data frames that continue what was begun, or begin when nothing is, within
\* the limit of the whole message.
\* Mutant: the limit is that of the frame.
FitsFrame(c, f) ==
  IF f.op = "continue" THEN fragment[c] # NoFragment ELSE fragment[c] = NoFragment
Fits(c, f) ==
  /\ IF f.op = "continue" THEN fragment[c] # NoFragment ELSE fragment[c] = NoFragment
  /\ Len(fragment[c]) < MaxSize
Fragment(c) ==
  /\ HasFrame(c) /\ Frame1(c).op \in DataOps /\ ~Frame1(c).fin
  /\ Fits(c, Frame1(c)) /\ Took(c)
  /\ fragment' = [fragment EXCEPT ![c] = Append(@, Frame1(c))]
  /\ UNCHANGED <<client, task, limiter, inbox, got, outbound, procs>>
\* The last frame: the message goes to the handler, as one.
Message(c) ==
  /\ HasFrame(c) /\ Frame1(c).op \in DataOps /\ Frame1(c).fin
  /\ Fits(c, Frame1(c)) /\ Took(c)
  /\ LET msg == Append(fragment[c], Frame1(c))
     IN /\ got' = [got EXCEPT ![c] = Append(@, msg)]
        /\ inbox' = [inbox EXCEPT ![c] = IF Running(c) THEN Append(@, msg) ELSE @]
  /\ fragment' = [fragment EXCEPT ![c] = NoFragment]
  /\ UNCHANGED <<client, task, limiter, outbound, procs>>
\* A ping goes to the writer, when there is room.
Ping(c) ==
  /\ HasFrame(c) /\ Frame1(c).op = "ping" /\ writer[c] = "running"
  /\ Len(out[c]) < OutCap
  /\ Took(c)
  /\ out' = [out EXCEPT ![c] = Append(@, Frame1(c))]
  /\ sent' = [sent EXCEPT ![c].channel = Append(@, Frame1(c))]
  /\ UNCHANGED <<client, task, limiter, fragment, inbox, got, box, seen, procs>>
\* A close, a frame that does not fit, a ping when the writer is gone, or the
\* end of the stream: the loop is over, and the writer killed.
ReadingEnds(c) ==
  /\ Reading(c)
  /\ IF todo[c] = <<>> THEN client[c] = "gone"
     ELSE \/ Frame1(c).op = "close"
          \/ Frame1(c).op = "ping" /\ writer[c] = "ended"
          \/ Frame1(c).op \in DataOps /\ ~Fits(c, Frame1(c))
          \/ client[c] = "gone"   \* the socket is reset, what it held is lost
  /\ task' = [task EXCEPT ![c] = "grace"]
  /\ killed' = killed \cup {<<"writer", c>>}
  /\ UNCHANGED <<client, limiter, inbound, outbound, writer, handler, left>>
\* The handler is awaited; if the grace is over first (at any time), killed.
\* Mutant: it is left alone, as it monitors the writer.
GraceEndsTrusting(c) ==
  /\ task[c] = "grace"
  /\ task' = [task EXCEPT ![c] = "done"]
  /\ permit' = [permit EXCEPT ![c] = "none"]
  /\ free' = IF permit[c] = "task" THEN free + 1 ELSE free
  /\ UNCHANGED <<client, rejected, inbound, outbound, procs, left>>
GraceEnds(c) ==
  /\ task[c] = "grace"
  /\ killed' = IF handler[c] = "gone" THEN killed ELSE killed \cup {<<"handler", c>>}
  /\ task' = [task EXCEPT ![c] = "done"]
  /\ permit' = [permit EXCEPT ![c] = "none"]
  /\ free' = IF permit[c] = "task" THEN free + 1 ELSE free
  /\ UNCHANGED <<client, rejected, inbound, outbound, writer, handler, left>>

-----------------------------------------------------------------------------
(* The writer.                                                             *)

WriterStep(c) ==
  UNCHANGED <<client, task, limiter, todo, fragment, got, handler, killed, sent, left>>
\* It returns or is aborted: its mailbox and its end of the channel go, and
\* the handler gets its Down, if it monitors it by now.
Ends(c) ==
  /\ writer' = [writer EXCEPT ![c] = "ended"]
  /\ box' = [box EXCEPT ![c] = <<>>] /\ out' = [out EXCEPT ![c] = <<>>]
  /\ inbox' = [inbox EXCEPT ![c] =
       IF Running(c) /\ handler[c] # "starting" THEN Append(@, DownOfWriter) ELSE @]
TakeBinary(c) ==
  /\ writer[c] = "running" /\ box[c] # <<>> /\ client[c] = "here"
  /\ box' = [box EXCEPT ![c] = Tail(@)]
  /\ seen' = [seen EXCEPT ![c].mailbox = Append(@, Head(box[c]))]
  /\ UNCHANGED <<writer, out, inbox>> /\ WriterStep(c)
\* Mutant: after the close frame it goes on.
TakeOutGoesOn(c) ==
  /\ writer[c] = "running" /\ out[c] # <<>> /\ client[c] = "here"
  /\ seen' = [seen EXCEPT ![c].channel = Append(@, Head(out[c]))]
  /\ out' = [out EXCEPT ![c] = Tail(@)]
  /\ UNCHANGED <<writer, box, inbox>> /\ WriterStep(c)
TakeOut(c) ==
  /\ writer[c] = "running" /\ out[c] # <<>> /\ client[c] = "here"
  /\ seen' = [seen EXCEPT ![c].channel = Append(@, Head(out[c]))]
  /\ IF Head(out[c]).op = "close" THEN Ends(c)
     ELSE out' = [out EXCEPT ![c] = Tail(@)] /\ UNCHANGED <<writer, box, inbox>>
  /\ WriterStep(c)
\* A frame or a keep-alive ping cannot be sent.  (The arm for a channel without
\* senders is never taken: the reader holds one.)
SendFails(c) ==
  /\ writer[c] = "running" /\ client[c] = "gone"
  /\ Ends(c) /\ UNCHANGED seen /\ WriterStep(c)
WriterAborted(c) ==
  /\ writer[c] = "running" /\ <<"writer", c>> \in killed
  /\ Ends(c) /\ UNCHANGED seen /\ WriterStep(c)

-----------------------------------------------------------------------------
(* The handler: serve in rusm-rs/src/ws.rs.                                *)

HandlerStep(c) ==
  UNCHANGED <<client, task, limiter, todo, fragment, got, seen, writer, killed>>

\* It learns the writer's pid and monitors it, which answers at once if the
\* writer has ended.
Monitors(c) ==
  /\ handler[c] = "starting"
  /\ handler' = [handler EXCEPT ![c] = "running"]
  /\ inbox' = IF writer[c] = "running" THEN inbox
              ELSE [inbox EXCEPT ![c] = Append(@, DownOfWriter)]
  /\ UNCHANGED <<box, out, sent, left>> /\ HandlerStep(c)
\* One message, or the Down: then close, and it returns.
Handles(c) ==
  /\ handler[c] = "running" /\ inbox[c] # <<>>
  /\ inbox' = [inbox EXCEPT ![c] = Tail(@)]
  /\ handler' = IF Head(inbox[c]) = DownOfWriter
                  THEN [handler EXCEPT ![c] = "closing"] ELSE handler
  /\ UNCHANGED <<box, out, sent, left>> /\ HandlerStep(c)
\* conn.send, send_text and close, from open, message or close; those on the
\* channel wait for room.  After the writer's end they go nowhere.
Emit(c, op) ==
  /\ handler[c] \in {"running", "closing"} /\ left[op] > 0
  /\ left' = [left EXCEPT ![op] = @ - 1]
  /\ LET f == Frame(op, 0, left[op], TRUE)
     IN IF writer[c] # "running" THEN UNCHANGED <<box, out, sent>>
        ELSE IF op = "binary"
          THEN /\ sent' = [sent EXCEPT ![c].mailbox = Append(@, f)]
               /\ box' = [box EXCEPT ![c] = Append(@, f)] /\ UNCHANGED out
          ELSE /\ Len(out[c]) < OutCap
               /\ sent' = [sent EXCEPT ![c].channel = Append(@, f)]
               /\ out' = [out EXCEPT ![c] = Append(@, f)] /\ UNCHANGED box
  /\ UNCHANGED <<inbox, handler>> /\ HandlerStep(c)
\* It may hang in a callback.
Hangs(c) ==
  /\ handler[c] = "running" /\ left["hang"] > 0
  /\ left' = [left EXCEPT !["hang"] = @ - 1]
  /\ handler' = [handler EXCEPT ![c] = "hung"]
  /\ UNCHANGED <<inbox, box, out, sent>> /\ HandlerStep(c)
\* It returns, traps, or is aborted.
Gone(c) ==
  /\ handler' = [handler EXCEPT ![c] = "gone"]
  /\ inbox' = [inbox EXCEPT ![c] = <<>>]
  /\ UNCHANGED <<box, out, sent>> /\ HandlerStep(c)
Returns(c) == handler[c] = "closing" /\ Gone(c) /\ UNCHANGED left
Crashes(c) ==
  /\ Running(c) /\ left["crash"] > 0
  /\ left' = [left EXCEPT !["crash"] = @ - 1]
  /\ Gone(c)
HandlerAborted(c) == Running(c) /\ <<"handler", c>> \in killed /\ Gone(c) /\ UNCHANGED left

-----------------------------------------------------------------------------
Proceed ==
  \E c \in Conns :
    \/ HttpEnds(c) \/ (client[c] = "gone" /\ ReadingEnds(c)) \/ GraceEnds(c)
    \/ TakeBinary(c) \/ TakeOut(c) \/ SendFails(c) \/ WriterAborted(c)
    \/ Monitors(c) \/ Handles(c) \/ Returns(c) \/ HandlerAborted(c)
Happen ==
  \E c \in Conns :
    \/ Accept(c) \/ Reject(c) \/ Upgrade(c) \/ Disconnect(c)
    \/ Fragment(c) \/ Message(c) \/ Ping(c) \/ ReadingEnds(c)
    \/ (\E op \in {"binary", "text", "close"} : Emit(c, op)) \/ Hangs(c) \/ Crashes(c)
Next == Proceed \/ Happen
Spec == Init /\ [][Next]_vars

\* The host's own steps are taken, a client that is there reads, and a guest
\* that does not hang handles its mail.  The client need not send anything.
\* Only finitely many of these steps are possible, so that fairness of all
\* together is fairness of each.
FairSpec == Spec /\ WF_vars(Proceed)

-----------------------------------------------------------------------------
(* Properties.                                                             *)

\* Types; where the permits are; and that a connection whose task is over has
\* no process that is not told to stop.
TypeOK ==
  /\ client \in [Conns -> {"none", "here", "gone"}]
  /\ task \in [Conns -> {"none", "refused", "http", "reading", "grace", "done"}]
  /\ permit \in [Conns -> {"none", "service", "task"}]
  /\ free = Cap - Cardinality({c \in Conns : permit[c] # "none"})
  /\ writer \in [Conns -> {"none", "running", "ended"}]
  /\ handler \in [Conns -> {"none", "starting", "running", "closing", "hung", "gone"}]
  /\ \A c \in Conns :
       /\ Len(out[c]) <= OutCap
       /\ task[c] = "done" =>
            /\ writer[c] = "running" => <<"writer", c>> \in killed
            /\ Running(c) => <<"handler", c>> \in killed

\* The limit bounds the handlers that run (ws.rs:373-414), on connections whose
\* first request is the upgrade: one that is rejected (436-466) costs the
\* connection its permit.  (Stated with the types of all variables.)
CapBoundsHandlers ==
  /\ TypeOK
  /\ Cardinality({c \in Conns \ rejected : Running(c) /\ <<"handler", c>> \notin killed}) <= Cap

\* (Violated.) ws.rs:374-376 - "a permit is acquired before the handshake and
\* held for the connection's whole life, so the cap bounds *live* connections":
\* whatever was rejected on them before.
CapBoundsConnections ==
  Cardinality({c \in Conns : Running(c) /\ <<"handler", c>> \notin killed}) <= Cap

Whole(msg) ==
  /\ Len(msg) \in 1 .. MaxSize
  /\ \A i \in DOMAIN msg : /\ msg[i].m = msg[1].m /\ msg[i].part = i
                           /\ msg[i].fin <=> i = Len(msg)

\* The handler gets whole messages: all parts of one, in their order and with
\* nothing between them, within the limit, however the client cut them up and
\* sent control frames in between (ws_codec.rs:308-379).
MessagesAreWhole ==
  \A c \in Conns :
    /\ \A i \in DOMAIN got[c] : Whole(got[c][i])
    /\ \A i, j \in DOMAIN got[c] : i < j => got[c][i][1].m < got[c][j][1].m

Closed(frames) == \E i \in DOMAIN frames : frames[i].op = "close"

\* What the client gets of the mailbox and of the channel is in the order it
\* was sent, and nothing follows a close: it is the last of its way, and the
\* writer, which alone sends, is over (ws.rs:555-594).
FramesInOrder ==
  \A c \in Conns :
    /\ IsPrefix(seen[c].mailbox, sent[c].mailbox)
    /\ IsPrefix(seen[c].channel, sent[c].channel)
    /\ \A i \in DOMAIN seen[c].channel :
         seen[c].channel[i].op = "close" => i = Len(seen[c].channel) /\ writer[c] = "ended"

\* When a client is gone, everything of its connection goes, also if the guest
\* hangs (ws.rs:632-645).
DisconnectReleases ==
  \A c \in Conns :
    (client[c] = "gone")
      ~> /\ task[c] = "done" /\ permit[c] = "none"
         /\ writer[c] \in {"none", "ended"} /\ handler[c] \in {"none", "gone"}

\* A close by the handler ends the writer and, by its Down, the handler, though
\* the client stays (ws.rs:577-581, rusm-rs/src/ws.rs:44-49) - if a client's
\* frames are not without end and the guest does not hang.
CloseEndsHandler ==
  \A c \in Conns :
    Closed(sent[c].channel) ~> (handler[c] \in {"gone", "hung"})

\* (Violated.) ws.rs:583 - "None => break, // handler gone (its control sender
\* dropped)": the writer of a handler that is gone ends.
WriterFollowsHandler == \A c \in Conns : (handler[c] = "gone") ~> (writer[c] = "ended")
=============================================================================
