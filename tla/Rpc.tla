--------------------------------- MODULE Rpc ---------------------------------
(***************************************************************************)
(* Calls between guests, as the SDKs make them over plain mail             *)
(* (rusm-rs/src/wire.rs; rpc.js makes the same calls, but for callbacks,   *)
(* which stay registered while they run): call, call with a timeout, cast, *)
(* callbacks, and the dispatch loop of a service, which may call another   *)
(* service while it handles a request.                                     *)
(*                                                                         *)
(* A process runs alone between two receives, so a step is what it does    *)
(* after one receive, or one send.  What it is in the middle of is a       *)
(* stack: a handler, a call of that handler, a callback that came during   *)
(* the call, a call of that callback.  The mailbox is the one that         *)
(* SelectiveReceive describes: a queue, and a shelf of stashed mail that   *)
(* unstash puts in front.  Each message carries the context of its sender, *)
(* which the receiver takes over (bind_context_from_mailbox in actor.rs).  *)
(***************************************************************************)
EXTENDS Integers, SequencesExt

CONSTANTS
  Clients, Services,
  Callees,       \* Callees[p]: whom p calls
  MaxCalls,      \* bound on the calls and casts
  Budgets        \* what may happen in a behaviour: bounds per kind of event

Procs == Clients \cup Services
ASSUME BoundsAssumption ==
  /\ MaxCalls \in Nat
  /\ Callees \in [Procs -> SUBSET Procs]
  /\ Budgets \subseteq
       [calls : [Procs -> Nat], casts : Nat, timed : Nat, lent : Nat, invoked : Nat]
\* A guest calls out of its own program or out of the loop of its service.
ASSUME RolesAssumption == Clients \cap Services = {}

Calls == 1 .. MaxCalls
NoRef == 0
NoContext == "none"

VARIABLES
  queue,       \* queue[p]: p's mailbox
  shelf,       \* shelf[p]: what p has stashed
  stack,       \* stack[p]: what p is doing, innermost last
  context,     \* context[p]: the claims context the host keeps for p
  nextRef,     \* the reference counter of p, for calls and callbacks
  callbacks,   \* callbacks[p]: the closures registered and not running
  call,        \* history: each call and what became of it
  arrived,     \* history: the requests sent to p, in order
  served,      \* history: the requests p's loop took up, in order
  left         \* bounds

mail == <<queue, shelf>>
history == <<arrived, served>>
vars == <<mail, stack, context, nextRef, callbacks, call, history, left>>

\* Mutant: a reply carries no context.
MessagePlainReply(kind, c, from, ref, lent) ==
  [kind |-> kind, call |-> c, from |-> from, ref |-> ref, lent |-> lent,
   context |-> IF kind = "reply" THEN NoContext ELSE context[from]]
Message(kind, c, from, ref, lent) ==
  [kind |-> kind, call |-> c, from |-> from, ref |-> ref, lent |-> lent,
   context |-> context[from]]
Frame(what, c, ref, lent, timed) ==
  [what |-> what, call |-> c, ref |-> ref, lent |-> lent, timed |-> timed]
NoCall == [state |-> "none", from |-> NoContext, context |-> NoContext,
           answer |-> 0, ref |-> NoRef, lent |-> NoRef, invoked |-> 0, ran |-> 0, nested |-> FALSE]

Doing(p, what) == stack[p] # <<>> /\ Last(stack[p]).what = what
Idle(p) == stack[p] = <<>>
Pushed(p, f) == [stack EXCEPT ![p] = Append(@, f)]
Popped(p) == [stack EXCEPT ![p] = Front(@)]
Sent(q, to, m) == [q EXCEPT ![to] = Append(@, m)]

Init ==
  /\ queue = [p \in Procs |-> <<>>] /\ shelf = [p \in Procs |-> <<>>]
  /\ stack = [p \in Procs |-> <<>>]
  /\ context = [p \in Procs |-> IF p \in Clients THEN p ELSE NoContext]
  /\ nextRef = [p \in Procs |-> 1]
  /\ callbacks = [p \in Procs |-> {}]
  /\ call = [c \in Calls |-> NoCall]
  /\ arrived = [p \in Procs |-> <<>>] /\ served = [p \in Procs |-> <<>>]
  /\ left \in Budgets

-----------------------------------------------------------------------------
(* The caller.                                                             *)

\* A client between calls, a handler, or a closure that a callback runs.
MayCall(p) == (p \in Clients /\ Idle(p)) \/ Doing(p, "serve") \/ Doing(p, "callback")
Fresh(c) == call[c].state = "none" /\ \A d \in Calls : d < c => call[d].state # "none"

\* register_callback and call_json (or call_json_timeout) up to the first
\* receive.  Callback ids and references come from one counter.
Call(p, q, c, timed, lend) ==
  /\ MayCall(p) /\ q \in Callees[p] /\ Fresh(c)
  /\ left.calls[p] > 0 /\ (timed => left.timed > 0) /\ (lend => left.lent > 0)
  /\ left' = [left EXCEPT !.calls[p] = @ - 1, !.timed = IF timed THEN @ - 1 ELSE @,
                          !.lent = IF lend THEN @ - 1 ELSE @]
  /\ LET id == IF lend THEN nextRef[p] ELSE NoRef
         ref == IF lend THEN nextRef[p] + 1 ELSE nextRef[p]
     IN /\ nextRef' = [nextRef EXCEPT ![p] = ref + 1]
        /\ callbacks' = [callbacks EXCEPT ![p] = IF lend THEN @ \cup {id} ELSE @]
        /\ stack' = Pushed(p, Frame("call", c, ref, id, timed))
        /\ queue' = Sent(queue, q, Message("request", c, p, ref, id))
        /\ call' = [d \in Calls |->
             CASE d = c -> [NoCall EXCEPT !.state = "open", !.from = p,
                                          !.context = context[p], !.ref = ref, !.lent = id]
               [] d # c /\ Doing(p, "callback") /\ d = Last(stack[p]).call ->
                    [call[d] EXCEPT !.nested = TRUE]
               [] OTHER -> call[d]]
  /\ arrived' = [arrived EXCEPT ![q] = Append(@, c)]
  /\ UNCHANGED <<shelf, context, served>>

\* cast: a request without a reference.
Cast(p, q, c) ==
  /\ MayCall(p) /\ q \in Callees[p] /\ Fresh(c) /\ left.casts > 0
  /\ left' = [left EXCEPT !.casts = @ - 1]
  /\ queue' = Sent(queue, q, Message("request", c, p, NoRef, NoRef))
  /\ call' = [call EXCEPT ![c] = [NoCall EXCEPT !.state = "cast", !.from = p,
                                                !.context = context[p]]]
  /\ arrived' = [arrived EXCEPT ![q] = Append(@, c)]
  /\ UNCHANGED <<shelf, stack, context, nextRef, callbacks, served>>

\* classify_reply: by reference and by shape, as another's request may have
\* the reference this call waits for.
\* Mutant: by reference alone.
IsReplyByRef(m, f) == m.kind # "callback" /\ m.ref = f.ref
IsReply(m, f) == m.kind = "reply" /\ m.ref = f.ref

\* unstash: in front of the queue, in the order of the stashing.
\* Mutant: the last one first.
UnstashedLastFirst(p, rest) == Reverse(shelf[p]) \o rest
Unstashed(p, rest) == shelf[p] \o rest

\* The call is over: unstash, unregister_callback, back to who called.
\* Mutant: a call that timed out returns before it unstashes.
EndCallEarly(p, rest, outcome, answer) ==
  LET f == Last(stack[p])
      late == outcome = "timeout"
  IN /\ queue' = [queue EXCEPT ![p] = IF late THEN rest ELSE Unstashed(p, rest)]
     /\ shelf' = [shelf EXCEPT ![p] = IF late THEN @ ELSE <<>>]
     /\ callbacks' = [callbacks EXCEPT ![p] = @ \ {f.lent}]
     /\ stack' = Popped(p)
     /\ call' = [call EXCEPT ![f.call].state = outcome, ![f.call].answer = answer]
EndCall(p, rest, outcome, answer) ==
  LET f == Last(stack[p])
  IN /\ queue' = [queue EXCEPT ![p] = Unstashed(p, rest)]
     /\ shelf' = [shelf EXCEPT ![p] = <<>>]
     /\ callbacks' = [callbacks EXCEPT ![p] = @ \ {f.lent}]
     /\ stack' = Popped(p)
     /\ call' = [call EXCEPT ![f.call].state = outcome, ![f.call].answer = answer]

\* Receiving, in a call or in a loop, binds the context of the message.
Receive(p) ==
  /\ queue[p] # <<>>
  /\ context' = [context EXCEPT ![p] = Head(queue[p]).context]

\* One turn of the loop in call_json: our reply ...
TakeReply(p) ==
  /\ Doing(p, "call") /\ Receive(p)
  /\ LET m == Head(queue[p])
     IN /\ IsReply(m, Last(stack[p]))
        /\ EndCall(p, Tail(queue[p]), "ok", m.call)
  /\ UNCHANGED <<nextRef, history, left>>
\* ... a callback: the closure is taken out of the table while it runs, and an
\* invocation of one that is not there is dropped ...
TakeCallback(p) ==
  /\ Doing(p, "call") /\ Receive(p)
  /\ LET m == Head(queue[p])
     IN /\ m.kind = "callback"
        /\ queue' = [queue EXCEPT ![p] = Tail(@)]
        /\ IF m.lent \in callbacks[p]
             THEN /\ callbacks' = [callbacks EXCEPT ![p] = @ \ {m.lent}]
                  /\ stack' = Pushed(p, Frame("callback", m.call, NoRef, m.lent, FALSE))
                  /\ call' = [call EXCEPT ![m.call].ran = @ + 1]
             ELSE UNCHANGED <<callbacks, stack, call>>
  /\ UNCHANGED <<shelf, nextRef, history, left>>
\* ... or other mail, which is stashed.
Stash(p) ==
  /\ Doing(p, "call") /\ Receive(p)
  /\ LET m == Head(queue[p])
     IN /\ m.kind # "callback" /\ ~IsReply(m, Last(stack[p]))
        /\ queue' = [queue EXCEPT ![p] = Tail(@)]
        /\ shelf' = [shelf EXCEPT ![p] = Append(@, m)]
  /\ UNCHANGED <<stack, nextRef, callbacks, call, history, left>>

\* The deadline passes between two receives or within one.  The context stays
\* that of the last message received.
Timeout(p) ==
  /\ Doing(p, "call") /\ Last(stack[p]).timed
  /\ EndCall(p, queue[p], "timeout", 0)
  /\ UNCHANGED <<context, nextRef, history, left>>

\* The closure returns and is put back.
\* Mutant: it is not.
CallbackIsSpent(p) ==
  /\ Doing(p, "callback")
  /\ stack' = Popped(p)
  /\ UNCHANGED <<mail, callbacks, context, nextRef, call, history, left>>
CallbackReturns(p) ==
  /\ Doing(p, "callback")
  /\ callbacks' = [callbacks EXCEPT ![p] = @ \cup {Last(stack[p]).lent}]
  /\ stack' = Popped(p)
  /\ UNCHANGED <<mail, context, nextRef, call, history, left>>

\* A client's own receive, between calls.
AppReceives(p) ==
  /\ p \in Clients /\ Idle(p) /\ Receive(p)
  /\ queue' = [queue EXCEPT ![p] = Tail(@)]
  /\ UNCHANGED <<shelf, stack, nextRef, callbacks, call, history, left>>

-----------------------------------------------------------------------------
(* The service.                                                            *)

\* next_request: what is not a request is skipped; so is, in effect, a
\* callback that comes too late, whose op nobody exports.
NextRequest(p) ==
  /\ p \in Services /\ Idle(p) /\ Receive(p)
  /\ LET m == Head(queue[p])
     IN /\ queue' = [queue EXCEPT ![p] = Tail(@)]
        /\ IF m.kind = "request"
             THEN /\ stack' = Pushed(p, Frame("serve", m.call, m.ref, m.lent, FALSE))
                  /\ served' = [served EXCEPT ![p] = Append(@, m.call)]
             ELSE UNCHANGED <<stack, served>>
  /\ UNCHANGED <<shelf, nextRef, callbacks, call, arrived, left>>

\* The handler invokes the closure it was lent ...
Invoke(p) ==
  /\ Doing(p, "serve") /\ left.invoked > 0
  /\ LET f == Last(stack[p])
     IN /\ f.lent # NoRef
        /\ queue' = Sent(queue, call[f.call].from, Message("callback", f.call, p, NoRef, f.lent))
        /\ call' = [call EXCEPT ![f.call].invoked = @ + 1]
  /\ left' = [left EXCEPT !.invoked = @ - 1]
  /\ UNCHANGED <<shelf, stack, context, nextRef, callbacks, history>>

\* ... and returns; reply_ok and reply_err do nothing for a cast.
Reply(p) ==
  /\ Doing(p, "serve")
  /\ LET f == Last(stack[p])
     IN queue' = IF f.ref = NoRef THEN queue
                 ELSE Sent(queue, call[f.call].from, Message("reply", f.call, p, f.ref, NoRef))
  /\ stack' = Popped(p)
  /\ UNCHANGED <<shelf, context, nextRef, callbacks, call, history, left>>

-----------------------------------------------------------------------------
Proceed(p) ==
  \/ TakeReply(p) \/ TakeCallback(p) \/ Stash(p) \/ CallbackReturns(p)
  \/ AppReceives(p) \/ NextRequest(p) \/ Reply(p)
Begin(p) ==
  \/ \E q \in Procs, c \in Calls :
       (\E timed, lend \in BOOLEAN : Call(p, q, c, timed, lend)) \/ Cast(p, q, c)
  \/ Invoke(p) \/ Timeout(p)
Next == \E p \in Procs : Proceed(p) \/ Begin(p)
Spec == Init /\ [][Next]_vars

\* A process with mail is scheduled, and handlers and closures return.  Nobody
\* has to call, to invoke a closure, or to be late.
FairSpec == Spec /\ \A p \in Procs : WF_vars(Proceed(p))

-----------------------------------------------------------------------------
(* Properties.                                                             *)

Ended(c) == call[c].state \in {"ok", "timeout"}
Below(p, i, what) == {j \in 1 .. i - 1 : stack[p][j].what = what}

\* Types, and the shape of the stacks: only a process in a call has stashed
\* mail, and an open call is on the stack of its caller, once.
TypeOK ==
  /\ context \in [Procs -> Clients \cup {NoContext}]
  /\ nextRef \in [Procs -> Nat]
  /\ \A c \in Calls : call[c].state \in {"none", "open", "cast", "ok", "timeout"}
  /\ \A p \in Procs : shelf[p] # <<>> => Below(p, Len(stack[p]) + 1, "call") # {}
  /\ \A c \in Calls : call[c].state = "open" =>
       \E i \in DOMAIN stack[call[c].from] :
         /\ stack[call[c].from][i].what = "call" /\ stack[call[c].from][i].call = c
         /\ \A j \in Below(call[c].from, i, "call") : stack[call[c].from][j].call # c

\* A call that returns has the answer to its own request, though references of
\* different processes collide and late replies to calls that timed out are
\* still about (wire.rs:147-166).  (Stated with the types of all variables.)
OwnAnswer == TypeOK /\ \A c \in Calls : call[c].state = "ok" => call[c].answer = c

\* A service takes up the requests sent to it once each and in the order they
\* were sent, however its own calls stashed them meanwhile (wire.rs:110-136).
ServedInOrder == \A p \in Services : IsPrefix(served[p], arrived[p])

\* A closure runs within the call that lent it and never after, and each
\* invocation made before the answer has run when the call returns, unless the
\* closure itself was in a call (wire.rs:195-210: it is out of the table then,
\* and the invocation is dropped).
CallbacksBelongToCall ==
  /\ \A p \in Procs : \A i \in DOMAIN stack[p] : stack[p][i].what = "callback" =>
       \E j \in Below(p, i, "call") : stack[p][j].lent = stack[p][i].lent
  /\ \A c \in Calls : call[c].state = "ok" /\ ~call[c].nested => call[c].ran = call[c].invoked

HandlesInContext(p) ==
  Doing(p, "serve") => context[p] = call[Last(stack[p]).call].context

\* A handler runs in the context of the request it handles, also after calls
\* of its own (actor.rs:387-399) - as long as none of them timed out.
ContextFollowsRequest ==
  (\A c \in Calls : call[c].state # "timeout") => \A p \in Services : HandlesInContext(p)

\* Every call is answered, through nested calls and stashed mail, if callers
\* and services do not go round in a circle.
CallsEnd == \A c \in Calls : (call[c].state = "open") ~> Ended(c)

\* (Violated.) actor.rs:389-391 - "a process's context is always exactly the
\* context of the message it is handling".
ContextOfHandled == \A p \in Services : HandlesInContext(p)
=============================================================================
