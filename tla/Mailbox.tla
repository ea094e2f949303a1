------------------------------- MODULE Mailbox -------------------------------
(***************************************************************************)
(* One process's mailbox in rusm-otp (runtime.rs): enqueue with its        *)
(* capacity check and depth counter, and the receiving Context - recv,     *)
(* recv_match, stash, unstash - with the metadata beside each message.     *)
(*                                                                         *)
(* Senders hold only a shared guard on the process entry, so the check,    *)
(* the push and the count of different senders interleave, and the         *)
(* receiver, which takes no guard at all, comes in between: it may take an *)
(* envelope that is not counted yet.  The payload is left out; an envelope *)
(* is its number, its kind and its metadata.                               *)
(***************************************************************************)
EXTENDS Integers, FiniteSetsExt, SequencesExt

CONSTANTS
  Senders,
  Capacity,     \* the mailbox capacity in user messages
  DepthMod,     \* the depth counter wraps at 2^w
  MaxSends      \* bound on the sends

ASSUME SizesAssumption ==
  /\ Capacity \in Nat /\ MaxSends \in Nat
  /\ DepthMod \in Nat /\ DepthMod > MaxSends + 1
ASSUME SendersAssumption == IsFiniteSet(Senders) /\ Senders # {}

\* A signal is a Down or an Exit; a stream is like a message that is never shed.
Kinds == {"message", "signal"}
NoMeta == 0
NoEnvelope == [id |-> 0, kind |-> "none", meta |-> NoMeta]

VARIABLES
  open,       \* the receiver exists
  channel,    \* what was sent and not taken
  saved,      \* Context.saved
  deferred,   \* Context.deferred
  meta,       \* Context.current_meta
  held,       \* the envelope received last, until the process stashes it
  at,         \* where the receiver is
  wanted,     \* the kinds a recv_match waits for
  depth,      \* the depth counter
  dropped,    \* Inner.dropped
  sender,     \* what each sender is about to do with its envelope
  sends,      \* number of sends so far (for the bound and the numbering)
  arrived,    \* history: what was pushed, in order
  stashed     \* history: something was stashed

receiver == <<saved, deferred, meta, held, at, wanted, stashed>>
vars == <<open, channel, receiver, depth, dropped, sender, sends, arrived>>

IdleSender == [step |-> "idle", item |-> NoEnvelope]
\* Metadata rides with a message only; that of message i is i.
MetaOf(i, kind) == IF kind = "message" THEN i ELSE NoMeta

Init ==
  /\ open = TRUE /\ channel = <<>> /\ saved = <<>> /\ deferred = <<>>
  /\ meta = NoMeta /\ held = NoEnvelope /\ at = "idle" /\ wanted = {}
  /\ depth = 0 /\ dropped = 0 /\ sends = 0
  /\ sender = [s \in Senders |-> IdleSender]
  /\ arrived = <<>> /\ stashed = FALSE

-----------------------------------------------------------------------------
(* Sending: enqueue, in three steps.                                       *)

\* Mutant: the capacity is one more than it says.
CheckOneMore(s, kind) ==
  LET id == sends + 1
      item == [id |-> id, kind |-> kind, meta |-> MetaOf(id, kind)]
  IN /\ sender[s].step = "idle"
     /\ sends < MaxSends
     /\ sends' = id
     /\ IF kind = "message" /\ depth > Capacity
        THEN dropped' = dropped + 1 /\ UNCHANGED sender
        ELSE /\ sender' = [sender EXCEPT ![s] = [step |-> "push", item |-> item]]
             /\ UNCHANGED dropped
     /\ UNCHANGED <<open, channel, receiver, depth, arrived>>

\* A user message is shed when the counter says that the mailbox is full.
Check(s, kind) ==
  LET id == sends + 1
      item == [id |-> id, kind |-> kind, meta |-> MetaOf(id, kind)]
  IN /\ sender[s].step = "idle"
     /\ sends < MaxSends
     /\ sends' = id
     /\ IF kind = "message" /\ depth >= Capacity
        THEN dropped' = dropped + 1 /\ UNCHANGED sender
        ELSE /\ sender' = [sender EXCEPT ![s] = [step |-> "push", item |-> item]]
             /\ UNCHANGED dropped
     /\ UNCHANGED <<open, channel, receiver, depth, arrived>>

\* The send fails if the receiver is gone.
Push(s) ==
  /\ sender[s].step = "push"
  /\ IF open
     THEN /\ channel' = Append(channel, sender[s].item)
          /\ arrived' = Append(arrived, sender[s].item)
          /\ sender' = [sender EXCEPT ![s].step = "count"]
     ELSE /\ sender' = [sender EXCEPT ![s] = IdleSender]
          /\ UNCHANGED <<channel, arrived>>
  /\ UNCHANGED <<open, receiver, depth, dropped, sends>>

Count(s) ==
  /\ sender[s].step = "count"
  /\ depth' = (depth + 1) % DepthMod
  /\ sender' = [sender EXCEPT ![s] = IdleSender]
  /\ UNCHANGED <<open, channel, receiver, dropped, sends, arrived>>

-----------------------------------------------------------------------------
(* Receiving.                                                              *)

\* The envelope e is the receiver's, and still to be counted out.
Accept(e) ==
  /\ at' = "took"
  /\ held' = e

\* recv: the front of the save queue, or wait for the channel.
Recv ==
  /\ open /\ at = "idle"
  /\ IF saved # <<>>
     THEN Accept(Head(saved)) /\ saved' = Tail(saved) /\ UNCHANGED wanted
     ELSE at' = "await" /\ wanted' = Kinds /\ UNCHANGED <<saved, held>>
  /\ UNCHANGED <<open, channel, deferred, meta, stashed, depth, dropped,
                 sender, sends, arrived>>

\* recv_match: the oldest saved envelope that matches, or wait.
Matches(kinds) == SelectInSeq(saved, LAMBDA e : e.kind \in kinds)
RecvMatch(kinds) ==
  /\ open /\ at = "idle"
  /\ IF Matches(kinds) > 0
     THEN /\ Accept(saved[Matches(kinds)])
          /\ saved' = RemoveAt(saved, Matches(kinds))
          /\ UNCHANGED wanted
     ELSE /\ at' = "await" /\ wanted' = kinds
          /\ UNCHANGED <<saved, held>>
  /\ UNCHANGED <<open, channel, deferred, meta, stashed, depth, dropped,
                 sender, sends, arrived>>

\* Mutant: what is not wanted goes to the front.
FromChannelToFront ==
  /\ at = "await" /\ channel # <<>>
  /\ channel' = Tail(channel)
  /\ IF Head(channel).kind \in wanted
     THEN /\ Accept(Head(channel))
          /\ UNCHANGED saved
     ELSE /\ saved' = <<Head(channel)>> \o saved
          /\ UNCHANGED <<at, held>>
  /\ UNCHANGED <<open, deferred, meta, wanted, stashed, depth, dropped, sender,
                 sends, arrived>>
\* The next envelope of the channel: taken if wanted, else saved.
FromChannel ==
  /\ at = "await" /\ channel # <<>>
  /\ channel' = Tail(channel)
  /\ IF Head(channel).kind \in wanted
     THEN /\ Accept(Head(channel))
          /\ UNCHANGED saved
     ELSE /\ saved' = Append(saved, Head(channel))
          /\ UNCHANGED <<at, held>>
  /\ UNCHANGED <<open, deferred, meta, wanted, stashed, depth, dropped, sender,
                 sends, arrived>>

\* Mutant: a message without metadata leaves the last one's in place.
ConsumedKeepsMeta ==
  /\ at = "took"
  /\ depth' = (depth + DepthMod - 1) % DepthMod
  /\ meta' = IF held.meta = NoMeta THEN meta ELSE held.meta
  /\ at' = "idle"
  /\ UNCHANGED <<open, channel, saved, deferred, held, wanted, stashed,
                 dropped, sender, sends, arrived>>

\* note_consumed, and the metadata of what was received.
Consumed ==
  /\ at = "took"
  /\ depth' = (depth + DepthMod - 1) % DepthMod
  /\ meta' = held.meta
  /\ at' = "idle"
  /\ UNCHANGED <<open, channel, saved, deferred, held, wanted, stashed,
                 dropped, sender, sends, arrived>>

\* A receive with a deadline is dropped while it waits.
Timeout ==
  /\ at = "await"
  /\ at' = "idle"
  /\ UNCHANGED <<open, channel, saved, deferred, meta, held, wanted,
                 stashed, depth, dropped, sender, sends, arrived>>

\* Mutant: a stashed message is not counted in again.
StashUncounted ==
  /\ open /\ at = "idle" /\ held # NoEnvelope
  /\ deferred' = Append(deferred,
                        [id |-> held.id, kind |-> "message", meta |-> meta])
  /\ held' = NoEnvelope
  /\ stashed' = TRUE
  /\ UNCHANGED <<open, channel, saved, meta, at, wanted,
                 depth, dropped, sender, sends, arrived>>

\* stash: what was just received is set aside as a message, with the metadata
\* of the last receive.
Stash ==
  /\ open /\ at = "idle" /\ held # NoEnvelope
  /\ deferred' = Append(deferred,
                        [id |-> held.id, kind |-> "message", meta |-> meta])
  /\ depth' = (depth + 1) % DepthMod
  /\ held' = NoEnvelope
  /\ stashed' = TRUE
  /\ UNCHANGED <<open, channel, saved, meta, at, wanted,
                 dropped, sender, sends, arrived>>

\* unstash: everything set aside, to the front of the save queue.  Its caller,
\* the guest SDK's call loop, is done with the reply it received last.
Unstash ==
  /\ open /\ at = "idle"
  /\ saved' = deferred \o saved
  /\ deferred' = <<>>
  /\ held' = NoEnvelope
  /\ UNCHANGED <<open, channel, meta, at, wanted, stashed, depth,
                 dropped, sender, sends, arrived>>

\* The body is over: the Context is dropped, and all that is in it.
Close ==
  /\ open /\ at # "took"
  /\ open' = FALSE /\ at' = "idle"
  /\ UNCHANGED <<channel, saved, deferred, meta, held, wanted, stashed,
                 depth, dropped, sender, sends, arrived>>

-----------------------------------------------------------------------------
Next ==
  \/ \E s \in Senders, kind \in Kinds : Check(s, kind)
  \/ \E s \in Senders : Push(s)
  \/ \E s \in Senders : Count(s)
  \/ \E kinds \in {{"message"}, {"signal"}} : RecvMatch(kinds)
  \/ Recv \/ FromChannel \/ Consumed \/ Timeout \/ Stash \/ Unstash \/ Close

Spec == Init /\ [][Next]_vars

-----------------------------------------------------------------------------
(* Properties.                                                             *)

Envelope == [id : 1 .. MaxSends, kind : Kinds, meta : 0 .. MaxSends]

TypeOK ==
  /\ open \in BOOLEAN /\ stashed \in BOOLEAN
  /\ channel \in Seq(Envelope)
  /\ saved \in Seq(Envelope) /\ deferred \in Seq(Envelope)
  /\ held \in Envelope \cup {NoEnvelope} /\ (at = "took" => held # NoEnvelope)
  /\ meta \in 0 .. MaxSends
  /\ at \in {"idle", "await", "took"} /\ wanted \subseteq Kinds
  /\ depth \in 0 .. DepthMod - 1 /\ dropped \in Nat
  /\ sender \in [Senders -> [step : {"idle", "push", "count"},
                             item : Envelope \cup {NoEnvelope}]]
  /\ sends \in 0 .. MaxSends
  /\ arrived \in Seq(Envelope)

Inside == deferred \o saved \o channel
\* A message is received with the metadata it was sent with, the second time
\* as the first, and a signal with none.
MetaStaysWithMessage ==
  /\ \A i \in DOMAIN Inside : \E k \in DOMAIN arrived :
       arrived[k].id = Inside[i].id /\ arrived[k].meta = Inside[i].meta
  /\ at = "idle" /\ held # NoEnvelope => meta = held.meta

\* The counter is exact but for the steps between a push and its count, and
\* between a receive and note_consumed: no stash, unstash or timeout lets it
\* drift.  (Stated with the types of all variables.)
InFlight(step) == {s \in Senders : sender[s].step = step}
DepthExact ==
  /\ TypeOK
  /\ open => LET size == Len(Inside) + (IF at = "took" THEN 1 ELSE 0)
                 uncounted == Cardinality(InFlight("count"))
             IN (depth + uncounted) % DepthMod = size % DepthMod

\* The capacity is overshot by at most one message for each other sender past
\* its check, and by one that is stashed after another took its place.
MessagesInside == {i \in DOMAIN Inside : Inside[i].meta # NoMeta}
BoundedOvershoot ==
  Cardinality(MessagesInside)
    <= Capacity + Cardinality(Senders) - (IF stashed THEN 0 ELSE 1)

\* The mailbox implements the selective receive of one queue in arrival order.
Promise == INSTANCE SelectiveReceive WITH
  Replayed <- "message",
  Envelopes <- Envelope,
  queue <- saved \o channel,
  aside <- deferred,
  last <- held
ImplementsSelectiveReceive == Promise!Spec

\* runtime.rs:337 of enqueue: "once a bounded mailbox is at capacity, shed
\* further user messages": none is shed while there is room, the one being
\* counted out counted in.
ShedOnlyAtCapacity ==
  [][dropped' # dropped
       => Len(Inside) + (IF at = "took" THEN 1 ELSE 0) >= Capacity]_vars

=============================================================================
