-------------------------- MODULE SelectiveReceive --------------------------
(***************************************************************************)
(* What a mailbox promises its process: one queue in arrival order, from   *)
(* which a receive takes the oldest envelope it wants, whatever came in    *)
(* between; and a shelf, from which everything goes back to the front of   *)
(* the queue in the order it was put there, each with its own metadata.    *)
(***************************************************************************)
EXTENDS Naturals, SequencesExt

CONSTANTS
  Kinds,        \* what a receive can tell envelopes apart by
  Replayed,     \* the kind an envelope has after it was put aside
  Envelopes,    \* the envelopes that may arrive: records with a field kind
  NoEnvelope

VARIABLES
  queue,        \* what the process has not received yet
  aside,        \* what it put aside
  last          \* what it received last, until it is put aside

svars == <<queue, aside, last>>

Init == queue = <<>> /\ aside = <<>> /\ last = NoEnvelope

Arrive ==
  /\ \E e \in Envelopes : queue' = Append(queue, e)
  /\ UNCHANGED <<aside, last>>

\* The oldest envelope of one of the wanted kinds.
Take(wanted) ==
  \E i \in DOMAIN queue :
    /\ queue[i].kind \in wanted
    /\ \A j \in 1 .. i - 1 : queue[j].kind \notin wanted
    /\ last' = queue[i]
    /\ queue' = RemoveAt(queue, i)
    /\ UNCHANGED aside

PutAside ==
  /\ last # NoEnvelope
  /\ aside' = Append(aside, [last EXCEPT !.kind = Replayed])
  /\ last' = NoEnvelope
  /\ UNCHANGED queue

PutBack ==
  /\ queue' = aside \o queue
  /\ aside' = <<>>
  /\ last' = NoEnvelope

Next == Arrive \/ PutAside \/ PutBack \/ \E wanted \in SUBSET Kinds : Take(wanted)

Spec == Init /\ [][Next]_svars
=============================================================================
