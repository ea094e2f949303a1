---------------------------- MODULE DeliveryProofs ----------------------------
(***************************************************************************)
(* What holds, for every value of their bounds, of the two components that  *)
(* hold messages for a reader.  Of the SSE bridge (EventStream): the limit  *)
(* bounds the handlers, and what the client gets is in order and whole.  Of *)
(* the mailbox (Mailbox): its types, the exactness of its depth counter,    *)
(* that metadata stays with its message, how far the capacity is overshot,  *)
(* and that it implements SelectiveReceive.  The two share no variable, and *)
(* the lemmas of each stand under its heading.                              *)
(***************************************************************************)
EXTENDS Mailbox, EventStream, SequenceTheorems, FunctionTheorems, FiniteSetTheorems, TLAPS

(***************************************************************************)
(* The SSE bridge.                                                         *)
(*                                                                         *)
(* ShapeInv is the inductive invariant of its processes, permits and reaps, *)
(* and gives CapBoundsHandlers.  FlowOK, inductive with it, says of each    *)
(* stream that what waits for the writer is the last of what was sent, that *)
(* the body has what comes before that, and the client what comes before    *)
(* the body: it gives RichEventsArrive.                                     *)
(***************************************************************************)

Mails == [kind : {"plain"}, n : Nat] \cup {Down}
Events == [kind : EventKinds, n : Nat]

\* A list with an element more at its end, and with one less at its front.
LEMMA Appended ==
  ASSUME NEW S, NEW q \in Seq(S), NEW e \in S
  PROVE  /\ Append(q, e) \in Seq(S) /\ Append(q, e) # <<>>
         /\ Len(q) \in Nat /\ Len(Append(q, e)) = Len(q) + 1
         /\ DOMAIN q = 1 .. Len(q) /\ DOMAIN Append(q, e) = 1 .. Len(q) + 1
         /\ \A i \in 1 .. Len(q) : Append(q, e)[i] = q[i]
         /\ Append(q, e)[Len(q) + 1] = e
<1>1. Append(q, e) \in Seq(S) /\ Len(Append(q, e)) = Len(q) + 1
  BY AppendProperties
<1>2. DOMAIN q = 1 .. Len(q) /\ DOMAIN Append(q, e) = 1 .. Len(Append(q, e)) /\ Len(q) \in Nat
  BY <1>1, LenProperties
<1> QED BY <1>1, <1>2, AppendProperties

LEMMA Beheaded ==
  ASSUME NEW S, NEW q \in Seq(S), q # <<>>
  PROVE  /\ Head(q) \in S /\ Tail(q) \in Seq(S) /\ Head(q) = q[1]
         /\ Len(q) \in Nat \ {0} /\ Len(Tail(q)) = Len(q) - 1
         /\ DOMAIN q = 1 .. Len(q) /\ DOMAIN Tail(q) = 1 .. Len(q) - 1
         /\ \A i \in 1 .. Len(q) - 1 : Tail(q)[i] = q[i + 1]
<1>1. Head(q) \in S /\ Tail(q) \in Seq(S) /\ Len(Tail(q)) = Len(q) - 1
  BY HeadTailProperties
<1>2. DOMAIN q = 1 .. Len(q) /\ DOMAIN Tail(q) = 1 .. Len(Tail(q)) /\ Len(q) \in Nat \ {0}
  BY <1>1, LenProperties, EmptySeq
<1>3. Head(q) = q[1]
  BY <1>2
<1> QED BY <1>1, <1>2, <1>3, HeadTailProperties

-----------------------------------------------------------------------------
(* Numbers on a queue.                                                     *)

Rich(n) == [kind |-> "rich", n |-> n]
Plain(n) == [kind |-> "plain", n |-> n]

\* How many events are before the Down, if that is there.
PlainsOf(q) == IF q # <<>> /\ q[Len(q)] = Down THEN Len(q) - 1 ELSE Len(q)
\* The last numbers up to top, and after them nothing but the Down.
LastPlains(q, top) ==
  \A i \in DOMAIN q : q[i] = IF i <= PlainsOf(q) THEN Plain(top - PlainsOf(q) + i) ELSE Down
LastRich(q, top) == \A i \in DOMAIN q : q[i] = Rich(top - Len(q) + i)
InOrder(got) == \A i \in DOMAIN got : got[i] = i
\* Of one kind, the queue has what follows on what was got, up to m, in order.
Upto(got, queue, kind, m) ==
  /\ Len(got) <= m
  /\ \A i \in DOMAIN queue : queue[i].kind = kind => queue[i].n \in Len(got) + 1 .. m
  /\ \A i, j \in DOMAIN queue :
       queue[i].kind = kind /\ queue[j].kind = kind /\ i < j => queue[i].n < queue[j].n
  /\ \A n \in Len(got) + 1 .. m : \E i \in DOMAIN queue : queue[i] = [kind |-> kind, n |-> n]

LEMMA DownApart == \A n : Plain(n) # Down
BY DEF Plain, Down

\* What the body gets is the next of its kind ...
LEMMA UptoAppends ==
  ASSUME NEW got \in Seq(Nat), NEW q \in Seq(Events), NEW kind \in EventKinds,
         NEW m \in Nat, Upto(got, q, kind, m)
  PROVE  Upto(got, Append(q, [kind |-> kind, n |-> m + 1]), kind, m + 1)
<1> DEFINE e == [kind |-> kind, n |-> m + 1]
           r == Append(q, e)
<1>1. e \in Events /\ Len(got) \in Nat
  BY LenProperties DEF Events
<1>2. /\ Len(q) \in Nat /\ DOMAIN q = 1 .. Len(q) /\ DOMAIN r = 1 .. Len(q) + 1
      /\ \A i \in 1 .. Len(q) : r[i] = q[i]
      /\ r[Len(q) + 1] = e
  BY <1>1, Appended
<1>3. e.kind = kind /\ e.n = m + 1
  OBVIOUS
<1>4. \A i \in 1 .. Len(q) : q[i] \in Events
  BY <1>1, ElementOfSeq
<1> HIDE DEF r, e
<1>5. Len(got) <= m + 1
  BY <1>1 DEF Upto
<1>6. \A i \in DOMAIN r : r[i].kind = kind => r[i].n \in Len(got) + 1 .. m + 1
  BY <1>1, <1>2, <1>3 DEF Upto
<1>7. ASSUME NEW i \in DOMAIN r, NEW j \in DOMAIN r, r[i].kind = kind, r[j].kind = kind, i < j
      PROVE  r[i].n < r[j].n
  <2>1. i \in 1 .. Len(q)
    BY <1>2, <1>7
  <2>2. CASE j \in 1 .. Len(q)
    BY <1>2, <1>7, <2>1, <2>2 DEF Upto
  <2>3. CASE j = Len(q) + 1
    <3>1. q[i].n \in Len(got) + 1 .. m
      BY <1>2, <1>7, <2>1 DEF Upto
    <3> QED BY <1>1, <1>2, <1>3, <2>1, <2>3, <3>1
  <2> QED BY <1>2, <2>2, <2>3
<1>8. ASSUME NEW n \in Len(got) + 1 .. m + 1
      PROVE  \E i \in DOMAIN r : r[i] = [kind |-> kind, n |-> n]
  <2>1. CASE n = m + 1
    BY <1>2, <2>1 DEF e
  <2>2. CASE n # m + 1
    <3>1. n \in Len(got) + 1 .. m
      BY <1>1, <1>8, <2>2
    <3>2. PICK i \in DOMAIN q : q[i] = [kind |-> kind, n |-> n]
      BY <3>1 DEF Upto
    <3> QED BY <1>2, <3>2
  <2> QED BY <2>1, <2>2
<1>9. Upto(got, r, kind, m + 1)
  BY <1>5, <1>6, <1>7, <1>8 DEF Upto
<1> QED BY <1>9 DEF r, e

\* ... and of another kind nothing.
LEMMA UptoOther ==
  ASSUME NEW got \in Seq(Nat), NEW q \in Seq(Events), NEW e \in Events, NEW kind \in EventKinds,
         e.kind # kind, NEW m \in Nat, Upto(got, q, kind, m)
  PROVE  Upto(got, Append(q, e), kind, m)
<1> DEFINE r == Append(q, e)
<1>1. /\ Len(q) \in Nat /\ DOMAIN q = 1 .. Len(q) /\ DOMAIN r = 1 .. Len(q) + 1
      /\ \A i \in 1 .. Len(q) : r[i] = q[i]
      /\ r[Len(q) + 1] = e
  BY Appended
<1> HIDE DEF r
<1>2. \A i \in DOMAIN r : r[i].kind = kind => i \in DOMAIN q /\ r[i] = q[i]
  BY <1>1
<1>3. \A i \in DOMAIN q : i \in DOMAIN r /\ r[i] = q[i]
  BY <1>1
<1>4. Upto(got, r, kind, m)
  BY <1>2, <1>3 DEF Upto
<1> QED BY <1>4 DEF r

\* The client gets the next of its kind ...
LEMMA UptoDelivers ==
  ASSUME NEW got \in Seq(Nat), NEW q \in Seq(Events), q # <<>>, NEW m \in Nat,
         Upto(got, q, Head(q).kind, m)
  PROVE  /\ Head(q).n = Len(got) + 1 /\ Len(got) + 1 <= m
         /\ Upto(Append(got, Head(q).n), Tail(q), Head(q).kind, m)
<1> DEFINE e == Head(q)
           r == Tail(q)
           got1 == Append(got, e.n)
<1>1. /\ e \in Events /\ e = q[1] /\ Len(q) \in Nat \ {0}
      /\ DOMAIN q = 1 .. Len(q) /\ DOMAIN r = 1 .. Len(q) - 1
      /\ \A i \in 1 .. Len(q) - 1 : r[i] = q[i + 1]
  BY Beheaded
<1>2. e.n \in Nat
  BY <1>1 DEF Events
<1>3. Len(got) \in Nat /\ Len(got1) = Len(got) + 1
  BY <1>2, Appended
<1> HIDE DEF e, r, got1
<1>4. Upto(got, q, e.kind, m)
  BY DEF e
<1>5. e.n \in Len(got) + 1 .. m
  BY <1>1, <1>4 DEF Upto
<1>6. e.n = Len(got) + 1
  <2>1. PICK i \in DOMAIN q : q[i] = [kind |-> e.kind, n |-> Len(got) + 1]
    <3>1. Len(got) + 1 \in Len(got) + 1 .. m
      BY <1>3, <1>5
    <3> QED BY <1>4, <3>1 DEF Upto
  <2>2. q[i].kind = e.kind /\ q[i].n = Len(got) + 1
    BY <2>1
  <2>3. CASE i = 1
    BY <1>1, <2>2, <2>3
  <2>4. CASE i > 1
    <3>1. q[1].n < q[i].n
      <4>1. 1 \in DOMAIN q /\ q[1].kind = e.kind /\ q[i].kind = e.kind /\ 1 < i
        BY <1>1, <2>2, <2>4
      <4> QED BY <1>4, <2>1, <4>1 DEF Upto
    <3> QED BY <1>1, <1>3, <1>5, <2>2, <3>1
  <2> QED BY <1>1, <2>3, <2>4
<1>7. \A i \in DOMAIN r : r[i].kind = e.kind => r[i].n \in Len(got1) + 1 .. m
  <2> SUFFICES ASSUME NEW i \in DOMAIN r, r[i].kind = e.kind PROVE r[i].n \in Len(got1) + 1 .. m
    OBVIOUS
  <2>1. i + 1 \in DOMAIN q /\ 1 \in DOMAIN q /\ i + 1 > 1 /\ r[i] = q[i + 1]
    BY <1>1
  <2>2. q[1].n < q[i + 1].n /\ q[i + 1].n \in Len(got) + 1 .. m
    BY <1>1, <1>4, <2>1 DEF Upto
  <2> QED BY <1>1, <1>3, <1>6, <2>1, <2>2
<1>8. \A i, j \in DOMAIN r :
        r[i].kind = e.kind /\ r[j].kind = e.kind /\ i < j => r[i].n < r[j].n
  <2> SUFFICES ASSUME NEW i \in DOMAIN r, NEW j \in DOMAIN r, r[i].kind = e.kind,
                      r[j].kind = e.kind, i < j
               PROVE  r[i].n < r[j].n
    OBVIOUS
  <2>1. /\ i + 1 \in DOMAIN q /\ j + 1 \in DOMAIN q /\ i + 1 < j + 1
        /\ r[i] = q[i + 1] /\ r[j] = q[j + 1]
    BY <1>1
  <2> QED BY <1>4, <2>1 DEF Upto
<1>9. \A n \in Len(got1) + 1 .. m : \E i \in DOMAIN r : r[i] = [kind |-> e.kind, n |-> n]
  <2> SUFFICES ASSUME NEW n \in Len(got1) + 1 .. m
               PROVE  \E i \in DOMAIN r : r[i] = [kind |-> e.kind, n |-> n]
    OBVIOUS
  <2>1. n \in Len(got) + 1 .. m /\ n # e.n
    BY <1>3, <1>6
  <2>2. PICK i \in DOMAIN q : q[i] = [kind |-> e.kind, n |-> n]
    BY <1>4, <2>1 DEF Upto
  <2>3. i # 1
    BY <1>1, <2>1, <2>2
  <2>4. i - 1 \in DOMAIN r /\ r[i - 1] = q[i]
    BY <1>1, <2>2, <2>3
  <2> QED BY <2>2, <2>4
<1>10. Len(got1) <= m
  BY <1>3, <1>5, <1>6
<1>11. Upto(got1, r, e.kind, m)
  BY <1>7, <1>8, <1>9, <1>10 DEF Upto
<1> QED BY <1>3, <1>6, <1>10, <1>11 DEF e, r, got1

\* ... and of another kind nothing.
LEMMA UptoStays ==
  ASSUME NEW got \in Seq(Nat), NEW q \in Seq(Events), q # <<>>, NEW kind \in EventKinds,
         Head(q).kind # kind, NEW m \in Nat, Upto(got, q, kind, m)
  PROVE  Upto(got, Tail(q), kind, m)
<1> DEFINE r == Tail(q)
<1>1. /\ Head(q) = q[1] /\ Len(q) \in Nat \ {0}
      /\ DOMAIN q = 1 .. Len(q) /\ DOMAIN r = 1 .. Len(q) - 1
      /\ \A i \in 1 .. Len(q) - 1 : r[i] = q[i + 1]
  BY Beheaded
<1> HIDE DEF r
<1>2. \A i \in DOMAIN r : i + 1 \in DOMAIN q /\ r[i] = q[i + 1]
  BY <1>1
<1>3. \A i \in DOMAIN q : q[i].kind = kind => i - 1 \in DOMAIN r /\ r[i - 1] = q[i]
  BY <1>1
<1>4. \A i \in DOMAIN r : r[i].kind = kind => r[i].n \in Len(got) + 1 .. m
  BY <1>2 DEF Upto
<1>5. \A i, j \in DOMAIN r :
        r[i].kind = kind /\ r[j].kind = kind /\ i < j => r[i].n < r[j].n
  <2> SUFFICES ASSUME NEW i \in DOMAIN r, NEW j \in DOMAIN r, r[i].kind = kind,
                      r[j].kind = kind, i < j
               PROVE  r[i].n < r[j].n
    OBVIOUS
  <2>1. i + 1 < j + 1
    BY <1>1
  <2> QED BY <1>2, <2>1 DEF Upto
<1>6. \A n \in Len(got) + 1 .. m : \E i \in DOMAIN r : r[i] = [kind |-> kind, n |-> n]
  <2> SUFFICES ASSUME NEW n \in Len(got) + 1 .. m
               PROVE  \E i \in DOMAIN r : r[i] = [kind |-> kind, n |-> n]
    OBVIOUS
  <2>1. PICK i \in DOMAIN q : q[i] = [kind |-> kind, n |-> n]
    BY DEF Upto
  <2>2. q[i].kind = kind
    BY <2>1
  <2> QED BY <1>3, <2>1, <2>2
<1>7. Upto(got, r, kind, m)
  BY <1>4, <1>5, <1>6 DEF Upto
<1> QED BY <1>7 DEF r

\* What is in order stays so with the next number after it.
LEMMA OrderGrows ==
  ASSUME NEW got \in Seq(Nat), InOrder(got)
  PROVE  /\ InOrder(Append(got, Len(got) + 1))
         /\ Append(got, Len(got) + 1) \in Seq(Nat)
         /\ Len(Append(got, Len(got) + 1)) = Len(got) + 1
<1>1. Len(got) \in Nat
  BY LenProperties
<1> QED BY <1>1, Appended DEF InOrder

\* The channel of rich events, sent to and taken from.
LEMMA RichSent ==
  ASSUME NEW q \in Seq(Events), NEW top \in Nat, LastRich(q, top)
  PROVE  LastRich(Append(q, Rich(top + 1)), top + 1)
<1>1. Rich(top + 1) \in Events
  BY DEF Rich, Events, EventKinds
<1> DEFINE r == Append(q, Rich(top + 1))
<1>2. /\ Len(q) \in Nat /\ Len(r) = Len(q) + 1
      /\ DOMAIN q = 1 .. Len(q) /\ DOMAIN r = 1 .. Len(q) + 1
      /\ \A i \in 1 .. Len(q) : r[i] = q[i]
      /\ r[Len(q) + 1] = Rich(top + 1)
  BY <1>1, Appended
<1> HIDE DEF r
<1>3. ASSUME NEW i \in DOMAIN r PROVE r[i] = Rich(top + 1 - Len(r) + i)
  <2>1. CASE i \in DOMAIN q
    <3>1. r[i] = Rich(top - Len(q) + i)
      BY <1>2, <2>1 DEF LastRich
    <3>2. top + 1 - Len(r) + i = top - Len(q) + i
      BY <1>2, <2>1
    <3> QED BY <3>1, <3>2
  <2>2. CASE i = Len(q) + 1
    <3>1. top + 1 - Len(r) + i = top + 1
      BY <1>2, <2>2
    <3> QED BY <1>2, <2>2, <3>1
  <2> QED BY <1>2, <2>1, <2>2
<1> QED BY <1>3 DEF LastRich, r

LEMMA RichTaken ==
  ASSUME NEW q \in Seq(Events), NEW top \in Nat, q # <<>>, LastRich(q, top)
  PROVE  /\ Head(q) = Rich(top - Len(q) + 1) /\ LastRich(Tail(q), top)
         /\ Tail(q) \in Seq(Events) /\ Len(Tail(q)) = Len(q) - 1 /\ Len(q) \in Nat \ {0}
<1> DEFINE r == Tail(q)
<1>1. /\ Head(q) = q[1] /\ Len(q) \in Nat \ {0} /\ Len(r) = Len(q) - 1 /\ r \in Seq(Events)
      /\ DOMAIN q = 1 .. Len(q) /\ DOMAIN r = 1 .. Len(q) - 1
      /\ \A i \in 1 .. Len(q) - 1 : r[i] = q[i + 1]
  BY Beheaded
<1> HIDE DEF r
<1>2. ASSUME NEW i \in DOMAIN r PROVE r[i] = Rich(top - Len(r) + i)
  <2>1. r[i] = Rich(top - Len(q) + (i + 1))
    BY <1>1 DEF LastRich
  <2>2. top - Len(q) + (i + 1) = top - Len(r) + i
    BY <1>1
  <2> QED BY <2>1, <2>2
<1>3. Head(q) = Rich(top - Len(q) + 1)
  BY <1>1 DEF LastRich
<1> QED BY <1>1, <1>2, <1>3 DEF LastRich, r

\* The mailbox: an event comes while there is no Down, then the Down, and what
\* is taken is the next event or the Down.
NoDown(q) == Down \notin ToSet(q)

LEMMA PlainsParts ==
  ASSUME NEW q \in Seq(Mails)
  PROVE  /\ Len(q) \in Nat /\ DOMAIN q = 1 .. Len(q)
         /\ PlainsOf(q) \in 0 .. Len(q)
         /\ NoDown(q) => PlainsOf(q) = Len(q)
<1>1. Len(q) \in Nat /\ DOMAIN q = 1 .. Len(q)
  BY LenProperties
<1>2. q # <<>> => Len(q) \in Nat \ {0}
  BY EmptySeq
<1>3. PlainsOf(q) \in 0 .. Len(q)
  BY <1>1, <1>2 DEF PlainsOf
<1>4. ASSUME NoDown(q) PROVE PlainsOf(q) = Len(q)
  <2>1. q # <<>> => q[Len(q)] # Down
    <3>1. q # <<>> => Len(q) \in DOMAIN q
      BY <1>1, <1>2
    <3> QED BY <1>4, <3>1 DEF NoDown, ToSet
  <2> QED BY <2>1 DEF PlainsOf
<1> QED BY <1>1, <1>3, <1>4

LEMMA PlainSent ==
  ASSUME NEW q \in Seq(Mails), NEW top \in Nat, NoDown(q), LastPlains(q, top)
  PROVE  /\ LastPlains(Append(q, Plain(top + 1)), top + 1)
         /\ PlainsOf(Append(q, Plain(top + 1))) = PlainsOf(q) + 1
         /\ NoDown(Append(q, Plain(top + 1)))
<1>1. Plain(top + 1) \in Mails
  BY DEF Plain, Mails
<1> DEFINE r == Append(q, Plain(top + 1))
<1>2. /\ Len(q) \in Nat /\ Len(r) = Len(q) + 1 /\ r \in Seq(Mails)
      /\ DOMAIN q = 1 .. Len(q) /\ DOMAIN r = 1 .. Len(q) + 1
      /\ \A i \in 1 .. Len(q) : r[i] = q[i]
      /\ r[Len(q) + 1] = Plain(top + 1)
  BY <1>1, Appended
<1> HIDE DEF r
<1>3. NoDown(r)
  BY <1>2, DownApart DEF NoDown, ToSet
<1>4. PlainsOf(q) = Len(q) /\ PlainsOf(r) = Len(q) + 1
  BY <1>2, <1>3, PlainsParts
<1>5. ASSUME NEW i \in DOMAIN r
      PROVE  r[i] = IF i <= PlainsOf(r) THEN Plain(top + 1 - PlainsOf(r) + i) ELSE Down
  <2>1. CASE i \in DOMAIN q
    <3>1. r[i] = Plain(top - Len(q) + i)
      BY <1>2, <1>4, <2>1 DEF LastPlains
    <3>2. top + 1 - PlainsOf(r) + i = top - Len(q) + i /\ i <= PlainsOf(r)
      BY <1>2, <1>4, <2>1
    <3> QED BY <3>1, <3>2
  <2>2. CASE i = Len(q) + 1
    <3>1. top + 1 - PlainsOf(r) + i = top + 1 /\ i <= PlainsOf(r)
      BY <1>2, <1>4, <2>2
    <3> QED BY <1>2, <2>2, <3>1
  <2> QED BY <1>2, <2>1, <2>2
<1> QED BY <1>3, <1>4, <1>5 DEF LastPlains, r

LEMMA DownSent ==
  ASSUME NEW q \in Seq(Mails), NEW top \in Nat, NoDown(q), LastPlains(q, top)
  PROVE  LastPlains(Append(q, Down), top) /\ PlainsOf(Append(q, Down)) = PlainsOf(q)
<1>1. Down \in Mails
  BY DEF Down, Mails
<1> DEFINE r == Append(q, Down)
<1>2. /\ Len(q) \in Nat /\ Len(r) = Len(q) + 1 /\ r # <<>>
      /\ DOMAIN q = 1 .. Len(q) /\ DOMAIN r = 1 .. Len(q) + 1
      /\ \A i \in 1 .. Len(q) : r[i] = q[i]
      /\ r[Len(q) + 1] = Down
  BY <1>1, Appended
<1> HIDE DEF r
<1>3. PlainsOf(q) = Len(q) /\ PlainsOf(r) = Len(q)
  <2>1. PlainsOf(q) = Len(q)
    BY PlainsParts
  <2>2. r[Len(r)] = Down /\ Len(r) - 1 = Len(q)
    BY <1>2
  <2> QED BY <1>2, <2>1, <2>2 DEF PlainsOf
<1>4. ASSUME NEW i \in DOMAIN r
      PROVE  r[i] = IF i <= PlainsOf(r) THEN Plain(top - PlainsOf(r) + i) ELSE Down
  <2>1. CASE i \in DOMAIN q
    <3>1. q[i] = Plain(top - PlainsOf(q) + i) /\ i <= PlainsOf(r)
      BY <1>2, <1>3, <2>1 DEF LastPlains
    <3> QED BY <1>2, <1>3, <2>1, <3>1
  <2>2. CASE i = Len(q) + 1
    BY <1>2, <1>3, <2>2
  <2> QED BY <1>2, <2>1, <2>2
<1> QED BY <1>3, <1>4 DEF LastPlains, r

LEMMA PlainTaken ==
  ASSUME NEW q \in Seq(Mails), NEW top \in Nat, q # <<>>, Head(q) # Down, LastPlains(q, top)
  PROVE  /\ Head(q) = Plain(top - PlainsOf(q) + 1) /\ LastPlains(Tail(q), top)
         /\ PlainsOf(Tail(q)) = PlainsOf(q) - 1 /\ PlainsOf(q) \in Nat \ {0}
         /\ ToSet(Tail(q)) \subseteq ToSet(q)
<1> DEFINE r == Tail(q)
<1>1. /\ Head(q) = q[1] /\ Len(q) \in Nat \ {0} /\ Len(r) = Len(q) - 1 /\ r \in Seq(Mails)
      /\ DOMAIN q = 1 .. Len(q) /\ DOMAIN r = 1 .. Len(q) - 1
      /\ \A i \in 1 .. Len(q) - 1 : r[i] = q[i + 1]
  BY Beheaded
<1>2. PlainsOf(q) \in 0 .. Len(q)
  BY PlainsParts
<1>3. r # <<>> <=> Len(q) > 1
  <2>1. r # <<>> => Len(r) \in Nat \ {0}
    BY <1>1, EmptySeq
  <2>2. r = <<>> => Len(r) = 0
    BY EmptySeq
  <2> QED BY <1>1, <2>1, <2>2
<1> HIDE DEF r
<1>4. PlainsOf(q) >= 1 /\ Head(q) = Plain(top - PlainsOf(q) + 1)
  BY <1>1, <1>2 DEF LastPlains
<1>5. PlainsOf(r) = PlainsOf(q) - 1
  <2>1. CASE Len(q) = 1
    BY <1>1, <1>3, <1>4, <2>1 DEF PlainsOf
  <2>2. CASE Len(q) > 1
    <3>1. r[Len(r)] = q[Len(q)]
      BY <1>1, <2>2
    <3> QED BY <1>1, <1>3, <2>2, <3>1 DEF PlainsOf
  <2> QED BY <1>1, <2>1, <2>2
<1>6. ASSUME NEW i \in DOMAIN r
      PROVE  r[i] = IF i <= PlainsOf(r) THEN Plain(top - PlainsOf(r) + i) ELSE Down
  <2>1. /\ i \in Nat /\ r[i] = q[i + 1]
        /\ q[i + 1] = IF i + 1 <= PlainsOf(q) THEN Plain(top - PlainsOf(q) + (i + 1)) ELSE Down
    BY <1>1 DEF LastPlains
  <2>2. /\ i + 1 <= PlainsOf(q) <=> i <= PlainsOf(r)
        /\ top - PlainsOf(q) + (i + 1) = top - PlainsOf(r) + i
    BY <1>2, <1>5, <2>1
  <2> QED BY <2>1, <2>2
<1>7. ToSet(r) \subseteq ToSet(q)
  BY <1>1 DEF ToSet
<1> QED BY <1>1, <1>2, <1>4, <1>5, <1>6, <1>7 DEF LastPlains, r

-----------------------------------------------------------------------------
(* The parts of the invariant.                                            *)

TypesOK ==
  /\ client \in [Conns -> {"none", "here", "gone"}]
  /\ task \in [Conns -> {"none", "refused", "serving", "reaping", "done"}]
  /\ reap \in [Conns -> [todo : Seq(Streams), grace : BOOLEAN]]
  /\ home \in [Streams -> Conns \cup {NoConn}]
  /\ writer \in [Streams -> {"none", "running", "flushing", "ended"}]
  /\ handler \in [Streams -> {"none", "starting", "running", "closing", "dropped", "gone"}]
  /\ killed \subseteq {"writer", "handler"} \X Streams
  /\ watched \in [Streams -> BOOLEAN] /\ served \in [Streams -> BOOLEAN]
FlowTypesOK ==
  /\ left \in [{"plain", "rich", "crash"} -> Nat]
  /\ box \in [Streams -> Seq(Mails)]
  /\ rich \in [Streams -> Seq(Events)] /\ body \in [Streams -> Seq(Events)]
  /\ sent \in [Streams -> [EventKinds -> Nat]]
  /\ seen \in [Streams -> [EventKinds -> Seq(Nat)]]

\* The permits that are out.
Permits == {c \in Conns : task[c] \in {"serving", "reaping"}}
PermitsOK == IsFiniteSet(Permits) /\ free \in Nat /\ free = Cap - Cardinality(Permits)

\* A stream belongs to a connection that is or was served; from Watch on the
\* server has its body until the connection ends.
HomeOK(s) ==
  IF home[s] = NoConn
    THEN writer[s] = "none" /\ handler[s] = "none" /\ ~watched[s] /\ ~served[s]
    ELSE /\ writer[s] # "none" /\ handler[s] # "none"
         /\ task[home[s]] \in {"serving", "reaping", "done"}
         /\ ~watched[s] => task[home[s]] = "serving"
         /\ served[s] <=> watched[s] /\ task[home[s]] = "serving"
\* Who is told to stop is so after the end of the connection.
KilledOK(s) == \A p \in {"writer", "handler"} : <<p, s>> \in killed => BodyClosed(s)

\* No handler runs that is not told to stop.
Over(s) == ~Running(s) \/ <<"handler", s>> \in killed
ReapOK(c) ==
  /\ IsInjective(reap[c].todo)
  /\ \A s \in ToSet(reap[c].todo) : home[s] = c /\ watched[s]
  /\ task[c] = "serving" => \A s \in Of(c) : watched[s] => s \in ToSet(reap[c].todo)
  /\ task[c] \in {"reaping", "done"} =>
       \A s \in Of(c) : s \in ToSet(reap[c].todo) \/ Over(s)
  /\ task[c] \notin {"serving", "reaping"} => reap[c].todo = <<>>
  /\ reap[c].grace => task[c] = "reaping" /\ reap[c].todo # <<>>

\* Why a writer flushes, has a Down or is over, as long as the body is open.
EndOK(s) ==
  /\ writer[s] = "flushing" => handler[s] = "gone"
  /\ ~NoDown(box[s]) => handler[s] = "gone"
  /\ writer[s] = "ended" /\ ~BodyClosed(s) => handler[s] \in {"dropped", "gone"}

\* On a connection one handler runs at a time.
OneRuns == \A s, t \in Streams : home[s] = home[t] /\ Running(s) /\ Running(t) => s = t

ChannelsOK(s) ==
  /\ Len(body[s]) <= BodyCap /\ Len(rich[s]) <= RichCap
  /\ ~Writing(s) => box[s] = <<>> /\ rich[s] = <<>>
  /\ BodyClosed(s) => body[s] = <<>>

\* The events of a stream: what waits for the writer is the last of what was
\* sent, and what is on the body is what comes before that.
FlowOK(s) ==
  /\ (home[s] = NoConn => sent[s]["plain"] = 0) /\ (~watched[s] => NoDown(box[s]))
  /\ LastPlains(box[s], sent[s]["plain"]) /\ LastRich(rich[s], sent[s]["rich"])
  /\ \A kind \in EventKinds : InOrder(seen[s][kind]) /\ Len(seen[s][kind]) <= sent[s][kind]
  /\ ~BodyClosed(s) =>
       /\ Upto(seen[s]["rich"], body[s], "rich", sent[s]["rich"] - Len(rich[s]))
       /\ \E m \in 0 .. sent[s]["plain"] :
            /\ Upto(seen[s]["plain"], body[s], "plain", m)
            /\ Writing(s) => m = sent[s]["plain"] - PlainsOf(box[s])

ShapeInv ==
  /\ TypesOK /\ FlowTypesOK /\ PermitsOK /\ OneRuns
  /\ \A c \in Conns : ReapOK(c)
  /\ \A s \in Streams : HomeOK(s) /\ KilledOK(s) /\ EndOK(s) /\ ChannelsOK(s)

-----------------------------------------------------------------------------
(* The steps, by what they do.                                             *)

\* The writer ends: the body is closed, or the handler is gone and its channel
\* empty.
Ending(s) ==
  /\ Writing(s) /\ Ends(s) /\ WriterStep(s)
  /\ BodyClosed(s) \/ (rich[s] = <<>> /\ handler[s] \in {"dropped", "gone"})
Sending(s) == Writing(s) /\ SendRich(s)
\* The handler goes on or stops.
Moving(s) ==
  /\ handler[s] \in {"starting", "running"}
  /\ \E h \in {"running", "closing"} : handler' = [handler EXCEPT ![s] = h]
  /\ UNCHANGED <<box, rich, sent, left>> /\ HandlerStep(s)
Dropping(s) ==
  /\ Running(s) /\ Drops(s)
  /\ left' \in {left, [left EXCEPT !["crash"] = @ - 1]}
  /\ left'["crash"] >= 0

ConnStep(c) ==
  \/ Serve(c) \/ Disconnect(c) \/ ConnectionEnds(c) \/ ReapWriter(c) \/ ReapHandler(c)
  \/ Release(c) \/ \E s \in Streams : Open(c, s)
StreamStep(s) ==
  \/ Watch(s) \/ Deliver(s) \/ Ending(s) \/ TakePlain(s) \/ Sending(s) \/ TakeDown(s)
  \/ Moving(s) \/ Dropping(s) \/ Leaves(s) \/ \E kind \in EventKinds : Emit(s, kind)

\* Every step is one of these.
LEMMA StepCases ==
  ASSUME ShapeInv, SseNext
  PROVE  (\E c \in Conns : ConnStep(c)) \/ (\E s \in Streams : StreamStep(s))
<1> DEFINE Goal == (\E c \in Conns : ConnStep(c)) \/ (\E s \in Streams : StreamStep(s))
<1>1. ASSUME NEW c \in Conns,
             \/ ConnectionEnds(c) \/ ReapWriter(c) \/ ReapHandler(c) \/ Release(c)
             \/ Serve(c) \/ Disconnect(c) \/ \E s \in Streams : Open(c, s)
      PROVE  Goal
  BY <1>1 DEF ConnStep
<1>2. ASSUME NEW s \in Streams,
             \/ Watch(s) \/ Deliver(s) \/ TakePlain(s) \/ TakeDown(s) \/ Leaves(s)
             \/ \E kind \in EventKinds : Emit(s, kind)
      PROVE  Goal
  BY <1>2 DEF StreamStep
<1>3. ASSUME NEW s \in Streams,
             \/ ClientClosed(s) \/ RichClosed(s) \/ WriterAborted(s)
             \/ writer[s] = "flushing" /\ rich[s] = <<>> /\ Ends(s) /\ WriterStep(s)
      PROVE  Ending(s)
  <2>1. CASE ClientClosed(s)
    BY <2>1 DEF ClientClosed, Ending
  <2>2. CASE RichClosed(s)
    BY <2>2 DEF RichClosed, Ending, Writing
  <2>3. CASE WriterAborted(s)
    BY <2>3 DEF WriterAborted, Ending, ShapeInv, KilledOK
  <2>4. CASE writer[s] = "flushing" /\ rich[s] = <<>> /\ Ends(s) /\ WriterStep(s)
    BY <2>4 DEF Ending, ShapeInv, EndOK, Writing
  <2> QED BY <1>3, <2>1, <2>2, <2>3, <2>4
<1>4. ASSUME NEW s \in Streams, TakeRich(s) \/ (writer[s] = "flushing" /\ SendRich(s))
      PROVE  Sending(s)
  BY <1>4 DEF TakeRich, Sending, Writing
<1>5. ASSUME NEW s \in Streams, Flush(s) PROVE Goal
  BY <1>3, <1>4, <1>5 DEF Flush, StreamStep
<1>6. ASSUME NEW s \in Streams, Monitors(s) \/ Closes(s) PROVE Moving(s)
  BY <1>6 DEF Monitors, Closes, Moving
<1>7. ASSUME NEW s \in Streams, Returns(s) \/ Crashes(s) \/ HandlerAborted(s) PROVE Dropping(s)
  <2>1. left \in [{"plain", "rich", "crash"} -> Nat]
    BY DEF ShapeInv, FlowTypesOK
  <2>2. CASE Returns(s)
    BY <2>1, <2>2 DEF Returns, Running, Dropping
  <2>3. CASE Crashes(s)
    BY <2>1, <2>3 DEF Crashes, Dropping
  <2>4. CASE HandlerAborted(s)
    BY <2>1, <2>4 DEF HandlerAborted, Dropping
  <2> QED BY <1>7, <2>2, <2>3, <2>4
<1>8. ASSUME NEW s \in Streams,
             \/ ClientClosed(s) \/ RichClosed(s) \/ WriterAborted(s) \/ TakeRich(s)
             \/ Monitors(s) \/ Closes(s) \/ Returns(s) \/ Crashes(s) \/ HandlerAborted(s)
      PROVE  Goal
  BY <1>3, <1>4, <1>6, <1>7, <1>8 DEF StreamStep
<1> HIDE DEF Goal
<1>9. Goal
  BY <1>1, <1>2, <1>5, <1>8 DEF SseNext, Proceed, Happen
<1> QED BY <1>9 DEF Goal

-----------------------------------------------------------------------------
(* Types.                                                                  *)

\* The types hold over a step of a connection ...
LEMMA TypesOfConn ==
  ASSUME ShapeInv, NEW c \in Conns, ConnStep(c)
  PROVE  TypesOK' /\ FlowTypesOK'
<1> USE DEF ShapeInv, TypesOK, FlowTypesOK
<1>1. CASE Serve(c)
  BY <1>1 DEF Serve, procs, flow
<1>2. CASE Disconnect(c)
  BY <1>2 DEF Disconnect, procs, flow
<1>3. CASE ConnectionEnds(c)
  <2>1. <<>> \in Seq(Events)
    BY EmptySeq
  <2>2. body' \in [Streams -> Seq(Events)]
    BY <1>3, <2>1 DEF ConnectionEnds
  <2>3. served' \in [Streams -> BOOLEAN]
    BY <1>3 DEF ConnectionEnds
  <2> QED BY <1>3, <2>2, <2>3 DEF ConnectionEnds, procs
<1>4. CASE ReapWriter(c)
  <2>1. Head(reap[c].todo) \in Streams
    BY <1>4, Beheaded DEF ReapWriter
  <2>2. killed' \subseteq {"writer", "handler"} \X Streams
    BY <1>4, <2>1 DEF ReapWriter
  <2>3. reap' \in [Conns -> [todo : Seq(Streams), grace : BOOLEAN]]
    BY <1>4 DEF ReapWriter
  <2> QED BY <1>4, <2>2, <2>3 DEF ReapWriter, flow
<1>5. CASE ReapHandler(c)
  <2>1. reap[c].todo # <<>> /\ reap[c].todo \in Seq(Streams)
    BY <1>5 DEF ReapHandler, ReapOK
  <2>2. Head(reap[c].todo) \in Streams /\ Tail(reap[c].todo) \in Seq(Streams)
    BY <2>1, Beheaded
  <2>3. reap' \in [Conns -> [todo : Seq(Streams), grace : BOOLEAN]]
    BY <1>5, <2>2 DEF ReapHandler
  <2>4. killed' \subseteq {"writer", "handler"} \X Streams
    BY <1>5, <2>2 DEF ReapHandler
  <2> QED BY <1>5, <2>3, <2>4 DEF ReapHandler, procs, flow
<1>6. CASE Release(c)
  BY <1>6 DEF Release, procs, flow
<1>7. ASSUME NEW s \in Streams, Open(c, s) PROVE TypesOK' /\ FlowTypesOK'
  BY <1>7 DEF Open, conns, flow
<1> QED BY <1>1, <1>2, <1>3, <1>4, <1>5, <1>6, <1>7 DEF ConnStep

\* ... and of a stream.
LEMMA TypesOfStream ==
  ASSUME ShapeInv, NEW s \in Streams, StreamStep(s)
  PROVE  TypesOK' /\ FlowTypesOK'
<1> USE DEF ShapeInv, TypesOK, FlowTypesOK
<1>0. Down \in Mails /\ <<>> \in Seq(Mails) /\ <<>> \in Seq(Events)
  BY EmptySeq DEF Down, Mails
<1>1. CASE Watch(s)
  <2>1. Append(box[s], Down) \in Seq(Mails)
    BY <1>0, Appended
  <2>2. box' \in [Streams -> Seq(Mails)]
    BY <1>1, <2>1 DEF Watch
  <2>3. reap' \in [Conns -> [todo : Seq(Streams), grace : BOOLEAN]]
    <3>1. home[s] \in Conns
      BY <1>1 DEF Watch, HomeOK
    <3>2. Append(reap[home[s]].todo, s) \in Seq(Streams)
      BY <3>1, Appended
    <3> QED BY <1>1, <3>1, <3>2 DEF Watch
  <2> QED BY <1>1, <2>2, <2>3 DEF Watch
<1>2. CASE Deliver(s)
  <2>1. Head(body[s]) \in Events /\ Tail(body[s]) \in Seq(Events)
    BY <1>2, Beheaded DEF Deliver
  <2> DEFINE e == Head(body[s])
  <2>2. e.kind \in EventKinds /\ e.n \in Nat
    BY <2>1 DEF Events
  <2> HIDE DEF e
  <2>3. Append(seen[s][e.kind], e.n) \in Seq(Nat)
    BY <2>2, Appended
  <2>4. seen' = [seen EXCEPT ![s][e.kind] = Append(@, e.n)]
    BY <1>2 DEF Deliver, e
  <2>5. seen' \in [Streams -> [EventKinds -> Seq(Nat)]]
    BY <2>2, <2>3, <2>4
  <2>6. body' \in [Streams -> Seq(Events)]
    BY <1>2, <2>1 DEF Deliver
  <2> QED BY <1>2, <2>5, <2>6 DEF Deliver, conns, procs
<1>3. CASE Ending(s)
  BY <1>0, <1>3 DEF Ending, Ends, WriterStep, conns
<1>4. CASE TakePlain(s)
  <2>1. Head(box[s]) \in Mails /\ Tail(box[s]) \in Seq(Mails)
    BY <1>4, Beheaded DEF TakePlain
  <2>2. Head(box[s]) \in Events
    BY <1>4, <2>1 DEF TakePlain, Mails, Events, EventKinds
  <2>3. Append(body[s], Head(box[s])) \in Seq(Events)
    BY <2>2, Appended
  <2> QED BY <1>4, <2>1, <2>3 DEF TakePlain, WriterStep, conns
<1>5. CASE Sending(s)
  <2>1. Head(rich[s]) \in Events /\ Tail(rich[s]) \in Seq(Events)
    BY <1>5, Beheaded DEF Sending, SendRich
  <2>2. Append(body[s], Head(rich[s])) \in Seq(Events)
    BY <2>1, Appended
  <2> QED BY <1>5, <2>1, <2>2 DEF Sending, SendRich, WriterStep, conns
<1>6. CASE TakeDown(s)
  BY <1>6 DEF TakeDown, WriterStep, conns
<1>7. CASE Moving(s)
  BY <1>7 DEF Moving, HandlerStep, conns
<1>8. CASE Dropping(s)
  BY <1>8 DEF Dropping, Drops, HandlerStep, conns
<1>9. CASE Leaves(s)
  <2>1. Append(box[s], Down) \in Seq(Mails)
    BY <1>0, Appended
  <2> QED BY <1>9, <2>1 DEF Leaves, HandlerStep, conns
<1>10. ASSUME NEW kind \in EventKinds, Emit(s, kind) PROVE TypesOK' /\ FlowTypesOK'
  <2> DEFINE e == [kind |-> kind, n |-> sent[s][kind] + 1]
  <2>1. sent[s][kind] \in Nat /\ left[kind] \in Nat
    BY DEF EventKinds
  <2>2. e \in Events /\ (kind = "plain" => e \in Mails)
    BY <2>1 DEF Events, Mails
  <2>3. /\ Append(rich[s], e) \in Seq(Events)
        /\ kind = "plain" => Append(box[s], e) \in Seq(Mails)
    BY <2>2, Appended
  <2>4. left' \in [{"plain", "rich", "crash"} -> Nat]
    BY <1>10, <2>1 DEF Emit, EventKinds
  <2>5. rich' \in [Streams -> Seq(Events)] /\ box' \in [Streams -> Seq(Mails)]
    BY <1>10, <2>3 DEF Emit, EventKinds
  <2>6. sent' \in [Streams -> [EventKinds -> Nat]]
    <3>1. sent[s][kind] + 1 \in Nat
      BY <2>1
    <3>2. sent' = sent \/ sent' = [sent EXCEPT ![s][kind] = sent[s][kind] + 1]
      BY <1>10 DEF Emit
    <3>3. [sent[s] EXCEPT ![kind] = sent[s][kind] + 1] \in [EventKinds -> Nat]
      BY <3>1
    <3>4. CASE sent' = [sent EXCEPT ![s][kind] = sent[s][kind] + 1]
      <4>1. sent' = [sent EXCEPT ![s] = [sent[s] EXCEPT ![kind] = sent[s][kind] + 1]]
        BY <3>4
      <4> QED BY <3>3, <4>1
    <3> QED BY <3>2, <3>4
  <2> QED BY <1>10, <2>4, <2>5, <2>6 DEF Emit, HandlerStep, conns
<1> QED BY <1>1, <1>2, <1>3, <1>4, <1>5, <1>6, <1>7, <1>8, <1>9, <1>10 DEF StreamStep

-----------------------------------------------------------------------------
(* The shape of connections and streams.                                   *)

\* The body of a stream closes with its connection.
LEMMA ClosedOfConn ==
  ASSUME ShapeInv, NEW c \in Conns, ConnStep(c), NEW s \in Streams
  PROVE  /\ BodyClosed(s) => BodyClosed(s)'
         /\ BodyClosed(s)' => BodyClosed(s) \/ (ConnectionEnds(c) /\ home[s] = c)
         /\ ConnectionEnds(c) /\ home[s] = c => BodyClosed(s)'
<1> USE DEF ShapeInv, TypesOK, BodyClosed
<1>1. CASE ConnectionEnds(c)
  BY <1>1 DEF ConnectionEnds, procs, Of
<1>2. CASE ~ConnectionEnds(c)
  <2>1. UNCHANGED <<watched, served>>
    BY <1>2 DEF ConnStep, Serve, Disconnect, ReapWriter, ReapHandler, Release, Open, procs
  <2> QED BY <1>2, <2>1
<1> QED BY <1>1, <1>2

LEMMA ClosedOfStream ==
  ASSUME ShapeInv, NEW t \in Streams, StreamStep(t), NEW s \in Streams
  PROVE  BodyClosed(s)' <=> BodyClosed(s)
<1> USE DEF ShapeInv, TypesOK, BodyClosed
<1>1. CASE Watch(t)
  <2>1. ~watched[t] /\ watched'[t] /\ served'[t]
    BY <1>1 DEF Watch
  <2>2. s # t => watched'[s] = watched[s] /\ served'[s] = served[s]
    BY <1>1 DEF Watch
  <2> QED BY <2>1, <2>2
<1>2. CASE ~Watch(t)
  <2>1. UNCHANGED <<watched, served>>
    BY <1>2 DEF StreamStep, Deliver, Ending, TakePlain, Sending, SendRich, TakeDown, Moving,
                Dropping, Drops, Leaves, Emit, WriterStep, HandlerStep, procs
  <2> QED BY <2>1
<1> QED BY <1>1, <1>2

\* No handler begins to run but at Open, and none is told to go on.
LEMMA OverOfConn ==
  ASSUME ShapeInv, NEW c \in Conns, ConnStep(c), NEW s \in Streams, ~Open(c, s)
  PROVE  /\ Running(s)' <=> Running(s)
         /\ killed \subseteq killed' /\ (Over(s) => Over(s)')
<1>1. (Running(s)' <=> Running(s)) /\ killed \subseteq killed'
  BY DEF ConnStep, Serve, Disconnect, ConnectionEnds, ReapWriter, ReapHandler, Release, Open,
         procs, Running, ShapeInv, TypesOK
<1> QED BY <1>1 DEF Over

LEMMA OverOfStream ==
  ASSUME ShapeInv, NEW t \in Streams, StreamStep(t), NEW s \in Streams
  PROVE  /\ Running(s)' => Running(s)
         /\ killed' = killed /\ (Over(s) => Over(s)')
<1>1. killed' = killed
  BY DEF StreamStep, Watch, Deliver, Ending, TakePlain, Sending, SendRich, TakeDown, Moving,
         Dropping, Drops, Leaves, Emit, WriterStep, HandlerStep, procs
<1>2. Running(s)' => Running(s)
  <2>1. CASE Watch(t) \/ Deliver(t) \/ Ending(t) \/ TakePlain(t) \/ Sending(t) \/ TakeDown(t)
             \/ \E kind \in EventKinds : Emit(t, kind)
    BY <2>1 DEF Watch, Deliver, Ending, TakePlain, Sending, SendRich, TakeDown, Emit,
                WriterStep, procs, Running
  <2>2. CASE Moving(t) \/ Dropping(t) \/ Leaves(t)
    BY <2>2 DEF Moving, Dropping, Drops, Leaves, Running, ShapeInv, TypesOK
  <2> QED BY <2>1, <2>2 DEF StreamStep
<1> QED BY <1>1, <1>2 DEF Over

\* A new stream waits for the end of the ones before it.
LEMMA OneRunsStep ==
  ASSUME ShapeInv, (\E c \in Conns : ConnStep(c)) \/ (\E s \in Streams : StreamStep(s))
  PROVE  OneRuns'
<1> SUFFICES ASSUME NEW s \in Streams, NEW t \in Streams, s # t,
                    home'[s] = home'[t], Running(s)', Running(t)'
             PROVE  FALSE
  BY DEF OneRuns
<1>1. ASSUME NEW c \in Conns, ConnStep(c), \A u \in Streams : ~Open(c, u) PROVE FALSE
  <2>1. home' = home
    BY <1>1 DEF ConnStep, Serve, Disconnect, ConnectionEnds, ReapWriter, ReapHandler, Release
  <2>2. Running(s) /\ Running(t)
    BY <1>1, OverOfConn
  <2> QED BY <2>1, <2>2 DEF ShapeInv, OneRuns
<1>2. ASSUME NEW u \in Streams, StreamStep(u) PROVE FALSE
  <2>1. home' = home
    BY <1>2 DEF StreamStep, Watch, Deliver, Ending, TakePlain, Sending, SendRich, TakeDown,
                Moving, Dropping, Drops, Leaves, Emit, WriterStep, HandlerStep
  <2>2. Running(s) /\ Running(t)
    BY <1>2, OverOfStream
  <2> QED BY <2>1, <2>2 DEF ShapeInv, OneRuns
<1>3. ASSUME NEW c \in Conns, NEW u \in Streams, Open(c, u) PROVE FALSE
  <2>1. \A v \in Of(c) : ~Running(v)
    <3> SUFFICES ASSUME NEW v \in Streams, home[v] = c PROVE ~Running(v)
      BY DEF Of
    <3>1. served[v] /\ writer[v] = "ended"
      BY <1>3 DEF Open, Complete, Of
    <3> QED BY <3>1 DEF ShapeInv, EndOK, BodyClosed, Running
  <2>2. /\ home'[u] = c
        /\ \A v \in Streams : v # u => home'[v] = home[v] /\ (Running(v)' <=> Running(v))
    BY <1>3 DEF Open, Running, ShapeInv, TypesOK
  <2>3. CASE s = u
    BY <2>1, <2>2, <2>3 DEF Of
  <2>4. CASE t = u
    BY <2>1, <2>2, <2>4 DEF Of
  <2>5. CASE s # u /\ t # u
    BY <2>2, <2>5 DEF ShapeInv, OneRuns
  <2> QED BY <2>3, <2>4, <2>5
<1> QED BY <1>1, <1>2, <1>3 DEF ConnStep

\* Streams keep their connection.
LEMMA HomesOfConn ==
  ASSUME ShapeInv, NEW c \in Conns, ConnStep(c), NEW s \in Streams
  PROVE  HomeOK(s)'
<1> USE DEF ShapeInv, TypesOK, HomeOK
<1>0. NoConn \notin Conns
  BY BoundsAssumption
<1>1. CASE Serve(c)
  BY <1>0, <1>1 DEF Serve, procs
<1>2. CASE Disconnect(c)
  BY <1>2 DEF Disconnect, procs
<1>3. CASE ConnectionEnds(c)
  <2>1. /\ UNCHANGED <<home, writer, handler, watched>>
        /\ task[c] = "serving" /\ task' = [task EXCEPT ![c] = "reaping"]
        /\ served'[s] = (served[s] /\ home[s] # c)
        /\ home[s] = c => watched[s]
    BY <1>3 DEF ConnectionEnds, procs, Of
  <2>2. CASE home[s] = c
    <3>1. home'[s] = c /\ task'[c] = "reaping" /\ watched'[s] /\ ~served'[s]
      BY <2>1, <2>2
    <3> QED BY <1>0, <2>1, <2>2, <3>1
  <2>3. CASE home[s] # c
    <3>1. served'[s] = served[s] /\ (home[s] # NoConn => task'[home[s]] = task[home[s]])
      BY <2>1, <2>3
    <3> QED BY <2>1, <2>3, <3>1
  <2> QED BY <2>2, <2>3
<1>4. CASE ReapWriter(c)
  BY <1>4 DEF ReapWriter
<1>5. CASE ReapHandler(c)
  BY <1>5 DEF ReapHandler
<1>6. CASE Release(c)
  BY <1>0, <1>6 DEF Release, procs
<1>7. ASSUME NEW t \in Streams, Open(c, t) PROVE HomeOK(s)'
  BY <1>0, <1>7 DEF Open, conns
<1> QED BY <1>1, <1>2, <1>3, <1>4, <1>5, <1>6, <1>7 DEF ConnStep

LEMMA HomesOfStream ==
  ASSUME ShapeInv, NEW t \in Streams, StreamStep(t), NEW s \in Streams
  PROVE  HomeOK(s)'
<1> USE DEF ShapeInv, TypesOK, HomeOK
<1>1. CASE Watch(t)
  BY <1>1 DEF Watch
<1>2. CASE Deliver(t)
  BY <1>2 DEF Deliver, conns, procs
<1>3. CASE Ending(t) \/ TakePlain(t) \/ Sending(t) \/ TakeDown(t)
  BY <1>3 DEF Ending, Ends, TakePlain, Sending, SendRich, TakeDown, Writing, WriterStep, conns
<1>4. CASE Moving(t) \/ Dropping(t) \/ Leaves(t)
  BY <1>4 DEF Moving, Dropping, Drops, Running, Leaves, HandlerStep, conns
<1>5. ASSUME NEW kind \in EventKinds, Emit(t, kind) PROVE HomeOK(s)'
  BY <1>5 DEF Emit, HandlerStep, conns
<1> QED BY <1>1, <1>2, <1>3, <1>4, <1>5 DEF StreamStep

\* A list of streams to reap, longer and shorter.
LEMMA TodoGrows ==
  ASSUME NEW q \in Seq(Streams), IsInjective(q), NEW s \in Streams, s \notin ToSet(q)
  PROVE  IsInjective(Append(q, s)) /\ ToSet(Append(q, s)) = ToSet(q) \cup {s}
<1> DEFINE r == Append(q, s)
<1>1. /\ Len(q) \in Nat /\ DOMAIN q = 1 .. Len(q) /\ DOMAIN r = 1 .. Len(q) + 1
      /\ \A i \in 1 .. Len(q) : r[i] = q[i]
      /\ r[Len(q) + 1] = s
  BY Appended
<1> HIDE DEF r
<1>2. ToSet(r) = ToSet(q) \cup {s}
  BY <1>1 DEF ToSet
<1>3. IsInjective(r)
  BY <1>1 DEF IsInjective, ToSet
<1> QED BY <1>2, <1>3 DEF r

LEMMA TodoShrinks ==
  ASSUME NEW q \in Seq(Streams), IsInjective(q), q # <<>>
  PROVE  /\ IsInjective(Tail(q)) /\ ToSet(Tail(q)) = ToSet(q) \ {Head(q)}
         /\ Head(q) \in ToSet(q) /\ Head(q) \in Streams
<1> DEFINE r == Tail(q)
<1>1. /\ Head(q) = q[1] /\ Len(q) \in Nat \ {0} /\ Head(q) \in Streams
      /\ DOMAIN q = 1 .. Len(q) /\ DOMAIN r = 1 .. Len(q) - 1
      /\ \A i \in 1 .. Len(q) - 1 : r[i] = q[i + 1]
  BY Beheaded
<1> HIDE DEF r
<1>2. IsInjective(r)
  <2> SUFFICES ASSUME NEW i \in DOMAIN r, NEW j \in DOMAIN r, r[i] = r[j] PROVE i = j
    BY DEF IsInjective
  <2>1. q[i + 1] = q[j + 1] /\ i + 1 \in DOMAIN q /\ j + 1 \in DOMAIN q
    BY <1>1
  <2>2. i + 1 = j + 1
    BY <2>1 DEF IsInjective
  <2> QED BY <1>1, <2>2
<1>3. ASSUME NEW s PROVE s \in ToSet(r) <=> s \in ToSet(q) /\ s # q[1]
  <2>1. ASSUME NEW i \in DOMAIN r, r[i] = s PROVE s \in ToSet(q) /\ s # q[1]
    <3>1. i + 1 \in DOMAIN q /\ q[i + 1] = s /\ i + 1 # 1 /\ 1 \in DOMAIN q
      BY <1>1, <2>1
    <3> QED BY <3>1 DEF IsInjective, ToSet
  <2>2. ASSUME NEW i \in DOMAIN q, q[i] = s, s # q[1] PROVE s \in ToSet(r)
    <3>1. i - 1 \in DOMAIN r /\ r[i - 1] = s
      BY <1>1, <2>2
    <3> QED BY <3>1 DEF ToSet
  <2> QED BY <2>1, <2>2 DEF ToSet
<1>4. q[1] \in ToSet(q)
  BY <1>1 DEF ToSet
<1> QED BY <1>1, <1>2, <1>3, <1>4 DEF r

LEMMA EmptyTodo == IsInjective(<<>>) /\ ToSet(<<>>) = {}
BY DEF IsInjective, ToSet

LEMMA KilledStep ==
  ASSUME ShapeInv, NEW s \in Streams,
         (\E c \in Conns : ConnStep(c)) \/ (\E t \in Streams : StreamStep(t))
  PROVE  KilledOK(s)'
<1>1. ASSUME NEW c \in Conns, ConnStep(c), ~ReapWriter(c), ~ReapHandler(c) PROVE KilledOK(s)'
  <2>1. killed' = killed
    BY <1>1 DEF ConnStep, Serve, Disconnect, ConnectionEnds, Release, Open, procs
  <2> QED BY <1>1, <2>1, ClosedOfConn DEF ShapeInv, KilledOK
<1>2. ASSUME NEW t \in Streams, StreamStep(t) PROVE KilledOK(s)'
  BY <1>2, OverOfStream, ClosedOfStream DEF ShapeInv, KilledOK
<1>3. ASSUME NEW c \in Conns, ReapWriter(c) \/ ReapHandler(c) PROVE KilledOK(s)'
  <2>1. /\ reap[c].todo # <<>> /\ reap[c].todo \in Seq(Streams) /\ IsInjective(reap[c].todo)
        /\ task[c] = "reaping" /\ ReapOK(c)
    BY <1>3 DEF ShapeInv, TypesOK, ReapOK, ReapWriter, ReapHandler
  <2>2. PICK h \in Streams : h = Head(reap[c].todo) /\ home[h] = c /\ watched[h]
    <3>1. Head(reap[c].todo) \in ToSet(reap[c].todo) /\ Head(reap[c].todo) \in Streams
      BY <2>1, TodoShrinks
    <3> QED BY <2>1, <3>1 DEF ReapOK
  <2>3. BodyClosed(h)
    BY <2>1, <2>2, BoundsAssumption DEF ShapeInv, HomeOK, BodyClosed
  <2>4. ConnStep(c)
    BY <1>3 DEF ConnStep
  <2>5. BodyClosed(h)'
    BY <2>2, <2>3, <2>4, ClosedOfConn
  <2>6. killed' \subseteq killed \cup {<<"writer", h>>, <<"handler", h>>}
    BY <1>3, <2>2 DEF ReapWriter, ReapHandler
  <2>7. ASSUME NEW p \in {"writer", "handler"}, <<p, s>> \in killed' PROVE BodyClosed(s)'
    <3>1. CASE s = h
      BY <2>5, <3>1
    <3>2. CASE s # h
      <4>1. <<p, s>> \in killed
        BY <2>6, <2>7, <3>2
      <4> QED BY <2>4, <4>1, ClosedOfConn DEF ShapeInv, KilledOK
    <3> QED BY <3>1, <3>2
  <2> QED BY <2>7 DEF KilledOK
<1> QED BY <1>1, <1>2, <1>3 DEF ConnStep

-----------------------------------------------------------------------------
(* The ends of streams, and their channels.                                *)

\* A connection whose list and streams are left alone.
LEMMA ReapOfOthers ==
  ASSUME ShapeInv, NEW d \in Conns, ReapOK(d), reap'[d] = reap[d], task'[d] = task[d],
         Of(d)' = Of(d), watched' = watched, \A s \in Of(d) : Over(s) => Over(s)'
  PROVE  ReapOK(d)'
<1>1. \A s : s \in Of(d) <=> s \in Streams /\ home[s] = d
  BY DEF Of
<1>2. \A s : s \in Of(d) <=> s \in Streams /\ home'[s] = d
  BY DEF Of
<1>3. \A s \in ToSet(reap[d].todo) : s \in Streams
  BY LenProperties, ElementOfSeq DEF ToSet, ShapeInv, TypesOK
<1> QED BY <1>1, <1>2, <1>3 DEF ReapOK

LEMMA ReapsOfConn ==
  ASSUME ShapeInv, NEW c \in Conns, ConnStep(c), NEW d \in Conns
  PROVE  ReapOK(d)'
<1>0. /\ ReapOK(c) /\ ReapOK(d) /\ NoConn \notin Conns
      /\ reap[c].todo \in Seq(Streams) /\ reap[c].grace \in BOOLEAN
  BY BoundsAssumption DEF ShapeInv, TypesOK
<1>1. CASE c # d
  <2>1. /\ reap'[d] = reap[d] /\ task'[d] = task[d] /\ watched' = watched
    BY <1>1 DEF ConnStep, Serve, Disconnect, ConnectionEnds, ReapWriter, ReapHandler, Release,
                Open, conns, procs, ShapeInv, TypesOK
  <2>2. \A s \in Streams : Open(c, s) => home[s] = NoConn /\ home'[s] = c
    BY DEF Open, ShapeInv, TypesOK
  <2>3. \A s \in Streams : ~Open(c, s) => home'[s] = home[s]
    BY DEF ConnStep, Serve, Disconnect, ConnectionEnds, ReapWriter, ReapHandler, Release, Open,
           ShapeInv, TypesOK
  <2>4. Of(d)' = Of(d)
    BY <1>0, <1>1, <2>2, <2>3 DEF Of
  <2>5. ASSUME NEW s \in Of(d), Over(s) PROVE Over(s)'
    <3>1. s \in Streams /\ ~Open(c, s)
      BY <1>0, <2>2, <2>5 DEF Of
    <3> QED BY <2>5, <3>1, OverOfConn
  <2> QED BY <1>0, <2>1, <2>4, <2>5, ReapOfOthers
<1>2. CASE c = d
  <2>1. CASE Serve(c)
    <3>1. Of(c) = {} /\ reap[c].todo = <<>> /\ ~reap[c].grace
      BY <1>0, <2>1 DEF Serve, ReapOK, ShapeInv, HomeOK, Of
    <3>2. Of(c)' = {} /\ reap' = reap /\ task'[c] \in {"serving", "refused"}
      BY <2>1, <3>1 DEF Serve, Of, ShapeInv, TypesOK
    <3>3. ReapOK(c)'
      BY <3>1, <3>2, EmptyTodo DEF ReapOK
    <3> QED BY <1>2, <3>3
  <2>2. CASE Disconnect(c)
    <3>1. /\ reap'[c] = reap[c] /\ task'[c] = task[c] /\ watched' = watched /\ Of(c)' = Of(c)
          /\ \A s \in Of(c) : Over(s) => Over(s)'
      BY <2>2 DEF Disconnect, procs, Of, Over, Running
    <3>2. ReapOK(c)'
      BY <1>0, <3>1, ReapOfOthers
    <3> QED BY <1>2, <3>2
  <2>3. CASE ConnectionEnds(c)
    <3>1. /\ reap' = reap /\ task[c] = "serving" /\ task'[c] = "reaping" /\ home' = home
          /\ \A s \in Of(c) : watched[s]
          /\ watched' = watched /\ Of(c)' = Of(c)
      BY <2>3 DEF ConnectionEnds, procs, Of, ShapeInv, TypesOK
    <3>2. ReapOK(c)'
      BY <1>0, <3>1 DEF ReapOK
    <3> QED BY <1>2, <3>2
  <2>4. CASE ReapWriter(c)
    <3>1. /\ reap'[c].todo = reap[c].todo /\ reap'[c].grace /\ task' = task /\ home' = home
          /\ task[c] = "reaping" /\ reap[c].todo # <<>>
          /\ watched' = watched /\ Of(c)' = Of(c)
      BY <2>4 DEF ReapWriter, Of, ShapeInv, TypesOK
    <3>2. \A s \in Of(c) : Over(s) => Over(s)'
      BY <2>4 DEF ReapWriter, Over, Running
    <3>3. ReapOK(c)'
      BY <1>0, <3>1, <3>2 DEF ReapOK
    <3> QED BY <1>2, <3>3
  <2>5. CASE ReapHandler(c)
    <3>1. /\ reap[c].todo # <<>> /\ IsInjective(reap[c].todo)
          /\ task[c] = "reaping" /\ task' = task /\ home' = home /\ watched' = watched
          /\ Of(c)' = Of(c)
      BY <1>0, <2>5 DEF ReapHandler, ReapOK, Of
    <3>2. reap'[c].todo = Tail(reap[c].todo) /\ reap'[c].grace = FALSE
      BY <2>5 DEF ReapHandler, ShapeInv, TypesOK
    <3>3. PICK h \in Streams :
            /\ h = Head(reap[c].todo) /\ IsInjective(Tail(reap[c].todo))
            /\ ToSet(Tail(reap[c].todo)) = ToSet(reap[c].todo) \ {h}
      BY <1>0, <3>1, TodoShrinks
    <3>4. Over(h)'
      BY <2>5, <3>3 DEF ReapHandler, Over, Running
    <3>5. \A s \in Of(c) : Over(s) => Over(s)'
      BY <2>5 DEF ReapHandler, Over, Running
    <3>6. ReapOK(c)'
      BY <1>0, <3>1, <3>2, <3>3, <3>4, <3>5 DEF ReapOK
    <3> QED BY <1>2, <3>6
  <2>6. CASE Release(c)
    <3>1. /\ reap[c].todo = <<>> /\ task[c] = "reaping" /\ task'[c] = "done"
          /\ UNCHANGED <<reap, home, watched, handler, killed>> /\ Of(c)' = Of(c)
      BY <2>6 DEF Release, procs, Of, ShapeInv, TypesOK
    <3>2. \A s \in Of(c) : Over(s)' <=> Over(s)
      BY <3>1 DEF Over, Running
    <3>3. ReapOK(c)'
      BY <1>0, <3>1, <3>2, EmptyTodo DEF ReapOK
    <3> QED BY <1>2, <3>3
  <2>7. ASSUME NEW s \in Streams, Open(c, s) PROVE ReapOK(d)'
    <3>1. /\ home[s] = NoConn /\ ~watched[s] /\ task[c] = "serving"
          /\ UNCHANGED <<reap, task, watched>>
      BY <2>7 DEF Open, conns, ShapeInv, HomeOK
    <3>2. home'[s] = c /\ \A t \in Streams : t # s => home'[t] = home[t]
      BY <2>7 DEF Open, ShapeInv, TypesOK
    <3>3. \A t \in Of(c)' : t = s \/ t \in Of(c)
      BY <3>2 DEF Of
    <3>4. \A t \in ToSet(reap[c].todo) : t # s /\ t \in Streams
      BY <1>0, <3>1, LenProperties, ElementOfSeq DEF ToSet, ReapOK
    <3>5. ReapOK(c)'
      BY <1>0, <3>1, <3>2, <3>3, <3>4 DEF ReapOK
    <3> QED BY <1>2, <3>5
  <2> QED BY <2>1, <2>2, <2>3, <2>4, <2>5, <2>6, <2>7 DEF ConnStep
<1> QED BY <1>1, <1>2

LEMMA ReapsOfStream ==
  ASSUME ShapeInv, NEW t \in Streams, StreamStep(t), NEW d \in Conns
  PROVE  ReapOK(d)'
<1>0. ReapOK(d)
  BY DEF ShapeInv
<1>1. task' = task /\ home' = home /\ Of(d)' = Of(d)
  BY DEF StreamStep, Watch, Deliver, Ending, TakePlain, Sending, SendRich, TakeDown, Moving,
         Dropping, Drops, Leaves, Emit, WriterStep, HandlerStep, conns, Of
<1>2. \A s \in Of(d) : Over(s) => Over(s)'
  BY OverOfStream DEF Of
<1>3. CASE ~Watch(t)
  <2>1. reap' = reap /\ watched' = watched
    BY <1>3 DEF StreamStep, Deliver, Ending, TakePlain, Sending, SendRich, TakeDown, Moving,
                Dropping, Drops, Leaves, Emit, WriterStep, HandlerStep, conns, procs
  <2> QED BY <1>0, <1>1, <1>2, <2>1, ReapOfOthers
<1>4. CASE Watch(t)
  <2>1. /\ home[t] \in Conns /\ task[home[t]] = "serving" /\ ~watched[t]
        /\ ReapOK(home[t])
    BY <1>4 DEF Watch, ShapeInv, TypesOK, HomeOK
  <2>2. /\ watched' = [watched EXCEPT ![t] = TRUE]
        /\ reap' = [reap EXCEPT ![home[t]].todo = Append(@, t)]
    BY <1>4 DEF Watch
  <2>3. \A s \in ToSet(reap[d].todo) : s \in Streams /\ home[s] = d /\ watched[s]
    BY <1>0, LenProperties, ElementOfSeq DEF ToSet, ReapOK, ShapeInv, TypesOK
  <2>4. \A s \in Streams : watched'[s] <=> watched[s] \/ s = t
    BY <2>2 DEF ShapeInv, TypesOK
  <2>5. CASE d # home[t]
    <3>1. reap'[d] = reap[d]
      BY <2>1, <2>2, <2>5 DEF ShapeInv, TypesOK
    <3>2. \A s \in Of(d) : s # t
      BY <2>5 DEF Of
    <3>3. Of(d) \subseteq Streams
      BY DEF Of
    <3> QED BY <1>0, <1>1, <1>2, <2>3, <2>4, <3>1, <3>2, <3>3 DEF ReapOK
  <2>6. CASE d = home[t]
    <3> DEFINE q == reap[d].todo
    <3>1. q \in Seq(Streams) /\ IsInjective(q) /\ t \notin ToSet(q)
      BY <1>0, <2>1, <2>3 DEF ReapOK, ShapeInv, TypesOK
    <3>2. reap'[d].todo = Append(q, t) /\ reap'[d].grace = reap[d].grace
      BY <2>1, <2>2, <2>6 DEF ShapeInv, TypesOK
    <3>3. IsInjective(Append(q, t)) /\ ToSet(Append(q, t)) = ToSet(q) \cup {t}
      BY <3>1, TodoGrows
    <3>4. Of(d) \subseteq Streams /\ task[d] = "serving" /\ ~reap[d].grace
      BY <1>0, <2>1, <2>6 DEF Of, ReapOK
    <3> HIDE DEF q
    <3>5. /\ \A s \in ToSet(q) \cup {t} : home'[s] = d /\ watched'[s]
          /\ \A s \in Of(d) : watched'[s] => s \in ToSet(q) \cup {t}
      BY <1>0, <1>1, <2>3, <2>4, <2>6, <3>4 DEF ReapOK, q
    <3> QED BY <1>1, <3>2, <3>3, <3>4, <3>5 DEF ReapOK
  <2> QED BY <2>5, <2>6
<1> QED BY <1>3, <1>4

-----------------------------------------------------------------------------
(* Writers, handlers and channels.                                         *)

LEMMA EmptyBox == NoDown(<<>>) /\ Len(<<>>) = 0
BY EmptySeq DEF NoDown, ToSet

LEMMA TailLess ==
  ASSUME NEW q \in Seq(Mails), q # <<>>, NoDown(q)
  PROVE  NoDown(Tail(q))
BY Beheaded DEF NoDown, ToSet

LEMMA BoxGrows ==
  ASSUME NEW q \in Seq(Mails), NoDown(q), NEW e \in Mails, e # Down
  PROVE  NoDown(Append(q, e))
BY Appended DEF NoDown, ToSet

\* A writer that ends, and a Down, have their reason.
LEMMA EndsOfConn ==
  ASSUME ShapeInv, NEW c \in Conns, ConnStep(c), NEW s \in Streams
  PROVE  EndOK(s)'
<1>0. EndOK(s) /\ ChannelsOK(s)
  BY DEF ShapeInv
<1>1. CASE ~Open(c, s)
  <2>1. writer'[s] = writer[s] /\ handler'[s] = handler[s] /\ box'[s] = box[s]
    BY <1>1 DEF ConnStep, Serve, Disconnect, ConnectionEnds, ReapWriter, ReapHandler, Release,
                Open, procs, flow, ShapeInv, TypesOK
  <2>2. BodyClosed(s) => BodyClosed(s)'
    BY ClosedOfConn
  <2> QED BY <1>0, <2>1, <2>2 DEF EndOK
<1>2. CASE Open(c, s)
  <2>1. box[s] = <<>>
    BY <1>0, <1>2 DEF Open, ChannelsOK, Writing, ShapeInv, HomeOK
  <2>2. writer'[s] = "running" /\ box'[s] = box[s]
    BY <1>2 DEF Open, flow, ShapeInv, TypesOK
  <2> QED BY <2>1, <2>2, EmptyBox DEF EndOK
<1> QED BY <1>1, <1>2

LEMMA EndsOfStream ==
  ASSUME ShapeInv, NEW t \in Streams, StreamStep(t), NEW s \in Streams
  PROVE  EndOK(s)'
<1> USE DEF ShapeInv, TypesOK, FlowTypesOK
<1>0. /\ EndOK(s) /\ (BodyClosed(s)' <=> BodyClosed(s))
      /\ box[s] \in Seq(Mails)
  BY ClosedOfStream
<1>1. CASE s # t
  <2>1. writer'[s] = writer[s] /\ handler'[s] = handler[s] /\ box'[s] = box[s]
    <3>1. CASE Watch(t) \/ Deliver(t) \/ Ending(t) \/ TakePlain(t) \/ Sending(t) \/ TakeDown(t)
      BY <1>1, <3>1 DEF Watch, Deliver, Ending, Ends, TakePlain, Sending, SendRich, TakeDown,
                        WriterStep, procs
    <3>2. CASE Moving(t) \/ Dropping(t) \/ Leaves(t) \/ \E kind \in EventKinds : Emit(t, kind)
      BY <1>1, <3>2 DEF Moving, Dropping, Drops, Leaves, Emit, HandlerStep
    <3> QED BY <3>1, <3>2 DEF StreamStep
  <2> QED BY <1>0, <2>1 DEF EndOK
<1>2. CASE s = t
  <2>1. CASE Watch(s)
    <3>1. writer'[s] = writer[s] /\ handler'[s] = handler[s]
          /\ (box'[s] = box[s] \/ handler[s] = "gone")
      BY <2>1 DEF Watch
    <3> QED BY <1>0, <3>1 DEF EndOK
  <2>2. CASE Deliver(s) \/ Sending(s)
    <3>1. writer' = writer /\ handler' = handler /\ box' = box
      BY <2>2 DEF Deliver, Sending, SendRich, WriterStep, procs
    <3> QED BY <1>0, <3>1 DEF EndOK
  <2>3. CASE Ending(s)
    <3>1. /\ writer'[s] = "ended" /\ box'[s] = <<>> /\ handler' = handler
          /\ BodyClosed(s) \/ handler[s] \in {"dropped", "gone"}
      BY <2>3 DEF Ending, Ends, WriterStep
    <3> QED BY <1>0, <3>1, EmptyBox DEF EndOK
  <2>4. CASE TakePlain(s)
    <3>1. box[s] # <<>> /\ box'[s] = Tail(box[s]) /\ writer' = writer /\ handler' = handler
      BY <2>4 DEF TakePlain, WriterStep
    <3>2. NoDown(box[s]) => NoDown(box'[s])
      BY <1>0, <3>1, TailLess
    <3> QED BY <1>0, <3>1, <3>2 DEF EndOK
  <2>5. CASE TakeDown(s)
    <3>1. /\ Head(box[s]) = Down /\ box[s] # <<>> /\ box' = box /\ handler' = handler
          /\ writer'[s] = "flushing"
      BY <2>5 DEF TakeDown, WriterStep
    <3>2. ~NoDown(box[s])
      BY <1>0, <3>1, Beheaded DEF NoDown, ToSet
    <3> QED BY <1>0, <3>1, <3>2 DEF EndOK
  <2>6. CASE Moving(s) \/ Dropping(s)
    <3>1. /\ handler[s] \in {"starting", "running", "closing"}
          /\ writer' = writer /\ box' = box
          /\ Dropping(s) => handler'[s] = "dropped"
      BY <2>6 DEF Moving, Dropping, Drops, Running, HandlerStep
    <3> QED BY <1>0, <3>1 DEF EndOK
  <2>7. CASE Leaves(s)
    <3>1. handler'[s] = "gone"
      BY <2>7 DEF Leaves
    <3> QED BY <3>1 DEF EndOK
  <2>8. ASSUME NEW kind \in EventKinds, Emit(s, kind) PROVE EndOK(s)'
    <3> DEFINE e == [kind |-> kind, n |-> sent[s][kind] + 1]
    <3>1. /\ writer' = writer /\ handler' = handler
          /\ box'[s] = box[s] \/ (kind = "plain" /\ box'[s] = Append(box[s], e))
      BY <2>8 DEF Emit, HandlerStep
    <3>2. kind = "plain" => e \in Mails /\ e # Down
      BY DEF Mails, Down, EventKinds
    <3> HIDE DEF e
    <3>3. NoDown(box[s]) => NoDown(box'[s])
      <4>1. kind = "plain" /\ NoDown(box[s]) => NoDown(Append(box[s], e))
        BY <1>0, <3>2, BoxGrows
      <4> QED BY <3>1, <4>1
    <3> QED BY <1>0, <3>1, <3>3 DEF EndOK
  <2> QED BY <1>2, <2>1, <2>2, <2>3, <2>4, <2>5, <2>6, <2>7, <2>8 DEF StreamStep
<1> QED BY <1>1, <1>2

\* Channels stay within their capacity, and go with the writer and the body.
LEMMA ChannelsOfConn ==
  ASSUME ShapeInv, NEW c \in Conns, ConnStep(c), NEW s \in Streams
  PROVE  ChannelsOK(s)'
<1> USE DEF ShapeInv, TypesOK, FlowTypesOK
<1>0. ChannelsOK(s) /\ BodyCap \in Nat
  BY BoundsAssumption
<1>1. /\ box' = box /\ rich' = rich
      /\ Writing(s) => Writing(s)'
  BY DEF ConnStep, Serve, Disconnect, ConnectionEnds, ReapWriter, ReapHandler, Release, Open,
         procs, flow, Writing
<1>2. body'[s] = IF ConnectionEnds(c) /\ home[s] = c THEN <<>> ELSE body[s]
  BY DEF ConnStep, Serve, Disconnect, ConnectionEnds, ReapWriter, ReapHandler, Release, Open, flow
<1>3. BodyClosed(s)' => body'[s] = <<>>
  BY <1>0, <1>2, ClosedOfConn DEF ChannelsOK
<1> QED BY <1>0, <1>1, <1>2, <1>3, EmptyBox DEF ChannelsOK

SameChannels(s) ==
  writer'[s] = writer[s] /\ box'[s] = box[s] /\ rich'[s] = rich[s] /\ body'[s] = body[s]

\* A stream's step leaves the channels of another alone.
LEMMA OthersChannels ==
  ASSUME NEW t \in Streams, StreamStep(t), NEW s \in Streams, s # t,
         DOMAIN writer = Streams, DOMAIN box = Streams, DOMAIN rich = Streams, DOMAIN body = Streams
  PROVE  SameChannels(s)
<1>1. CASE Watch(t) \/ Deliver(t) \/ TakeDown(t)
  BY <1>1 DEF Watch, Deliver, TakeDown, WriterStep, procs, SameChannels
<1>2. CASE Ending(t) \/ TakePlain(t) \/ Sending(t)
  BY <1>2 DEF Ending, Ends, TakePlain, Sending, SendRich, WriterStep, SameChannels
<1>3. CASE Moving(t) \/ Dropping(t) \/ Leaves(t) \/ \E kind \in EventKinds : Emit(t, kind)
  BY <1>3 DEF Moving, Dropping, Drops, Leaves, Emit, HandlerStep, SameChannels
<1> QED BY <1>1, <1>2, <1>3 DEF StreamStep

LEMMA ChannelsOfStream ==
  ASSUME ShapeInv, NEW t \in Streams, StreamStep(t), NEW s \in Streams
  PROVE  ChannelsOK(s)'
<1> USE DEF ShapeInv, TypesOK, FlowTypesOK
<1>0. /\ ChannelsOK(s) /\ (BodyClosed(s)' <=> BodyClosed(s))
      /\ BodyCap \in Nat /\ RichCap \in Nat
      /\ body[s] \in Seq(Events) /\ rich[s] \in Seq(Events) /\ box[s] \in Seq(Mails)
      /\ Len(body[s]) \in Nat /\ Len(rich[s]) \in Nat
  BY BoundsAssumption, ClosedOfStream, LenProperties
<1>1. CASE s # t
  <2>0. /\ DOMAIN writer = Streams /\ DOMAIN box = Streams
        /\ DOMAIN rich = Streams /\ DOMAIN body = Streams
    OBVIOUS
  <2>1. SameChannels(s)
    BY <1>1, <2>0, OthersChannels
  <2> QED BY <1>0, <2>1 DEF SameChannels, ChannelsOK, Writing
<1>2. CASE s = t
  <2>1. CASE Watch(s)
    <3>1. writer' = writer /\ rich' = rich /\ body' = body /\ (Writing(s) \/ box'[s] = box[s])
      BY <2>1 DEF Watch
    <3> QED BY <1>0, <3>1 DEF ChannelsOK, Writing
  <2>2. CASE Deliver(s)
    <3>1. /\ writer' = writer /\ rich' = rich /\ box' = box
          /\ body[s] # <<>> /\ body'[s] = Tail(body[s])
      BY <2>2 DEF Deliver, procs
    <3>2. Len(body'[s]) <= BodyCap
      BY <1>0, <3>1, Beheaded DEF ChannelsOK
    <3> QED BY <1>0, <3>1, <3>2 DEF ChannelsOK, Writing
  <2>3. CASE Ending(s)
    <3>1. box'[s] = <<>> /\ rich'[s] = <<>> /\ body' = body
      BY <2>3 DEF Ending, Ends
    <3> QED BY <1>0, <3>1, EmptyBox DEF ChannelsOK
  <2>4. CASE TakePlain(s) \/ Sending(s)
    <3>1. PICK e \in Events : body'[s] = Append(body[s], e)
      <4>1. CASE TakePlain(s)
        <5>1. Head(box[s]) \in Mails /\ Head(box[s]) # Down /\ box[s] # <<>>
          BY <1>0, <4>1, Beheaded DEF TakePlain
        <5>2. Head(box[s]) \in Events
          BY <5>1 DEF Mails, Events, EventKinds
        <5> QED BY <4>1, <5>2 DEF TakePlain
      <4>2. CASE Sending(s)
        <5>1. Head(rich[s]) \in Events
          BY <1>0, <4>2, Beheaded DEF Sending, SendRich
        <5> QED BY <4>2, <5>1 DEF Sending, SendRich
      <4> QED BY <2>4, <4>1, <4>2
    <3>2. /\ Writing(s) /\ writer' = writer /\ ~BodyClosed(s)
          /\ Len(body[s]) < BodyCap
          /\ rich'[s] = rich[s] \/ (rich[s] # <<>> /\ rich'[s] = Tail(rich[s]))
      BY <2>4 DEF TakePlain, Sending, SendRich, Writing, Room
    <3>3. Len(body'[s]) <= BodyCap
      BY <1>0, <3>1, <3>2, Appended
    <3>4. Len(rich'[s]) <= RichCap
      BY <1>0, <3>2, Beheaded DEF ChannelsOK
    <3> QED BY <1>0, <3>2, <3>3, <3>4 DEF ChannelsOK, Writing
  <2>5. CASE TakeDown(s)
    <3>1. writer[s] = "running" /\ rich' = rich /\ box' = box /\ body' = body
      BY <2>5 DEF TakeDown
    <3> QED BY <1>0, <2>5, <3>1 DEF ChannelsOK, Writing, TakeDown
  <2>6. CASE Moving(s) \/ Dropping(s)
    <3>1. writer' = writer /\ rich' = rich /\ box' = box /\ body' = body
      BY <2>6 DEF Moving, Dropping, Drops, HandlerStep
    <3> QED BY <1>0, <3>1 DEF ChannelsOK, Writing
  <2>7. CASE Leaves(s)
    <3>1. writer' = writer /\ rich' = rich /\ body' = body /\ (Writing(s) \/ box'[s] = box[s])
      BY <2>7 DEF Leaves, HandlerStep
    <3> QED BY <1>0, <3>1 DEF ChannelsOK, Writing
  <2>8. ASSUME NEW kind \in EventKinds, Emit(s, kind) PROVE ChannelsOK(s)'
    <3>1. /\ writer' = writer /\ body' = body
          /\ Writing(s) \/ (rich'[s] = rich[s] /\ box'[s] = box[s])
      BY <2>8 DEF Emit, HandlerStep
    <3>2. PICK e \in Events :
            rich'[s] = rich[s] \/ (Len(rich[s]) < RichCap /\ rich'[s] = Append(rich[s], e))
      <4>1. [kind |-> kind, n |-> sent[s][kind] + 1] \in Events
        BY DEF Events
      <4> QED BY <2>8, <4>1 DEF Emit
    <3>3. Len(rich'[s]) <= RichCap
      BY <1>0, <3>2, Appended DEF ChannelsOK
    <3> QED BY <1>0, <3>1, <3>3 DEF ChannelsOK, Writing
  <2> QED BY <1>2, <2>1, <2>2, <2>3, <2>4, <2>5, <2>6, <2>7, <2>8 DEF StreamStep
<1> QED BY <1>1, <1>2

-----------------------------------------------------------------------------
(* The permits, and the handlers they bound.                               *)

\* Permits go out and come back one by one.
LEMMA PermitsStep ==
  ASSUME ShapeInv, (\E c \in Conns : ConnStep(c)) \/ (\E s \in Streams : StreamStep(s))
  PROVE  PermitsOK'
<1>0. PermitsOK /\ task \in [Conns -> {"none", "refused", "serving", "reaping", "done"}]
  BY DEF ShapeInv, TypesOK
<1>1. ASSUME NEW s \in Streams, StreamStep(s) PROVE PermitsOK'
  <2>1. task' = task /\ free' = free
    BY <1>1 DEF StreamStep, Watch, Deliver, Ending, TakePlain, Sending, SendRich, TakeDown,
                Moving, Dropping, Drops, Leaves, Emit, WriterStep, HandlerStep, conns
  <2> QED BY <1>0, <2>1 DEF PermitsOK, Permits
<1>2. ASSUME NEW c \in Conns, ConnStep(c) PROVE PermitsOK'
  <2>1. CASE Serve(c) /\ free > 0
    <3>1. Permits' = Permits \cup {c} /\ c \notin Permits /\ free' = free - 1
      BY <1>0, <2>1 DEF Serve, Permits
    <3>2. IsFiniteSet(Permits') /\ Cardinality(Permits') = Cardinality(Permits) + 1
      BY <1>0, <3>1, FS_AddElement DEF PermitsOK
    <3>3. Cardinality(Permits) \in Nat /\ Cap \in Nat
      BY <1>0, FS_CardinalityType, BoundsAssumption DEF PermitsOK
    <3> QED BY <1>0, <2>1, <3>1, <3>2, <3>3 DEF PermitsOK
  <2>2. CASE Release(c)
    <3>1. Permits' = Permits \ {c} /\ c \in Permits /\ free' = free + 1
      BY <1>0, <2>2 DEF Release, Permits
    <3>2. IsFiniteSet(Permits') /\ Cardinality(Permits') = Cardinality(Permits) - 1
      BY <1>0, <3>1, FS_RemoveElement DEF PermitsOK
    <3>3. Cardinality(Permits) \in Nat /\ Cap \in Nat
      BY <1>0, FS_CardinalityType, BoundsAssumption DEF PermitsOK
    <3> QED BY <1>0, <3>1, <3>2, <3>3 DEF PermitsOK
  <2>3. CASE ~(Serve(c) /\ free > 0) /\ ~Release(c)
    <3>1. free' = free /\ Permits' = Permits
      BY <1>0, <1>2, <2>3 DEF ConnStep, Serve, Disconnect, ConnectionEnds, ReapWriter,
                              ReapHandler, Open, conns, Permits
    <3> QED BY <1>0, <3>1 DEF PermitsOK
  <2> QED BY <2>1, <2>2, <2>3
<1> QED BY <1>1, <1>2

LEMMA ShapeInit == SseInit => ShapeInv
<1> SUFFICES ASSUME SseInit PROVE ShapeInv
  OBVIOUS
<1>1. /\ <<>> \in Seq(Streams) /\ <<>> \in Seq(Mails) /\ <<>> \in Seq(Events)
      /\ <<>> \in Seq(Nat) /\ Len(<<>>) = 0
  BY EmptySeq
<1>2. TypesOK
  BY <1>1 DEF SseInit, TypesOK
<1>3. FlowTypesOK
  <2>1. left \in [{"plain", "rich", "crash"} -> Nat]
    BY BoundsAssumption DEF SseInit
  <2> QED BY <1>1, <2>1 DEF SseInit, FlowTypesOK
<1>4. PermitsOK
  <2>1. Permits = {}
    BY DEF SseInit, Permits
  <2>2. Cap \in Nat
    BY BoundsAssumption
  <2> QED BY <2>1, <2>2, FS_EmptySet DEF SseInit, PermitsOK
<1>5. OneRuns
  BY DEF SseInit, OneRuns, Running
<1>6. ASSUME NEW c \in Conns PROVE ReapOK(c)
  BY EmptyTodo DEF SseInit, ReapOK
<1>7. ASSUME NEW s \in Streams PROVE HomeOK(s) /\ KilledOK(s) /\ EndOK(s) /\ ChannelsOK(s)
  <2>1. HomeOK(s) /\ KilledOK(s)
    BY DEF SseInit, HomeOK, KilledOK
  <2>2. EndOK(s)
    BY EmptyBox DEF SseInit, EndOK
  <2>3. ChannelsOK(s)
    BY <1>1, BoundsAssumption DEF SseInit, ChannelsOK
  <2> QED BY <2>1, <2>2, <2>3
<1> QED BY <1>2, <1>3, <1>4, <1>5, <1>6, <1>7 DEF ShapeInv

LEMMA ShapeStep == ShapeInv /\ [SseNext]_sseVars => ShapeInv'
<1>1. ASSUME ShapeInv, SseNext PROVE ShapeInv'
  <2>1. (\E c \in Conns : ConnStep(c)) \/ (\E s \in Streams : StreamStep(s))
    BY <1>1, StepCases
  <2>2. TypesOK' /\ FlowTypesOK'
    BY <1>1, <2>1, TypesOfConn, TypesOfStream
  <2>3. PermitsOK' /\ OneRuns'
    BY <1>1, <2>1, PermitsStep, OneRunsStep
  <2>4. \A c \in Conns : ReapOK(c)'
    BY <1>1, <2>1, ReapsOfConn, ReapsOfStream
  <2>5. \A s \in Streams : HomeOK(s)' /\ KilledOK(s)'
    BY <1>1, <2>1, HomesOfConn, HomesOfStream, KilledStep
  <2>6. \A s \in Streams : EndOK(s)' /\ ChannelsOK(s)'
    BY <1>1, <2>1, EndsOfConn, EndsOfStream, ChannelsOfConn, ChannelsOfStream
  <2> QED BY <2>2, <2>3, <2>4, <2>5, <2>6 DEF ShapeInv
<1>2. ASSUME ShapeInv, UNCHANGED sseVars PROVE ShapeInv'
  BY <1>2 DEF sseVars, conns, procs, flow, ShapeInv, TypesOK, FlowTypesOK, PermitsOK, Permits,
              OneRuns, Running, ReapOK, Of, Over, HomeOK, KilledOK, BodyClosed, EndOK, ChannelsOK,
              Writing
<1> QED BY <1>1, <1>2

\* The shape of the bridge.
LEMMA ShapeHolds == SseSpec => []ShapeInv
BY ShapeInit, ShapeStep, PTL DEF SseSpec

\* A handler that runs and is not told to stop has its connection's permit, and
\* on a connection there is one of them.
LEMMA HandlersBounded == ShapeInv => CapBoundsHandlers
<1> SUFFICES ASSUME ShapeInv PROVE CapBoundsHandlers
  OBVIOUS
<1>1. SseTypeOK
  <2>1. \A s \in Streams : /\ Len(body[s]) <= BodyCap /\ Len(rich[s]) <= RichCap
                           /\ ~Writing(s) => box[s] = <<>> /\ rich[s] = <<>>
    BY DEF ShapeInv, ChannelsOK
  <2>2. \A c \in Conns :
          /\ IsInjective(reap[c].todo)
          /\ task[c] = "serving" => ToSet(reap[c].todo) = {s \in Of(c) : watched[s]}
    <3> SUFFICES ASSUME NEW c \in Conns, task[c] = "serving"
                 PROVE  ToSet(reap[c].todo) = {s \in Of(c) : watched[s]}
      BY DEF ShapeInv, ReapOK
    <3>1. \A s \in ToSet(reap[c].todo) : s \in Streams /\ home[s] = c /\ watched[s]
      BY LenProperties, ElementOfSeq DEF ToSet, ShapeInv, TypesOK, ReapOK
    <3>2. \A s \in Of(c) : watched[s] => s \in ToSet(reap[c].todo)
      BY DEF ShapeInv, ReapOK
    <3> QED BY <3>1, <3>2 DEF Of
  <2>3. free = Cap - Cardinality({c \in Conns : task[c] \in {"serving", "reaping"}})
    BY DEF ShapeInv, PermitsOK, Permits
  <2> QED BY <2>1, <2>2, <2>3 DEF SseTypeOK, ShapeInv, TypesOK
<1>2. Cardinality({s \in Streams : Running(s) /\ <<"handler", s>> \notin killed}) <= Cap
  <2> DEFINE H == {s \in Streams : Running(s) /\ <<"handler", s>> \notin killed}
             f == [s \in H |-> home[s]]
  <2>1. ASSUME NEW s \in H PROVE home[s] \in Permits
    <3>1. s \in Streams /\ ~Over(s) /\ HomeOK(s) /\ handler[s] # "none"
      BY DEF ShapeInv, Over, Running
    <3>2. home[s] \in Conns /\ task[home[s]] \in {"serving", "reaping", "done"}
      BY <3>1 DEF HomeOK, ShapeInv, TypesOK
    <3>3. task[home[s]] # "done"
      <4>1. ReapOK(home[s])
        BY <3>2 DEF ShapeInv
      <4>2. task[home[s]] = "done" => reap[home[s]].todo = <<>> /\ Over(s)
        BY <3>1, <3>2, <4>1, EmptyTodo DEF ReapOK, Of
      <4> QED BY <3>1, <4>2
    <3> QED BY <3>2, <3>3 DEF Permits
  <2>2. \A s, t \in H : home[s] = home[t] => s = t
    BY DEF ShapeInv, OneRuns
  <2> HIDE DEF H
  <2>3. f \in Injection(H, Permits)
    BY <2>1, <2>2 DEF Injection, IsInjective
  <2>4. IsFiniteSet(Permits) /\ free \in Nat /\ free = Cap - Cardinality(Permits)
    BY DEF ShapeInv, PermitsOK
  <2>5. IsFiniteSet(H) /\ Cardinality(H) <= Cardinality(Permits)
    BY <2>3, <2>4, FS_Injection, Zenon
  <2>6. Cardinality(Permits) \in Nat /\ Cardinality(H) \in Nat /\ Cap \in Nat
    BY <2>4, <2>5, FS_CardinalityType, BoundsAssumption
  <2>7. Cardinality(H) <= Cap
    BY <2>4, <2>5, <2>6
  <2> QED BY <2>7 DEF H
<1> QED BY <1>1, <1>2 DEF CapBoundsHandlers

\* The limit bounds the handlers that run (sse.rs:197-275), for any number of
\* connections and of streams on each of them.
THEOREM StreamHandlersStayBounded == SseSpec => []CapBoundsHandlers
BY ShapeHolds, HandlersBounded, PTL

-----------------------------------------------------------------------------
(* The flow of events, step by step.                                       *)

\* The types of a stream's queues.
LEMMA FlowTypes ==
  ASSUME ShapeInv, NEW s \in Streams
  PROVE  /\ box[s] \in Seq(Mails) /\ rich[s] \in Seq(Events) /\ body[s] \in Seq(Events)
         /\ sent[s]["plain"] \in Nat /\ sent[s]["rich"] \in Nat
         /\ seen[s]["plain"] \in Seq(Nat) /\ seen[s]["rich"] \in Seq(Nat)
         /\ Len(seen[s]["plain"]) \in Nat /\ Len(seen[s]["rich"]) \in Nat
         /\ EventKinds = {"plain", "rich"}
<1>1. /\ box[s] \in Seq(Mails) /\ rich[s] \in Seq(Events) /\ body[s] \in Seq(Events)
      /\ sent[s] \in [EventKinds -> Nat] /\ seen[s] \in [EventKinds -> Seq(Nat)]
  BY DEF ShapeInv, FlowTypesOK
<1>2. EventKinds = {"plain", "rich"}
  BY DEF EventKinds
<1>3. /\ sent[s]["plain"] \in Nat /\ sent[s]["rich"] \in Nat
      /\ seen[s]["plain"] \in Seq(Nat) /\ seen[s]["rich"] \in Seq(Nat)
  BY <1>1, <1>2
<1> QED BY <1>1, <1>2, <1>3, LenProperties

\* A step that leaves the events of a stream alone, or ends its body.
LEMMA FlowStays ==
  ASSUME NEW s \in Streams, FlowOK(s),
         box'[s] = box[s], rich'[s] = rich[s], sent'[s] = sent[s], seen'[s] = seen[s],
         watched[s] => watched'[s],
         home'[s] = NoConn => home[s] = NoConn,
         ~BodyClosed(s)' => ~BodyClosed(s) /\ body'[s] = body[s],
         Writing(s)' => Writing(s)
  PROVE  FlowOK(s)'
<1>1. ASSUME ~BodyClosed(s)'
      PROVE  /\ Upto(seen'[s]["rich"], body'[s], "rich", sent'[s]["rich"] - Len(rich'[s]))
             /\ \E m \in 0 .. sent'[s]["plain"] :
                  /\ Upto(seen'[s]["plain"], body'[s], "plain", m)
                  /\ Writing(s)' => m = sent'[s]["plain"] - PlainsOf(box'[s])
  BY <1>1 DEF FlowOK
<1>2. /\ (home'[s] = NoConn => sent'[s]["plain"] = 0) /\ (~watched'[s] => NoDown(box'[s]))
      /\ LastPlains(box'[s], sent'[s]["plain"]) /\ LastRich(rich'[s], sent'[s]["rich"])
      /\ \A kind \in EventKinds : /\ InOrder(seen'[s][kind])
                                  /\ Len(seen'[s][kind]) <= sent'[s][kind]
  BY DEF FlowOK
<1> QED BY <1>1, <1>2 DEF FlowOK

\* Nothing waits, nothing was sent.
LEMMA EmptyFlow ==
  /\ NoDown(<<>>) /\ PlainsOf(<<>>) = 0
  /\ \A top : LastPlains(<<>>, top) /\ LastRich(<<>>, top)
BY EmptyBox, EmptySeq DEF PlainsOf, LastPlains, LastRich

\* A connection ends its bodies, and opens streams that have sent nothing.
LEMMA FlowOfConn ==
  ASSUME ShapeInv, NEW c \in Conns, ConnStep(c), NEW s \in Streams, FlowOK(s)
  PROVE  FlowOK(s)'
<1>1. CASE ~Open(c, s)
  <2>1. /\ box' = box /\ rich' = rich /\ sent' = sent /\ seen' = seen /\ watched' = watched
    BY DEF ConnStep, Serve, Disconnect, ConnectionEnds, ReapWriter, ReapHandler, Release, Open,
           procs, flow
  <2>2. /\ writer'[s] = writer[s] /\ home'[s] = home[s]
    BY <1>1 DEF ConnStep, Serve, Disconnect, ConnectionEnds, ReapWriter, ReapHandler, Release, Open,
           procs, ShapeInv, TypesOK
  <2>3. body'[s] = IF ConnectionEnds(c) /\ home[s] = c THEN <<>> ELSE body[s]
    BY DEF ConnStep, Serve, Disconnect, ConnectionEnds, ReapWriter, ReapHandler, Release, Open, flow
  <2>4. ~BodyClosed(s)' => ~BodyClosed(s) /\ body'[s] = body[s]
    BY <2>3, ClosedOfConn
  <2>5. Writing(s)' => Writing(s)
    BY <2>2 DEF Writing
  <2> QED BY <2>1, <2>2, <2>4, <2>5, FlowStays
<1>2. CASE Open(c, s)
  <2>1. /\ box' = box /\ rich' = rich /\ sent' = sent /\ seen' = seen /\ watched' = watched
        /\ body' = body /\ served' = served /\ home[s] = NoConn
    BY <1>2 DEF Open, flow
  <2>2. box[s] = <<>> /\ ~watched[s] /\ ~BodyClosed(s)
    BY <2>1 DEF ShapeInv, HomeOK, ChannelsOK, Writing, BodyClosed
  <2>3. sent[s]["plain"] = 0
    BY <2>1 DEF FlowOK
  <2>4. PICK m \in 0 .. sent[s]["plain"] : Upto(seen[s]["plain"], body[s], "plain", m)
    BY <2>2 DEF FlowOK
  <2>5. m = sent[s]["plain"] - PlainsOf(box[s])
    BY <2>2, <2>3, EmptyFlow
  <2>6. /\ LastPlains(box'[s], sent'[s]["plain"]) /\ LastRich(rich'[s], sent'[s]["rich"])
        /\ \A kind \in EventKinds : /\ InOrder(seen'[s][kind])
                                    /\ Len(seen'[s][kind]) <= sent'[s][kind]
        /\ Upto(seen'[s]["rich"], body'[s], "rich", sent'[s]["rich"] - Len(rich'[s]))
    BY <2>1, <2>2 DEF FlowOK
  <2>7. /\ Upto(seen'[s]["plain"], body'[s], "plain", m)
        /\ m \in 0 .. sent'[s]["plain"]
        /\ m = sent'[s]["plain"] - PlainsOf(box'[s])
        /\ sent'[s]["plain"] = 0 /\ NoDown(box'[s])
    BY <2>1, <2>2, <2>3, <2>4, <2>5, EmptyFlow
  <2> QED BY <2>6, <2>7 DEF FlowOK
<1> QED BY <1>1, <1>2

\* Another stream's step does not touch the events of this one.
LEMMA FlowOfOther ==
  ASSUME ShapeInv, NEW t \in Streams, StreamStep(t), NEW s \in Streams, s # t, FlowOK(s)
  PROVE  FlowOK(s)'
<1>0. /\ DOMAIN box = Streams /\ DOMAIN rich = Streams /\ DOMAIN body = Streams
      /\ DOMAIN sent = Streams /\ DOMAIN seen = Streams /\ DOMAIN writer = Streams
      /\ DOMAIN watched = Streams
  BY DEF ShapeInv, TypesOK, FlowTypesOK
<1>1. /\ box'[s] = box[s] /\ rich'[s] = rich[s] /\ body'[s] = body[s] /\ sent'[s] = sent[s]
      /\ writer'[s] = writer[s] /\ watched'[s] = watched[s] /\ home' = home
  <2>1. CASE Watch(t) \/ Ending(t) \/ TakePlain(t) \/ Sending(t) \/ TakeDown(t)
    BY <1>0, <2>1 DEF Watch, Ending, Ends, TakePlain, Sending, SendRich, TakeDown, WriterStep
  <2>2. CASE Moving(t) \/ Dropping(t) \/ Leaves(t)
    BY <1>0, <2>2 DEF Moving, Dropping, Drops, Leaves, HandlerStep
  <2>3. CASE Deliver(t)
    BY <1>0, <2>3 DEF Deliver, procs
  <2>4. CASE \E kind \in EventKinds : Emit(t, kind)
    BY <1>0, <2>4 DEF Emit, HandlerStep
  <2> QED BY <2>1, <2>2, <2>3, <2>4 DEF StreamStep
<1>2. seen'[s] = seen[s]
  <2>1. CASE Deliver(t)
    BY <1>0, <2>1 DEF Deliver
  <2>2. CASE ~Deliver(t)
    BY <2>2 DEF StreamStep, Watch, Ending, TakePlain, Sending, SendRich, TakeDown, Moving,
                Dropping, Drops, Leaves, Emit, WriterStep, HandlerStep
  <2> QED BY <2>1, <2>2
<1>3. BodyClosed(s)' <=> BodyClosed(s)
  BY ClosedOfStream
<1>4. Writing(s)' => Writing(s)
  BY <1>1 DEF Writing
<1> QED BY <1>1, <1>2, <1>3, <1>4, FlowStays

\* The Down of the handler comes behind what it sent.
LEMMA FlowOfDown ==
  ASSUME ShapeInv, NEW s \in Streams, Watch(s) \/ Leaves(s), FlowOK(s)
  PROVE  FlowOK(s)'
<1>1. /\ writer' = writer /\ rich' = rich /\ body' = body /\ sent' = sent /\ seen' = seen
      /\ home' = home /\ (watched[s] => watched'[s])
      /\ ~watched[s] \/ handler[s] = "dropped"
      /\ \/ box'[s] = box[s]
         \/ box'[s] = Append(box[s], Down) /\ watched'[s]
  BY DEF Watch, Leaves, HandlerStep, ShapeInv, TypesOK, FlowTypesOK
<1>2. BodyClosed(s)' <=> BodyClosed(s)
  BY ClosedOfStream DEF StreamStep
<1>3. Writing(s)' <=> Writing(s)
  BY <1>1 DEF Writing
<1>4. CASE box'[s] = box[s]
  BY <1>1, <1>2, <1>3, <1>4, FlowStays
<1>5. CASE box'[s] = Append(box[s], Down) /\ watched'[s]
  <2>1. NoDown(box[s])
    <3>1. EndOK(s)
      BY DEF ShapeInv
    <3> QED BY <1>1, <3>1 DEF EndOK, FlowOK
  <2>2. /\ LastPlains(Append(box[s], Down), sent[s]["plain"])
        /\ PlainsOf(Append(box[s], Down)) = PlainsOf(box[s])
    BY <2>1, FlowTypes, DownSent DEF FlowOK
  <2>3. /\ LastPlains(box'[s], sent'[s]["plain"]) /\ PlainsOf(box'[s]) = PlainsOf(box[s])
    BY <1>1, <1>5, <2>2
  <2>4. ASSUME ~BodyClosed(s)'
        PROVE  /\ Upto(seen'[s]["rich"], body'[s], "rich", sent'[s]["rich"] - Len(rich'[s]))
               /\ \E m \in 0 .. sent'[s]["plain"] :
                    /\ Upto(seen'[s]["plain"], body'[s], "plain", m)
                    /\ Writing(s)' => m = sent'[s]["plain"] - PlainsOf(box'[s])
    BY <1>1, <1>2, <1>3, <2>3, <2>4 DEF FlowOK
  <2>5. /\ (home'[s] = NoConn => sent'[s]["plain"] = 0)
        /\ LastRich(rich'[s], sent'[s]["rich"])
        /\ \A kind \in EventKinds : /\ InOrder(seen'[s][kind])
                                    /\ Len(seen'[s][kind]) <= sent'[s][kind]
    BY <1>1 DEF FlowOK
  <2> QED BY <1>5, <2>3, <2>4, <2>5 DEF FlowOK
<1> QED BY <1>1, <1>4, <1>5

\* The writer's end leaves what is on the body.
LEMMA FlowOfEnd ==
  ASSUME ShapeInv, NEW s \in Streams, Ending(s), FlowOK(s)
  PROVE  FlowOK(s)'
<1>1. /\ box'[s] = <<>> /\ rich'[s] = <<>> /\ body' = body /\ sent' = sent /\ seen' = seen
      /\ home' = home /\ watched' = watched /\ ~Writing(s)'
      /\ BodyClosed(s) \/ rich[s] = <<>>
  BY DEF Ending, Ends, WriterStep, Writing, ShapeInv, TypesOK, FlowTypesOK
<1>2. BodyClosed(s)' <=> BodyClosed(s)
  BY ClosedOfStream DEF StreamStep
<1>3. /\ NoDown(box'[s]) /\ LastPlains(box'[s], sent'[s]["plain"])
      /\ LastRich(rich'[s], sent'[s]["rich"])
  BY <1>1, EmptyFlow
<1>4. ASSUME ~BodyClosed(s)'
      PROVE  /\ Upto(seen'[s]["rich"], body'[s], "rich", sent'[s]["rich"] - Len(rich'[s]))
             /\ \E m \in 0 .. sent'[s]["plain"] :
                  /\ Upto(seen'[s]["plain"], body'[s], "plain", m)
                  /\ Writing(s)' => m = sent'[s]["plain"] - PlainsOf(box'[s])
  BY <1>1, <1>2, <1>4 DEF FlowOK
<1>5. /\ (home'[s] = NoConn => sent'[s]["plain"] = 0)
      /\ \A kind \in EventKinds : /\ InOrder(seen'[s][kind])
                                  /\ Len(seen'[s][kind]) <= sent'[s][kind]
  BY <1>1 DEF FlowOK
<1> QED BY <1>3, <1>4, <1>5 DEF FlowOK

\* The writer takes a plain event: it is the one after those on the body.
LEMMA FlowOfPlain ==
  ASSUME ShapeInv, NEW s \in Streams, TakePlain(s), FlowOK(s)
  PROVE  FlowOK(s)'
<1> DEFINE top == sent[s]["plain"]
           e == Head(box[s])
<1>1. /\ box[s] # <<>> /\ e # Down /\ ~BodyClosed(s) /\ Writing(s)
      /\ box'[s] = Tail(box[s]) /\ body'[s] = Append(body[s], e)
      /\ rich' = rich /\ sent' = sent /\ seen' = seen /\ home' = home /\ watched' = watched
  BY DEF TakePlain, WriterStep, Writing, ShapeInv, FlowTypesOK
<1>2. /\ e = Plain(top - PlainsOf(box[s]) + 1) /\ LastPlains(Tail(box[s]), top)
      /\ PlainsOf(Tail(box[s])) = PlainsOf(box[s]) - 1 /\ PlainsOf(box[s]) \in Nat \ {0}
      /\ ToSet(Tail(box[s])) \subseteq ToSet(box[s])
  BY <1>1, FlowTypes, PlainTaken DEF FlowOK
<1>3. PICK m \in 0 .. top : /\ Upto(seen[s]["plain"], body[s], "plain", m)
                            /\ m = top - PlainsOf(box[s])
  BY <1>1 DEF FlowOK
<1>4. m \in Nat /\ m + 1 \in 0 .. top /\ m + 1 = top - PlainsOf(Tail(box[s]))
  BY <1>2, <1>3, FlowTypes
<1>5. e = [kind |-> "plain", n |-> m + 1] /\ e \in Events /\ e.kind # "rich"
  BY <1>2, <1>3, <1>4 DEF Plain, Events, EventKinds
<1>6. Upto(seen[s]["plain"], Append(body[s], e), "plain", m + 1)
  <2>1. Upto(seen[s]["plain"], Append(body[s], [kind |-> "plain", n |-> m + 1]), "plain", m + 1)
    BY <1>3, <1>4, FlowTypes, UptoAppends
  <2> QED BY <1>5, <2>1
<1>7. Upto(seen[s]["rich"], Append(body[s], e), "rich", sent[s]["rich"] - Len(rich[s]))
  <2>1. Upto(seen[s]["rich"], body[s], "rich", sent[s]["rich"] - Len(rich[s]))
    BY <1>1 DEF FlowOK
  <2>2. sent[s]["rich"] - Len(rich[s]) \in Nat
    <3>1. /\ Len(seen[s]["rich"]) <= sent[s]["rich"] - Len(rich[s])
      BY <2>1 DEF Upto
    <3> QED BY <3>1, FlowTypes, LenProperties
  <2> QED BY <1>5, <2>1, <2>2, FlowTypes, UptoOther
<1> HIDE DEF top, e
<1>8. NoDown(box[s]) => NoDown(box'[s])
  BY <1>1, <1>2 DEF NoDown
<1>9. /\ LastPlains(box'[s], sent'[s]["plain"]) /\ LastRich(rich'[s], sent'[s]["rich"])
      /\ (home'[s] = NoConn => sent'[s]["plain"] = 0) /\ (~watched'[s] => NoDown(box'[s]))
      /\ \A kind \in EventKinds : /\ InOrder(seen'[s][kind])
                                  /\ Len(seen'[s][kind]) <= sent'[s][kind]
  BY <1>1, <1>2, <1>8 DEF FlowOK, top
<1>10. /\ Upto(seen'[s]["rich"], body'[s], "rich", sent'[s]["rich"] - Len(rich'[s]))
       /\ m + 1 \in 0 .. sent'[s]["plain"]
       /\ Upto(seen'[s]["plain"], body'[s], "plain", m + 1)
       /\ m + 1 = sent'[s]["plain"] - PlainsOf(box'[s])
  BY <1>1, <1>4, <1>6, <1>7 DEF top
<1> QED BY <1>9, <1>10 DEF FlowOK

\* It takes a rich one.
LEMMA FlowOfRich ==
  ASSUME ShapeInv, NEW s \in Streams, Sending(s), FlowOK(s)
  PROVE  FlowOK(s)'
<1> DEFINE top == sent[s]["rich"]
           e == Head(rich[s])
           k == top - Len(rich[s])
<1>1. /\ rich[s] # <<>> /\ ~BodyClosed(s) /\ Writing(s)
      /\ rich'[s] = Tail(rich[s]) /\ body'[s] = Append(body[s], e)
      /\ box' = box /\ sent' = sent /\ seen' = seen /\ home' = home /\ watched' = watched
  BY DEF Sending, SendRich, WriterStep, ShapeInv, FlowTypesOK
<1>2. /\ e = Rich(top - Len(rich[s]) + 1) /\ LastRich(Tail(rich[s]), top)
      /\ Len(Tail(rich[s])) = Len(rich[s]) - 1 /\ Len(rich[s]) \in Nat \ {0}
  BY <1>1, FlowTypes, RichTaken DEF FlowOK
<1>3. Upto(seen[s]["rich"], body[s], "rich", k)
  BY <1>1 DEF FlowOK
<1>4. k \in Nat /\ k + 1 = top - Len(Tail(rich[s]))
  <2>1. /\ Len(seen[s]["rich"]) <= k
    BY <1>3 DEF Upto
  <2> QED BY <1>2, <2>1, FlowTypes
<1>5. e = [kind |-> "rich", n |-> k + 1] /\ e \in Events /\ e.kind # "plain"
  BY <1>2, <1>4 DEF Rich, Events, EventKinds
<1> HIDE DEF k
<1>6. Upto(seen[s]["rich"], Append(body[s], e), "rich", k + 1)
  <2>1. Upto(seen[s]["rich"], Append(body[s], [kind |-> "rich", n |-> k + 1]), "rich", k + 1)
    BY <1>3, <1>4, FlowTypes, UptoAppends
  <2> QED BY <1>5, <2>1
<1>7. PICK m \in 0 .. sent[s]["plain"] : /\ Upto(seen[s]["plain"], body[s], "plain", m)
                                         /\ m = sent[s]["plain"] - PlainsOf(box[s])
  BY <1>1 DEF FlowOK
<1>8. Upto(seen[s]["plain"], Append(body[s], e), "plain", m)
  <2>1. m \in Nat
    BY FlowTypes
  <2> QED BY <1>5, <1>7, <2>1, FlowTypes, UptoOther
<1> HIDE DEF top, e
<1>9. /\ LastPlains(box'[s], sent'[s]["plain"]) /\ LastRich(rich'[s], sent'[s]["rich"])
      /\ (home'[s] = NoConn => sent'[s]["plain"] = 0) /\ (~watched'[s] => NoDown(box'[s]))
      /\ \A kind \in EventKinds : /\ InOrder(seen'[s][kind])
                                  /\ Len(seen'[s][kind]) <= sent'[s][kind]
  BY <1>1, <1>2 DEF FlowOK, top
<1>10. /\ Upto(seen'[s]["rich"], body'[s], "rich", sent'[s]["rich"] - Len(rich'[s]))
       /\ m \in 0 .. sent'[s]["plain"]
       /\ Upto(seen'[s]["plain"], body'[s], "plain", m)
       /\ m = sent'[s]["plain"] - PlainsOf(box'[s])
  BY <1>1, <1>4, <1>6, <1>7, <1>8 DEF top
<1> QED BY <1>9, <1>10 DEF FlowOK

\* The client gets what is first on the body: the next of its kind.
LEMMA FlowOfDelivery ==
  ASSUME ShapeInv, NEW s \in Streams, Deliver(s), FlowOK(s)
  PROVE  FlowOK(s)'
<1> DEFINE e == Head(body[s])
<1>1. /\ body[s] # <<>> /\ ~BodyClosed(s) /\ body'[s] = Tail(body[s])
      /\ seen' = [seen EXCEPT ![s][e.kind] = Append(@, e.n)]
      /\ box' = box /\ rich' = rich /\ sent' = sent /\ home' = home /\ watched' = watched
      /\ writer' = writer
  BY DEF Deliver, procs, BodyClosed, ShapeInv, FlowTypesOK
<1>2. e \in Events /\ e.kind \in EventKinds
  <2>1. body[s] \in Seq(Events)
    BY FlowTypes
  <2>2. e \in Events
    BY <1>1, <2>1, Beheaded
  <2> QED BY <2>2 DEF Events
<1> DEFINE richTop == sent[s]["rich"] - Len(rich[s])
<1>3. Upto(seen[s]["rich"], body[s], "rich", richTop)
  BY <1>1 DEF FlowOK
<1>4. PICK m \in 0 .. sent[s]["plain"] :
        /\ Upto(seen[s]["plain"], body[s], "plain", m)
        /\ Writing(s) => m = sent[s]["plain"] - PlainsOf(box[s])
  BY <1>1 DEF FlowOK
<1>5. m \in Nat /\ richTop \in Nat /\ richTop <= sent[s]["rich"] /\ m <= sent[s]["plain"]
  <2>1. Len(seen[s]["rich"]) <= richTop
    BY <1>3 DEF Upto
  <2> QED BY <1>4, <2>1, FlowTypes, LenProperties
<1> DEFINE upto == [kind \in EventKinds |-> IF kind = "rich" THEN richTop ELSE m]
<1>6. \A kind \in EventKinds :
        /\ Upto(seen[s][kind], body[s], kind, upto[kind])
        /\ upto[kind] \in Nat /\ upto[kind] <= sent[s][kind]
  BY <1>3, <1>4, <1>5, FlowTypes
<1>7. upto["rich"] = richTop /\ upto["plain"] = m
  BY FlowTypes
<1> HIDE DEF upto, richTop, e
<1>8. seen[s] \in [EventKinds -> Seq(Nat)] /\ seen \in [Streams -> [EventKinds -> Seq(Nat)]]
  BY DEF ShapeInv, FlowTypesOK
<1>9. /\ seen'[s] = [seen[s] EXCEPT ![e.kind] = Append(@, e.n)]
  BY <1>1, <1>8
<1>10. /\ seen'[s][e.kind] = Append(seen[s][e.kind], e.n)
       /\ \A kind \in EventKinds : kind # e.kind => seen'[s][kind] = seen[s][kind]
  BY <1>2, <1>8, <1>9
<1>11. ASSUME NEW kind \in EventKinds
       PROVE  /\ Upto(seen'[s][kind], body'[s], kind, upto[kind])
              /\ InOrder(seen'[s][kind]) /\ Len(seen'[s][kind]) <= sent[s][kind]
  <2>1. InOrder(seen[s][kind]) /\ Len(seen[s][kind]) <= sent[s][kind]
    BY DEF FlowOK
  <2>2. /\ Upto(seen[s][kind], body[s], kind, upto[kind])
        /\ upto[kind] \in Nat /\ upto[kind] <= sent[s][kind] /\ sent[s][kind] \in Nat
        /\ seen[s][kind] \in Seq(Nat) /\ body[s] \in Seq(Events)
    BY <1>6, <1>8, FlowTypes
  <2>3. CASE kind # e.kind
    <3>1. seen'[s][kind] = seen[s][kind]
      BY <1>10, <2>3
    <3>2. Upto(seen[s][kind], Tail(body[s]), kind, upto[kind])
      BY <1>1, <2>2, <2>3, UptoStays DEF e
    <3> QED BY <1>1, <2>1, <3>1, <3>2
  <2>4. CASE kind = e.kind
    <3>1. /\ e.n = Len(seen[s][kind]) + 1 /\ Len(seen[s][kind]) + 1 <= upto[kind]
          /\ Upto(Append(seen[s][kind], e.n), Tail(body[s]), kind, upto[kind])
      <4>1. Head(body[s]).kind = kind
        BY <2>4 DEF e
      <4>2. Upto(seen[s][kind], body[s], Head(body[s]).kind, upto[kind])
        BY <2>2, <4>1
      <4>3. /\ Head(body[s]).n = Len(seen[s][kind]) + 1 /\ Len(seen[s][kind]) + 1 <= upto[kind]
            /\ Upto(Append(seen[s][kind], Head(body[s]).n), Tail(body[s]), Head(body[s]).kind,
                    upto[kind])
        BY <1>1, <2>2, <4>2, UptoDelivers
      <4> QED BY <4>1, <4>3 DEF e
    <3>2. seen'[s][kind] = Append(seen[s][kind], e.n)
      BY <1>10, <2>4
    <3>3. /\ InOrder(seen'[s][kind]) /\ Len(seen'[s][kind]) = Len(seen[s][kind]) + 1
      BY <2>1, <2>2, <3>1, <3>2, OrderGrows
    <3>4. Len(seen[s][kind]) \in Nat
      BY <2>2, LenProperties
    <3> QED BY <1>1, <2>2, <3>1, <3>2, <3>3, <3>4
  <2> QED BY <2>3, <2>4
<1>12. Writing(s)' <=> Writing(s)
  BY <1>1 DEF Writing
<1>13. /\ Upto(seen'[s]["rich"], body'[s], "rich", sent'[s]["rich"] - Len(rich'[s]))
       /\ m \in 0 .. sent'[s]["plain"]
       /\ Upto(seen'[s]["plain"], body'[s], "plain", m)
       /\ Writing(s)' => m = sent'[s]["plain"] - PlainsOf(box'[s])
  <2>1. /\ Upto(seen'[s]["rich"], body'[s], "rich", upto["rich"])
        /\ Upto(seen'[s]["plain"], body'[s], "plain", upto["plain"])
    BY <1>11, FlowTypes
  <2> QED BY <1>1, <1>4, <1>7, <1>12, <2>1 DEF richTop
<1>14. /\ LastPlains(box'[s], sent'[s]["plain"]) /\ LastRich(rich'[s], sent'[s]["rich"])
       /\ (home'[s] = NoConn => sent'[s]["plain"] = 0) /\ (~watched'[s] => NoDown(box'[s]))
  BY <1>1 DEF FlowOK
<1>15. \A kind \in EventKinds : /\ InOrder(seen'[s][kind])
                                /\ Len(seen'[s][kind]) <= sent'[s][kind]
  BY <1>1, <1>11
<1> QED BY <1>13, <1>14, <1>15 DEF FlowOK

\* The handler sends a plain event: it is the last in the mailbox.
LEMMA FlowOfEmitPlain ==
  ASSUME ShapeInv, NEW s \in Streams, Emit(s, "plain"), Writing(s), FlowOK(s)
  PROVE  FlowOK(s)'
<1> DEFINE top == sent[s]["plain"]
<1>1. /\ sent' = [sent EXCEPT ![s]["plain"] = @ + 1]
      /\ box'[s] = Append(box[s], [kind |-> "plain", n |-> top + 1])
      /\ rich' = rich /\ body' = body /\ seen' = seen /\ home' = home /\ watched' = watched
      /\ writer' = writer /\ served' = served
      /\ handler[s] \in {"running", "closing"}
  BY DEF Emit, HandlerStep, ShapeInv, FlowTypesOK
<1>2. sent \in [Streams -> [EventKinds -> Nat]] /\ top \in Nat
  BY FlowTypes DEF ShapeInv, FlowTypesOK
<1>3. /\ sent'[s]["plain"] = top + 1 /\ sent'[s]["rich"] = sent[s]["rich"]
      /\ \A kind \in EventKinds : sent'[s][kind] \in {sent[s][kind], sent[s][kind] + 1}
  <2>1. sent'[s] = [sent[s] EXCEPT !["plain"] = @ + 1]
    BY <1>1, <1>2
  <2> QED BY <1>2, <2>1, FlowTypes
<1> HIDE DEF top
<1>4. NoDown(box[s])
  BY <1>1 DEF ShapeInv, EndOK
<1>5. LastPlains(box[s], top)
  BY DEF FlowOK, top
<1>6. box'[s] = Append(box[s], Plain(top + 1))
  BY <1>1 DEF Plain
<1>7. /\ LastPlains(box'[s], top + 1)
      /\ PlainsOf(box'[s]) = PlainsOf(box[s]) + 1 /\ NoDown(box'[s])
  BY <1>2, <1>4, <1>5, <1>6, FlowTypes, PlainSent
<1>8. home[s] # NoConn
  BY <1>1 DEF ShapeInv, HomeOK
<1>9. (BodyClosed(s)' <=> BodyClosed(s)) /\ (Writing(s)' <=> Writing(s))
  BY <1>1 DEF BodyClosed, Writing
<1>10. \A kind \in EventKinds : InOrder(seen'[s][kind]) /\ Len(seen'[s][kind]) <= sent'[s][kind]
  <2> SUFFICES ASSUME NEW kind \in EventKinds
               PROVE  InOrder(seen'[s][kind]) /\ Len(seen'[s][kind]) <= sent'[s][kind]
    OBVIOUS
  <2>1. InOrder(seen[s][kind]) /\ Len(seen[s][kind]) <= sent[s][kind]
    BY DEF FlowOK
  <2>2. sent[s][kind] \in Nat /\ Len(seen[s][kind]) \in Nat
    BY FlowTypes
  <2> QED BY <1>1, <1>3, <2>1, <2>2
<1>11. ASSUME ~BodyClosed(s)'
       PROVE  /\ Upto(seen'[s]["rich"], body'[s], "rich", sent'[s]["rich"] - Len(rich'[s]))
              /\ \E m \in 0 .. sent'[s]["plain"] :
                   /\ Upto(seen'[s]["plain"], body'[s], "plain", m)
                   /\ Writing(s)' => m = sent'[s]["plain"] - PlainsOf(box'[s])
  <2>1. PICK m \in 0 .. top : /\ Upto(seen[s]["plain"], body[s], "plain", m)
                              /\ m = top - PlainsOf(box[s])
    BY <1>9, <1>11 DEF FlowOK, top
  <2>2. PlainsOf(box[s]) \in Nat
    BY FlowTypes, PlainsParts
  <2>3. m \in 0 .. top + 1 /\ m = top + 1 - PlainsOf(box'[s])
    BY <1>2, <1>7, <2>1, <2>2
  <2>4. Upto(seen[s]["rich"], body[s], "rich", sent[s]["rich"] - Len(rich[s]))
    BY <1>9, <1>11 DEF FlowOK
  <2>5. Upto(seen'[s]["rich"], body'[s], "rich", sent'[s]["rich"] - Len(rich'[s]))
    BY <1>1, <1>3, <2>4
  <2>6. /\ m \in 0 .. sent'[s]["plain"] /\ m = sent'[s]["plain"] - PlainsOf(box'[s])
        /\ Upto(seen'[s]["plain"], body'[s], "plain", m)
    <3>1. Upto(seen'[s]["plain"], body'[s], "plain", m)
      BY <1>1, <2>1
    <3>2. sent'[s]["plain"] = top + 1
      BY <1>3
    <3>3. m \in 0 .. sent'[s]["plain"] /\ m = sent'[s]["plain"] - PlainsOf(box'[s])
      <4>1. PlainsOf(box'[s]) \in Nat
        BY <1>7, <2>2
      <4> QED BY <1>2, <2>3, <3>2, <4>1
    <3> QED BY <3>1, <3>3
  <2> QED BY <2>5, <2>6
<1>12. /\ LastPlains(box'[s], sent'[s]["plain"]) /\ LastRich(rich'[s], sent'[s]["rich"])
       /\ (home'[s] = NoConn => sent'[s]["plain"] = 0)
  BY <1>1, <1>3, <1>7, <1>8 DEF FlowOK
<1> QED BY <1>7, <1>10, <1>11, <1>12 DEF FlowOK

\* It sends a rich one: it is the last on the channel.
LEMMA FlowOfEmitRich ==
  ASSUME ShapeInv, NEW s \in Streams, Emit(s, "rich"), Writing(s), FlowOK(s)
  PROVE  FlowOK(s)'
<1> DEFINE top == sent[s]["rich"]
<1>1. /\ sent' = [sent EXCEPT ![s]["rich"] = @ + 1]
      /\ rich'[s] = Append(rich[s], [kind |-> "rich", n |-> top + 1])
      /\ box' = box /\ body' = body /\ seen' = seen /\ home' = home /\ watched' = watched
      /\ writer' = writer /\ served' = served
  BY DEF Emit, HandlerStep, ShapeInv, FlowTypesOK
<1>2. sent \in [Streams -> [EventKinds -> Nat]] /\ top \in Nat
  BY FlowTypes DEF ShapeInv, FlowTypesOK
<1>3. /\ sent'[s]["rich"] = top + 1 /\ sent'[s]["plain"] = sent[s]["plain"]
      /\ \A kind \in EventKinds : sent'[s][kind] \in {sent[s][kind], sent[s][kind] + 1}
  <2>1. sent'[s] = [sent[s] EXCEPT !["rich"] = @ + 1]
    BY <1>1, <1>2
  <2> QED BY <1>2, <2>1, FlowTypes
<1> HIDE DEF top
<1>4. LastRich(rich[s], top)
  BY DEF FlowOK, top
<1>5. rich'[s] = Append(rich[s], Rich(top + 1))
  BY <1>1 DEF Rich
<1>6. LastRich(rich'[s], top + 1)
  BY <1>2, <1>4, <1>5, FlowTypes, RichSent
<1>7. Len(rich'[s]) = Len(rich[s]) + 1 /\ Len(rich[s]) \in Nat
  <2>1. [kind |-> "rich", n |-> top + 1] \in Events
    BY <1>2 DEF Events, EventKinds
  <2> QED BY <1>1, <2>1, FlowTypes, Appended
<1>8. (BodyClosed(s)' <=> BodyClosed(s)) /\ (Writing(s)' <=> Writing(s))
  BY <1>1 DEF BodyClosed, Writing
<1>9. \A kind \in EventKinds : InOrder(seen'[s][kind]) /\ Len(seen'[s][kind]) <= sent'[s][kind]
  <2> SUFFICES ASSUME NEW kind \in EventKinds
               PROVE  InOrder(seen'[s][kind]) /\ Len(seen'[s][kind]) <= sent'[s][kind]
    OBVIOUS
  <2>1. InOrder(seen[s][kind]) /\ Len(seen[s][kind]) <= sent[s][kind]
    BY DEF FlowOK
  <2>2. sent[s][kind] \in Nat /\ Len(seen[s][kind]) \in Nat
    BY FlowTypes
  <2> QED BY <1>1, <1>3, <2>1, <2>2
<1>10. ASSUME ~BodyClosed(s)'
       PROVE  /\ Upto(seen'[s]["rich"], body'[s], "rich", sent'[s]["rich"] - Len(rich'[s]))
              /\ \E m \in 0 .. sent'[s]["plain"] :
                   /\ Upto(seen'[s]["plain"], body'[s], "plain", m)
                   /\ Writing(s)' => m = sent'[s]["plain"] - PlainsOf(box'[s])
  <2>1. PICK m \in 0 .. sent[s]["plain"] :
          /\ Upto(seen[s]["plain"], body[s], "plain", m)
          /\ m = sent[s]["plain"] - PlainsOf(box[s])
    BY <1>8, <1>10 DEF FlowOK
  <2>2. Upto(seen[s]["rich"], body[s], "rich", top - Len(rich[s]))
    BY <1>8, <1>10 DEF FlowOK, top
  <2>3. sent'[s]["rich"] - Len(rich'[s]) = top - Len(rich[s])
    BY <1>2, <1>3, <1>7
  <2> QED BY <1>1, <1>3, <2>1, <2>2, <2>3
<1>11. /\ LastPlains(box'[s], sent'[s]["plain"]) /\ LastRich(rich'[s], sent'[s]["rich"])
       /\ (home'[s] = NoConn => sent'[s]["plain"] = 0) /\ (~watched'[s] => NoDown(box'[s]))
  BY <1>1, <1>3, <1>6 DEF FlowOK
<1> QED BY <1>9, <1>10, <1>11 DEF FlowOK

\* Every step of a stream keeps its own flow.
LEMMA FlowOfStream ==
  ASSUME ShapeInv, NEW s \in Streams, StreamStep(s), FlowOK(s)
  PROVE  FlowOK(s)'
<1>1. CASE TakeDown(s) \/ Moving(s) \/ Dropping(s)
           \/ \E kind \in EventKinds : Emit(s, kind) /\ ~Writing(s)
  <2>1. /\ box' = box /\ rich' = rich /\ body' = body /\ sent' = sent /\ seen' = seen
        /\ home' = home /\ watched' = watched /\ served' = served
    BY <1>1 DEF TakeDown, Moving, Dropping, Drops, Emit, WriterStep, HandlerStep
  <2>2. Writing(s)' => Writing(s)
    BY <1>1 DEF TakeDown, Moving, Dropping, Drops, Emit, HandlerStep, Writing
  <2>3. ~BodyClosed(s)' => ~BodyClosed(s)
    BY <2>1 DEF BodyClosed
  <2> QED BY <2>1, <2>2, <2>3, FlowStays
<1>2. ASSUME NEW kind \in EventKinds, Emit(s, kind), Writing(s) PROVE FlowOK(s)'
  <2>1. kind = "plain" \/ kind = "rich"
    BY DEF EventKinds
  <2> QED BY <1>2, <2>1, FlowOfEmitPlain, FlowOfEmitRich
<1> QED BY <1>1, <1>2, FlowOfDown, FlowOfEnd, FlowOfPlain, FlowOfRich, FlowOfDelivery
        DEF StreamStep

\* The shape of the bridge and its flow.
FlowInv == ShapeInv /\ \A s \in Streams : FlowOK(s)

LEMMA FlowInit == SseInit => FlowInv
<1> SUFFICES ASSUME SseInit, NEW s \in Streams PROVE FlowOK(s)
  BY ShapeInit DEF FlowInv
<1>1. /\ box[s] = <<>> /\ rich[s] = <<>> /\ body[s] = <<>> /\ ~Writing(s)
      /\ \A kind \in EventKinds : sent[s][kind] = 0 /\ seen[s][kind] = <<>>
  BY DEF SseInit, Writing
<1>2. Len(<<>>) = 0 /\ InOrder(<<>>) /\ \A kind \in EventKinds : Upto(<<>>, <<>>, kind, 0)
  BY EmptySeq DEF InOrder, Upto
<1>3. /\ sent[s]["plain"] = 0 /\ sent[s]["rich"] = 0
      /\ seen[s]["plain"] = <<>> /\ seen[s]["rich"] = <<>>
      /\ Upto(<<>>, <<>>, "plain", 0) /\ Upto(<<>>, <<>>, "rich", 0)
  BY <1>1, <1>2 DEF EventKinds
<1>4. /\ 0 \in 0 .. sent[s]["plain"] /\ sent[s]["rich"] - Len(rich[s]) = 0
  <2>1. Len(rich[s]) = 0
    BY <1>1, <1>2
  <2> QED BY <1>3, <2>1
<1> QED BY <1>1, <1>2, <1>3, <1>4, EmptyFlow DEF FlowOK

\* FlowInv is inductive.
LEMMA FlowStep == FlowInv /\ [SseNext]_sseVars => FlowInv'
<1>1. ASSUME FlowInv, SseNext PROVE FlowInv'
  <2>1. ShapeInv'
    BY <1>1, ShapeStep DEF FlowInv
  <2>2. (\E c \in Conns : ConnStep(c)) \/ (\E s \in Streams : StreamStep(s))
    BY <1>1, StepCases DEF FlowInv
  <2>3. ASSUME NEW s \in Streams PROVE FlowOK(s)'
    BY <1>1, <2>2, FlowOfConn, FlowOfOther, FlowOfStream DEF FlowInv
  <2> QED BY <2>1, <2>3 DEF FlowInv
<1>2. ASSUME FlowInv, UNCHANGED sseVars PROVE FlowInv'
  <2>1. ShapeInv'
    BY <1>2, ShapeStep DEF FlowInv
  <2>2. ASSUME NEW s \in Streams PROVE FlowOK(s)'
    BY <1>2, FlowStays DEF FlowInv, sseVars, conns, procs, flow, BodyClosed, Writing
  <2> QED BY <2>1, <2>2 DEF FlowInv
<1> QED BY <1>1, <1>2

LEMMA FlowHolds == SseSpec => []FlowInv
BY FlowInit, FlowStep, PTL DEF SseSpec

\* At the end of a response nothing is on the channel and nothing on the body:
\* all rich events are with the client.
LEMMA FlowArrives == FlowInv => RichEventsArrive
<1> SUFFICES ASSUME FlowInv, NEW s \in Streams
             PROVE  /\ \A kind \in EventKinds :
                         /\ Len(seen[s][kind]) <= sent[s][kind]
                         /\ \A i \in DOMAIN seen[s][kind] : seen[s][kind][i] = i
                    /\ Complete(s) => Len(seen[s]["rich"]) = sent[s]["rich"]
  BY DEF RichEventsArrive
<1>1. ShapeInv /\ FlowOK(s)
  BY DEF FlowInv
<1>2. ASSUME Complete(s) PROVE Len(seen[s]["rich"]) = sent[s]["rich"]
  <2>1. ~BodyClosed(s) /\ ~Writing(s) /\ body[s] = <<>>
    BY <1>2 DEF Complete, BodyClosed, Writing
  <2>2. rich[s] = <<>>
    BY <1>1, <2>1 DEF ShapeInv, ChannelsOK
  <2>3. Upto(seen[s]["rich"], <<>>, "rich", sent[s]["rich"] - Len(<<>>))
    BY <1>1, <2>1, <2>2 DEF FlowOK
  <2>4. Len(<<>>) = 0 /\ DOMAIN <<>> = {}
    BY EmptySeq
  <2> DEFINE got == Len(seen[s]["rich"])
             all == sent[s]["rich"]
  <2>5. got \in Nat /\ all \in Nat
    BY <1>1, FlowTypes
  <2>6. got <= all /\ \A n \in got + 1 .. all : FALSE
    BY <2>3, <2>4, <2>5 DEF Upto
  <2> HIDE DEF got, all
  <2>7. got = all
    BY <2>5, <2>6
  <2> QED BY <2>7 DEF got, all
<1> QED BY <1>1, <1>2 DEF FlowOK, InOrder

\* What the client gets is in order and whole, and a response that ends has
\* brought every rich event (sse.rs:366-383), whatever the capacities.
THEOREM RichEventsAlwaysArrive == SseSpec => []RichEventsArrive
BY FlowHolds, FlowArrives, PTL

-----------------------------------------------------------------------------
(***************************************************************************)
(* The mailbox.                                                            *)
(***************************************************************************)

USE SizesAssumption

-----------------------------------------------------------------------------
(* Envelopes and sequences of them.                                        *)

LEMMA NoneIsNoEnvelope == NoEnvelope \notin Envelope
BY DEF NoEnvelope, Envelope

\* The index recv_match takes: the first that matches, or 0.
LEMMA MatchesFirst ==
  ASSUME saved \in Seq(Envelope), NEW kinds
  PROVE  /\ Matches(kinds) \in 0 .. Len(saved)
         /\ Matches(kinds) > 0 => saved[Matches(kinds)].kind \in kinds
         /\ \A j \in 1 .. Len(saved) :
              Matches(kinds) = 0 \/ j < Matches(kinds) => saved[j].kind \notin kinds
<1> DEFINE I == {i \in 1 .. Len(saved) : saved[i].kind \in kinds}
<1>1. Matches(kinds) = IF I # {} THEN Min(I) ELSE 0
  BY DEF Matches, SelectInSeq
<1>2. Len(saved) \in Nat
  BY LenProperties
<1>3. CASE I = {}
  BY <1>1, <1>2, <1>3
<1>4. CASE I # {}
  <2> HIDE DEF I
  <2>1. I \subseteq Nat /\ I \subseteq 1 .. Len(saved)
    BY <1>2 DEF I
  <2>2. PICK i \in I : \A j \in I : ~ (<<j, i>> \in OpToRel(<, Nat))
    BY <1>4, <2>1, WFMin, NatLessThanWellFounded, Zenon
  <2>3. ASSUME NEW j \in I PROVE i <= j
    <3>1. i \in Nat /\ j \in Nat /\ <<j, i>> \in Nat \X Nat
      BY <2>1
    <3>2. ~ (j < i)
      BY <2>2, <3>1 DEF OpToRel
    <3> QED BY <3>1, <3>2
  <2>4. Min(I) \in I /\ \A j \in I : Min(I) <= j
    BY <2>3 DEF Min
  <2>5. Matches(kinds) \in I /\ \A j \in I : Matches(kinds) <= j
    BY <1>1, <1>4, <2>1, <2>4
  <2>6. ASSUME NEW j \in 1 .. Len(saved), j < Matches(kinds) PROVE j \notin I
    <3>1. Matches(kinds) \in Nat
      BY <2>1, <2>5
    <3> QED BY <1>2, <2>5, <2>6, <3>1
  <2> QED BY <1>2, <2>1, <2>5, <2>6 DEF I
<1> QED BY <1>3, <1>4

\* What RemoveAt does to a sequence.
LEMMA RemoveAtParts ==
  ASSUME NEW S, NEW s \in Seq(S), NEW i \in 1 .. Len(s)
  PROVE  /\ RemoveAt(s, i) \in Seq(S)
         /\ Len(RemoveAt(s, i)) = Len(s) - 1
         /\ \A j \in 1 .. Len(s) - 1 :
              RemoveAt(s, i)[j] = IF j < i THEN s[j] ELSE s[j + 1]
<1> DEFINE a == SubSeq(s, 1, i - 1)
           b == SubSeq(s, i + 1, Len(s))
<1>1. Len(s) \in Nat /\ \A j \in 1 .. Len(s) : s[j] \in S
  BY LenProperties, ElementOfSeq
<1>2. /\ a \in Seq(S) /\ Len(a) = i - 1
      /\ \A j \in 1 .. i - 1 : a[j] = s[j]
  BY <1>1, SubSeqProperties
<1>3. /\ b \in Seq(S) /\ Len(b) = Len(s) - i
      /\ \A j \in 1 .. Len(s) - i : b[j] = s[j + i]
  BY <1>1, SubSeqProperties
<1> HIDE DEF a, b
<1>4. /\ a \o b \in Seq(S) /\ Len(a \o b) = Len(s) - 1
      /\ \A j \in 1 .. Len(s) - 1 :
           (a \o b)[j] = IF j <= i - 1 THEN a[j] ELSE b[j - (i - 1)]
  <2>1. /\ a \o b \in Seq(S) /\ Len(a \o b) = Len(a) + Len(b)
        /\ \A j \in 1 .. Len(a) + Len(b) :
             (a \o b)[j] = IF j <= Len(a) THEN a[j] ELSE b[j - Len(a)]
    BY <1>2, <1>3, ConcatProperties, Zenon
  <2>2. Len(a) + Len(b) = Len(s) - 1
    BY <1>1, <1>2, <1>3
  <2> QED BY <1>2, <2>1, <2>2
<1>5. ASSUME NEW j \in 1 .. Len(s) - 1
      PROVE  (a \o b)[j] = IF j < i THEN s[j] ELSE s[j + 1]
  <2>1. CASE j < i
    BY <1>1, <1>2, <1>4, <2>1
  <2>2. CASE ~(j < i)
    <3>1. j - (i - 1) \in 1 .. Len(s) - i /\ (j - (i - 1)) + i = j + 1
      BY <1>1, <2>2
    <3> QED BY <1>1, <1>3, <1>4, <2>2, <3>1
  <2> QED BY <2>1, <2>2
<1> QED BY <1>4, <1>5 DEF RemoveAt, a, b

-----------------------------------------------------------------------------
(* Type correctness.                                                       *)

\* A sender past its check has an envelope.
SendersInv ==
  \A s \in Senders : sender[s].step \in {"push", "count"} => sender[s].item \in Envelope
TypeInv == TypeOK /\ SendersInv

LEMMA TypeInit == Init => TypeInv
<1> SUFFICES ASSUME Init PROVE TypeInv
  OBVIOUS
<1>1. <<>> \in Seq(Envelope)
  BY EmptySeq
<1>2. sender \in [Senders -> [step : {"idle", "push", "count"},
                            item : Envelope \cup {NoEnvelope}]]
  BY DEF Init, IdleSender
<1>3. SendersInv
  BY DEF Init, IdleSender, SendersInv
<1>4. depth \in 0 .. DepthMod - 1 /\ meta \in 0 .. MaxSends /\ sends \in 0 .. MaxSends
  BY DEF Init, NoMeta
<1> QED BY <1>1, <1>2, <1>3, <1>4 DEF Init, TypeInv, TypeOK

\* What a sender's step does to its place.
LEMMA SenderStep ==
  ASSUME TypeInv, NEW s \in Senders, NEW step \in {"idle", "push", "count"},
         NEW e \in Envelope \cup {NoEnvelope}, step # "idle" => e \in Envelope,
         sender' = [sender EXCEPT ![s] = [step |-> step, item |-> e]]
  PROVE  /\ sender' \in [Senders -> [step : {"idle", "push", "count"},
                                    item : Envelope \cup {NoEnvelope}]]
         /\ SendersInv'
BY DEF TypeInv, TypeOK, SendersInv

LEMMA CheckType ==
  ASSUME TypeInv, NEW s \in Senders, NEW kind \in Kinds, Check(s, kind)
  PROVE  TypeInv'
<1> DEFINE item == [id |-> sends + 1, kind |-> kind, meta |-> MetaOf(sends + 1, kind)]
<1>1. item \in Envelope /\ sends' \in 0 .. MaxSends
  BY DEF TypeInv, TypeOK, Check, MetaOf, NoMeta, Envelope
<1>2. dropped' \in Nat
  BY DEF TypeInv, TypeOK, Check
<1>3. \/ UNCHANGED sender
      \/ sender' = [sender EXCEPT ![s] = [step |-> "push", item |-> item]]
  BY DEF Check
<1> HIDE DEF item
<1>4. /\ sender' \in [Senders -> [step : {"idle", "push", "count"},
                                 item : Envelope \cup {NoEnvelope}]]
      /\ SendersInv'
  <2>1. CASE UNCHANGED sender
    BY <2>1 DEF TypeInv, TypeOK, SendersInv
  <2> QED BY <1>1, <1>3, <2>1, SenderStep
<1> QED BY <1>1, <1>2, <1>4 DEF Check, TypeInv, TypeOK, receiver

LEMMA PushType ==
  ASSUME TypeInv, NEW s \in Senders, Push(s)
  PROVE  TypeInv'
<1>1. sender[s].item \in Envelope
  BY DEF TypeInv, SendersInv, Push
<1>2. /\ channel' \in Seq(Envelope) /\ arrived' \in Seq(Envelope)
      /\ UNCHANGED <<open, receiver, depth, dropped, sends>>
  <2>1. \A q \in Seq(Envelope) : Append(q, sender[s].item) \in Seq(Envelope)
    BY <1>1, AppendProperties
  <2> QED BY <2>1 DEF TypeInv, TypeOK, Push
<1>3. [sender[s] EXCEPT !.step = "count"] = [step |-> "count", item |-> sender[s].item]
  <2>1. sender[s] \in [step : {"idle", "push", "count"},
                       item : Envelope \cup {NoEnvelope}]
    BY DEF TypeInv, TypeOK
  <2> QED BY <2>1
<1>4. \/ sender' = [sender EXCEPT ![s] = [step |-> "count", item |-> sender[s].item]]
      \/ sender' = [sender EXCEPT ![s] = [step |-> "idle", item |-> NoEnvelope]]
  BY <1>3 DEF Push, IdleSender
<1> QED BY <1>1, <1>2, <1>4, SenderStep DEF TypeInv, TypeOK, receiver

LEMMA CountType ==
  ASSUME TypeInv, NEW s \in Senders, Count(s)
  PROVE  TypeInv'
<1>1. sender' = [sender EXCEPT ![s] = [step |-> "idle", item |-> NoEnvelope]]
  BY DEF Count, IdleSender
<1>2. depth' \in 0 .. DepthMod - 1
  BY DEF Count, TypeInv, TypeOK
<1> QED BY <1>1, <1>2, SenderStep DEF Count, TypeInv, TypeOK, receiver

\* Taking from the saved: at the front, or where it matches.
LEMMA FromSavedType ==
  ASSUME TypeInv, NEW i \in 1 .. Len(saved)
  PROVE  /\ saved[i] \in Envelope /\ saved[i] # NoEnvelope
         /\ RemoveAt(saved, i) \in Seq(Envelope)
BY ElementOfSeq, RemoveAtParts, NoneIsNoEnvelope DEF TypeInv, TypeOK

LEMMA HeadSaved ==
  ASSUME NEW S, NEW s \in Seq(S), s # <<>>
  PROVE  /\ 1 \in 1 .. Len(s) /\ Head(s) = s[1] /\ Tail(s) = RemoveAt(s, 1)
         /\ Tail(s) \in Seq(S) /\ Len(Tail(s)) = Len(s) - 1 /\ Head(s) \in S
<1>1. Len(s) \in Nat /\ Len(s) # 0 /\ Head(s) = s[1]
  BY EmptySeq, LenProperties
<1>2. /\ Tail(s) \in Seq(S) /\ Len(Tail(s)) = Len(s) - 1 /\ Head(s) \in S
      /\ \A i \in 1 .. Len(Tail(s)) : Tail(s)[i] = s[i + 1]
  BY HeadTailProperties
<1>3. /\ RemoveAt(s, 1) \in Seq(S) /\ Len(RemoveAt(s, 1)) = Len(s) - 1
      /\ \A j \in 1 .. Len(s) - 1 : RemoveAt(s, 1)[j] = s[j + 1]
  BY <1>1, RemoveAtParts
<1>4. Tail(s) = RemoveAt(s, 1)
  BY <1>2, <1>3, SeqEqual
<1> QED BY <1>1, <1>2, <1>4

LEMMA ReceiveType ==
  ASSUME TypeInv, Recv \/ \E kinds \in {{"message"}, {"signal"}} : RecvMatch(kinds)
  PROVE  TypeInv'
<1>1. CASE \E i \in 1 .. Len(saved) :
             /\ Accept(saved[i]) /\ saved' = RemoveAt(saved, i) /\ UNCHANGED wanted
  BY <1>1, FromSavedType DEF Accept, Recv, RecvMatch, TypeInv, TypeOK, SendersInv
<1>2. CASE /\ at' = "await" /\ wanted' \subseteq Kinds /\ UNCHANGED <<saved, held>>
  BY <1>2 DEF Recv, RecvMatch, TypeInv, TypeOK, SendersInv
<1>3. CASE Recv
  <2>1. CASE saved # <<>>
    <3>1. /\ 1 \in 1 .. Len(saved) /\ Head(saved) = saved[1]
          /\ Tail(saved) = RemoveAt(saved, 1)
      BY <2>1, HeadSaved DEF TypeInv, TypeOK
    <3>2. /\ Accept(saved[1]) /\ saved' = RemoveAt(saved, 1) /\ UNCHANGED wanted
      BY <1>3, <2>1, <3>1 DEF Recv
    <3> QED BY <1>1, <3>1, <3>2
  <2>2. CASE saved = <<>>
    BY <1>2, <1>3, <2>2 DEF Recv
  <2> QED BY <2>1, <2>2
<1>4. ASSUME NEW kinds \in {{"message"}, {"signal"}}, RecvMatch(kinds)
      PROVE  TypeInv'
  <2>1. Matches(kinds) > 0 => Matches(kinds) \in 1 .. Len(saved)
    BY MatchesFirst, LenProperties DEF TypeInv, TypeOK
  <2> QED BY <1>1, <1>2, <1>4, <2>1 DEF RecvMatch, Kinds
<1> QED BY <1>3, <1>4

LEMMA FromChannelType == TypeInv /\ FromChannel => TypeInv'
<1> SUFFICES ASSUME TypeInv, FromChannel PROVE TypeInv'
  OBVIOUS
<1>1. /\ Head(channel) \in Envelope /\ Head(channel) # NoEnvelope
      /\ Tail(channel) \in Seq(Envelope)
  BY HeadSaved, NoneIsNoEnvelope DEF FromChannel, TypeInv, TypeOK
<1>2. Append(saved, Head(channel)) \in Seq(Envelope)
  BY <1>1, AppendProperties DEF TypeInv, TypeOK
<1> QED BY <1>1, <1>2 DEF FromChannel, Accept, TypeInv, TypeOK, SendersInv

LEMMA StashType == TypeInv /\ Stash => TypeInv'
<1> SUFFICES ASSUME TypeInv, Stash PROVE TypeInv'
  OBVIOUS
<1>1. [id |-> held.id, kind |-> "message", meta |-> meta] \in Envelope
  BY DEF Stash, TypeInv, TypeOK, Envelope, Kinds
<1>2. deferred' \in Seq(Envelope) /\ depth' \in 0 .. DepthMod - 1
  BY <1>1, AppendProperties DEF Stash, TypeInv, TypeOK
<1> QED BY <1>2 DEF Stash, TypeInv, TypeOK, SendersInv

LEMMA RestType ==
  TypeInv /\ (Consumed \/ Timeout \/ Unstash \/ Close \/ UNCHANGED vars) => TypeInv'
<1> SUFFICES ASSUME TypeInv, Consumed \/ Timeout \/ Unstash \/ Close \/ UNCHANGED vars
             PROVE  TypeInv'
  OBVIOUS
<1>1. CASE Consumed
  <2>1. depth' \in 0 .. DepthMod - 1 /\ meta' \in 0 .. MaxSends
    BY <1>1 DEF Consumed, TypeInv, TypeOK, Envelope
  <2> QED BY <1>1, <2>1 DEF Consumed, TypeInv, TypeOK, SendersInv
<1>2. CASE Unstash
  <2>1. saved' \in Seq(Envelope) /\ deferred' \in Seq(Envelope)
    BY <1>2, ConcatProperties, EmptySeq DEF Unstash, TypeInv, TypeOK
  <2> QED BY <1>2, <2>1 DEF Unstash, TypeInv, TypeOK, SendersInv
<1>3. CASE Timeout \/ Close \/ UNCHANGED vars
  BY <1>3 DEF Timeout, Close, vars, receiver, TypeInv, TypeOK, SendersInv
<1> QED BY <1>1, <1>2, <1>3

LEMMA TypeStep == TypeInv /\ [Next]_vars => TypeInv'
BY CheckType, PushType, CountType, ReceiveType, FromChannelType, StashType, RestType
   DEF Next

\* Every variable stays within its type; in particular the counter within its
\* width, and what the receiver took is an envelope.
THEOREM TypeCorrect == Spec => []TypeOK
BY TypeInit, TypeStep, PTL DEF Spec, TypeInv

-----------------------------------------------------------------------------
(* The invariants.                                                         *)

One(condition) == IF condition THEN 1 ELSE 0
Taken == One(at = "took")
Kept == One(held # NoEnvelope)
Counting == InFlight("count")
Pushers == InFlight("push")
\* What is inside, and the envelope that is not counted out yet.
Size == Len(deferred) + Len(saved) + Len(channel) + Taken
Uncounted == Cardinality(Counting)

\* No envelope is inside twice: there are no more than were sent.
SizeBound ==
  /\ IsFiniteSet(Counting) /\ IsFiniteSet(Pushers)
  /\ Uncounted + Cardinality(Pushers) <= sends
  /\ Len(deferred) + Len(saved) + Len(channel) + Kept
       + Cardinality(Pushers) <= sends
\* The counter is what is inside without the uncounted, below zero wrapped:
\* the receiver may take, and count out, what is not counted yet.
DepthIs ==
  open => depth = IF Size >= Uncounted THEN Size - Uncounted
                                       ELSE Size - Uncounted + DepthMod
CountInv == SizeBound /\ DepthIs

\* The process has the metadata of what it received last.
MetaOfLast == at # "took" /\ held # NoEnvelope => meta = held.meta
\* Everything inside or received last is as it arrived.
Sent == {<<arrived[k].id, arrived[k].meta>> : k \in DOMAIN arrived}
Everything == Range(deferred) \cup Range(saved) \cup Range(channel) \cup ({held} \ {NoEnvelope})
AllKnown == \A e \in Everything : <<e.id, e.meta>> \in Sent
MetaInv == MetaOfLast /\ AllKnown

\* While a receive waits, nothing it wants is saved.
WantedNotSaved == at = "await" => \A e \in Range(saved) : e.kind \notin wanted

\* The messages of a sequence, and those about to be pushed.
Messages(s) == {i \in 1 .. Len(s) : s[i].meta # NoMeta}
MessageCount(s) == Cardinality(Messages(s))
Pushing == {s \in Pushers : sender[s].item.meta # NoMeta}
AllMessages == MessageCount(deferred) + MessageCount(saved) + MessageCount(channel)
LastMessage == One(held # NoEnvelope /\ held.meta # NoMeta)
\* Whoever passed its check found the counter below the capacity, and every
\* other sender has at most one envelope pushed or not counted.
OvershootInv ==
  /\ open => /\ AllMessages + Cardinality(Pushing) + LastMessage
                   <= Capacity + Cardinality(Senders)
             /\ ~stashed => AllMessages + Cardinality(Pushing)
                              <= Capacity + Cardinality(Senders) - 1
  /\ AllMessages <= Capacity + Cardinality(Senders) - One(~stashed)

LEMMA InvInit == Init => CountInv /\ MetaInv /\ WantedNotSaved
<1> SUFFICES ASSUME Init PROVE CountInv /\ MetaInv /\ WantedNotSaved
  OBVIOUS
<1>1. Len(<<>>) = 0
  BY EmptySeq
<1>2. Counting = {} /\ Pushers = {}
  BY DEF Init, IdleSender, InFlight, Counting, Pushers
<1>3. CountInv
  <2>1. /\ IsFiniteSet(Counting) /\ IsFiniteSet(Pushers)
        /\ Uncounted = 0 /\ Cardinality(Pushers) = 0
    BY <1>2, FS_EmptySet DEF Uncounted
  <2>2. Size = 0 /\ Kept = 0
    BY <1>1 DEF Init, Size, Taken, Kept, One
  <2>3. SizeBound
    BY <1>1, <2>1, <2>2 DEF Init, SizeBound
  <2> QED BY <2>1, <2>2, <2>3 DEF Init, CountInv, DepthIs
<1>4. Everything = {}
  BY DEF Init, Everything, Range
<1> QED BY <1>3, <1>4 DEF Init, MetaInv, MetaOfLast, AllKnown, WantedNotSaved

-----------------------------------------------------------------------------
(* The counter.                                                            *)

LEMMA FlightStep ==
  ASSUME TypeInv, NEW s \in Senders, NEW r, sender' = [sender EXCEPT ![s] = r]
  PROVE  /\ Counting' = IF r.step = "count" THEN Counting \cup {s} ELSE Counting \ {s}
         /\ Pushers' = IF r.step = "push" THEN Pushers \cup {s} ELSE Pushers \ {s}
BY DEF TypeInv, TypeOK, InFlight, Counting, Pushers

\* The numbers the counter is about.
Numeric ==
  /\ Len(deferred) \in Nat /\ Len(saved) \in Nat /\ Len(channel) \in Nat
  /\ Uncounted \in Nat /\ Cardinality(Pushers) \in Nat
  /\ sends \in Nat /\ sends <= MaxSends /\ depth \in 0 .. DepthMod - 1
  /\ Taken \in {0, 1} /\ Kept \in {0, 1} /\ Size \in Nat
LEMMA Numbers == TypeInv /\ CountInv => Numeric
BY LenProperties, FS_CardinalityType
   DEF Numeric, TypeInv, TypeOK, CountInv, SizeBound, Uncounted, Taken, Kept, One, Size

\* Counting in and out, within the width.
LEMMA WrapUp ==
  ASSUME NEW d \in 0 .. DepthMod - 1
  PROVE  (d + 1) % DepthMod = IF d = DepthMod - 1 THEN 0 ELSE d + 1
BY DEF SizesAssumption
LEMMA WrapDown ==
  ASSUME NEW d \in 0 .. DepthMod - 1
  PROVE  (d + DepthMod - 1) % DepthMod = IF d = 0 THEN DepthMod - 1 ELSE d - 1
BY DEF SizesAssumption

LEMMA CountOfCheck ==
  ASSUME TypeInv, CountInv, NEW s \in Senders, NEW kind \in Kinds, Check(s, kind)
  PROVE  CountInv'
<1>0. Numeric
  BY Numbers
<1>1. /\ UNCHANGED <<Size, Len(deferred), Len(saved), Len(channel), Kept>>
      /\ UNCHANGED <<open, depth>> /\ sends' = sends + 1
  BY DEF Check, receiver, Size, Taken, Kept
<1>2. CASE UNCHANGED sender
  <2>1. UNCHANGED <<Counting, Pushers, Uncounted>>
    BY <1>2 DEF InFlight, Counting, Pushers, Uncounted
  <2>2. SizeBound'
    BY <1>0, <1>1, <2>1 DEF Numeric, CountInv, SizeBound
  <2>3. DepthIs'
    BY <1>1, <2>1 DEF CountInv, DepthIs
  <2> QED BY <2>2, <2>3 DEF CountInv
<1>3. CASE \E item : sender' = [sender EXCEPT ![s] = [step |-> "push", item |-> item]]
  <2>1. /\ Counting' = Counting \ {s}
        /\ Pushers' = Pushers \cup {s}
    <3>1. PICK item : sender' = [sender EXCEPT ![s] = [step |-> "push", item |-> item]]
      BY <1>3
    <3>2. [step |-> "push", item |-> item].step = "push"
      OBVIOUS
    <3> QED BY <3>1, <3>2, FlightStep
  <2>2. s \notin Counting /\ s \notin Pushers
    BY DEF Check, InFlight, Counting, Pushers
  <2>3. /\ Counting' = Counting /\ Uncounted' = Uncounted
        /\ IsFiniteSet(Pushers')
        /\ Cardinality(Pushers') = Cardinality(Pushers) + 1
    BY <2>1, <2>2, FS_AddElement DEF CountInv, SizeBound, Uncounted
  <2>4. SizeBound'
    BY <1>0, <1>1, <2>3 DEF Numeric, CountInv, SizeBound
  <2>5. DepthIs'
    BY <1>1, <2>3 DEF CountInv, DepthIs
  <2> QED BY <2>4, <2>5 DEF CountInv
<1> QED BY <1>2, <1>3 DEF Check

LEMMA CountOfPush ==
  ASSUME TypeInv, CountInv, NEW s \in Senders, Push(s)
  PROVE  CountInv'
<1>0. Numeric
  BY Numbers
<1>1. /\ UNCHANGED <<open, depth, sends, at, held, Len(deferred), Len(saved)>>
      /\ s \in Pushers /\ s \notin Counting
  BY DEF Push, receiver, InFlight, Counting, Pushers
<1>2. \E r : /\ sender' = [sender EXCEPT ![s] = r]
             /\ r.step = IF open THEN "count" ELSE "idle"
  <2>1. CASE open
    <3> DEFINE r == [sender[s] EXCEPT !.step = "count"]
    <3>1. sender[s] \in [step : {"idle", "push", "count"}, item : Envelope \cup {NoEnvelope}]
      BY DEF TypeInv, TypeOK
    <3>2. r.step = "count" /\ sender' = [sender EXCEPT ![s] = r]
      BY <2>1, <3>1 DEF Push
    <3> HIDE DEF r
    <3> QED BY <2>1, <3>2
  <2>2. CASE ~open
    <3>1. sender' = [sender EXCEPT ![s] = IdleSender] /\ IdleSender.step = "idle"
      BY <2>2 DEF Push, IdleSender
    <3> QED BY <2>2, <3>1
  <2> QED BY <2>1, <2>2
<1>3. /\ Pushers' = Pushers \ {s}
      /\ Counting' = IF open THEN Counting \cup {s} ELSE Counting
  <2>1. PICK r : sender' = [sender EXCEPT ![s] = r] /\ r.step = IF open THEN "count" ELSE "idle"
    BY <1>2
  <2>2. /\ Counting' = IF r.step = "count" THEN Counting \cup {s} ELSE Counting \ {s}
        /\ Pushers' = IF r.step = "push" THEN Pushers \cup {s} ELSE Pushers \ {s}
    BY <2>1, FlightStep
  <2> QED BY <1>1, <2>1, <2>2
<1>4. /\ IsFiniteSet(Pushers')
      /\ Cardinality(Pushers') = Cardinality(Pushers) - 1
  BY <1>1, <1>3, FS_RemoveElement DEF CountInv, SizeBound
<1>5. IsFiniteSet(Counting') /\ Uncounted' = Uncounted + One(open)
  <2>1. IsFiniteSet(Counting) /\ Uncounted \in Nat
    BY <1>0 DEF Numeric, CountInv, SizeBound
  <2>2. CASE open
    BY <1>1, <1>3, <2>1, <2>2, FS_AddElement DEF Uncounted, One
  <2>3. CASE ~open
    BY <1>3, <2>1, <2>3 DEF Uncounted, One
  <2> QED BY <2>2, <2>3
<1>6. Len(channel)' = Len(channel) + One(open)
  <2>1. sender[s].item \in Envelope
    BY DEF Push, TypeInv, SendersInv
  <2>2. Len(Append(channel, sender[s].item)) = Len(channel) + 1
    BY <2>1, AppendProperties DEF TypeInv, TypeOK
  <2>3. Len(channel) \in Nat
    BY LenProperties DEF TypeInv, TypeOK
  <2> QED BY <2>2, <2>3 DEF Push, One
<1>7. SizeBound'
  <2>1. /\ IsFiniteSet(Counting') /\ IsFiniteSet(Pushers')
        /\ Kept' = Kept /\ One(open) \in {0, 1}
    BY <1>1, <1>4, <1>5 DEF Kept, One
  <2>2. Uncounted' + Cardinality(Pushers') <= sends'
    BY <1>0, <1>1, <1>4, <1>5, <2>1 DEF Numeric, CountInv, SizeBound
  <2>3. Len(deferred)' + Len(saved)' + Len(channel)' + Kept' + Cardinality(Pushers')
          <= sends'
    BY <1>0, <1>1, <1>4, <1>6, <2>1 DEF Numeric, CountInv, SizeBound
  <2> QED BY <2>1, <2>2, <2>3 DEF SizeBound
<1>8. DepthIs'
  BY <1>0, <1>1, <1>5, <1>6 DEF Numeric, CountInv, DepthIs, Size, Taken, One
<1> QED BY <1>7, <1>8 DEF CountInv

LEMMA CountOfCount ==
  ASSUME TypeInv, CountInv, NEW s \in Senders, Count(s)
  PROVE  CountInv'
<1>0. Numeric
  BY Numbers
<1>1. /\ UNCHANGED <<open, sends, at, held, Len(deferred), Len(saved), Len(channel)>>
      /\ s \in Counting /\ s \notin Pushers
      /\ depth' = (depth + 1) % DepthMod
  BY DEF Count, receiver, InFlight, Counting, Pushers
<1>2. /\ Counting' = Counting \ {s}
      /\ Pushers' = Pushers
  <2>1. sender' = [sender EXCEPT ![s] = IdleSender] /\ IdleSender.step = "idle"
    BY DEF Count, IdleSender
  <2> QED BY <1>1, <2>1, FlightStep
<1>3. IsFiniteSet(Counting') /\ Uncounted' = Uncounted - 1
  BY <1>1, <1>2, FS_RemoveElement DEF CountInv, SizeBound, Uncounted
<1>4. depth' = IF depth = DepthMod - 1 THEN 0 ELSE depth + 1
  BY <1>0, <1>1, WrapUp DEF Numeric, CountInv
<1>5. Uncounted' \in Nat
  BY <1>3, FS_CardinalityType DEF Uncounted
<1>6. SizeBound'
  BY <1>0, <1>1, <1>2, <1>3, <1>5 DEF Numeric, CountInv, SizeBound, Kept, One
<1>7. /\ Size' = Size /\ open' = open /\ Size <= sends
      /\ DepthMod \in Nat /\ DepthMod > MaxSends + 1
  <2>1. Taken <= Kept
    BY DEF Taken, Kept, One, TypeInv, TypeOK
  <2> QED BY <1>0, <1>1, <2>1 DEF Size, Taken, Numeric, CountInv, SizeBound
<1>8. DepthIs'
  BY <1>0, <1>3, <1>4, <1>5, <1>7 DEF Numeric, CountInv, DepthIs
<1> QED BY <1>6, <1>8 DEF CountInv

\* The receiver's steps leave the senders alone.
LEMMA SameFlights ==
  ASSUME UNCHANGED sender
  PROVE  UNCHANGED <<Counting, Pushers, Uncounted>>
BY DEF Counting, Pushers, InFlight, Uncounted

\* Taking an envelope, from the saved or from the channel, and waiting.
LEMMA CountOfReceive ==
  ASSUME TypeInv, CountInv,
         \/ Recv \/ FromChannel
         \/ \E kinds \in {{"message"}, {"signal"}} : RecvMatch(kinds)
  PROVE  CountInv'
<1>0. Numeric
  BY Numbers
<1>1. /\ UNCHANGED <<Counting, Pushers, Uncounted>>
      /\ UNCHANGED <<open, depth, sends, deferred, sender>> /\ at # "took"
  BY SameFlights DEF Recv, FromChannel, RecvMatch
\* What the receiver took has left the queue, and is not counted out.
<1>3. \/ /\ Len(saved') + Len(channel') = Len(saved) + Len(channel) - 1
         /\ at' = "took" /\ held' # NoEnvelope
      \/ /\ Len(saved') + Len(channel') = Len(saved) + Len(channel)
         /\ at' # "took" /\ held' = held
  <2>1. CASE Recv
    <3>1. CASE saved # <<>>
      <4>1. saved' = Tail(saved) /\ at' = "took" /\ held' = Head(saved) /\ channel' = channel
        BY <2>1, <3>1 DEF Recv, Accept
      <4>2. Len(Tail(saved)) = Len(saved) - 1 /\ Head(saved) \in Envelope
        BY <3>1, HeadSaved DEF TypeInv, TypeOK
      <4> QED BY <1>0, <4>1, <4>2, NoneIsNoEnvelope DEF Numeric
    <3>2. CASE saved = <<>>
      BY <2>1, <3>2 DEF Recv
    <3> QED BY <3>1, <3>2
  <2>2. CASE \E kinds \in {{"message"}, {"signal"}} : RecvMatch(kinds)
    <3> PICK kinds \in {{"message"}, {"signal"}} : RecvMatch(kinds)
      BY <2>2
    <3>1. CASE Matches(kinds) > 0
      <4>1. /\ saved' = RemoveAt(saved, Matches(kinds)) /\ at' = "took"
            /\ held' = saved[Matches(kinds)] /\ channel' = channel
        BY <3>1 DEF RecvMatch, Accept
      <4>2. Matches(kinds) \in 1 .. Len(saved)
        BY <1>0, <3>1, MatchesFirst DEF Numeric, TypeInv, TypeOK
      <4>3. Len(saved') = Len(saved) - 1 /\ held' # NoEnvelope
        BY <4>1, <4>2, FromSavedType, RemoveAtParts DEF TypeInv, TypeOK
      <4> QED BY <1>0, <4>1, <4>3 DEF Numeric
    <3>2. CASE ~(Matches(kinds) > 0)
      <4>1. saved' = saved /\ channel' = channel /\ at' = "await" /\ held' = held
        BY <3>2 DEF RecvMatch
      <4> QED BY <4>1
    <3> QED BY <3>1, <3>2
  <2>3. CASE FromChannel
    <3>1. /\ Len(Tail(channel)) = Len(channel) - 1 /\ Head(channel) \in Envelope
          /\ channel' = Tail(channel)
      BY <2>3, HeadSaved DEF FromChannel, TypeInv, TypeOK
    <3>2. Len(Append(saved, Head(channel))) = Len(saved) + 1
      BY <3>1, AppendProperties DEF TypeInv, TypeOK
    <3>3. CASE Head(channel).kind \in wanted
      BY <1>0, <2>3, <3>1, <3>3, NoneIsNoEnvelope DEF FromChannel, Accept, Numeric
    <3>4. CASE Head(channel).kind \notin wanted
      <4>1. saved' = Append(saved, Head(channel)) /\ at' = "await" /\ held' = held
        BY <2>3, <3>4 DEF FromChannel
      <4>2. /\ Len(saved') = Len(saved) + 1 /\ Len(channel') = Len(channel) - 1
            /\ Len(saved) \in Nat /\ Len(channel) \in Nat
        BY <1>0, <3>1, <3>2, <4>1 DEF Numeric
      <4>3. Len(saved') + Len(channel') = Len(saved) + Len(channel)
        BY <4>2
      <4> QED BY <4>1, <4>3
    <3> QED BY <3>3, <3>4
  <2> QED BY <2>1, <2>2, <2>3
<1>4. Len(saved') \in Nat /\ Len(channel') \in Nat
  <2>1. saved' \in Seq(Envelope) /\ channel' \in Seq(Envelope)
    BY ReceiveType, FromChannelType DEF TypeInv, TypeOK
  <2> QED BY <2>1, LenProperties
<1>5. CASE at' = "took"
  <2>1. Len(saved') + Len(channel') = Len(saved) + Len(channel) - 1
    BY <1>3, <1>5
  <2>2. Taken = 0 /\ Taken' = 1 /\ Kept' = 1 /\ Kept \in {0, 1}
    BY <1>1, <1>3, <1>5 DEF Taken, Kept, One
  <2>3. SizeBound'
    BY <1>0, <1>1, <1>4, <2>1, <2>2 DEF Numeric, CountInv, SizeBound
  <2>4. Size' = Size
    BY <1>0, <1>1, <1>4, <2>1, <2>2 DEF Numeric, Size
  <2> QED BY <1>1, <2>3, <2>4 DEF CountInv, DepthIs
<1>6. CASE at' # "took"
  <2>1. Len(saved') + Len(channel') = Len(saved) + Len(channel) /\ held' = held
    BY <1>3, <1>6
  <2>2. Taken = 0 /\ Taken' = 0 /\ Kept' = Kept
    BY <1>1, <1>6, <2>1 DEF Taken, Kept, One
  <2>3. SizeBound'
    BY <1>0, <1>1, <1>4, <2>1, <2>2 DEF Numeric, CountInv, SizeBound
  <2>4. Size' = Size
    BY <1>0, <1>1, <1>4, <2>1, <2>2 DEF Numeric, Size
  <2> QED BY <1>1, <2>3, <2>4 DEF CountInv, DepthIs
<1> QED BY <1>5, <1>6

LEMMA CountOfConsumed == TypeInv /\ CountInv /\ Consumed => CountInv'
<1> SUFFICES ASSUME TypeInv, CountInv, Consumed PROVE CountInv'
  OBVIOUS
<1>0. Numeric
  BY Numbers
<1>1. /\ UNCHANGED <<Counting, Pushers, Uncounted>>
      /\ UNCHANGED <<open, sends, deferred, saved, channel, held>>
      /\ at = "took" /\ at' = "idle"
      /\ depth' = IF depth = 0 THEN DepthMod - 1 ELSE depth - 1
  BY <1>0, SameFlights, WrapDown DEF Consumed, Numeric
<1>2. Taken = 1 /\ Taken' = 0 /\ Kept' = Kept
  BY <1>1 DEF Taken, Kept, One
<1>3. SizeBound'
  BY <1>0, <1>1, <1>2 DEF Numeric, CountInv, SizeBound
\* No more is uncounted than was sent, so the counter does not wrap onto itself.
<1>4. Size' = Size - 1 /\ Size >= 1 /\ Size <= sends /\ Uncounted <= sends
  <2>1. Kept = 1
    BY <1>1 DEF Kept, One, TypeInv, TypeOK
  <2> QED BY <1>0, <1>1, <1>2, <2>1 DEF Size, Numeric, CountInv, SizeBound
<1>5. DepthIs'
  BY <1>0, <1>1, <1>4 DEF Numeric, CountInv, DepthIs
<1> QED BY <1>3, <1>5 DEF CountInv

LEMMA CountOfStash == TypeInv /\ CountInv /\ Stash => CountInv'
<1> SUFFICES ASSUME TypeInv, CountInv, Stash PROVE CountInv'
  OBVIOUS
<1>0. Numeric
  BY Numbers
<1>1. /\ UNCHANGED <<Counting, Pushers, Uncounted>>
      /\ UNCHANGED <<open, sends, saved, channel, at>> /\ at = "idle"
      /\ held # NoEnvelope /\ held' = NoEnvelope
      /\ depth' = IF depth = DepthMod - 1 THEN 0 ELSE depth + 1
  BY <1>0, SameFlights, WrapUp DEF Stash, Numeric
<1>2. Taken = 0 /\ Taken' = 0 /\ Kept = 1 /\ Kept' = 0
  BY <1>1 DEF Taken, Kept, One
<1>3. Len(deferred') = Len(deferred) + 1
  <2>1. [id |-> held.id, kind |-> "message", meta |-> meta] \in Envelope
    BY DEF Stash, TypeInv, TypeOK, Envelope, Kinds
  <2> QED BY <2>1, AppendProperties DEF Stash, TypeInv, TypeOK
<1>4. SizeBound'
  BY <1>0, <1>1, <1>2, <1>3 DEF Numeric, CountInv, SizeBound
<1>5. Size' = Size + 1 /\ Size < sends /\ Uncounted <= sends
  BY <1>0, <1>1, <1>2, <1>3 DEF Size, Numeric, CountInv, SizeBound
<1>6. DepthIs'
  BY <1>0, <1>1, <1>5 DEF Numeric, CountInv, DepthIs
<1> QED BY <1>4, <1>6 DEF CountInv

LEMMA CountOfRest ==
  TypeInv /\ CountInv /\ (Timeout \/ Unstash \/ Close \/ UNCHANGED vars) => CountInv'
<1> SUFFICES ASSUME TypeInv, CountInv, Timeout \/ Unstash \/ Close \/ UNCHANGED vars
             PROVE  CountInv'
  OBVIOUS
<1>0. Numeric
  BY Numbers
<1>1. /\ UNCHANGED <<Counting, Pushers, Uncounted>>
      /\ UNCHANGED <<depth, sends, channel>> /\ (open' => open)
      /\ (at' = "took" <=> at = "took") /\ (held' # NoEnvelope => held' = held)
  BY SameFlights DEF Timeout, Unstash, Close, vars, receiver
<1>2. Taken' = Taken /\ Kept' <= Kept /\ Kept' \in {0, 1}
  BY <1>1 DEF Taken, Kept, One
<1>3. Len(deferred') \in Nat /\ Len(saved') \in Nat
      /\ Len(deferred') + Len(saved') = Len(deferred) + Len(saved)
  <2>1. CASE Unstash
    <3>1. Len(deferred \o saved) = Len(deferred) + Len(saved) /\ Len(<<>>) = 0
      BY ConcatProperties, EmptySeq DEF TypeInv, TypeOK
    <3> QED BY <1>0, <2>1, <3>1 DEF Unstash, Numeric
  <2>2. CASE UNCHANGED <<deferred, saved>>
    BY <1>0, <2>2 DEF Numeric
  <2> QED BY <2>1, <2>2 DEF Timeout, Close, vars, receiver
<1>4. SizeBound'
  BY <1>0, <1>1, <1>2, <1>3 DEF Numeric, CountInv, SizeBound
<1>5. Size' = Size
  BY <1>0, <1>1, <1>2, <1>3 DEF Numeric, Size
<1>6. DepthIs'
  BY <1>1, <1>5 DEF CountInv, DepthIs
<1> QED BY <1>4, <1>6 DEF CountInv

LEMMA CountStep == TypeInv /\ CountInv /\ [Next]_vars => CountInv'
BY CountOfCheck, CountOfPush, CountOfCount, CountOfReceive, CountOfConsumed,
   CountOfStash, CountOfRest
   DEF Next

\* What is inside is what is in its three parts.
LEMMA InsideParts ==
  ASSUME TypeOK
  PROVE  /\ Inside \in Seq(Envelope)
         /\ Len(Inside) = Len(deferred) + Len(saved) + Len(channel)
BY ConcatProperties DEF TypeOK, Inside

LEMMA Modulo ==
  ASSUME NEW x \in Nat, x < DepthMod
  PROVE  x % DepthMod = x /\ (x + DepthMod) % DepthMod = x
BY DEF SizesAssumption

\* The counter is exact up to the steps in between, at every width that is
\* enough to tell the sends apart.
THEOREM DepthStaysExact == Spec => []DepthExact
<1>1. TypeInv /\ CountInv => DepthExact
  <2> SUFFICES ASSUME TypeInv, CountInv, open
               PROVE  (depth + Uncounted) % DepthMod
                        = (Len(Inside) + (IF at = "took" THEN 1 ELSE 0)) % DepthMod
    BY DEF DepthExact, Uncounted, Counting, TypeInv
  <2>0. Numeric
    BY Numbers
  <2>1. Len(Inside) + (IF at = "took" THEN 1 ELSE 0) = Size
    BY <2>0, InsideParts DEF Numeric, Size, Taken, One, TypeInv
  <2>2. Size < DepthMod
    <3>1. Taken <= Kept
      BY DEF Taken, Kept, One, TypeInv, TypeOK
    <3> QED BY <2>0, <3>1 DEF Numeric, Size, CountInv, SizeBound
  <2>3. depth + Uncounted = Size \/ depth + Uncounted = Size + DepthMod
    BY <2>0 DEF Numeric, CountInv, DepthIs
  <2> QED BY <2>0, <2>1, <2>2, <2>3, Modulo DEF Numeric
<1> QED BY <1>1, TypeInit, TypeStep, InvInit, CountStep, PTL DEF Spec

-----------------------------------------------------------------------------
(* Metadata.                                                               *)

LEMMA RangeOps ==
  ASSUME NEW S, NEW s \in Seq(S)
  PROVE  /\ \A e \in S : Range(Append(s, e)) = Range(s) \cup {e}
         /\ \A i \in 1 .. Len(s) : s[i] \in Range(s) /\ Range(RemoveAt(s, i)) \subseteq Range(s)
         /\ s # <<>> => Head(s) \in Range(s) /\ Range(Tail(s)) \subseteq Range(s)
<1>0. Range(s) = {s[i] : i \in 1 .. Len(s)} /\ Len(s) \in Nat
  BY RangeEquality, LenProperties
<1>1. ASSUME NEW e \in S PROVE Range(Append(s, e)) = Range(s) \cup {e}
  <2>1. Append(s, e) \in Seq(S) /\ Len(Append(s, e)) = Len(s) + 1
        /\ \A i \in 1 .. Len(s) : Append(s, e)[i] = s[i]
        /\ Append(s, e)[Len(s) + 1] = e
    BY AppendProperties
  <2>2. Range(Append(s, e)) = {Append(s, e)[i] : i \in 1 .. Len(s) + 1}
    BY <2>1, RangeEquality
  <2> QED BY <1>0, <2>1, <2>2
<1>2. ASSUME NEW i \in 1 .. Len(s)
      PROVE  s[i] \in Range(s) /\ Range(RemoveAt(s, i)) \subseteq Range(s)
  <2>1. /\ RemoveAt(s, i) \in Seq(S) /\ Len(RemoveAt(s, i)) = Len(s) - 1
        /\ \A j \in 1 .. Len(s) - 1 :
             RemoveAt(s, i)[j] = IF j < i THEN s[j] ELSE s[j + 1]
    BY RemoveAtParts
  <2>2. Range(RemoveAt(s, i)) = {RemoveAt(s, i)[j] : j \in 1 .. Len(s) - 1}
    BY <2>1, RangeEquality
  <2> QED BY <1>0, <2>1, <2>2
<1>3. ASSUME s # <<>> PROVE Head(s) \in Range(s) /\ Range(Tail(s)) \subseteq Range(s)
  BY <1>2, <1>3, HeadSaved
<1> QED BY <1>1, <1>2, <1>3

\* Where what is inside after a step comes from.
LEMMA EverythingStep ==
  ASSUME TypeInv, [Next]_vars, NEW e \in Everything', e \notin Everything
  PROVE  \/ \E s \in Senders : Push(s) /\ open /\ e = sender[s].item
         \/ Stash /\ e = [id |-> held.id, kind |-> "message", meta |-> meta]
<1> USE DEF TypeInv, TypeOK
<1>1. CASE \E s \in Senders : Push(s)
  <2> PICK s \in Senders : Push(s)
    BY <1>1
  <2>1. sender[s].item \in Envelope
    BY DEF Push, SendersInv
  <2>2. Range(Append(channel, sender[s].item)) = Range(channel) \cup {sender[s].item}
    BY <2>1, RangeOps
  <2>3. UNCHANGED <<deferred, saved, held>>
    BY DEF Push, receiver
  <2>4. CASE open
    <3>1. Range(channel') = Range(channel) \cup {sender[s].item}
      BY <2>2, <2>4 DEF Push
    <3> QED BY <2>3, <2>4, <3>1 DEF Everything
  <2>5. CASE ~open
    BY <2>3, <2>5 DEF Push, Everything
  <2> QED BY <2>4, <2>5
<1>2. CASE Recv
  <2>1. saved # <<>> => Head(saved) \in Range(saved) /\ Range(Tail(saved)) \subseteq Range(saved)
    BY RangeOps
  <2> QED BY <1>2, <2>1 DEF Recv, Accept, Everything
<1>3. CASE \E kinds \in {{"message"}, {"signal"}} : RecvMatch(kinds)
  <2> PICK kinds \in {{"message"}, {"signal"}} : RecvMatch(kinds)
    BY <1>3
  <2>1. Matches(kinds) > 0 =>
          /\ saved[Matches(kinds)] \in Range(saved)
          /\ Range(RemoveAt(saved, Matches(kinds))) \subseteq Range(saved)
    <3>1. Matches(kinds) > 0 => Matches(kinds) \in 1 .. Len(saved)
      BY MatchesFirst, LenProperties
    <3> QED BY <3>1, RangeOps
  <2> QED BY <2>1 DEF RecvMatch, Accept, Everything
<1>4. CASE FromChannel
  <2>1. Head(channel) \in Range(channel) /\ Range(Tail(channel)) \subseteq Range(channel)
    BY <1>4, RangeOps DEF FromChannel
  <2>2. Range(Append(saved, Head(channel))) = Range(saved) \cup {Head(channel)}
    BY <1>4, HeadSaved, RangeOps DEF FromChannel
  <2> QED BY <1>4, <2>1, <2>2 DEF FromChannel, Accept, Everything
<1>5. CASE Stash
  <2> DEFINE d == [id |-> held.id, kind |-> "message", meta |-> meta]
  <2>1. d \in Envelope
    BY <1>5 DEF Stash, Envelope, Kinds
  <2>2. deferred' = Append(deferred, d) /\ UNCHANGED <<saved, channel>> /\ held' = NoEnvelope
    BY <1>5 DEF Stash
  <2> HIDE DEF d
  <2>3. Range(deferred') = Range(deferred) \cup {d}
    BY <2>1, <2>2, RangeOps
  <2>4. e = d
    BY <2>2, <2>3 DEF Everything
  <2> QED BY <1>5, <2>4 DEF d
<1>6. CASE Unstash
  <2>1. Range(deferred \o saved) = Range(deferred) \cup Range(saved)
    BY RangeConcatenation
  <2>2. Range(<<>>) = {}
    BY DEF Range
  <2> QED BY <1>6, <2>1, <2>2 DEF Unstash, Everything
<1>7. CASE UNCHANGED <<deferred, saved, channel, held>>
  BY <1>7 DEF Everything
<1> QED BY <1>1, <1>2, <1>3, <1>4, <1>5, <1>6, <1>7
        DEF Next, Check, Count, Consumed, Timeout, Close, vars, receiver

\* What arrived stays so, and what is pushed has arrived.
LEMMA SentStep ==
  ASSUME TypeInv, [Next]_vars
  PROVE  /\ Sent \subseteq Sent'
         /\ \A s \in Senders : Push(s) /\ open =>
              <<sender[s].item.id, sender[s].item.meta>> \in Sent'
<1>1. ASSUME NEW s \in Senders, Push(s), open
      PROVE  Sent \subseteq Sent' /\ <<sender[s].item.id, sender[s].item.meta>> \in Sent'
  <2>1. sender[s].item \in Envelope /\ arrived' = Append(arrived, sender[s].item)
    BY <1>1 DEF Push, TypeInv, SendersInv
  <2>2. /\ DOMAIN arrived = 1 .. Len(arrived) /\ Len(arrived) \in Nat
        /\ arrived' \in Seq(Envelope) /\ Len(arrived') = Len(arrived) + 1
        /\ \A i \in 1 .. Len(arrived) : arrived'[i] = arrived[i]
        /\ arrived'[Len(arrived) + 1] = sender[s].item
    BY <2>1, AppendProperties, LenProperties DEF TypeInv, TypeOK
  <2>3. DOMAIN arrived' = 1 .. Len(arrived) + 1
    BY <2>2, LenProperties
  <2> QED BY <2>2, <2>3 DEF Sent
<1>2. CASE UNCHANGED arrived
  BY <1>1, <1>2 DEF Sent
<1> QED
  BY <1>1, <1>2 DEF Next, vars, Check, Push, Count, Recv, RecvMatch, FromChannel, Consumed,
     Timeout, Stash, Unstash, Close

LEMMA MetaStep == TypeInv /\ MetaInv /\ [Next]_vars => MetaInv'
<1> SUFFICES ASSUME TypeInv, MetaInv, [Next]_vars PROVE MetaInv'
  OBVIOUS
<1>1. ASSUME NEW e \in Everything' PROVE <<e.id, e.meta>> \in Sent'
  <2>1. CASE e \in Everything
    BY <2>1, SentStep DEF MetaInv, AllKnown
  <2>2. CASE e \notin Everything /\ \E s \in Senders : Push(s) /\ open /\ e = sender[s].item
    BY <2>2, SentStep
\* It is set aside with the metadata of the last receive, which is its own.
  <2>3. CASE Stash /\ e = [id |-> held.id, kind |-> "message", meta |-> meta]
    <3>1. held \in Everything /\ meta = held.meta
      BY <2>3 DEF Stash, Everything, MetaInv, MetaOfLast
    <3>2. <<held.id, held.meta>> \in Sent'
      BY <3>1, SentStep DEF MetaInv, AllKnown
    <3> QED BY <2>3, <3>1, <3>2
  <2> QED BY <1>1, <2>1, <2>2, <2>3, EverythingStep
<1>2. MetaOfLast'
  BY DEF MetaInv, MetaOfLast, Next, vars, receiver, Check, Push, Count, Recv, RecvMatch,
     FromChannel, Accept, Consumed, Timeout, Stash, Unstash, Close
<1> QED BY <1>1, <1>2 DEF MetaInv, AllKnown

\* A message is received with the metadata it was sent with, however often it
\* is set aside and taken again.
THEOREM MetadataStays == Spec => []MetaStaysWithMessage
<1>1. TypeInv /\ MetaInv => MetaStaysWithMessage
  <2> SUFFICES ASSUME TypeInv, MetaInv, NEW i \in DOMAIN Inside
               PROVE  \E k \in DOMAIN arrived :
                        arrived[k].id = Inside[i].id /\ arrived[k].meta = Inside[i].meta
    BY DEF MetaStaysWithMessage, MetaInv, MetaOfLast
  <2>1. Range(Inside) = Range(deferred) \cup Range(saved) \cup Range(channel)
    <3>1. /\ deferred \in Seq(Envelope) /\ saved \in Seq(Envelope)
          /\ channel \in Seq(Envelope) /\ deferred \o saved \in Seq(Envelope)
      BY ConcatProperties DEF TypeInv, TypeOK
    <3>2. Range(deferred \o saved) = Range(deferred) \cup Range(saved)
      BY <3>1, RangeConcatenation
    <3>3. Range((deferred \o saved) \o channel) = Range(deferred \o saved) \cup Range(channel)
      BY <3>1, RangeConcatenation
    <3> QED BY <3>2, <3>3 DEF Inside
  <2>2. Inside[i] \in Everything
    BY <2>1 DEF Everything, Range
  <2> QED BY <2>2 DEF MetaInv, AllKnown, Sent
<1> QED BY <1>1, TypeInit, TypeStep, InvInit, MetaStep, PTL DEF Spec

-----------------------------------------------------------------------------
(* The selective receive.                                                  *)

LEMMA WantedStep == TypeInv /\ WantedNotSaved /\ [Next]_vars => WantedNotSaved'
<1> SUFFICES ASSUME TypeInv, WantedNotSaved, [Next]_vars PROVE WantedNotSaved'
  OBVIOUS
<1>0. Range(saved) = {saved[i] : i \in 1 .. Len(saved)}
  BY RangeEquality DEF TypeInv, TypeOK
<1>1. CASE Recv
  <2>1. Range(<<>>) = {}
    BY DEF Range
  <2> QED BY <1>1, <2>1 DEF Recv, Accept, WantedNotSaved
<1>2. CASE \E kinds \in {{"message"}, {"signal"}} : RecvMatch(kinds)
  <2> PICK kinds \in {{"message"}, {"signal"}} : RecvMatch(kinds)
    BY <1>2
  <2>1. CASE Matches(kinds) > 0
    BY <2>1 DEF RecvMatch, Accept, WantedNotSaved
  <2>2. CASE ~(Matches(kinds) > 0)
    <3>1. Matches(kinds) = 0
      BY <2>2, MatchesFirst, LenProperties DEF TypeInv, TypeOK
    <3>2. \A i \in 1 .. Len(saved) : saved[i].kind \notin kinds
      BY <3>1, MatchesFirst DEF TypeInv, TypeOK
    <3> QED BY <1>0, <2>2, <3>2 DEF RecvMatch, WantedNotSaved
  <2> QED BY <2>1, <2>2
<1>3. CASE FromChannel
  <2>1. Range(Append(saved, Head(channel))) = Range(saved) \cup {Head(channel)}
    BY <1>3, HeadSaved, RangeOps DEF FromChannel, TypeInv, TypeOK
  <2> QED BY <1>3, <2>1 DEF FromChannel, Accept, WantedNotSaved
<1>4. CASE at' = "idle"
  BY <1>4 DEF WantedNotSaved
<1>5. CASE UNCHANGED <<at, saved, wanted>>
  BY <1>5 DEF WantedNotSaved
<1> QED
  BY <1>1, <1>2, <1>3, <1>4, <1>5 DEF Next, vars, receiver, Check, Push, Count, Consumed,
     Timeout, Stash, Unstash, Close

\* Two sequences as one queue.
LEMMA QueueIndex ==
  ASSUME NEW S, NEW s \in Seq(S), NEW c \in Seq(S)
  PROVE  /\ Len(s) \in Nat /\ Len(c) \in Nat
         /\ s \o c \in Seq(S) /\ Len(s \o c) = Len(s) + Len(c)
         /\ DOMAIN (s \o c) = 1 .. Len(s) + Len(c)
         /\ \A i \in 1 .. Len(s) : (s \o c)[i] = s[i]
         /\ \A i \in 1 .. Len(c) : (s \o c)[Len(s) + i] = c[i]
<1>1. Len(s) \in Nat /\ Len(c) \in Nat
  BY LenProperties
<1>2. /\ s \o c \in Seq(S) /\ Len(s \o c) = Len(s) + Len(c)
      /\ \A i \in 1 .. Len(s) + Len(c) :
           (s \o c)[i] = IF i <= Len(s) THEN s[i] ELSE c[i - Len(s)]
  BY ConcatProperties
<1>3. ASSUME NEW i \in 1 .. Len(c) PROVE (s \o c)[Len(s) + i] = c[i]
  <2>1. Len(s) + i \in 1 .. Len(s) + Len(c) /\ ~(Len(s) + i <= Len(s))
        /\ (Len(s) + i) - Len(s) = i
    BY <1>1
  <2> QED BY <1>2, <2>1
<1> QED BY <1>1, <1>2, <1>3, LenProperties

LEMMA QueueRemoveFirst ==
  ASSUME NEW S, NEW s \in Seq(S), NEW c \in Seq(S), NEW i \in 1 .. Len(s)
  PROVE  RemoveAt(s \o c, i) = RemoveAt(s, i) \o c
<1> DEFINE q == s \o c
           r == RemoveAt(s, i)
<1>1. /\ Len(s) \in Nat /\ Len(c) \in Nat /\ q \in Seq(S) /\ Len(q) = Len(s) + Len(c)
      /\ \A j \in 1 .. Len(s) : q[j] = s[j]
      /\ \A j \in 1 .. Len(c) : q[Len(s) + j] = c[j]
  BY QueueIndex
<1>2. /\ r \in Seq(S) /\ Len(r) = Len(s) - 1
      /\ \A j \in 1 .. Len(s) - 1 : r[j] = IF j < i THEN s[j] ELSE s[j + 1]
  BY RemoveAtParts
<1> HIDE DEF q, r
<1>3. /\ RemoveAt(q, i) \in Seq(S) /\ Len(RemoveAt(q, i)) = Len(q) - 1
      /\ \A j \in 1 .. Len(q) - 1 : RemoveAt(q, i)[j] = IF j < i THEN q[j] ELSE q[j + 1]
  <2>1. i \in 1 .. Len(q)
    BY <1>1
  <2> QED BY <1>1, <2>1, RemoveAtParts
<1>4. /\ r \o c \in Seq(S) /\ Len(r \o c) = Len(r) + Len(c)
      /\ \A j \in 1 .. Len(r) : (r \o c)[j] = r[j]
      /\ \A j \in 1 .. Len(c) : (r \o c)[Len(r) + j] = c[j]
  <2>1. r \in Seq(S)
    BY <1>2
  <2> QED BY <2>1, QueueIndex
<1>5. ASSUME NEW j \in 1 .. Len(q) - 1 PROVE RemoveAt(q, i)[j] = (r \o c)[j]
  <2>1. CASE j <= Len(s) - 1
    <3>1. j \in 1 .. Len(s) - 1 /\ j \in 1 .. Len(r) /\ j + 1 \in 1 .. Len(s) /\ j \in 1 .. Len(s)
      BY <1>1, <1>2, <2>1
    <3>2. (r \o c)[j] = IF j < i THEN s[j] ELSE s[j + 1]
      BY <1>2, <1>4, <3>1
    <3> QED BY <1>1, <1>3, <3>1, <3>2
  <2>2. CASE ~(j <= Len(s) - 1)
    <3> DEFINE k == j - (Len(s) - 1)
    <3>1. k \in 1 .. Len(c) /\ j + 1 = Len(s) + k /\ j = Len(r) + k /\ ~(j < i)
      BY <1>1, <1>2, <2>2
    <3> HIDE DEF k
    <3>2. q[j + 1] = c[k] /\ (r \o c)[j] = c[k]
      BY <1>1, <1>4, <3>1
    <3> QED BY <1>3, <3>1, <3>2
  <2> QED BY <2>1, <2>2
<1>6. Len(RemoveAt(q, i)) = Len(r \o c)
  BY <1>1, <1>2, <1>3, <1>4
<1>7. RemoveAt(q, i) = r \o c
  BY <1>3, <1>4, <1>5, <1>6, SeqEqual
<1> QED BY <1>7 DEF q, r

LEMMA QueueRemoveSecond ==
  ASSUME NEW S, NEW s \in Seq(S), NEW c \in Seq(S), c # <<>>
  PROVE  /\ Len(s) + 1 \in DOMAIN (s \o c)
         /\ (s \o c)[Len(s) + 1] = Head(c)
         /\ RemoveAt(s \o c, Len(s) + 1) = s \o Tail(c)
         /\ Append(s, Head(c)) \o Tail(c) = s \o c
<1> DEFINE q == s \o c
           t == Tail(c)
<1>1. /\ Len(s) \in Nat /\ Len(c) \in Nat /\ q \in Seq(S) /\ Len(q) = Len(s) + Len(c)
      /\ DOMAIN q = 1 .. Len(s) + Len(c)
      /\ \A j \in 1 .. Len(s) : q[j] = s[j]
      /\ \A j \in 1 .. Len(c) : q[Len(s) + j] = c[j]
  BY QueueIndex
<1>2. /\ 1 \in 1 .. Len(c) /\ Head(c) = c[1] /\ Head(c) \in S
      /\ t \in Seq(S) /\ Len(t) = Len(c) - 1
      /\ \A j \in 1 .. Len(t) : t[j] = c[j + 1]
  BY HeadSaved, HeadTailProperties
<1>3. /\ s \o t \in Seq(S) /\ Len(s \o t) = Len(s) + Len(t)
      /\ \A j \in 1 .. Len(s) : (s \o t)[j] = s[j]
      /\ \A j \in 1 .. Len(t) : (s \o t)[Len(s) + j] = t[j]
  BY <1>2, QueueIndex
<1>4. Len(s) + 1 \in 1 .. Len(q) /\ q[Len(s) + 1] = Head(c)
  BY <1>1, <1>2
<1> HIDE DEF q, t
<1>5. /\ RemoveAt(q, Len(s) + 1) \in Seq(S)
      /\ Len(RemoveAt(q, Len(s) + 1)) = Len(q) - 1
      /\ \A j \in 1 .. Len(q) - 1 :
           RemoveAt(q, Len(s) + 1)[j] = IF j < Len(s) + 1 THEN q[j] ELSE q[j + 1]
  BY <1>1, <1>4, RemoveAtParts
<1>6. ASSUME NEW j \in 1 .. Len(q) - 1
      PROVE  RemoveAt(q, Len(s) + 1)[j] = (s \o t)[j]
  <2>1. CASE j \in 1 .. Len(s)
    BY <1>1, <1>3, <1>5, <2>1
  <2>2. CASE j \notin 1 .. Len(s)
    <3> DEFINE k == j - Len(s)
    <3>1. /\ k \in 1 .. Len(t) /\ k + 1 \in 1 .. Len(c) /\ j = Len(s) + k
          /\ j + 1 = Len(s) + (k + 1) /\ ~(j < Len(s) + 1)
      BY <1>1, <1>2, <2>2
    <3> HIDE DEF k
    <3>2. q[j + 1] = c[k + 1] /\ (s \o t)[j] = c[k + 1]
      BY <1>1, <1>2, <1>3, <3>1
    <3> QED BY <1>5, <3>1, <3>2
  <2> QED BY <2>1, <2>2
<1>7. RemoveAt(q, Len(s) + 1) = s \o t
  <2>1. Len(RemoveAt(q, Len(s) + 1)) = Len(s \o t)
    BY <1>1, <1>2, <1>3, <1>5
  <2> QED BY <1>3, <1>5, <1>6, <2>1, SeqEqual
<1>8. Append(s, Head(c)) \o t = q
  <2>1. Append(s, Head(c)) = s \o <<Head(c)>> /\ <<Head(c)>> \in Seq(S)
    BY <1>2, AppendIsConcat
  <2>2. c = <<Head(c)>> \o t
    <3> DEFINE h == <<Head(c)>>
    <3>1. h \in Seq(S) /\ Len(h) = 1 /\ h[1] = c[1]
      BY <1>2
    <3> HIDE DEF h
    <3>2. /\ h \o t \in Seq(S) /\ Len(h \o t) = 1 + Len(t)
          /\ \A j \in 1 .. 1 : (h \o t)[j] = h[j]
          /\ \A j \in 1 .. Len(t) : (h \o t)[1 + j] = t[j]
      <4>1. /\ h \o t \in Seq(S) /\ Len(h \o t) = Len(h) + Len(t)
            /\ \A j \in 1 .. Len(h) : (h \o t)[j] = h[j]
            /\ \A j \in 1 .. Len(t) : (h \o t)[Len(h) + j] = t[j]
        <5>1. t \in Seq(S) /\ h \in Seq(S)
          BY <1>2, <3>1
        <5> QED BY <5>1, QueueIndex
      <4> QED BY <3>1, <4>1
    <3>3. ASSUME NEW j \in 1 .. Len(c) PROVE c[j] = (h \o t)[j]
      <4>1. CASE j = 1
        BY <3>1, <3>2, <4>1
      <4>2. CASE j # 1
        <5>1. j - 1 \in 1 .. Len(t) /\ 1 + (j - 1) = j /\ (j - 1) + 1 = j
          BY <1>1, <1>2, <4>2
        <5> QED BY <1>2, <3>2, <5>1
      <4> QED BY <4>1, <4>2
    <3>4. c = h \o t
      <4>1. Len(c) = Len(h \o t)
        BY <1>1, <1>2, <3>2
      <4> QED BY <3>2, <3>3, <4>1, SeqEqual
    <3> QED BY <3>4 DEF h
  <2>3. (s \o <<Head(c)>>) \o t = s \o (<<Head(c)>> \o t)
    BY <1>2, <2>1, ConcatAssociative
  <2> QED BY <2>1, <2>2, <2>3 DEF q
<1> QED BY <1>1, <1>4, <1>7, <1>8 DEF q, t

\* What the promise's steps are in the mailbox.
LEMMA ArriveStep ==
  ASSUME TypeInv, NEW s \in Senders, Push(s)
  PROVE  [Promise!Next]_(Promise!svars)
<1>1. CASE open
  <2>1. sender[s].item \in Envelope /\ channel' = Append(channel, sender[s].item)
    BY <1>1 DEF Push, TypeInv, SendersInv
  <2>2. Append(saved \o channel, sender[s].item) = saved \o channel'
    <3> PICK e \in Envelope : e = sender[s].item
      BY <2>1
    <3>1. saved \in Seq(Envelope) /\ channel \in Seq(Envelope) /\ <<e>> \in Seq(Envelope)
      BY DEF TypeInv, TypeOK
    <3>2. Append(channel, e) = channel \o <<e>>
      BY <3>1, AppendIsConcat
    <3>3. Append(saved \o channel, e) = (saved \o channel) \o <<e>>
      BY <3>1, AppendIsConcat, ConcatProperties
    <3>4. (saved \o channel) \o <<e>> = saved \o (channel \o <<e>>)
      BY <3>1, ConcatAssociative
    <3> QED BY <2>1, <3>2, <3>3, <3>4
  <2>3. UNCHANGED <<saved, deferred, held>>
    BY DEF Push, receiver
  <2>4. Promise!Arrive
    BY <2>1, <2>2, <2>3 DEF Promise!Arrive
  <2> QED BY <2>4 DEF Promise!Next
<1>2. CASE ~open
  BY <1>2 DEF Push, receiver, Promise!svars
<1> QED BY <1>1, <1>2

LEMMA SameRemoveAt == \A q, i : Promise!RemoveAt(q, i) = RemoveAt(q, i)
BY DEF Promise!RemoveAt, RemoveAt

LEMMA TakeStep ==
  ASSUME TypeInv, WantedNotSaved,
         \/ Recv \/ FromChannel
         \/ \E kinds \in {{"message"}, {"signal"}} : RecvMatch(kinds)
  PROVE  [Promise!Next]_(Promise!svars)
<1>1. ASSUME NEW i \in 1 .. Len(saved), NEW kinds \in SUBSET Kinds, saved[i].kind \in kinds,
             \A j \in 1 .. i - 1 : saved[j].kind \notin kinds,
             saved' = RemoveAt(saved, i), held' = saved[i], UNCHANGED <<channel, deferred>>
      PROVE  Promise!Next
  <2>1. /\ i \in DOMAIN (saved \o channel) /\ (saved \o channel)[i] = saved[i]
        /\ \A j \in 1 .. i - 1 : (saved \o channel)[j] = saved[j]
    BY QueueIndex DEF TypeInv, TypeOK
  <2>2. RemoveAt(saved \o channel, i) = saved' \o channel'
    <3>1. saved \in Seq(Envelope) /\ channel \in Seq(Envelope)
      BY DEF TypeInv, TypeOK
    <3>2. RemoveAt(saved \o channel, i) = RemoveAt(saved, i) \o channel
      BY <3>1, QueueRemoveFirst
    <3> QED BY <1>1, <3>2
  <2>3. Promise!Take(kinds)
    BY <1>1, <2>1, <2>2, SameRemoveAt DEF Promise!Take
  <2> QED BY <2>3 DEF Promise!Next
<1>2. CASE Recv
  <2>1. CASE saved # <<>>
    <3>1. /\ 1 \in 1 .. Len(saved) /\ Head(saved) = saved[1] /\ Tail(saved) = RemoveAt(saved, 1)
          /\ saved[1].kind \in Kinds
      <4>1. saved \in Seq(Envelope)
        BY DEF TypeInv, TypeOK
      <4>2. /\ 1 \in 1 .. Len(saved) /\ Head(saved) = saved[1]
            /\ Tail(saved) = RemoveAt(saved, 1) /\ saved[1] \in Envelope
        BY <2>1, <4>1, HeadSaved
      <4> QED BY <4>2 DEF Envelope
    <3>2. saved' = RemoveAt(saved, 1) /\ held' = saved[1] /\ UNCHANGED <<channel, deferred>>
      BY <1>2, <2>1, <3>1 DEF Recv, Accept
    <3> QED BY <1>1, <3>1, <3>2
  <2>2. CASE saved = <<>>
    BY <1>2, <2>2 DEF Recv, Promise!svars
  <2> QED BY <2>1, <2>2
<1>3. ASSUME NEW kinds \in {{"message"}, {"signal"}}, RecvMatch(kinds)
      PROVE  [Promise!Next]_(Promise!svars)
  <2>1. CASE Matches(kinds) > 0
    <3> DEFINE i == Matches(kinds)
    <3>1. /\ i \in 1 .. Len(saved) /\ saved[i].kind \in kinds /\ kinds \in SUBSET Kinds
          /\ \A j \in 1 .. i - 1 : saved[j].kind \notin kinds
      BY <2>1, MatchesFirst, LenProperties DEF TypeInv, TypeOK, Kinds
    <3>2. saved' = RemoveAt(saved, i) /\ held' = saved[i] /\ UNCHANGED <<channel, deferred>>
      BY <1>3, <2>1 DEF RecvMatch, Accept
    <3> HIDE DEF i
    <3> QED BY <1>1, <3>1, <3>2
  <2>2. CASE ~(Matches(kinds) > 0)
    BY <1>3, <2>2 DEF RecvMatch, Promise!svars
  <2> QED BY <2>1, <2>2
<1>4. CASE FromChannel
  <2>0. /\ Len(saved) \in Nat
        /\ Len(saved) + 1 \in DOMAIN (saved \o channel)
        /\ (saved \o channel)[Len(saved) + 1] = Head(channel)
        /\ RemoveAt(saved \o channel, Len(saved) + 1) = saved \o Tail(channel)
        /\ Append(saved, Head(channel)) \o Tail(channel) = saved \o channel
    <3>1. saved \in Seq(Envelope) /\ channel \in Seq(Envelope) /\ channel # <<>>
      BY <1>4 DEF FromChannel, TypeInv, TypeOK
    <3> QED BY <3>1, QueueRemoveSecond, LenProperties
  <2>1. CASE Head(channel).kind \in wanted
\* Nothing the receive wants is among the saved: the oldest is in the channel.
    <3>1. \A j \in 1 .. Len(saved) : (saved \o channel)[j].kind \notin wanted
      <4>1. \A j \in 1 .. Len(saved) : (saved \o channel)[j] = saved[j] /\ saved[j] \in Range(saved)
        BY QueueIndex, RangeOps DEF TypeInv, TypeOK
      <4> QED BY <1>4, <4>1 DEF FromChannel, WantedNotSaved
    <3>2. (Len(saved) + 1) - 1 = Len(saved)
      BY <2>0
    <3>3. Promise!Take(wanted)
      <4>1. /\ saved' = saved /\ channel' = Tail(channel) /\ held' = Head(channel)
            /\ deferred' = deferred
        BY <1>4, <2>1 DEF FromChannel, Accept
      <4> DEFINE i == Len(saved) + 1
      <4>2. /\ i \in DOMAIN (saved \o channel)
            /\ (saved \o channel)[i].kind \in wanted
            /\ \A j \in 1 .. i - 1 : (saved \o channel)[j].kind \notin wanted
            /\ held' = (saved \o channel)[i]
            /\ (saved \o channel)' = Promise!RemoveAt(saved \o channel, i)
        BY <2>0, <2>1, <3>1, <3>2, <4>1, SameRemoveAt
      <4> HIDE DEF i
      <4> QED BY <4>1, <4>2 DEF Promise!Take
    <3> QED BY <3>3 DEF Promise!Next, TypeInv, TypeOK
  <2>2. CASE Head(channel).kind \notin wanted
    BY <1>4, <2>0, <2>2 DEF FromChannel, Promise!svars
  <2> QED BY <2>1, <2>2
<1> QED BY <1>2, <1>3, <1>4

LEMMA AsideStep ==
  ASSUME TypeInv, MetaInv, Stash \/ Unstash
  PROVE  [Promise!Next]_(Promise!svars)
<1>1. CASE Stash
  <2>1. [held EXCEPT !.kind = "message"] = [id |-> held.id, kind |-> "message", meta |-> meta]
    <3>1. held \in Envelope /\ held.meta = meta
      BY <1>1 DEF Stash, MetaInv, MetaOfLast, TypeInv, TypeOK
    <3> QED BY <3>1 DEF Envelope
  <2>2. Promise!PutAside
    BY <1>1, <2>1 DEF Stash, Promise!PutAside
  <2> QED BY <2>2 DEF Promise!Next
<1>2. CASE Unstash
  <2>1. (deferred \o saved) \o channel = deferred \o (saved \o channel)
    BY ConcatAssociative DEF TypeInv, TypeOK
  <2>2. Promise!PutBack
    BY <1>2, <2>1 DEF Unstash, Promise!PutBack
  <2> QED BY <2>2 DEF Promise!Next
<1> QED BY <1>1, <1>2

\* The mailbox, with its save queue and its deferred messages, implements one
\* queue in arrival order and a shelf: no interleaving of senders and receiver
\* takes a newer envelope before an older one that was wanted.
THEOREM Refinement == Spec => ImplementsSelectiveReceive
<1>1. Init => Promise!Init
  <2>1. <<>> \o <<>> = <<>>
    BY EmptySeq, ConcatEmptySeq
  <2> QED BY <2>1 DEF Init, Promise!Init
<1>2. TypeInv /\ MetaInv /\ WantedNotSaved /\ [Next]_vars => [Promise!Next]_(Promise!svars)
  <2> SUFFICES ASSUME TypeInv, MetaInv, WantedNotSaved, [Next]_vars
               PROVE  [Promise!Next]_(Promise!svars)
    OBVIOUS
  <2>1. CASE UNCHANGED <<saved, channel, deferred, held>>
    BY <2>1 DEF Promise!svars
  <2> QED
    BY <2>1, ArriveStep, TakeStep, AsideStep DEF Next, vars, receiver, Check, Count,
       Consumed, Timeout, Close
<1> QED BY <1>1, <1>2, TypeInit, TypeStep, InvInit, MetaStep, WantedStep, PTL
        DEF Spec, ImplementsSelectiveReceive, Promise!Spec

-----------------------------------------------------------------------------
(* Counting the messages.                                                  *)

LEMMA MessageCountType ==
  ASSUME NEW S, NEW s \in Seq(S)
  PROVE  /\ IsFiniteSet(Messages(s)) /\ MessageCount(s) \in Nat
         /\ MessageCount(s) <= Len(s)
<1>1. Len(s) \in Nat
  BY LenProperties
<1>2. IsFiniteSet(1 .. Len(s)) /\ Cardinality(1 .. Len(s)) = Len(s)
  BY <1>1, FS_Interval
<1>3. Messages(s) \in SUBSET (1 .. Len(s))
  BY DEF Messages
<1>4. IsFiniteSet(Messages(s)) /\ Cardinality(Messages(s)) <= Len(s)
  BY <1>2, <1>3, FS_Subset
<1> QED BY <1>4, FS_CardinalityType DEF MessageCount

\* The messages of two sequences are those of the one, and those of the other
\* further on.
LEMMA MessageCountConcat ==
  ASSUME NEW S, NEW s \in Seq(S), NEW t \in Seq(S)
  PROVE  MessageCount(s \o t) = MessageCount(s) + MessageCount(t)
<1>1. /\ Len(s) \in Nat /\ Len(t) \in Nat /\ Len(s \o t) = Len(s) + Len(t)
      /\ \A i \in 1 .. Len(s) : (s \o t)[i] = s[i]
      /\ \A i \in 1 .. Len(t) : (s \o t)[Len(s) + i] = t[i]
  BY QueueIndex
<1> DEFINE Moved == {i \in Len(s) + 1 .. Len(s) + Len(t) : (s \o t)[i].meta # NoMeta}
           F == [i \in Messages(t) |-> Len(s) + i]
<1>2. Messages(s \o t) = Messages(s) \cup Moved /\ Messages(s) \cap Moved = {}
  BY <1>1 DEF Messages
<1>3. F \in [Messages(t) -> Moved]
  BY <1>1 DEF Messages
<1>4. \A a, b \in Messages(t) : F[a] = F[b] => a = b
  BY <1>1 DEF Messages
<1>5. ASSUME NEW m \in Moved PROVE \E i \in Messages(t) : F[i] = m
  <2>1. m - Len(s) \in 1 .. Len(t) /\ Len(s) + (m - Len(s)) = m
    BY <1>1
  <2>2. t[m - Len(s)] = (s \o t)[m]
    BY <1>1, <2>1
  <2>3. m - Len(s) \in Messages(t)
    BY <2>1, <2>2 DEF Messages
  <2> QED BY <2>1, <2>3
<1> HIDE DEF F, Moved
<1>6. F \in Bijection(Messages(t), Moved)
  BY <1>3, <1>4, <1>5, Fun_IsBij
<1>7. IsFiniteSet(Messages(s)) /\ IsFiniteSet(Messages(t))
  BY MessageCountType
<1>8. IsFiniteSet(Moved) /\ Cardinality(Moved) = MessageCount(t)
  BY <1>6, <1>7, FS_Bijection DEF ExistsBijection, MessageCount
<1>9. Cardinality(Messages(s) \cup Moved)
        = Cardinality(Messages(s)) + Cardinality(Moved) - Cardinality(Messages(s) \cap Moved)
  BY <1>7, <1>8, FS_Union
<1>10. Cardinality(Messages(s) \cap Moved) = 0
  BY <1>2, FS_EmptySet
<1>11. MessageCount(s) \in Nat /\ MessageCount(t) \in Nat
  BY MessageCountType
<1> QED BY <1>2, <1>8, <1>9, <1>10, <1>11 DEF MessageCount

LEMMA MessageCountOne ==
  ASSUME NEW S, NEW e \in S
  PROVE  MessageCount(<<e>>) = One(e.meta # NoMeta)
<1>1. Len(<<e>>) = 1 /\ <<e>>[1] = e
  OBVIOUS
<1>2. CASE e.meta # NoMeta
  <2>1. Messages(<<e>>) = {1}
    BY <1>1, <1>2 DEF Messages
  <2> QED BY <1>2, <2>1, FS_Singleton DEF MessageCount, One
<1>3. CASE e.meta = NoMeta
  <2>1. Messages(<<e>>) = {}
    BY <1>1, <1>3 DEF Messages
  <2> QED BY <1>3, <2>1, FS_EmptySet DEF MessageCount, One
<1> QED BY <1>2, <1>3

LEMMA MessageCountAppend ==
  ASSUME NEW S, NEW s \in Seq(S), NEW e \in S
  PROVE  MessageCount(Append(s, e)) = MessageCount(s) + One(e.meta # NoMeta)
<1>1. Append(s, e) = s \o <<e>> /\ <<e>> \in Seq(S)
  BY AppendIsConcat
<1> QED BY <1>1, MessageCountConcat, MessageCountOne

LEMMA MessageCountRemove ==
  ASSUME NEW S, NEW s \in Seq(S), NEW i \in 1 .. Len(s)
  PROVE  MessageCount(RemoveAt(s, i)) = MessageCount(s) - One(s[i].meta # NoMeta)
<1> DEFINE a == SubSeq(s, 1, i - 1)
           b == SubSeq(s, i + 1, Len(s))
<1>1. Len(s) \in Nat /\ s[i] \in S /\ \A j \in 1 .. Len(s) : s[j] \in S
  BY LenProperties, ElementOfSeq
<1>2. a \in Seq(S) /\ b \in Seq(S) /\ <<s[i]>> \in Seq(S) /\ a \o <<s[i]>> \in Seq(S)
  BY <1>1, SubSeqProperties, ConcatProperties
<1>3. s = (a \o <<s[i]>>) \o b
  <2>1. SubSeq(s, 1, i) = SubSeq(s, 1, i - 1) \o <<s[i]>>
    BY <1>1, SubSeqRecursiveSecond
  <2>2. SubSeq(s, 1, i) \o SubSeq(s, i + 1, Len(s)) = SubSeq(s, 1, Len(s))
    BY <1>1, ConcatAdjacentSubSeq
  <2>3. SubSeq(s, 1, Len(s)) = s
    BY SubSeqFull
  <2> QED BY <2>1, <2>2, <2>3
<1>4. RemoveAt(s, i) = a \o b
  BY DEF RemoveAt
<1> HIDE DEF a, b
<1>5. MessageCount(a \o b) = MessageCount(a) + MessageCount(b)
  BY <1>2, MessageCountConcat
<1>6. /\ MessageCount((a \o <<s[i]>>) \o b) = MessageCount(a \o <<s[i]>>) + MessageCount(b)
      /\ MessageCount(a \o <<s[i]>>) = MessageCount(a) + MessageCount(<<s[i]>>)
  BY <1>2, MessageCountConcat
<1> DEFINE m == One(s[i].meta # NoMeta)
<1>7. MessageCount(<<s[i]>>) = m
  BY <1>1, MessageCountOne
<1>8. MessageCount(a) \in Nat /\ MessageCount(b) \in Nat
  BY <1>2, MessageCountType
<1>9. m \in Nat
  BY DEF One
<1> HIDE DEF m
<1>10. MessageCount(a \o b) = MessageCount((a \o <<s[i]>>) \o b) - m
  BY <1>5, <1>6, <1>7, <1>8, <1>9
<1> QED BY <1>3, <1>4, <1>10 DEF m

\* The prime of a count is the count of the prime.
LEMMA MessageCountPrime ==
  /\ MessageCount(deferred)' = MessageCount(deferred')
  /\ MessageCount(saved)' = MessageCount(saved')
  /\ MessageCount(channel)' = MessageCount(channel')
BY DEF MessageCount, Messages

\* The numbers the overshoot is about.
OvershootNumbers ==
  /\ MessageCount(deferred) \in Nat /\ MessageCount(saved) \in Nat
  /\ MessageCount(channel) \in Nat /\ AllMessages \in Nat /\ AllMessages <= Size
  /\ IsFiniteSet(Pushing) /\ Cardinality(Pushing) \in Nat
  /\ LastMessage \in {0, 1}
  /\ Capacity \in Nat /\ Cardinality(Senders) \in Nat /\ Cardinality(Senders) > 0

LEMMA OvershootNumbersHold == TypeInv /\ CountInv => OvershootNumbers
<1> SUFFICES ASSUME TypeInv, CountInv PROVE OvershootNumbers
  OBVIOUS
<1>0. Numeric
  BY Numbers
<1>1. /\ MessageCount(deferred) \in Nat /\ MessageCount(saved) \in Nat
      /\ MessageCount(channel) \in Nat
      /\ MessageCount(deferred) <= Len(deferred) /\ MessageCount(saved) <= Len(saved)
      /\ MessageCount(channel) <= Len(channel)
  BY MessageCountType DEF TypeInv, TypeOK
<1>2. AllMessages \in Nat /\ AllMessages <= Size
  BY <1>0, <1>1 DEF AllMessages, Size, Numeric
<1>3. IsFiniteSet(Pushing) /\ Cardinality(Pushing) \in Nat
  BY FS_Subset, FS_CardinalityType DEF Pushing, CountInv, SizeBound
<1>4. LastMessage \in {0, 1}
  BY DEF LastMessage, One
<1>5. Cardinality(Senders) \in Nat /\ Cardinality(Senders) > 0
  BY SendersAssumption, FS_CardinalityType, FS_EmptySet DEF SendersAssumption
<1> QED BY <1>1, <1>2, <1>3, <1>4, <1>5, SizesAssumption DEF OvershootNumbers, SizesAssumption

\* An idle sender leaves room for the envelope it is about to push.
LEMMA OthersInFlight ==
  ASSUME TypeInv, CountInv, NEW s \in Senders, sender[s].step = "idle"
  PROVE  Uncounted + Cardinality(Pushers) + 1 <= Cardinality(Senders)
<1>1. /\ IsFiniteSet(Counting) /\ IsFiniteSet(Pushers) /\ IsFiniteSet(Senders)
      /\ IsFiniteSet(Counting \cup Pushers)
  BY SendersAssumption, FS_Union DEF SendersAssumption, CountInv, SizeBound
<1>2. Counting \cap Pushers = {} /\ s \notin Counting \cup Pushers
  BY DEF Counting, Pushers, InFlight
<1>3. Cardinality(Counting \cup Pushers) = Uncounted + Cardinality(Pushers)
  <2>1. Cardinality(Counting \cap Pushers) = 0
    BY <1>2, FS_EmptySet
  <2>2. Cardinality(Counting \cup Pushers)
          = Cardinality(Counting) + Cardinality(Pushers) - Cardinality(Counting \cap Pushers)
    BY <1>1, FS_Union
  <2>3. Cardinality(Counting) \in Nat /\ Cardinality(Pushers) \in Nat
    BY <1>1, FS_CardinalityType
  <2> QED BY <2>1, <2>2, <2>3 DEF Uncounted
<1>4. /\ IsFiniteSet((Counting \cup Pushers) \cup {s})
      /\ Cardinality((Counting \cup Pushers) \cup {s}) = Cardinality(Counting \cup Pushers) + 1
  BY <1>1, <1>2, FS_AddElement
<1>5. (Counting \cup Pushers) \cup {s} \subseteq Senders
  BY DEF Counting, Pushers, InFlight
<1>6. Cardinality((Counting \cup Pushers) \cup {s}) <= Cardinality(Senders)
  BY <1>1, <1>5, FS_Subset
<1> QED BY <1>3, <1>4, <1>6

LEMMA OvershootInit == Init => OvershootInv
<1> SUFFICES ASSUME Init PROVE OvershootInv
  OBVIOUS
<1>1. /\ MessageCount(deferred) = 0 /\ MessageCount(saved) = 0 /\ MessageCount(channel) = 0
  <2>1. Messages(<<>>) = {}
    BY EmptySeq DEF Messages
  <2> QED BY <2>1, FS_EmptySet DEF Init, MessageCount
<1>2. Pushing = {} /\ LastMessage = 0
  BY DEF Init, IdleSender, InFlight, Pushers, Pushing, LastMessage, One
<1>3. Cardinality(Pushing) = 0
  BY <1>2, FS_EmptySet
<1>4. Cardinality(Senders) \in Nat /\ Cardinality(Senders) > 0 /\ Capacity \in Nat
  BY SendersAssumption, FS_CardinalityType, FS_EmptySet DEF SendersAssumption, SizesAssumption
<1> QED BY <1>1, <1>2, <1>3, <1>4 DEF OvershootInv, AllMessages, One

\* The check: a message passes only below the capacity.
LEMMA OvershootOfCheck ==
  ASSUME TypeInv, CountInv, OvershootInv, NEW s \in Senders, NEW kind \in Kinds, Check(s, kind)
  PROVE  OvershootInv'
<1>0. Numeric /\ OvershootNumbers
  BY Numbers, OvershootNumbersHold
<1>1. /\ UNCHANGED <<AllMessages, LastMessage, open, stashed>> /\ sender[s].step = "idle"
  BY DEF Check, receiver, AllMessages, MessageCount, Messages, LastMessage
<1>2. CASE Pushing' = Pushing
  BY <1>1, <1>2 DEF OvershootInv
<1>3. CASE Pushing' # Pushing
  <2>1. /\ kind = "message" /\ ~(depth >= Capacity)
        /\ \E item : sender' = [sender EXCEPT ![s] = [step |-> "push", item |-> item]]
    <3>1. CASE UNCHANGED sender
      BY <1>3, <3>1 DEF Pushing, Pushers, InFlight
    <3>2. CASE kind = "message"
      BY <3>1, <3>2 DEF Check
    <3>3. CASE kind # "message"
      <4>1. sender' = [sender EXCEPT ![s] =
              [step |-> "push",
               item |-> [id |-> sends + 1, kind |-> kind, meta |-> NoMeta]]]
        BY <3>3 DEF Check, MetaOf
      <4> QED BY <1>1, <1>3, <4>1 DEF Pushing, Pushers, InFlight, TypeInv, TypeOK
    <3> QED BY <3>2, <3>3
  <2>2. Pushing' \subseteq Pushers \cup {s}
    BY <2>1 DEF Pushing, Pushers, InFlight, TypeInv, TypeOK
  <2>3. IsFiniteSet(Pushers \cup {s})
        /\ Cardinality(Pushers \cup {s}) = Cardinality(Pushers) + 1
    <3>1. s \notin Pushers /\ IsFiniteSet(Pushers)
      BY <1>1 DEF Pushers, InFlight, CountInv, SizeBound
    <3> QED BY <3>1, FS_AddElement
  <2>4. Cardinality(Pushing') <= Cardinality(Pushers) + 1 /\ Cardinality(Pushing') \in Nat
    BY <2>2, <2>3, FS_Subset, FS_CardinalityType
  <2>5. Uncounted + Cardinality(Pushers) + 1 <= Cardinality(Senders)
    BY <1>1, OthersInFlight
\* Below the capacity by the counter, so by what is inside and counted.
  <2>6. open => Size <= Capacity - 1 + Uncounted
    BY <1>0, <2>1 DEF Numeric, OvershootNumbers, CountInv, DepthIs
  <2>7. open => AllMessages + Cardinality(Pushing') <= Capacity + Cardinality(Senders) - 1
    BY <1>0, <2>4, <2>5, <2>6 DEF Numeric, OvershootNumbers
  <2>8. open => AllMessages + Cardinality(Pushing') + LastMessage
                  <= Capacity + Cardinality(Senders)
    BY <1>0, <2>4, <2>7 DEF OvershootNumbers
  <2> QED BY <1>1, <2>7, <2>8 DEF OvershootInv
<1> QED BY <1>2, <1>3

\* The push: what was about to be inside is inside.
LEMMA OvershootOfPush ==
  ASSUME TypeInv, CountInv, OvershootInv, NEW s \in Senders, Push(s)
  PROVE  OvershootInv'
<1>0. OvershootNumbers
  BY OvershootNumbersHold
<1> DEFINE m == One(sender[s].item.meta # NoMeta)
<1>1. UNCHANGED <<open, stashed, LastMessage, deferred, saved>>
  BY DEF Push, receiver, LastMessage
<1>2. CASE ~open
  <2>1. UNCHANGED AllMessages
    BY <1>1, <1>2 DEF Push, AllMessages, MessageCount, Messages
  <2> QED BY <1>1, <1>2, <2>1 DEF OvershootInv
<1>3. CASE open
  <2>1. Pushing' = Pushing \ {s}
    BY <1>3 DEF Push, Pushing, Pushers, InFlight, TypeInv, TypeOK
  <2>2. s \in Pushing <=> sender[s].item.meta # NoMeta
    BY DEF Push, Pushing, Pushers, InFlight
  <2>3. Cardinality(Pushing') = Cardinality(Pushing) - m
    <3>1. CASE s \in Pushing
      BY <1>0, <2>1, <2>2, <3>1, FS_RemoveElement DEF OvershootNumbers, One
    <3>2. CASE s \notin Pushing
      <4>1. Pushing' = Pushing /\ m = 0
        BY <2>1, <2>2, <3>2 DEF One
      <4> QED BY <1>0, <4>1 DEF OvershootNumbers
    <3> QED BY <3>1, <3>2
  <2>4. MessageCount(channel') = MessageCount(channel) + m
    <3>1. channel' = Append(channel, sender[s].item) /\ sender[s].item \in Envelope
      BY <1>3 DEF Push, TypeInv, SendersInv
    <3> QED BY <3>1, MessageCountAppend DEF TypeInv, TypeOK
  <2>5. m \in {0, 1} /\ Cardinality(Pushing) - m >= 0
    <3>1. IsFiniteSet(Pushing')
      BY <1>0, <2>1, FS_Subset DEF OvershootNumbers
    <3> QED BY <1>0, <2>3, <3>1, FS_CardinalityType DEF OvershootNumbers, One
  <2> HIDE DEF m
  <2>6. AllMessages' = AllMessages + m
    BY <1>0, <1>1, <2>4, <2>5, MessageCountPrime DEF AllMessages, OvershootNumbers
  <2>7. /\ AllMessages' + Cardinality(Pushing') = AllMessages + Cardinality(Pushing)
        /\ AllMessages' <= AllMessages' + Cardinality(Pushing')
    BY <1>0, <2>3, <2>5, <2>6 DEF OvershootNumbers
  <2>8. AllMessages' <= Capacity + Cardinality(Senders) - One(~stashed)
    BY <1>0, <1>3, <2>3, <2>5, <2>6 DEF OvershootInv, OvershootNumbers, One
  <2> QED BY <1>0, <1>1, <2>7, <2>8 DEF OvershootInv
<1> QED BY <1>2, <1>3

\* A receive: a message inside becomes the one received last.
LEMMA OvershootOfReceive ==
  ASSUME TypeInv, CountInv, OvershootInv,
         \/ Recv \/ FromChannel
         \/ \E kinds \in {{"message"}, {"signal"}} : RecvMatch(kinds)
  PROVE  OvershootInv'
<1>0. OvershootNumbers /\ TypeInv'
  BY OvershootNumbersHold, ReceiveType, FromChannelType
<1>1. UNCHANGED <<open, stashed, deferred, sender, Pushing>>
  BY DEF Recv, FromChannel, RecvMatch, Pushing, Pushers, InFlight
<1>2. \/ /\ MessageCount(saved') + MessageCount(channel')
              = MessageCount(saved) + MessageCount(channel) - One(held'.meta # NoMeta)
         /\ held' # NoEnvelope
      \/ /\ MessageCount(saved') + MessageCount(channel')
              = MessageCount(saved) + MessageCount(channel)
         /\ held' = held
  <2>1. CASE Recv
    <3>1. CASE saved # <<>>
      <4>1. saved' = Tail(saved) /\ held' = Head(saved) /\ channel' = channel
        BY <2>1, <3>1 DEF Recv, Accept
      <4>2. /\ Head(saved) \in Envelope /\ Head(saved) = saved[1]
            /\ Tail(saved) = RemoveAt(saved, 1) /\ 1 \in 1 .. Len(saved)
        BY <3>1, HeadSaved DEF TypeInv, TypeOK
      <4>3. MessageCount(RemoveAt(saved, 1)) = MessageCount(saved) - One(saved[1].meta # NoMeta)
        BY <4>2, MessageCountRemove DEF TypeInv, TypeOK
      <4> DEFINE m == One(held'.meta # NoMeta)
      <4>4. m \in Nat /\ MessageCount(saved') = MessageCount(saved) - m
        BY <4>1, <4>2, <4>3 DEF One
      <4>5. held' # NoEnvelope
        BY <4>1, <4>2, NoneIsNoEnvelope
      <4> HIDE DEF m
      <4>6. MessageCount(saved') + MessageCount(channel')
              = MessageCount(saved) + MessageCount(channel) - m
        BY <1>0, <4>1, <4>4 DEF OvershootNumbers
      <4> QED BY <4>5, <4>6 DEF m
    <3>2. CASE saved = <<>>
      BY <2>1, <3>2 DEF Recv
    <3> QED BY <3>1, <3>2
  <2>2. CASE \E kinds \in {{"message"}, {"signal"}} : RecvMatch(kinds)
    <3> PICK kinds \in {{"message"}, {"signal"}} : RecvMatch(kinds)
      BY <2>2
    <3>1. CASE Matches(kinds) > 0
      <4> DEFINE i == Matches(kinds)
                 m == One(held'.meta # NoMeta)
      <4>1. saved' = RemoveAt(saved, i) /\ held' = saved[i] /\ channel' = channel
        BY <3>1 DEF RecvMatch, Accept
      <4>2. i \in 1 .. Len(saved) /\ held' # NoEnvelope
        <5>1. i \in 1 .. Len(saved)
          BY <3>1, MatchesFirst, LenProperties DEF TypeInv, TypeOK
        <5> QED BY <4>1, <5>1, NoneIsNoEnvelope, ElementOfSeq DEF TypeInv, TypeOK
      <4> HIDE DEF i
      <4>3. m \in Nat /\ MessageCount(saved') = MessageCount(saved) - m
        <5>1. MessageCount(RemoveAt(saved, i)) = MessageCount(saved) - One(saved[i].meta # NoMeta)
          BY <4>2, MessageCountRemove DEF TypeInv, TypeOK
        <5> QED BY <4>1, <5>1 DEF One
      <4> HIDE DEF m
      <4>4. MessageCount(saved') + MessageCount(channel')
              = MessageCount(saved) + MessageCount(channel) - m
        BY <1>0, <4>1, <4>3 DEF OvershootNumbers
      <4> QED BY <4>2, <4>4 DEF m
    <3>2. CASE ~(Matches(kinds) > 0)
      BY <3>2 DEF RecvMatch
    <3> QED BY <3>1, <3>2
  <2>3. CASE FromChannel
    <3> DEFINE e == Head(channel)
               m == One(e.meta # NoMeta)
    <3>1. /\ e \in Envelope /\ e = channel[1] /\ channel' = Tail(channel)
          /\ Tail(channel) = RemoveAt(channel, 1) /\ 1 \in 1 .. Len(channel)
      BY <2>3, HeadSaved DEF FromChannel, TypeInv, TypeOK
    <3>2. m \in Nat /\ MessageCount(channel') = MessageCount(channel) - m
      <4>1. MessageCount(RemoveAt(channel, 1)) = MessageCount(channel) - One(channel[1].meta # NoMeta)
        BY <3>1, MessageCountRemove DEF TypeInv, TypeOK
      <4> QED BY <3>1, <4>1 DEF One
    <3>3. MessageCount(Append(saved, e)) = MessageCount(saved) + m
      BY <3>1, MessageCountAppend DEF TypeInv, TypeOK
    <3>4. CASE e.kind \in wanted
      <4>1. held' = e /\ saved' = saved
        BY <2>3, <3>4 DEF FromChannel, Accept
      <4>2. held' # NoEnvelope /\ m = One(held'.meta # NoMeta)
        BY <3>1, <4>1, NoneIsNoEnvelope
      <4> HIDE DEF e, m
      <4>3. MessageCount(saved') + MessageCount(channel')
              = MessageCount(saved) + MessageCount(channel) - m
        BY <1>0, <3>2, <4>1 DEF OvershootNumbers
      <4> QED BY <4>2, <4>3
    <3>5. CASE e.kind \notin wanted
      <4>1. held' = held /\ saved' = Append(saved, e)
        BY <2>3, <3>5 DEF FromChannel
      <4> HIDE DEF e, m
      <4>2. MessageCount(saved') + MessageCount(channel')
              = MessageCount(saved) + MessageCount(channel)
        BY <1>0, <3>2, <3>3, <4>1 DEF OvershootNumbers
      <4> QED BY <4>1, <4>2
    <3> QED BY <3>4, <3>5
  <2> QED BY <2>1, <2>2, <2>3
<1>3. MessageCount(deferred') \in Nat /\ MessageCount(saved') \in Nat
      /\ MessageCount(channel') \in Nat
  BY <1>0, MessageCountType DEF TypeInv, TypeOK
<1>4. CASE /\ MessageCount(saved') + MessageCount(channel')
               = MessageCount(saved) + MessageCount(channel) - One(held'.meta # NoMeta)
           /\ held' # NoEnvelope
  <2> DEFINE m == One(held'.meta # NoMeta)
  <2>1. m \in {0, 1} /\ LastMessage' = m
    BY <1>4 DEF One, LastMessage
  <2>2. MessageCount(saved') + MessageCount(channel')
          = MessageCount(saved) + MessageCount(channel) - m
    BY <1>4
  <2> HIDE DEF m
  <2>3. AllMessages' = AllMessages - m
    BY <1>0, <1>1, <1>3, <2>1, <2>2, MessageCountPrime DEF AllMessages, OvershootNumbers
  <2> QED BY <1>0, <1>1, <2>1, <2>3 DEF OvershootInv, OvershootNumbers, One
<1>5. CASE /\ MessageCount(saved') + MessageCount(channel')
               = MessageCount(saved) + MessageCount(channel)
           /\ held' = held
  <2>1. AllMessages' = AllMessages
    BY <1>0, <1>1, <1>3, <1>5, MessageCountPrime DEF AllMessages, OvershootNumbers
  <2>2. LastMessage' = LastMessage
    BY <1>5 DEF LastMessage
  <2> QED BY <1>1, <2>1, <2>2 DEF OvershootInv
<1> QED BY <1>2, <1>4, <1>5

\* A message set aside takes a place again: the one it left may be taken.
LEMMA OvershootOfStash ==
  TypeInv /\ CountInv /\ MetaInv /\ OvershootInv /\ Stash => OvershootInv'
<1> SUFFICES ASSUME TypeInv, CountInv, MetaInv, OvershootInv, Stash PROVE OvershootInv'
  OBVIOUS
<1>0. OvershootNumbers
  BY OvershootNumbersHold
<1> DEFINE d == [id |-> held.id, kind |-> "message", meta |-> meta]
<1>1. /\ UNCHANGED <<open, saved, channel, Pushing>> /\ stashed' /\ open
      /\ deferred' = Append(deferred, d) /\ held' = NoEnvelope
  BY DEF Stash, Pushing, Pushers, InFlight
<1>2. d \in Envelope /\ held # NoEnvelope /\ d.meta = held.meta
  BY DEF Stash, TypeInv, TypeOK, Envelope, Kinds, MetaInv, MetaOfLast
<1>3. LastMessage = One(d.meta # NoMeta) /\ LastMessage' = 0
  BY <1>1, <1>2 DEF LastMessage, One
<1> HIDE DEF d
<1>4. MessageCount(deferred') = MessageCount(deferred) + LastMessage
  BY <1>1, <1>2, <1>3, MessageCountAppend DEF TypeInv, TypeOK
<1>5. AllMessages' = AllMessages + LastMessage
  BY <1>0, <1>1, <1>4, MessageCountPrime DEF AllMessages, OvershootNumbers
<1> QED BY <1>0, <1>1, <1>3, <1>5 DEF OvershootInv, OvershootNumbers, One

LEMMA OvershootOfUnstash == TypeInv /\ CountInv /\ OvershootInv /\ Unstash => OvershootInv'
<1> SUFFICES ASSUME TypeInv, CountInv, OvershootInv, Unstash PROVE OvershootInv'
  OBVIOUS
<1>0. OvershootNumbers
  BY OvershootNumbersHold
<1>1. /\ UNCHANGED <<open, stashed, channel, Pushing>> /\ held' = NoEnvelope
      /\ saved' = deferred \o saved /\ deferred' = <<>>
  BY DEF Unstash, Pushing, Pushers, InFlight
<1>2. MessageCount(deferred \o saved) = MessageCount(deferred) + MessageCount(saved)
  BY MessageCountConcat DEF TypeInv, TypeOK
<1>3. MessageCount(<<>>) = 0
  <2>1. Messages(<<>>) = {}
    BY EmptySeq DEF Messages
  <2> QED BY <2>1, FS_EmptySet DEF MessageCount
<1>4. AllMessages' = AllMessages
  BY <1>0, <1>1, <1>2, <1>3, MessageCountPrime DEF AllMessages, OvershootNumbers
<1>5. LastMessage' = 0
  BY <1>1 DEF LastMessage, One
<1> QED BY <1>0, <1>1, <1>4, <1>5 DEF OvershootInv, OvershootNumbers

LEMMA OvershootOfRest ==
  ASSUME TypeInv, OvershootInv,
         \/ \E s \in Senders : Count(s)
         \/ Consumed \/ Timeout \/ Close \/ UNCHANGED vars
  PROVE  OvershootInv'
<1>1. UNCHANGED <<deferred, saved, channel, held, stashed>> /\ (open' => open)
  BY DEF Count, Consumed, Timeout, Close, vars, receiver
<1>2. UNCHANGED Pushing
  <2>1. CASE \E s \in Senders : Count(s)
    <3> PICK s \in Senders : Count(s)
      BY <2>1
    <3>1. /\ sender[s].step = "count"
          /\ sender' = [sender EXCEPT ![s] = [step |-> "idle", item |-> NoEnvelope]]
      BY DEF Count, IdleSender
    <3> QED BY <3>1 DEF Pushing, Pushers, InFlight, TypeInv, TypeOK
  <2>2. CASE UNCHANGED sender
    BY <2>2 DEF Pushing, Pushers, InFlight
  <2> QED BY <2>1, <2>2 DEF Consumed, Timeout, Close, vars
<1>3. UNCHANGED <<AllMessages, LastMessage>>
  BY <1>1, MessageCountPrime DEF AllMessages, LastMessage
<1> QED BY <1>1, <1>2, <1>3 DEF OvershootInv

LEMMA OvershootStep ==
  TypeInv /\ CountInv /\ MetaInv /\ OvershootInv /\ [Next]_vars => OvershootInv'
BY OvershootOfCheck, OvershootOfPush, OvershootOfReceive, OvershootOfStash,
   OvershootOfUnstash, OvershootOfRest DEF Next

\* The messages inside, as the property counts them.
LEMMA InsideCount ==
  ASSUME TypeInv
  PROVE  Cardinality(MessagesInside) = AllMessages
<1>1. /\ deferred \in Seq(Envelope) /\ saved \in Seq(Envelope) /\ channel \in Seq(Envelope)
      /\ deferred \o saved \in Seq(Envelope)
      /\ (deferred \o saved) \o channel \in Seq(Envelope)
  BY ConcatProperties DEF TypeInv, TypeOK
<1>2. MessageCount(deferred \o saved) = MessageCount(deferred) + MessageCount(saved)
  BY <1>1, MessageCountConcat
<1>3. MessageCount((deferred \o saved) \o channel)
        = MessageCount(deferred \o saved) + MessageCount(channel)
  BY <1>1, MessageCountConcat
<1>4. MessagesInside = Messages((deferred \o saved) \o channel)
  <2>1. DOMAIN ((deferred \o saved) \o channel) = 1 .. Len((deferred \o saved) \o channel)
    BY <1>1, LenProperties
  <2> QED BY <2>1 DEF MessagesInside, Messages, Inside
<1> QED BY <1>2, <1>3, <1>4 DEF MessageCount, AllMessages

\* However many senders race for the last place, the capacity is overshot by at
\* most one message for each other sender, and one more once one was set aside.
THEOREM OvershootStaysBounded == Spec => []BoundedOvershoot
<1>1. TypeInv /\ OvershootInv => BoundedOvershoot
  BY InsideCount DEF OvershootInv, BoundedOvershoot, One
<1> QED BY <1>1, TypeInit, TypeStep, InvInit, CountStep, MetaStep, OvershootInit,
           OvershootStep, PTL DEF Spec

=============================================================================
