------------------------------ MODULE RpcProofs ------------------------------
(***************************************************************************)
(* What holds of calls between guests for any number of clients, services  *)
(* and calls, however they nest: a call gets its own answer, a service     *)
(* takes requests in order, callbacks run within their call, and a handler *)
(* runs in the context of its request.                                     *)
(***************************************************************************)
EXTENDS Rpc, SequenceTheorems, FiniteSetTheorems, TLAPS

\* What waits for p, in the order in which it will see it.
lines == [p \in Procs |-> shelf[p] \o queue[p]]
Adds(q, m) == lines' = [lines EXCEPT ![q] = Append(lines[q], m)]
Drops(p, n) == lines' = [lines EXCEPT ![p] = RemoveAt(lines[p], n)]

Contexts == Clients \cup {NoContext}
Messages == [kind : {"request", "callback", "reply"}, call : Calls, from : Procs,
             ref : Nat, lent : Nat, context : Contexts]
Frames == [what : {"call", "serve", "callback"}, call : Calls, ref : Nat, lent : Nat,
           timed : BOOLEAN]
CallRecords ==
  [state : {"none", "open", "cast", "ok", "timeout"}, from : Procs \cup {NoContext},
   context : Contexts, answer : Nat, ref : Nat, lent : Nat, invoked : Nat, ran : Nat,
   nested : BOOLEAN]

DataOK ==
  /\ queue \in [Procs -> Seq(Messages)] /\ shelf \in [Procs -> Seq(Messages)]
  /\ stack \in [Procs -> Seq(Frames)]
  /\ context \in [Procs -> Contexts]
  /\ nextRef \in [Procs -> Nat \ {0}]
  /\ callbacks \in [Procs -> SUBSET Nat]
  /\ call \in [Calls -> CallRecords]
  /\ arrived \in [Procs -> Seq(Calls)] /\ served \in [Procs -> Seq(Calls)]

-----------------------------------------------------------------------------
(* Sequences.                                                              *)

LEMMA Pushing ==
  ASSUME NEW S, NEW s \in Seq(S), NEW e \in S
  PROVE  /\ Append(s, e) \in Seq(S) /\ Len(s) \in Nat /\ Len(Append(s, e)) = Len(s) + 1
         /\ \A i \in 1 .. Len(s) : Append(s, e)[i] = s[i]
         /\ Append(s, e)[Len(s) + 1] = e
         /\ Last(Append(s, e)) = e
<1>1. /\ Append(s, e) \in Seq(S) /\ Len(s) \in Nat /\ Len(Append(s, e)) = Len(s) + 1
      /\ \A i \in 1 .. Len(s) : Append(s, e)[i] = s[i]
      /\ Append(s, e)[Len(s) + 1] = e
  BY AppendProperties, LenProperties
<1> QED BY <1>1 DEF Last

LEMMA Popping ==
  ASSUME NEW S, NEW s \in Seq(S), s # <<>>
  PROVE  /\ Len(s) \in Nat \ {0} /\ Last(s) = s[Len(s)] /\ Last(s) \in S
         /\ Front(s) \in Seq(S) /\ Len(Front(s)) = Len(s) - 1
         /\ \A i \in 1 .. Len(s) - 1 : Front(s)[i] = s[i]
<1>1. PICK n \in Nat : Len(s) = n + 1
  <2>1. Len(s) \in Nat \ {0}
    BY EmptySeq
  <2>2. Len(s) - 1 \in Nat /\ Len(s) = (Len(s) - 1) + 1
    BY <2>1
  <2> QED BY <2>2
<1>2. \A i \in 1 .. n + 1 : s[i] \in S
  BY <1>1, ElementOfSeq
<1> DEFINE t == SubSeq(s, 1, n)
<1>3. t \in Seq(S) /\ Len(t) = n /\ \A i \in 1 .. n : t[i] = s[i]
  <2>1. n \in Int /\ \A i \in 1 .. n : s[i] \in S
    BY <1>2
  <2>2. /\ t \in Seq(S) /\ Len(t) = IF 1 <= n THEN n - 1 + 1 ELSE 0
        /\ \A i \in 1 .. n - 1 + 1 : t[i] = s[1 + i - 1]
    BY <2>1, SubSeqProperties
  <2> HIDE DEF t
  <2>3. ASSUME NEW i \in 1 .. n PROVE t[i] = s[i]
    <3>1. i \in 1 .. n - 1 + 1 /\ 1 + i - 1 = i
      OBVIOUS
    <3> QED BY <2>2, <3>1
  <2>4. Len(t) = n
    BY <2>2
  <2> QED BY <2>2, <2>3, <2>4
<1> HIDE DEF t
<1>4. Len(s) - 1 = n /\ Len(s) \in Nat \ {0} /\ n + 1 \in 1 .. n + 1
  BY <1>1
<1>5. Front(s) = t
  BY <1>4 DEF Front, t
<1>6. Last(s) = s[n + 1] /\ s[n + 1] \in S
  BY <1>1, <1>2, <1>4 DEF Last
<1> QED BY <1>1, <1>3, <1>4, <1>5, <1>6

\* One message is taken out.
LEMMA Removing ==
  ASSUME NEW S, NEW s \in Seq(S), NEW n \in 1 .. Len(s)
  PROVE  /\ RemoveAt(s, n) \in Seq(S) /\ Len(s) \in Nat /\ Len(RemoveAt(s, n)) = Len(s) - 1
         /\ \A i \in 1 .. Len(s) - 1 :
              RemoveAt(s, n)[i] = IF i < n THEN s[i] ELSE s[i + 1]
<1>1. Len(s) \in Nat /\ \A i \in 1 .. Len(s) : s[i] \in S
  BY LenProperties, ElementOfSeq
<1> DEFINE a == SubSeq(s, 1, n - 1)
           b == SubSeq(s, n + 1, Len(s))
<1>2. /\ a \in Seq(S) /\ Len(a) = n - 1 /\ \A i \in 1 .. n - 1 : a[i] = s[i]
  <2>1. n - 1 \in Int /\ \A i \in 1 .. n - 1 : s[i] \in S
    BY <1>1
  <2>2. /\ a \in Seq(S) /\ Len(a) = IF 1 <= n - 1 THEN (n - 1) - 1 + 1 ELSE 0
        /\ \A i \in 1 .. (n - 1) - 1 + 1 : a[i] = s[1 + i - 1]
    BY <2>1, SubSeqProperties
  <2> HIDE DEF a
  <2>3. Len(a) = n - 1
    BY <1>1, <2>2
  <2>4. ASSUME NEW i \in 1 .. n - 1 PROVE a[i] = s[i]
    <3>1. i \in 1 .. (n - 1) - 1 + 1 /\ 1 + i - 1 = i
      BY <1>1
    <3> QED BY <2>2, <3>1
  <2> QED BY <2>2, <2>3, <2>4
<1>3. /\ b \in Seq(S) /\ Len(b) = Len(s) - n /\ \A i \in 1 .. Len(s) - n : b[i] = s[n + i]
  <2>1. n + 1 \in Int /\ Len(s) \in Int /\ \A i \in n + 1 .. Len(s) : s[i] \in S
    BY <1>1
  <2>2. /\ b \in Seq(S) /\ Len(b) = IF n + 1 <= Len(s) THEN Len(s) - (n + 1) + 1 ELSE 0
        /\ \A i \in 1 .. Len(s) - (n + 1) + 1 : b[i] = s[(n + 1) + i - 1]
    BY <2>1, SubSeqProperties
  <2> HIDE DEF b
  <2>3. Len(b) = Len(s) - n
    BY <1>1, <2>2
  <2>4. ASSUME NEW i \in 1 .. Len(s) - n PROVE b[i] = s[n + i]
    <3>1. i \in 1 .. Len(s) - (n + 1) + 1 /\ (n + 1) + i - 1 = n + i
      BY <1>1
    <3> QED BY <2>2, <3>1
  <2> QED BY <2>2, <2>3, <2>4
<1> HIDE DEF a, b
<1>4. /\ a \o b \in Seq(S) /\ Len(a \o b) = Len(a) + Len(b)
      /\ \A i \in 1 .. Len(a) + Len(b) : (a \o b)[i] = IF i <= Len(a) THEN a[i] ELSE b[i - Len(a)]
  BY <1>2, <1>3, ConcatProperties
<1>5. Len(a \o b) = Len(s) - 1
  BY <1>1, <1>2, <1>3, <1>4
<1>6. ASSUME NEW i \in 1 .. Len(s) - 1 PROVE (a \o b)[i] = IF i < n THEN s[i] ELSE s[i + 1]
  <2>1. (a \o b)[i] = IF i <= n - 1 THEN a[i] ELSE b[i - (n - 1)]
    BY <1>1, <1>2, <1>3, <1>4
  <2>2. CASE i < n
    BY <1>1, <1>2, <2>1, <2>2
  <2>3. CASE ~(i < n)
    <3>1. i - (n - 1) \in 1 .. Len(s) - n /\ n + (i - (n - 1)) = i + 1 /\ ~(i <= n - 1)
      BY <1>1, <2>3
    <3> QED BY <1>3, <2>1, <2>3, <3>1
  <2> QED BY <2>2, <2>3
<1>7. RemoveAt(s, n) = a \o b
  BY DEF RemoveAt, a, b
<1> QED BY <1>1, <1>4, <1>5, <1>6, <1>7

\* A queue with one more, or with its first put on the shelf, in one line.
LEMMA JoinsQueue ==
  ASSUME NEW S, NEW x \in Seq(S), NEW y \in Seq(S), NEW e \in S
  PROVE  x \o Append(y, e) = Append(x \o y, e)
<1>1. x \o y \in Seq(S) /\ <<e>> \in Seq(S)
  BY ConcatProperties
<1>2. Append(x \o y, e) = (x \o y) \o <<e>> /\ Append(y, e) = y \o <<e>>
  BY <1>1, AppendIsConcat
<1>3. (x \o y) \o <<e>> = x \o (y \o <<e>>)
  BY <1>1, ConcatAssociative
<1> QED BY <1>2, <1>3
LEMMA HeadAndTail ==
  ASSUME NEW S, NEW y \in Seq(S), y # <<>>
  PROVE  /\ Head(y) \in S /\ Head(y) = y[1] /\ Tail(y) \in Seq(S) /\ Len(y) \in Nat \ {0}
         /\ Len(Tail(y)) = Len(y) - 1 /\ \A i \in 1 .. Len(y) - 1 : Tail(y)[i] = y[i + 1]
<1>1. Len(y) \in Nat \ {0}
  BY EmptySeq
<1>2. Head(y) = y[1]
  BY <1>1
<1>3. /\ Head(y) \in S /\ Tail(y) \in Seq(S) /\ Len(Tail(y)) = Len(y) - 1
      /\ \A i \in 1 .. Len(Tail(y)) : Tail(y)[i] = y[i + 1]
  BY HeadTailProperties
<1> QED BY <1>1, <1>2, <1>3
LEMMA HeadMoves ==
  ASSUME NEW S, NEW x \in Seq(S), NEW y \in Seq(S), y # <<>>
  PROVE  Append(x, Head(y)) \o Tail(y) = x \o y
<1>1. Head(y) \in S /\ Tail(y) \in Seq(S) /\ <<Head(y)>> \in Seq(S)
  BY HeadAndTail
<1>2. <<Head(y)>> \o Tail(y) = y
  <2>1. /\ Len(y) \in Nat \ {0} /\ Len(Tail(y)) = Len(y) - 1 /\ Head(y) = y[1]
        /\ \A i \in 1 .. Len(y) - 1 : Tail(y)[i] = y[i + 1]
    BY HeadAndTail
  <2> DEFINE z == <<Head(y)>> \o Tail(y)
  <2>2. /\ z \in Seq(S) /\ Len(z) = Len(y)
        /\ \A i \in 1 .. Len(y) : z[i] = IF i <= 1 THEN <<Head(y)>>[i] ELSE Tail(y)[i - 1]
    BY <1>1, <2>1, ConcatProperties
  <2>3. ASSUME NEW i \in 1 .. Len(y) PROVE z[i] = y[i]
    <3>1. CASE i = 1
      BY <2>1, <2>2, <3>1
    <3>2. CASE i # 1
      <4>1. i - 1 \in 1 .. Len(y) - 1 /\ (i - 1) + 1 = i
        BY <2>1, <3>2
      <4> QED BY <2>1, <2>2, <3>2, <4>1
    <3> QED BY <3>1, <3>2
  <2> HIDE DEF z
  <2>4. z = y
    BY <2>2, <2>3, SeqEqual
  <2> QED BY <2>4 DEF z
<1>3. x \o (<<Head(y)>> \o Tail(y)) = (x \o <<Head(y)>>) \o Tail(y)
  BY <1>1, ConcatAssociative
<1> QED BY <1>1, <1>2, <1>3, AppendIsConcat
LEMMA HeadGoes ==
  ASSUME NEW S, NEW x \in Seq(S), NEW y \in Seq(S), y # <<>>
  PROVE  /\ Len(x) + 1 \in 1 .. Len(x \o y) /\ (x \o y)[Len(x) + 1] = Head(y)
         /\ x \o Tail(y) = RemoveAt(x \o y, Len(x) + 1)
<1>1. /\ Head(y) = y[1] /\ Tail(y) \in Seq(S) /\ Len(y) \in Nat \ {0} /\ Len(x) \in Nat
      /\ Len(Tail(y)) = Len(y) - 1 /\ \A i \in 1 .. Len(y) - 1 : Tail(y)[i] = y[i + 1]
  BY HeadAndTail, LenProperties
<1> DEFINE z == x \o y
           t == x \o Tail(y)
           n == Len(x) + 1
<1>2. /\ z \in Seq(S) /\ Len(z) = Len(x) + Len(y)
      /\ \A i \in 1 .. Len(x) + Len(y) : z[i] = IF i <= Len(x) THEN x[i] ELSE y[i - Len(x)]
  BY ConcatProperties
<1>3. /\ t \in Seq(S) /\ Len(t) = Len(x) + Len(Tail(y))
      /\ \A i \in 1 .. Len(x) + Len(Tail(y)) :
           t[i] = IF i <= Len(x) THEN x[i] ELSE Tail(y)[i - Len(x)]
  BY <1>1, ConcatProperties
<1> HIDE DEF z, t
<1>4. n \in 1 .. Len(z) /\ z[n] = Head(y)
  <2>1. n \in 1 .. Len(x) + Len(y) /\ ~(n <= Len(x)) /\ n - Len(x) = 1
    BY <1>1
  <2> QED BY <1>1, <1>2, <2>1
<1>5. /\ RemoveAt(z, n) \in Seq(S) /\ Len(RemoveAt(z, n)) = Len(z) - 1
      /\ \A i \in 1 .. Len(z) - 1 : RemoveAt(z, n)[i] = IF i < n THEN z[i] ELSE z[i + 1]
  BY <1>2, <1>4, Removing
<1>6. ASSUME NEW i \in 1 .. Len(t) PROVE t[i] = RemoveAt(z, n)[i]
  <2>1. i \in 1 .. Len(x) + Len(Tail(y)) /\ i \in 1 .. Len(z) - 1 /\ i + 1 \in 1 .. Len(x) + Len(y)
        /\ i \in 1 .. Len(x) + Len(y)
    BY <1>1, <1>2, <1>3
  <2>2. CASE i <= Len(x)
    <3>1. i < n
      BY <1>1, <2>2
    <3> QED BY <1>2, <1>3, <1>5, <2>1, <2>2, <3>1
  <2>3. CASE ~(i <= Len(x))
    <3>1. ~(i < n) /\ ~(i + 1 <= Len(x)) /\ i - Len(x) \in 1 .. Len(y) - 1
          /\ (i + 1) - Len(x) = (i - Len(x)) + 1
      BY <1>1, <2>1, <2>3
    <3>2. RemoveAt(z, n)[i] = z[i + 1] /\ z[i + 1] = y[(i + 1) - Len(x)]
      BY <1>2, <1>5, <2>1, <3>1
    <3>3. t[i] = Tail(y)[i - Len(x)]
      BY <1>3, <2>1, <2>3
    <3> QED BY <1>1, <3>1, <3>2, <3>3
  <2> QED BY <2>2, <2>3
<1>7. Len(t) = Len(RemoveAt(z, n))
  BY <1>1, <1>2, <1>3, <1>5
<1>8. t = RemoveAt(z, n)
  BY <1>3, <1>5, <1>6, <1>7, SeqEqual
<1> QED BY <1>4, <1>8 DEF z, t

-----------------------------------------------------------------------------
(* What a step does to what waits.                                         *)

LEMMA LinesType == DataOK => lines \in [Procs -> Seq(Messages)]
<1> SUFFICES ASSUME DataOK, NEW p \in Procs PROVE shelf[p] \o queue[p] \in Seq(Messages)
  BY DEF lines
<1> QED BY ConcatProperties DEF DataOK

LEMMA Sends ==
  ASSUME DataOK, NEW q \in Procs, NEW m \in Messages,
         queue' = Sent(queue, q, m), shelf' = shelf
  PROVE  Adds(q, m)
<1>1. queue'[q] = Append(queue[q], m) /\ \A r \in Procs \ {q} : queue'[r] = queue[r]
  BY DEF DataOK, Sent
<1>2. shelf[q] \o Append(queue[q], m) = Append(shelf[q] \o queue[q], m)
  BY JoinsQueue DEF DataOK
<1>3. ASSUME NEW r \in Procs
      PROVE  lines'[r] = IF r = q THEN Append(lines[q], m) ELSE lines[r]
  BY <1>1, <1>2 DEF lines
<1> QED BY <1>3 DEF lines, Adds

LEMMA Takes ==
  ASSUME DataOK, NEW p \in Procs, queue[p] # <<>>,
         \/ queue' = [queue EXCEPT ![p] = Tail(queue[p])] /\ shelf' = shelf
         \/ /\ queue' = [queue EXCEPT ![p] = shelf[p] \o Tail(queue[p])]
            /\ shelf' = [shelf EXCEPT ![p] = <<>>]
  PROVE  /\ Len(shelf[p]) + 1 \in 1 .. Len(lines[p])
         /\ lines[p][Len(shelf[p]) + 1] = Head(queue[p])
         /\ Drops(p, Len(shelf[p]) + 1)
<1>1. shelf[p] \in Seq(Messages) /\ queue[p] \in Seq(Messages)
  BY DEF DataOK
<1>2. shelf[p] \o Tail(queue[p]) \in Seq(Messages)
  BY <1>1, HeadAndTail, ConcatProperties
<1>3. shelf'[p] \o queue'[p] = shelf[p] \o Tail(queue[p])
  <2>1. CASE queue' = [queue EXCEPT ![p] = Tail(queue[p])] /\ shelf' = shelf
    BY <2>1 DEF DataOK
  <2>2. CASE /\ queue' = [queue EXCEPT ![p] = shelf[p] \o Tail(queue[p])]
             /\ shelf' = [shelf EXCEPT ![p] = <<>>]
    <3>1. queue'[p] = shelf[p] \o Tail(queue[p]) /\ shelf'[p] = <<>>
      BY <2>2 DEF DataOK
    <3> QED BY <1>2, <3>1, ConcatEmptySeq
  <2> QED BY <2>1, <2>2
<1>4. \A r \in Procs \ {p} : shelf'[r] = shelf[r] /\ queue'[r] = queue[r]
  BY DEF DataOK
<1>5. /\ Len(shelf[p]) + 1 \in 1 .. Len(shelf[p] \o queue[p])
      /\ (shelf[p] \o queue[p])[Len(shelf[p]) + 1] = Head(queue[p])
      /\ shelf[p] \o Tail(queue[p]) = RemoveAt(shelf[p] \o queue[p], Len(shelf[p]) + 1)
  BY <1>1, HeadGoes
<1>6. ASSUME NEW r \in Procs
      PROVE  lines'[r] = IF r = p THEN RemoveAt(lines[p], Len(shelf[p]) + 1) ELSE lines[r]
  BY <1>3, <1>4, <1>5 DEF lines
<1>7. Drops(p, Len(shelf[p]) + 1)
  BY <1>6 DEF lines, Drops
<1> QED BY <1>5, <1>7 DEF lines

LEMMA Keeps ==
  ASSUME DataOK, NEW p \in Procs,
         \/ /\ queue[p] # <<>> /\ queue' = [queue EXCEPT ![p] = Tail(queue[p])]
            /\ shelf' = [shelf EXCEPT ![p] = Append(shelf[p], Head(queue[p]))]
         \/ /\ queue' = [queue EXCEPT ![p] = shelf[p] \o queue[p]]
            /\ shelf' = [shelf EXCEPT ![p] = <<>>]
  PROVE  lines' = lines
<1>1. shelf[p] \in Seq(Messages) /\ queue[p] \in Seq(Messages)
  BY DEF DataOK
<1>2. shelf'[p] \o queue'[p] = shelf[p] \o queue[p]
  <2>1. CASE /\ queue[p] # <<>> /\ queue' = [queue EXCEPT ![p] = Tail(queue[p])]
             /\ shelf' = [shelf EXCEPT ![p] = Append(shelf[p], Head(queue[p]))]
    <3>1. queue'[p] = Tail(queue[p]) /\ shelf'[p] = Append(shelf[p], Head(queue[p]))
      BY <2>1 DEF DataOK
    <3>2. Append(shelf[p], Head(queue[p])) \o Tail(queue[p]) = shelf[p] \o queue[p]
      BY <1>1, <2>1, HeadMoves
    <3> QED BY <3>1, <3>2
  <2>2. CASE /\ queue' = [queue EXCEPT ![p] = shelf[p] \o queue[p]]
             /\ shelf' = [shelf EXCEPT ![p] = <<>>]
    <3>1. queue'[p] = shelf[p] \o queue[p] /\ shelf'[p] = <<>>
      BY <2>2 DEF DataOK
    <3>2. shelf[p] \o queue[p] \in Seq(Messages)
      BY <1>1, ConcatProperties
    <3> QED BY <3>1, <3>2, ConcatEmptySeq
  <2> QED BY <2>1, <2>2
<1>3. \A r \in Procs \ {p} : shelf'[r] = shelf[r] /\ queue'[r] = queue[r]
  BY DEF DataOK
<1>4. ASSUME NEW r \in Procs PROVE lines'[r] = lines[r]
  BY <1>2, <1>3 DEF lines
<1> QED BY <1>4 DEF lines

-----------------------------------------------------------------------------
(* Types.                                                                  *)

LEMMA DataInit == Init => DataOK
<1> SUFFICES ASSUME Init PROVE DataOK
  OBVIOUS
<1>1. <<>> \in Seq(Messages) /\ <<>> \in Seq(Frames) /\ <<>> \in Seq(Calls)
  BY EmptySeq
<1>2. NoCall \in CallRecords
  BY DEF NoCall, CallRecords, NoRef, Contexts
<1>3. context \in [Procs -> Contexts]
  BY DEF Init, Contexts, Procs
<1> QED BY <1>1, <1>2, <1>3 DEF Init, DataOK

LEMMA MessageType ==
  ASSUME DataOK, NEW kind \in {"request", "callback", "reply"}, NEW c \in Calls,
         NEW p \in Procs, NEW ref \in Nat, NEW lent \in Nat
  PROVE  Message(kind, c, p, ref, lent) \in Messages
<1>1. context[p] \in Contexts
  BY DEF DataOK
<1> QED BY <1>1 DEF Message, Messages
LEMMA FrameType ==
  ASSUME NEW what \in {"call", "serve", "callback"}, NEW c \in Calls, NEW ref \in Nat,
         NEW lent \in Nat, NEW timed \in BOOLEAN
  PROVE  Frame(what, c, ref, lent, timed) \in Frames
BY DEF Frame, Frames

\* The innermost frame, and the rest.
LEMMA Innermost ==
  ASSUME DataOK, NEW p \in Procs, stack[p] # <<>>
  PROVE  /\ Len(stack[p]) \in Nat \ {0} /\ Last(stack[p]) = stack[p][Len(stack[p])]
         /\ Last(stack[p]) \in Frames
         /\ Front(stack[p]) \in Seq(Frames) /\ Len(Front(stack[p])) = Len(stack[p]) - 1
         /\ \A i \in 1 .. Len(stack[p]) - 1 : Front(stack[p])[i] = stack[p][i]
<1>1. stack[p] \in Seq(Frames)
  BY DEF DataOK
<1> QED BY <1>1, Popping

\* The message that is received.
LEMMA First ==
  ASSUME DataOK, NEW p \in Procs, queue[p] # <<>>
  PROVE  Head(queue[p]) \in Messages /\ Tail(queue[p]) \in Seq(Messages)
BY HeadAndTail DEF DataOK

\* A call with this reference, which lends this (or nothing).
CallWith(p, q, c, timed, ref, id) ==
  /\ ref >= nextRef[p] /\ (id # NoRef => id >= nextRef[p]) /\ id <= ref
  /\ nextRef' = [nextRef EXCEPT ![p] = ref + 1]
  /\ callbacks' = [callbacks EXCEPT ![p] = @ \cup ({id} \ {NoRef})]
  /\ stack' = Pushed(p, Frame("call", c, ref, id, timed))
  /\ queue' = Sent(queue, q, Message("request", c, p, ref, id))
  /\ call'[c] = [state |-> "open", from |-> p, context |-> context[p], answer |-> 0,
                 ref |-> ref, lent |-> id, invoked |-> 0, ran |-> 0, nested |-> FALSE]
LEMMA CallEffect ==
  ASSUME DataOK, NEW p \in Procs, NEW q \in Procs, NEW c \in Calls,
         NEW timed \in BOOLEAN, NEW lend \in BOOLEAN, Call(p, q, c, timed, lend)
  PROVE  \E ref, id \in Nat : CallWith(p, q, c, timed, ref, id)
<1>1. PICK n \in Nat \ {0} : n = nextRef[p]
  BY DEF DataOK
<1>2. CASE lend
  <2>1. /\ nextRef' = [nextRef EXCEPT ![p] = n + 1 + 1]
        /\ callbacks' = [callbacks EXCEPT ![p] = @ \cup {n}]
        /\ stack' = Pushed(p, Frame("call", c, n + 1, n, timed))
        /\ queue' = Sent(queue, q, Message("request", c, p, n + 1, n))
        /\ call'[c] = [NoCall EXCEPT !.state = "open", !.from = p, !.context = context[p],
                                     !.ref = n + 1, !.lent = n]
    BY <1>1, <1>2 DEF Call
  <2>2. n + 1 >= n /\ n <= n + 1 /\ {n} = {n} \ {NoRef} /\ n + 1 \in Nat
    BY <1>1 DEF NoRef
  <2>3. callbacks' = [callbacks EXCEPT ![p] = @ \cup ({n} \ {NoRef})]
    BY <2>1, <2>2
  <2>4. call'[c] = [state |-> "open", from |-> p, context |-> context[p], answer |-> 0,
                    ref |-> n + 1, lent |-> n, invoked |-> 0, ran |-> 0, nested |-> FALSE]
    BY <2>1 DEF NoCall
  <2>5. n + 1 >= nextRef[p] /\ n >= nextRef[p] /\ n <= n + 1
    BY <1>1
  <2>6. CallWith(p, q, c, timed, n + 1, n)
    BY <1>1, <2>1, <2>3, <2>4, <2>5 DEF CallWith
  <2> QED BY <2>2, <2>6
<1>3. CASE ~lend
  <2>1. /\ nextRef' = [nextRef EXCEPT ![p] = n + 1]
        /\ callbacks' = [callbacks EXCEPT ![p] = @]
        /\ stack' = Pushed(p, Frame("call", c, n, NoRef, timed))
        /\ queue' = Sent(queue, q, Message("request", c, p, n, NoRef))
        /\ call'[c] = [NoCall EXCEPT !.state = "open", !.from = p, !.context = context[p],
                                     !.ref = n, !.lent = NoRef]
    BY <1>1, <1>3 DEF Call
  <2>2. callbacks' = [callbacks EXCEPT ![p] = @ \cup ({NoRef} \ {NoRef})]
    BY <2>1
  <2>3. n >= n /\ NoRef <= n /\ NoRef \in Nat
    BY DEF NoRef
  <2>4. CallWith(p, q, c, timed, n, NoRef)
    BY <1>1, <2>1, <2>2, <2>3 DEF CallWith, NoCall
  <2> QED BY <2>3, <2>4
<1> QED BY <1>2, <1>3

\* The other calls, when one is made.
LEMMA CallOthers ==
  ASSUME DataOK, NEW p \in Procs, NEW q \in Procs, NEW c \in Calls,
         NEW timed \in BOOLEAN, NEW lend \in BOOLEAN, Call(p, q, c, timed, lend)
  PROVE  /\ call' \in [Calls -> CallRecords]
         /\ \A d \in Calls \ {c} :
              /\ call'[d] = call[d] \/ call'[d] = [call[d] EXCEPT !.nested = TRUE]
              /\ Doing(p, "callback") /\ d = Last(stack[p]).call => call'[d].nested
<1>0. call \in [Calls -> CallRecords] /\ context[p] \in Contexts
  BY DEF DataOK
<1>1. ASSUME NEW d \in Calls \ {c}
      PROVE  call'[d] = IF Doing(p, "callback") /\ d = Last(stack[p]).call
                          THEN [call[d] EXCEPT !.nested = TRUE] ELSE call[d]
  BY DEF Call
<1>2. ASSUME NEW d \in Calls \ {c}
      PROVE  /\ call'[d] \in CallRecords
             /\ call'[d] = call[d] \/ call'[d] = [call[d] EXCEPT !.nested = TRUE]
             /\ Doing(p, "callback") /\ d = Last(stack[p]).call => call'[d].nested
  <2>1. call[d] \in CallRecords
    BY <1>0
  <2>2. [call[d] EXCEPT !.nested = TRUE] \in CallRecords /\ [call[d] EXCEPT !.nested = TRUE].nested
    BY <2>1 DEF CallRecords
  <2> QED BY <1>1, <2>1, <2>2
<1>3. PICK ref, id \in Nat : CallWith(p, q, c, timed, ref, id)
  BY CallEffect
<1>4. call'[c] \in CallRecords
  BY <1>0, <1>3 DEF CallWith, CallRecords
<1>5. call' = [d \in Calls |-> call'[d]]
  BY DEF Call
<1> QED BY <1>2, <1>4, <1>5

LEMMA StackTypes ==
  ASSUME DataOK, NEW p \in Procs
  PROVE  /\ \A f \in Frames : Pushed(p, f) \in [Procs -> Seq(Frames)]
         /\ stack[p] # <<>> => Popped(p) \in [Procs -> Seq(Frames)]
<1>1. ASSUME NEW f \in Frames PROVE Pushed(p, f) \in [Procs -> Seq(Frames)]
  <2>1. Append(stack[p], f) \in Seq(Frames)
    BY Pushing DEF DataOK
  <2> QED BY <2>1 DEF DataOK, Pushed
<1>2. ASSUME stack[p] # <<>> PROVE Popped(p) \in [Procs -> Seq(Frames)]
  BY <1>2, Innermost DEF DataOK, Popped
<1> QED BY <1>1, <1>2

LEMMA SentType ==
  ASSUME DataOK, NEW q, NEW m \in Messages
  PROVE  Sent(queue, q, m) \in [Procs -> Seq(Messages)]
<1>1. q \in Procs => Append(queue[q], m) \in Seq(Messages)
  BY Pushing DEF DataOK
<1> QED BY <1>1 DEF DataOK, Sent

LEMMA Received ==
  ASSUME DataOK, NEW p \in Procs, Receive(p)
  PROVE  /\ queue[p] # <<>> /\ Head(queue[p]) \in Messages /\ Tail(queue[p]) \in Seq(Messages)
         /\ context' \in [Procs -> Contexts] /\ context'[p] = Head(queue[p]).context
         /\ \A r \in Procs \ {p} : context'[r] = context[r]
<1>1. queue[p] # <<>> /\ context' = [context EXCEPT ![p] = Head(queue[p]).context]
  BY DEF Receive
<1>2. Head(queue[p]) \in Messages /\ Tail(queue[p]) \in Seq(Messages)
  BY <1>1, First
<1>3. Head(queue[p]).context \in Contexts
  BY <1>2 DEF Messages
<1> QED BY <1>1, <1>2, <1>3 DEF DataOK

LEMMA InCall ==
  ASSUME DataOK, NEW p \in Procs, NEW w, Doing(p, w)
  PROVE  stack[p] # <<>> /\ Last(stack[p]) \in Frames /\ Last(stack[p]).what = w
         /\ Last(stack[p]).call \in Calls
<1>1. stack[p] # <<>> /\ Last(stack[p]).what = w
  BY DEF Doing
<1>2. Last(stack[p]) \in Frames
  BY <1>1, Innermost
<1> QED BY <1>1, <1>2 DEF Frames

LEMMA EndCallType ==
  ASSUME DataOK, NEW p \in Procs, Doing(p, "call"), NEW rest \in Seq(Messages),
         NEW outcome \in {"ok", "timeout"}, NEW answer \in Nat,
         EndCall(p, rest, outcome, answer)
  PROVE  /\ queue' \in [Procs -> Seq(Messages)] /\ shelf' \in [Procs -> Seq(Messages)]
         /\ stack' \in [Procs -> Seq(Frames)] /\ callbacks' \in [Procs -> SUBSET Nat]
         /\ call' \in [Calls -> CallRecords]
<1>0. /\ queue \in [Procs -> Seq(Messages)] /\ shelf \in [Procs -> Seq(Messages)]
      /\ callbacks \in [Procs -> SUBSET Nat] /\ call \in [Calls -> CallRecords]
  BY DEF DataOK
<1>1. shelf[p] \o rest \in Seq(Messages) /\ <<>> \in Seq(Messages)
  BY <1>0, ConcatProperties, EmptySeq
<1>2. queue' \in [Procs -> Seq(Messages)] /\ shelf' \in [Procs -> Seq(Messages)]
  BY <1>0, <1>1 DEF EndCall, Unstashed
<1>3. stack' \in [Procs -> Seq(Frames)]
  BY InCall, StackTypes DEF EndCall
<1>4. callbacks' \in [Procs -> SUBSET Nat]
  BY <1>0 DEF EndCall
<1>5. PICK c \in Calls : c = Last(stack[p]).call
  BY InCall
<1>6. call' = [call EXCEPT ![c].state = outcome, ![c].answer = answer]
  BY <1>5 DEF EndCall
<1>7. call' \in [Calls -> CallRecords]
  <2>1. [call[c] EXCEPT !.state = outcome, !.answer = answer] \in CallRecords
    BY <1>0 DEF CallRecords
  <2>2. call' = [call EXCEPT ![c] = [call[c] EXCEPT !.state = outcome, !.answer = answer]]
    BY <1>0, <1>6
  <2> QED BY <1>0, <2>1, <2>2
<1> QED BY <1>2, <1>3, <1>4, <1>7

LEMMA OneMoreRun ==
  ASSUME call \in [Calls -> CallRecords], NEW c \in Calls
  PROVE  /\ [call EXCEPT ![c].ran = @ + 1] \in [Calls -> CallRecords]
         /\ [call EXCEPT ![c].invoked = @ + 1] \in [Calls -> CallRecords]
<1>1. call[c] \in CallRecords
  OBVIOUS
<1>2. /\ [call[c] EXCEPT !.ran = call[c].ran + 1] \in CallRecords
      /\ [call[c] EXCEPT !.invoked = call[c].invoked + 1] \in CallRecords
  BY <1>1 DEF CallRecords
<1> QED BY <1>2

LEMMA DataStep == DataOK /\ [Next]_vars => DataOK'
<1> SUFFICES ASSUME DataOK, [Next]_vars PROVE DataOK'
  OBVIOUS
<1>0. /\ queue \in [Procs -> Seq(Messages)] /\ shelf \in [Procs -> Seq(Messages)]
      /\ stack \in [Procs -> Seq(Frames)] /\ context \in [Procs -> Contexts]
      /\ nextRef \in [Procs -> Nat \ {0}] /\ callbacks \in [Procs -> SUBSET Nat]
      /\ call \in [Calls -> CallRecords]
      /\ arrived \in [Procs -> Seq(Calls)] /\ served \in [Procs -> Seq(Calls)]
  BY DEF DataOK
<1>1. ASSUME NEW p \in Procs, NEW q \in Procs, NEW c \in Calls,
             NEW timed \in BOOLEAN, NEW lend \in BOOLEAN, Call(p, q, c, timed, lend)
      PROVE  DataOK'
  <2>1. PICK ref, id \in Nat : CallWith(p, q, c, timed, ref, id)
    BY <1>1, CallEffect
  <2>2. call' \in [Calls -> CallRecords]
    BY <1>1, CallOthers
  <2>3. ref + 1 \in Nat \ {0} /\ nextRef' = [nextRef EXCEPT ![p] = ref + 1]
        /\ callbacks' = [callbacks EXCEPT ![p] = @ \cup ({id} \ {NoRef})]
    BY <2>1 DEF CallWith
  <2>4. stack' \in [Procs -> Seq(Frames)] /\ queue' \in [Procs -> Seq(Messages)]
    BY <2>1, FrameType, MessageType, StackTypes, SentType DEF CallWith
  <2>5. Append(arrived[q], c) \in Seq(Calls)
    BY <1>0, Pushing
  <2>6. arrived' = [arrived EXCEPT ![q] = Append(@, c)] /\ UNCHANGED <<shelf, context, served>>
    BY <1>1 DEF Call
  <2> QED BY <1>0, <2>2, <2>3, <2>4, <2>5, <2>6 DEF DataOK
<1>2. ASSUME NEW p \in Procs, NEW q \in Procs, NEW c \in Calls, Cast(p, q, c) PROVE DataOK'
  <2>1. /\ queue' = Sent(queue, q, Message("request", c, p, NoRef, NoRef))
        /\ arrived' = [arrived EXCEPT ![q] = Append(@, c)]
        /\ UNCHANGED <<shelf, stack, context, nextRef, callbacks, served>>
        /\ call' = [call EXCEPT ![c] = [NoCall EXCEPT !.state = "cast", !.from = p,
                                                      !.context = context[p]]]
    BY <1>2 DEF Cast
  <2>2. queue' \in [Procs -> Seq(Messages)]
    BY <2>1, MessageType, SentType DEF NoRef
  <2>3. call' \in [Calls -> CallRecords]
    BY <1>0, <2>1 DEF NoCall, CallRecords, NoRef
  <2>4. Append(arrived[q], c) \in Seq(Calls)
    BY <1>0, Pushing
  <2> QED BY <1>0, <2>1, <2>2, <2>3, <2>4 DEF DataOK
<1>3. ASSUME NEW p \in Procs, TakeReply(p) PROVE DataOK'
  <2>1. Doing(p, "call") /\ Receive(p) /\ EndCall(p, Tail(queue[p]), "ok", Head(queue[p]).call)
        /\ UNCHANGED <<nextRef, arrived, served>>
    BY <1>3 DEF TakeReply, history
  <2>2. Tail(queue[p]) \in Seq(Messages) /\ context' \in [Procs -> Contexts]
        /\ Head(queue[p]) \in Messages
    BY <2>1, Received
  <2>3. Head(queue[p]).call \in Nat
    BY <2>2, BoundsAssumption DEF Messages, Calls
  <2> QED BY <1>0, <2>1, <2>2, <2>3, EndCallType DEF DataOK
<1>4. ASSUME NEW p \in Procs, Timeout(p) PROVE DataOK'
  <2>1. Doing(p, "call") /\ EndCall(p, queue[p], "timeout", 0)
        /\ UNCHANGED <<context, nextRef, arrived, served>>
    BY <1>4 DEF Timeout, history
  <2>2. queue[p] \in Seq(Messages) /\ 0 \in Nat
    BY <1>0
  <2> QED BY <1>0, <2>1, <2>2, EndCallType DEF DataOK
<1>5. ASSUME NEW p \in Procs, TakeCallback(p) PROVE DataOK'
  <2>1. PICK m \in Messages : m = Head(queue[p])
    BY <1>5, Received DEF TakeCallback
  <2>2. Tail(queue[p]) \in Seq(Messages) /\ context' \in [Procs -> Contexts]
    BY <1>5, Received DEF TakeCallback
  <2>3. /\ queue' = [queue EXCEPT ![p] = Tail(@)] /\ UNCHANGED <<shelf, nextRef, arrived, served>>
        /\ \/ /\ callbacks' = [callbacks EXCEPT ![p] = @ \ {m.lent}]
              /\ stack' = Pushed(p, Frame("callback", m.call, NoRef, m.lent, FALSE))
              /\ call' = [call EXCEPT ![m.call].ran = @ + 1]
           \/ UNCHANGED <<callbacks, stack, call>>
    BY <1>5, <2>1 DEF TakeCallback, history
  <2>4. m.call \in Calls /\ m.lent \in Nat
    BY DEF Messages
  <2>5. Pushed(p, Frame("callback", m.call, NoRef, m.lent, FALSE)) \in [Procs -> Seq(Frames)]
    BY <2>4, FrameType, StackTypes DEF NoRef
  <2>6. [call EXCEPT ![m.call].ran = @ + 1] \in [Calls -> CallRecords]
    BY <1>0, <2>4, OneMoreRun
  <2>7. queue' \in [Procs -> Seq(Messages)]
    BY <1>0, <2>2, <2>3
  <2>8. callbacks' \in [Procs -> SUBSET Nat]
    <3>1. callbacks' = [callbacks EXCEPT ![p] = @ \ {m.lent}] \/ callbacks' = callbacks
      BY <2>3
    <3>2. callbacks[p] \ {m.lent} \in SUBSET Nat
      BY <1>0
    <3> QED BY <1>0, <3>1, <3>2
  <2>9. stack' \in [Procs -> Seq(Frames)] /\ call' \in [Calls -> CallRecords]
    BY <1>0, <2>3, <2>5, <2>6
  <2> QED BY <1>0, <2>2, <2>3, <2>7, <2>8, <2>9 DEF DataOK
<1>6. ASSUME NEW p \in Procs, Stash(p) PROVE DataOK'
  <2>1. /\ queue' = [queue EXCEPT ![p] = Tail(@)]
        /\ shelf' = [shelf EXCEPT ![p] = Append(@, Head(queue[p]))]
        /\ UNCHANGED <<stack, nextRef, callbacks, call, arrived, served>>
    BY <1>6 DEF Stash, history
  <2>2. Tail(queue[p]) \in Seq(Messages) /\ context' \in [Procs -> Contexts]
        /\ Head(queue[p]) \in Messages
    BY <1>6, Received DEF Stash
  <2>3. Append(shelf[p], Head(queue[p])) \in Seq(Messages)
    BY <1>0, <2>2, Pushing
  <2> QED BY <1>0, <2>1, <2>2, <2>3 DEF DataOK
<1>7. ASSUME NEW p \in Procs, CallbackReturns(p) PROVE DataOK'
  <2>1. /\ callbacks' = [callbacks EXCEPT ![p] = @ \cup {Last(stack[p]).lent}]
        /\ stack' = Popped(p) /\ Doing(p, "callback")
        /\ UNCHANGED <<queue, shelf, context, nextRef, call, arrived, served>>
    BY <1>7 DEF CallbackReturns, mail, history
  <2>2. Last(stack[p]).lent \in Nat /\ stack' \in [Procs -> Seq(Frames)]
    BY <2>1, InCall, StackTypes DEF Frames
  <2> QED BY <1>0, <2>1, <2>2 DEF DataOK
<1>8. ASSUME NEW p \in Procs, AppReceives(p) PROVE DataOK'
  <2>1. /\ queue' = [queue EXCEPT ![p] = Tail(@)]
        /\ UNCHANGED <<shelf, stack, nextRef, callbacks, call, arrived, served>>
    BY <1>8 DEF AppReceives, history
  <2>2. Tail(queue[p]) \in Seq(Messages) /\ context' \in [Procs -> Contexts]
    BY <1>8, Received DEF AppReceives
  <2> QED BY <1>0, <2>1, <2>2 DEF DataOK
<1>9. ASSUME NEW p \in Procs, NextRequest(p) PROVE DataOK'
  <2>1. PICK m \in Messages : m = Head(queue[p])
    BY <1>9, Received DEF NextRequest
  <2>2. Tail(queue[p]) \in Seq(Messages) /\ context' \in [Procs -> Contexts]
    BY <1>9, Received DEF NextRequest
  <2>3. /\ queue' = [queue EXCEPT ![p] = Tail(@)]
        /\ UNCHANGED <<shelf, nextRef, callbacks, call, arrived>>
        /\ \/ /\ stack' = Pushed(p, Frame("serve", m.call, m.ref, m.lent, FALSE))
              /\ served' = [served EXCEPT ![p] = Append(@, m.call)]
           \/ UNCHANGED <<stack, served>>
    BY <1>9, <2>1 DEF NextRequest
  <2>4. m.call \in Calls /\ m.ref \in Nat /\ m.lent \in Nat
    BY DEF Messages
  <2>5. Pushed(p, Frame("serve", m.call, m.ref, m.lent, FALSE)) \in [Procs -> Seq(Frames)]
    BY <2>4, FrameType, StackTypes
  <2>6. Append(served[p], m.call) \in Seq(Calls)
    BY <1>0, <2>4, Pushing
  <2> QED BY <1>0, <2>2, <2>3, <2>5, <2>6 DEF DataOK
<1>10. CASE UNCHANGED vars
  BY <1>10 DEF vars, mail, history, DataOK
<1>11. ASSUME NEW p \in Procs, Invoke(p) PROVE DataOK'
  <2>1. PICK f \in Frames : f = Last(stack[p]) /\ f.call \in Calls
    BY <1>11, InCall DEF Invoke
  <2>2. /\ queue' = Sent(queue, call[f.call].from, Message("callback", f.call, p, NoRef, f.lent))
        /\ call' = [call EXCEPT ![f.call].invoked = @ + 1]
        /\ UNCHANGED <<shelf, stack, context, nextRef, callbacks, arrived, served>>
    BY <1>11, <2>1 DEF Invoke, history
  <2>3. queue' \in [Procs -> Seq(Messages)]
    BY <2>1, <2>2, MessageType, SentType DEF NoRef, Frames
  <2>4. call' \in [Calls -> CallRecords]
    BY <1>0, <2>1, <2>2, OneMoreRun
  <2> QED BY <1>0, <2>2, <2>3, <2>4 DEF DataOK
<1>12. ASSUME NEW p \in Procs, Reply(p) PROVE DataOK'
  <2>1. PICK f \in Frames : f = Last(stack[p]) /\ f.call \in Calls
    BY <1>12, InCall DEF Reply
  <2>2. /\ \/ queue' = queue
           \/ queue' = Sent(queue, call[f.call].from, Message("reply", f.call, p, f.ref, NoRef))
        /\ stack' = Popped(p)
        /\ UNCHANGED <<shelf, context, nextRef, callbacks, call, arrived, served>>
    BY <1>12, <2>1 DEF Reply, history
  <2>3. queue' \in [Procs -> Seq(Messages)]
    BY <1>0, <2>1, <2>2, MessageType, SentType DEF NoRef, Frames
  <2>4. stack' \in [Procs -> Seq(Frames)]
    BY <1>12, <2>2, InCall, StackTypes DEF Reply
  <2> QED BY <1>0, <2>2, <2>3, <2>4 DEF DataOK
<1> QED BY <1>1, <1>2, <1>3, <1>4, <1>5, <1>6, <1>7, <1>8, <1>9, <1>10, <1>11, <1>12
        DEF Next, Proceed, Begin

-----------------------------------------------------------------------------
(* Steps, as they are seen in the lines, the stacks and the calls.         *)

Used(c) == call[c].state # "none"
\* What a call is does not change.
Ages ==
  \A d \in Calls : Used(d) => /\ Used(d)' /\ call'[d].from = call[d].from
                              /\ call'[d].context = call[d].context
                              /\ call'[d].ref = call[d].ref /\ call'[d].lent = call[d].lent

LEMMA Updated ==
  ASSUME call \in [Calls -> CallRecords], NEW c \in Calls,
         \/ \E s \in {"ok", "timeout"}, a \in Nat :
              call' = [call EXCEPT ![c].state = s, ![c].answer = a]
         \/ call' = [call EXCEPT ![c].ran = @ + 1]
         \/ call' = [call EXCEPT ![c].invoked = @ + 1]
  PROVE  /\ \A d \in Calls \ {c} : call'[d] = call[d]
         /\ call'[c].from = call[c].from /\ call'[c].context = call[c].context
         /\ call'[c].ref = call[c].ref /\ call'[c].lent = call[c].lent
         /\ call'[c].nested = call[c].nested
BY DEF CallRecords

\* These steps leave the calls as they are.
LEMMA QuietSteps ==
  /\ \A p \in Procs : Stash(p) \/ CallbackReturns(p) \/ AppReceives(p) \/ NextRequest(p) \/ Reply(p)
       => call' = call
  /\ UNCHANGED vars => call' = call
<1>1. ASSUME NEW p \in Procs, Stash(p) \/ CallbackReturns(p) \/ AppReceives(p) PROVE call' = call
  BY <1>1 DEF Stash, CallbackReturns, AppReceives
<1>2. ASSUME NEW p \in Procs, NextRequest(p) \/ Reply(p) PROVE call' = call
  BY <1>2 DEF NextRequest, Reply
<1> QED BY <1>1, <1>2 DEF vars

LEMMA CallsAge == DataOK /\ [Next]_vars => Ages
<1> SUFFICES ASSUME DataOK, [Next]_vars PROVE Ages
  OBVIOUS
<1>0. call \in [Calls -> CallRecords]
  BY DEF DataOK
<1>1. ASSUME NEW p \in Procs, NEW q \in Procs, NEW c \in Calls,
             NEW timed \in BOOLEAN, NEW lend \in BOOLEAN, Call(p, q, c, timed, lend)
      PROVE  Ages
  <2>1. ~Used(c)
    BY <1>1 DEF Call, Fresh, Used
  <2>2. ASSUME NEW d \in Calls \ {c}
        PROVE  /\ call'[d].state = call[d].state /\ call'[d].from = call[d].from
               /\ call'[d].context = call[d].context
               /\ call'[d].ref = call[d].ref /\ call'[d].lent = call[d].lent
    <3>1. call'[d] = call[d] \/ call'[d] = [call[d] EXCEPT !.nested = TRUE]
      BY <1>1, CallOthers
    <3> QED BY <1>0, <3>1 DEF CallRecords
  <2> QED BY <2>1, <2>2 DEF Ages, Used
<1>2. ASSUME NEW p \in Procs, NEW q \in Procs, NEW c \in Calls, Cast(p, q, c) PROVE Ages
  BY <1>0, <1>2 DEF Cast, Fresh, Used, Ages
\* The end of a call, a callback that runs or is made.
<1>3. ASSUME NEW c \in Calls, NEW s \in {"ok", "timeout"}, NEW a \in Nat,
             call' = [call EXCEPT ![c].state = s, ![c].answer = a]
      PROVE  Ages
  <2>1. call'[c].state = s
    BY <1>0, <1>3 DEF CallRecords
  <2> QED BY <1>0, <1>3, <2>1, Updated DEF Ages, Used
<1>4. ASSUME NEW c \in Calls, \/ call' = [call EXCEPT ![c].ran = @ + 1]
                              \/ call' = [call EXCEPT ![c].invoked = @ + 1]
      PROVE  Ages
  <2>1. call'[c].state = call[c].state
    BY <1>0, <1>4 DEF CallRecords
  <2> QED BY <1>0, <1>4, <2>1, Updated DEF Ages, Used
<1>5. ASSUME NEW p \in Procs, TakeReply(p) PROVE Ages
  <2>1. Last(stack[p]).call \in Calls /\ Head(queue[p]).call \in Nat
    <3>1. Head(queue[p]) \in Messages
      BY <1>5, Received DEF TakeReply
    <3> QED BY <1>5, <3>1, InCall, BoundsAssumption DEF TakeReply, Messages, Calls
  <2>2. call' = [call EXCEPT ![Last(stack[p]).call].state = "ok",
                             ![Last(stack[p]).call].answer = Head(queue[p]).call]
    BY <1>5 DEF TakeReply, EndCall
  <2> QED BY <1>3, <2>1, <2>2
<1>6. ASSUME NEW p \in Procs, Timeout(p) PROVE Ages
  <2>1. Last(stack[p]).call \in Calls
    BY <1>6, InCall DEF Timeout
  <2>2. call' = [call EXCEPT ![Last(stack[p]).call].state = "timeout",
                             ![Last(stack[p]).call].answer = 0]
    BY <1>6 DEF Timeout, EndCall
  <2> QED BY <1>3, <2>1, <2>2
<1>7. ASSUME NEW p \in Procs, TakeCallback(p) PROVE Ages
  <2>1. Head(queue[p]).call \in Calls
    BY <1>7, Received DEF TakeCallback, Messages
  <2>2. call' = call \/ call' = [call EXCEPT ![Head(queue[p]).call].ran = @ + 1]
    BY <1>7 DEF TakeCallback
  <2> QED BY <1>4, <2>1, <2>2 DEF Ages, Used
<1>8. ASSUME NEW p \in Procs, Invoke(p) PROVE Ages
  <2>1. Last(stack[p]).call \in Calls
    BY <1>8, InCall DEF Invoke
  <2>2. call' = [call EXCEPT ![Last(stack[p]).call].invoked = @ + 1]
    BY <1>8 DEF Invoke
  <2> QED BY <1>4, <2>1, <2>2
<1>9. CASE call' = call
  BY <1>9 DEF Ages, Used
<1> QED BY <1>1, <1>2, <1>5, <1>6, <1>7, <1>8, <1>9, QuietSteps
        DEF Next, Proceed, Begin

\* The message taken is the first after the shelf.
LEMMA Gets ==
  ASSUME DataOK, NEW p \in Procs,
         TakeReply(p) \/ TakeCallback(p) \/ AppReceives(p) \/ NextRequest(p)
  PROVE  /\ Head(queue[p]) \in Messages /\ Len(shelf[p]) + 1 \in 1 .. Len(lines[p])
         /\ lines[p][Len(shelf[p]) + 1] = Head(queue[p])
         /\ Drops(p, Len(shelf[p]) + 1)
<1>1. Receive(p)
  BY DEF TakeReply, TakeCallback, AppReceives, NextRequest
<1>2. queue[p] # <<>> /\ Head(queue[p]) \in Messages
  BY <1>1, Received
<1>3. \/ queue' = [queue EXCEPT ![p] = Tail(queue[p])] /\ shelf' = shelf
      \/ /\ queue' = [queue EXCEPT ![p] = shelf[p] \o Tail(queue[p])]
         /\ shelf' = [shelf EXCEPT ![p] = <<>>]
  BY DEF TakeReply, EndCall, Unstashed, TakeCallback, AppReceives, NextRequest
<1> QED BY <1>2, <1>3, Takes

LEMMA Stays ==
  ASSUME DataOK, NEW p \in Procs, Stash(p) \/ Timeout(p) \/ CallbackReturns(p)
  PROVE  lines' = lines
<1>1. CASE Stash(p)
  <2>1. /\ queue[p] # <<>> /\ queue' = [queue EXCEPT ![p] = Tail(queue[p])]
        /\ shelf' = [shelf EXCEPT ![p] = Append(shelf[p], Head(queue[p]))]
    BY <1>1 DEF Stash, Receive
  <2> QED BY <2>1, Keeps
<1>2. CASE Timeout(p)
  <2>1. /\ queue' = [queue EXCEPT ![p] = shelf[p] \o queue[p]]
        /\ shelf' = [shelf EXCEPT ![p] = <<>>]
    BY <1>2 DEF Timeout, EndCall, Unstashed
  <2> QED BY <2>1, Keeps
<1>3. CASE CallbackReturns(p)
  BY <1>3 DEF CallbackReturns, mail, lines
<1> QED BY <1>1, <1>2, <1>3

\* Where what waits, or is under way, was before a step.
LEMMA AddedAt ==
  ASSUME DataOK, NEW q \in Procs, NEW m \in Messages,
         Adds(q, m),
         NEW r \in Procs, NEW i \in 1 .. Len(lines'[r])
  PROVE  \/ i \in 1 .. Len(lines[r]) /\ lines'[r][i] = lines[r][i]
         \/ r = q /\ i = Len(lines[q]) + 1 /\ lines'[r][i] = m
<1>1. lines \in [Procs -> Seq(Messages)]
  BY LinesType
<1>2. CASE r # q
  BY <1>1, <1>2 DEF Adds
<1>3. CASE r = q
  <2>1. lines'[q] = Append(lines[q], m)
    BY <1>1 DEF Adds
  <2>2. /\ Len(lines[q]) \in Nat /\ Len(Append(lines[q], m)) = Len(lines[q]) + 1
        /\ \A j \in 1 .. Len(lines[q]) : Append(lines[q], m)[j] = lines[q][j]
        /\ Append(lines[q], m)[Len(lines[q]) + 1] = m
    BY <1>1, Pushing
  <2>3. i \in 1 .. Len(lines[q]) \/ i = Len(lines[q]) + 1
    BY <1>3, <2>1, <2>2
  <2> QED BY <1>3, <2>1, <2>2, <2>3
<1> QED BY <1>2, <1>3

LEMMA DroppedAt ==
  ASSUME DataOK, NEW p \in Procs, NEW n \in 1 .. Len(lines[p]), Drops(p, n)
  PROVE  \A r \in Procs : \A i \in 1 .. Len(lines'[r]) : \E j \in 1 .. Len(lines[r]) :
           /\ lines'[r][i] = lines[r][j]
           /\ j = IF r = p /\ ~(i < n) THEN i + 1 ELSE i
<1> SUFFICES ASSUME NEW r \in Procs, NEW i \in 1 .. Len(lines'[r])
             PROVE  \E j \in 1 .. Len(lines[r]) :
                      /\ lines'[r][i] = lines[r][j]
                      /\ j = IF r = p /\ ~(i < n) THEN i + 1 ELSE i
  OBVIOUS
<1>1. lines \in [Procs -> Seq(Messages)]
  BY LinesType
<1>2. CASE r # p
  BY <1>1, <1>2 DEF Drops
<1>3. CASE r = p
  <2>1. lines'[p] = RemoveAt(lines[p], n)
    BY <1>1 DEF Drops
  <2>2. /\ Len(lines[p]) \in Nat /\ Len(RemoveAt(lines[p], n)) = Len(lines[p]) - 1
        /\ \A j \in 1 .. Len(lines[p]) - 1 :
             RemoveAt(lines[p], n)[j] = IF j < n THEN lines[p][j] ELSE lines[p][j + 1]
    BY <1>1, Removing
  <2>3. i \in 1 .. Len(lines[p]) - 1 /\ i \in 1 .. Len(lines[p]) /\ i + 1 \in 1 .. Len(lines[p])
    BY <1>3, <2>1, <2>2
  <2> QED BY <1>3, <2>1, <2>2, <2>3
<1> QED BY <1>2, <1>3

LEMMA PushedAt ==
  ASSUME DataOK, NEW p \in Procs, NEW f \in Frames, stack' = Pushed(p, f), NEW r \in Procs
  PROVE  /\ \A i \in 1 .. Len(stack[r]) : i \in 1 .. Len(stack'[r]) /\ stack'[r][i] = stack[r][i]
         /\ r # p => stack'[r] = stack[r]
         /\ r = p => Len(stack'[r]) = Len(stack[r]) + 1 /\ stack'[r][Len(stack[r]) + 1] = f
         /\ Len(stack[r]) \in Nat
<1>1. stack \in [Procs -> Seq(Frames)]
  BY DEF DataOK
<1>2. /\ Len(stack[r]) \in Nat /\ Len(Append(stack[r], f)) = Len(stack[r]) + 1
      /\ \A i \in 1 .. Len(stack[r]) : Append(stack[r], f)[i] = stack[r][i]
      /\ Append(stack[r], f)[Len(stack[r]) + 1] = f
  BY <1>1, Pushing
<1>3. CASE r # p
  BY <1>1, <1>2, <1>3 DEF Pushed
<1>4. CASE r = p
  <2>1. stack'[r] = Append(stack[r], f)
    BY <1>1, <1>4 DEF Pushed
  <2> QED BY <1>2, <1>4, <2>1
<1> QED BY <1>3, <1>4

LEMMA PoppedAt ==
  ASSUME DataOK, NEW p \in Procs, stack[p] # <<>>, stack' = Popped(p), NEW r \in Procs
  PROVE  /\ \A i \in 1 .. Len(stack'[r]) : i \in 1 .. Len(stack[r]) /\ stack'[r][i] = stack[r][i]
         /\ r # p => stack'[r] = stack[r]
         /\ r = p => Len(stack'[r]) = Len(stack[r]) - 1
         /\ Len(stack[r]) \in Nat
<1>1. stack \in [Procs -> Seq(Frames)]
  BY DEF DataOK
<1>2. Len(stack[r]) \in Nat
  BY <1>1, LenProperties
<1>3. CASE r # p
  BY <1>1, <1>2, <1>3 DEF Popped
<1>4. CASE r = p
  <2>1. stack'[r] = Front(stack[r])
    BY <1>1, <1>4 DEF Popped
  <2>2. /\ Len(Front(stack[r])) = Len(stack[r]) - 1
        /\ \A i \in 1 .. Len(stack[r]) - 1 : Front(stack[r])[i] = stack[r][i]
    BY <1>4, Innermost
  <2>3. \A i \in 1 .. Len(stack[r]) - 1 : i \in 1 .. Len(stack[r])
    BY <1>2
  <2> QED BY <1>2, <1>4, <2>1, <2>2, <2>3
<1> QED BY <1>3, <1>4

-----------------------------------------------------------------------------
(* What a message or a frame says of its call is what the call is.         *)

MessageOK(p, m) ==
  /\ Used(m.call)
  /\ m.kind = "request" => m.ref = call[m.call].ref /\ m.lent = call[m.call].lent
  /\ m.kind = "reply" => call[m.call].from = p /\ m.ref = call[m.call].ref /\ m.ref # NoRef
  /\ m.kind = "callback" => call[m.call].from = p /\ m.lent = call[m.call].lent /\ m.lent # NoRef
FrameOK(p, f) ==
  /\ Used(f.call)
  /\ f.what = "call" => /\ call[f.call].from = p /\ f.ref = call[f.call].ref
                        /\ f.lent = call[f.call].lent /\ f.ref # NoRef
  /\ f.what = "serve" => f.ref = call[f.call].ref /\ f.lent = call[f.call].lent
  /\ f.what = "callback" => /\ call[f.call].from = p /\ f.lent = call[f.call].lent
                            /\ f.lent # NoRef
MailOK == \A p \in Procs : \A i \in 1 .. Len(lines[p]) : MessageOK(p, lines[p][i])
FramesOK == \A p \in Procs : \A i \in 1 .. Len(stack[p]) : FrameOK(p, stack[p][i])
MentionsOK == MailOK /\ FramesOK

\* A reference, or a callback id, is that of one call of the process.
RefsOK ==
  /\ \A c \in Calls : Used(c) => /\ call[c].from \in Procs
                                 /\ call[c].ref < nextRef[call[c].from]
                                 /\ call[c].lent < nextRef[call[c].from]
  /\ \A c, d \in Calls : Used(c) /\ Used(d) /\ c # d /\ call[c].from = call[d].from =>
       /\ call[c].ref # NoRef => call[c].ref # call[d].ref
       /\ call[c].lent # NoRef => call[c].lent # call[d].lent

\* The steps: what each does to the lines, the stacks and the calls.
CallMade(p, q, c, timed, ref, id, m, f) ==
  /\ CallWith(p, q, c, timed, ref, id) /\ ref # NoRef
  /\ m.kind = "request" /\ m.call = c /\ m.ref = ref /\ m.lent = id
  /\ m.context = context[p] /\ Adds(q, m)
  /\ f.what = "call" /\ f.call = c /\ f.ref = ref /\ f.lent = id
  /\ stack' = Pushed(p, f)
CastMade(p, q, c, m) ==
  /\ m.kind = "request" /\ m.call = c /\ m.ref = NoRef /\ m.lent = NoRef
  /\ m.context = context[p] /\ Adds(q, m)
OnTop(p, w, f) ==
  /\ f = Last(stack[p]) /\ f = stack[p][Len(stack[p])] /\ f.what = w
  /\ f.call \in Calls /\ FrameOK(p, f) /\ stack[p] # <<>>
  /\ Len(stack[p]) \in 1 .. Len(stack[p])
ReplyTaken(p, f, m, n) ==
  /\ OnTop(p, "call", f) /\ stack' = Popped(p)
  /\ m.kind = "reply" /\ m.call = f.call
  /\ n = Len(shelf[p]) + 1 /\ m = lines[p][n] /\ Drops(p, n)
  /\ call' = [call EXCEPT ![f.call].state = "ok", ![f.call].answer = f.call]
  /\ context'[p] = m.context /\ \A r \in Procs \ {p} : context'[r] = context[r]
  /\ callbacks' = [callbacks EXCEPT ![p] = @ \ {f.lent}]
CallLate(p, f) ==
  /\ OnTop(p, "call", f) /\ stack' = Popped(p) /\ lines' = lines
  /\ call' = [call EXCEPT ![f.call].state = "timeout", ![f.call].answer = 0]
  /\ callbacks' = [callbacks EXCEPT ![p] = @ \ {f.lent}]
CallbackTaken(p, m, n) ==
  /\ m.kind = "callback" /\ m.call \in Calls /\ MessageOK(p, m)
  /\ n = Len(shelf[p]) + 1 /\ m = lines[p][n] /\ Drops(p, n)
  /\ context'[p] = m.context /\ \A r \in Procs \ {p} : context'[r] = context[r]
CallbackRuns(p, m, f) ==
  /\ m.lent \in callbacks[p] /\ callbacks' = [callbacks EXCEPT ![p] = @ \ {m.lent}]
  /\ call' = [call EXCEPT ![m.call].ran = @ + 1]
  /\ f.what = "callback" /\ f.call = m.call /\ f.lent = m.lent
  /\ FrameOK(p, f) /\ stack' = Pushed(p, f)
CallbackLost(p, m) == m.lent \notin callbacks[p] /\ UNCHANGED <<callbacks, stack, call>>
RequestTaken(p, m, n) ==
  /\ m.call \in Calls /\ MessageOK(p, m)
  /\ n = Len(shelf[p]) + 1 /\ m = lines[p][n] /\ Drops(p, n)
  /\ context'[p] = m.context /\ \A r \in Procs \ {p} : context'[r] = context[r]
RequestServed(p, m, f) ==
  /\ m.kind = "request" /\ served' = [served EXCEPT ![p] = Append(@, m.call)]
  /\ f.what = "serve" /\ f.call = m.call /\ f.lent = m.lent
  /\ FrameOK(p, f) /\ stack' = Pushed(p, f)
RequestSkipped(m) == m.kind # "request" /\ UNCHANGED <<stack, served>>
CallbackInvoked(p, f, m, to) ==
  /\ OnTop(p, "serve", f) /\ f.lent # NoRef /\ to = call[f.call].from
  /\ m.kind = "callback" /\ m.call = f.call /\ m.lent = f.lent
  /\ m.context = context[p] /\ Adds(to, m)
  /\ call' = [call EXCEPT ![f.call].invoked = @ + 1]
RequestDone(p, f) ==
  OnTop(p, "serve", f) /\ stack[p] # <<>> /\ stack' = Popped(p) /\ UNCHANGED call
ReplySent(p, f, m, to) ==
  /\ f.ref # NoRef /\ to = call[f.call].from
  /\ m.kind = "reply" /\ m.call = f.call /\ m.ref = f.ref
  /\ m.context = context[p] /\ Adds(to, m)

LEMMA CallStep ==
  ASSUME DataOK, NEW p \in Procs, NEW q \in Procs, NEW c \in Calls,
         NEW timed \in BOOLEAN, NEW lend \in BOOLEAN, Call(p, q, c, timed, lend)
  PROVE  \E ref, id \in Nat, m \in Messages, f \in Frames :
           CallMade(p, q, c, timed, ref, id, m, f)
<1>1. PICK ref, id \in Nat : CallWith(p, q, c, timed, ref, id)
  BY CallEffect
<1>2. PICK m \in Messages : m = Message("request", c, p, ref, id)
  BY MessageType
<1>3. PICK f \in Frames : f = Frame("call", c, ref, id, timed)
  BY FrameType
<1>4. Adds(q, m)
  <2>1. queue' = Sent(queue, q, m) /\ shelf' = shelf
    BY <1>1, <1>2 DEF CallWith, Call
  <2> QED BY <2>1, Sends
<1>5. m.kind = "request" /\ m.call = c /\ m.ref = ref /\ m.lent = id /\ m.context = context[p]
  BY <1>2 DEF Message
<1>6. f.what = "call" /\ f.call = c /\ f.ref = ref /\ f.lent = id
  BY <1>3 DEF Frame
<1>7. stack' = Pushed(p, f)
  BY <1>1, <1>3 DEF CallWith
<1>8. ref # NoRef
  <2>1. PICK n \in Nat \ {0} : n = nextRef[p]
    BY DEF DataOK
  <2>2. ref >= n
    BY <1>1, <2>1 DEF CallWith
  <2> QED BY <2>2 DEF NoRef
<1> QED BY <1>1, <1>4, <1>5, <1>6, <1>7, <1>8 DEF CallMade

LEMMA CastStep ==
  ASSUME DataOK, NEW p \in Procs, NEW q \in Procs, NEW c \in Calls, Cast(p, q, c)
  PROVE  \E m \in Messages : CastMade(p, q, c, m)
<1>1. PICK m \in Messages : m = Message("request", c, p, NoRef, NoRef)
  BY MessageType DEF NoRef
<1>2. Adds(q, m)
  BY <1>1, Sends DEF Cast
<1>3. /\ m.kind = "request" /\ m.call = c /\ m.ref = NoRef /\ m.lent = NoRef
      /\ m.context = context[p]
  BY <1>1 DEF Message
<1> QED BY <1>2, <1>3 DEF CastMade
LEMMA CastCalls ==
  ASSUME DataOK, NEW p \in Procs, NEW q \in Procs, NEW c \in Calls, Cast(p, q, c)
  PROVE  /\ call'[c].state = "cast" /\ call'[c].from = p /\ call'[c].context = context[p]
         /\ call'[c].ref = NoRef /\ call'[c].lent = NoRef
         /\ \A d \in Calls \ {c} : call'[d] = call[d]
<1>1. /\ call'[c] = [NoCall EXCEPT !.state = "cast", !.from = p, !.context = context[p]]
      /\ \A d \in Calls \ {c} : call'[d] = call[d]
  BY DEF Cast, DataOK
<1> QED BY <1>1 DEF NoCall

\* The frame on top.
LEMMA TopFrame ==
  ASSUME DataOK, MentionsOK, NEW p \in Procs, NEW w, Doing(p, w)
  PROVE  \E f \in Frames : OnTop(p, w, f) /\ Used(f.call)
<1>1. /\ stack[p] # <<>> /\ Last(stack[p]) \in Frames /\ Last(stack[p]).what = w
      /\ Last(stack[p]).call \in Calls
  BY InCall
<1>2. Last(stack[p]) = stack[p][Len(stack[p])] /\ Len(stack[p]) \in 1 .. Len(stack[p])
  BY <1>1, Innermost
<1>3. FrameOK(p, Last(stack[p]))
  BY <1>2 DEF MentionsOK, FramesOK
<1> QED BY <1>1, <1>2, <1>3 DEF FrameOK, OnTop

LEMMA InvokeStep ==
  ASSUME DataOK, MentionsOK, RefsOK, NEW p \in Procs, Invoke(p)
  PROVE  \E f \in Frames, m \in Messages, to \in Procs : CallbackInvoked(p, f, m, to)
<1>1. PICK f \in Frames : OnTop(p, "serve", f) /\ Used(f.call)
  BY TopFrame DEF Invoke
<1>0. f = Last(stack[p]) /\ f.call \in Calls
  BY <1>1 DEF OnTop
<1>2. PICK to \in Procs : to = call[f.call].from
  BY <1>0, <1>1 DEF RefsOK
<1>3. f.lent \in Nat /\ NoRef \in Nat
  BY DEF Frames, NoRef
<1>4. PICK m \in Messages : m = Message("callback", f.call, p, NoRef, f.lent)
  BY <1>0, <1>3, MessageType
<1>5. /\ f.lent # NoRef /\ queue' = Sent(queue, to, m) /\ shelf' = shelf
      /\ call' = [call EXCEPT ![f.call].invoked = @ + 1]
  BY <1>0, <1>2, <1>4 DEF Invoke
<1>6. Adds(to, m)
  BY <1>5, Sends
<1>7. m.kind = "callback" /\ m.call = f.call /\ m.lent = f.lent /\ m.context = context[p]
  BY <1>4 DEF Message
<1> QED BY <1>1, <1>2, <1>5, <1>6, <1>7 DEF CallbackInvoked

LEMMA ReplyStep ==
  ASSUME DataOK, MentionsOK, RefsOK, NEW p \in Procs, Reply(p)
  PROVE  \E f \in Frames :
           /\ RequestDone(p, f)
           /\ \/ f.ref = NoRef /\ lines' = lines
              \/ \E m \in Messages, to \in Procs : ReplySent(p, f, m, to)
<1>1. PICK f \in Frames : OnTop(p, "serve", f) /\ Used(f.call)
  BY TopFrame DEF Reply
<1>0. f = Last(stack[p]) /\ f.call \in Calls
  BY <1>1 DEF OnTop
<1>2. UNCHANGED shelf /\ RequestDone(p, f)
  BY <1>1 DEF Reply, RequestDone, OnTop
<1>3. CASE f.ref = NoRef
  <2>1. queue' = queue
    BY <1>0, <1>3 DEF Reply
  <2> QED BY <1>2, <1>3, <2>1 DEF lines
<1>4. CASE f.ref # NoRef
  <2>1. PICK to \in Procs : to = call[f.call].from
    BY <1>0, <1>1 DEF RefsOK
  <2>2. f.ref \in Nat /\ NoRef \in Nat
    BY DEF Frames, NoRef
  <2>3. PICK m \in Messages : m = Message("reply", f.call, p, f.ref, NoRef)
    BY <1>0, <2>2, MessageType
  <2>4. queue' = Sent(queue, to, m)
    BY <1>0, <1>4, <2>1, <2>3 DEF Reply
  <2>5. Adds(to, m)
    BY <1>2, <2>4, Sends
  <2>6. m.kind = "reply" /\ m.call = f.call /\ m.ref = f.ref /\ m.context = context[p]
    BY <2>3 DEF Message
  <2> QED BY <1>2, <1>4, <2>1, <2>5, <2>6 DEF ReplySent
<1> QED BY <1>3, <1>4

\* The message that is taken, and what comes of it.
LEMMA TakenMessage ==
  ASSUME DataOK, MentionsOK, NEW p \in Procs,
         TakeReply(p) \/ TakeCallback(p) \/ AppReceives(p) \/ NextRequest(p)
  PROVE  \E m \in Messages, n \in 1 .. Len(lines[p]) :
           /\ m = Head(queue[p]) /\ n = Len(shelf[p]) + 1 /\ m = lines[p][n]
           /\ m.call \in Calls /\ MessageOK(p, m)
           /\ Drops(p, n)
<1>1. /\ Head(queue[p]) \in Messages /\ Len(shelf[p]) + 1 \in 1 .. Len(lines[p])
      /\ lines[p][Len(shelf[p]) + 1] = Head(queue[p])
      /\ Drops(p, Len(shelf[p]) + 1)
  BY Gets
<1>2. MessageOK(p, Head(queue[p]))
  BY <1>1 DEF MentionsOK, MailOK
<1>3. Head(queue[p]).call \in Calls
  BY <1>1 DEF Messages
<1> QED BY <1>1, <1>2, <1>3

LEMMA TakeReplyStep ==
  ASSUME DataOK, MentionsOK, RefsOK, NEW p \in Procs, TakeReply(p)
  PROVE  \E f \in Frames, m \in Messages, n \in 1 .. Len(lines[p]) : ReplyTaken(p, f, m, n)
<1>1. PICK f \in Frames : OnTop(p, "call", f) /\ Used(f.call)
  BY TopFrame DEF TakeReply
<1>0. f = Last(stack[p]) /\ f.call \in Calls /\ FrameOK(p, f) /\ f.what = "call"
  BY <1>1 DEF OnTop
<1>2. PICK m \in Messages, n \in 1 .. Len(lines[p]) :
        /\ m = Head(queue[p]) /\ n = Len(shelf[p]) + 1 /\ m = lines[p][n]
        /\ m.call \in Calls /\ MessageOK(p, m)
        /\ Drops(p, n)
  BY TakenMessage
<1>3. m.kind = "reply" /\ m.ref = f.ref /\ EndCall(p, Tail(queue[p]), "ok", m.call) /\ Receive(p)
  BY <1>0, <1>2 DEF TakeReply, IsReply
<1>4. m.call = f.call
  <2>1. /\ Used(m.call) /\ call[m.call].from = p /\ m.ref = call[m.call].ref
        /\ m.ref # NoRef
    BY <1>2, <1>3 DEF MessageOK
  <2>2. Used(f.call) /\ call[f.call].from = p /\ f.ref = call[f.call].ref
    BY <1>0, <1>1 DEF FrameOK
  <2> QED BY <1>0, <1>2, <1>3, <2>1, <2>2 DEF RefsOK
<1>5. /\ call' = [call EXCEPT ![f.call].state = "ok", ![f.call].answer = f.call]
      /\ stack' = Popped(p) /\ callbacks' = [callbacks EXCEPT ![p] = @ \ {f.lent}]
  BY <1>0, <1>3, <1>4 DEF EndCall
<1>6. context'[p] = m.context /\ \A r \in Procs \ {p} : context'[r] = context[r]
  BY <1>2, <1>3, Received
<1> QED BY <1>1, <1>2, <1>3, <1>4, <1>5, <1>6 DEF ReplyTaken

LEMMA TimeoutStep ==
  ASSUME DataOK, MentionsOK, NEW p \in Procs, Timeout(p)
  PROVE  \E f \in Frames : CallLate(p, f)
<1>1. PICK f \in Frames : OnTop(p, "call", f) /\ Used(f.call)
  BY TopFrame DEF Timeout
<1>0. f = Last(stack[p])
  BY <1>1 DEF OnTop
<1>2. /\ call' = [call EXCEPT ![f.call].state = "timeout", ![f.call].answer = 0]
      /\ stack' = Popped(p) /\ callbacks' = [callbacks EXCEPT ![p] = @ \ {f.lent}]
  BY <1>0 DEF Timeout, EndCall
<1>3. lines' = lines
  BY Stays
<1> QED BY <1>1, <1>2, <1>3 DEF CallLate

LEMMA TakeCallbackStep ==
  ASSUME DataOK, MentionsOK, NEW p \in Procs, TakeCallback(p)
  PROVE  \E m \in Messages, n \in 1 .. Len(lines[p]) :
           /\ CallbackTaken(p, m, n)
           /\ (\E f \in Frames : CallbackRuns(p, m, f)) \/ CallbackLost(p, m)
<1>1. PICK m \in Messages, n \in 1 .. Len(lines[p]) :
        /\ m = Head(queue[p]) /\ n = Len(shelf[p]) + 1 /\ m = lines[p][n]
        /\ m.call \in Calls /\ MessageOK(p, m)
        /\ Drops(p, n)
  BY TakenMessage
<1>2. PICK f \in Frames : f = Frame("callback", m.call, NoRef, m.lent, FALSE)
  BY <1>1, FrameType DEF NoRef, Messages
<1>3. f.what = "callback" /\ f.call = m.call /\ f.lent = m.lent
  BY <1>2 DEF Frame
<1>4. m.kind = "callback"
  BY <1>1 DEF TakeCallback
<1>5. FrameOK(p, f)
  BY <1>1, <1>3, <1>4 DEF MessageOK, FrameOK
<1>6. Receive(p)
  BY DEF TakeCallback
<1>7. context'[p] = m.context /\ \A r \in Procs \ {p} : context'[r] = context[r]
  BY <1>1, <1>6, Received
<1>8. \/ /\ m.lent \in callbacks[p] /\ callbacks' = [callbacks EXCEPT ![p] = @ \ {m.lent}]
         /\ call' = [call EXCEPT ![m.call].ran = @ + 1] /\ stack' = Pushed(p, f)
      \/ m.lent \notin callbacks[p] /\ UNCHANGED <<callbacks, stack, call>>
  BY <1>1, <1>2 DEF TakeCallback
<1> QED BY <1>1, <1>3, <1>4, <1>5, <1>7, <1>8 DEF CallbackTaken, CallbackRuns, CallbackLost

LEMMA NextRequestStep ==
  ASSUME DataOK, MentionsOK, NEW p \in Procs, NextRequest(p)
  PROVE  \E m \in Messages, n \in 1 .. Len(lines[p]) :
           /\ RequestTaken(p, m, n)
           /\ (\E f \in Frames : RequestServed(p, m, f)) \/ RequestSkipped(m)
<1>1. PICK m \in Messages, n \in 1 .. Len(lines[p]) :
        /\ m = Head(queue[p]) /\ n = Len(shelf[p]) + 1 /\ m = lines[p][n]
        /\ m.call \in Calls /\ MessageOK(p, m)
        /\ Drops(p, n)
  BY TakenMessage
<1>2. PICK f \in Frames : f = Frame("serve", m.call, m.ref, m.lent, FALSE)
  BY <1>1, FrameType DEF Messages
<1>3. f.what = "serve" /\ f.call = m.call /\ f.lent = m.lent /\ f.ref = m.ref
  BY <1>2 DEF Frame
<1>4. m.kind = "request" => FrameOK(p, f)
  BY <1>1, <1>3 DEF MessageOK, FrameOK
<1>5. Receive(p)
  BY DEF NextRequest
<1>6. context'[p] = m.context /\ \A r \in Procs \ {p} : context'[r] = context[r]
  BY <1>1, <1>5, Received
<1>7. \/ /\ m.kind = "request" /\ served' = [served EXCEPT ![p] = Append(@, m.call)]
         /\ stack' = Pushed(p, f)
      \/ m.kind # "request" /\ UNCHANGED <<stack, served>>
  BY <1>1, <1>2 DEF NextRequest
<1> QED BY <1>1, <1>3, <1>4, <1>6, <1>7 DEF RequestTaken, RequestServed, RequestSkipped

\* Calls come from Call and Cast.
LEMMA NewCalls ==
  ASSUME DataOK, MentionsOK, RefsOK, [Next]_vars, NEW d \in Calls, ~Used(d), Used(d)'
  PROVE  \E p, q \in Procs :
           (\E timed, lend \in BOOLEAN : Call(p, q, d, timed, lend)) \/ Cast(p, q, d)
<1>0. call \in [Calls -> CallRecords]
  BY DEF DataOK
<1>1. ASSUME NEW c \in Calls, Used(c), \A e \in Calls \ {c} : call'[e] = call[e] PROVE FALSE
  BY <1>1 DEF Used
<1>2. ASSUME NEW p \in Procs, NEW q \in Procs, NEW c \in Calls,
             NEW timed \in BOOLEAN, NEW lend \in BOOLEAN, Call(p, q, c, timed, lend), c # d
      PROVE  FALSE
  <2>1. call'[d] = call[d] \/ call'[d] = [call[d] EXCEPT !.nested = TRUE]
    BY <1>2, CallOthers
  <2> QED BY <1>0, <2>1 DEF Used, CallRecords
<1>3. ASSUME NEW p \in Procs, NEW q \in Procs, NEW c \in Calls, Cast(p, q, c), c # d
      PROVE  FALSE
  <2>1. \A e \in Calls \ {c} : call'[e] = call[e]
    BY <1>3, CastCalls
  <2> QED BY <1>3, <2>1 DEF Used
<1>4. ASSUME NEW p \in Procs, TakeReply(p) PROVE FALSE
  <2>0. PICK f \in Frames, m \in Messages, n \in 1 .. Len(lines[p]) : ReplyTaken(p, f, m, n)
    BY <1>4, TakeReplyStep
  <2>1. /\ f.call \in Calls /\ FrameOK(p, f)
        /\ call' = [call EXCEPT ![f.call].state = "ok", ![f.call].answer = f.call]
    BY <2>0 DEF ReplyTaken, OnTop
  <2> QED BY <1>0, <1>1, <2>1 DEF FrameOK
<1>5. ASSUME NEW p \in Procs, Timeout(p) PROVE FALSE
  <2>0. PICK f \in Frames : CallLate(p, f)
    BY <1>5, TimeoutStep
  <2>1. /\ f.call \in Calls /\ FrameOK(p, f)
        /\ call' = [call EXCEPT ![f.call].state = "timeout", ![f.call].answer = 0]
    BY <2>0 DEF CallLate, OnTop
  <2> QED BY <1>0, <1>1, <2>1 DEF FrameOK
<1>6. ASSUME NEW p \in Procs, TakeCallback(p) PROVE FALSE
  <2>0. PICK m \in Messages, n \in 1 .. Len(lines[p]) :
          /\ CallbackTaken(p, m, n)
          /\ (\E f \in Frames : CallbackRuns(p, m, f)) \/ CallbackLost(p, m)
    BY <1>6, TakeCallbackStep
  <2>1. /\ m.call \in Calls /\ MessageOK(p, m)
        /\ \/ call' = [call EXCEPT ![m.call].ran = @ + 1]
           \/ call' = call
    BY <2>0 DEF CallbackTaken, CallbackRuns, CallbackLost
  <2> QED BY <1>0, <1>1, <2>1 DEF MessageOK, Used
<1>7. ASSUME NEW p \in Procs, Invoke(p) PROVE FALSE
  <2>0. PICK f \in Frames, m \in Messages, to \in Procs : CallbackInvoked(p, f, m, to)
    BY <1>7, InvokeStep
  <2>1. /\ f.call \in Calls /\ FrameOK(p, f)
        /\ call' = [call EXCEPT ![f.call].invoked = @ + 1]
    BY <2>0 DEF CallbackInvoked, OnTop
  <2> QED BY <1>0, <1>1, <2>1 DEF FrameOK
<1>8. CASE UNCHANGED call
  BY <1>8 DEF Used
<1> QED BY <1>2, <1>3, <1>4, <1>5, <1>6, <1>7, <1>8, QuietSteps
        DEF Next, Proceed, Begin

LEMMA RefsStep == DataOK /\ MentionsOK /\ RefsOK /\ [Next]_vars => RefsOK'
<1> SUFFICES ASSUME DataOK, MentionsOK, RefsOK, [Next]_vars PROVE RefsOK'
  OBVIOUS
<1>0. DataOK' /\ Ages
  BY DataStep, CallsAge
<1>1. nextRef \in [Procs -> Nat \ {0}] /\ nextRef' \in [Procs -> Nat \ {0}]
  BY <1>0 DEF DataOK
<1>2. \A c \in Calls : /\ call[c].ref \in Nat /\ call[c].lent \in Nat
                       /\ call'[c].ref \in Nat /\ call'[c].lent \in Nat
  BY <1>0 DEF DataOK, CallRecords
\* The calls there were.
<1>3. ASSUME NEW c \in Calls, Used(c), \A r \in Procs : nextRef[r] <= nextRef'[r]
      PROVE  /\ call'[c].from \in Procs /\ call'[c].ref < nextRef'[call'[c].from]
             /\ call'[c].lent < nextRef'[call'[c].from]
  <2>1. PICK r \in Procs, n \in Nat, k \in Nat :
          /\ call[c].from = r /\ n = nextRef[r] /\ k = nextRef'[r] /\ n <= k
          /\ call[c].ref < n /\ call[c].lent < n
    BY <1>1, <1>3 DEF RefsOK
  <2>2. call'[c].from = r /\ call'[c].ref = call[c].ref /\ call'[c].lent = call[c].lent
    BY <1>0, <1>3, <2>1 DEF Ages
  <2> QED BY <1>2, <2>1, <2>2
<1>4. ASSUME NEW c \in Calls, NEW d \in Calls, Used(c), Used(d), c # d,
             call'[c].from = call'[d].from
      PROVE  /\ call'[c].ref # NoRef => call'[c].ref # call'[d].ref
             /\ call'[c].lent # NoRef => call'[c].lent # call'[d].lent
  BY <1>0, <1>4 DEF RefsOK, Ages
\* A new one: the references that are not NoRef are at least the counter.
<1>5. ASSUME NEW p \in Procs, NEW c \in Calls, NEW ref \in Nat, NEW id \in Nat,
             ~Used(c), \A d \in Calls : Used(d)' => d = c \/ Used(d),
             ref # NoRef => ref >= nextRef[p], id # NoRef => id >= nextRef[p],
             ref < nextRef'[p], id < nextRef'[p], \A r \in Procs : nextRef[r] <= nextRef'[r],
             call'[c].from = p, call'[c].ref = ref, call'[c].lent = id
      PROVE  RefsOK'
  <2>1. ASSUME NEW d \in Calls, Used(d)'
        PROVE  /\ call'[d].from \in Procs /\ call'[d].ref < nextRef'[call'[d].from]
               /\ call'[d].lent < nextRef'[call'[d].from]
    BY <1>3, <1>5, <2>1
  <2>2. ASSUME NEW d \in Calls, Used(d), call'[d].from = p
        PROVE  /\ ref # NoRef => ref # call'[d].ref
               /\ id # NoRef => id # call'[d].lent
    <3>1. PICK n \in Nat : n = nextRef[p]
      BY <1>1
    <3>2. call[d].from = p /\ call'[d].ref = call[d].ref /\ call'[d].lent = call[d].lent
      BY <1>0, <2>2 DEF Ages
    <3>3. call[d].ref < n /\ call[d].lent < n
      BY <2>2, <3>1, <3>2 DEF RefsOK
    <3>4. (ref # NoRef => ref >= n) /\ (id # NoRef => id >= n)
      BY <1>5, <3>1
    <3> QED BY <1>2, <3>2, <3>3, <3>4
  <2>3. ASSUME NEW a \in Calls, NEW b \in Calls, Used(a)', Used(b)', a # b,
               call'[a].from = call'[b].from
        PROVE  /\ call'[a].ref # NoRef => call'[a].ref # call'[b].ref
               /\ call'[a].lent # NoRef => call'[a].lent # call'[b].lent
    <3>1. CASE Used(a) /\ Used(b)
      BY <1>4, <2>3, <3>1
    <3>2. CASE a = c
      <4>1. Used(b) /\ call'[b].from = p
        BY <1>5, <2>3, <3>2
      <4> QED BY <1>5, <2>2, <3>2, <4>1
    <3>3. CASE b = c
      <4>1. Used(a) /\ call'[a].from = p
        BY <1>5, <2>3, <3>3
      <4>2. /\ ref # NoRef => ref # call'[a].ref
            /\ id # NoRef => id # call'[a].lent
        BY <2>2, <4>1
      <4> QED BY <1>5, <3>3, <4>2
    <3> QED BY <1>5, <2>3, <3>1, <3>2, <3>3
  <2> QED BY <2>1, <2>3 DEF RefsOK, Used
<1>6. ASSUME NEW p \in Procs, NEW q \in Procs, NEW c \in Calls,
             NEW timed \in BOOLEAN, NEW lend \in BOOLEAN, Call(p, q, c, timed, lend)
      PROVE  RefsOK'
  <2>1. PICK ref \in Nat, id \in Nat : CallWith(p, q, c, timed, ref, id)
    BY <1>6, CallEffect
  <2>2. call'[c].from = p /\ call'[c].ref = ref /\ call'[c].lent = id
    BY <2>1 DEF CallWith
  <2>3. ~Used(c)
    BY <1>6 DEF Call, Fresh, Used
  <2>4. ASSUME NEW d \in Calls, Used(d)', d # c PROVE Used(d)
    <3>1. call'[d] = call[d] \/ call'[d] = [call[d] EXCEPT !.nested = TRUE]
      BY <1>6, <2>4, CallOthers
    <3> QED BY <2>4, <3>1 DEF Used, DataOK, CallRecords
  <2>5. PICK n \in Nat : n = nextRef[p]
    BY <1>1
  <2>6. /\ ref >= n /\ (id # NoRef => id >= n) /\ id <= ref
        /\ nextRef' = [nextRef EXCEPT ![p] = ref + 1]
    BY <2>1, <2>5 DEF CallWith
  <2>7. nextRef'[p] = ref + 1 /\ \A r \in Procs \ {p} : nextRef'[r] = nextRef[r]
    BY <1>1, <2>6
  <2>8. ASSUME NEW r \in Procs PROVE nextRef[r] <= nextRef'[r]
    <3>1. CASE r = p
      BY <2>5, <2>6, <2>7, <3>1
    <3>2. CASE r # p
      <4>1. PICK k \in Nat : k = nextRef[r]
        BY <1>1
      <4> QED BY <2>7, <3>2, <4>1
    <3> QED BY <3>1, <3>2
  <2>9. ref < nextRef'[p] /\ id < nextRef'[p]
    BY <2>6, <2>7
  <2> QED BY <1>5, <2>2, <2>3, <2>4, <2>5, <2>6, <2>8, <2>9
<1>7. ASSUME NEW p \in Procs, NEW q \in Procs, NEW c \in Calls, Cast(p, q, c) PROVE RefsOK'
  <2>1. call'[c].from = p /\ call'[c].ref = NoRef /\ call'[c].lent = NoRef
    BY <1>7, CastCalls
  <2>2. ~Used(c) /\ nextRef' = nextRef
    BY <1>7 DEF Cast, Fresh, Used
  <2>3. ASSUME NEW d \in Calls, Used(d)', d # c PROVE Used(d)
    <3>1. call'[d] = call[d]
      BY <1>7, <2>3, CastCalls
    <3> QED BY <2>3, <3>1 DEF Used
  <2>4. ASSUME NEW r \in Procs PROVE nextRef[r] <= nextRef'[r]
    <3>1. PICK k \in Nat \ {0} : k = nextRef[r]
      BY <1>1
    <3> QED BY <2>2, <3>1
  <2>5. NoRef < nextRef'[p] /\ NoRef \in Nat
    <3>1. PICK k \in Nat \ {0} : k = nextRef'[p]
      BY <1>1
    <3> QED BY <3>1 DEF NoRef
  <2> QED BY <1>5, <2>1, <2>2, <2>3, <2>4, <2>5
<1>8. CASE nextRef' = nextRef /\ \A d \in Calls : Used(d)' => Used(d)
  <2>1. \A r \in Procs : nextRef[r] <= nextRef'[r]
    <3>1. SUFFICES ASSUME NEW r \in Procs PROVE nextRef[r] <= nextRef'[r]
      OBVIOUS
    <3>2. PICK k \in Nat \ {0} : k = nextRef[r]
      BY <1>1
    <3> QED BY <1>8, <3>2
  <2> QED BY <1>3, <1>4, <1>8, <2>1 DEF RefsOK, Used
<1>9. \/ \E p, q \in Procs, c \in Calls :
           (\E timed, lend \in BOOLEAN : Call(p, q, c, timed, lend)) \/ Cast(p, q, c)
      \/ nextRef' = nextRef
  BY DEF Next, Proceed, Begin, vars, TakeReply, TakeCallback, Stash, CallbackReturns,
         AppReceives, NextRequest, Reply, Invoke, Timeout
<1> QED BY <1>6, <1>7, <1>8, <1>9, NewCalls

LEMMA MentionsAge ==
  ASSUME Ages
  PROVE  /\ \A p \in Procs, m \in Messages : MessageOK(p, m) => MessageOK(p, m)'
         /\ \A p \in Procs, f \in Frames : FrameOK(p, f) => FrameOK(p, f)'
BY DEF Ages, MessageOK, FrameOK, Messages, Frames

LEMMA MailAdded ==
  ASSUME DataOK, Ages, MailOK, NEW q \in Procs, NEW m \in Messages, MessageOK(q, m)',
         Adds(q, m)
  PROVE  MailOK'
<1> SUFFICES ASSUME NEW r \in Procs, NEW i \in 1 .. Len(lines'[r])
             PROVE  MessageOK(r, lines[r][i])'
  BY DEF MailOK
<1>1. CASE i \in 1 .. Len(lines[r]) /\ lines'[r][i] = lines[r][i]
  <2>1. PICK k \in Messages : k = lines[r][i]
    BY <1>1, LinesType, ElementOfSeq
  <2>2. MessageOK(r, k)
    BY <1>1, <2>1 DEF MailOK
  <2>3. MessageOK(r, k)'
    BY <2>2, MentionsAge
  <2> QED BY <1>1, <2>1, <2>3
<1>2. CASE r = q /\ lines'[r][i] = m
  BY <1>2
<1> QED BY <1>1, <1>2, AddedAt

LEMMA MailDropped ==
  ASSUME DataOK, Ages, MailOK, NEW p \in Procs, NEW n \in 1 .. Len(lines[p]), Drops(p, n)
  PROVE  MailOK'
<1> SUFFICES ASSUME NEW r \in Procs, NEW i \in 1 .. Len(lines'[r])
             PROVE  MessageOK(r, lines[r][i])'
  BY DEF MailOK
<1>1. PICK j \in 1 .. Len(lines[r]) : lines'[r][i] = lines[r][j]
  BY DroppedAt
<1>2. PICK k \in Messages : k = lines[r][j]
  BY LinesType, ElementOfSeq
<1>3. MessageOK(r, k)
  BY <1>2 DEF MailOK
<1>4. MessageOK(r, k)'
  BY <1>3, MentionsAge
<1> QED BY <1>1, <1>2, <1>4

LEMMA MailKept == ASSUME DataOK, Ages, MailOK, lines' = lines PROVE MailOK'
<1> SUFFICES ASSUME NEW r \in Procs, NEW i \in 1 .. Len(lines[r])
             PROVE  MessageOK(r, lines[r][i])'
  BY DEF MailOK
<1>1. PICK k \in Messages : k = lines[r][i]
  BY LinesType, ElementOfSeq
<1>2. MessageOK(r, k)
  BY <1>1 DEF MailOK
<1>3. MessageOK(r, k)'
  BY <1>2, MentionsAge
<1> QED BY <1>1, <1>3

LEMMA FramesPushed ==
  ASSUME DataOK, Ages, FramesOK, NEW p \in Procs, NEW f \in Frames, FrameOK(p, f)',
         stack' = Pushed(p, f)
  PROVE  FramesOK'
<1> SUFFICES ASSUME NEW r \in Procs, NEW i \in 1 .. Len(stack'[r])
             PROVE  FrameOK(r, stack[r][i])'
  BY DEF FramesOK
<1>1. CASE i \in 1 .. Len(stack[r])
  <2>1. PICK g \in Frames : g = stack[r][i]
    BY <1>1, ElementOfSeq DEF DataOK
  <2>2. FrameOK(r, g)
    BY <1>1, <2>1 DEF FramesOK
  <2>3. FrameOK(r, g)'
    BY <2>2, MentionsAge
  <2>4. stack'[r][i] = g
    BY <1>1, <2>1, PushedAt
  <2> QED BY <2>3, <2>4
<1>2. CASE ~(i \in 1 .. Len(stack[r]))
  <2>1. /\ r # p => stack'[r] = stack[r]
        /\ r = p => Len(stack'[r]) = Len(stack[r]) + 1 /\ stack'[r][Len(stack[r]) + 1] = f
        /\ Len(stack[r]) \in Nat
    BY PushedAt
  <2>2. r = p
    BY <1>2, <2>1
  <2>3. i = Len(stack[r]) + 1
    BY <1>2, <2>1, <2>2
  <2> QED BY <2>1, <2>2, <2>3
<1> QED BY <1>1, <1>2

LEMMA FramesKept ==
  ASSUME DataOK, Ages, FramesOK,
         \/ stack' = stack
         \/ \E p \in Procs : stack[p] # <<>> /\ stack' = Popped(p)
  PROVE  FramesOK'
<1> SUFFICES ASSUME NEW r \in Procs, NEW i \in 1 .. Len(stack'[r])
             PROVE  FrameOK(r, stack[r][i])'
  BY DEF FramesOK
<1>1. i \in 1 .. Len(stack[r]) /\ stack'[r][i] = stack[r][i]
  BY PoppedAt
<1>2. PICK g \in Frames : g = stack[r][i]
  BY <1>1, ElementOfSeq DEF DataOK
<1>3. FrameOK(r, g)
  BY <1>1, <1>2 DEF FramesOK
<1>4. FrameOK(r, g)'
  BY <1>3, MentionsAge
<1> QED BY <1>1, <1>2, <1>4

LEMMA MentionsStep == DataOK /\ MentionsOK /\ RefsOK /\ [Next]_vars => MentionsOK'
<1> SUFFICES ASSUME DataOK, MentionsOK, RefsOK, [Next]_vars PROVE MentionsOK'
  OBVIOUS
<1>0. Ages /\ MailOK /\ FramesOK /\ call \in [Calls -> CallRecords]
  BY CallsAge DEF MentionsOK, DataOK
<1>1. ASSUME NEW p \in Procs, NEW q \in Procs, NEW c \in Calls,
             NEW timed \in BOOLEAN, NEW lend \in BOOLEAN, Call(p, q, c, timed, lend)
      PROVE  MailOK' /\ FramesOK'
  <2>0. PICK ref \in Nat, id \in Nat, m \in Messages, f \in Frames :
          CallMade(p, q, c, timed, ref, id, m, f)
    BY <1>1, CallStep
  <2>1. /\ CallWith(p, q, c, timed, ref, id) /\ ref # NoRef
        /\ m.kind = "request" /\ m.call = c /\ m.ref = ref /\ m.lent = id /\ Adds(q, m)
        /\ f.what = "call" /\ f.call = c /\ f.ref = ref /\ f.lent = id
        /\ stack' = Pushed(p, f)
    BY <2>0 DEF CallMade
  <2>2. /\ call'[c].state = "open" /\ call'[c].from = p /\ call'[c].ref = ref
        /\ call'[c].lent = id
    BY <2>1 DEF CallWith
  <2>3. MessageOK(q, m)' /\ FrameOK(p, f)'
    BY <2>1, <2>2 DEF MessageOK, FrameOK, Used
  <2> QED BY <1>0, <2>1, <2>3, MailAdded, FramesPushed
<1>2. ASSUME NEW p \in Procs, NEW q \in Procs, NEW c \in Calls, Cast(p, q, c)
      PROVE  MailOK' /\ FramesOK'
  <2>0. PICK m \in Messages : CastMade(p, q, c, m)
    BY <1>2, CastStep
  <2>1. m.kind = "request" /\ m.call = c /\ m.ref = NoRef /\ m.lent = NoRef /\ Adds(q, m)
    BY <2>0 DEF CastMade
  <2>2. call'[c].state = "cast" /\ call'[c].ref = NoRef /\ call'[c].lent = NoRef
    BY <1>2, CastCalls
  <2>3. MessageOK(q, m)'
    BY <2>1, <2>2 DEF MessageOK, Used
  <2>4. stack' = stack
    BY <1>2 DEF Cast
  <2> QED BY <1>0, <2>1, <2>3, <2>4, MailAdded, FramesKept
<1>3. ASSUME NEW p \in Procs, TakeReply(p) PROVE MailOK' /\ FramesOK'
  <2>0. PICK f \in Frames, m \in Messages, n \in 1 .. Len(lines[p]) : ReplyTaken(p, f, m, n)
    BY <1>3, TakeReplyStep
  <2>1. stack[p] # <<>> /\ stack' = Popped(p) /\ Drops(p, n)
    BY <2>0 DEF ReplyTaken, OnTop
  <2> QED BY <1>0, <2>1, MailDropped, FramesKept
<1>4. ASSUME NEW p \in Procs, Timeout(p) PROVE MailOK' /\ FramesOK'
  <2>0. PICK f \in Frames : CallLate(p, f)
    BY <1>4, TimeoutStep
  <2>1. stack[p] # <<>> /\ stack' = Popped(p) /\ lines' = lines
    BY <2>0 DEF CallLate, OnTop
  <2> QED BY <1>0, <2>1, MailKept, FramesKept
<1>5. ASSUME NEW p \in Procs, TakeCallback(p) PROVE MailOK' /\ FramesOK'
  <2>0. PICK m \in Messages, n \in 1 .. Len(lines[p]) :
          /\ CallbackTaken(p, m, n)
          /\ (\E f \in Frames : CallbackRuns(p, m, f)) \/ CallbackLost(p, m)
    BY <1>5, TakeCallbackStep
  <2>1. /\ Drops(p, n)
        /\ \/ \E f \in Frames : FrameOK(p, f) /\ stack' = Pushed(p, f)
           \/ stack' = stack
    BY <2>0 DEF CallbackTaken, CallbackRuns, CallbackLost
  <2>2. MailOK'
    BY <1>0, <2>1, MailDropped
  <2> QED BY <1>0, <2>1, <2>2, MentionsAge, FramesPushed, FramesKept
<1>6. ASSUME NEW p \in Procs, NextRequest(p) PROVE MailOK' /\ FramesOK'
  <2>0. PICK m \in Messages, n \in 1 .. Len(lines[p]) :
          /\ RequestTaken(p, m, n)
          /\ (\E f \in Frames : RequestServed(p, m, f)) \/ RequestSkipped(m)
    BY <1>6, NextRequestStep
  <2>1. /\ Drops(p, n)
        /\ \/ \E f \in Frames : FrameOK(p, f) /\ stack' = Pushed(p, f)
           \/ stack' = stack
    BY <2>0 DEF RequestTaken, RequestServed, RequestSkipped
  <2>2. MailOK'
    BY <1>0, <2>1, MailDropped
  <2> QED BY <1>0, <2>1, <2>2, MentionsAge, FramesPushed, FramesKept
<1>7. ASSUME NEW p \in Procs, AppReceives(p) PROVE MailOK' /\ FramesOK'
  <2>1. /\ \E n \in 1 .. Len(lines[p]) : Drops(p, n)
        /\ stack' = stack
    BY <1>7, TakenMessage DEF AppReceives
  <2> QED BY <1>0, <2>1, MailDropped, FramesKept
<1>8. ASSUME NEW p \in Procs, Stash(p) PROVE MailOK' /\ FramesOK'
  <2>1. lines' = lines /\ stack' = stack
    BY <1>8, Stays DEF Stash
  <2> QED BY <1>0, <2>1, MailKept, FramesKept
<1>9. ASSUME NEW p \in Procs, CallbackReturns(p) PROVE MailOK' /\ FramesOK'
  <2>1. lines' = lines /\ stack' = Popped(p) /\ stack[p] # <<>>
    BY <1>9, Stays DEF CallbackReturns, Doing
  <2> QED BY <1>0, <2>1, MailKept, FramesKept
<1>10. ASSUME NEW p \in Procs, Invoke(p) PROVE MailOK' /\ FramesOK'
  <2>0. PICK f \in Frames, m \in Messages, to \in Procs : CallbackInvoked(p, f, m, to)
    BY <1>10, InvokeStep
  <2>1. /\ f.what = "serve" /\ f.call \in Calls /\ FrameOK(p, f)
        /\ f.lent # NoRef /\ to = call[f.call].from
        /\ m.kind = "callback" /\ m.call = f.call /\ m.lent = f.lent /\ Adds(to, m)
    BY <2>0 DEF CallbackInvoked, OnTop
  <2>2. MessageOK(to, m)
    BY <2>1 DEF MessageOK, FrameOK
  <2>3. stack' = stack
    BY <1>10 DEF Invoke
  <2> QED BY <1>0, <2>1, <2>2, <2>3, MentionsAge, MailAdded, FramesKept
<1>11. ASSUME NEW p \in Procs, Reply(p) PROVE MailOK' /\ FramesOK'
  <2>1. PICK f \in Frames :
          /\ RequestDone(p, f)
          /\ \/ f.ref = NoRef /\ lines' = lines
             \/ \E m \in Messages, to \in Procs : ReplySent(p, f, m, to)
    BY <1>11, ReplyStep
  <2>2. /\ f.what = "serve" /\ f.call \in Calls /\ FrameOK(p, f)
        /\ stack[p] # <<>> /\ stack' = Popped(p)
    BY <2>1 DEF RequestDone, OnTop
  <2>3. FramesOK'
    BY <1>0, <2>2, FramesKept
  <2>4. ASSUME NEW m \in Messages, NEW to \in Procs, ReplySent(p, f, m, to) PROVE MailOK'
    <3>1. MessageOK(to, m) /\ Adds(to, m)
      BY <2>2, <2>4 DEF MessageOK, FrameOK, ReplySent
    <3> QED BY <1>0, <3>1, MentionsAge, MailAdded
  <2>5. MailOK'
    BY <1>0, <2>1, <2>4, MailKept
  <2> QED BY <2>3, <2>5
<1>12. CASE UNCHANGED vars
  <2>1. lines' = lines /\ stack' = stack
    BY <1>12 DEF vars, mail, lines
  <2> QED BY <1>0, <2>1, MailKept, FramesKept DEF MentionsOK
<1>13. MailOK' /\ FramesOK'
  BY <1>1, <1>2, <1>3, <1>4, <1>5, <1>6, <1>7, <1>8, <1>9, <1>10, <1>11, <1>12
     DEF Next, Proceed, Begin, MentionsOK
<1> QED BY <1>13 DEF MentionsOK

-----------------------------------------------------------------------------
(* The shape of the stacks.                                                *)

StashOK == \A p \in Procs : shelf[p] # <<>> =>
  \E i \in 1 .. Len(stack[p]) : stack[p][i].what = "call"
NestOK == \A p \in Procs : \A i \in 1 .. Len(stack[p]) :
  /\ stack[p][i].what = "serve" => i = 1
  /\ stack[p][i].what = "callback" => i > 1 /\ stack[p][i - 1].what = "call"
OnceOK == \A p \in Procs : \A i, j \in 1 .. Len(stack[p]) :
  i # j /\ stack[p][i].what = "call" /\ stack[p][j].what = "call" =>
    stack[p][i].call # stack[p][j].call
\* The calls on the stacks are those that are open.
OpenOK == \A c \in Calls : call[c].state = "open" =>
  \E i \in 1 .. Len(stack[call[c].from]) :
    stack[call[c].from][i].what = "call" /\ stack[call[c].from][i].call = c
PendingOK == \A p \in Procs : \A i \in 1 .. Len(stack[p]) :
  stack[p][i].what = "call" => call[stack[p][i].call].state = "open"

StackGrows(p, f) ==
  /\ stack' = Pushed(p, f)
  /\ \/ f.what = "call" /\ ~Used(f.call) /\ MayCall(p) /\ call'[f.call].context = context[p]
     \/ f.what = "serve" /\ stack[p] = <<>>
     \/ f.what = "callback" /\ Doing(p, "call")
StackShrinks(p) ==
  /\ stack[p] # <<>> /\ stack' = Popped(p)
  /\ Last(stack[p]).what = "call" =>
       shelf'[p] = <<>> /\ call'[Last(stack[p]).call].state \in {"ok", "timeout"}

LEMMA StackStep ==
  ASSUME DataOK, MentionsOK, RefsOK, [Next]_vars
  PROVE  \/ stack' = stack
         \/ \E p \in Procs, f \in Frames : StackGrows(p, f)
         \/ \E p \in Procs : StackShrinks(p)
<1>0. call \in [Calls -> CallRecords] /\ shelf \in [Procs -> Seq(Messages)]
  BY DEF DataOK
<1>1. ASSUME NEW p \in Procs, NEW q \in Procs, NEW c \in Calls,
             NEW timed \in BOOLEAN, NEW lend \in BOOLEAN, Call(p, q, c, timed, lend)
      PROVE  \E f \in Frames : StackGrows(p, f)
  <2>1. PICK ref \in Nat, id \in Nat, m \in Messages, f \in Frames :
          CallMade(p, q, c, timed, ref, id, m, f)
    BY <1>1, CallStep
  <2>2. ~Used(c) /\ MayCall(p)
    BY <1>1 DEF Call, Fresh, Used
  <2> QED BY <2>1, <2>2 DEF CallMade, CallWith, StackGrows
<1>2. ASSUME NEW p \in Procs, TakeReply(p) PROVE StackShrinks(p)
  <2>1. PICK f \in Frames, m \in Messages, n \in 1 .. Len(lines[p]) : ReplyTaken(p, f, m, n)
    BY <1>2, TakeReplyStep
  <2>2. /\ f = Last(stack[p]) /\ f.call \in Calls /\ stack[p] # <<>> /\ stack' = Popped(p)
        /\ call' = [call EXCEPT ![f.call].state = "ok", ![f.call].answer = f.call]
    BY <2>1 DEF ReplyTaken, OnTop
  <2>3. call'[f.call].state = "ok"
    BY <1>0, <2>2 DEF CallRecords
  <2>4. shelf'[p] = <<>>
    BY <1>0, <1>2 DEF TakeReply, EndCall
  <2> QED BY <2>2, <2>3, <2>4 DEF StackShrinks
<1>3. ASSUME NEW p \in Procs, Timeout(p) PROVE StackShrinks(p)
  <2>1. PICK f \in Frames : CallLate(p, f)
    BY <1>3, TimeoutStep
  <2>2. /\ f = Last(stack[p]) /\ f.call \in Calls /\ stack[p] # <<>> /\ stack' = Popped(p)
        /\ call' = [call EXCEPT ![f.call].state = "timeout", ![f.call].answer = 0]
    BY <2>1 DEF CallLate, OnTop
  <2>3. call'[f.call].state = "timeout"
    BY <1>0, <2>2 DEF CallRecords
  <2>4. shelf'[p] = <<>>
    BY <1>0, <1>3 DEF Timeout, EndCall
  <2> QED BY <2>2, <2>3, <2>4 DEF StackShrinks
<1>4. ASSUME NEW p \in Procs, TakeCallback(p)
      PROVE  (\E f \in Frames : StackGrows(p, f)) \/ stack' = stack
  <2>1. PICK m \in Messages, n \in 1 .. Len(lines[p]) :
          /\ CallbackTaken(p, m, n)
          /\ (\E f \in Frames : CallbackRuns(p, m, f)) \/ CallbackLost(p, m)
    BY <1>4, TakeCallbackStep
  <2>2. Doing(p, "call")
    BY <1>4 DEF TakeCallback
  <2> QED BY <2>1, <2>2 DEF CallbackRuns, CallbackLost, StackGrows
<1>5. ASSUME NEW p \in Procs, NextRequest(p)
      PROVE  (\E f \in Frames : StackGrows(p, f)) \/ stack' = stack
  <2>1. PICK m \in Messages, n \in 1 .. Len(lines[p]) :
          /\ RequestTaken(p, m, n)
          /\ (\E f \in Frames : RequestServed(p, m, f)) \/ RequestSkipped(m)
    BY <1>5, NextRequestStep
  <2>2. stack[p] = <<>>
    BY <1>5 DEF NextRequest, Idle
  <2> QED BY <2>1, <2>2 DEF RequestServed, RequestSkipped, StackGrows
<1>6. ASSUME NEW p \in Procs, CallbackReturns(p) \/ Reply(p) PROVE StackShrinks(p)
  BY <1>6 DEF CallbackReturns, Reply, Doing, StackShrinks
<1>7. ASSUME NEW p \in Procs, \/ Stash(p) \/ AppReceives(p) \/ Invoke(p)
                              \/ \E q \in Procs, c \in Calls : Cast(p, q, c)
      PROVE  stack' = stack
  BY <1>7 DEF Stash, AppReceives, Invoke, Cast
<1> QED BY <1>1, <1>2, <1>3, <1>4, <1>5, <1>6, <1>7 DEF Next, Proceed, Begin, vars

\* What becomes of the state of a call.
StateStays(d) == call'[d].state = call[d].state /\ call'[d].answer = call[d].answer
AnswerOf(p, d) ==
  \E f \in Frames, m \in Messages : \E n \in 1 .. Len(lines[p]) :
    ReplyTaken(p, f, m, n) /\ f.call = d
CallEnds(p, d) ==
  /\ \E f \in Frames : OnTop(p, "call", f) /\ f.call = d
  /\ stack' = Popped(p) /\ call'[d].state \in {"ok", "timeout"}
  /\ call'[d].state = "ok" => call'[d].answer = d /\ AnswerOf(p, d)

LEMMA StateStep ==
  ASSUME DataOK, MentionsOK, RefsOK, [Next]_vars, NEW d \in Calls, Used(d)
  PROVE  StateStays(d) \/ \E p \in Procs : CallEnds(p, d)
<1>0. call \in [Calls -> CallRecords]
  BY DEF DataOK
<1>1. ASSUME NEW c \in Calls, \/ call' = [call EXCEPT ![c].ran = @ + 1]
                              \/ call' = [call EXCEPT ![c].invoked = @ + 1]
                              \/ call' = call
      PROVE  StateStays(d)
  BY <1>0, <1>1 DEF StateStays, CallRecords
<1>2. ASSUME NEW p \in Procs, NEW q \in Procs, NEW c \in Calls,
             NEW timed \in BOOLEAN, NEW lend \in BOOLEAN, Call(p, q, c, timed, lend)
      PROVE  StateStays(d)
  <2>1. d # c
    BY <1>2 DEF Call, Fresh, Used
  <2>2. call'[d] = call[d] \/ call'[d] = [call[d] EXCEPT !.nested = TRUE]
    BY <1>2, <2>1, CallOthers
  <2> QED BY <1>0, <2>2 DEF StateStays, CallRecords
<1>3. ASSUME NEW p \in Procs, NEW q \in Procs, NEW c \in Calls, Cast(p, q, c)
      PROVE  StateStays(d)
  <2>1. d # c
    BY <1>3 DEF Cast, Fresh, Used
  <2>2. call'[d] = call[d]
    BY <1>3, <2>1, CastCalls
  <2> QED BY <2>2 DEF StateStays
<1>4. ASSUME NEW p \in Procs, TakeReply(p) PROVE StateStays(d) \/ CallEnds(p, d)
  <2>1. PICK f \in Frames, m \in Messages, n \in 1 .. Len(lines[p]) : ReplyTaken(p, f, m, n)
    BY <1>4, TakeReplyStep
  <2>2. /\ OnTop(p, "call", f) /\ f.call \in Calls /\ stack' = Popped(p)
        /\ call' = [call EXCEPT ![f.call].state = "ok", ![f.call].answer = f.call]
    BY <2>1 DEF ReplyTaken, OnTop
  <2>3. CASE d = f.call
    <3>1. call'[d].state = "ok" /\ call'[d].answer = d
      BY <1>0, <2>2, <2>3 DEF CallRecords
    <3>2. AnswerOf(p, d)
      BY <2>1, <2>3 DEF AnswerOf
    <3> QED BY <2>2, <2>3, <3>1, <3>2 DEF CallEnds
  <2>4. CASE d # f.call
    BY <1>0, <2>2, <2>4 DEF StateStays
  <2> QED BY <2>3, <2>4
<1>5. ASSUME NEW p \in Procs, Timeout(p) PROVE StateStays(d) \/ CallEnds(p, d)
  <2>1. PICK f \in Frames : CallLate(p, f)
    BY <1>5, TimeoutStep
  <2>2. /\ OnTop(p, "call", f) /\ f.call \in Calls /\ stack' = Popped(p)
        /\ call' = [call EXCEPT ![f.call].state = "timeout", ![f.call].answer = 0]
    BY <2>1 DEF CallLate, OnTop
  <2>3. CASE d = f.call
    <3>1. call'[d].state = "timeout"
      BY <1>0, <2>2, <2>3 DEF CallRecords
    <3> QED BY <2>2, <2>3, <3>1 DEF CallEnds
  <2>4. CASE d # f.call
    BY <1>0, <2>2, <2>4 DEF StateStays
  <2> QED BY <2>3, <2>4
<1>6. ASSUME NEW p \in Procs, TakeCallback(p) PROVE StateStays(d)
  <2>1. PICK m \in Messages, n \in 1 .. Len(lines[p]) :
          /\ CallbackTaken(p, m, n)
          /\ (\E f \in Frames : CallbackRuns(p, m, f)) \/ CallbackLost(p, m)
    BY <1>6, TakeCallbackStep
  <2>2. /\ m.call \in Calls
        /\ \/ call' = [call EXCEPT ![m.call].ran = @ + 1]
           \/ call' = call
    BY <2>1 DEF CallbackTaken, CallbackRuns, CallbackLost
  <2> QED BY <1>1, <2>2
<1>7. ASSUME NEW p \in Procs, Invoke(p) PROVE StateStays(d)
  <2>1. PICK f \in Frames, m \in Messages, to \in Procs : CallbackInvoked(p, f, m, to)
    BY <1>7, InvokeStep
  <2>2. f.call \in Calls /\ call' = [call EXCEPT ![f.call].invoked = @ + 1]
    BY <2>1 DEF CallbackInvoked, OnTop
  <2> QED BY <1>1, <2>2
<1>8. CASE call' = call
  BY <1>1, <1>8
<1> QED BY <1>2, <1>3, <1>4, <1>5, <1>6, <1>7, <1>8, QuietSteps
        DEF Next, Proceed, Begin

LEMMA FrameWas ==
  ASSUME DataOK, NEW p \in Procs, NEW f \in Frames, stack' = Pushed(p, f),
         NEW r \in Procs, NEW i \in 1 .. Len(stack'[r])
  PROVE  \/ i \in 1 .. Len(stack[r]) /\ stack'[r][i] = stack[r][i]
         \/ r = p /\ i = Len(stack[r]) + 1 /\ stack'[r][i] = f
<1>1. /\ \A j \in 1 .. Len(stack[r]) : stack'[r][j] = stack[r][j]
      /\ r # p => stack'[r] = stack[r]
      /\ r = p => Len(stack'[r]) = Len(stack[r]) + 1 /\ stack'[r][Len(stack[r]) + 1] = f
      /\ Len(stack[r]) \in Nat
  BY PushedAt
<1>2. CASE i \in 1 .. Len(stack[r])
  BY <1>1, <1>2
<1>3. CASE ~(i \in 1 .. Len(stack[r]))
  <2>1. r = p
    BY <1>1, <1>3
  <2>2. i = Len(stack[r]) + 1
    BY <1>1, <1>3, <2>1
  <2> QED BY <1>1, <2>1, <2>2
<1> QED BY <1>2, <1>3

LEMMA NestStep ==
  ASSUME DataOK, MentionsOK, RefsOK, NestOK, [Next]_vars
  PROVE  NestOK'
<1> SUFFICES ASSUME NEW r \in Procs, NEW i \in 1 .. Len(stack'[r])
             PROVE  /\ stack'[r][i].what = "serve" => i = 1
                    /\ stack'[r][i].what = "callback" => i > 1 /\ stack'[r][i - 1].what = "call"
  BY DEF NestOK
<1>1. \A j \in 1 .. Len(stack[r]) :
        /\ stack[r][j].what = "serve" => j = 1
        /\ stack[r][j].what = "callback" => j > 1 /\ stack[r][j - 1].what = "call"
  BY DEF NestOK
<1>2. CASE stack' = stack
  BY <1>1, <1>2
<1>3. ASSUME NEW p \in Procs, StackShrinks(p)
      PROVE  /\ stack'[r][i].what = "serve" => i = 1
             /\ stack'[r][i].what = "callback" => i > 1 /\ stack'[r][i - 1].what = "call"
  <2>1. \A j \in 1 .. Len(stack'[r]) : j \in 1 .. Len(stack[r]) /\ stack'[r][j] = stack[r][j]
    BY <1>3, PoppedAt DEF StackShrinks
  <2>2. i > 1 => i - 1 \in 1 .. Len(stack'[r])
    <3>1. Len(stack'[r]) \in Nat
      BY <1>3, DataStep DEF StackShrinks, DataOK
    <3> QED BY <3>1
  <2> QED BY <1>1, <2>1, <2>2
<1>4. ASSUME NEW p \in Procs, NEW f \in Frames, StackGrows(p, f)
      PROVE  /\ stack'[r][i].what = "serve" => i = 1
             /\ stack'[r][i].what = "callback" => i > 1 /\ stack'[r][i - 1].what = "call"
  <2>1. stack' = Pushed(p, f)
    BY <1>4 DEF StackGrows
  <2>2. /\ \A j \in 1 .. Len(stack[r]) : stack'[r][j] = stack[r][j]
        /\ Len(stack[r]) \in Nat
    BY <2>1, PushedAt
  <2>3. CASE i \in 1 .. Len(stack[r]) /\ stack'[r][i] = stack[r][i]
    <3>1. i > 1 => i - 1 \in 1 .. Len(stack[r])
      BY <2>2, <2>3
    <3> QED BY <1>1, <2>2, <2>3, <3>1
  <2>4. CASE r = p /\ i = Len(stack[r]) + 1 /\ stack'[r][i] = f
    <3>1. CASE f.what = "call"
      BY <2>4, <3>1
    <3>2. CASE f.what = "serve" /\ stack[p] = <<>>
      <4>1. Len(stack[p]) = 0
        BY <3>2, EmptySeq
      <4> QED BY <2>4, <3>2, <4>1
    <3>3. CASE f.what = "callback" /\ Doing(p, "call")
      <4>1. stack[p] # <<>> /\ Last(stack[p]).what = "call"
        BY <3>3 DEF Doing
      <4>2. Len(stack[p]) \in Nat \ {0} /\ Last(stack[p]) = stack[p][Len(stack[p])]
        BY <4>1, Innermost
      <4>3. i > 1 /\ i - 1 = Len(stack[p]) /\ Len(stack[p]) \in 1 .. Len(stack[p])
        BY <2>4, <4>2
      <4> QED BY <2>2, <2>4, <3>3, <4>1, <4>2, <4>3
    <3> QED BY <1>4, <3>1, <3>2, <3>3 DEF StackGrows
  <2> QED BY <2>1, <2>3, <2>4, FrameWas
<1> QED BY <1>2, <1>3, <1>4, StackStep

LEMMA OnceStep ==
  ASSUME DataOK, MentionsOK, RefsOK, OnceOK, [Next]_vars
  PROVE  OnceOK'
<1> SUFFICES ASSUME NEW r \in Procs, NEW i \in 1 .. Len(stack'[r]), NEW j \in 1 .. Len(stack'[r]),
                    i # j, stack'[r][i].what = "call", stack'[r][j].what = "call"
             PROVE  stack'[r][i].call # stack'[r][j].call
  BY DEF OnceOK
<1>1. ASSUME NEW k \in 1 .. Len(stack[r]), NEW l \in 1 .. Len(stack[r]), k # l,
             stack[r][k].what = "call", stack[r][l].what = "call"
      PROVE  stack[r][k].call # stack[r][l].call
  BY <1>1 DEF OnceOK
<1>2. CASE stack' = stack
  BY <1>1, <1>2
<1>3. ASSUME NEW p \in Procs, StackShrinks(p)
      PROVE  stack'[r][i].call # stack'[r][j].call
  <2>1. \A k \in 1 .. Len(stack'[r]) : k \in 1 .. Len(stack[r]) /\ stack'[r][k] = stack[r][k]
    BY <1>3, PoppedAt DEF StackShrinks
  <2> QED BY <1>1, <2>1
<1>4. ASSUME NEW p \in Procs, NEW f \in Frames, StackGrows(p, f)
      PROVE  stack'[r][i].call # stack'[r][j].call
  <2>1. stack' = Pushed(p, f)
    BY <1>4 DEF StackGrows
  <2>2. /\ \/ i \in 1 .. Len(stack[r]) /\ stack'[r][i] = stack[r][i]
           \/ i = Len(stack[r]) + 1 /\ stack'[r][i] = f
        /\ \/ j \in 1 .. Len(stack[r]) /\ stack'[r][j] = stack[r][j]
           \/ j = Len(stack[r]) + 1 /\ stack'[r][j] = f
    BY <2>1, FrameWas
  <2>3. \A k \in 1 .. Len(stack[r]) : Used(stack[r][k].call)
    BY DEF MentionsOK, FramesOK, FrameOK
  <2>4. f.what = "call" => ~Used(f.call)
    BY <1>4 DEF StackGrows
  <2> QED BY <1>1, <2>2, <2>3, <2>4
<1> QED BY <1>2, <1>3, <1>4, StackStep

LEMMA StashStep ==
  ASSUME DataOK, MentionsOK, RefsOK, StashOK, [Next]_vars
  PROVE  StashOK'
<1> SUFFICES ASSUME NEW r \in Procs, shelf'[r] # <<>>
             PROVE  \E i \in 1 .. Len(stack'[r]) : stack'[r][i].what = "call"
  BY DEF StashOK
<1>0. shelf \in [Procs -> Seq(Messages)]
  BY DEF DataOK
<1>1. CASE shelf[r] = <<>>
  <2>1. ASSUME NEW p \in Procs, Stash(p)
        PROVE  p # r => shelf'[r] = shelf[r]
    BY <1>0, <2>1 DEF Stash
  <2>2. ASSUME NEW p \in Procs, TakeReply(p) \/ Timeout(p) PROVE shelf'[r] = <<>>
    BY <1>0, <1>1, <2>2 DEF TakeReply, Timeout, EndCall
  <2>0. ASSUME NEW p \in Procs,
               \/ TakeCallback(p) \/ CallbackReturns(p) \/ AppReceives(p) \/ NextRequest(p)
               \/ Reply(p) \/ Invoke(p)
               \/ \E q \in Procs, c \in Calls :
                    (\E timed, lend \in BOOLEAN : Call(p, q, c, timed, lend)) \/ Cast(p, q, c)
        PROVE  shelf' = shelf
    <3>1. ASSUME TakeCallback(p) \/ CallbackReturns(p) \/ AppReceives(p) \/ NextRequest(p)
          PROVE  shelf' = shelf
      BY <3>1 DEF TakeCallback, CallbackReturns, mail, AppReceives, NextRequest
    <3>2. ASSUME Reply(p) \/ Invoke(p) PROVE shelf' = shelf
      BY <3>2 DEF Reply, Invoke
    <3>3. ASSUME NEW q \in Procs, NEW c \in Calls,
                 (\E timed, lend \in BOOLEAN : Call(p, q, c, timed, lend)) \/ Cast(p, q, c)
          PROVE  shelf' = shelf
      BY <3>3 DEF Call, Cast
    <3> QED BY <2>0, <3>1, <3>2, <3>3
  <2>3. Stash(r) \/ shelf'[r] = shelf[r] \/ shelf'[r] = <<>>
    BY <2>0, <2>1, <2>2 DEF Next, Proceed, Begin, vars, mail
  <2>4. Stash(r)
    BY <1>1, <2>3
  <2>5. Doing(r, "call") /\ stack' = stack
    BY <2>4 DEF Stash
  <2>6. PICK f \in Frames : OnTop(r, "call", f)
    BY <2>5, TopFrame
  <2>7. Len(stack[r]) \in 1 .. Len(stack[r]) /\ stack[r][Len(stack[r])].what = "call"
    BY <2>6 DEF OnTop
  <2> QED BY <2>5, <2>7
<1>2. CASE shelf[r] # <<>>
  <2>1. PICK i \in 1 .. Len(stack[r]) : stack[r][i].what = "call"
    BY <1>2 DEF StashOK
  <2>2. CASE stack' = stack
    BY <2>1, <2>2
  <2>3. ASSUME NEW p \in Procs, NEW f \in Frames, StackGrows(p, f)
        PROVE  \E k \in 1 .. Len(stack'[r]) : stack'[r][k].what = "call"
    <3>1. i \in 1 .. Len(stack'[r]) /\ stack'[r][i] = stack[r][i]
      BY <2>3, PushedAt DEF StackGrows
    <3> QED BY <2>1, <3>1
  <2>4. ASSUME NEW p \in Procs, StackShrinks(p)
        PROVE  \E k \in 1 .. Len(stack'[r]) : stack'[r][k].what = "call"
    <3>1. CASE p # r
      BY <2>1, <2>4, <3>1, PoppedAt DEF StackShrinks
    <3>2. CASE p = r
      <4>1. stack[r] # <<>> /\ Last(stack[r]).what # "call"
        BY <2>4, <3>2 DEF StackShrinks
      <4>2. Last(stack[r]) = stack[r][Len(stack[r])] /\ Len(stack[r]) \in Nat
        BY <4>1, Innermost
      <4>3. i # Len(stack[r])
        BY <2>1, <4>1, <4>2
      <4>4. /\ \A k \in 1 .. Len(stack'[r]) : stack'[r][k] = stack[r][k]
            /\ Len(stack'[r]) = Len(stack[r]) - 1
        BY <2>4, <3>2, PoppedAt DEF StackShrinks
      <4>5. i \in 1 .. Len(stack'[r])
        BY <4>2, <4>3, <4>4
      <4> QED BY <2>1, <4>4, <4>5
    <3> QED BY <3>1, <3>2
  <2> QED BY <2>2, <2>3, <2>4, StackStep
<1> QED BY <1>1, <1>2

LEMMA NewCallState ==
  ASSUME DataOK, MentionsOK, RefsOK, [Next]_vars, NEW c \in Calls, ~Used(c), Used(c)'
  PROVE  \/ /\ call'[c].state = "open"
            /\ \E p \in Procs, f \in Frames : /\ call'[c].from = p /\ stack' = Pushed(p, f)
                                              /\ f.what = "call" /\ f.call = c
         \/ call'[c].state = "cast" /\ stack' = stack
<1>1. ASSUME NEW p \in Procs, NEW q \in Procs, NEW timed \in BOOLEAN, NEW lend \in BOOLEAN,
             Call(p, q, c, timed, lend)
      PROVE  /\ call'[c].state = "open"
             /\ \E f \in Frames : /\ call'[c].from = p /\ stack' = Pushed(p, f)
                                  /\ f.what = "call" /\ f.call = c
  <2>1. PICK ref \in Nat, id \in Nat, m \in Messages, f \in Frames :
          CallMade(p, q, c, timed, ref, id, m, f)
    BY <1>1, CallStep
  <2> QED BY <2>1 DEF CallMade, CallWith
<1>2. ASSUME NEW p \in Procs, NEW q \in Procs, Cast(p, q, c)
      PROVE  call'[c].state = "cast" /\ stack' = stack
  <2>1. call'[c].state = "cast"
    BY <1>2, CastCalls
  <2>2. stack' = stack
    BY <1>2 DEF Cast
  <2> QED BY <2>1, <2>2
<1> QED BY <1>1, <1>2, NewCalls

LEMMA OpenStep ==
  ASSUME DataOK, MentionsOK, RefsOK, OpenOK, [Next]_vars
  PROVE  OpenOK'
<1> SUFFICES ASSUME NEW c \in Calls, call'[c].state = "open"
             PROVE  \E i \in 1 .. Len(stack'[call'[c].from]) :
                      /\ stack'[call'[c].from][i].what = "call"
                      /\ stack'[call'[c].from][i].call = c
  BY DEF OpenOK
<1>1. CASE ~Used(c)
  <2>1. Used(c)'
    BY DEF Used
  <2>2. PICK p \in Procs, f \in Frames : /\ call'[c].from = p /\ stack' = Pushed(p, f)
                                         /\ f.what = "call" /\ f.call = c
    BY <1>1, <2>1, NewCallState
  <2>3. /\ Len(stack'[p]) = Len(stack[p]) + 1 /\ stack'[p][Len(stack[p]) + 1] = f
        /\ Len(stack[p]) \in Nat
    BY <2>2, PushedAt
  <2>4. Len(stack[p]) + 1 \in 1 .. Len(stack'[p])
    BY <2>3
  <2> QED BY <2>2, <2>3, <2>4
<1>2. CASE Used(c)
  <2>1. call[c].state = "open" /\ call'[c].from = call[c].from
    BY <1>2, StateStep, CallsAge DEF StateStays, CallEnds, Ages
  <2>0. PICK r \in Procs : call[c].from = r
    BY <1>2 DEF RefsOK
  <2>2. PICK i \in 1 .. Len(stack[r]) :
          /\ call'[c].from = r
          /\ stack[r][i].what = "call" /\ stack[r][i].call = c
    BY <2>0, <2>1 DEF OpenOK
  <2>3. CASE stack' = stack
    BY <2>2, <2>3
  <2>4. ASSUME NEW p \in Procs, NEW f \in Frames, StackGrows(p, f)
        PROVE  i \in 1 .. Len(stack'[r]) /\ stack'[r][i] = stack[r][i]
    BY <2>4, PushedAt DEF StackGrows
  <2>5. ASSUME NEW p \in Procs, StackShrinks(p)
        PROVE  i \in 1 .. Len(stack'[r]) /\ stack'[r][i] = stack[r][i]
    <3>1. CASE p # r
      BY <2>5, <3>1, PoppedAt DEF StackShrinks
    <3>2. CASE p = r
      <4>1. stack[r] # <<>>
        BY <2>5, <3>2 DEF StackShrinks
      <4>2. Last(stack[r]) = stack[r][Len(stack[r])] /\ Len(stack[r]) \in Nat
        BY <4>1, Innermost
      <4>3. i # Len(stack[r])
        BY <2>2, <2>5, <3>2, <4>2 DEF StackShrinks
      <4>4. /\ \A k \in 1 .. Len(stack'[r]) : stack'[r][k] = stack[r][k]
            /\ Len(stack'[r]) = Len(stack[r]) - 1
        BY <2>5, <3>2, PoppedAt DEF StackShrinks
      <4>5. i \in 1 .. Len(stack'[r])
        BY <4>2, <4>3, <4>4
      <4> QED BY <4>4, <4>5
    <3> QED BY <3>1, <3>2
  <2> QED BY <2>2, <2>3, <2>4, <2>5, StackStep
<1> QED BY <1>1, <1>2

LEMMA PendingStep ==
  ASSUME DataOK, MentionsOK, RefsOK, OnceOK, PendingOK, [Next]_vars
  PROVE  PendingOK'
<1> SUFFICES ASSUME NEW r \in Procs, NEW i \in 1 .. Len(stack'[r]), stack'[r][i].what = "call"
             PROVE  call'[stack'[r][i].call].state = "open"
  BY DEF PendingOK
<1>0. PICK d \in Calls : d = stack'[r][i].call
  <2>1. stack'[r] \in Seq(Frames)
    BY DataStep DEF DataOK
  <2>2. stack'[r][i] \in Frames
    BY <2>1, ElementOfSeq
  <2> QED BY <2>2 DEF Frames
<1>1. CASE ~Used(d)
  <2>1. Used(d)'
    <3>1. MentionsOK'
      BY MentionsStep
    <3> QED BY <1>0, <3>1 DEF MentionsOK, FramesOK, FrameOK
  <2>2. stack' # stack
    <3>1. \A k \in 1 .. Len(stack[r]) : Used(stack[r][k].call)
      BY DEF MentionsOK, FramesOK, FrameOK
    <3> QED BY <1>0, <1>1, <3>1
  <2> QED BY <1>0, <1>1, <2>1, <2>2, NewCallState
<1>2. CASE Used(d)
  <2>1. i \in 1 .. Len(stack[r]) /\ stack'[r][i] = stack[r][i]
    <3>1. CASE stack' = stack
      BY <3>1
    <3>2. ASSUME NEW p \in Procs, StackShrinks(p)
          PROVE  i \in 1 .. Len(stack[r]) /\ stack'[r][i] = stack[r][i]
      BY <3>2, PoppedAt DEF StackShrinks
    <3>3. ASSUME NEW p \in Procs, NEW f \in Frames, StackGrows(p, f)
          PROVE  i \in 1 .. Len(stack[r]) /\ stack'[r][i] = stack[r][i]
      <4>1. stack' = Pushed(p, f) /\ (f.what = "call" => ~Used(f.call))
        BY <3>3 DEF StackGrows
      <4>2. stack'[r][i] # f
        BY <1>0, <1>2, <4>1
      <4> QED BY <4>1, <4>2, FrameWas
    <3> QED BY <3>1, <3>2, <3>3, StackStep
  <2>2. call[d].state = "open" /\ call[d].from = r
    BY <1>0, <2>1 DEF PendingOK, MentionsOK, FramesOK, FrameOK
  <2>3. ASSUME NEW p \in Procs, CallEnds(p, d) PROVE FALSE
    <3>1. PICK f \in Frames : OnTop(p, "call", f) /\ f.call = d
      BY <2>3 DEF CallEnds
    <3>2. /\ f = stack[p][Len(stack[p])] /\ f.what = "call" /\ FrameOK(p, f)
          /\ Len(stack[p]) \in 1 .. Len(stack[p]) /\ stack[p] # <<>>
      BY <3>1 DEF OnTop
    <3>3. p = r
      BY <2>2, <3>1, <3>2 DEF FrameOK
    <3>4. Len(stack'[r]) = Len(stack[r]) - 1 /\ Len(stack[r]) \in Nat
      BY <2>3, <3>2, <3>3, PoppedAt DEF CallEnds
    <3>5. i # Len(stack[r])
      BY <3>4
    <3> QED BY <1>0, <2>1, <3>1, <3>2, <3>3, <3>5 DEF OnceOK
  <2>4. StateStays(d)
    BY <1>2, <2>3, StateStep
  <2> QED BY <1>0, <2>2, <2>4 DEF StateStays
<1> QED BY <1>1, <1>2

\* A call that returned has its own answer.
AnswerOK == \A c \in Calls : call[c].state = "ok" => call[c].answer = c
LEMMA AnswerStep ==
  ASSUME DataOK, MentionsOK, RefsOK, AnswerOK, [Next]_vars
  PROVE  AnswerOK'
<1> SUFFICES ASSUME NEW c \in Calls, call'[c].state = "ok" PROVE call'[c].answer = c
  BY DEF AnswerOK
<1>1. CASE ~Used(c)
  <2>1. Used(c)'
    BY DEF Used
  <2> QED BY <1>1, <2>1, NewCallState
<1>2. CASE Used(c)
  <2>1. CASE StateStays(c)
    BY <2>1 DEF AnswerOK, StateStays
  <2>2. ASSUME NEW p \in Procs, CallEnds(p, c) PROVE call'[c].answer = c
    BY <2>2 DEF CallEnds
  <2> QED BY <1>2, <2>1, <2>2, StateStep
<1> QED BY <1>1, <1>2

-----------------------------------------------------------------------------
(* Calls.                                                                  *)

Inv == /\ DataOK /\ MentionsOK /\ RefsOK
       /\ StashOK /\ NestOK /\ OnceOK /\ OpenOK /\ PendingOK /\ AnswerOK

LEMMA InvInit == Init => Inv
<1> SUFFICES ASSUME Init PROVE Inv
  OBVIOUS
<1>1. \A p \in Procs : queue[p] = <<>> /\ shelf[p] = <<>> /\ stack[p] = <<>>
  BY DEF Init
<1>2. ASSUME NEW p \in Procs PROVE lines[p] = <<>>
  <2>1. <<>> \o <<>> = <<>>
    <3>1. <<>> \in Seq(Messages)
      BY EmptySeq
    <3> QED BY <3>1, ConcatEmptySeq
  <2> QED BY <1>1, <2>1 DEF lines
<1>3. Len(<<>>) = 0 /\ 1 .. 0 = {}
  OBVIOUS
<1>4. \A c \in Calls : call[c].state = "none"
  BY DEF Init, NoCall
<1>5. MentionsOK
  BY <1>1, <1>2, <1>3 DEF MentionsOK, MailOK, FramesOK
<1>6. RefsOK /\ OpenOK /\ AnswerOK
  BY <1>4 DEF RefsOK, OpenOK, AnswerOK, Used
<1>7. StashOK /\ NestOK /\ OnceOK /\ PendingOK
  BY <1>1, <1>3 DEF StashOK, NestOK, OnceOK, PendingOK
<1> QED BY <1>5, <1>6, <1>7, DataInit DEF Inv

LEMMA InvStep == Inv /\ [Next]_vars => Inv'
BY DataStep, MentionsStep, RefsStep, StashStep, NestStep, OnceStep, OpenStep, PendingStep,
   AnswerStep DEF Inv

THEOREM Invariance == Spec => []Inv
<1>1. Init => Inv
  BY InvInit
<1>2. Inv /\ [Next]_vars => Inv'
  BY InvStep
<1> QED BY <1>1, <1>2, PTL DEF Spec

\* What TypeOK says of the stacks, from their shapes.
LEMMA TypesHold == Inv => TypeOK
<1> SUFFICES ASSUME Inv PROVE TypeOK
  OBVIOUS
<1>1. context \in [Procs -> Clients \cup {NoContext}]
  BY DEF Inv, DataOK, Contexts
<1>2. nextRef \in [Procs -> Nat]
  <2>1. nextRef \in [Procs -> Nat \ {0}]
    BY DEF Inv, DataOK
  <2> QED BY <2>1
<1>3. ASSUME NEW c \in Calls
      PROVE  call[c].state \in {"none", "open", "cast", "ok", "timeout"}
  BY DEF Inv, DataOK, CallRecords
<1>4. ASSUME NEW p \in Procs, shelf[p] # <<>>
      PROVE  Below(p, Len(stack[p]) + 1, "call") # {}
  <2>1. PICK i \in 1 .. Len(stack[p]) : stack[p][i].what = "call"
    BY <1>4 DEF Inv, StashOK
  <2>2. Len(stack[p]) \in Nat
    BY LenProperties DEF Inv, DataOK
  <2>3. i \in 1 .. (Len(stack[p]) + 1) - 1
    BY <2>2
  <2> QED BY <2>1, <2>3 DEF Below
<1>5. ASSUME NEW c \in Calls, call[c].state = "open"
      PROVE  \E i \in DOMAIN stack[call[c].from] :
               /\ stack[call[c].from][i].what = "call" /\ stack[call[c].from][i].call = c
               /\ \A j \in Below(call[c].from, i, "call") : stack[call[c].from][j].call # c
  <2>1. PICK p \in Procs : call[c].from = p
    BY <1>5 DEF Inv, RefsOK, Used
  <2>2. PICK i \in 1 .. Len(stack[p]) : stack[p][i].what = "call" /\ stack[p][i].call = c
    BY <1>5, <2>1 DEF Inv, OpenOK
  <2>3. Len(stack[p]) \in Nat /\ DOMAIN stack[p] = 1 .. Len(stack[p])
    BY LenProperties DEF Inv, DataOK
  <2>4. ASSUME NEW j \in Below(p, i, "call") PROVE stack[p][j].call # c
    <3>1. j \in 1 .. i - 1 /\ stack[p][j].what = "call"
      BY DEF Below
    <3>2. j \in 1 .. Len(stack[p]) /\ j # i
      BY <2>3, <3>1
    <3> QED BY <2>2, <3>1, <3>2 DEF Inv, OnceOK
  <2> QED BY <2>1, <2>2, <2>3, <2>4
<1> QED BY <1>1, <1>2, <1>3, <1>4, <1>5 DEF TypeOK

\* A call that returns has the answer to its own request (wire.rs:147-166),
\* however many processes use the same references and however late the
\* answers to calls that timed out come.
THEOREM CallsGetTheirOwnAnswer == Spec => []OwnAnswer
<1>1. Inv => OwnAnswer
  BY TypesHold DEF OwnAnswer, Inv, AnswerOK
<1> QED BY <1>1, Invariance, PTL

-----------------------------------------------------------------------------
(* What a step does to the lines.                                          *)

LineGrows(r, m) ==
  /\ Adds(r, m) /\ UNCHANGED served
  /\ \/ /\ m.kind = "request" /\ ~Used(m.call) /\ Used(m.call)'
        /\ call'[m.call].context = m.context
        /\ arrived' = [arrived EXCEPT ![r] = Append(@, m.call)]
     \/ /\ m.kind # "request" /\ UNCHANGED arrived
        /\ \E p \in Procs, f \in Frames :
             /\ OnTop(p, "serve", f) /\ m.call = f.call /\ m.context = context[p]
             /\ r = call[f.call].from
LineShrinks(p, n) ==
  /\ n = Len(shelf[p]) + 1 /\ Drops(p, n) /\ UNCHANGED arrived
  /\ \/ /\ lines[p][n].kind = "request" /\ p \in Services /\ stack[p] = <<>>
        /\ served' = [served EXCEPT ![p] = Append(@, lines[p][n].call)]
     \/ (lines[p][n].kind # "request" \/ p \in Clients) /\ UNCHANGED served

LEMMA LineStep ==
  ASSUME DataOK, MentionsOK, RefsOK, [Next]_vars
  PROVE  \/ lines' = lines /\ UNCHANGED <<arrived, served>>
         \/ \E r \in Procs, m \in Messages : LineGrows(r, m)
         \/ \E p \in Procs : \E n \in 1 .. Len(lines[p]) : LineShrinks(p, n)
<1>1. ASSUME NEW p \in Procs, NEW q \in Procs, NEW c \in Calls,
             NEW timed \in BOOLEAN, NEW lend \in BOOLEAN, Call(p, q, c, timed, lend)
      PROVE  \E m \in Messages : LineGrows(q, m)
  <2>1. PICK ref \in Nat, id \in Nat, m \in Messages, f \in Frames :
          CallMade(p, q, c, timed, ref, id, m, f)
    BY <1>1, CallStep
  <2>2. m.kind = "request" /\ m.call = c /\ m.context = context[p] /\ Adds(q, m)
    BY <2>1 DEF CallMade
  <2>3. call'[c].context = context[p] /\ call'[c].state = "open"
    BY <2>1 DEF CallMade, CallWith
  <2>4. ~Used(c) /\ arrived' = [arrived EXCEPT ![q] = Append(@, c)] /\ UNCHANGED served
    BY <1>1 DEF Call, Fresh, Used
  <2> QED BY <2>2, <2>3, <2>4 DEF LineGrows, Used
<1>2. ASSUME NEW p \in Procs, NEW q \in Procs, NEW c \in Calls, Cast(p, q, c)
      PROVE  \E m \in Messages : LineGrows(q, m)
  <2>1. PICK m \in Messages : CastMade(p, q, c, m)
    BY <1>2, CastStep
  <2>2. m.kind = "request" /\ m.call = c /\ m.context = context[p] /\ Adds(q, m)
    BY <2>1 DEF CastMade
  <2>3. call'[c].context = context[p] /\ call'[c].state = "cast"
    BY <1>2, CastCalls
  <2>4. ~Used(c) /\ arrived' = [arrived EXCEPT ![q] = Append(@, c)] /\ UNCHANGED served
    BY <1>2 DEF Cast, Fresh, Used
  <2> QED BY <2>2, <2>3, <2>4 DEF LineGrows, Used
<1>3. ASSUME NEW p \in Procs, TakeReply(p)
      PROVE  \E n \in 1 .. Len(lines[p]) : LineShrinks(p, n)
  <2>1. PICK f \in Frames, m \in Messages, n \in 1 .. Len(lines[p]) : ReplyTaken(p, f, m, n)
    BY <1>3, TakeReplyStep
  <2>2. m.kind = "reply" /\ m = lines[p][n] /\ n = Len(shelf[p]) + 1 /\ Drops(p, n)
    BY <2>1 DEF ReplyTaken
  <2>3. UNCHANGED <<arrived, served>>
    BY <1>3 DEF TakeReply, history
  <2> QED BY <2>2, <2>3 DEF LineShrinks
<1>4. ASSUME NEW p \in Procs, TakeCallback(p)
      PROVE  \E n \in 1 .. Len(lines[p]) : LineShrinks(p, n)
  <2>1. PICK m \in Messages, n \in 1 .. Len(lines[p]) : CallbackTaken(p, m, n)
    BY <1>4, TakeCallbackStep
  <2>2. m.kind = "callback" /\ m = lines[p][n] /\ n = Len(shelf[p]) + 1 /\ Drops(p, n)
    BY <2>1 DEF CallbackTaken
  <2>3. UNCHANGED <<arrived, served>>
    BY <1>4 DEF TakeCallback, history
  <2> QED BY <2>2, <2>3 DEF LineShrinks
<1>5. ASSUME NEW p \in Procs, NextRequest(p)
      PROVE  \E n \in 1 .. Len(lines[p]) : LineShrinks(p, n)
  <2>1. PICK m \in Messages, n \in 1 .. Len(lines[p]) :
          /\ RequestTaken(p, m, n)
          /\ (\E f \in Frames : RequestServed(p, m, f)) \/ RequestSkipped(m)
    BY <1>5, NextRequestStep
  <2>2. m = lines[p][n] /\ n = Len(shelf[p]) + 1 /\ Drops(p, n)
    BY <2>1 DEF RequestTaken
  <2>3. \/ m.kind = "request" /\ served' = [served EXCEPT ![p] = Append(@, m.call)]
        \/ m.kind # "request" /\ UNCHANGED served
    BY <2>1 DEF RequestServed, RequestSkipped
  <2>4. UNCHANGED arrived /\ p \in Services /\ stack[p] = <<>>
    BY <1>5 DEF NextRequest, Idle
  <2> QED BY <2>2, <2>3, <2>4 DEF LineShrinks
<1>6. ASSUME NEW p \in Procs, AppReceives(p)
      PROVE  \E n \in 1 .. Len(lines[p]) : LineShrinks(p, n)
  <2>1. PICK n \in 1 .. Len(lines[p]) : n = Len(shelf[p]) + 1 /\ Drops(p, n)
    BY <1>6, TakenMessage
  <2>2. UNCHANGED <<arrived, served>> /\ p \in Clients
    BY <1>6 DEF AppReceives, history
  <2> QED BY <2>1, <2>2 DEF LineShrinks
<1>7. ASSUME NEW p \in Procs, Stash(p) \/ Timeout(p) \/ CallbackReturns(p)
      PROVE  lines' = lines /\ UNCHANGED <<arrived, served>>
  <2>1. UNCHANGED <<arrived, served>>
    BY <1>7 DEF Stash, Timeout, CallbackReturns, history
  <2> QED BY <1>7, <2>1, Stays
<1>8. ASSUME NEW p \in Procs, Invoke(p)
      PROVE  \E r \in Procs, m \in Messages : LineGrows(r, m)
  <2>1. PICK f \in Frames, m \in Messages, to \in Procs : CallbackInvoked(p, f, m, to)
    BY <1>8, InvokeStep
  <2>2. UNCHANGED <<arrived, served>>
    BY <1>8 DEF Invoke, history
  <2>3. LineGrows(to, m)
    BY <2>1, <2>2 DEF CallbackInvoked, LineGrows
  <2> QED BY <2>3
<1>9. ASSUME NEW p \in Procs, Reply(p)
      PROVE  \/ lines' = lines /\ UNCHANGED <<arrived, served>>
             \/ \E r \in Procs, m \in Messages : LineGrows(r, m)
  <2>1. PICK f \in Frames :
          /\ RequestDone(p, f)
          /\ \/ f.ref = NoRef /\ lines' = lines
             \/ \E m \in Messages, to \in Procs : ReplySent(p, f, m, to)
    BY <1>9, ReplyStep
  <2>2. UNCHANGED <<arrived, served>>
    BY <1>9 DEF Reply, history
  <2>3. ASSUME NEW m \in Messages, NEW to \in Procs, ReplySent(p, f, m, to)
        PROVE  LineGrows(to, m)
    BY <2>1, <2>2, <2>3 DEF ReplySent, RequestDone, LineGrows
  <2> QED BY <2>1, <2>2, <2>3
<1>10. CASE UNCHANGED vars
  BY <1>10 DEF vars, mail, history, lines
<1> QED BY <1>1, <1>2, <1>3, <1>4, <1>5, <1>6, <1>7, <1>8, <1>9, <1>10
        DEF Next, Proceed, Begin

\* The calls that are mentioned do not change.
LEMMA MentionedAge ==
  ASSUME DataOK, Ages, MentionsOK, NEW p \in Procs
  PROVE  /\ \A i \in 1 .. Len(lines[p]) :
              /\ lines[p][i].call \in Calls /\ Used(lines[p][i].call)
              /\ call'[lines[p][i].call].context = call[lines[p][i].call].context
         /\ \A i \in 1 .. Len(stack[p]) :
              /\ stack[p][i].call \in Calls /\ Used(stack[p][i].call)
              /\ call'[stack[p][i].call].context = call[stack[p][i].call].context
<1>1. ASSUME NEW i \in 1 .. Len(lines[p])
      PROVE  lines[p][i].call \in Calls /\ Used(lines[p][i].call)
  <2>1. lines[p][i] \in Messages
    BY LinesType, ElementOfSeq
  <2> QED BY <2>1 DEF Messages, MentionsOK, MailOK, MessageOK
<1>2. ASSUME NEW i \in 1 .. Len(stack[p])
      PROVE  stack[p][i].call \in Calls /\ Used(stack[p][i].call)
  <2>1. stack[p][i] \in Frames
    BY ElementOfSeq DEF DataOK
  <2> QED BY <2>1 DEF Frames, MentionsOK, FramesOK, FrameOK
<1> QED BY <1>1, <1>2 DEF Ages

-----------------------------------------------------------------------------
(* Contexts, while no call has timed out.                                  *)

Punctual == \A c \in Calls : call[c].state # "timeout"
\* Mail has the context of its call, the process that of the call it is at,
\* and a call made within another that of the other.
MailInContext == \A p \in Procs : \A i \in 1 .. Len(lines[p]) :
  lines[p][i].context = call[lines[p][i].call].context
TopInContext == \A p \in Procs :
  stack[p] # <<>> /\ Last(stack[p]).what # "call" =>
    context[p] = call[Last(stack[p]).call].context
NestInContext == \A p \in Procs : \A i \in 1 .. Len(stack[p]) :
  i > 1 /\ stack[p][i].what = "call" =>
    call[stack[p][i].call].context = call[stack[p][i - 1].call].context
ContextInv == Punctual => MailInContext /\ TopInContext /\ NestInContext

LEMMA PunctualBefore ==
  ASSUME Inv, [Next]_vars, Punctual'
  PROVE  Punctual
<1> SUFFICES ASSUME NEW c \in Calls, call[c].state = "timeout" PROVE FALSE
  BY DEF Punctual
<1>0. DataOK /\ MentionsOK /\ RefsOK /\ PendingOK
  BY DEF Inv
<1>1. Used(c) /\ call'[c].state # "timeout"
  BY DEF Used, Punctual
<1>2. PICK p \in Procs : CallEnds(p, c)
  BY <1>0, <1>1, StateStep DEF StateStays
<1>3. PICK f \in Frames : OnTop(p, "call", f) /\ f.call = c
  BY <1>2 DEF CallEnds
<1>4. /\ f = stack[p][Len(stack[p])] /\ f.what = "call" /\ Len(stack[p]) \in 1 .. Len(stack[p])
  BY <1>3 DEF OnTop
<1> QED BY <1>0, <1>3, <1>4 DEF PendingOK

LEMMA MailContextStep ==
  ASSUME DataOK, MentionsOK, RefsOK, MailInContext, TopInContext, [Next]_vars
  PROVE  MailInContext'
<1> SUFFICES ASSUME NEW r \in Procs, NEW i \in 1 .. Len(lines'[r])
             PROVE  lines'[r][i].context = call'[lines'[r][i].call].context
  BY DEF MailInContext
<1>0. Ages
  BY CallsAge
<1>1. ASSUME NEW j \in 1 .. Len(lines[r]), lines'[r][i] = lines[r][j]
      PROVE  lines'[r][i].context = call'[lines'[r][i].call].context
  BY <1>0, <1>1, MentionedAge DEF MailInContext
<1>2. CASE lines' = lines
  BY <1>1, <1>2
<1>3. ASSUME NEW p \in Procs, NEW n \in 1 .. Len(lines[p]), LineShrinks(p, n)
      PROVE  lines'[r][i].context = call'[lines'[r][i].call].context
  <2>1. Drops(p, n)
    BY <1>3 DEF LineShrinks
  <2>2. PICK j \in 1 .. Len(lines[r]) : lines'[r][i] = lines[r][j]
    BY <2>1, DroppedAt
  <2> QED BY <1>1, <2>2
<1>4. ASSUME NEW q \in Procs, NEW m \in Messages, LineGrows(q, m)
      PROVE  lines'[r][i].context = call'[lines'[r][i].call].context
  <2>1. Adds(q, m)
    BY <1>4 DEF LineGrows
  <2>2. m.context = call'[m.call].context
    <3>1. ASSUME NEW p \in Procs, NEW f \in Frames, OnTop(p, "serve", f), m.call = f.call,
                 m.context = context[p]
          PROVE  m.context = call'[m.call].context
      <4>1. /\ f = Last(stack[p]) /\ f.what = "serve" /\ stack[p] # <<>> /\ f.call \in Calls
            /\ Used(f.call)
        BY <3>1 DEF OnTop, FrameOK
      <4>2. context[p] = call[f.call].context
        BY <4>1 DEF TopInContext
      <4> QED BY <1>0, <3>1, <4>1, <4>2 DEF Ages
    <3> QED BY <1>4, <3>1 DEF LineGrows
  <2>3. \/ i \in 1 .. Len(lines[r]) /\ lines'[r][i] = lines[r][i]
        \/ r = q /\ i = Len(lines[q]) + 1 /\ lines'[r][i] = m
    BY <2>1, AddedAt
  <2> QED BY <1>1, <2>2, <2>3
<1> QED BY <1>2, <1>3, <1>4, LineStep

LEMMA NestContextStep ==
  ASSUME DataOK, MentionsOK, RefsOK, TopInContext, NestInContext, [Next]_vars
  PROVE  NestInContext'
<1> SUFFICES ASSUME NEW r \in Procs, NEW i \in 1 .. Len(stack'[r]), i > 1,
                    stack'[r][i].what = "call"
             PROVE  call'[stack'[r][i].call].context = call'[stack'[r][i - 1].call].context
  BY DEF NestInContext
<1>0. Ages
  BY CallsAge
<1>1. ASSUME NEW j \in 1 .. Len(stack[r]), j = i, stack'[r][i] = stack[r][i],
             stack'[r][i - 1] = stack[r][i - 1]
      PROVE  call'[stack'[r][i].call].context = call'[stack'[r][i - 1].call].context
  <2>1. i - 1 \in 1 .. Len(stack[r])
    <3>1. Len(stack[r]) \in Nat
      BY LenProperties DEF DataOK
    <3> QED BY <1>1, <3>1
  <2>2. call[stack[r][i].call].context = call[stack[r][i - 1].call].context
    BY <1>1 DEF NestInContext
  <2> QED BY <1>0, <1>1, <2>1, <2>2, MentionedAge
<1>2. CASE stack' = stack
  BY <1>1, <1>2
<1>3. ASSUME NEW p \in Procs, StackShrinks(p)
      PROVE  call'[stack'[r][i].call].context = call'[stack'[r][i - 1].call].context
  <2>1. \A k \in 1 .. Len(stack'[r]) : k \in 1 .. Len(stack[r]) /\ stack'[r][k] = stack[r][k]
    BY <1>3, PoppedAt DEF StackShrinks
  <2>2. i - 1 \in 1 .. Len(stack'[r])
    <3>1. Len(stack'[r]) \in Nat
      BY DataStep, LenProperties DEF DataOK
    <3> QED BY <3>1
  <2> QED BY <1>1, <2>1, <2>2
<1>4. ASSUME NEW p \in Procs, NEW f \in Frames, stack' = Pushed(p, f),
             r # p \/ i # Len(stack[p]) + 1
      PROVE  call'[stack'[r][i].call].context = call'[stack'[r][i - 1].call].context
  <2>1. i \in 1 .. Len(stack[r])
    BY <1>4, FrameWas
  <2>2. /\ \A k \in 1 .. Len(stack[r]) : stack'[r][k] = stack[r][k]
        /\ Len(stack[r]) \in Nat
    BY <1>4, PushedAt
  <2>3. i - 1 \in 1 .. Len(stack[r])
    BY <2>1, <2>2
  <2> QED BY <1>1, <2>1, <2>2, <2>3
<1>5. ASSUME NEW p \in Procs, NEW f \in Frames, StackGrows(p, f), f.what # "call"
      PROVE  call'[stack'[r][i].call].context = call'[stack'[r][i - 1].call].context
  <2>1. stack' = Pushed(p, f)
    BY <1>5 DEF StackGrows
  <2>2. ~(r = p /\ i = Len(stack[p]) + 1)
    BY <1>5, <2>1, PushedAt
  <2> QED BY <1>4, <2>1, <2>2
<1>6. ASSUME NEW p \in Procs, NEW f \in Frames, StackGrows(p, f), f.what = "call"
      PROVE  call'[stack'[r][i].call].context = call'[stack'[r][i - 1].call].context
  <2>2. stack' = Pushed(p, f) /\ call'[f.call].context = context[p] /\ MayCall(p)
    BY <1>6 DEF StackGrows
  <2>3. CASE r = p /\ i = Len(stack[p]) + 1
    <3>1. /\ \A k \in 1 .. Len(stack[p]) : stack'[p][k] = stack[p][k]
          /\ stack'[p][Len(stack[p]) + 1] = f /\ Len(stack[p]) \in Nat
      BY <2>2, PushedAt
    <3>2. i - 1 = Len(stack[p]) /\ Len(stack[p]) \in 1 .. Len(stack[p]) /\ Len(stack[p]) # 0
      BY <2>3, <3>1
    <3>3. stack[p] # <<>>
      BY <3>2, EmptySeq
    <3>4. Doing(p, "serve") \/ Doing(p, "callback")
      BY <2>2, <3>3 DEF MayCall, Idle
    <3>5. Last(stack[p]).what # "call" /\ Last(stack[p]) = stack[p][Len(stack[p])]
      BY <3>3, <3>4, Innermost DEF Doing
    <3>6. context[p] = call[stack[p][Len(stack[p])].call].context
      BY <3>3, <3>5 DEF TopInContext
    <3>7. call'[stack[p][Len(stack[p])].call].context = call[stack[p][Len(stack[p])].call].context
      BY <1>0, <3>2, MentionedAge
    <3>8. stack'[r][i] = f /\ stack'[r][i - 1] = stack[p][Len(stack[p])]
      BY <2>3, <3>1, <3>2
    <3> QED BY <2>2, <3>6, <3>7, <3>8
  <2> QED BY <1>4, <2>2, <2>3
<1> QED BY <1>2, <1>3, <1>5, <1>6, StackStep

LEMMA TopContextStep ==
  ASSUME DataOK, MentionsOK, RefsOK, NestOK, MailInContext, TopInContext, NestInContext,
         Punctual', [Next]_vars
  PROVE  TopInContext'
<1> SUFFICES ASSUME NEW r \in Procs, stack'[r] # <<>>, Last(stack'[r]).what # "call"
             PROVE  context'[r] = call'[Last(stack'[r]).call].context
  BY DEF TopInContext
<1>0. Ages
  BY CallsAge
\* A process that goes on with what it was at, in the same context.
<1>1. ASSUME stack'[r] = stack[r], context'[r] = context[r]
      PROVE  context'[r] = call'[Last(stack'[r]).call].context
  <2>1. Last(stack[r]) = stack[r][Len(stack[r])] /\ Len(stack[r]) \in 1 .. Len(stack[r])
    BY <1>1, Innermost
  <2>2. context[r] = call[Last(stack[r]).call].context
    BY <1>1 DEF TopInContext
  <2> QED BY <1>0, <1>1, <2>1, <2>2, MentionedAge
\* One that takes up a message.
<1>2. ASSUME NEW m \in Messages, NEW n \in 1 .. Len(lines[r]), m = lines[r][n],
             NEW f \in Frames, f.call = m.call, stack' = Pushed(r, f), context'[r] = m.context
      PROVE  context'[r] = call'[Last(stack'[r]).call].context
  <2>1. stack'[r] = Append(stack[r], f)
    BY <1>2 DEF Pushed, DataOK
  <2>2. Last(stack'[r]) = f
    BY <2>1, Pushing DEF DataOK
  <2>3. m.context = call[m.call].context /\ call'[m.call].context = call[m.call].context
    BY <1>0, <1>2, MentionedAge DEF MailInContext
  <2> QED BY <1>2, <2>2, <2>3
\* One that is back at what it was at before.
<1>3. ASSUME stack[r] # <<>>, stack' = Popped(r)
      PROVE  /\ Len(stack[r]) \in Nat /\ Len(stack[r]) > 1
             /\ Len(stack[r]) \in 1 .. Len(stack[r])
             /\ Last(stack'[r]) = stack[r][Len(stack[r]) - 1]
             /\ Len(stack[r]) - 1 \in 1 .. Len(stack[r])
  <2>1. Len(stack[r]) \in Nat \ {0}
    BY <1>3, Innermost
  <2>2. /\ \A k \in 1 .. Len(stack'[r]) : stack'[r][k] = stack[r][k]
        /\ Len(stack'[r]) = Len(stack[r]) - 1
    BY <1>3, PoppedAt
  <2>3. stack'[r] \in Seq(Frames)
    BY DataStep DEF DataOK
  <2>4. Len(stack'[r]) \in Nat \ {0} /\ Last(stack'[r]) = stack'[r][Len(stack'[r])]
    BY <2>3, Popping
  <2>5. Len(stack[r]) > 1 /\ Len(stack[r]) - 1 \in 1 .. Len(stack'[r])
        /\ Len(stack[r]) - 1 \in 1 .. Len(stack[r])
    BY <2>1, <2>2, <2>4
  <2> QED BY <2>1, <2>2, <2>4, <2>5
<1>4. ASSUME NEW p \in Procs, p # r, stack' = Popped(p) \/ (\E f \in Frames : stack' = Pushed(p, f))
      PROVE  stack'[r] = stack[r]
  BY <1>4 DEF Popped, Pushed, DataOK
<1>5. ASSUME NEW p \in Procs, NEW q \in Procs, NEW c \in Calls,
             NEW timed \in BOOLEAN, NEW lend \in BOOLEAN, Call(p, q, c, timed, lend)
      PROVE  context'[r] = call'[Last(stack'[r]).call].context
  <2>1. PICK ref \in Nat, id \in Nat, m \in Messages, f \in Frames :
          CallMade(p, q, c, timed, ref, id, m, f)
    BY <1>5, CallStep
  <2>2. stack' = Pushed(p, f) /\ f.what = "call"
    BY <2>1 DEF CallMade
  <2>3. context' = context
    BY <1>5 DEF Call
  <2>4. CASE p = r
    <3>1. stack'[r] = Append(stack[r], f)
      BY <2>2, <2>4 DEF Pushed, DataOK
    <3>2. Last(stack'[r]) = f
      BY <3>1, Pushing DEF DataOK
    <3> QED BY <2>2, <3>2
  <2> QED BY <1>1, <1>4, <2>2, <2>3, <2>4
<1>6. ASSUME NEW p \in Procs, TakeReply(p)
      PROVE  context'[r] = call'[Last(stack'[r]).call].context
  <2>1. PICK f \in Frames, m \in Messages, n \in 1 .. Len(lines[p]) : ReplyTaken(p, f, m, n)
    BY <1>6, TakeReplyStep
  <2>2. /\ f = stack[p][Len(stack[p])] /\ f.what = "call" /\ stack[p] # <<>> /\ stack' = Popped(p)
        /\ m = lines[p][n] /\ m.call = f.call /\ context'[p] = m.context
        /\ \A q \in Procs \ {p} : context'[q] = context[q]
    BY <2>1 DEF ReplyTaken, OnTop
  <2>3. CASE p = r
    <3>1. /\ Len(stack[r]) > 1 /\ Len(stack[r]) \in 1 .. Len(stack[r])
          /\ Last(stack'[r]) = stack[r][Len(stack[r]) - 1]
          /\ Len(stack[r]) - 1 \in 1 .. Len(stack[r])
      BY <1>3, <2>2, <2>3
    <3>2. call[f.call].context = call[stack[r][Len(stack[r]) - 1].call].context
      BY <2>2, <2>3, <3>1 DEF NestInContext
    <3>3. m.context = call[f.call].context
      BY <2>2, <2>3 DEF MailInContext
    <3>4. call'[stack[r][Len(stack[r]) - 1].call].context
            = call[stack[r][Len(stack[r]) - 1].call].context
      BY <1>0, <3>1, MentionedAge
    <3> QED BY <2>2, <2>3, <3>1, <3>2, <3>3, <3>4
  <2>4. CASE p # r
    <3>1. stack'[r] = stack[r]
      BY <1>4, <2>2, <2>4
    <3> QED BY <1>1, <2>2, <2>4, <3>1
  <2> QED BY <2>3, <2>4
<1>7. ASSUME NEW p \in Procs, Timeout(p) PROVE FALSE
  <2>1. PICK f \in Frames : CallLate(p, f)
    BY <1>7, TimeoutStep
  <2>2. f.call \in Calls /\ call' = [call EXCEPT ![f.call].state = "timeout", ![f.call].answer = 0]
    BY <2>1 DEF CallLate, OnTop
  <2>3. call'[f.call].state = "timeout"
    BY <2>2 DEF DataOK, CallRecords
  <2> QED BY <2>2, <2>3 DEF Punctual
<1>8. ASSUME NEW p \in Procs, TakeCallback(p)
      PROVE  context'[r] = call'[Last(stack'[r]).call].context
  <2>1. PICK m \in Messages, n \in 1 .. Len(lines[p]) :
          /\ CallbackTaken(p, m, n)
          /\ (\E f \in Frames : CallbackRuns(p, m, f)) \/ CallbackLost(p, m)
    BY <1>8, TakeCallbackStep
  <2>2. /\ m = lines[p][n] /\ context'[p] = m.context
        /\ \A q \in Procs \ {p} : context'[q] = context[q]
    BY <2>1 DEF CallbackTaken
  <2>3. (\E f \in Frames : f.call = m.call /\ stack' = Pushed(p, f)) \/ stack' = stack
    BY <2>1 DEF CallbackRuns, CallbackLost
  <2>4. CASE p # r
    <3>1. stack'[r] = stack[r]
      BY <1>4, <2>3, <2>4
    <3> QED BY <1>1, <2>2, <2>4, <3>1
  <2>5. CASE p = r /\ stack' = stack
    BY <1>8, <2>5 DEF TakeCallback, Doing
  <2> QED BY <1>2, <2>2, <2>3, <2>4, <2>5
<1>9. ASSUME NEW p \in Procs, NextRequest(p)
      PROVE  context'[r] = call'[Last(stack'[r]).call].context
  <2>1. PICK m \in Messages, n \in 1 .. Len(lines[p]) :
          /\ RequestTaken(p, m, n)
          /\ (\E f \in Frames : RequestServed(p, m, f)) \/ RequestSkipped(m)
    BY <1>9, NextRequestStep
  <2>2. /\ m = lines[p][n] /\ context'[p] = m.context
        /\ \A q \in Procs \ {p} : context'[q] = context[q]
    BY <2>1 DEF RequestTaken
  <2>3. (\E f \in Frames : f.call = m.call /\ stack' = Pushed(p, f)) \/ stack' = stack
    BY <2>1 DEF RequestServed, RequestSkipped
  <2>4. CASE p # r
    <3>1. stack'[r] = stack[r]
      BY <1>4, <2>3, <2>4
    <3> QED BY <1>1, <2>2, <2>4, <3>1
  <2>5. CASE p = r /\ stack' = stack
    BY <1>9, <2>5 DEF NextRequest, Idle
  <2> QED BY <1>2, <2>2, <2>3, <2>4, <2>5
\* Below a callback is the call in which it came; below a handler is nothing.
<1>10. ASSUME NEW p \in Procs, CallbackReturns(p) \/ Reply(p)
       PROVE  context'[r] = call'[Last(stack'[r]).call].context
  <2>1. stack' = Popped(p) /\ context' = context /\ stack[p] # <<>>
    BY <1>10 DEF CallbackReturns, Reply, Doing
  <2>2. CASE p = r
    <3>1. /\ Len(stack[r]) > 1 /\ Len(stack[r]) \in 1 .. Len(stack[r])
          /\ Last(stack'[r]) = stack[r][Len(stack[r]) - 1]
      BY <1>3, <2>1, <2>2
    <3>2. stack[r][Len(stack[r])].what \in {"serve", "callback"}
      BY <1>10, <2>1, <2>2, Innermost DEF CallbackReturns, Reply, Doing
    <3>3. stack[r][Len(stack[r]) - 1].what = "call"
      BY <3>1, <3>2 DEF NestOK
    <3> QED BY <3>1, <3>3
  <2>3. CASE p # r
    BY <1>1, <1>4, <2>1, <2>3
  <2> QED BY <2>2, <2>3
<1>11. ASSUME NEW p \in Procs, Stash(p) \/ AppReceives(p)
       PROVE  context'[r] = call'[Last(stack'[r]).call].context
  <2>1. stack' = stack /\ Receive(p)
    BY <1>11 DEF Stash, AppReceives
  <2>2. CASE p = r
    BY <1>11, <2>1, <2>2 DEF Stash, AppReceives, Doing, Idle
  <2>3. CASE p # r
    <3>1. context'[r] = context[r]
      BY <2>1, <2>3, Received
    <3> QED BY <1>1, <2>1, <3>1
  <2> QED BY <2>2, <2>3
<1>12. ASSUME UNCHANGED <<stack, context>>
       PROVE  context'[r] = call'[Last(stack'[r]).call].context
  BY <1>1, <1>12
<1>13. ASSUME NEW p \in Procs, Invoke(p) \/ (\E q \in Procs, c \in Calls : Cast(p, q, c))
       PROVE  UNCHANGED <<stack, context>>
  BY <1>13 DEF Invoke, Cast
<1>14. CASE UNCHANGED vars
  BY <1>12, <1>14 DEF vars
<1> QED BY <1>5, <1>6, <1>7, <1>8, <1>9, <1>10, <1>11, <1>12, <1>13, <1>14
        DEF Next, Proceed, Begin

LEMMA ContextInit == Init => ContextInv
<1> SUFFICES ASSUME Init PROVE ContextInv
  OBVIOUS
<1>1. \A p \in Procs : queue[p] = <<>> /\ shelf[p] = <<>> /\ stack[p] = <<>>
  BY DEF Init
<1>2. <<>> \o <<>> = <<>> /\ Len(<<>>) = 0 /\ 1 .. 0 = {}
  <2>1. <<>> \in Seq(Messages)
    BY EmptySeq
  <2> QED BY <2>1, ConcatEmptySeq
<1>3. \A p \in Procs : lines[p] = <<>>
  BY <1>1, <1>2 DEF lines
<1> QED BY <1>1, <1>2, <1>3 DEF ContextInv, MailInContext, TopInContext, NestInContext

LEMMA ContextStep == Inv /\ ContextInv /\ [Next]_vars => ContextInv'
<1> SUFFICES ASSUME Inv, ContextInv, [Next]_vars, Punctual'
             PROVE  (MailInContext /\ TopInContext /\ NestInContext)'
  BY DEF ContextInv
<1>1. MailInContext /\ TopInContext /\ NestInContext
  BY PunctualBefore DEF ContextInv
<1> QED BY <1>1, MailContextStep, TopContextStep, NestContextStep DEF Inv

\* A handler runs in the context of the request it handles, also after calls of
\* its own, whoever calls whom meanwhile (actor.rs:387-399), as long as none of
\* the calls timed out.
THEOREM HandlersRunInContext == Spec => []ContextFollowsRequest
<1>1. ContextInv => ContextFollowsRequest
  <2> SUFFICES ASSUME ContextInv, \A c \in Calls : call[c].state # "timeout",
                      NEW p \in Services, Doing(p, "serve")
               PROVE  context[p] = call[Last(stack[p]).call].context
    BY DEF ContextFollowsRequest, HandlesInContext
  <2>1. p \in Procs /\ stack[p] # <<>> /\ Last(stack[p]).what # "call"
    BY DEF Procs, Doing
  <2> QED BY <2>1 DEF ContextInv, Punctual, TopInContext
<1>2. Init => ContextInv
  BY ContextInit
<1>3. Inv /\ ContextInv /\ [Next]_vars => ContextInv'
  BY ContextStep
<1> QED BY <1>1, <1>2, <1>3, Invariance, PTL DEF Spec

-----------------------------------------------------------------------------
(* The requests to a service: line L, those that arrived A, those served S. *)

Waits(L, i, c) == L[i].kind = "request" /\ L[i].call = c
InStep(L, A, S) ==
  /\ Len(S) <= Len(A) /\ \A k \in 1 .. Len(S) : S[k] = A[k]
  /\ \A i \in 1 .. Len(L) : L[i].kind = "request" =>
       \E k \in 1 .. Len(A) : k > Len(S) /\ A[k] = L[i].call
  /\ \A k \in 1 .. Len(A) : k > Len(S) => \E i \in 1 .. Len(L) : Waits(L, i, A[k])
  /\ \A i, j \in 1 .. Len(L), k, l \in 1 .. Len(A) :
       i < j /\ Waits(L, i, A[k]) /\ Waits(L, j, A[l]) => k < l

LEMMA RequestJoins ==
  ASSUME NEW L \in Seq(Messages), NEW A \in Seq(Calls), NEW S \in Seq(Calls), InStep(L, A, S),
         NEW m \in Messages, m.kind = "request",
         \A k \in 1 .. Len(A) : A[k] # m.call, \A i \in 1 .. Len(L) : L[i].call # m.call
  PROVE  InStep(Append(L, m), Append(A, m.call), S)
<1> DEFINE B == Append(A, m.call)
           M == Append(L, m)
<1>1. m.call \in Calls
  BY DEF Messages
<1>2. /\ Len(A) \in Nat /\ Len(B) = Len(A) + 1 /\ B[Len(A) + 1] = m.call
      /\ \A k \in 1 .. Len(A) : B[k] = A[k]
  BY <1>1, Pushing
<1>3. /\ Len(L) \in Nat /\ Len(M) = Len(L) + 1 /\ M[Len(L) + 1] = m
      /\ \A i \in 1 .. Len(L) : M[i] = L[i]
  BY Pushing
<1>4. Len(S) \in Nat
  BY LenProperties
<1> HIDE DEF B, M
<1>5. Len(S) <= Len(B) /\ \A k \in 1 .. Len(S) : S[k] = B[k]
  <2>1. Len(S) <= Len(A) /\ \A k \in 1 .. Len(S) : S[k] = A[k]
    BY DEF InStep
  <2>2. \A k \in 1 .. Len(S) : k \in 1 .. Len(A)
    BY <1>2, <1>4, <2>1
  <2> QED BY <1>2, <1>4, <2>1, <2>2
<1>6. ASSUME NEW i \in 1 .. Len(M), M[i].kind = "request"
      PROVE  \E k \in 1 .. Len(B) : k > Len(S) /\ B[k] = M[i].call
  <2>1. CASE i \in 1 .. Len(L)
    <3>1. PICK k \in 1 .. Len(A) : k > Len(S) /\ A[k] = L[i].call
      BY <1>3, <1>6, <2>1 DEF InStep
    <3>2. k \in 1 .. Len(B)
      BY <1>2
    <3> QED BY <1>2, <1>3, <2>1, <3>1, <3>2
  <2>2. CASE i = Len(L) + 1
    <3>1. Len(A) + 1 > Len(S) /\ Len(A) + 1 \in 1 .. Len(B)
      BY <1>2, <1>4 DEF InStep
    <3> QED BY <1>2, <1>3, <2>2, <3>1
  <2>3. i \in 1 .. Len(L) \/ i = Len(L) + 1
    BY <1>3
  <2> QED BY <2>1, <2>2, <2>3
<1>7. ASSUME NEW k \in 1 .. Len(B), k > Len(S)
      PROVE  \E i \in 1 .. Len(M) : Waits(M, i, B[k])
  <2>1. CASE k \in 1 .. Len(A)
    <3>1. PICK i \in 1 .. Len(L) : Waits(L, i, A[k])
      BY <1>7, <2>1 DEF InStep
    <3>2. i \in 1 .. Len(M)
      BY <1>3
    <3> QED BY <1>2, <1>3, <2>1, <3>1, <3>2 DEF Waits
  <2>2. CASE k = Len(A) + 1
    <3>1. Len(L) + 1 \in 1 .. Len(M)
      BY <1>3
    <3> QED BY <1>2, <1>3, <2>2, <3>1 DEF Waits
  <2>3. k \in 1 .. Len(A) \/ k = Len(A) + 1
    BY <1>2
  <2> QED BY <2>1, <2>2, <2>3
<1>8. ASSUME NEW i \in 1 .. Len(M), NEW j \in 1 .. Len(M), NEW k \in 1 .. Len(B),
             NEW l \in 1 .. Len(B), i < j, Waits(M, i, B[k]), Waits(M, j, B[l])
      PROVE  k < l
  <2>1. i \in 1 .. Len(L)
    BY <1>3, <1>8
  <2>2. k \in 1 .. Len(A)
    <3>1. B[k] # m.call
      BY <1>3, <1>8, <2>1 DEF Waits
    <3>2. k # Len(A) + 1
      BY <1>2, <3>1
    <3> QED BY <1>2, <3>2
  <2>3. CASE l = Len(A) + 1
    BY <1>2, <2>2, <2>3
  <2>4. CASE l # Len(A) + 1
    <3>1. l \in 1 .. Len(A)
      BY <1>2, <2>4
    <3>2. j # Len(L) + 1
      BY <1>2, <1>3, <1>8, <3>1 DEF Waits
    <3>3. j \in 1 .. Len(L)
      BY <1>3, <3>2
    <3>4. Waits(L, i, A[k]) /\ Waits(L, j, A[l])
      BY <1>2, <1>3, <1>8, <2>1, <2>2, <3>1, <3>3 DEF Waits
    <3> QED BY <1>8, <2>1, <2>2, <3>1, <3>3, <3>4 DEF InStep
  <2> QED BY <2>3, <2>4
<1>9. InStep(M, B, S)
  BY <1>5, <1>6, <1>7, <1>8 DEF InStep
<1> QED BY <1>9 DEF M, B

LEMMA OtherJoins ==
  ASSUME NEW L \in Seq(Messages), NEW A \in Seq(Calls), NEW S \in Seq(Calls), InStep(L, A, S),
         NEW m \in Messages, m.kind # "request"
  PROVE  InStep(Append(L, m), A, S)
<1> DEFINE M == Append(L, m)
<1>1. /\ Len(L) \in Nat /\ Len(M) = Len(L) + 1 /\ M[Len(L) + 1] = m
      /\ \A i \in 1 .. Len(L) : M[i] = L[i]
  BY Pushing
<1> HIDE DEF M
<1>2. ASSUME NEW i \in 1 .. Len(M), M[i].kind = "request"
      PROVE  i \in 1 .. Len(L) /\ M[i] = L[i]
  <2>1. i # Len(L) + 1
    BY <1>1, <1>2
  <2> QED BY <1>1, <2>1
<1>3. ASSUME NEW k \in 1 .. Len(A), k > Len(S)
      PROVE  \E i \in 1 .. Len(M) : Waits(M, i, A[k])
  <2>1. PICK i \in 1 .. Len(L) : Waits(L, i, A[k])
    BY <1>3 DEF InStep
  <2>2. i \in 1 .. Len(M)
    BY <1>1
  <2> QED BY <1>1, <2>1, <2>2 DEF Waits
<1>4. ASSUME NEW i \in 1 .. Len(M), NEW j \in 1 .. Len(M), NEW k \in 1 .. Len(A),
             NEW l \in 1 .. Len(A), i < j, Waits(M, i, A[k]), Waits(M, j, A[l])
      PROVE  k < l
  <2>1. i \in 1 .. Len(L) /\ j \in 1 .. Len(L) /\ Waits(L, i, A[k]) /\ Waits(L, j, A[l])
    BY <1>2, <1>4 DEF Waits
  <2> QED BY <1>4, <2>1 DEF InStep
<1>5. ASSUME NEW i \in 1 .. Len(M), M[i].kind = "request"
      PROVE  \E k \in 1 .. Len(A) : k > Len(S) /\ A[k] = M[i].call
  BY <1>2, <1>5 DEF InStep
<1>6. InStep(M, A, S)
  BY <1>3, <1>4, <1>5 DEF InStep
<1> QED BY <1>6 DEF M

\* Where those that stay were, and where they are.
LEMMA RemovedAt ==
  ASSUME NEW L \in Seq(Messages), NEW n \in 1 .. Len(L)
  PROVE  /\ \A i \in 1 .. Len(RemoveAt(L, n)) : \E j \in 1 .. Len(L) :
              /\ RemoveAt(L, n)[i] = L[j] /\ j = (IF i < n THEN i ELSE i + 1) /\ j # n
         /\ \A j \in 1 .. Len(L) : j # n =>
              \E i \in 1 .. Len(RemoveAt(L, n)) : RemoveAt(L, n)[i] = L[j]
<1> DEFINE M == RemoveAt(L, n)
<1>1. /\ Len(L) \in Nat /\ Len(M) = Len(L) - 1
      /\ \A i \in 1 .. Len(L) - 1 : M[i] = IF i < n THEN L[i] ELSE L[i + 1]
  BY Removing
<1> HIDE DEF M
<1>2. ASSUME NEW i \in 1 .. Len(M)
      PROVE  \E j \in 1 .. Len(L) : M[i] = L[j] /\ j = (IF i < n THEN i ELSE i + 1) /\ j # n
  <2>1. CASE i < n
    BY <1>1, <2>1
  <2>2. CASE ~(i < n)
    <3>1. i + 1 \in 1 .. Len(L) /\ i + 1 # n /\ M[i] = L[i + 1]
      BY <1>1, <2>2
    <3> QED BY <2>2, <3>1
  <2> QED BY <2>1, <2>2
<1>3. ASSUME NEW j \in 1 .. Len(L), j # n
      PROVE  \E i \in 1 .. Len(M) : M[i] = L[j]
  <2>1. CASE j < n
    BY <1>1, <2>1
  <2>2. CASE ~(j < n)
    <3>1. j - 1 \in 1 .. Len(M) /\ ~(j - 1 < n) /\ (j - 1) + 1 = j
      BY <1>1, <1>3, <2>2
    <3>2. M[j - 1] = L[j]
      BY <1>1, <3>1
    <3> QED BY <3>1, <3>2
  <2> QED BY <2>1, <2>2
<1> QED BY <1>2, <1>3 DEF M

LEMMA OrderStays ==
  ASSUME NEW L \in Seq(Messages), NEW A \in Seq(Calls), NEW S \in Seq(Calls), InStep(L, A, S),
         NEW n \in 1 .. Len(L),
         NEW i \in 1 .. Len(RemoveAt(L, n)), NEW j \in 1 .. Len(RemoveAt(L, n)),
         NEW k \in 1 .. Len(A), NEW l \in 1 .. Len(A),
         i < j, Waits(RemoveAt(L, n), i, A[k]), Waits(RemoveAt(L, n), j, A[l])
  PROVE  k < l
<1>0. \A x \in 1 .. Len(RemoveAt(L, n)) : \E y \in 1 .. Len(L) :
        /\ RemoveAt(L, n)[x] = L[y] /\ y = (IF x < n THEN x ELSE x + 1) /\ y # n
  BY RemovedAt
<1>1. PICK a \in 1 .. Len(L) :
        RemoveAt(L, n)[i] = L[a] /\ a = (IF i < n THEN i ELSE i + 1) /\ a # n
  BY <1>0
<1>2. PICK b \in 1 .. Len(L) :
        RemoveAt(L, n)[j] = L[b] /\ b = (IF j < n THEN j ELSE j + 1) /\ b # n
  BY <1>0
<1>3. Waits(L, a, A[k]) /\ Waits(L, b, A[l])
  BY <1>1, <1>2 DEF Waits
<1>4. Len(RemoveAt(L, n)) \in Nat /\ Len(L) \in Nat
  BY Removing, LenProperties
<1>5. a < b
  BY <1>1, <1>2, <1>4
<1> QED BY <1>3, <1>5 DEF InStep

LEMMA OtherLeaves ==
  ASSUME NEW L \in Seq(Messages), NEW A \in Seq(Calls), NEW S \in Seq(Calls), InStep(L, A, S),
         NEW n \in 1 .. Len(L), L[n].kind # "request"
  PROVE  InStep(RemoveAt(L, n), A, S)
<1> DEFINE M == RemoveAt(L, n)
<1>1. /\ \A i \in 1 .. Len(M) : \E j \in 1 .. Len(L) : M[i] = L[j]
      /\ \A j \in 1 .. Len(L) : j # n => \E i \in 1 .. Len(M) : M[i] = L[j]
  BY RemovedAt
<1>2. ASSUME NEW i \in 1 .. Len(M), NEW j \in 1 .. Len(M), NEW k \in 1 .. Len(A),
             NEW l \in 1 .. Len(A), i < j, Waits(M, i, A[k]), Waits(M, j, A[l])
      PROVE  k < l
  BY <1>2, OrderStays
<1> HIDE DEF M
<1>3. ASSUME NEW i \in 1 .. Len(M), M[i].kind = "request"
      PROVE  \E k \in 1 .. Len(A) : k > Len(S) /\ A[k] = M[i].call
  <2>1. PICK j \in 1 .. Len(L) : M[i] = L[j]
    BY <1>1
  <2> QED BY <1>3, <2>1 DEF InStep
<1>4. ASSUME NEW k \in 1 .. Len(A), k > Len(S)
      PROVE  \E i \in 1 .. Len(M) : Waits(M, i, A[k])
  <2>1. PICK j \in 1 .. Len(L) : Waits(L, j, A[k])
    BY <1>4 DEF InStep
  <2>2. j # n
    BY <2>1 DEF Waits
  <2> QED BY <1>1, <2>1, <2>2 DEF Waits
<1>5. InStep(M, A, S)
  BY <1>2, <1>3, <1>4 DEF InStep
<1> QED BY <1>5 DEF M

LEMMA FirstIsServed ==
  ASSUME NEW L \in Seq(Messages), NEW A \in Seq(Calls), NEW S \in Seq(Calls), InStep(L, A, S),
         1 \in 1 .. Len(L), L[1].kind = "request",
         \A k, l \in 1 .. Len(A) : k # l => A[k] # A[l]
  PROVE  InStep(RemoveAt(L, 1), A, Append(S, L[1].call))
<1> DEFINE M == RemoveAt(L, 1)
           T == Append(S, L[1].call)
<1>0. L[1].call \in Calls
  <2>1. L[1] \in Messages
    BY ElementOfSeq
  <2> QED BY <2>1 DEF Messages
<1>1. /\ Len(S) \in Nat /\ Len(T) = Len(S) + 1 /\ T[Len(S) + 1] = L[1].call
      /\ \A k \in 1 .. Len(S) : T[k] = S[k]
  BY <1>0, Pushing
<1>2. /\ \A i \in 1 .. Len(M) : \E j \in 1 .. Len(L) :
           M[i] = L[j] /\ j = (IF i < 1 THEN i ELSE i + 1) /\ j # 1
      /\ \A j \in 1 .. Len(L) : j # 1 => \E i \in 1 .. Len(M) : M[i] = L[j]
  BY RemovedAt
<1>3. ASSUME NEW i \in 1 .. Len(M), NEW j \in 1 .. Len(M), NEW k \in 1 .. Len(A),
             NEW l \in 1 .. Len(A), i < j, Waits(M, i, A[k]), Waits(M, j, A[l])
      PROVE  k < l
  BY <1>3, OrderStays
<1> HIDE DEF M, T
<1>4. Len(A) \in Nat /\ Len(L) \in Nat /\ Len(S) <= Len(A)
  BY LenProperties DEF InStep
\* The first request in the line is the next of those that arrived.
<1>5. PICK k1 \in 1 .. Len(A) : k1 > Len(S) /\ A[k1] = L[1].call
  BY DEF InStep
<1>6. k1 = Len(S) + 1
  <2>1. Len(S) + 1 \in 1 .. Len(A) /\ Len(S) + 1 > Len(S)
    BY <1>1, <1>4, <1>5
  <2>2. PICK i \in 1 .. Len(L) : Waits(L, i, A[Len(S) + 1])
    BY <2>1 DEF InStep
  <2>3. CASE i = 1
    BY <1>5, <2>1, <2>2, <2>3 DEF Waits
  <2>4. CASE i # 1
    <3>1. 1 < i
      BY <1>4, <2>4
    <3>2. Waits(L, 1, A[k1])
      BY <1>5 DEF Waits
    <3>3. k1 < Len(S) + 1
      BY <2>1, <2>2, <3>1, <3>2 DEF InStep
    <3> QED BY <1>1, <1>5, <3>3
  <2> QED BY <2>3, <2>4
<1>7. Len(T) <= Len(A) /\ \A k \in 1 .. Len(T) : T[k] = A[k]
  <2>1. Len(T) <= Len(A)
    BY <1>1, <1>4, <1>5, <1>6
  <2>2. ASSUME NEW k \in 1 .. Len(T) PROVE T[k] = A[k]
    <3>1. CASE k = Len(S) + 1
      BY <1>1, <1>5, <1>6, <3>1
    <3>2. CASE k # Len(S) + 1
      <4>1. k \in 1 .. Len(S)
        BY <1>1, <3>2
      <4> QED BY <1>1, <4>1 DEF InStep
    <3> QED BY <3>1, <3>2
  <2> QED BY <2>1, <2>2
<1>8. ASSUME NEW i \in 1 .. Len(M), M[i].kind = "request"
      PROVE  \E k \in 1 .. Len(A) : k > Len(T) /\ A[k] = M[i].call
  <2>1. PICK j \in 1 .. Len(L) : M[i] = L[j] /\ j # 1
    BY <1>2
  <2>2. PICK k \in 1 .. Len(A) : k > Len(S) /\ A[k] = L[j].call
    BY <1>8, <2>1 DEF InStep
  <2>3. 1 < j /\ Waits(L, 1, A[k1]) /\ Waits(L, j, A[k])
    BY <1>4, <1>5, <1>8, <2>1, <2>2 DEF Waits
  <2>4. k1 < k
    BY <2>3 DEF InStep
  <2>5. k > Len(T)
    BY <1>1, <1>6, <2>4
  <2> QED BY <2>1, <2>2, <2>5
<1>9. ASSUME NEW k \in 1 .. Len(A), k > Len(T)
      PROVE  \E i \in 1 .. Len(M) : Waits(M, i, A[k])
  <2>1. k > Len(S) /\ k # k1
    BY <1>1, <1>6, <1>9
  <2>2. PICK j \in 1 .. Len(L) : Waits(L, j, A[k])
    BY <2>1 DEF InStep
  <2>3. j # 1
    BY <1>5, <2>1, <2>2 DEF Waits
  <2>4. PICK i \in 1 .. Len(M) : M[i] = L[j]
    BY <1>2, <2>3
  <2> QED BY <2>2, <2>4 DEF Waits
<1>10. InStep(M, A, T)
  BY <1>3, <1>7, <1>8, <1>9 DEF InStep
<1> QED BY <1>10 DEF M, T

\* Calls arrive once each.
ArrivedOK ==
  /\ \A p \in Procs : \A k \in 1 .. Len(arrived[p]) : Used(arrived[p][k])
  /\ \A p \in Procs : \A k, l \in 1 .. Len(arrived[p]) : k # l => arrived[p][k] # arrived[p][l]
ServedInv == ArrivedOK /\ \A p \in Services : InStep(lines[p], arrived[p], served[p])

LEMMA ServedInit == Init => ServedInv
<1> SUFFICES ASSUME Init PROVE ServedInv
  OBVIOUS
<1>1. \A p \in Procs : arrived[p] = <<>> /\ served[p] = <<>> /\ queue[p] = <<>> /\ shelf[p] = <<>>
  BY DEF Init
<1>2. ASSUME NEW p \in Procs PROVE lines[p] = <<>>
  <2>1. <<>> \o <<>> = <<>>
    <3>1. <<>> \in Seq(Messages)
      BY EmptySeq
    <3> QED BY <3>1, ConcatEmptySeq
  <2> QED BY <1>1, <2>1 DEF lines
<1>3. Len(<<>>) = 0 /\ 1 .. 0 = {} /\ 0 <= 0
  OBVIOUS
<1>4. ASSUME NEW p \in Services PROVE InStep(lines[p], arrived[p], served[p])
  <2>1. p \in Procs
    BY DEF Procs
  <2>2. lines[p] = <<>> /\ arrived[p] = <<>> /\ served[p] = <<>>
    BY <1>1, <1>2, <2>1
  <2> QED BY <1>3, <2>2 DEF InStep
<1> QED BY <1>1, <1>3, <1>4 DEF ServedInv, ArrivedOK

LEMMA ArrivedStep ==
  ASSUME DataOK, MentionsOK, RefsOK, ArrivedOK, [Next]_vars
  PROVE  ArrivedOK'
<1>0. Ages /\ arrived \in [Procs -> Seq(Calls)]
  BY CallsAge DEF DataOK
<1>1. ASSUME NEW p \in Procs, NEW k \in 1 .. Len(arrived[p])
      PROVE  call'[arrived[p][k]].state # "none"
  <2>1. arrived[p][k] \in Calls
    BY <1>0, ElementOfSeq
  <2>2. Used(arrived[p][k])
    BY DEF ArrivedOK
  <2> QED BY <1>0, <2>1, <2>2 DEF Ages, Used
<1>2. CASE arrived' = arrived
  BY <1>1, <1>2 DEF ArrivedOK, Used
<1>3. ASSUME NEW r \in Procs, NEW c \in Calls, ~Used(c), Used(c)',
             arrived' = [arrived EXCEPT ![r] = Append(arrived[r], c)]
      PROVE  ArrivedOK'
  <2>1. /\ Len(arrived[r]) \in Nat /\ Len(arrived'[r]) = Len(arrived[r]) + 1
        /\ arrived'[r][Len(arrived[r]) + 1] = c
        /\ \A k \in 1 .. Len(arrived[r]) : arrived'[r][k] = arrived[r][k]
    BY <1>0, <1>3, Pushing
  <2>2. \A p \in Procs \ {r} : arrived'[p] = arrived[p]
    BY <1>0, <1>3
  <2>3. \A k \in 1 .. Len(arrived[r]) : arrived[r][k] # c
    BY <1>3 DEF ArrivedOK
  <2>4. ASSUME NEW p \in Procs, NEW k \in 1 .. Len(arrived'[p]) PROVE Used(arrived[p][k])'
    <3>1. CASE p # r
      BY <1>1, <2>2, <3>1 DEF Used
    <3>2. CASE p = r /\ k \in 1 .. Len(arrived[r])
      BY <1>1, <2>1, <3>2 DEF Used
    <3>3. CASE p = r /\ k = Len(arrived[r]) + 1
      BY <1>3, <2>1, <3>3 DEF Used
    <3> QED BY <2>1, <3>1, <3>2, <3>3
  <2>5. ASSUME NEW p \in Procs, NEW k \in 1 .. Len(arrived'[p]), NEW l \in 1 .. Len(arrived'[p]),
               k # l
        PROVE  arrived'[p][k] # arrived'[p][l]
    <3>1. CASE p # r
      BY <2>2, <2>5, <3>1 DEF ArrivedOK
    <3>2. CASE p = r /\ k \in 1 .. Len(arrived[r]) /\ l \in 1 .. Len(arrived[r])
      BY <2>1, <2>5, <3>2 DEF ArrivedOK
    <3>3. CASE p = r /\ (k = Len(arrived[r]) + 1 \/ l = Len(arrived[r]) + 1)
      <4>1. (k = Len(arrived[r]) + 1 /\ l \in 1 .. Len(arrived[r]))
            \/ (l = Len(arrived[r]) + 1 /\ k \in 1 .. Len(arrived[r]))
        BY <2>1, <2>5, <3>3
      <4> QED BY <2>1, <2>3, <3>3, <4>1
    <3>4. p = r => k \in 1 .. Len(arrived[r]) + 1 /\ l \in 1 .. Len(arrived[r]) + 1
      BY <2>1
    <3> QED BY <2>1, <3>1, <3>2, <3>3, <3>4
  <2> QED BY <2>4, <2>5 DEF ArrivedOK
<1>4. ASSUME NEW r \in Procs, NEW m \in Messages, LineGrows(r, m) PROVE ArrivedOK'
  <2>1. m.call \in Calls
    BY DEF Messages
  <2>2. arrived' = arrived \/ (~Used(m.call) /\ Used(m.call)'
                                /\ arrived' = [arrived EXCEPT ![r] = Append(arrived[r], m.call)])
    BY <1>4 DEF LineGrows
  <2>3. Used(m.call)' => call'[m.call].state # "none"
    BY DEF Used
  <2> QED BY <1>2, <1>3, <2>1, <2>2
<1> QED BY <1>2, <1>4, LineStep DEF LineShrinks

LEMMA ServedStep == Inv /\ ServedInv /\ [Next]_vars => ServedInv'
<1> SUFFICES ASSUME Inv, ServedInv, [Next]_vars PROVE ServedInv'
  OBVIOUS
<1>0. /\ DataOK /\ MentionsOK /\ RefsOK /\ StashOK /\ ArrivedOK /\ Ages
      /\ lines \in [Procs -> Seq(Messages)]
      /\ arrived \in [Procs -> Seq(Calls)] /\ served \in [Procs -> Seq(Calls)]
  BY CallsAge, LinesType DEF Inv, ServedInv, DataOK
<1> SUFFICES ASSUME NEW p \in Services
             PROVE  InStep(lines'[p], arrived'[p], served'[p])
  BY <1>0, ArrivedStep DEF ServedInv
<1>1. p \in Procs /\ p \notin Clients
  BY RolesAssumption DEF Procs
<1>2. /\ InStep(lines[p], arrived[p], served[p]) /\ lines[p] \in Seq(Messages)
      /\ arrived[p] \in Seq(Calls) /\ served[p] \in Seq(Calls)
  BY <1>0, <1>1 DEF ServedInv
<1>3. CASE lines' = lines /\ UNCHANGED <<arrived, served>>
  BY <1>2, <1>3
<1>4. ASSUME NEW r \in Procs, NEW m \in Messages, LineGrows(r, m)
      PROVE  InStep(lines'[p], arrived'[p], served'[p])
  <2>1. lines' = [lines EXCEPT ![r] = Append(lines[r], m)] /\ served' = served
    BY <1>4 DEF LineGrows, Adds
  <2>2. CASE /\ m.kind = "request" /\ ~Used(m.call)
             /\ arrived' = [arrived EXCEPT ![r] = Append(arrived[r], m.call)]
    <3>1. CASE r = p
      <4>1. lines'[p] = Append(lines[p], m) /\ arrived'[p] = Append(arrived[p], m.call)
        BY <1>0, <1>1, <2>1, <2>2, <3>1
      <4>2. \A k \in 1 .. Len(arrived[p]) : arrived[p][k] # m.call
        BY <1>0, <1>1, <2>2 DEF ArrivedOK
      <4>3. \A i \in 1 .. Len(lines[p]) : lines[p][i].call # m.call
        BY <1>0, <1>1, <2>2, MentionedAge
      <4>4. InStep(Append(lines[p], m), Append(arrived[p], m.call), served[p])
        BY <1>2, <2>2, <4>2, <4>3, RequestJoins
      <4> QED BY <2>1, <4>1, <4>4
    <3>2. CASE r # p
      <4>1. lines'[p] = lines[p] /\ arrived'[p] = arrived[p]
        BY <1>0, <1>1, <2>1, <2>2, <3>2
      <4> QED BY <1>2, <2>1, <4>1
    <3> QED BY <3>1, <3>2
  <2>3. CASE m.kind # "request" /\ arrived' = arrived
    <3>1. CASE r = p
      <4>1. lines'[p] = Append(lines[p], m)
        BY <1>0, <1>1, <2>1, <3>1
      <4>2. InStep(Append(lines[p], m), arrived[p], served[p])
        BY <1>2, <2>3, OtherJoins
      <4> QED BY <2>1, <2>3, <4>1, <4>2
    <3>2. CASE r # p
      <4>1. lines'[p] = lines[p]
        BY <1>0, <1>1, <2>1, <3>2
      <4> QED BY <1>2, <2>1, <2>3, <4>1
    <3> QED BY <3>1, <3>2
  <2> QED BY <1>4, <2>2, <2>3 DEF LineGrows
<1>5. ASSUME NEW r \in Procs, NEW n \in 1 .. Len(lines[r]), LineShrinks(r, n)
      PROVE  InStep(lines'[p], arrived'[p], served'[p])
  <2>1. lines' = [lines EXCEPT ![r] = RemoveAt(lines[r], n)] /\ arrived' = arrived
    BY <1>5 DEF LineShrinks, Drops
  <2>2. CASE r # p
    <3>1. lines'[p] = lines[p] /\ served'[p] = served[p]
      BY <1>0, <1>1, <1>5, <2>1, <2>2 DEF LineShrinks
    <3> QED BY <1>2, <2>1, <3>1
  <2>3. CASE r = p /\ lines[p][n].kind # "request" /\ served' = served
    <3>1. lines'[p] = RemoveAt(lines[p], n)
      BY <1>0, <1>1, <2>1, <2>3
    <3>2. InStep(RemoveAt(lines[p], n), arrived[p], served[p])
      BY <1>2, <2>3, OtherLeaves
    <3> QED BY <2>1, <2>3, <3>1, <3>2
\* The loop is not in a call, so it has stashed nothing.
  <2>4. CASE /\ r = p /\ lines[p][n].kind = "request" /\ stack[p] = <<>>
             /\ served' = [served EXCEPT ![p] = Append(served[p], lines[p][n].call)]
    <3>1. shelf[p] = <<>>
      <4>1. Len(stack[p]) = 0 /\ 1 .. 0 = {}
        BY <2>4
      <4> QED BY <1>0, <1>1, <4>1 DEF StashOK
    <3>2. n = 1
      <4>1. n = Len(shelf[p]) + 1 /\ Len(<<>>) = 0
        BY <1>5, <2>4 DEF LineShrinks
      <4> QED BY <3>1, <4>1
    <3>3. /\ lines'[p] = RemoveAt(lines[p], 1)
          /\ served'[p] = Append(served[p], lines[p][1].call)
      BY <1>0, <1>1, <2>1, <2>4, <3>2
    <3>4. 1 \in 1 .. Len(lines[p]) /\ lines[p][1].kind = "request"
      BY <2>4, <3>2
    <3>5. \A k, l \in 1 .. Len(arrived[p]) : k # l => arrived[p][k] # arrived[p][l]
      BY <1>0, <1>1 DEF ArrivedOK
    <3>6. InStep(RemoveAt(lines[p], 1), arrived[p], Append(served[p], lines[p][1].call))
      BY <1>2, <3>4, <3>5, FirstIsServed
    <3> QED BY <2>1, <3>3, <3>6
  <2>5. r = p => p \notin Clients
    BY <1>1
  <2> QED BY <1>5, <2>2, <2>3, <2>4, <2>5 DEF LineShrinks
<1> QED BY <1>0, <1>3, <1>4, <1>5, LineStep

\* A service takes up the requests sent to it once each and in the order they
\* were sent (wire.rs:110-136), however its own calls stash and unstash them
\* meanwhile.
THEOREM RequestsAreServedInOrder == Spec => []ServedInOrder
<1>1. DataOK /\ ServedInv => ServedInOrder
  <2> SUFFICES ASSUME DataOK, ServedInv, NEW p \in Services
               PROVE  IsPrefix(served[p], arrived[p])
    BY DEF ServedInOrder
  <2> DEFINE x == served[p]
             y == arrived[p]
  <2>1. /\ x \in Seq(Calls) /\ y \in Seq(Calls)
        /\ Len(x) <= Len(y) /\ \A k \in 1 .. Len(x) : x[k] = y[k]
    BY DEF DataOK, Procs, ServedInv, InStep
  <2> HIDE DEF x, y
  <2>2. Len(x) \in Nat /\ Len(y) \in Nat
    BY <2>1, LenProperties
  <2>3. SubSeq(x, 1, Len(x)) = SubSeq(y, 1, Len(x))
    <3>1. \A i \in 1 .. Len(x) : x[i] \in Calls /\ y[i] \in Calls /\ x[i] = y[i]
      BY <2>1, <2>2, ElementOfSeq
    <3>2. /\ SubSeq(x, 1, Len(x)) \in Seq(Calls) /\ SubSeq(y, 1, Len(x)) \in Seq(Calls)
          /\ Len(SubSeq(x, 1, Len(x))) = Len(SubSeq(y, 1, Len(x)))
          /\ Len(SubSeq(x, 1, Len(x))) = Len(x)
          /\ \A i \in 1 .. Len(x) : SubSeq(x, 1, Len(x))[i] = x[i] /\ SubSeq(y, 1, Len(x))[i] = y[i]
      BY <2>2, <3>1, SubSeqProperties
    <3> QED BY <3>1, <3>2, SeqEqual
  <2>4. IsPrefix(x, y)
    BY <2>1, <2>2, <2>3 DEF IsPrefix
  <2> QED BY <2>4 DEF x, y
<1>2. Inv => DataOK
  BY DEF Inv
<1>3. Init => ServedInv
  BY ServedInit
<1>4. Inv /\ ServedInv /\ [Next]_vars => ServedInv'
  BY ServedStep
<1> QED BY <1>1, <1>2, <1>3, <1>4, Invariance, PTL DEF Spec

-----------------------------------------------------------------------------
(* Closures: lent with a call, run on its stack, put back, or gone with it. *)

CallLends(p, f) ==
  /\ stack' = Pushed(p, f) /\ f.what = "call" /\ f.call \in Calls /\ ~Used(f.call)
  /\ callbacks' = [callbacks EXCEPT ![p] = callbacks[p] \cup ({f.lent} \ {NoRef})]
  /\ call'[f.call].from = p /\ call'[f.call].lent = f.lent
  /\ Doing(p, "callback") => call'[Last(stack[p]).call].nested
HandlerStarts(p, f) ==
  /\ stack' = Pushed(p, f) /\ f.what = "serve" /\ stack[p] = <<>> /\ callbacks' = callbacks
ClosureStarts(p, f) ==
  /\ stack' = Pushed(p, f) /\ f.what = "callback" /\ f.call \in Calls /\ FrameOK(p, f)
  /\ Doing(p, "call") /\ f.lent \in callbacks[p]
  /\ callbacks' = [callbacks EXCEPT ![p] = callbacks[p] \ {f.lent}]
CallTakesBack(p, f) ==
  /\ OnTop(p, "call", f) /\ stack' = Popped(p)
  /\ callbacks' = [callbacks EXCEPT ![p] = callbacks[p] \ {f.lent}]
  /\ call'[f.call].state \in {"ok", "timeout"}
ClosureReturns(p, f) ==
  /\ OnTop(p, "callback", f) /\ stack' = Popped(p)
  /\ callbacks' = [callbacks EXCEPT ![p] = callbacks[p] \cup {f.lent}]
HandlerReturns(p, f) ==
  /\ OnTop(p, "serve", f) /\ stack' = Popped(p) /\ callbacks' = callbacks

LEMMA LendingStep ==
  ASSUME DataOK, MentionsOK, RefsOK, [Next]_vars
  PROVE  \/ stack' = stack /\ callbacks' = callbacks
         \/ \E p \in Procs, f \in Frames :
              \/ CallLends(p, f) \/ HandlerStarts(p, f) \/ ClosureStarts(p, f)
              \/ CallTakesBack(p, f) \/ ClosureReturns(p, f) \/ HandlerReturns(p, f)
<1>0. call \in [Calls -> CallRecords]
  BY DEF DataOK
<1>1. ASSUME NEW p \in Procs, NEW q \in Procs, NEW c \in Calls,
             NEW timed \in BOOLEAN, NEW lend \in BOOLEAN, Call(p, q, c, timed, lend)
      PROVE  \E f \in Frames : CallLends(p, f)
  <2>1. PICK ref \in Nat, id \in Nat, m \in Messages, f \in Frames :
          CallMade(p, q, c, timed, ref, id, m, f)
    BY <1>1, CallStep
  <2>2. /\ stack' = Pushed(p, f) /\ f.what = "call" /\ f.call = c /\ f.lent = id
        /\ callbacks' = [callbacks EXCEPT ![p] = callbacks[p] \cup ({id} \ {NoRef})]
        /\ call'[c].from = p /\ call'[c].lent = id
    BY <2>1 DEF CallMade, CallWith
  <2>3. ~Used(c)
    BY <1>1 DEF Call, Fresh, Used
  <2>4. Doing(p, "callback") => call'[Last(stack[p]).call].nested
    <3> SUFFICES ASSUME Doing(p, "callback") PROVE call'[Last(stack[p]).call].nested
      OBVIOUS
    <3>1. PICK g \in Frames : OnTop(p, "callback", g) /\ Used(g.call)
      BY TopFrame
    <3>2. g = Last(stack[p]) /\ g.call \in Calls /\ g.call # c
      BY <2>3, <3>1 DEF OnTop
    <3>3. call'[g.call] = [call[g.call] EXCEPT !.nested = TRUE]
      BY <1>1, <3>2 DEF Call
    <3>4. call[g.call] \in CallRecords
      BY <1>0, <3>2
    <3>5. call'[g.call].nested
      BY <3>3, <3>4 DEF CallRecords
    <3> QED BY <3>2, <3>5
  <2> QED BY <2>2, <2>3, <2>4 DEF CallLends
<1>2. ASSUME NEW p \in Procs, TakeReply(p) PROVE \E f \in Frames : CallTakesBack(p, f)
  <2>1. PICK f \in Frames, m \in Messages, n \in 1 .. Len(lines[p]) : ReplyTaken(p, f, m, n)
    BY <1>2, TakeReplyStep
  <2>2. /\ OnTop(p, "call", f) /\ stack' = Popped(p) /\ f.call \in Calls
        /\ callbacks' = [callbacks EXCEPT ![p] = callbacks[p] \ {f.lent}]
        /\ call' = [call EXCEPT ![f.call].state = "ok", ![f.call].answer = f.call]
    BY <2>1 DEF ReplyTaken, OnTop
  <2>3. call'[f.call].state = "ok"
    BY <1>0, <2>2 DEF CallRecords
  <2> QED BY <2>2, <2>3 DEF CallTakesBack
<1>3. ASSUME NEW p \in Procs, Timeout(p) PROVE \E f \in Frames : CallTakesBack(p, f)
  <2>1. PICK f \in Frames : CallLate(p, f)
    BY <1>3, TimeoutStep
  <2>2. /\ OnTop(p, "call", f) /\ stack' = Popped(p) /\ f.call \in Calls
        /\ callbacks' = [callbacks EXCEPT ![p] = callbacks[p] \ {f.lent}]
        /\ call' = [call EXCEPT ![f.call].state = "timeout", ![f.call].answer = 0]
    BY <2>1 DEF CallLate, OnTop
  <2>3. call'[f.call].state = "timeout"
    BY <1>0, <2>2 DEF CallRecords
  <2> QED BY <2>2, <2>3 DEF CallTakesBack
<1>4. ASSUME NEW p \in Procs, TakeCallback(p)
      PROVE  (\E f \in Frames : ClosureStarts(p, f)) \/ (stack' = stack /\ callbacks' = callbacks)
  <2>1. PICK m \in Messages, n \in 1 .. Len(lines[p]) :
          /\ CallbackTaken(p, m, n)
          /\ (\E f \in Frames : CallbackRuns(p, m, f)) \/ CallbackLost(p, m)
    BY <1>4, TakeCallbackStep
  <2>2. Doing(p, "call") /\ m.call \in Calls
    BY <1>4, <2>1 DEF TakeCallback, CallbackTaken
  <2>3. ASSUME NEW f \in Frames, CallbackRuns(p, m, f) PROVE ClosureStarts(p, f)
    BY <2>2, <2>3 DEF CallbackRuns, ClosureStarts
  <2> QED BY <2>1, <2>3 DEF CallbackLost
<1>5. ASSUME NEW p \in Procs, NextRequest(p)
      PROVE  (\E f \in Frames : HandlerStarts(p, f)) \/ (stack' = stack /\ callbacks' = callbacks)
  <2>1. PICK m \in Messages, n \in 1 .. Len(lines[p]) :
          /\ RequestTaken(p, m, n)
          /\ (\E f \in Frames : RequestServed(p, m, f)) \/ RequestSkipped(m)
    BY <1>5, NextRequestStep
  <2>2. stack[p] = <<>> /\ callbacks' = callbacks
    BY <1>5 DEF NextRequest, Idle
  <2> QED BY <2>1, <2>2 DEF RequestServed, RequestSkipped, HandlerStarts
<1>6. ASSUME NEW p \in Procs, CallbackReturns(p) PROVE \E f \in Frames : ClosureReturns(p, f)
  <2>1. PICK f \in Frames : OnTop(p, "callback", f)
    BY <1>6, TopFrame DEF CallbackReturns
  <2>2. f = Last(stack[p])
    BY <2>1 DEF OnTop
  <2> QED BY <1>6, <2>1, <2>2 DEF CallbackReturns, ClosureReturns
<1>7. ASSUME NEW p \in Procs, Reply(p) PROVE \E f \in Frames : HandlerReturns(p, f)
  <2>1. PICK f \in Frames : OnTop(p, "serve", f)
    BY <1>7, TopFrame DEF Reply
  <2> QED BY <1>7, <2>1 DEF Reply, HandlerReturns
<1>8. ASSUME NEW p \in Procs, \/ Stash(p) \/ AppReceives(p) \/ Invoke(p)
                              \/ \E q \in Procs, c \in Calls : Cast(p, q, c)
      PROVE  stack' = stack /\ callbacks' = callbacks
  BY <1>8 DEF Stash, AppReceives, Invoke, Cast
<1>9. CASE UNCHANGED vars
  BY <1>9 DEF vars
<1> QED BY <1>1, <1>2, <1>3, <1>4, <1>5, <1>6, <1>7, <1>8, <1>9 DEF Next, Proceed, Begin

\* The closures that are registered belong to calls on the stack ...
LentOK == \A p \in Procs : \A l \in callbacks[p] :
  \E j \in 1 .. Len(stack[p]) : stack[p][j].what = "call" /\ stack[p][j].lent = l
\* ... and those that run, to calls below them.
BelowOK == \A p \in Procs : \A i \in 1 .. Len(stack[p]) : stack[p][i].what = "callback" =>
  \E j \in 1 .. i - 1 : stack[p][j].what = "call" /\ stack[p][j].lent = stack[p][i].lent

LEMMA LentStep ==
  ASSUME DataOK, MentionsOK, RefsOK, LentOK, BelowOK, [Next]_vars
  PROVE  LentOK'
<1> SUFFICES ASSUME NEW r \in Procs, NEW l \in callbacks'[r]
             PROVE  \E j \in 1 .. Len(stack'[r]) :
                      stack'[r][j].what = "call" /\ stack'[r][j].lent = l
  BY DEF LentOK
<1>0. callbacks \in [Procs -> SUBSET Nat]
  BY DEF DataOK
<1>1. ASSUME NEW p \in Procs, NEW f \in Frames, stack' = Pushed(p, f), l \in callbacks[r]
      PROVE  \E j \in 1 .. Len(stack'[r]) :
               stack'[r][j].what = "call" /\ stack'[r][j].lent = l
  <2>1. PICK j \in 1 .. Len(stack[r]) : stack[r][j].what = "call" /\ stack[r][j].lent = l
    BY <1>1 DEF LentOK
  <2>2. j \in 1 .. Len(stack'[r]) /\ stack'[r][j] = stack[r][j]
    BY <1>1, PushedAt
  <2> QED BY <2>1, <2>2
<1>2. ASSUME NEW p \in Procs, NEW f \in Frames, NEW w, OnTop(p, w, f), stack' = Popped(p),
             NEW j \in 1 .. Len(stack[r]), stack[r][j].what = "call", stack[r][j].lent = l,
             p = r => w # "call" \/ f.lent # l
      PROVE  \E k \in 1 .. Len(stack'[r]) :
               stack'[r][k].what = "call" /\ stack'[r][k].lent = l
  <2>1. stack[p] # <<>> /\ f = stack[p][Len(stack[p])] /\ f.what = w
    BY <1>2 DEF OnTop
  <2>2. /\ \A k \in 1 .. Len(stack'[r]) : stack'[r][k] = stack[r][k]
        /\ r # p => stack'[r] = stack[r]
        /\ r = p => Len(stack'[r]) = Len(stack[r]) - 1
        /\ Len(stack[r]) \in Nat
    BY <1>2, <2>1, PoppedAt
  <2>3. r = p => j # Len(stack[r])
    BY <1>2, <2>1
  <2>4. j \in 1 .. Len(stack'[r])
    BY <2>2, <2>3
  <2> QED BY <1>2, <2>2, <2>4
<1>3. CASE stack' = stack /\ callbacks' = callbacks
  BY <1>3 DEF LentOK
<1>4. ASSUME NEW p \in Procs, NEW f \in Frames, CallLends(p, f)
      PROVE  \E j \in 1 .. Len(stack'[r]) :
               stack'[r][j].what = "call" /\ stack'[r][j].lent = l
  <2>1. /\ stack' = Pushed(p, f) /\ f.what = "call"
        /\ callbacks' = [callbacks EXCEPT ![p] = callbacks[p] \cup ({f.lent} \ {NoRef})]
    BY <1>4 DEF CallLends
  <2>2. CASE l \in callbacks[r]
    BY <1>1, <2>1, <2>2
  <2>3. CASE r = p /\ l = f.lent
    <3>1. /\ Len(stack'[p]) = Len(stack[p]) + 1 /\ stack'[p][Len(stack[p]) + 1] = f
          /\ Len(stack[p]) \in Nat
      BY <2>1, PushedAt
    <3>2. Len(stack[p]) + 1 \in 1 .. Len(stack'[p])
      BY <3>1
    <3> QED BY <2>1, <2>3, <3>1, <3>2
  <2> QED BY <1>0, <2>1, <2>2, <2>3
<1>5. ASSUME NEW p \in Procs, NEW f \in Frames, HandlerStarts(p, f) \/ ClosureStarts(p, f)
      PROVE  \E j \in 1 .. Len(stack'[r]) :
               stack'[r][j].what = "call" /\ stack'[r][j].lent = l
  <2>1. /\ stack' = Pushed(p, f)
        /\ \/ callbacks' = callbacks
           \/ callbacks' = [callbacks EXCEPT ![p] = callbacks[p] \ {f.lent}]
    BY <1>5 DEF HandlerStarts, ClosureStarts
  <2>2. l \in callbacks[r]
    BY <1>0, <2>1
  <2> QED BY <1>1, <2>1, <2>2
<1>6. ASSUME NEW p \in Procs, NEW f \in Frames, CallTakesBack(p, f)
      PROVE  \E j \in 1 .. Len(stack'[r]) :
               stack'[r][j].what = "call" /\ stack'[r][j].lent = l
  <2>1. /\ OnTop(p, "call", f) /\ stack' = Popped(p)
        /\ callbacks' = [callbacks EXCEPT ![p] = callbacks[p] \ {f.lent}]
    BY <1>6 DEF CallTakesBack
  <2>2. l \in callbacks[r] /\ (p = r => f.lent # l)
    BY <1>0, <2>1
  <2>3. PICK j \in 1 .. Len(stack[r]) : stack[r][j].what = "call" /\ stack[r][j].lent = l
    BY <2>2 DEF LentOK
  <2> QED BY <1>2, <2>1, <2>2, <2>3
<1>7. ASSUME NEW p \in Procs, NEW f \in Frames, HandlerReturns(p, f)
      PROVE  \E j \in 1 .. Len(stack'[r]) :
               stack'[r][j].what = "call" /\ stack'[r][j].lent = l
  <2>1. OnTop(p, "serve", f) /\ stack' = Popped(p) /\ callbacks' = callbacks
    BY <1>7 DEF HandlerReturns
  <2>2. PICK j \in 1 .. Len(stack[r]) : stack[r][j].what = "call" /\ stack[r][j].lent = l
    BY <2>1 DEF LentOK
  <2> QED BY <1>2, <2>1, <2>2
<1>8. ASSUME NEW p \in Procs, NEW f \in Frames, ClosureReturns(p, f)
      PROVE  \E j \in 1 .. Len(stack'[r]) :
               stack'[r][j].what = "call" /\ stack'[r][j].lent = l
  <2>1. /\ OnTop(p, "callback", f) /\ stack' = Popped(p)
        /\ callbacks' = [callbacks EXCEPT ![p] = callbacks[p] \cup {f.lent}]
    BY <1>8 DEF ClosureReturns
  <2>2. \E j \in 1 .. Len(stack[r]) : stack[r][j].what = "call" /\ stack[r][j].lent = l
    <3>1. CASE l \in callbacks[r]
      BY <3>1 DEF LentOK
    <3>2. CASE r = p /\ l = f.lent
      <4>1. /\ f = stack[p][Len(stack[p])] /\ f.what = "callback"
            /\ Len(stack[p]) \in 1 .. Len(stack[p])
        BY <2>1 DEF OnTop
      <4>2. PICK j \in 1 .. Len(stack[p]) - 1 :
              stack[p][j].what = "call" /\ stack[p][j].lent = f.lent
        BY <4>1 DEF BelowOK
      <4>3. j \in 1 .. Len(stack[p])
        BY <4>1
      <4> QED BY <3>2, <4>2, <4>3
    <3> QED BY <1>0, <2>1, <3>1, <3>2
  <2>3. PICK j \in 1 .. Len(stack[r]) : stack[r][j].what = "call" /\ stack[r][j].lent = l
    BY <2>2
  <2> QED BY <1>2, <2>1, <2>3
<1> QED BY <1>3, <1>4, <1>5, <1>6, <1>7, <1>8, LendingStep

LEMMA BelowStep ==
  ASSUME DataOK, MentionsOK, RefsOK, LentOK, BelowOK, [Next]_vars
  PROVE  BelowOK'
<1> SUFFICES ASSUME NEW r \in Procs, NEW i \in 1 .. Len(stack'[r]),
                    stack'[r][i].what = "callback"
             PROVE  \E j \in 1 .. i - 1 :
                      stack'[r][j].what = "call" /\ stack'[r][j].lent = stack'[r][i].lent
  BY DEF BelowOK
<1>1. ASSUME i \in 1 .. Len(stack[r]), Len(stack[r]) \in Nat, stack'[r][i] = stack[r][i],
             \A j \in 1 .. i - 1 : stack'[r][j] = stack[r][j]
      PROVE  \E j \in 1 .. i - 1 :
               stack'[r][j].what = "call" /\ stack'[r][j].lent = stack'[r][i].lent
  BY <1>1 DEF BelowOK
<1>2. CASE stack' = stack
  BY <1>2 DEF BelowOK
<1>4. ASSUME NEW p \in Procs, NEW f \in Frames, stack' = Pushed(p, f),
             f.what = "callback" => f.lent \in callbacks[p]
      PROVE  \E j \in 1 .. i - 1 :
               stack'[r][j].what = "call" /\ stack'[r][j].lent = stack'[r][i].lent
  <2>1. /\ \A j \in 1 .. Len(stack[r]) : stack'[r][j] = stack[r][j]
        /\ Len(stack[r]) \in Nat
    BY <1>4, PushedAt
  <2>2. CASE i \in 1 .. Len(stack[r])
    <3>1. \A j \in 1 .. i - 1 : j \in 1 .. Len(stack[r])
      BY <2>1, <2>2
    <3> QED BY <1>1, <2>1, <2>2, <3>1
  <2>3. CASE r = p /\ i = Len(stack[r]) + 1 /\ stack'[r][i] = f
    <3>1. PICK j \in 1 .. Len(stack[r]) : stack[r][j].what = "call" /\ stack[r][j].lent = f.lent
      BY <1>4, <2>3 DEF LentOK
    <3>2. j \in 1 .. i - 1
      BY <2>1, <2>3
    <3> QED BY <2>1, <2>3, <3>1, <3>2
  <2> QED BY <1>4, <2>2, <2>3, FrameWas
<1>5. ASSUME NEW p \in Procs, NEW f \in Frames,
             CallTakesBack(p, f) \/ ClosureReturns(p, f) \/ HandlerReturns(p, f)
      PROVE  stack[p] # <<>> /\ stack' = Popped(p)
  BY <1>5 DEF CallTakesBack, ClosureReturns, HandlerReturns, OnTop
<1>6. ASSUME NEW p \in Procs, NEW f \in Frames,
             CallLends(p, f) \/ HandlerStarts(p, f) \/ ClosureStarts(p, f)
      PROVE  stack' = Pushed(p, f) /\ (f.what = "callback" => f.lent \in callbacks[p])
  BY <1>6 DEF CallLends, HandlerStarts, ClosureStarts
<1>7. ASSUME NEW p \in Procs, stack[p] # <<>>, stack' = Popped(p)
      PROVE  \E j \in 1 .. i - 1 :
               stack'[r][j].what = "call" /\ stack'[r][j].lent = stack'[r][i].lent
  <2>1. /\ \A j \in 1 .. Len(stack'[r]) : j \in 1 .. Len(stack[r]) /\ stack'[r][j] = stack[r][j]
        /\ Len(stack[r]) \in Nat
    BY <1>7, PoppedAt
  <2>2. Len(stack'[r]) \in Nat
    BY DataStep, LenProperties DEF DataOK
  <2>3. \A j \in 1 .. i - 1 : j \in 1 .. Len(stack'[r])
    BY <2>2
  <2> QED BY <1>1, <2>1, <2>3
<1> QED BY <1>2, <1>4, <1>5, <1>6, <1>7, LendingStep

\* A call that is nested stays so.
LEMMA NestedStays ==
  ASSUME DataOK, MentionsOK, RefsOK, [Next]_vars, NEW d \in Calls, Used(d), call[d].nested
  PROVE  call'[d].nested
<1>0. call \in [Calls -> CallRecords]
  BY DEF DataOK
<1>1. ASSUME NEW c \in Calls, NEW s \in {"ok", "timeout"}, NEW a \in Nat,
             call' = [call EXCEPT ![c].state = s, ![c].answer = a]
      PROVE  call'[d].nested
  BY <1>0, <1>1, Updated
<1>2. ASSUME NEW c \in Calls, \/ call' = [call EXCEPT ![c].ran = @ + 1]
                              \/ call' = [call EXCEPT ![c].invoked = @ + 1]
                              \/ call' = call
      PROVE  call'[d].nested
  BY <1>0, <1>2, Updated
<1>3. ASSUME NEW p \in Procs, NEW q \in Procs, NEW c \in Calls,
             NEW timed \in BOOLEAN, NEW lend \in BOOLEAN, Call(p, q, c, timed, lend)
      PROVE  call'[d].nested
  <2>1. d # c
    BY <1>3 DEF Call, Fresh, Used
  <2>2. call'[d] = call[d] \/ call'[d] = [call[d] EXCEPT !.nested = TRUE]
    BY <1>3, <2>1, CallOthers
  <2> QED BY <1>0, <2>2 DEF CallRecords
<1>4. ASSUME NEW p \in Procs, NEW q \in Procs, NEW c \in Calls, Cast(p, q, c)
      PROVE  call'[d].nested
  <2>1. d # c
    BY <1>4 DEF Cast, Fresh, Used
  <2>2. call'[d] = call[d]
    BY <1>4, <2>1, CastCalls
  <2> QED BY <2>2
<1>5. ASSUME NEW p \in Procs, TakeReply(p) PROVE call'[d].nested
  <2>1. PICK f \in Frames, m \in Messages, n \in 1 .. Len(lines[p]) : ReplyTaken(p, f, m, n)
    BY <1>5, TakeReplyStep
  <2>2. f.call \in Calls /\ f.call \in Nat
    BY <2>1, BoundsAssumption DEF ReplyTaken, OnTop, Calls
  <2>3. call' = [call EXCEPT ![f.call].state = "ok", ![f.call].answer = f.call]
    BY <2>1 DEF ReplyTaken
  <2> QED BY <1>1, <2>2, <2>3
<1>6. ASSUME NEW p \in Procs, Timeout(p) PROVE call'[d].nested
  <2>1. PICK f \in Frames : CallLate(p, f)
    BY <1>6, TimeoutStep
  <2>2. f.call \in Calls /\ call' = [call EXCEPT ![f.call].state = "timeout", ![f.call].answer = 0]
    BY <2>1 DEF CallLate, OnTop
  <2> QED BY <1>1, <2>2
<1>7. ASSUME NEW p \in Procs, TakeCallback(p) PROVE call'[d].nested
  <2>1. PICK m \in Messages, n \in 1 .. Len(lines[p]) :
          /\ CallbackTaken(p, m, n)
          /\ (\E f \in Frames : CallbackRuns(p, m, f)) \/ CallbackLost(p, m)
    BY <1>7, TakeCallbackStep
  <2>2. m.call \in Calls /\ (call' = [call EXCEPT ![m.call].ran = @ + 1] \/ call' = call)
    BY <2>1 DEF CallbackTaken, CallbackRuns, CallbackLost
  <2> QED BY <1>2, <2>2
<1>8. ASSUME NEW p \in Procs, Invoke(p) PROVE call'[d].nested
  <2>1. PICK f \in Frames, m \in Messages, to \in Procs : CallbackInvoked(p, f, m, to)
    BY <1>8, InvokeStep
  <2>2. f.call \in Calls /\ call' = [call EXCEPT ![f.call].invoked = @ + 1]
    BY <2>1 DEF CallbackInvoked, OnTop
  <2> QED BY <1>2, <2>2
<1>9. CASE call' = call
  BY <1>2, <1>9
<1> QED BY <1>3, <1>4, <1>5, <1>6, <1>7, <1>8, <1>9, QuietSteps DEF Next, Proceed, Begin

\* A closure that runs and is not innermost has made a call.
BusyOK == \A p \in Procs : \A i \in 1 .. Len(stack[p]) :
  stack[p][i].what = "callback" /\ i < Len(stack[p]) => call[stack[p][i].call].nested
\* The closure of an open call is registered, or runs.
ReachOK == \A c \in Calls : call[c].state = "open" /\ call[c].lent # NoRef =>
  \/ call[c].lent \in callbacks[call[c].from]
  \/ \E i \in 1 .. Len(stack[call[c].from]) :
       stack[call[c].from][i].what = "callback" /\ stack[call[c].from][i].call = c

LEMMA BusyStep ==
  ASSUME DataOK, MentionsOK, RefsOK, BusyOK, [Next]_vars
  PROVE  BusyOK'
<1> SUFFICES ASSUME NEW r \in Procs, NEW i \in 1 .. Len(stack'[r]),
                    stack'[r][i].what = "callback", i < Len(stack'[r])
             PROVE  call'[stack'[r][i].call].nested
  BY DEF BusyOK
<1>1. ASSUME NEW j \in 1 .. Len(stack[r]), stack'[r][i] = stack[r][j], j < Len(stack[r])
      PROVE  call'[stack'[r][i].call].nested
  <2>1. stack[r][j].call \in Calls /\ Used(stack[r][j].call)
    BY CallsAge, MentionedAge
  <2>2. call[stack[r][j].call].nested
    BY <1>1 DEF BusyOK
  <2> QED BY <1>1, <2>1, <2>2, NestedStays
<1>2. CASE stack' = stack
  BY <1>1, <1>2
<1>3. ASSUME NEW p \in Procs, NEW f \in Frames, stack' = Pushed(p, f), i \in 1 .. Len(stack[r]),
             \/ r # p
             \/ i < Len(stack[r])
      PROVE  call'[stack'[r][i].call].nested
  <2>1. stack'[r][i] = stack[r][i] /\ (r # p => stack'[r] = stack[r])
    BY <1>3, PushedAt
  <2> QED BY <1>1, <1>3, <2>1
<1>4. ASSUME NEW p \in Procs, NEW f \in Frames, stack' = Pushed(p, f)
      PROVE  \/ i \in 1 .. Len(stack[r]) /\ (r # p \/ i < Len(stack[r]))
             \/ /\ r = p /\ i = Len(stack[p]) /\ i \in 1 .. Len(stack[p])
                /\ stack'[p][i] = stack[p][i] /\ Last(stack[p]) = stack[p][i] /\ stack[p] # <<>>
  <2>1. /\ \A j \in 1 .. Len(stack[r]) : stack'[r][j] = stack[r][j]
        /\ r # p => stack'[r] = stack[r]
        /\ r = p => Len(stack'[r]) = Len(stack[r]) + 1
        /\ Len(stack[r]) \in Nat
    BY <1>4, PushedAt
  <2>2. CASE r # p
    BY <2>1, <2>2
  <2>3. CASE r = p
    <3>1. i \in 1 .. Len(stack[p])
      BY <2>1, <2>3
    <3>2. CASE i = Len(stack[p])
      <4>1. stack[p] # <<>>
        BY <3>1, EmptySeq DEF DataOK
      <4> QED BY <2>1, <2>3, <3>1, <3>2, <4>1, Innermost
    <3>3. CASE i # Len(stack[p])
      BY <2>1, <2>3, <3>1, <3>3
    <3> QED BY <3>2, <3>3
  <2> QED BY <2>2, <2>3
\* What comes on top of a closure is a call of it.
<1>5. ASSUME NEW p \in Procs, NEW f \in Frames, CallLends(p, f)
      PROVE  call'[stack'[r][i].call].nested
  <2>1. stack' = Pushed(p, f) /\ (Doing(p, "callback") => call'[Last(stack[p]).call].nested)
    BY <1>5 DEF CallLends
  <2>2. CASE i \in 1 .. Len(stack[r]) /\ (r # p \/ i < Len(stack[r]))
    BY <1>3, <2>1, <2>2
  <2>3. CASE /\ r = p /\ i = Len(stack[p])
             /\ stack'[p][i] = stack[p][i] /\ Last(stack[p]) = stack[p][i] /\ stack[p] # <<>>
    <3>1. Doing(p, "callback")
      BY <2>3 DEF Doing
    <3> QED BY <2>1, <2>3, <3>1
  <2> QED BY <1>4, <2>1, <2>2, <2>3
<1>6. ASSUME NEW p \in Procs, NEW f \in Frames, HandlerStarts(p, f) \/ ClosureStarts(p, f)
      PROVE  call'[stack'[r][i].call].nested
  <2>1. stack' = Pushed(p, f) /\ (stack[p] = <<>> \/ Doing(p, "call"))
    BY <1>6 DEF HandlerStarts, ClosureStarts
  <2>2. CASE i \in 1 .. Len(stack[r]) /\ (r # p \/ i < Len(stack[r]))
    BY <1>3, <2>1, <2>2
  <2>3. CASE /\ r = p /\ i = Len(stack[p])
             /\ stack'[p][i] = stack[p][i] /\ Last(stack[p]) = stack[p][i] /\ stack[p] # <<>>
    BY <2>1, <2>3 DEF Doing
  <2> QED BY <1>4, <2>1, <2>2, <2>3
<1>7. ASSUME NEW p \in Procs, NEW f \in Frames,
             CallTakesBack(p, f) \/ ClosureReturns(p, f) \/ HandlerReturns(p, f)
      PROVE  call'[stack'[r][i].call].nested
  <2>1. stack[p] # <<>> /\ stack' = Popped(p)
    BY <1>7 DEF CallTakesBack, ClosureReturns, HandlerReturns, OnTop
  <2>2. /\ i \in 1 .. Len(stack[r]) /\ stack'[r][i] = stack[r][i]
        /\ r # p => stack'[r] = stack[r]
        /\ r = p => Len(stack'[r]) = Len(stack[r]) - 1
        /\ Len(stack[r]) \in Nat
    BY <2>1, PoppedAt
  <2>3. i < Len(stack[r])
    BY <2>2
  <2> QED BY <1>1, <2>2, <2>3
<1> QED BY <1>2, <1>5, <1>6, <1>7, LendingStep

\* Two calls of one process do not lend the same.
LEMMA SameLent ==
  ASSUME RefsOK, NEW c \in Calls, NEW d \in Calls, Used(c), Used(d),
         call[c].from = call[d].from, call[c].lent = call[d].lent, call[c].lent # NoRef
  PROVE  c = d
BY DEF RefsOK

LEMMA ReachStep ==
  ASSUME DataOK, MentionsOK, RefsOK, ReachOK, [Next]_vars
  PROVE  ReachOK'
<1> SUFFICES ASSUME NEW c \in Calls, call'[c].state = "open", call'[c].lent # NoRef
             PROVE  \/ call'[c].lent \in callbacks'[call'[c].from]
                    \/ \E i \in 1 .. Len(stack'[call'[c].from]) :
                         /\ stack'[call'[c].from][i].what = "callback"
                         /\ stack'[call'[c].from][i].call = c
  BY DEF ReachOK
<1>0. callbacks \in [Procs -> SUBSET Nat]
  BY DEF DataOK
<1>1. CASE ~Used(c)
  <2>1. Used(c)'
    BY DEF Used
  <2>2. PICK p \in Procs, f \in Frames : /\ call'[c].from = p /\ stack' = Pushed(p, f)
                                         /\ f.what = "call" /\ f.call = c
    BY <1>1, <2>1, NewCallState
  <2>3. /\ Len(stack'[p]) = Len(stack[p]) + 1 /\ stack'[p][Len(stack[p]) + 1] = f
        /\ Len(stack[p]) \in Nat
    BY <2>2, PushedAt
  <2>4. ASSUME NEW q \in Procs, NEW g \in Frames, CallLends(q, g)
        PROVE  call'[c].lent \in callbacks'[call'[c].from]
    <3>1. /\ stack' = Pushed(q, g)
          /\ callbacks' = [callbacks EXCEPT ![q] = callbacks[q] \cup ({g.lent} \ {NoRef})]
          /\ call'[g.call].from = q /\ call'[g.call].lent = g.lent
      BY <2>4 DEF CallLends
    <3>2. Len(stack[p]) + 1 \in 1 .. Len(stack'[p])
      BY <2>3
    <3>3. q = p /\ g = f
      <4>1. ~(Len(stack[p]) + 1 \in 1 .. Len(stack[p]))
        BY <2>3
      <4> QED BY <2>3, <3>1, <3>2, <4>1, FrameWas
    <3> QED BY <1>0, <2>2, <3>1, <3>3
  <2>5. ASSUME NEW q \in Procs, NEW g \in Frames, HandlerStarts(q, g) \/ ClosureStarts(q, g)
        PROVE  FALSE
    <3>1. stack' = Pushed(q, g) /\ g.what # "call"
      BY <2>5 DEF HandlerStarts, ClosureStarts
    <3>2. Len(stack[p]) + 1 \in 1 .. Len(stack'[p]) /\ ~(Len(stack[p]) + 1 \in 1 .. Len(stack[p]))
      BY <2>3
    <3>3. g = f
      BY <2>3, <3>1, <3>2, FrameWas
    <3> QED BY <2>2, <3>1, <3>3
  <2>6. ASSUME NEW q \in Procs, stack[q] # <<>>, stack' = Popped(q)
        PROVE  FALSE
    <3>1. Len(stack'[p]) = Len(stack[p]) \/ Len(stack'[p]) = Len(stack[p]) - 1
      BY <2>6, PoppedAt
    <3> QED BY <2>3, <3>1
  <2>7. stack' # stack
    BY <2>3
  <2>8. ASSUME NEW q \in Procs, NEW g \in Frames,
               CallTakesBack(q, g) \/ ClosureReturns(q, g) \/ HandlerReturns(q, g)
        PROVE  FALSE
    BY <2>6, <2>8 DEF CallTakesBack, ClosureReturns, HandlerReturns, OnTop
  <2> QED BY <2>4, <2>5, <2>7, <2>8, LendingStep
<1>2. CASE Used(c)
  <2>1. /\ call[c].state = "open" /\ call'[c].from = call[c].from
        /\ call'[c].lent = call[c].lent
    BY <1>2, StateStep, CallsAge DEF StateStays, CallEnds, Ages
  <2>0. PICK r \in Procs : call[c].from = r
    BY <1>2 DEF RefsOK
  <2> DEFINE l == call[c].lent
             Runs == \E i \in 1 .. Len(stack'[r]) :
                       stack'[r][i].what = "callback" /\ stack'[r][i].call = c
  <2>2. l # NoRef /\ call'[c].from = r /\ call'[c].lent = l
    BY <2>0, <2>1
  <2> SUFFICES l \in callbacks'[r] \/ Runs
    BY <2>2
  <2>3. \/ l \in callbacks[r]
        \/ \E i \in 1 .. Len(stack[r]) : stack[r][i].what = "callback" /\ stack[r][i].call = c
    BY <2>0, <2>1, <2>2 DEF ReachOK
  <2>4. ASSUME NEW p \in Procs, NEW f \in Frames, stack' = Pushed(p, f),
               NEW i \in 1 .. Len(stack[r]), stack[r][i].what = "callback", stack[r][i].call = c
        PROVE  Runs
    <3>1. i \in 1 .. Len(stack'[r]) /\ stack'[r][i] = stack[r][i]
      BY <2>4, PushedAt
    <3> QED BY <2>4, <3>1
  <2>5. ASSUME NEW p \in Procs, NEW f \in Frames, NEW w, OnTop(p, w, f), stack' = Popped(p),
               w # "callback" \/ f.call # c \/ p # r,
               NEW i \in 1 .. Len(stack[r]), stack[r][i].what = "callback", stack[r][i].call = c
        PROVE  Runs
    <3>1. f.what = w /\ f = stack[p][Len(stack[p])] /\ stack[p] # <<>>
      BY <2>5 DEF OnTop
    <3>2. /\ \A j \in 1 .. Len(stack'[r]) : stack'[r][j] = stack[r][j]
          /\ r # p => stack'[r] = stack[r]
          /\ r = p => Len(stack'[r]) = Len(stack[r]) - 1
          /\ Len(stack[r]) \in Nat
      BY <2>5, <3>1, PoppedAt
    <3>3. r = p => i # Len(stack[r])
      BY <2>5, <3>1
    <3>4. i \in 1 .. Len(stack'[r])
      BY <3>2, <3>3
    <3> QED BY <2>5, <3>2, <3>4
  <2>6. CASE stack' = stack /\ callbacks' = callbacks
    BY <2>3, <2>6
  <2>7. ASSUME NEW p \in Procs, NEW f \in Frames, CallLends(p, f) \/ HandlerStarts(p, f)
        PROVE  l \in callbacks'[r] \/ Runs
    <3>1. /\ stack' = Pushed(p, f)
          /\ \/ callbacks' = [callbacks EXCEPT ![p] = callbacks[p] \cup ({f.lent} \ {NoRef})]
             \/ callbacks' = callbacks
      BY <2>7 DEF CallLends, HandlerStarts
    <3>2. callbacks[r] \subseteq callbacks'[r]
      BY <1>0, <3>1
    <3> QED BY <2>3, <2>4, <3>1, <3>2
  <2>8. ASSUME NEW p \in Procs, NEW f \in Frames, ClosureStarts(p, f)
        PROVE  l \in callbacks'[r] \/ Runs
    <3>1. /\ stack' = Pushed(p, f) /\ FrameOK(p, f) /\ f.what = "callback" /\ f.call \in Calls
          /\ callbacks' = [callbacks EXCEPT ![p] = callbacks[p] \ {f.lent}]
      BY <2>8 DEF ClosureStarts
    <3>2. CASE l \in callbacks[r] /\ ~(r = p /\ l = f.lent)
      BY <1>0, <3>1, <3>2
    <3>3. CASE r = p /\ l = f.lent
      <4>1. Used(f.call) /\ call[f.call].from = p /\ f.lent = call[f.call].lent
        BY <3>1 DEF FrameOK
      <4>2. f.call = c
        BY <1>2, <2>0, <2>2, <3>1, <3>3, <4>1, SameLent
      <4>3. /\ Len(stack'[p]) = Len(stack[p]) + 1 /\ stack'[p][Len(stack[p]) + 1] = f
            /\ Len(stack[p]) \in Nat
        BY <3>1, PushedAt
      <4>4. Len(stack[p]) + 1 \in 1 .. Len(stack'[p])
        BY <4>3
      <4> QED BY <3>1, <3>3, <4>2, <4>3, <4>4
    <3> QED BY <2>3, <2>4, <3>1, <3>2, <3>3
\* A call that ends takes back its own closure only.
  <2>9. ASSUME NEW p \in Procs, NEW f \in Frames, CallTakesBack(p, f)
        PROVE  l \in callbacks'[r] \/ Runs
    <3>1. /\ OnTop(p, "call", f) /\ stack' = Popped(p)
          /\ callbacks' = [callbacks EXCEPT ![p] = callbacks[p] \ {f.lent}]
          /\ call'[f.call].state \in {"ok", "timeout"}
      BY <2>9 DEF CallTakesBack
    <3>2. /\ f.call \in Calls /\ Used(f.call) /\ call[f.call].from = p
          /\ f.lent = call[f.call].lent
      BY <3>1 DEF OnTop, FrameOK
    <3>3. ~(r = p /\ l = f.lent)
      <4>1. f.call # c
        BY <3>1
      <4> QED BY <1>2, <2>0, <2>2, <3>2, <4>1, SameLent
    <3>4. l \in callbacks[r] => l \in callbacks'[r]
      BY <1>0, <3>1, <3>3
    <3> QED BY <2>3, <2>5, <3>1, <3>4
  <2>10. ASSUME NEW p \in Procs, NEW f \in Frames, ClosureReturns(p, f)
        PROVE  l \in callbacks'[r] \/ Runs
    <3>1. /\ OnTop(p, "callback", f) /\ stack' = Popped(p)
          /\ callbacks' = [callbacks EXCEPT ![p] = callbacks[p] \cup {f.lent}]
      BY <2>10 DEF ClosureReturns
    <3>2. callbacks[r] \subseteq callbacks'[r] /\ f.lent \in callbacks'[p]
      BY <1>0, <3>1
    <3>3. CASE f.call = c /\ p = r
      <4>1. f.lent = call[f.call].lent
        BY <3>1 DEF OnTop, FrameOK
      <4> QED BY <3>2, <3>3, <4>1
    <3>4. CASE f.call # c \/ p # r
      BY <2>3, <2>5, <3>1, <3>2, <3>4
    <3> QED BY <3>3, <3>4
  <2>11. ASSUME NEW p \in Procs, NEW f \in Frames, HandlerReturns(p, f)
        PROVE  l \in callbacks'[r] \/ Runs
    <3>1. OnTop(p, "serve", f) /\ stack' = Popped(p) /\ callbacks' = callbacks
      BY <2>11 DEF HandlerReturns
    <3> QED BY <2>3, <2>5, <3>1
  <2> QED BY <2>6, <2>7, <2>8, <2>9, <2>10, <2>11, LendingStep
<1> QED BY <1>1, <1>2

-----------------------------------------------------------------------------
(* A call is asked for, or handled, or answered, in one place at a time.   *)

\* The calls that p handles.
handles == [p \in Procs |-> {c \in Calls : \E i \in 1 .. Len(stack[p]) :
                               stack[p][i].what = "serve" /\ stack[p][i].call = c}]
Narrows == \A r \in Procs : handles'[r] \subseteq handles[r]

LEMMA HandlesPush ==
  ASSUME DataOK, NEW p \in Procs, NEW f \in Frames, stack' = Pushed(p, f), NEW r \in Procs
  PROVE  /\ r # p \/ f.what # "serve" => handles'[r] \subseteq handles[r]
         /\ handles'[r] \subseteq handles[r] \cup {f.call}
<1> SUFFICES ASSUME NEW c \in handles'[r]
             PROVE  c \in handles[r] \/ (r = p /\ f.what = "serve" /\ c = f.call)
  OBVIOUS
<1>1. PICK i \in 1 .. Len(stack'[r]) : stack'[r][i].what = "serve" /\ stack'[r][i].call = c
  BY DEF handles
<1>2. c \in Calls
  BY DEF handles
<1>3. CASE i \in 1 .. Len(stack[r]) /\ stack'[r][i] = stack[r][i]
  BY <1>1, <1>2, <1>3 DEF handles
<1>4. CASE r = p /\ stack'[r][i] = f
  BY <1>1, <1>4
<1> QED BY <1>3, <1>4, FrameWas

LEMMA HandlesPop ==
  ASSUME DataOK, NEW p \in Procs, stack[p] # <<>>, stack' = Popped(p)
  PROVE  Narrows
<1> SUFFICES ASSUME NEW r \in Procs, NEW c \in handles'[r] PROVE c \in handles[r]
  BY DEF Narrows
<1>1. PICK i \in 1 .. Len(stack'[r]) : stack'[r][i].what = "serve" /\ stack'[r][i].call = c
  BY DEF handles
<1>2. i \in 1 .. Len(stack[r]) /\ stack'[r][i] = stack[r][i] /\ c \in Calls
  BY PoppedAt DEF handles
<1> QED BY <1>1, <1>2 DEF handles

\* The handler on top, and that it is gone when it returns.
LEMMA Handling ==
  ASSUME NEW p \in Procs, NEW f \in Frames, OnTop(p, "serve", f)
  PROVE  f.call \in handles[p]
BY DEF OnTop, handles
LEMMA Handled ==
  ASSUME DataOK, NestOK, NEW p \in Procs, NEW f \in Frames, OnTop(p, "serve", f),
         stack' = Popped(p)
  PROVE  handles'[p] = {}
<1>1. /\ f = stack[p][Len(stack[p])] /\ f.what = "serve" /\ stack[p] # <<>>
      /\ Len(stack[p]) \in 1 .. Len(stack[p])
  BY DEF OnTop
<1>2. Len(stack[p]) = 1
  BY <1>1 DEF NestOK
<1>3. Len(stack'[p]) = 0
  <2>1. Len(stack'[p]) = Len(stack[p]) - 1
    BY <1>1, PoppedAt
  <2> QED BY <1>2, <2>1
<1>4. 1 .. 0 = {}
  OBVIOUS
<1> QED BY <1>3, <1>4 DEF handles

\* What a step does to requests, handlers and answers.
MailAsks(q, m) == Adds(q, m) /\ m.kind = "request" /\ ~Used(m.call) /\ Narrows
MailInvokes(q, m, p) == Adds(q, m) /\ m.kind = "callback" /\ m.call \in handles[p] /\ Narrows
MailAnswers(q, m, p) ==
  /\ Adds(q, m) /\ m.kind = "reply" /\ m.call \in handles[p] /\ m.call \notin handles'[p]
  /\ Narrows
MailLeaves(p, n) == Drops(p, n) /\ Narrows
MailServed(p, n) ==
  /\ Drops(p, n) /\ lines[p][n].kind # "callback"
  /\ \A r \in Procs \ {p} : handles'[r] \subseteq handles[r]
  /\ handles'[p] \subseteq handles[p] \cup {lines[p][n].call}

LEMMA MailStep ==
  ASSUME DataOK, MentionsOK, RefsOK, NestOK, [Next]_vars
  PROVE  \/ lines' = lines /\ Narrows
         \/ \E q \in Procs, m \in Messages : MailAsks(q, m)
         \/ \E q \in Procs, m \in Messages, p \in Procs :
              MailInvokes(q, m, p) \/ MailAnswers(q, m, p)
         \/ \E p \in Procs : \E n \in 1 .. Len(lines[p]) : MailLeaves(p, n) \/ MailServed(p, n)
<1>0. stack' = stack => Narrows
  BY DEF Narrows, handles
<1>1. ASSUME NEW p \in Procs, NEW q \in Procs, NEW c \in Calls,
             NEW timed \in BOOLEAN, NEW lend \in BOOLEAN, Call(p, q, c, timed, lend)
      PROVE  \E m \in Messages : MailAsks(q, m)
  <2>1. PICK ref \in Nat, id \in Nat, m \in Messages, f \in Frames :
          CallMade(p, q, c, timed, ref, id, m, f)
    BY <1>1, CallStep
  <2>2. m.kind = "request" /\ m.call = c /\ Adds(q, m) /\ stack' = Pushed(p, f) /\ f.what = "call"
    BY <2>1 DEF CallMade
  <2>3. ~Used(c)
    BY <1>1 DEF Call, Fresh, Used
  <2>4. Narrows
    <3>1. ASSUME NEW r \in Procs PROVE handles'[r] \subseteq handles[r]
      BY <2>2, HandlesPush
    <3> QED BY <3>1 DEF Narrows
  <2> QED BY <2>2, <2>3, <2>4 DEF MailAsks
<1>2. ASSUME NEW p \in Procs, NEW q \in Procs, NEW c \in Calls, Cast(p, q, c)
      PROVE  \E m \in Messages : MailAsks(q, m)
  <2>1. PICK m \in Messages : CastMade(p, q, c, m)
    BY <1>2, CastStep
  <2>2. m.kind = "request" /\ m.call = c /\ Adds(q, m)
    BY <2>1 DEF CastMade
  <2>3. ~Used(c) /\ stack' = stack
    BY <1>2 DEF Cast, Fresh, Used
  <2> QED BY <1>0, <2>2, <2>3 DEF MailAsks
<1>3. ASSUME NEW p \in Procs, TakeReply(p)
      PROVE  \E n \in 1 .. Len(lines[p]) : MailLeaves(p, n)
  <2>1. PICK f \in Frames, m \in Messages, n \in 1 .. Len(lines[p]) : ReplyTaken(p, f, m, n)
    BY <1>3, TakeReplyStep
  <2>2. Drops(p, n) /\ stack[p] # <<>> /\ stack' = Popped(p)
    BY <2>1 DEF ReplyTaken, OnTop
  <2>3. Narrows
    BY <2>2, HandlesPop
  <2> QED BY <2>2, <2>3 DEF MailLeaves
<1>4. ASSUME NEW p \in Procs, TakeCallback(p)
      PROVE  \E n \in 1 .. Len(lines[p]) : MailLeaves(p, n)
  <2>1. PICK m \in Messages, n \in 1 .. Len(lines[p]) :
          /\ CallbackTaken(p, m, n)
          /\ (\E f \in Frames : CallbackRuns(p, m, f)) \/ CallbackLost(p, m)
    BY <1>4, TakeCallbackStep
  <2>2. ASSUME NEW f \in Frames, CallbackRuns(p, m, f) PROVE Narrows
    <3>1. stack' = Pushed(p, f) /\ f.what = "callback"
      BY <2>2 DEF CallbackRuns
    <3>2. ASSUME NEW r \in Procs PROVE handles'[r] \subseteq handles[r]
      BY <3>1, HandlesPush
    <3> QED BY <3>2 DEF Narrows
  <2>3. Narrows
    BY <1>0, <2>1, <2>2 DEF CallbackLost
  <2> QED BY <2>1, <2>3 DEF MailLeaves, CallbackTaken
<1>5. ASSUME NEW p \in Procs, NextRequest(p)
      PROVE  \E n \in 1 .. Len(lines[p]) : MailLeaves(p, n) \/ MailServed(p, n)
  <2>1. PICK m \in Messages, n \in 1 .. Len(lines[p]) :
          /\ RequestTaken(p, m, n)
          /\ (\E f \in Frames : RequestServed(p, m, f)) \/ RequestSkipped(m)
    BY <1>5, NextRequestStep
  <2>2. m = lines[p][n] /\ Drops(p, n)
    BY <2>1 DEF RequestTaken
  <2>3. ASSUME NEW f \in Frames, RequestServed(p, m, f) PROVE MailServed(p, n)
    <3>1. stack' = Pushed(p, f) /\ m.kind = "request" /\ f.call = m.call
      BY <2>3 DEF RequestServed
    <3>2. \A r \in Procs \ {p} : handles'[r] \subseteq handles[r]
      BY <3>1, HandlesPush
    <3>3. handles'[p] \subseteq handles[p] \cup {lines[p][n].call}
      BY <2>2, <3>1, HandlesPush
    <3> QED BY <2>2, <3>1, <3>2, <3>3 DEF MailServed
  <2>4. ASSUME RequestSkipped(m) PROVE MailLeaves(p, n)
    BY <1>0, <2>2, <2>4 DEF RequestSkipped, MailLeaves
  <2> QED BY <2>1, <2>3, <2>4
<1>6. ASSUME NEW p \in Procs, AppReceives(p)
      PROVE  \E n \in 1 .. Len(lines[p]) : MailLeaves(p, n)
  <2>1. PICK n \in 1 .. Len(lines[p]) : Drops(p, n)
    BY <1>6, TakenMessage
  <2>2. stack' = stack
    BY <1>6 DEF AppReceives
  <2> QED BY <1>0, <2>1, <2>2 DEF MailLeaves
<1>7. ASSUME NEW p \in Procs, Stash(p) \/ Timeout(p) \/ CallbackReturns(p)
      PROVE  lines' = lines /\ Narrows
  <2>1. lines' = lines
    BY <1>7, Stays
  <2>2. CASE Stash(p)
    BY <1>0, <2>1, <2>2 DEF Stash
  <2>3. CASE Timeout(p) \/ CallbackReturns(p)
    <3>1. stack[p] # <<>> /\ stack' = Popped(p)
      BY <2>3 DEF Timeout, EndCall, CallbackReturns, Doing
    <3> QED BY <2>1, <3>1, HandlesPop
  <2> QED BY <1>7, <2>2, <2>3
<1>8. ASSUME NEW p \in Procs, Invoke(p)
      PROVE  \E q \in Procs, m \in Messages : MailInvokes(q, m, p)
  <2>1. PICK f \in Frames, m \in Messages, to \in Procs : CallbackInvoked(p, f, m, to)
    BY <1>8, InvokeStep
  <2>2. OnTop(p, "serve", f) /\ m.kind = "callback" /\ m.call = f.call /\ Adds(to, m)
    BY <2>1 DEF CallbackInvoked
  <2>3. f.call \in handles[p]
    BY <2>2, Handling
  <2>4. stack' = stack
    BY <1>8 DEF Invoke
  <2>5. MailInvokes(to, m, p)
    BY <1>0, <2>2, <2>3, <2>4 DEF MailInvokes
  <2> QED BY <2>5
<1>9. ASSUME NEW p \in Procs, Reply(p)
      PROVE  \/ lines' = lines /\ Narrows
             \/ \E q \in Procs, m \in Messages : MailAnswers(q, m, p)
  <2>1. PICK f \in Frames :
          /\ RequestDone(p, f)
          /\ \/ f.ref = NoRef /\ lines' = lines
             \/ \E m \in Messages, to \in Procs : ReplySent(p, f, m, to)
    BY <1>9, ReplyStep
  <2>2. OnTop(p, "serve", f) /\ stack[p] # <<>> /\ stack' = Popped(p)
    BY <2>1 DEF RequestDone
  <2>3. f.call \in handles[p] /\ f.call \notin handles'[p] /\ Narrows
    BY <2>2, Handling, Handled, HandlesPop
  <2>4. ASSUME NEW m \in Messages, NEW to \in Procs, ReplySent(p, f, m, to)
        PROVE  MailAnswers(to, m, p)
    BY <2>3, <2>4 DEF ReplySent, MailAnswers
  <2> QED BY <2>1, <2>3, <2>4
<1>10. CASE UNCHANGED vars
  BY <1>0, <1>10 DEF vars, mail, lines
<1> QED BY <1>1, <1>2, <1>3, <1>4, <1>5, <1>6, <1>7, <1>8, <1>9, <1>10
        DEF Next, Proceed, Begin

\* A request or a reply for a call is in one place, and not while the call is
\* handled; one process handles it; and its reply comes after its callbacks.
Token(p, i) == lines[p][i].kind # "callback"
OneToken == \A p, q \in Procs : \A i \in 1 .. Len(lines[p]), j \in 1 .. Len(lines[q]) :
  Token(p, i) /\ Token(q, j) /\ lines[p][i].call = lines[q][j].call => p = q /\ i = j
NotHandled == \A p, q \in Procs : \A i \in 1 .. Len(lines[p]) :
  Token(p, i) => lines[p][i].call \notin handles[q]
OneHandler == \A p, q \in Procs : p # q => handles[p] \cap handles[q] = {}
LastWord == \A p \in Procs : \A i, j \in 1 .. Len(lines[p]) :
  lines[p][i].kind = "reply" /\ lines[p][j].kind = "callback" /\ lines[p][i].call = lines[p][j].call
    => j < i
\* Nothing is about that concerns a call that returned.
OverOK == \A c \in Calls : call[c].state = "ok" => \A p \in Procs :
  c \notin handles[p] /\ \A i \in 1 .. Len(lines[p]) : lines[p][i].call # c
ShelfOK == \A p \in Procs : \A i \in 1 .. Len(shelf[p]) : shelf[p][i].kind # "callback"
TokensOK == OneToken /\ NotHandled /\ OneHandler /\ LastWord

LEMMA LinesNext ==
  ASSUME DataOK, [Next]_vars, NEW p \in Procs
  PROVE  /\ lines[p] \in Seq(Messages) /\ Len(lines[p]) \in Nat
         /\ lines'[p] \in Seq(Messages) /\ Len(lines'[p]) \in Nat
<1>1. /\ shelf[p] \in Seq(Messages) /\ queue[p] \in Seq(Messages)
      /\ shelf'[p] \in Seq(Messages) /\ queue'[p] \in Seq(Messages)
  BY DataStep DEF DataOK
<1>2. lines[p] = shelf[p] \o queue[p] /\ lines'[p] = shelf'[p] \o queue'[p]
  BY DEF lines
<1>3. lines[p] \in Seq(Messages) /\ lines'[p] \in Seq(Messages)
  BY <1>1, <1>2, ConcatProperties
<1> QED BY <1>3, LenProperties

LEMMA OneTokenStep ==
  ASSUME DataOK, MentionsOK, RefsOK, NestOK, TokensOK, [Next]_vars
  PROVE  OneToken'
<1> SUFFICES ASSUME NEW p \in Procs, NEW q \in Procs,
                    NEW i \in 1 .. Len(lines'[p]), NEW j \in 1 .. Len(lines'[q]),
                    lines'[p][i].kind # "callback", lines'[q][j].kind # "callback",
                    lines'[p][i].call = lines'[q][j].call
             PROVE  p = q /\ i = j
  BY DEF OneToken, Token
<1>1. ASSUME NEW k \in 1 .. Len(lines[p]), NEW l \in 1 .. Len(lines[q]),
             lines'[p][i] = lines[p][k], lines'[q][j] = lines[q][l]
      PROVE  p = q /\ k = l
  BY <1>1 DEF TokensOK, OneToken, Token
<1>2. CASE lines' = lines
  BY <1>1, <1>2
<1>3. ASSUME NEW r \in Procs, NEW m \in Messages, Adds(r, m),
             \/ m.kind = "callback"
             \/ \A s \in Procs : \A k \in 1 .. Len(lines[s]) :
                  lines[s][k].kind # "callback" => lines[s][k].call # m.call
      PROVE  p = q /\ i = j
  <2>1. /\ \/ i \in 1 .. Len(lines[p]) /\ lines'[p][i] = lines[p][i]
           \/ p = r /\ i = Len(lines[r]) + 1 /\ lines'[p][i] = m
        /\ \/ j \in 1 .. Len(lines[q]) /\ lines'[q][j] = lines[q][j]
           \/ q = r /\ j = Len(lines[r]) + 1 /\ lines'[q][j] = m
    BY <1>3, AddedAt
  <2> QED BY <1>1, <1>3, <2>1
<1>4. ASSUME NEW r \in Procs, NEW n \in 1 .. Len(lines[r]), Drops(r, n)
      PROVE  p = q /\ i = j
  <2>1. PICK k \in 1 .. Len(lines[p]) :
          lines'[p][i] = lines[p][k] /\ k = IF p = r /\ ~(i < n) THEN i + 1 ELSE i
    BY <1>4, DroppedAt
  <2>2. PICK l \in 1 .. Len(lines[q]) :
          lines'[q][j] = lines[q][l] /\ l = IF q = r /\ ~(j < n) THEN j + 1 ELSE j
    BY <1>4, DroppedAt
  <2>3. p = q /\ k = l
    BY <1>1, <2>1, <2>2
  <2>4. i \in Nat /\ j \in Nat /\ n \in Nat
    <3>1. Len(lines'[p]) \in Nat /\ Len(lines'[q]) \in Nat /\ Len(lines[r]) \in Nat
      BY LinesNext
    <3> QED BY <3>1
  <2> QED BY <2>1, <2>2, <2>3, <2>4
<1>5. ASSUME NEW r \in Procs, NEW m \in Messages, MailAsks(r, m) PROVE p = q /\ i = j
  <2>1. Adds(r, m) /\ ~Used(m.call)
    BY <1>5 DEF MailAsks
  <2>2. \A s \in Procs : \A k \in 1 .. Len(lines[s]) : lines[s][k].call # m.call
    BY <2>1, CallsAge, MentionedAge
  <2> QED BY <1>3, <2>1, <2>2
<1>6. ASSUME NEW r \in Procs, NEW m \in Messages, NEW s \in Procs,
             MailInvokes(r, m, s) \/ MailAnswers(r, m, s)
      PROVE  p = q /\ i = j
  <2>1. Adds(r, m) /\ m.call \in handles[s]
    BY <1>6 DEF MailInvokes, MailAnswers
  <2>2. \A t \in Procs : \A k \in 1 .. Len(lines[t]) :
          lines[t][k].kind # "callback" => lines[t][k].call # m.call
    BY <2>1 DEF TokensOK, NotHandled, Token
  <2> QED BY <1>3, <2>1, <2>2
<1> QED BY <1>2, <1>4, <1>5, <1>6, MailStep DEF MailLeaves, MailServed

LEMMA NotHandledStep ==
  ASSUME DataOK, MentionsOK, RefsOK, NestOK, TokensOK, [Next]_vars
  PROVE  NotHandled' /\ OneHandler'
<1>1. ASSUME NEW p \in Procs, NEW c \in handles[p] PROVE c \in Calls /\ Used(c)
  BY MentionedAge, CallsAge DEF handles
<1>2. ASSUME Narrows PROVE OneHandler'
  BY <1>2 DEF Narrows, OneHandler, TokensOK
<1>3. ASSUME Narrows, NEW p \in Procs, NEW q \in Procs, NEW i \in 1 .. Len(lines'[p]),
             NEW k \in 1 .. Len(lines[p]), lines'[p][i] = lines[p][k],
             lines'[p][i].kind # "callback"
      PROVE  lines'[p][i].call \notin handles'[q]
  BY <1>3 DEF Narrows, NotHandled, Token, TokensOK
<1>4. CASE lines' = lines /\ Narrows
  BY <1>2, <1>4 DEF Narrows, NotHandled, Token, TokensOK
<1>5. ASSUME NEW r \in Procs, NEW m \in Messages, Adds(r, m), Narrows,
             m.kind # "callback" => \A q \in Procs : m.call \notin handles'[q]
      PROVE  NotHandled' /\ OneHandler'
  <2>1. ASSUME NEW p \in Procs, NEW q \in Procs, NEW i \in 1 .. Len(lines'[p]),
               lines'[p][i].kind # "callback"
        PROVE  lines'[p][i].call \notin handles'[q]
    <3>1. \/ i \in 1 .. Len(lines[p]) /\ lines'[p][i] = lines[p][i]
          \/ p = r /\ i = Len(lines[r]) + 1 /\ lines'[p][i] = m
      BY <1>5, AddedAt
    <3> QED BY <1>3, <1>5, <2>1, <3>1
  <2>2. NotHandled'
    BY <2>1 DEF NotHandled, Token
  <2> QED BY <1>2, <1>5, <2>2
<1>6. ASSUME NEW r \in Procs, NEW m \in Messages, MailAsks(r, m)
      PROVE  NotHandled' /\ OneHandler'
  <2>1. Adds(r, m) /\ Narrows /\ ~Used(m.call)
    BY <1>6 DEF MailAsks
  <2>2. ASSUME NEW q \in Procs PROVE m.call \notin handles'[q]
    BY <1>1, <2>1 DEF Narrows
  <2> QED BY <1>5, <2>1, <2>2
<1>7. ASSUME NEW r \in Procs, NEW m \in Messages, NEW s \in Procs, MailInvokes(r, m, s)
      PROVE  NotHandled' /\ OneHandler'
  BY <1>5, <1>7 DEF MailInvokes
<1>8. ASSUME NEW r \in Procs, NEW m \in Messages, NEW s \in Procs, MailAnswers(r, m, s)
      PROVE  NotHandled' /\ OneHandler'
  <2>1. /\ Adds(r, m) /\ Narrows /\ m.call \in handles[s] /\ m.call \notin handles'[s]
    BY <1>8 DEF MailAnswers
  <2>2. ASSUME NEW q \in Procs PROVE m.call \notin handles'[q]
    <3>1. CASE q = s
      BY <2>1, <3>1
    <3>2. CASE q # s
      <4>1. m.call \notin handles[q]
        BY <2>1, <3>2 DEF OneHandler, TokensOK
      <4> QED BY <2>1, <4>1 DEF Narrows
    <3> QED BY <3>1, <3>2
  <2> QED BY <1>5, <2>1, <2>2
<1>9. ASSUME NEW r \in Procs, NEW n \in 1 .. Len(lines[r]), MailLeaves(r, n)
      PROVE  NotHandled' /\ OneHandler'
  <2>1. Drops(r, n) /\ Narrows
    BY <1>9 DEF MailLeaves
  <2>2. ASSUME NEW p \in Procs, NEW q \in Procs, NEW i \in 1 .. Len(lines'[p]),
               lines'[p][i].kind # "callback"
        PROVE  lines'[p][i].call \notin handles'[q]
    <3>1. PICK k \in 1 .. Len(lines[p]) :
            lines'[p][i] = lines[p][k] /\ k = IF p = r /\ ~(i < n) THEN i + 1 ELSE i
      BY <2>1, DroppedAt
    <3> QED BY <1>3, <2>1, <2>2, <3>1
  <2>3. NotHandled'
    BY <2>2 DEF NotHandled, Token
  <2> QED BY <1>2, <2>1, <2>3
\* The handler that starts takes up the only request.
<1>10. ASSUME NEW r \in Procs, NEW n \in 1 .. Len(lines[r]), MailServed(r, n)
      PROVE  NotHandled' /\ OneHandler'
  <2> DEFINE c == lines[r][n].call
  <2>1. /\ Drops(r, n) /\ Token(r, n)
        /\ \A q \in Procs \ {r} : handles'[q] \subseteq handles[q]
        /\ handles'[r] \subseteq handles[r] \cup {c}
    BY <1>10 DEF MailServed, Token
  <2>2. \A q \in Procs : c \notin handles[q]
    BY <2>1 DEF NotHandled, TokensOK
  <2> HIDE DEF c
  <2>3. OneHandler'
    BY <2>1, <2>2 DEF OneHandler, TokensOK
  <2>4. ASSUME NEW p \in Procs, NEW q \in Procs, NEW i \in 1 .. Len(lines'[p]),
               lines'[p][i].kind # "callback"
        PROVE  lines'[p][i].call \notin handles'[q]
    <3>1. PICK k \in 1 .. Len(lines[p]) :
            lines'[p][i] = lines[p][k] /\ k = IF p = r /\ ~(i < n) THEN i + 1 ELSE i
      BY <2>1, DroppedAt
    <3>2. Token(p, k) /\ lines[p][k].call \notin handles[q]
      BY <2>4, <3>1 DEF NotHandled, Token, TokensOK
    <3>3. p = r => k # n
      <4>1. i \in Nat /\ n \in Nat
        <5>1. Len(lines'[p]) \in Nat /\ Len(lines[r]) \in Nat
          BY LinesNext
        <5> QED BY <5>1
      <4> QED BY <3>1, <4>1
    <3>4. lines[p][k].call # c
      BY <2>1, <3>2, <3>3 DEF OneToken, TokensOK, c
    <3> QED BY <2>1, <3>1, <3>2, <3>4
  <2>5. NotHandled'
    BY <2>4 DEF NotHandled, Token
  <2> QED BY <2>3, <2>5
<1> QED BY <1>2, <1>4, <1>6, <1>7, <1>8, <1>9, <1>10, MailStep

LEMMA LastWordStep ==
  ASSUME DataOK, MentionsOK, RefsOK, NestOK, TokensOK, [Next]_vars
  PROVE  LastWord'
<1> SUFFICES ASSUME NEW p \in Procs, NEW i \in 1 .. Len(lines'[p]), NEW j \in 1 .. Len(lines'[p]),
                    lines'[p][i].kind = "reply", lines'[p][j].kind = "callback",
                    lines'[p][i].call = lines'[p][j].call
             PROVE  j < i
  BY DEF LastWord
<1>0. Len(lines'[p]) \in Nat /\ Len(lines[p]) \in Nat /\ i \in Nat /\ j \in Nat
  <2>1. Len(lines'[p]) \in Nat /\ Len(lines[p]) \in Nat
    BY LinesNext
  <2> QED BY <2>1
<1>1. ASSUME NEW k \in 1 .. Len(lines[p]), NEW l \in 1 .. Len(lines[p]),
             lines'[p][i] = lines[p][k], lines'[p][j] = lines[p][l]
      PROVE  l < k
  BY <1>1 DEF LastWord, TokensOK
<1>2. CASE lines' = lines
  BY <1>1, <1>2
<1>3. ASSUME NEW r \in Procs, NEW m \in Messages, Adds(r, m),
             m.kind = "callback" => \A k \in 1 .. Len(lines[r]) :
               lines[r][k].kind # "callback" => lines[r][k].call # m.call
      PROVE  j < i
  <2>1. /\ \/ i \in 1 .. Len(lines[p]) /\ lines'[p][i] = lines[p][i]
           \/ p = r /\ i = Len(lines[r]) + 1 /\ lines'[p][i] = m
        /\ \/ j \in 1 .. Len(lines[p]) /\ lines'[p][j] = lines[p][j]
           \/ p = r /\ j = Len(lines[r]) + 1 /\ lines'[p][j] = m
    BY <1>3, AddedAt
  <2>2. CASE i \in 1 .. Len(lines[p]) /\ lines'[p][i] = lines[p][i]
             /\ j \in 1 .. Len(lines[p]) /\ lines'[p][j] = lines[p][j]
    BY <1>1, <2>2
  <2>3. CASE p = r /\ i = Len(lines[r]) + 1 /\ lines'[p][i] = m
    <3>1. j \in 1 .. Len(lines[p])
      BY <2>1, <2>3
    <3> QED BY <1>0, <2>3, <3>1
  <2>4. CASE /\ p = r /\ lines'[p][j] = m
             /\ i \in 1 .. Len(lines[p]) /\ lines'[p][i] = lines[p][i]
    BY <1>3, <2>4
  <2> QED BY <2>1, <2>2, <2>3, <2>4
<1>4. ASSUME NEW r \in Procs, NEW n \in 1 .. Len(lines[r]), Drops(r, n)
      PROVE  j < i
  <2>0. \A s \in Procs : \A h \in 1 .. Len(lines'[s]) : \E k \in 1 .. Len(lines[s]) :
          /\ lines'[s][h] = lines[s][k]
          /\ k = IF s = r /\ ~(h < n) THEN h + 1 ELSE h
    BY <1>4, DroppedAt
  <2>1. PICK k \in 1 .. Len(lines[p]) :
          lines'[p][i] = lines[p][k] /\ k = IF p = r /\ ~(i < n) THEN i + 1 ELSE i
    BY <2>0
  <2>2. PICK l \in 1 .. Len(lines[p]) :
          lines'[p][j] = lines[p][l] /\ l = IF p = r /\ ~(j < n) THEN j + 1 ELSE j
    BY <2>0
  <2>3. l < k
    BY <1>1, <2>1, <2>2
  <2>4. p = r => n \in Nat
    BY <1>0
  <2> QED BY <1>0, <2>1, <2>2, <2>3, <2>4
<1>5. ASSUME NEW r \in Procs, NEW m \in Messages, MailAsks(r, m) PROVE j < i
  BY <1>3, <1>5 DEF MailAsks
<1>6. ASSUME NEW r \in Procs, NEW m \in Messages, NEW s \in Procs,
             MailInvokes(r, m, s) \/ MailAnswers(r, m, s)
      PROVE  j < i
  <2>1. Adds(r, m) /\ m.call \in handles[s]
    BY <1>6 DEF MailInvokes, MailAnswers
  <2>2. \A k \in 1 .. Len(lines[r]) : lines[r][k].kind # "callback" => lines[r][k].call # m.call
    BY <2>1 DEF TokensOK, NotHandled, Token
  <2> QED BY <1>3, <2>1, <2>2
<1> QED BY <1>2, <1>4, <1>5, <1>6, MailStep DEF MailLeaves, MailServed

\* Callbacks are not stashed.
LEMMA ShelfStep ==
  ASSUME DataOK, MentionsOK, RefsOK, ShelfOK, [Next]_vars
  PROVE  ShelfOK'
<1> SUFFICES ASSUME NEW r \in Procs
             PROVE  \A i \in 1 .. Len(shelf'[r]) : shelf'[r][i].kind # "callback"
  BY DEF ShelfOK
<1>0. shelf \in [Procs -> Seq(Messages)]
  BY DEF DataOK
<1>1. CASE shelf'[r] = shelf[r]
  BY <1>1 DEF ShelfOK
<1>2. CASE shelf'[r] = <<>>
  <2>1. Len(<<>>) = 0 /\ 1 .. 0 = {}
    OBVIOUS
  <2> QED BY <1>2, <2>1
<1>3. ASSUME NEW p \in Procs, Stash(p)
      PROVE  \A i \in 1 .. Len(shelf'[r]) : shelf'[r][i].kind # "callback"
  <2>1. CASE p # r
    BY <1>0, <1>1, <1>3, <2>1 DEF Stash
  <2>2. CASE p = r
    <3>1. /\ Receive(p) /\ Head(queue[p]).kind # "callback"
          /\ shelf'[p] = Append(shelf[p], Head(queue[p]))
      BY <1>0, <1>3 DEF Stash
    <3>2. Head(queue[p]) \in Messages
      BY <3>1, Received
    <3>3. /\ Len(shelf[p]) \in Nat /\ Len(shelf'[p]) = Len(shelf[p]) + 1
          /\ \A i \in 1 .. Len(shelf[p]) : shelf'[p][i] = shelf[p][i]
          /\ shelf'[p][Len(shelf[p]) + 1] = Head(queue[p])
      BY <1>0, <3>1, <3>2, Pushing
    <3>4. ASSUME NEW i \in 1 .. Len(shelf'[p]) PROVE shelf'[p][i].kind # "callback"
      <4>1. i \in 1 .. Len(shelf[p]) \/ i = Len(shelf[p]) + 1
        BY <3>3
      <4> QED BY <3>1, <3>3, <4>1 DEF ShelfOK
    <3> QED BY <2>2, <3>4
  <2> QED BY <2>1, <2>2
<1>4. ASSUME NEW p \in Procs, TakeReply(p) \/ Timeout(p)
      PROVE  shelf'[r] = shelf[r] \/ shelf'[r] = <<>>
  BY <1>0, <1>4 DEF TakeReply, Timeout, EndCall
<1>5. ASSUME NEW p \in Procs,
             TakeCallback(p) \/ CallbackReturns(p) \/ AppReceives(p) \/ NextRequest(p)
      PROVE  shelf' = shelf
  BY <1>5 DEF TakeCallback, CallbackReturns, mail, AppReceives, NextRequest
<1>6. ASSUME NEW p \in Procs, Reply(p) \/ Invoke(p) PROVE shelf' = shelf
  BY <1>6 DEF Reply, Invoke
<1>7. ASSUME NEW p \in Procs, NEW q \in Procs, NEW c \in Calls,
             (\E timed, lend \in BOOLEAN : Call(p, q, c, timed, lend)) \/ Cast(p, q, c)
      PROVE  shelf' = shelf
  BY <1>7 DEF Call, Cast
<1>8. UNCHANGED vars => shelf' = shelf
  BY DEF vars, mail
<1> QED BY <1>1, <1>2, <1>3, <1>4, <1>5, <1>6, <1>7, <1>8 DEF Next, Proceed, Begin

\* What is stashed comes first.
LEMMA InFront ==
  ASSUME NEW S, NEW x \in Seq(S), NEW y \in Seq(S), NEW j \in 1 .. Len(x)
  PROVE  (x \o y)[j] = x[j]
<1>1. Len(x) \in Nat /\ Len(y) \in Nat
  BY LenProperties
<1>2. j \in 1 .. Len(x) + Len(y) /\ j <= Len(x)
  BY <1>1
<1> QED BY <1>2, ConcatProperties

\* When a call gets its answer, nothing that concerns it is left.
LEMMA AnswerIsLast ==
  ASSUME DataOK, MentionsOK, RefsOK, NestOK, TokensOK, ShelfOK, [Next]_vars,
         NEW p \in Procs, NEW c \in Calls, AnswerOf(p, c)
  PROVE  /\ \A q \in Procs : c \notin handles'[q]
         /\ \A q \in Procs : \A i \in 1 .. Len(lines'[q]) : lines'[q][i].call # c
<1>1. PICK f \in Frames, m \in Messages, n \in 1 .. Len(lines[p]) :
        ReplyTaken(p, f, m, n) /\ f.call = c
  BY DEF AnswerOf
<1>2. /\ OnTop(p, "call", f) /\ stack[p] # <<>> /\ stack' = Popped(p) /\ Drops(p, n)
      /\ n = Len(shelf[p]) + 1 /\ lines[p][n] = m /\ m.kind = "reply" /\ m.call = c
  BY <1>1 DEF ReplyTaken, OnTop
<1>3. Token(p, n) /\ lines[p][n].call = c
  BY <1>2 DEF Token
<1>4. ASSUME NEW q \in Procs PROVE c \notin handles'[q]
  <2>1. c \notin handles[q]
    BY <1>3 DEF NotHandled, TokensOK
  <2>2. Narrows
    BY <1>2, HandlesPop
  <2> QED BY <2>1, <2>2 DEF Narrows
\* What else is about the call came before: it was stashed, and is not a callback.
<1>5. ASSUME NEW q \in Procs, NEW j \in 1 .. Len(lines[q]), lines[q][j].call = c
      PROVE  q = p /\ j = n
  <2>1. CASE Token(q, j)
    BY <1>3, <1>5, <2>1 DEF OneToken, TokensOK
  <2>2. CASE ~Token(q, j)
    <3>1. lines[q][j].kind = "callback" /\ MessageOK(q, lines[q][j])
      BY <2>2, LinesNext, ElementOfSeq DEF Token, MentionsOK, MailOK
    <3>2. call[c].from = q /\ call[c].from = p
      BY <1>2, <1>5, <3>1, <1>1 DEF MessageOK, OnTop, FrameOK
    <3>3. j < n
      BY <1>2, <1>3, <1>5, <3>1, <3>2 DEF LastWord, TokensOK
    <3>4. /\ shelf[p] \in Seq(Messages) /\ queue[p] \in Seq(Messages)
          /\ lines[p] = shelf[p] \o queue[p]
      BY DEF DataOK, lines
    <3>5. Len(shelf[p]) \in Nat /\ Len(lines[p]) \in Nat
      BY <3>4, LinesNext, LenProperties
    <3>6. j \in 1 .. Len(shelf[p])
      BY <1>2, <3>2, <3>3, <3>5
    <3>7. lines[p][j] = shelf[p][j]
      <4>1. (shelf[p] \o queue[p])[j] = shelf[p][j]
        BY <3>4, <3>6, InFront
      <4> QED BY <3>4, <4>1
    <3>8. shelf[p][j].kind # "callback"
      BY <3>6 DEF ShelfOK
    <3> QED BY <3>1, <3>2, <3>7, <3>8
  <2> QED BY <2>1, <2>2
<1>6. ASSUME NEW q \in Procs, NEW i \in 1 .. Len(lines'[q]) PROVE lines'[q][i].call # c
  <2>0. \A s \in Procs : \A h \in 1 .. Len(lines'[s]) : \E k \in 1 .. Len(lines[s]) :
          /\ lines'[s][h] = lines[s][k]
          /\ k = IF s = p /\ ~(h < n) THEN h + 1 ELSE h
    BY <1>2, DroppedAt
  <2>1. PICK k \in 1 .. Len(lines[q]) :
          lines'[q][i] = lines[q][k] /\ k = IF q = p /\ ~(i < n) THEN i + 1 ELSE i
    BY <2>0
  <2>2. Len(lines'[q]) \in Nat /\ Len(lines[p]) \in Nat
    BY LinesNext
  <2>3. ~(q = p /\ k = n)
    BY <2>1, <2>2
  <2> QED BY <1>5, <2>1, <2>3
<1> QED BY <1>4, <1>6

LEMMA OverStep ==
  ASSUME DataOK, MentionsOK, RefsOK, NestOK, TokensOK, OverOK, ShelfOK, [Next]_vars
  PROVE  OverOK'
<1> SUFFICES ASSUME NEW c \in Calls, call'[c].state = "ok"
             PROVE  /\ \A p \in Procs : c \notin handles'[p]
                    /\ \A p \in Procs : \A i \in 1 .. Len(lines'[p]) : lines'[p][i].call # c
  BY DEF OverOK
<1>1. Used(c)
  <2>1. Used(c)'
    BY DEF Used
  <2> QED BY <2>1, NewCallState
<1>2. ASSUME NEW p \in Procs, CallEnds(p, c)
      PROVE  /\ \A q \in Procs : c \notin handles'[q]
             /\ \A q \in Procs : \A i \in 1 .. Len(lines'[q]) : lines'[q][i].call # c
  <2>1. AnswerOf(p, c)
    BY <1>2 DEF CallEnds
  <2> QED BY <2>1, AnswerIsLast
<1>3. ASSUME StateStays(c)
      PROVE  /\ \A q \in Procs : c \notin handles'[q]
             /\ \A q \in Procs : \A i \in 1 .. Len(lines'[q]) : lines'[q][i].call # c
  <2>1. /\ \A q \in Procs : c \notin handles[q]
        /\ \A q \in Procs : \A i \in 1 .. Len(lines[q]) : lines[q][i].call # c
    BY <1>3 DEF StateStays, OverOK
  <2>2. Narrows => \A q \in Procs : c \notin handles'[q]
    BY <2>1 DEF Narrows
  <2>3. CASE lines' = lines /\ Narrows
    BY <2>1, <2>2, <2>3
  <2>4. ASSUME NEW r \in Procs, NEW m \in Messages, Adds(r, m), m.call # c
        PROVE  \A q \in Procs : \A i \in 1 .. Len(lines'[q]) : lines'[q][i].call # c
    <3>1. ASSUME NEW q \in Procs, NEW i \in 1 .. Len(lines'[q]) PROVE lines'[q][i].call # c
      <4>1. \/ i \in 1 .. Len(lines[q]) /\ lines'[q][i] = lines[q][i]
            \/ q = r /\ i = Len(lines[r]) + 1 /\ lines'[q][i] = m
        BY <2>4, AddedAt
      <4> QED BY <2>1, <2>4, <4>1
    <3> QED BY <3>1
  <2>5. ASSUME NEW r \in Procs, NEW n \in 1 .. Len(lines[r]), Drops(r, n)
        PROVE  \A q \in Procs : \A i \in 1 .. Len(lines'[q]) : lines'[q][i].call # c
    <3>1. ASSUME NEW q \in Procs, NEW i \in 1 .. Len(lines'[q]) PROVE lines'[q][i].call # c
      <4>1. PICK k \in 1 .. Len(lines[q]) :
              lines'[q][i] = lines[q][k] /\ k = IF q = r /\ ~(i < n) THEN i + 1 ELSE i
        BY <2>5, DroppedAt
      <4> QED BY <2>1, <4>1
    <3> QED BY <3>1
  <2>6. ASSUME NEW r \in Procs, NEW m \in Messages, MailAsks(r, m)
        PROVE  Adds(r, m) /\ m.call # c /\ Narrows
    BY <1>1, <2>6 DEF MailAsks
  <2>7. ASSUME NEW r \in Procs, NEW m \in Messages, NEW s \in Procs,
               MailInvokes(r, m, s) \/ MailAnswers(r, m, s)
        PROVE  Adds(r, m) /\ m.call # c /\ Narrows
    <3>1. Adds(r, m) /\ m.call \in handles[s] /\ Narrows
      BY <2>7 DEF MailInvokes, MailAnswers
    <3> QED BY <2>1, <3>1
  <2>8. ASSUME NEW r \in Procs, NEW n \in 1 .. Len(lines[r]), MailLeaves(r, n) \/ MailServed(r, n)
        PROVE  Drops(r, n) /\ \A q \in Procs : c \notin handles'[q]
    <3>1. CASE MailLeaves(r, n)
      BY <2>2, <3>1 DEF MailLeaves
    <3>2. CASE MailServed(r, n)
      <4>1. lines[r][n].call # c
        BY <2>1
      <4>2. ASSUME NEW q \in Procs PROVE c \notin handles'[q]
        BY <2>1, <3>2, <4>1 DEF MailServed
      <4> QED BY <3>2, <4>2 DEF MailServed
    <3> QED BY <2>8, <3>1, <3>2
  <2> QED BY <2>2, <2>3, <2>4, <2>5, <2>6, <2>7, <2>8, MailStep
<1> QED BY <1>1, <1>2, <1>3, StateStep

-----------------------------------------------------------------------------
(* Invocations: made, under way, run.                                      *)

Places(L, c) == {i \in 1 .. Len(L) : L[i].kind = "callback" /\ L[i].call = c}
UnderWay(L, c) == Cardinality(Places(L, c))

LEMMA PlacesFinite ==
  ASSUME NEW L \in Seq(Messages), NEW c
  PROVE  IsFiniteSet(Places(L, c)) /\ UnderWay(L, c) \in Nat
<1>1. Len(L) \in Nat /\ 1 \in Int /\ Len(L) \in Int
  BY LenProperties
<1>2. IsFiniteSet(1 .. Len(L))
  BY <1>1, FS_Interval
<1>3. Places(L, c) \in SUBSET (1 .. Len(L))
  BY DEF Places
<1>4. IsFiniteSet(Places(L, c))
  BY <1>2, <1>3, FS_Subset
<1> QED BY <1>4, FS_CardinalityType DEF UnderWay

LEMMA NoneUnderWay ==
  ASSUME NEW L, NEW c, \A i \in 1 .. Len(L) : ~(L[i].kind = "callback" /\ L[i].call = c)
  PROVE  UnderWay(L, c) = 0
<1>1. Places(L, c) = {}
  BY DEF Places
<1> QED BY <1>1, FS_EmptySet DEF UnderWay

LEMMA OneMoreUnderWay ==
  ASSUME NEW L \in Seq(Messages), NEW m \in Messages, NEW c
  PROVE  UnderWay(Append(L, m), c) =
           IF m.kind = "callback" /\ m.call = c THEN UnderWay(L, c) + 1 ELSE UnderWay(L, c)
<1> DEFINE M == Append(L, m)
<1>1. /\ Len(L) \in Nat /\ Len(M) = Len(L) + 1 /\ M[Len(L) + 1] = m
      /\ \A i \in 1 .. Len(L) : M[i] = L[i]
  BY Pushing
<1> HIDE DEF M
<1>2. IsFiniteSet(Places(L, c))
  BY PlacesFinite
<1>3. CASE m.kind = "callback" /\ m.call = c
  <2>1. Places(M, c) = Places(L, c) \cup {Len(L) + 1}
    BY <1>1, <1>3 DEF Places
  <2>2. Len(L) + 1 \notin Places(L, c)
    BY <1>1 DEF Places
  <2>3. Cardinality(Places(M, c)) = Cardinality(Places(L, c)) + 1
    BY <1>2, <2>1, <2>2, FS_AddElement
  <2> QED BY <1>3, <2>3 DEF UnderWay, M
<1>4. CASE ~(m.kind = "callback" /\ m.call = c)
  <2>1. Places(M, c) = Places(L, c)
    BY <1>1, <1>4 DEF Places
  <2> QED BY <1>4, <2>1 DEF UnderWay, M
<1> QED BY <1>3, <1>4

LEMMA OneLessUnderWay ==
  ASSUME NEW L \in Seq(Messages), NEW n \in 1 .. Len(L), NEW c
  PROVE  UnderWay(RemoveAt(L, n), c) =
           IF L[n].kind = "callback" /\ L[n].call = c THEN UnderWay(L, c) - 1 ELSE UnderWay(L, c)
<1> DEFINE M == RemoveAt(L, n)
           S == Places(M, c)
           T == Places(L, c) \ {n}
           at == [i \in S |-> IF i < n THEN i ELSE i + 1]
<1>1. /\ Len(L) \in Nat /\ Len(M) = Len(L) - 1 /\ M \in Seq(Messages)
      /\ \A i \in 1 .. Len(L) - 1 : M[i] = IF i < n THEN L[i] ELSE L[i + 1]
  BY Removing
<1> HIDE DEF M
<1>2. ASSUME NEW i \in S
      PROVE  /\ i \in Nat /\ (IF i < n THEN i ELSE i + 1) \in T
  <2>1. i \in 1 .. Len(L) - 1 /\ M[i].kind = "callback" /\ M[i].call = c
    BY <1>1 DEF Places
  <2>2. CASE i < n
    BY <1>1, <2>1, <2>2 DEF Places
  <2>3. CASE ~(i < n)
    <3>1. i + 1 \in 1 .. Len(L) /\ i + 1 # n /\ M[i] = L[i + 1]
      BY <1>1, <2>1, <2>3
    <3> QED BY <2>1, <2>3, <3>1 DEF Places
  <2> QED BY <2>1, <2>2, <2>3
<1>3. ASSUME NEW j \in T
      PROVE  \E i \in S : (IF i < n THEN i ELSE i + 1) = j
  <2>1. j \in 1 .. Len(L) /\ j # n /\ L[j].kind = "callback" /\ L[j].call = c
    BY DEF Places
  <2>2. CASE j < n
    <3>1. j \in 1 .. Len(M) /\ M[j] = L[j]
      BY <1>1, <2>1, <2>2
    <3>2. j \in S
      BY <2>1, <3>1 DEF Places
    <3> QED BY <2>2, <3>2
  <2>3. CASE ~(j < n)
    <3>1. j - 1 \in 1 .. Len(M) /\ ~(j - 1 < n) /\ (j - 1) + 1 = j
      BY <1>1, <2>1, <2>3
    <3>2. M[j - 1] = L[j]
      BY <1>1, <3>1
    <3>3. j - 1 \in S
      BY <2>1, <3>1, <3>2 DEF Places
    <3> QED BY <3>1, <3>3
  <2> QED BY <2>2, <2>3
<1> HIDE DEF S, T
<1>4. at \in Bijection(S, T)
  <2>1. at \in [S -> T]
    BY <1>2
  <2>2. \A i, j \in S : at[i] = at[j] => i = j
    BY <1>2
  <2>3. \A t \in T : \E i \in S : at[i] = t
    BY <1>3
  <2> HIDE DEF at
  <2>4. at \in Injection(S, T)
    BY <2>1, <2>2 DEF Injection, IsInjective
  <2>5. at \in Surjection(S, T)
    BY <2>1, <2>3 DEF Surjection
  <2> QED BY <2>4, <2>5 DEF Bijection
<1>5. IsFiniteSet(S) /\ IsFiniteSet(Places(L, c))
  BY <1>1, PlacesFinite DEF S
<1>6. Cardinality(S) = Cardinality(T)
  <2>1. ExistsBijection(S, T)
    BY <1>4 DEF ExistsBijection
  <2> QED BY <1>5, <2>1, FS_Bijection
<1>7. Cardinality(T) = IF n \in Places(L, c) THEN Cardinality(Places(L, c)) - 1
                       ELSE Cardinality(Places(L, c))
  BY <1>5, FS_RemoveElement DEF T
<1>8. n \in Places(L, c) <=> L[n].kind = "callback" /\ L[n].call = c
  BY DEF Places
<1> QED BY <1>6, <1>7, <1>8 DEF UnderWay, S, M

\* What a step does to what is counted.
SameTally(c) == call'[c].invoked = call[c].invoked /\ call'[c].ran = call[c].ran
TallyStays == \A c \in Calls : Used(c) => SameTally(c)
OtherSent(q, m) == Adds(q, m) /\ m.kind # "callback" /\ TallyStays
InvocationSent(q, m) ==
  /\ Adds(q, m) /\ m.kind = "callback" /\ q = call[m.call].from
  /\ call' = [call EXCEPT ![m.call].invoked = @ + 1]
OtherTaken(p, n) ==
  /\ Drops(p, n) /\ TallyStays
  /\ lines[p][n].kind = "callback" =>
       stack[p] = <<>> \/ (Doing(p, "call") /\ lines[p][n].lent \notin callbacks[p])
InvocationRuns(p, n) ==
  /\ Drops(p, n) /\ lines[p][n].kind = "callback"
  /\ call' = [call EXCEPT ![lines[p][n].call].ran = @ + 1]

LEMMA Tallying ==
  ASSUME call \in [Calls -> CallRecords], NEW c \in Calls, NEW d \in Calls
  PROVE  /\ \A s \in {"ok", "timeout"}, a \in Nat :
              call' = [call EXCEPT ![c].state = s, ![c].answer = a] => SameTally(d)
         /\ call' = [call EXCEPT ![c].ran = @ + 1] =>
              /\ call'[d].invoked = call[d].invoked
              /\ call'[d].ran = IF d = c THEN call[d].ran + 1 ELSE call[d].ran
         /\ call' = [call EXCEPT ![c].invoked = @ + 1] =>
              /\ call'[d].invoked = IF d = c THEN call[d].invoked + 1 ELSE call[d].invoked
              /\ call'[d].ran = call[d].ran
BY DEF CallRecords, SameTally

LEMMA TallyStep ==
  ASSUME DataOK, MentionsOK, RefsOK, [Next]_vars
  PROVE  \/ lines' = lines /\ TallyStays
         \/ \E q \in Procs, m \in Messages : OtherSent(q, m) \/ InvocationSent(q, m)
         \/ \E p \in Procs : \E n \in 1 .. Len(lines[p]) : OtherTaken(p, n) \/ InvocationRuns(p, n)
<1>0. call \in [Calls -> CallRecords]
  BY DEF DataOK
<1>1. call' = call => TallyStays
  BY DEF TallyStays, SameTally
<1>2. ASSUME NEW p \in Procs, NEW q \in Procs, NEW c \in Calls,
             NEW timed \in BOOLEAN, NEW lend \in BOOLEAN, Call(p, q, c, timed, lend)
      PROVE  \E m \in Messages : OtherSent(q, m)
  <2>1. PICK ref \in Nat, id \in Nat, m \in Messages, f \in Frames :
          CallMade(p, q, c, timed, ref, id, m, f)
    BY <1>2, CallStep
  <2>2. m.kind = "request" /\ Adds(q, m)
    BY <2>1 DEF CallMade
  <2>3. ~Used(c)
    BY <1>2 DEF Call, Fresh, Used
  <2>4. ASSUME NEW d \in Calls, Used(d) PROVE SameTally(d)
    <3>1. call'[d] = call[d] \/ call'[d] = [call[d] EXCEPT !.nested = TRUE]
      BY <1>2, <2>3, <2>4, CallOthers
    <3>2. call[d] \in CallRecords
      BY <1>0
    <3> QED BY <3>1, <3>2 DEF SameTally, CallRecords
  <2> QED BY <2>2, <2>4 DEF OtherSent, TallyStays
<1>3. ASSUME NEW p \in Procs, NEW q \in Procs, NEW c \in Calls, Cast(p, q, c)
      PROVE  \E m \in Messages : OtherSent(q, m)
  <2>1. PICK m \in Messages : CastMade(p, q, c, m)
    BY <1>3, CastStep
  <2>2. m.kind = "request" /\ Adds(q, m)
    BY <2>1 DEF CastMade
  <2>3. ~Used(c)
    BY <1>3 DEF Cast, Fresh, Used
  <2>4. ASSUME NEW d \in Calls, Used(d) PROVE SameTally(d)
    <3>1. call'[d] = call[d]
      BY <1>3, <2>3, <2>4, CastCalls
    <3> QED BY <3>1 DEF SameTally
  <2> QED BY <2>2, <2>4 DEF OtherSent, TallyStays
<1>4. ASSUME NEW p \in Procs, TakeReply(p)
      PROVE  \E n \in 1 .. Len(lines[p]) : OtherTaken(p, n)
  <2>1. PICK f \in Frames, m \in Messages, n \in 1 .. Len(lines[p]) : ReplyTaken(p, f, m, n)
    BY <1>4, TakeReplyStep
  <2>2. /\ Drops(p, n) /\ lines[p][n].kind = "reply" /\ f.call \in Calls
        /\ call' = [call EXCEPT ![f.call].state = "ok", ![f.call].answer = f.call]
    BY <2>1 DEF ReplyTaken, OnTop
  <2>3. f.call \in Nat
    BY <2>2, BoundsAssumption DEF Calls
  <2>4. TallyStays
    BY <1>0, <2>2, <2>3, Tallying DEF TallyStays
  <2> QED BY <2>2, <2>4 DEF OtherTaken
<1>5. ASSUME NEW p \in Procs, Timeout(p) PROVE lines' = lines /\ TallyStays
  <2>1. PICK f \in Frames : CallLate(p, f)
    BY <1>5, TimeoutStep
  <2>2. /\ lines' = lines /\ f.call \in Calls
        /\ call' = [call EXCEPT ![f.call].state = "timeout", ![f.call].answer = 0]
    BY <2>1 DEF CallLate, OnTop
  <2> QED BY <1>0, <2>2, Tallying DEF TallyStays
<1>6. ASSUME NEW p \in Procs, TakeCallback(p)
      PROVE  \E n \in 1 .. Len(lines[p]) : OtherTaken(p, n) \/ InvocationRuns(p, n)
  <2>1. PICK m \in Messages, n \in 1 .. Len(lines[p]) :
          /\ CallbackTaken(p, m, n)
          /\ (\E f \in Frames : CallbackRuns(p, m, f)) \/ CallbackLost(p, m)
    BY <1>6, TakeCallbackStep
  <2>2. m.kind = "callback" /\ m = lines[p][n] /\ Drops(p, n)
    BY <2>1 DEF CallbackTaken
  <2>3. ASSUME NEW f \in Frames, CallbackRuns(p, m, f) PROVE InvocationRuns(p, n)
    BY <2>2, <2>3 DEF CallbackRuns, InvocationRuns
  <2>4. ASSUME CallbackLost(p, m) PROVE OtherTaken(p, n)
    <3>1. Doing(p, "call")
      BY <1>6 DEF TakeCallback
    <3>2. call' = call /\ m.lent \notin callbacks[p]
      BY <2>4 DEF CallbackLost
    <3> QED BY <1>1, <2>2, <3>1, <3>2 DEF OtherTaken
  <2> QED BY <2>1, <2>3, <2>4
<1>7. ASSUME NEW p \in Procs, AppReceives(p) \/ NextRequest(p)
      PROVE  \E n \in 1 .. Len(lines[p]) : OtherTaken(p, n)
  <2>1. PICK n \in 1 .. Len(lines[p]) : Drops(p, n)
    BY <1>7, TakenMessage
  <2>2. stack[p] = <<>> /\ call' = call
    BY <1>7 DEF AppReceives, NextRequest, Idle
  <2> QED BY <1>1, <2>1, <2>2 DEF OtherTaken
<1>8. ASSUME NEW p \in Procs, Stash(p) \/ CallbackReturns(p) PROVE lines' = lines /\ TallyStays
  BY <1>1, <1>8, Stays, QuietSteps
<1>9. ASSUME NEW p \in Procs, Invoke(p)
      PROVE  \E q \in Procs, m \in Messages : InvocationSent(q, m)
  <2>1. PICK f \in Frames, m \in Messages, to \in Procs : CallbackInvoked(p, f, m, to)
    BY <1>9, InvokeStep
  <2>2. InvocationSent(to, m)
    BY <2>1 DEF CallbackInvoked, InvocationSent
  <2> QED BY <2>2
<1>10. ASSUME NEW p \in Procs, Reply(p)
      PROVE  \/ lines' = lines /\ TallyStays
             \/ \E q \in Procs, m \in Messages : OtherSent(q, m)
  <2>1. PICK f \in Frames :
          /\ RequestDone(p, f)
          /\ \/ f.ref = NoRef /\ lines' = lines
             \/ \E m \in Messages, to \in Procs : ReplySent(p, f, m, to)
    BY <1>10, ReplyStep
  <2>2. TallyStays
    BY <1>1, <2>1 DEF RequestDone
  <2>3. ASSUME NEW m \in Messages, NEW to \in Procs, ReplySent(p, f, m, to) PROVE OtherSent(to, m)
    BY <2>2, <2>3 DEF ReplySent, OtherSent
  <2> QED BY <2>1, <2>2, <2>3
<1>11. UNCHANGED vars => lines' = lines /\ TallyStays
  BY <1>1 DEF vars, mail, lines
<1> QED BY <1>2, <1>3, <1>4, <1>5, <1>6, <1>7, <1>8, <1>9, <1>10, <1>11
        DEF Next, Proceed, Begin

\* What was invoked has run or is under way, as long as the closure does not
\* call in turn.
RanOK == \A c \in Calls : call[c].state \in {"open", "ok"} /\ ~call[c].nested =>
  call[c].invoked = call[c].ran + UnderWay(lines[call[c].from], c)

\* Such a closure is there for an invocation that is taken.
LEMMA ClosureIsThere ==
  ASSUME DataOK, MentionsOK, RefsOK, OpenOK, BusyOK, ReachOK, OverOK,
         NEW p \in Procs, NEW n \in 1 .. Len(lines[p]), OtherTaken(p, n),
         lines[p][n].kind = "callback",
         call[lines[p][n].call].state \in {"open", "ok"}, ~call[lines[p][n].call].nested
  PROVE  FALSE
<1>0. lines[p] \in Seq(Messages) /\ stack[p] \in Seq(Frames)
  BY LinesType DEF DataOK
<1>1. PICK c \in Calls : c = lines[p][n].call
  <2>1. lines[p][n] \in Messages
    BY <1>0, ElementOfSeq
  <2> QED BY <2>1 DEF Messages
<1>2. call[c].from = p /\ lines[p][n].lent = call[c].lent /\ call[c].lent # NoRef
  BY <1>1 DEF MentionsOK, MailOK, MessageOK
<1>3. call[c].state = "open"
  BY <1>1 DEF OverOK
<1>4. PICK i \in 1 .. Len(stack[p]) : stack[p][i].what = "call" /\ stack[p][i].call = c
  BY <1>2, <1>3 DEF OpenOK
<1>5. stack[p] # <<>>
  <2>1. Len(<<>>) = 0 /\ 1 .. 0 = {}
    OBVIOUS
  <2> QED BY <1>4, <2>1
<1>6. Doing(p, "call") /\ call[c].lent \notin callbacks[p]
  BY <1>2, <1>5 DEF OtherTaken
<1>7. PICK j \in 1 .. Len(stack[p]) : stack[p][j].what = "callback" /\ stack[p][j].call = c
  BY <1>2, <1>3, <1>6 DEF ReachOK
<1>8. Len(stack[p]) \in Nat /\ stack[p][Len(stack[p])].what = "call"
  BY <1>0, <1>5, <1>6, Popping DEF Doing
<1>9. j < Len(stack[p])
  BY <1>7, <1>8
<1> QED BY <1>1, <1>7, <1>9 DEF BusyOK

LEMMA NewTally ==
  ASSUME DataOK, MentionsOK, RefsOK, [Next]_vars, NEW c \in Calls, ~Used(c),
         call'[c].state \in {"open", "ok"}
  PROVE  call'[c].invoked = call'[c].ran + UnderWay(lines'[call'[c].from], c)
<1>1. Used(c)'
  BY DEF Used
<1>2. PICK p \in Procs, q \in Procs :
        (\E timed, lend \in BOOLEAN : Call(p, q, c, timed, lend)) \/ Cast(p, q, c)
  BY <1>1, NewCalls
<1>3. CASE Cast(p, q, c)
  BY <1>3, CastCalls
<1>4. CASE \E timed, lend \in BOOLEAN : Call(p, q, c, timed, lend)
  <2>1. PICK timed \in BOOLEAN, lend \in BOOLEAN : Call(p, q, c, timed, lend)
    BY <1>4
  <2>2. PICK ref \in Nat, id \in Nat, m \in Messages, f \in Frames :
          CallMade(p, q, c, timed, ref, id, m, f)
    BY <2>1, CallStep
  <2>3. /\ m.kind = "request" /\ Adds(q, m) /\ call'[c].from = p
        /\ call'[c].invoked = 0 /\ call'[c].ran = 0
    BY <2>2 DEF CallMade, CallWith
  <2>4. ASSUME NEW i \in 1 .. Len(lines'[p])
        PROVE  ~(lines'[p][i].kind = "callback" /\ lines'[p][i].call = c)
    <3>1. \/ i \in 1 .. Len(lines[p]) /\ lines'[p][i] = lines[p][i]
          \/ p = q /\ i = Len(lines[q]) + 1 /\ lines'[p][i] = m
      BY <2>3, AddedAt
    <3>2. \A k \in 1 .. Len(lines[p]) : Used(lines[p][k].call)
      BY CallsAge, MentionedAge
    <3> QED BY <2>3, <3>1, <3>2
  <2>5. UnderWay(lines'[p], c) = 0
    BY <2>4, NoneUnderWay
  <2> QED BY <2>3, <2>5
<1> QED BY <1>2, <1>3, <1>4

LEMMA RanStep ==
  ASSUME DataOK, MentionsOK, RefsOK, OpenOK, PendingOK, BusyOK, ReachOK, OverOK, RanOK,
         [Next]_vars
  PROVE  RanOK'
<1> SUFFICES ASSUME NEW c \in Calls, call'[c].state \in {"open", "ok"}, ~call'[c].nested
             PROVE  call'[c].invoked = call'[c].ran + UnderWay(lines'[call'[c].from], c)
  BY DEF RanOK
<1>1. CASE ~Used(c)
  BY <1>1, NewTally
<1>2. CASE Used(c)
  <2>0. PICK r \in Procs : call[c].from = r
    BY <1>2 DEF RefsOK
  <2>1. call'[c].from = r
    BY <1>2, <2>0, CallsAge DEF Ages
  <2>2. call[c].state \in {"open", "ok"}
    <3>1. CASE StateStays(c)
      BY <3>1 DEF StateStays
    <3>2. ASSUME NEW p \in Procs, CallEnds(p, c) PROVE call[c].state = "open"
      <4>1. PICK f \in Frames : OnTop(p, "call", f) /\ f.call = c
        BY <3>2 DEF CallEnds
      <4>2. /\ Len(stack[p]) \in 1 .. Len(stack[p]) /\ stack[p][Len(stack[p])] = f
            /\ f.what = "call"
        BY <4>1 DEF OnTop
      <4> QED BY <4>1, <4>2 DEF PendingOK
    <3> QED BY <1>2, <3>1, <3>2, StateStep
  <2>3. ~call[c].nested
    BY <1>2, NestedStays
  <2> DEFINE a == call[c].invoked
             b == call[c].ran
             u == UnderWay(lines[r], c)
  <2>4. a = b + u
    BY <2>0, <2>2, <2>3 DEF RanOK
  <2>5. a \in Nat /\ b \in Nat
    BY DEF DataOK, CallRecords
  <2>6. lines \in [Procs -> Seq(Messages)] /\ lines[r] \in Seq(Messages) /\ u \in Nat
    BY LinesType, PlacesFinite
  <2> SUFFICES call'[c].invoked = call'[c].ran + UnderWay(lines'[r], c)
    BY <2>1
  <2> HIDE DEF a, b, u
  <2>7. ASSUME TallyStays, UnderWay(lines'[r], c) = u
        PROVE  call'[c].invoked = call'[c].ran + UnderWay(lines'[r], c)
    <3>1. call'[c].invoked = a /\ call'[c].ran = b
      BY <1>2, <2>7 DEF TallyStays, SameTally, a, b
    <3> QED BY <2>4, <2>7, <3>1
  <2>8. CASE lines' = lines /\ TallyStays
    <3>1. UnderWay(lines'[r], c) = u
      BY <2>8 DEF u
    <3> QED BY <2>7, <2>8, <3>1
  <2>9. ASSUME NEW q \in Procs, NEW m \in Messages, Adds(q, m)
        PROVE  UnderWay(lines'[r], c) =
                 IF q = r /\ m.kind = "callback" /\ m.call = c THEN u + 1 ELSE u
    <3>1. CASE q = r
      <4>1. lines'[r] = Append(lines[r], m)
        BY <2>6, <2>9, <3>1 DEF Adds
      <4>2. UnderWay(Append(lines[r], m), c) =
              IF m.kind = "callback" /\ m.call = c
                THEN UnderWay(lines[r], c) + 1 ELSE UnderWay(lines[r], c)
        BY <2>6, OneMoreUnderWay
      <4> QED BY <3>1, <4>1, <4>2 DEF u
    <3>2. CASE q # r
      <4>1. lines'[r] = lines[r]
        BY <2>6, <2>9, <3>2 DEF Adds
      <4> QED BY <3>2, <4>1 DEF u
    <3> QED BY <3>1, <3>2
  <2>10. ASSUME NEW p \in Procs, NEW n \in 1 .. Len(lines[p]), Drops(p, n)
        PROVE  UnderWay(lines'[r], c) =
                 IF p = r /\ lines[p][n].kind = "callback" /\ lines[p][n].call = c
                   THEN u - 1 ELSE u
    <3>1. CASE p = r
      <4>1. lines'[r] = RemoveAt(lines[r], n)
        BY <2>6, <2>10, <3>1 DEF Drops
      <4>2. UnderWay(RemoveAt(lines[r], n), c) =
              IF lines[r][n].kind = "callback" /\ lines[r][n].call = c
                THEN UnderWay(lines[r], c) - 1 ELSE UnderWay(lines[r], c)
        BY <2>6, <3>1, OneLessUnderWay
      <4> QED BY <3>1, <4>1, <4>2 DEF u
    <3>2. CASE p # r
      <4>1. lines'[r] = lines[r]
        BY <2>6, <2>10, <3>2 DEF Drops
      <4> QED BY <3>2, <4>1 DEF u
    <3> QED BY <3>1, <3>2
  <2>11. ASSUME NEW q \in Procs, NEW m \in Messages, OtherSent(q, m)
        PROVE  call'[c].invoked = call'[c].ran + UnderWay(lines'[r], c)
    <3>1. Adds(q, m) /\ m.kind # "callback" /\ TallyStays
      BY <2>11 DEF OtherSent
    <3>2. UnderWay(lines'[r], c) = u
      BY <2>9, <3>1
    <3> QED BY <2>7, <3>1, <3>2
  <2>12. ASSUME NEW q \in Procs, NEW m \in Messages, InvocationSent(q, m)
        PROVE  call'[c].invoked = call'[c].ran + UnderWay(lines'[r], c)
    <3>1. /\ Adds(q, m) /\ m.kind = "callback" /\ q = call[m.call].from /\ m.call \in Calls
          /\ call' = [call EXCEPT ![m.call].invoked = @ + 1]
      BY <2>12 DEF InvocationSent, Messages
    <3>2. /\ call'[c].invoked = IF c = m.call THEN call[c].invoked + 1 ELSE call[c].invoked
          /\ call'[c].ran = call[c].ran
      BY <3>1, Tallying DEF DataOK
    <3>3. UnderWay(lines'[r], c) = IF m.call = c THEN u + 1 ELSE u
      BY <2>0, <2>9, <3>1
    <3>4. call'[c].invoked = (IF c = m.call THEN a + 1 ELSE a) /\ call'[c].ran = b
      BY <3>2 DEF a, b
    <3> QED BY <2>4, <2>5, <2>6, <3>3, <3>4
  <2>13. ASSUME NEW p \in Procs, NEW n \in 1 .. Len(lines[p]), InvocationRuns(p, n)
        PROVE  call'[c].invoked = call'[c].ran + UnderWay(lines'[r], c)
    <3>1. /\ Drops(p, n) /\ lines[p][n].kind = "callback"
          /\ call' = [call EXCEPT ![lines[p][n].call].ran = @ + 1]
      BY <2>13 DEF InvocationRuns
    <3>2. lines[p][n].call \in Calls /\ call[lines[p][n].call].from = p
      BY <3>1, CallsAge, MentionedAge DEF MentionsOK, MailOK, MessageOK
    <3>3. /\ call'[c].invoked = call[c].invoked
          /\ call'[c].ran = IF c = lines[p][n].call THEN call[c].ran + 1 ELSE call[c].ran
      BY <3>1, <3>2, Tallying DEF DataOK
    <3>4. UnderWay(lines'[r], c) = IF lines[p][n].call = c THEN u - 1 ELSE u
      BY <2>0, <2>10, <3>1, <3>2
    <3>5. call'[c].invoked = a /\ call'[c].ran = (IF c = lines[p][n].call THEN b + 1 ELSE b)
      BY <3>3 DEF a, b
    <3> QED BY <2>4, <2>5, <2>6, <3>4, <3>5
  <2>14. ASSUME NEW p \in Procs, NEW n \in 1 .. Len(lines[p]), OtherTaken(p, n)
        PROVE  call'[c].invoked = call'[c].ran + UnderWay(lines'[r], c)
    <3>1. Drops(p, n) /\ TallyStays
      BY <2>14 DEF OtherTaken
    <3>2. ~(lines[p][n].kind = "callback" /\ lines[p][n].call = c)
      BY <2>2, <2>3, <2>14, ClosureIsThere
    <3>3. UnderWay(lines'[r], c) = u
      BY <2>10, <3>1, <3>2
    <3> QED BY <2>7, <3>1, <3>3
  <2> QED BY <2>8, <2>11, <2>12, <2>13, <2>14, TallyStep
<1> QED BY <1>1, <1>2

RunInv == /\ LentOK /\ BelowOK /\ BusyOK /\ ReachOK
          /\ TokensOK /\ OverOK /\ ShelfOK /\ RanOK

LEMMA RunInit == Init => RunInv
<1> SUFFICES ASSUME Init PROVE RunInv
  OBVIOUS
<1>1. /\ \A p \in Procs : /\ stack[p] = <<>> /\ callbacks[p] = {}
                          /\ queue[p] = <<>> /\ shelf[p] = <<>>
      /\ \A c \in Calls : call[c].state = "none"
  BY DEF Init, NoCall
<1>2. ASSUME NEW p \in Procs PROVE lines[p] = <<>>
  <2>1. <<>> \o <<>> = <<>>
    <3>1. <<>> \in Seq(Messages)
      BY EmptySeq
    <3> QED BY <3>1, ConcatEmptySeq
  <2> QED BY <1>1, <2>1 DEF lines
<1>3. Len(<<>>) = 0 /\ 1 .. 0 = {}
  OBVIOUS
<1>4. \A p \in Procs : 1 .. Len(stack[p]) = {} /\ 1 .. Len(lines[p]) = {} /\ 1 .. Len(shelf[p]) = {}
  BY <1>1, <1>2, <1>3
<1>5. \A p \in Procs : handles[p] = {}
  BY <1>4 DEF handles
<1>6. LentOK /\ BelowOK /\ BusyOK /\ ReachOK
  BY <1>1, <1>4 DEF LentOK, BelowOK, BusyOK, ReachOK
<1>7. TokensOK
  BY <1>4, <1>5 DEF TokensOK, OneToken, NotHandled, OneHandler, LastWord
<1>8. OverOK /\ ShelfOK /\ RanOK
  BY <1>1, <1>4 DEF OverOK, ShelfOK, RanOK
<1> QED BY <1>6, <1>7, <1>8 DEF RunInv

LEMMA RunStep == Inv /\ RunInv /\ [Next]_vars => RunInv'
<1> SUFFICES ASSUME Inv, RunInv, [Next]_vars PROVE RunInv'
  OBVIOUS
<1>1. DataOK /\ MentionsOK /\ RefsOK /\ NestOK /\ OpenOK /\ PendingOK
  BY DEF Inv
<1>2. LentOK /\ BelowOK /\ BusyOK /\ ReachOK /\ TokensOK /\ OverOK /\ ShelfOK /\ RanOK
  BY DEF RunInv
<1>3. LentOK' /\ BelowOK' /\ BusyOK' /\ ReachOK'
  BY <1>1, <1>2, LentStep, BelowStep, BusyStep, ReachStep
<1>4. TokensOK'
  <2>1. OneToken' /\ NotHandled' /\ OneHandler' /\ LastWord'
    BY <1>1, <1>2, OneTokenStep, NotHandledStep, LastWordStep
  <2> QED BY <2>1 DEF TokensOK
<1>5. OverOK' /\ ShelfOK' /\ RanOK'
  BY <1>1, <1>2, OverStep, ShelfStep, RanStep
<1> QED BY <1>3, <1>4, <1>5 DEF RunInv

\* A closure runs within the call that lent it and never after, and each
\* invocation made before the answer has run when the call returns, however
\* calls nest and mail is stashed, unless the closure itself was in a call
\* (wire.rs:195-210).
THEOREM CallbacksRunInTheirCall == Spec => []CallbacksBelongToCall
<1>1. DataOK /\ RefsOK /\ RunInv => CallbacksBelongToCall
  <2> SUFFICES ASSUME DataOK, RefsOK, RunInv PROVE CallbacksBelongToCall
    OBVIOUS
  <2>1. ASSUME NEW p \in Procs, NEW i \in DOMAIN stack[p], stack[p][i].what = "callback"
        PROVE  \E j \in Below(p, i, "call") : stack[p][j].lent = stack[p][i].lent
    <3>1. i \in 1 .. Len(stack[p])
      BY LenProperties DEF DataOK
    <3>2. PICK j \in 1 .. i - 1 : stack[p][j].what = "call" /\ stack[p][j].lent = stack[p][i].lent
      BY <2>1, <3>1 DEF RunInv, BelowOK
    <3> QED BY <3>2 DEF Below
  <2>2. ASSUME NEW c \in Calls, call[c].state = "ok", ~call[c].nested
        PROVE  call[c].ran = call[c].invoked
    <3>1. call[c].invoked = call[c].ran + UnderWay(lines[call[c].from], c)
      BY <2>2 DEF RunInv, RanOK
    <3>2. call[c].ran \in Nat
      BY DEF DataOK, CallRecords
    <3>3. UnderWay(lines[call[c].from], c) = 0
      <4>1. call[c].from \in Procs
        BY <2>2 DEF RefsOK, Used
      <4>2. \A i \in 1 .. Len(lines[call[c].from]) : lines[call[c].from][i].call # c
        BY <2>2, <4>1 DEF RunInv, OverOK
      <4> QED BY <4>2, NoneUnderWay
    <3> QED BY <3>1, <3>2, <3>3
  <2> QED BY <2>1, <2>2 DEF CallbacksBelongToCall
<1>2. Inv => DataOK /\ RefsOK
  BY DEF Inv
<1>3. Init => RunInv
  BY RunInit
<1>4. Inv /\ RunInv /\ [Next]_vars => RunInv'
  BY RunStep
<1> QED BY <1>1, <1>2, <1>3, <1>4, Invariance, PTL DEF Spec
=============================================================================
