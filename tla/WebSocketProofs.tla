--------------------------- MODULE WebSocketProofs ---------------------------
(***************************************************************************)
(* What holds of WebSocket connections for any number of them, any frames  *)
(* of their clients and any sizes: the type invariant and the limit on     *)
(* handlers, that messages arrive whole, and that frames leave in order.   *)
(***************************************************************************)
EXTENDS WebSocket, SequenceTheorems, FiniteSetTheorems, TLAPS

USE BoundsAssumption

-----------------------------------------------------------------------------
(* Types, and where the permits are.                                       *)

KindsOK ==
  /\ client \in [Conns -> {"none", "here", "gone"}]
  /\ task \in [Conns -> {"none", "refused", "http", "reading", "grace", "done"}]
  /\ permit \in [Conns -> {"none", "service", "task"}]
  /\ writer \in [Conns -> {"none", "running", "ended"}]
  /\ handler \in [Conns -> {"none", "starting", "running", "closing", "hung", "gone"}]
  /\ free \in Nat /\ rejected \subseteq Conns
  /\ left \in [{"accept", "frame", "binary", "text", "close", "crash", "hang", "reject"} -> Nat]
Ways == [mailbox : Seq(Frames), channel : Seq(Frames)]
FramesOK ==
  /\ todo \in [Conns -> Seq(Frames)] /\ fragment \in [Conns -> Seq(Frames)]
  /\ box \in [Conns -> Seq(Frames)] /\ out \in [Conns -> Seq(Frames)]
  /\ sent \in [Conns -> Ways] /\ seen \in [Conns -> Ways]
  /\ got \in [Conns -> Seq(Seq(Frames))]
  /\ \A c \in Conns : Len(out[c]) <= OutCap
\* A connection has its processes from the upgrade on, and until its task is
\* over they are not killed without cause.
Place(c) ==
  /\ task[c] \in {"none", "refused", "http"} => writer[c] = "none" /\ handler[c] = "none"
  /\ task[c] = "done" => /\ writer[c] = "running" => <<"writer", c>> \in killed
                         /\ Running(c) => <<"handler", c>> \in killed
  /\ task[c] = "grace" => <<"writer", c>> \in killed
PlacesOK == \A c \in Conns : Place(c)
\* The permits that are not free are those of connections; one is with the
\* service or the task, whichever there is, unless a request was rejected.
Holders == {c \in Conns : permit[c] # "none"}
PermitsOK ==
  /\ IsFiniteSet(Holders) /\ free = Cap - Cardinality(Holders)
  /\ \A c \in Conns :
       /\ permit[c] = "service" => task[c] = "http"
       /\ permit[c] = "task" => task[c] \in {"reading", "grace"}
       /\ task[c] \in {"http", "reading", "grace"} /\ permit[c] = "none" => c \in rejected
TypeInv == KindsOK /\ FramesOK /\ PlacesOK /\ PermitsOK

LEMMA TypeInit == Init => TypeInv
<1> SUFFICES ASSUME Init PROVE TypeInv
  OBVIOUS
<1>1. KindsOK
  BY DEF Init, KindsOK
<1>2. FramesOK
  <2>1. <<>> \in Seq(Frames) /\ <<>> \in Seq(Seq(Frames)) /\ Len(<<>>) = 0
    BY EmptySeq
  <2>2. Nothing \in Ways
    BY <2>1 DEF Nothing, Ways
  <2>3. Scripts \in [Conns -> Seq(Frames)]
    BY ScriptsAssumption
  <2> QED BY <2>1, <2>2, <2>3 DEF Init, FramesOK, NoFragment
<1>3. PlacesOK
  BY DEF Init, PlacesOK, Place, Running
<1>4. PermitsOK
  <2>1. Holders = {}
    BY DEF Init, Holders
  <2> QED BY <2>1, FS_EmptySet DEF Init, PermitsOK
<1> QED BY <1>1, <1>2, <1>3, <1>4 DEF TypeInv

LEMMA KindsStep == KindsOK /\ [Next]_vars => KindsOK'
<1> SUFFICES ASSUME KindsOK, [Next]_vars PROVE KindsOK'
  OBVIOUS
<1> USE DEF KindsOK, limiter, inbound, outbound, procs
<1>1. ASSUME NEW c \in Conns, Accept(c) \/ Reject(c) PROVE KindsOK'
  BY <1>1 DEF Accept, Reject
<1>2. ASSUME NEW c \in Conns, Upgrade(c) \/ HttpEnds(c) PROVE KindsOK'
  BY <1>2 DEF Upgrade, HttpEnds
<1>3. ASSUME NEW c \in Conns, Disconnect(c) PROVE KindsOK'
  BY <1>3 DEF Disconnect
<1>4. ASSUME NEW c \in Conns, Fragment(c) \/ Message(c) \/ Ping(c) PROVE KindsOK'
  <2>1. /\ left["frame"] > 0 /\ left' = [left EXCEPT !["frame"] = @ - 1]
        /\ UNCHANGED <<client, task, limiter, procs>>
    BY <1>4 DEF Fragment, Message, Ping, HasFrame, Took
  <2> QED BY <2>1
<1>5. ASSUME NEW c \in Conns, ReadingEnds(c) \/ GraceEnds(c) PROVE KindsOK'
  BY <1>5 DEF ReadingEnds, GraceEnds
<1>6. ASSUME NEW c \in Conns, TakeBinary(c) \/ TakeOut(c) \/ SendFails(c) \/ WriterAborted(c)
      PROVE  KindsOK'
  BY <1>6 DEF TakeBinary, TakeOut, SendFails, WriterAborted, Ends, WriterStep
<1>7. ASSUME NEW c \in Conns, Monitors(c) \/ Handles(c) \/ Hangs(c) PROVE KindsOK'
  <2>1. CASE Monitors(c)
    BY <2>1 DEF Monitors, HandlerStep
  <2>2. CASE Handles(c)
    BY <2>2 DEF Handles, HandlerStep
  <2>3. CASE Hangs(c)
    BY <2>3 DEF Hangs, HandlerStep
  <2> QED BY <1>7, <2>1, <2>2, <2>3
<1>8. ASSUME NEW c \in Conns, NEW op \in {"binary", "text", "close"}, Emit(c, op) PROVE KindsOK'
  BY <1>8 DEF Emit, HandlerStep
<1>9. ASSUME NEW c \in Conns, Returns(c) \/ Crashes(c) \/ HandlerAborted(c) PROVE KindsOK'
  BY <1>9 DEF Returns, Crashes, HandlerAborted, Gone, HandlerStep
<1>10. CASE UNCHANGED vars
  BY <1>10 DEF vars
<1> QED BY <1>1, <1>2, <1>3, <1>4, <1>5, <1>6, <1>7, <1>8, <1>9, <1>10 DEF Next, Proceed, Happen

LEMMA PlacesStep == KindsOK /\ PlacesOK /\ [Next]_vars => PlacesOK'
<1> SUFFICES ASSUME KindsOK, PlacesOK, [Next]_vars, NEW d \in Conns PROVE Place(d)'
  BY DEF PlacesOK
<1>0. Place(d) /\ KindsOK
  BY DEF PlacesOK
\* A task that goes on takes no process along but those that it kills.
<1>1. ASSUME NEW c \in Conns, NEW k, task' = [task EXCEPT ![c] = k], killed \subseteq killed',
             UNCHANGED <<writer, handler>>,
             k # "none", k \in {"refused", "http", "done"} => task[c] \in {"none", "http", "grace"},
             k = "http" \/ k = "refused" => task[c] = "none",
             k = "grace" => <<"writer", c>> \in killed',
             k = "done" /\ Running(c) => <<"handler", c>> \in killed'
      PROVE  Place(d)'
  BY <1>0, <1>1 DEF Place, Running, KindsOK
<1>2. ASSUME NEW c \in Conns, writer' = writer \/ writer' = [writer EXCEPT ![c] = "ended"],
             UNCHANGED <<task, handler, killed>>, task[c] \notin {"none", "refused", "http"}
      PROVE  Place(d)'
  BY <1>0, <1>2 DEF Place, Running, KindsOK
<1>3. ASSUME NEW c \in Conns, NEW k, handler' = [handler EXCEPT ![c] = k],
             UNCHANGED <<task, writer, killed>>, Running(c)
      PROVE  Place(d)'
  BY <1>0, <1>3 DEF Place, Running, KindsOK
<1>4. CASE UNCHANGED <<task, writer, handler, killed>>
  BY <1>0, <1>4 DEF Place, Running
<1>5. ASSUME NEW c \in Conns, Accept(c) \/ HttpEnds(c) \/ ReadingEnds(c) \/ GraceEnds(c)
      PROVE  Place(d)'
  <2>1. CASE Accept(c)
    BY <1>1, <2>1 DEF Accept, procs
  <2>2. CASE HttpEnds(c)
    <3>1. ~Running(c)
      BY <2>2 DEF HttpEnds, PlacesOK, Place, Running
    <3> QED BY <1>1, <2>2, <3>1 DEF HttpEnds, procs
  <2>3. CASE ReadingEnds(c)
    BY <1>1, <2>3 DEF ReadingEnds
  <2>4. CASE GraceEnds(c)
    BY <1>1, <2>4 DEF GraceEnds, Running
  <2> QED BY <1>5, <2>1, <2>2, <2>3, <2>4
<1>6. ASSUME NEW c \in Conns, Upgrade(c) PROVE Place(d)'
  BY <1>0, <1>6 DEF Upgrade, Place, Running, KindsOK
<1>7. ASSUME NEW c \in Conns, TakeOut(c) \/ SendFails(c) \/ WriterAborted(c) PROVE Place(d)'
  <2>1. task[c] \notin {"none", "refused", "http"}
    BY <1>7 DEF TakeOut, SendFails, WriterAborted, PlacesOK, Place
  <2>2. writer' = writer \/ writer' = [writer EXCEPT ![c] = "ended"]
    BY <1>7 DEF TakeOut, SendFails, WriterAborted, Ends
  <2>3. UNCHANGED <<task, handler, killed>>
    BY <1>7 DEF TakeOut, SendFails, WriterAborted, WriterStep
  <2> QED BY <1>2, <2>1, <2>2, <2>3
<1>8. ASSUME NEW c \in Conns, Monitors(c) \/ Handles(c) \/ Hangs(c) \/ Returns(c) \/ Crashes(c)
                              \/ HandlerAborted(c)
      PROVE  Place(d)'
  <2>1. UNCHANGED <<task, writer, killed>> /\ Running(c)
    BY <1>8 DEF Monitors, Handles, Hangs, Returns, Crashes, HandlerAborted, Gone, HandlerStep,
                Running
  <2>2. UNCHANGED handler \/ \E k : handler' = [handler EXCEPT ![c] = k]
    BY <1>8 DEF Monitors, Handles, Hangs, Returns, Crashes, HandlerAborted, Gone
  <2> QED BY <1>3, <1>4, <2>1, <2>2
<1> QED BY <1>4, <1>5, <1>6, <1>7, <1>8
        DEF Next, Proceed, Happen, vars, procs, Reject, Disconnect, Fragment, Message, Ping,
            TakeBinary, WriterStep, Emit, HandlerStep

\* A permit goes to a connection, or comes back.
LEMMA PermitGoes ==
  ASSUME KindsOK, PermitsOK, NEW c \in Conns, NEW k \in {"service", "task"},
         permit[c] = "none", permit' = [permit EXCEPT ![c] = k]
  PROVE  IsFiniteSet(Holders') /\ Cardinality(Holders') = Cardinality(Holders) + 1
<1>1. Holders' = Holders \cup {c} /\ c \notin Holders
  BY DEF KindsOK, Holders
<1> QED BY <1>1, FS_AddElement DEF PermitsOK
LEMMA PermitComesBack ==
  ASSUME KindsOK, PermitsOK, NEW c \in Conns, permit' = [permit EXCEPT ![c] = "none"]
  PROVE  /\ IsFiniteSet(Holders')
         /\ Cardinality(Holders') =
              IF permit[c] = "none" THEN Cardinality(Holders) ELSE Cardinality(Holders) - 1
<1>1. CASE permit[c] = "none"
  <2>1. permit' = permit
    BY <1>1 DEF KindsOK
  <2> QED BY <1>1, <2>1 DEF Holders, PermitsOK
<1>2. CASE permit[c] # "none"
  <2>1. Holders' = Holders \ {c} /\ c \in Holders
    BY <1>2 DEF KindsOK, Holders
  <2> QED BY <1>2, <2>1, FS_RemoveElement DEF PermitsOK
<1> QED BY <1>1, <1>2

LEMMA PermitsStep == KindsOK /\ PermitsOK /\ [Next]_vars => PermitsOK'
<1> SUFFICES ASSUME KindsOK, PermitsOK, [Next]_vars PROVE PermitsOK'
  OBVIOUS
<1>0. Cardinality(Holders) \in Nat /\ free \in Nat /\ Cap \in Nat
  BY FS_CardinalityType DEF PermitsOK, KindsOK
<1>1. ASSUME NEW c \in Conns, Accept(c) PROVE PermitsOK'
  <2>1. task[c] = "none" /\ permit[c] = "none"
    BY <1>1 DEF Accept, KindsOK, PermitsOK
  <2>2. CASE free > 0
    <3>1. /\ permit' = [permit EXCEPT ![c] = "service"] /\ task' = [task EXCEPT ![c] = "http"]
          /\ free' = free - 1 /\ rejected' = rejected
      BY <1>1, <2>2 DEF Accept
    <3>2. IsFiniteSet(Holders') /\ Cardinality(Holders') = Cardinality(Holders) + 1
      BY <2>1, <3>1, PermitGoes
    <3>3. free' = Cap - Cardinality(Holders')
      BY <1>0, <3>1, <3>2 DEF PermitsOK
    <3> QED BY <2>1, <3>1, <3>2, <3>3 DEF KindsOK, PermitsOK
  <2>3. CASE ~(free > 0)
    <3>1. task' = [task EXCEPT ![c] = "refused"] /\ UNCHANGED <<permit, free, rejected>>
      BY <1>1, <2>3 DEF Accept
    <3> QED BY <2>1, <3>1 DEF KindsOK, PermitsOK, Holders
  <2> QED BY <2>2, <2>3
\* Whoever gives its permit back counts it back, if there is one.
<1>2. ASSUME NEW c \in Conns, permit' = [permit EXCEPT ![c] = "none"],
             free' = IF permit[c] # "none" THEN free + 1 ELSE free,
             rejected \subseteq rejected', \A e \in Conns \ {c} : task'[e] = task[e],
             task'[c] = "done" \/ c \in rejected'
      PROVE  PermitsOK'
  <2>1. /\ IsFiniteSet(Holders')
        /\ Cardinality(Holders') =
             IF permit[c] = "none" THEN Cardinality(Holders) ELSE Cardinality(Holders) - 1
    BY <1>2, PermitComesBack
  <2>2. free' = Cap - Cardinality(Holders')
    BY <1>0, <1>2, <2>1 DEF PermitsOK
  <2>3. ASSUME NEW e \in Conns
        PROVE  /\ permit'[e] = "service" => task'[e] = "http"
               /\ permit'[e] = "task" => task'[e] \in {"reading", "grace"}
               /\ task'[e] \in {"http", "reading", "grace"} /\ permit'[e] = "none"
                    => e \in rejected'
    BY <1>2 DEF KindsOK, PermitsOK
  <2> QED BY <2>1, <2>2, <2>3 DEF PermitsOK
<1>3. ASSUME NEW c \in Conns, Reject(c) \/ HttpEnds(c) \/ GraceEnds(c) PROVE PermitsOK'
  <2>1. /\ permit' = [permit EXCEPT ![c] = "none"]
        /\ free' = IF permit[c] # "none" THEN free + 1 ELSE free
    BY <1>3 DEF Reject, HttpEnds, GraceEnds, KindsOK, PermitsOK
  <2>2. /\ rejected \subseteq rejected'
        /\ task'[c] = "done" \/ c \in rejected'
        /\ \A d \in Conns \ {c} : task'[d] = task[d]
    BY <1>3 DEF Reject, HttpEnds, GraceEnds, KindsOK
  <2> QED BY <1>2, <2>1, <2>2
<1>4. ASSUME NEW c \in Conns, Upgrade(c) PROVE PermitsOK'
  <2>1. /\ task[c] = "http" /\ task' = [task EXCEPT ![c] = "reading"]
        /\ permit' = [permit EXCEPT ![c] = IF @ = "service" THEN "task" ELSE @]
        /\ UNCHANGED <<free, rejected>>
    BY <1>4 DEF Upgrade
  <2>2. Holders' = Holders
    BY <2>1 DEF KindsOK, Holders
  <2> QED BY <2>1, <2>2 DEF KindsOK, PermitsOK
<1>5. ASSUME NEW c \in Conns, ReadingEnds(c) PROVE PermitsOK'
  BY <1>5 DEF ReadingEnds, Reading, limiter, KindsOK, PermitsOK, Holders
<1>6. CASE UNCHANGED <<task, limiter>>
  BY <1>6 DEF limiter, PermitsOK, Holders
<1> QED BY <1>1, <1>3, <1>4, <1>5, <1>6
        DEF Next, Proceed, Happen, vars, Disconnect, Fragment, Message, Ping, TakeBinary,
            TakeOut, SendFails, WriterAborted, WriterStep, Monitors, Handles, Emit, Hangs,
            Returns, Crashes, HandlerAborted, Gone, HandlerStep

\* What the reader does to what it reads, and the writer to what it writes.
LEMMA TakenFrame ==
  ASSUME FramesOK, NEW c \in Conns, HasFrame(c)
  PROVE  /\ Frame1(c) \in Frames /\ Frame1(c) = todo[c][1] /\ Len(todo[c]) \in Nat \ {0}
         /\ Tail(todo[c]) \in Seq(Frames) /\ Len(Tail(todo[c])) = Len(todo[c]) - 1
         /\ \A i \in 1 .. Len(todo[c]) - 1 : Tail(todo[c])[i] = todo[c][i + 1]
<1>1. todo[c] \in Seq(Frames) /\ todo[c] # <<>>
  BY DEF FramesOK, HasFrame
<1>2. Frame1(c) = todo[c][1]
  BY <1>1 DEF Frame1
<1>3. Len(todo[c]) \in Nat \ {0}
  BY <1>1, EmptySeq, LenProperties
<1> QED BY <1>1, <1>2, <1>3, HeadTailProperties DEF Frame1

LEMMA Appended ==
  ASSUME NEW S, NEW x \in Seq(S), NEW e \in S
  PROVE  Append(x, e) \in Seq(S) /\ Len(Append(x, e)) = Len(x) + 1
BY AppendProperties

LEMMA FramesStep == KindsOK /\ FramesOK /\ [Next]_vars => FramesOK'
<1> SUFFICES ASSUME KindsOK, FramesOK, [Next]_vars PROVE FramesOK'
  OBVIOUS
<1>0. /\ todo \in [Conns -> Seq(Frames)] /\ fragment \in [Conns -> Seq(Frames)]
      /\ box \in [Conns -> Seq(Frames)] /\ out \in [Conns -> Seq(Frames)]
      /\ sent \in [Conns -> Ways] /\ seen \in [Conns -> Ways]
      /\ got \in [Conns -> Seq(Seq(Frames))]
      /\ \A c \in Conns : Len(out[c]) <= OutCap /\ Len(out[c]) \in Nat
  BY LenProperties DEF FramesOK
<1>1. ASSUME NEW c \in Conns, Fragment(c) PROVE FramesOK'
  <2>1. Tail(todo[c]) \in Seq(Frames) /\ Append(fragment[c], Frame1(c)) \in Seq(Frames)
    BY <1>0, <1>1, TakenFrame, Appended DEF Fragment
  <2> QED BY <1>0, <1>1, <2>1 DEF Fragment, Took, outbound, FramesOK
<1>2. ASSUME NEW c \in Conns, Message(c) PROVE FramesOK'
  <2>1. Tail(todo[c]) \in Seq(Frames) /\ Append(fragment[c], Frame1(c)) \in Seq(Frames)
    BY <1>0, <1>2, TakenFrame, Appended DEF Message
  <2>2. Append(got[c], Append(fragment[c], Frame1(c))) \in Seq(Seq(Frames))
    BY <1>0, <2>1, Appended
  <2>3. NoFragment \in Seq(Frames)
    BY EmptySeq DEF NoFragment
  <2>4. /\ todo' = [todo EXCEPT ![c] = Tail(@)] /\ fragment' = [fragment EXCEPT ![c] = NoFragment]
        /\ got' = [got EXCEPT ![c] = Append(@, Append(fragment[c], Frame1(c)))]
        /\ UNCHANGED outbound
    BY <1>2 DEF Message, Took
  <2> QED BY <1>0, <2>1, <2>2, <2>3, <2>4 DEF outbound, FramesOK
<1>3. ASSUME NEW c \in Conns, NEW f \in Frames, sent' = [sent EXCEPT ![c].channel = Append(@, f)],
             out' = [out EXCEPT ![c] = Append(@, f)], Len(out[c]) < OutCap,
             todo' \in [Conns -> Seq(Frames)],
             UNCHANGED <<fragment, box, seen, got>>
      PROVE  FramesOK'
  <2>1. /\ Append(out[c], f) \in Seq(Frames) /\ Len(Append(out[c], f)) = Len(out[c]) + 1
        /\ Append(sent[c].channel, f) \in Seq(Frames)
    BY <1>0, Appended DEF Ways
  <2>2. sent' \in [Conns -> Ways]
    BY <1>0, <1>3, <2>1 DEF Ways
  <2>3. out' \in [Conns -> Seq(Frames)] /\ \A d \in Conns : Len(out'[d]) <= OutCap
    BY <1>0, <1>3, <2>1
  <2> QED BY <1>0, <1>3, <2>2, <2>3 DEF FramesOK
<1>4. ASSUME NEW c \in Conns, Ping(c) PROVE FramesOK'
  <2>1. Frame1(c) \in Frames /\ Tail(todo[c]) \in Seq(Frames)
    BY <1>4, TakenFrame DEF Ping
  <2>2. todo' \in [Conns -> Seq(Frames)]
    BY <1>0, <1>4, <2>1 DEF Ping, Took
  <2> QED BY <1>3, <1>4, <2>1, <2>2 DEF Ping
<1>5. ASSUME NEW c \in Conns, TakeBinary(c) PROVE FramesOK'
  <2>1. Head(box[c]) \in Frames /\ Tail(box[c]) \in Seq(Frames)
    BY <1>0, <1>5, HeadTailProperties DEF TakeBinary
  <2>2. Append(seen[c].mailbox, Head(box[c])) \in Seq(Frames)
    BY <1>0, <2>1, Appended DEF Ways
  <2>3. seen' \in [Conns -> Ways]
    BY <1>0, <1>5, <2>2 DEF TakeBinary, Ways
  <2> QED BY <1>0, <1>5, <2>1, <2>3 DEF TakeBinary, WriterStep, FramesOK
<1>6. ASSUME NEW c \in Conns, Ends(c), UNCHANGED <<todo, fragment, got, sent, seen>>
      PROVE  FramesOK'
  BY <1>0, <1>6, EmptySeq DEF Ends, FramesOK
<1>7. ASSUME NEW c \in Conns, TakeOut(c) PROVE FramesOK'
  <2>1. /\ Head(out[c]) \in Frames /\ Tail(out[c]) \in Seq(Frames)
        /\ Len(Tail(out[c])) = Len(out[c]) - 1
    BY <1>0, <1>7, HeadTailProperties DEF TakeOut
  <2>2. Append(seen[c].channel, Head(out[c])) \in Seq(Frames)
    BY <1>0, <2>1, Appended DEF Ways
  <2>3. seen' \in [Conns -> Ways] /\ UNCHANGED <<todo, fragment, got, sent>>
    BY <1>0, <1>7, <2>2 DEF TakeOut, WriterStep, Ways
  <2>4. CASE Ends(c)
    BY <1>0, <2>3, <2>4, EmptySeq DEF Ends, FramesOK
  <2>5. CASE out' = [out EXCEPT ![c] = Tail(@)] /\ UNCHANGED <<writer, box, inbox>>
    BY <1>0, <2>1, <2>3, <2>5 DEF FramesOK
  <2> QED BY <1>7, <2>4, <2>5 DEF TakeOut
<1>8. ASSUME NEW c \in Conns, NEW op \in {"binary", "text", "close"}, Emit(c, op) PROVE FramesOK'
  <2>1. PICK f \in Frames : f = Frame(op, 0, left[op], TRUE)
    BY DEF Frame, Frames, DataOps, KindsOK
  <2>2. UNCHANGED <<todo, fragment, got, seen>>
    BY <1>8 DEF Emit, HandlerStep
  <2>3. CASE writer[c] # "running"
    BY <1>0, <1>8, <2>2, <2>3 DEF Emit, FramesOK
  <2>4. CASE writer[c] = "running" /\ op = "binary"
    <3>1. /\ sent' = [sent EXCEPT ![c].mailbox = Append(@, f)]
          /\ box' = [box EXCEPT ![c] = Append(@, f)] /\ UNCHANGED out
      BY <1>8, <2>1, <2>4 DEF Emit
    <3>2. Append(box[c], f) \in Seq(Frames) /\ Append(sent[c].mailbox, f) \in Seq(Frames)
      BY <1>0, <2>1, Appended DEF Ways
    <3>3. [sent[c] EXCEPT !.mailbox = Append(sent[c].mailbox, f)] \in Ways
      BY <1>0, <3>2 DEF Ways
    <3>4. sent' \in [Conns -> Ways]
      BY <1>0, <3>1, <3>3
    <3> QED BY <1>0, <2>2, <3>1, <3>2, <3>4 DEF FramesOK
  <2>5. CASE writer[c] = "running" /\ op # "binary"
    <3>1. /\ sent' = [sent EXCEPT ![c].channel = Append(@, f)] /\ Len(out[c]) < OutCap
          /\ out' = [out EXCEPT ![c] = Append(@, f)] /\ UNCHANGED box
      BY <1>8, <2>1, <2>5 DEF Emit
    <3>2. todo' \in [Conns -> Seq(Frames)] /\ UNCHANGED <<fragment, box, seen, got>>
      BY <1>0, <2>2, <3>1
    <3> QED BY <1>3, <3>1, <3>2
  <2> QED BY <2>3, <2>4, <2>5
<1>9. ASSUME NEW c \in Conns, SendFails(c) \/ WriterAborted(c) PROVE FramesOK'
  BY <1>6, <1>9 DEF SendFails, WriterAborted, WriterStep
<1>10. CASE UNCHANGED <<todo, fragment, got, box, out, sent, seen>>
  BY <1>10 DEF FramesOK
<1> QED BY <1>1, <1>2, <1>4, <1>5, <1>7, <1>8, <1>9, <1>10
        DEF Next, Proceed, Happen, vars, inbound, outbound, Accept, Reject, Upgrade, HttpEnds,
            Disconnect, ReadingEnds, GraceEnds, Monitors, Handles, Hangs, Returns, Crashes,
            HandlerAborted, Gone, HandlerStep

LEMMA TypeStep == TypeInv /\ [Next]_vars => TypeInv'
BY KindsStep, FramesStep, PlacesStep, PermitsStep DEF TypeInv

LEMMA TypesHold == TypeInv => TypeOK
BY DEF TypeInv, KindsOK, FramesOK, PlacesOK, Place, PermitsOK, Holders, TypeOK

LEMMA TypeAlways == Spec => []TypeInv
BY TypeInit, TypeStep, PTL DEF Spec

\* The parts of a connection are of their types, the permits that are not free
\* are with connections, and none that is over leaves a process to itself.
THEOREM TypeCorrect == Spec => []TypeOK
BY TypeAlways, TypesHold, PTL

\* Handlers that run on connections whose first request was the upgrade, and are
\* not told to stop, hold a permit each: so there are no more than the limit
\* allows, whatever clients and guests do (ws.rs:373-414).
THEOREM HandlersStayBounded == Spec => []CapBoundsHandlers
<1>1. TypeInv => CapBoundsHandlers
  <2> SUFFICES ASSUME TypeInv PROVE CapBoundsHandlers
    OBVIOUS
  <2> DEFINE Busy == {c \in Conns \ rejected : Running(c) /\ <<"handler", c>> \notin killed}
  <2>1. Busy \subseteq Holders
    BY DEF TypeInv, KindsOK, PlacesOK, Place, PermitsOK, Holders, Running
  <2>2. IsFiniteSet(Holders) /\ Cardinality(Holders) <= Cap
    BY FS_CardinalityType DEF TypeInv, PermitsOK, KindsOK
  <2>3. Cardinality(Busy) <= Cardinality(Holders)
    BY <2>1, <2>2, FS_Subset
  <2>4. Cardinality(Busy) \in Nat /\ Cardinality(Holders) \in Nat /\ Cap \in Nat
    BY <2>1, <2>2, FS_Subset, FS_CardinalityType
  <2>5. Cardinality(Busy) <= Cap
    BY <2>2, <2>3, <2>4
  <2> QED BY <2>5, TypesHold DEF CapBoundsHandlers
<1> QED BY <1>1, TypeAlways, PTL

-----------------------------------------------------------------------------
(* Order of the frames to the client.                                      *)

\* A writer at work has sent the client what was sent to it, but for what is
\* still on the way.
InOrder(x, y) == Len(x) <= Len(y) /\ \A i \in 1 .. Len(x) : x[i] = y[i]
Ordered(c) ==
  /\ writer[c] # "ended" => /\ sent[c].mailbox = seen[c].mailbox \o box[c]
                            /\ sent[c].channel = seen[c].channel \o out[c]
  /\ InOrder(seen[c].mailbox, sent[c].mailbox) /\ InOrder(seen[c].channel, sent[c].channel)
  /\ \A i \in 1 .. Len(seen[c].channel) :
       seen[c].channel[i].op = "close" => i = Len(seen[c].channel) /\ writer[c] = "ended"
OrderInv == \A c \in Conns : Ordered(c)

LEMMA InOrderConcat ==
  ASSUME NEW S, NEW x \in Seq(S), NEW y \in Seq(S)
  PROVE  InOrder(x, x \o y)
BY ConcatProperties, LenProperties DEF InOrder
LEMMA MovesOn ==
  ASSUME NEW S, NEW x \in Seq(S), NEW y \in Seq(S), y # <<>>
  PROVE  x \o y = Append(x, Head(y)) \o Tail(y)
<1>1. Head(y) \in S /\ Tail(y) \in Seq(S) /\ <<Head(y)>> \in Seq(S)
  BY HeadTailProperties
<1>2. y = <<Head(y)>> \o Tail(y)
  <2>1. /\ Len(y) \in Nat \ {0} /\ Len(Tail(y)) = Len(y) - 1 /\ Head(y) = y[1]
        /\ \A i \in 1 .. Len(Tail(y)) : Tail(y)[i] = y[i + 1]
    BY EmptySeq, LenProperties, HeadTailProperties
  <2> DEFINE z == <<Head(y)>> \o Tail(y)
  <2>2. /\ z \in Seq(S) /\ Len(z) = Len(y)
        /\ \A i \in 1 .. Len(y) : z[i] = IF i <= 1 THEN <<Head(y)>>[i] ELSE Tail(y)[i - 1]
    BY <1>1, <2>1, ConcatProperties
  <2>3. ASSUME NEW i \in 1 .. Len(y) PROVE z[i] = y[i]
    <3>1. CASE i = 1
      BY <2>1, <2>2, <3>1
    <3>2. CASE i # 1
      <4>1. i - 1 \in 1 .. Len(Tail(y)) /\ (i - 1) + 1 = i
        BY <2>1, <3>2
      <4> QED BY <2>1, <2>2, <3>2, <4>1
    <3> QED BY <3>1, <3>2
  <2> HIDE DEF z
  <2>4. z = y
    BY <2>2, <2>3, SeqEqual
  <2> QED BY <2>4 DEF z
<1>3. x \o (<<Head(y)>> \o Tail(y)) = (x \o <<Head(y)>>) \o Tail(y)
  BY <1>1, ConcatAssociative
<1> QED BY <1>1, <1>2, <1>3, AppendIsConcat
\* What is sent has one more that is queued, or what is seen one less.
LEMMA OneMore ==
  ASSUME NEW x \in Seq(Frames), NEW y \in Seq(Frames), NEW f \in Frames
  PROVE  Append(x \o y, f) = x \o Append(y, f) /\ InOrder(x, Append(x \o y, f))
<1>1. Append(x \o y, f) = x \o Append(y, f)
  <2>1. x \o y \in Seq(Frames) /\ <<f>> \in Seq(Frames)
    BY ConcatProperties
  <2>2. Append(x \o y, f) = (x \o y) \o <<f>> /\ Append(y, f) = y \o <<f>>
    BY <2>1, AppendIsConcat
  <2>3. (x \o y) \o <<f>> = x \o (y \o <<f>>)
    BY <2>1, ConcatAssociative
  <2> QED BY <2>2, <2>3
<1>2. Append(y, f) \in Seq(Frames)
  BY AppendProperties
<1> QED BY <1>1, <1>2, InOrderConcat
LEMMA OneOver ==
  ASSUME NEW x \in Seq(Frames), NEW y \in Seq(Frames), y # <<>>
  PROVE  x \o y = Append(x, Head(y)) \o Tail(y) /\ InOrder(Append(x, Head(y)), x \o y)
<1>1. x \o y = Append(x, Head(y)) \o Tail(y)
  BY MovesOn
<1>2. Head(y) \in Frames /\ Tail(y) \in Seq(Frames)
  BY HeadTailProperties
<1>3. Append(x, Head(y)) \in Seq(Frames)
  BY <1>2, AppendProperties
<1> QED BY <1>1, <1>2, <1>3, InOrderConcat

LEMMA OrderInit == Init => OrderInv
<1> SUFFICES ASSUME Init, NEW c \in Conns PROVE Ordered(c)
  BY DEF OrderInv
<1>1. /\ sent[c].mailbox = <<>> /\ sent[c].channel = <<>> /\ box[c] = <<>>
      /\ seen[c].mailbox = <<>> /\ seen[c].channel = <<>> /\ out[c] = <<>>
  BY DEF Init, Nothing
<1>2. <<>> \o <<>> = <<>> /\ Len(<<>>) = 0
  BY ConcatEmptySeq, EmptySeq
<1> QED BY <1>1, <1>2 DEF Ordered, InOrder

LEMMA OrderStep == TypeInv /\ OrderInv /\ [Next]_vars => OrderInv'
<1> SUFFICES ASSUME TypeInv, OrderInv, [Next]_vars, NEW d \in Conns PROVE Ordered(d)'
  BY DEF OrderInv
<1>0. /\ box \in [Conns -> Seq(Frames)] /\ out \in [Conns -> Seq(Frames)]
      /\ sent \in [Conns -> Ways] /\ seen \in [Conns -> Ways]
      /\ writer \in [Conns -> {"none", "running", "ended"}]
      /\ sent[d].mailbox \in Seq(Frames) /\ sent[d].channel \in Seq(Frames)
      /\ seen[d].mailbox \in Seq(Frames) /\ seen[d].channel \in Seq(Frames)
      /\ box[d] \in Seq(Frames) /\ out[d] \in Seq(Frames)
      /\ Ordered(d)
  BY DEF TypeInv, FramesOK, KindsOK, OrderInv, Ways
<1>1. ASSUME sent'[d] = sent[d], seen'[d] = seen[d], box'[d] = box[d], out'[d] = out[d],
             writer'[d] = writer[d] \/ (writer[d] # "ended" /\ writer'[d] # "none")
      PROVE  Ordered(d)'
  BY <1>0, <1>1 DEF Ordered, InOrder
<1>2. ASSUME sent'[d] = sent[d], seen'[d] = seen[d], writer'[d] = "ended" PROVE Ordered(d)'
  BY <1>0, <1>2 DEF Ordered, InOrder
\* One more is sent to the writer.
<1>3. ASSUME NEW f \in Frames, writer[d] = "running", seen' = seen, writer' = writer,
             \/ /\ sent'[d] = [sent[d] EXCEPT !.channel = Append(sent[d].channel, f)]
                /\ out'[d] = Append(out[d], f) /\ box' = box
             \/ /\ sent'[d] = [sent[d] EXCEPT !.mailbox = Append(sent[d].mailbox, f)]
                /\ box'[d] = Append(box[d], f) /\ out' = out
      PROVE  Ordered(d)'
  <2>1. CASE /\ sent'[d] = [sent[d] EXCEPT !.channel = Append(sent[d].channel, f)]
             /\ out'[d] = Append(out[d], f) /\ box' = box
    <3>1. sent'[d].channel = Append(sent[d].channel, f) /\ sent'[d].mailbox = sent[d].mailbox
      BY <1>0, <2>1 DEF Ways
    <3>2. sent[d].channel = seen[d].channel \o out[d]
      BY <1>0, <1>3 DEF Ordered
    <3>3. /\ sent'[d].channel = seen[d].channel \o Append(out[d], f)
          /\ InOrder(seen[d].channel, sent'[d].channel)
      <4>1. LET z == Append(seen[d].channel \o out[d], f)
            IN z = seen[d].channel \o Append(out[d], f) /\ InOrder(seen[d].channel, z)
        BY <1>0, OneMore
      <4> QED BY <3>1, <3>2, <4>1
    <3> QED BY <1>0, <1>3, <2>1, <3>1, <3>2, <3>3 DEF Ordered
  <2>2. CASE /\ sent'[d] = [sent[d] EXCEPT !.mailbox = Append(sent[d].mailbox, f)]
             /\ box'[d] = Append(box[d], f) /\ out' = out
    <3>1. sent'[d].mailbox = Append(sent[d].mailbox, f) /\ sent'[d].channel = sent[d].channel
      BY <1>0, <2>2 DEF Ways
    <3>2. sent[d].mailbox = seen[d].mailbox \o box[d]
      BY <1>0, <1>3 DEF Ordered
    <3>3. /\ sent'[d].mailbox = seen[d].mailbox \o Append(box[d], f)
          /\ InOrder(seen[d].mailbox, sent'[d].mailbox)
      <4>1. LET z == Append(seen[d].mailbox \o box[d], f)
            IN z = seen[d].mailbox \o Append(box[d], f) /\ InOrder(seen[d].mailbox, z)
        BY <1>0, OneMore
      <4> QED BY <3>1, <3>2, <4>1
    <3> QED BY <1>0, <1>3, <2>2, <3>1, <3>2, <3>3 DEF Ordered
  <2> QED BY <1>3, <2>1, <2>2
<1>4. ASSUME NEW c \in Conns, Ping(c) PROVE Ordered(d)'
  <2>1. PICK f \in Frames : f = Frame1(c)
    BY <1>4, TakenFrame DEF Ping, TypeInv
  <2>2. /\ writer[c] = "running" /\ UNCHANGED <<seen, writer, box>>
        /\ out' = [out EXCEPT ![c] = Append(@, f)]
        /\ sent' = [sent EXCEPT ![c].channel = Append(@, f)]
    BY <1>4, <2>1 DEF Ping, procs
  <2>3. CASE c = d
    <3>1. /\ sent'[d] = [sent[d] EXCEPT !.channel = Append(sent[d].channel, f)]
          /\ out'[d] = Append(out[d], f)
      BY <1>0, <2>2, <2>3
    <3> QED BY <1>3, <2>2, <2>3, <3>1
  <2>4. CASE c # d
    BY <1>0, <1>1, <2>2, <2>4
  <2> QED BY <2>3, <2>4
<1>5. ASSUME NEW c \in Conns, NEW op \in {"binary", "text", "close"}, Emit(c, op)
      PROVE  Ordered(d)'
  <2>1. PICK f \in Frames : f = Frame(op, 0, left[op], TRUE)
    BY DEF Frame, Frames, DataOps, TypeInv, KindsOK
  <2>2. UNCHANGED <<seen, writer>>
    BY <1>5 DEF Emit, HandlerStep
  <2>3. CASE writer[c] # "running"
    BY <1>1, <1>5, <2>2, <2>3 DEF Emit
  <2>4. CASE writer[c] = "running" /\ op = "binary"
    <3>1. /\ sent' = [sent EXCEPT ![c].mailbox = Append(@, f)]
          /\ box' = [box EXCEPT ![c] = Append(@, f)] /\ out' = out
      BY <1>5, <2>1, <2>4 DEF Emit
    <3>2. CASE c = d
      <4>1. /\ sent'[d] = [sent[d] EXCEPT !.mailbox = Append(sent[d].mailbox, f)]
            /\ box'[d] = Append(box[d], f)
        BY <1>0, <3>1, <3>2
      <4> QED BY <1>3, <2>2, <2>4, <3>1, <3>2, <4>1
    <3>3. CASE c # d
      BY <1>0, <1>1, <2>2, <3>1, <3>3
    <3> QED BY <3>2, <3>3
  <2>5. CASE writer[c] = "running" /\ op # "binary"
    <3>1. /\ sent' = [sent EXCEPT ![c].channel = Append(@, f)]
          /\ out' = [out EXCEPT ![c] = Append(@, f)] /\ box' = box
      BY <1>5, <2>1, <2>5 DEF Emit
    <3>2. CASE c = d
      <4>1. /\ sent'[d] = [sent[d] EXCEPT !.channel = Append(sent[d].channel, f)]
            /\ out'[d] = Append(out[d], f)
        BY <1>0, <3>1, <3>2
      <4> QED BY <1>3, <2>2, <2>5, <3>1, <3>2, <4>1
    <3>3. CASE c # d
      BY <1>0, <1>1, <2>2, <3>1, <3>3
    <3> QED BY <3>2, <3>3
  <2> QED BY <2>3, <2>4, <2>5
<1>6. ASSUME NEW c \in Conns, TakeBinary(c) PROVE Ordered(d)'
  <2>1. /\ writer[c] = "running" /\ box[c] # <<>> /\ UNCHANGED <<sent, writer, out>>
        /\ box' = [box EXCEPT ![c] = Tail(@)]
        /\ seen' = [seen EXCEPT ![c].mailbox = Append(@, Head(box[c]))]
    BY <1>6 DEF TakeBinary, WriterStep
  <2>2. CASE c # d
    BY <1>0, <1>1, <2>1, <2>2
  <2>3. CASE c = d
    <3>1. /\ box'[d] = Tail(box[d]) /\ seen'[d].channel = seen[d].channel
          /\ seen'[d].mailbox = Append(seen[d].mailbox, Head(box[d]))
      BY <1>0, <2>1, <2>3 DEF Ways
    <3>2. sent[d].mailbox = seen[d].mailbox \o box[d] /\ box[d] # <<>>
      BY <1>0, <2>1, <2>3 DEF Ordered
    <3>3. /\ sent[d].mailbox = seen'[d].mailbox \o box'[d]
          /\ InOrder(seen'[d].mailbox, sent[d].mailbox)
      <4>1. LET x == Append(seen[d].mailbox, Head(box[d]))
                z == seen[d].mailbox \o box[d]
            IN z = x \o Tail(box[d]) /\ InOrder(x, z)
        BY <1>0, <3>2, OneOver
      <4> QED BY <3>1, <3>2, <4>1
    <3> QED BY <1>0, <2>1, <2>3, <3>1, <3>3 DEF Ordered
  <2> QED BY <2>2, <2>3
<1>7. ASSUME NEW c \in Conns, TakeOut(c) PROVE Ordered(d)'
  <2>1. /\ writer[c] = "running" /\ out[c] # <<>> /\ UNCHANGED sent
        /\ seen' = [seen EXCEPT ![c].channel = Append(@, Head(out[c]))]
        /\ IF Head(out[c]).op = "close"
             THEN /\ writer' = [writer EXCEPT ![c] = "ended"]
                  /\ \A e \in Conns \ {c} : box'[e] = box[e] /\ out'[e] = out[e]
             ELSE out' = [out EXCEPT ![c] = Tail(@)] /\ UNCHANGED <<writer, box>>
    BY <1>0, <1>7 DEF TakeOut, WriterStep, Ends
  <2>2. CASE c # d
    BY <1>0, <1>1, <2>1, <2>2
  <2>3. CASE c = d
    <3>1. /\ seen'[d].mailbox = seen[d].mailbox
          /\ seen'[d].channel = Append(seen[d].channel, Head(out[d]))
      BY <1>0, <2>1, <2>3 DEF Ways
    <3>2. /\ sent[d].channel = seen'[d].channel \o Tail(out[d])
          /\ InOrder(seen'[d].channel, sent[d].channel)
      <4>1. sent[d].channel = seen[d].channel \o out[d] /\ out[d] # <<>>
        BY <1>0, <2>1, <2>3 DEF Ordered
      <4>2. LET x == Append(seen[d].channel, Head(out[d]))
                z == seen[d].channel \o out[d]
            IN z = x \o Tail(out[d]) /\ InOrder(x, z)
        BY <1>0, <4>1, OneOver
      <4> QED BY <3>1, <4>1, <4>2
    <3>3. /\ seen'[d].channel \in Seq(Frames) /\ Tail(out[d]) \in Seq(Frames)
          /\ Len(seen[d].channel) \in Nat
          /\ Len(seen'[d].channel) = Len(seen[d].channel) + 1
          /\ \A i \in 1 .. Len(seen[d].channel) : seen'[d].channel[i] = seen[d].channel[i]
          /\ seen'[d].channel[Len(seen[d].channel) + 1] = Head(out[d])
      BY <1>0, <2>1, <2>3, <3>1, HeadTailProperties, AppendProperties, LenProperties
    <3>5. ASSUME NEW i \in 1 .. Len(seen'[d].channel), seen'[d].channel[i].op = "close"
          PROVE  i = Len(seen'[d].channel) /\ writer'[d] = "ended"
      <4>1. i = Len(seen[d].channel) + 1
        BY <1>0, <2>1, <2>3, <3>3, <3>5 DEF Ordered
      <4> QED BY <1>0, <2>1, <2>3, <3>3, <3>5, <4>1
    <3>6. CASE Head(out[d]).op = "close"
      BY <1>0, <2>1, <2>3, <3>1, <3>2, <3>5, <3>6 DEF Ordered
    <3>7. CASE Head(out[d]).op # "close"
      BY <1>0, <2>1, <2>3, <3>1, <3>2, <3>5, <3>7 DEF Ordered
    <3> QED BY <3>6, <3>7
  <2> QED BY <2>2, <2>3
<1>8. ASSUME NEW c \in Conns, SendFails(c) \/ WriterAborted(c) PROVE Ordered(d)'
  <2>1. /\ UNCHANGED <<sent, seen>> /\ writer' = [writer EXCEPT ![c] = "ended"]
        /\ \A e \in Conns \ {c} : box'[e] = box[e] /\ out'[e] = out[e]
    BY <1>0, <1>8 DEF SendFails, WriterAborted, WriterStep, Ends
  <2> QED BY <1>0, <1>1, <1>2, <2>1
<1>9. ASSUME NEW c \in Conns, Upgrade(c) PROVE Ordered(d)'
  <2>1. writer[c] = "none" /\ writer' = [writer EXCEPT ![c] = "running"] /\ UNCHANGED outbound
    BY <1>9 DEF Upgrade, TypeInv, PlacesOK, Place
  <2> QED BY <1>0, <1>1, <2>1 DEF outbound
<1>10. CASE UNCHANGED <<sent, seen, box, out, writer>>
  BY <1>1, <1>10
<1> QED BY <1>4, <1>5, <1>6, <1>7, <1>8, <1>9, <1>10
        DEF Next, Proceed, Happen, vars, inbound, outbound, procs, Accept, Reject, HttpEnds,
            Disconnect, Fragment, Message, ReadingEnds, GraceEnds, Monitors, Handles, Hangs,
            Returns, Crashes, HandlerAborted, Gone, HandlerStep

\* Each way keeps its order to the client, and a close is the last that goes out,
\* whichever way the writer turns first (ws.rs:555-594).
THEOREM FramesStayInOrder == Spec => []FramesInOrder
<1>1. TypeInv /\ OrderInv => FramesInOrder
  <2> SUFFICES ASSUME TypeInv, NEW c \in Conns, Ordered(c)
               PROVE  /\ IsPrefix(seen[c].mailbox, sent[c].mailbox)
                      /\ IsPrefix(seen[c].channel, sent[c].channel)
                      /\ \A i \in DOMAIN seen[c].channel : seen[c].channel[i].op = "close" =>
                           i = Len(seen[c].channel) /\ writer[c] = "ended"
    BY DEF OrderInv, FramesInOrder
  <2>1. /\ sent[c].mailbox \in Seq(Frames) /\ sent[c].channel \in Seq(Frames)
        /\ seen[c].mailbox \in Seq(Frames) /\ seen[c].channel \in Seq(Frames)
    BY DEF TypeInv, FramesOK, Ways
  <2>2. ASSUME NEW x \in Seq(Frames), NEW y \in Seq(Frames), InOrder(x, y) PROVE IsPrefix(x, y)
    <3>1. Len(x) \in Nat /\ Len(y) \in Nat /\ Len(x) <= Len(y)
      BY <2>2, LenProperties DEF InOrder
    <3>2. SubSeq(x, 1, Len(x)) = SubSeq(y, 1, Len(x))
      <4>1. \A i \in 1 .. Len(x) : x[i] \in Frames /\ y[i] \in Frames /\ x[i] = y[i]
        BY <2>2, <3>1, ElementOfSeq DEF InOrder
      <4>2. /\ SubSeq(x, 1, Len(x)) \in Seq(Frames) /\ SubSeq(y, 1, Len(x)) \in Seq(Frames)
            /\ Len(SubSeq(x, 1, Len(x))) = Len(SubSeq(y, 1, Len(x)))
            /\ Len(SubSeq(x, 1, Len(x))) = Len(x)
            /\ \A i \in 1 .. Len(x) : SubSeq(x, 1, Len(x))[i] = x[i] /\ SubSeq(y, 1, Len(x))[i] = y[i]
        BY <3>1, <4>1, SubSeqProperties
      <4> QED BY <4>1, <4>2, SeqEqual
    <3> QED BY <3>1, <3>2 DEF IsPrefix
  <2>3. DOMAIN seen[c].channel = 1 .. Len(seen[c].channel)
    BY <2>1, LenProperties
  <2> QED BY <2>1, <2>2, <2>3 DEF Ordered
<1> QED BY <1>1, OrderInit, OrderStep, TypeInit, TypeStep, PTL DEF Spec

-----------------------------------------------------------------------------
(* Messages.                                                               *)

\* The first k frames of a script are read, and the rest is to come.
Read(c, k) ==
  /\ k \in 0 .. Len(Scripts[c]) /\ Len(todo[c]) = Len(Scripts[c]) - k
  /\ \A i \in 1 .. Len(todo[c]) : todo[c][i] = Scripts[c][k + i]
\* A message with this number was begun among them.
Begun(c, k, m) ==
  \E i \in 1 .. k : Scripts[c][i].op \in DataOps \ {"continue"} /\ Scripts[c][i].m = m
\* The frames of one message, from its first on.
OneMessage(msg) ==
  \A i \in 1 .. Len(msg) : msg[i].m = msg[1].m /\ msg[i].part = i /\ msg[i].op \in DataOps
\* What is assembled is one message without its end, and the last data frame
\* that was read is its last; the messages delivered were begun before it.
Assembled(c, k) ==
  /\ fragment[c] # <<>> =>
       /\ Len(fragment[c]) <= MaxSize /\ OneMessage(fragment[c])
       /\ \A i \in 1 .. Len(fragment[c]) : ~fragment[c][i].fin
       /\ \E j \in 1 .. k : /\ Scripts[c][j] = fragment[c][Len(fragment[c])]
                           /\ \A l \in j + 1 .. k : Scripts[c][l].op \notin DataOps
       /\ Begun(c, k, fragment[c][1].m)
Delivered(c, k) ==
  /\ \A i \in 1 .. Len(got[c]) :
       /\ Whole(got[c][i]) /\ Begun(c, k, got[c][i][1].m)
       /\ fragment[c] # <<>> => got[c][i][1].m < fragment[c][1].m
  /\ \A i, j \in 1 .. Len(got[c]) : i < j => got[c][i][1].m < got[c][j][1].m
WholeInv ==
  \A c \in Conns : \E k \in Nat : Read(c, k) /\ Assembled(c, k) /\ Delivered(c, k)

LEMMA Script ==
  ASSUME NEW c \in Conns
  PROVE  Scripts[c] \in Seq(Frames) /\ Len(Scripts[c]) \in Nat
         /\ \A i \in 1 .. Len(Scripts[c]) : Scripts[c][i] \in Frames
<1>1. Scripts[c] \in Seq(Frames)
  BY ScriptsAssumption
<1> QED BY <1>1, LenProperties, ElementOfSeq

LEMMA WholeInit == Init => WholeInv
<1> SUFFICES ASSUME Init, NEW c \in Conns
             PROVE  Read(c, 0) /\ Assembled(c, 0) /\ Delivered(c, 0)
  BY DEF WholeInv
<1>1. todo[c] = Scripts[c] /\ fragment[c] = <<>> /\ got[c] = <<>>
  BY DEF Init, NoFragment
<1> QED BY <1>1, Script, EmptySeq DEF Read, Assembled, Delivered

LEMMA BegunStays ==
  ASSUME NEW c, NEW k \in Nat, NEW m, Begun(c, k, m)
  PROVE  Begun(c, k + 1, m)
BY DEF Begun

\* A frame is read: which it is, and what is to come.
LEMMA ReadOn ==
  ASSUME TypeInv, NEW c \in Conns, NEW k \in Nat, Read(c, k), HasFrame(c),
         todo' = [todo EXCEPT ![c] = Tail(@)]
  PROVE  k + 1 \in 1 .. Len(Scripts[c]) /\ Frame1(c) = Scripts[c][k + 1] /\ Read(c, k + 1)'
<1>0. FramesOK
  BY DEF TypeInv
<1>1. /\ Frame1(c) = todo[c][1] /\ Len(todo[c]) \in Nat \ {0}
      /\ Len(Tail(todo[c])) = Len(todo[c]) - 1
      /\ \A i \in 1 .. Len(todo[c]) - 1 : Tail(todo[c])[i] = todo[c][i + 1]
  BY <1>0, TakenFrame
<1>2. Len(Scripts[c]) \in Nat
  BY Script
<1>3. todo'[c] = Tail(todo[c])
  BY <1>0 DEF FramesOK
<1>7. Len(todo'[c]) = Len(todo[c]) - 1
  BY <1>1, <1>3
<1>8. k \in 0 .. Len(Scripts[c]) /\ Len(todo[c]) = Len(Scripts[c]) - k
  BY DEF Read
<1>4. k + 1 \in 0 .. Len(Scripts[c]) /\ Len(todo'[c]) = Len(Scripts[c]) - (k + 1)
  <2>1. Len(todo[c]) \in Nat \ {0}
    BY <1>1
  <2> QED BY <1>2, <1>7, <1>8, <2>1
<1>5. ASSUME NEW i \in 1 .. Len(todo'[c]) PROVE todo'[c][i] = Scripts[c][(k + 1) + i]
  <2>1. i + 1 \in 1 .. Len(todo[c]) /\ i \in 1 .. Len(todo[c]) - 1
    <3>1. Len(todo[c]) \in Nat \ {0}
      BY <1>1
    <3> QED BY <1>7, <3>1
  <2>2. todo[c][i + 1] = Scripts[c][k + (i + 1)]
    BY <2>1 DEF Read
  <2>3. k + (i + 1) = (k + 1) + i
    BY <2>1
  <2> QED BY <1>1, <1>3, <2>1, <2>2, <2>3
<1>6. todo[c][1] = Scripts[c][k + 1]
  BY <1>1 DEF Read
<1>9. Frame1(c) = todo[c][1] /\ k + 1 \in 1 .. Len(Scripts[c])
  BY <1>1, <1>2, <1>4
<1>10. Read(c, k + 1)'
  BY <1>4, <1>5 DEF Read
<1> QED BY <1>6, <1>9, <1>10

\* A data frame that fits is the next of the message that was begun, or begins
\* one after all before.
LEMMA NextPart ==
  ASSUME TypeInv, NEW c \in Conns, NEW k \in Nat, Assembled(c, k), Delivered(c, k),
         k + 1 \in 1 .. Len(Scripts[c]), NEW f \in Frames, f = Scripts[c][k + 1],
         f.op \in DataOps, Fits(c, f)
  PROVE  LET msg == Append(fragment[c], f) IN
         /\ msg \in Seq(Frames) /\ Len(msg) = Len(fragment[c]) + 1 /\ Len(msg) <= MaxSize
         /\ msg[Len(msg)] = f /\ OneMessage(msg)
         /\ \A i \in 1 .. Len(msg) - 1 : ~msg[i].fin
         /\ Begun(c, k + 1, msg[1].m)
         /\ \A i \in 1 .. Len(got[c]) : got[c][i][1].m < msg[1].m
<1> DEFINE msg == Append(fragment[c], f)
<1>1. fragment[c] \in Seq(Frames) /\ Len(fragment[c]) \in Nat /\ MaxSize \in Nat
  BY LenProperties DEF TypeInv, FramesOK
<1>2. /\ msg \in Seq(Frames) /\ Len(msg) = Len(fragment[c]) + 1
      /\ \A i \in 1 .. Len(fragment[c]) : msg[i] = fragment[c][i]
      /\ msg[Len(msg)] = f
  BY <1>1, AppendProperties
<1> HIDE DEF msg
<1>3. Len(msg) <= MaxSize
  BY <1>1, <1>2 DEF Fits
<1>4. CASE f.op # "continue"
  <2>1. fragment[c] = <<>> /\ Len(fragment[c]) = 0
    BY <1>4, EmptySeq DEF Fits, NoFragment
  <2>2. f.part = 1 /\ \A i \in 1 .. k : Scripts[c][i].op \in DataOps \ {"continue"}
                                      => Scripts[c][i].m < f.m
    <3>1. DOMAIN Scripts[c] = 1 .. Len(Scripts[c])
      BY Script, LenProperties
    <3>2. 1 .. (k + 1) - 1 = 1 .. k
      OBVIOUS
    <3>3. f.op \in DataOps \ {"continue"} /\ f = Scripts[c][k + 1] /\ k + 1 \in DOMAIN Scripts[c]
      BY <1>4, <3>1
    <3>4. /\ f.part = 1
          /\ \A i \in 1 .. (k + 1) - 1 :
               Scripts[c][i].op \in DataOps \ {"continue"} => Scripts[c][i].m < f.m
      BY <3>3, ScriptsAssumption
    <3> QED BY <3>2, <3>4
  <2>3. Len(msg) = 1 /\ msg[1] = f
    BY <1>2, <2>1
  <2>4. Begun(c, k + 1, f.m)
    BY <1>4 DEF Begun
  <2>5. ASSUME NEW i \in 1 .. Len(got[c]) PROVE got[c][i][1].m < f.m
    BY <2>2 DEF Delivered, Begun
  <2> QED BY <1>2, <1>3, <2>2, <2>3, <2>4, <2>5 DEF OneMessage, msg
<1>5. CASE f.op = "continue"
  <2>1. fragment[c] # <<>> /\ Len(fragment[c]) \in Nat \ {0}
    BY <1>1, <1>5, EmptySeq DEF Fits, NoFragment
  <2>2. PICK j \in 1 .. k : /\ Scripts[c][j] = fragment[c][Len(fragment[c])]
                           /\ \A l \in j + 1 .. k : Scripts[c][l].op \notin DataOps
    BY <2>1 DEF Assembled
  <2>3. /\ OneMessage(fragment[c]) /\ Begun(c, k, fragment[c][1].m)
        /\ \A i \in 1 .. Len(fragment[c]) : ~fragment[c][i].fin
    BY <2>1 DEF Assembled
  <2> DEFINE e == fragment[c][Len(fragment[c])]
  <2>4. /\ e.op \in DataOps /\ ~e.fin /\ e.m = fragment[c][1].m /\ e.part = Len(fragment[c])
    BY <2>1, <2>3 DEF OneMessage
  <2>5. f.m = e.m /\ f.part = e.part + 1
    <3>1. DOMAIN Scripts[c] = 1 .. Len(Scripts[c])
      BY Script, LenProperties
    <3>2. 1 .. (k + 1) - 1 = 1 .. k /\ j + 1 .. (k + 1) - 1 = j + 1 .. k
      OBVIOUS
    <3>3. \A i \in 1 .. k :
            /\ Scripts[c][i].op \in DataOps /\ ~Scripts[c][i].fin
            /\ \A l \in i + 1 .. k : Scripts[c][l].op \notin DataOps
            => f.m = Scripts[c][i].m /\ f.part = Scripts[c][i].part + 1
      <4> SUFFICES ASSUME NEW i \in 1 .. k, Scripts[c][i].op \in DataOps, ~Scripts[c][i].fin,
                          \A l \in i + 1 .. k : Scripts[c][l].op \notin DataOps
                   PROVE  f.m = Scripts[c][i].m /\ f.part = Scripts[c][i].part + 1
        OBVIOUS
      <4>1. /\ i \in 1 .. (k + 1) - 1 /\ i + 1 .. (k + 1) - 1 = i + 1 .. k
            /\ k + 1 \in DOMAIN Scripts[c] /\ Scripts[c][k + 1] = f /\ f.op = "continue"
        BY <1>5, <3>1
      <4> QED BY <4>1, ScriptsAssumption
    <3> QED BY <2>2, <2>4, <3>3
  <2> HIDE DEF e
  <2>6. msg[1] = fragment[c][1]
    BY <1>2, <2>1
  <2>7. OneMessage(msg)
    <3> SUFFICES ASSUME NEW i \in 1 .. Len(msg)
                 PROVE  msg[i].m = msg[1].m /\ msg[i].part = i /\ msg[i].op \in DataOps
      BY DEF OneMessage
    <3>1. CASE i = Len(msg)
      BY <1>1, <1>2, <2>4, <2>5, <2>6, <3>1
    <3>2. CASE i # Len(msg)
      <4>1. i \in 1 .. Len(fragment[c])
        BY <1>1, <1>2, <3>2
      <4> QED BY <1>2, <2>3, <2>6, <4>1 DEF OneMessage
    <3> QED BY <3>1, <3>2
  <2>8. \A i \in 1 .. Len(msg) - 1 : ~msg[i].fin
    <3> SUFFICES ASSUME NEW i \in 1 .. Len(msg) - 1 PROVE ~msg[i].fin
      OBVIOUS
    <3>1. i \in 1 .. Len(fragment[c])
      BY <1>1, <1>2
    <3>2. msg[i] = fragment[c][i]
      BY <1>2, <3>1
    <3> QED BY <2>3, <3>1, <3>2
  <2>9. Begun(c, k + 1, msg[1].m)
    BY <2>3, <2>6, BegunStays
  <2>10. \A i \in 1 .. Len(got[c]) : got[c][i][1].m < msg[1].m
    BY <2>1, <2>6 DEF Delivered
  <2> QED BY <1>2, <1>3, <2>7, <2>8, <2>9, <2>10 DEF msg
<1> QED BY <1>4, <1>5 DEF msg

LEMMA WholeStep == TypeInv /\ WholeInv /\ [Next]_vars => WholeInv'
<1> SUFFICES ASSUME TypeInv, WholeInv, [Next]_vars, NEW d \in Conns
             PROVE  \E k \in Nat : Read(d, k)' /\ Assembled(d, k)' /\ Delivered(d, k)'
  BY DEF WholeInv
<1>0. /\ todo \in [Conns -> Seq(Frames)] /\ fragment \in [Conns -> Seq(Frames)]
      /\ got \in [Conns -> Seq(Seq(Frames))] /\ FramesOK
  BY DEF TypeInv, FramesOK
<1>1. PICK k \in Nat : Read(d, k) /\ Assembled(d, k) /\ Delivered(d, k)
  BY DEF WholeInv
<1>2. ASSUME todo'[d] = todo[d], fragment'[d] = fragment[d], got'[d] = got[d]
      PROVE  Read(d, k)' /\ Assembled(d, k)' /\ Delivered(d, k)'
  BY <1>1, <1>2 DEF Read, Assembled, Delivered, Begun
<1>3. ASSUME NEW c \in Conns, c # d, Fragment(c) \/ Message(c) \/ Ping(c)
      PROVE  todo'[d] = todo[d] /\ fragment'[d] = fragment[d] /\ got'[d] = got[d]
  BY <1>0, <1>3 DEF Fragment, Message, Ping, Took
<1>4. CASE Fragment(d)
  <2>1. /\ HasFrame(d) /\ Frame1(d).op \in DataOps /\ ~Frame1(d).fin /\ Fits(d, Frame1(d))
        /\ todo' = [todo EXCEPT ![d] = Tail(@)] /\ got' = got
        /\ fragment' = [fragment EXCEPT ![d] = Append(@, Frame1(d))]
    BY <1>4 DEF Fragment, Took
  <2>2. k + 1 \in 1 .. Len(Scripts[d]) /\ Frame1(d) = Scripts[d][k + 1] /\ Read(d, k + 1)'
    BY <1>1, <2>1, ReadOn
  <2>3. PICK f, msg : f \in Frames /\ f = Frame1(d) /\ msg = Append(fragment[d], f)
    BY <1>0, <2>1, TakenFrame
  <2>4. /\ Len(msg) = Len(fragment[d]) + 1 /\ Len(msg) <= MaxSize
        /\ msg[Len(msg)] = f /\ OneMessage(msg)
        /\ \A i \in 1 .. Len(msg) - 1 : ~msg[i].fin
        /\ Begun(d, k + 1, msg[1].m)
        /\ \A i \in 1 .. Len(got[d]) : got[d][i][1].m < msg[1].m
    <3>1. f.op \in DataOps /\ Fits(d, f) /\ f = Scripts[d][k + 1] /\ k + 1 \in 1 .. Len(Scripts[d])
      BY <2>1, <2>2, <2>3
    <3> QED BY <1>1, <2>3, <3>1, NextPart
  <2>5. fragment'[d] = msg /\ got'[d] = got[d] /\ Len(fragment[d]) \in Nat
    BY <1>0, <2>1, <2>3, LenProperties
  <2>6. Assembled(d, k + 1)'
    <3>1. \A i \in 1 .. Len(msg) : ~msg[i].fin
      BY <2>1, <2>3, <2>4, <2>5
    <3>2. k + 1 \in 1 .. k + 1 /\ \A l \in (k + 1) + 1 .. k + 1 : FALSE
      OBVIOUS
    <3>3. \E j \in 1 .. k + 1 : /\ Scripts[d][j] = msg[Len(msg)]
                                /\ \A l \in j + 1 .. k + 1 : Scripts[d][l].op \notin DataOps
      BY <2>2, <2>3, <2>4, <3>2
    <3> QED BY <2>4, <2>5, <3>1, <3>3 DEF Assembled, OneMessage, Begun
  <2>7. Delivered(d, k + 1)'
    <3>1. \A i \in 1 .. Len(got[d]) : Begun(d, k + 1, got[d][i][1].m) /\ Whole(got[d][i])
      BY <1>1, BegunStays DEF Delivered
    <3> QED BY <1>1, <2>4, <2>5, <3>1 DEF Delivered, Begun
  <2> QED BY <2>2, <2>6, <2>7
<1>5. CASE Message(d)
  <2>1. PICK f, msg : f \in Frames /\ f = Frame1(d) /\ msg = Append(fragment[d], f)
    BY <1>0, <1>5, TakenFrame DEF Message
  <2>2. /\ HasFrame(d) /\ f.op \in DataOps /\ f.fin /\ Fits(d, f)
        /\ todo' = [todo EXCEPT ![d] = Tail(@)]
        /\ got' = [got EXCEPT ![d] = Append(@, msg)]
        /\ fragment' = [fragment EXCEPT ![d] = NoFragment]
    BY <1>5, <2>1 DEF Message, Took
  <2>3. k + 1 \in 1 .. Len(Scripts[d]) /\ f = Scripts[d][k + 1] /\ Read(d, k + 1)'
    BY <1>1, <2>1, <2>2, ReadOn
  <2>4. /\ msg \in Seq(Frames) /\ Len(msg) = Len(fragment[d]) + 1 /\ Len(msg) <= MaxSize
        /\ msg[Len(msg)] = f /\ OneMessage(msg)
        /\ \A i \in 1 .. Len(msg) - 1 : ~msg[i].fin
        /\ Begun(d, k + 1, msg[1].m)
        /\ \A i \in 1 .. Len(got[d]) : got[d][i][1].m < msg[1].m
    <3>1. f.op \in DataOps /\ Fits(d, f) /\ f = Scripts[d][k + 1] /\ k + 1 \in 1 .. Len(Scripts[d])
      BY <2>1, <2>2, <2>3
    <3> QED BY <1>1, <2>1, <3>1, NextPart
  <2>5. Whole(msg)
    <3>1. Len(fragment[d]) \in Nat /\ MaxSize \in Nat /\ DOMAIN msg = 1 .. Len(msg)
      BY <1>0, <2>4, LenProperties
    <3>2. ASSUME NEW i \in 1 .. Len(msg) PROVE msg[i].fin <=> i = Len(msg)
      <4>1. CASE i = Len(msg)
        BY <2>2, <2>4, <4>1
      <4>2. CASE i # Len(msg)
        <5>1. i \in 1 .. Len(msg) - 1
          BY <2>4, <3>1, <4>2
        <5> QED BY <2>4, <4>2, <5>1
      <4> QED BY <4>1, <4>2
    <3>3. Len(msg) \in 1 .. MaxSize
      BY <2>4, <3>1
    <3> QED BY <2>4, <3>1, <3>2, <3>3 DEF Whole, OneMessage
  <2>6. /\ fragment'[d] = <<>> /\ got[d] \in Seq(Seq(Frames)) /\ Len(got[d]) \in Nat
        /\ Len(got'[d]) = Len(got[d]) + 1 /\ got'[d][Len(got[d]) + 1] = msg
        /\ \A i \in 1 .. Len(got[d]) : got'[d][i] = got[d][i]
    BY <1>0, <2>2, <2>4, AppendProperties, LenProperties DEF NoFragment
  <2>7. Assembled(d, k + 1)'
    BY <2>6 DEF Assembled
  <2>8. ASSUME NEW i \in 1 .. Len(got'[d])
        PROVE  Whole(got'[d][i]) /\ Begun(d, k + 1, got'[d][i][1].m)
    <3>1. CASE i = Len(got[d]) + 1
      BY <2>4, <2>5, <2>6, <3>1
    <3>2. CASE i # Len(got[d]) + 1
      <4>1. i \in 1 .. Len(got[d])
        BY <2>6, <3>2
      <4>2. Whole(got[d][i]) /\ Begun(d, k, got[d][i][1].m)
        BY <1>1, <4>1 DEF Delivered
      <4> QED BY <2>6, <4>1, <4>2, BegunStays
    <3> QED BY <3>1, <3>2
  <2>9. ASSUME NEW i \in 1 .. Len(got'[d]), NEW j \in 1 .. Len(got'[d]), i < j
        PROVE  got'[d][i][1].m < got'[d][j][1].m
    <3>1. i \in 1 .. Len(got[d]) /\ got'[d][i] = got[d][i]
      BY <2>6, <2>9
    <3>2. CASE j = Len(got[d]) + 1
      BY <2>4, <2>6, <3>1, <3>2
    <3>3. CASE j # Len(got[d]) + 1
      <4>1. j \in 1 .. Len(got[d]) /\ got'[d][j] = got[d][j]
        <5>1. Len(got[d]) \in Nat /\ Len(got'[d]) = Len(got[d]) + 1
          BY <2>6
        <5>2. j \in 1 .. Len(got[d])
          BY <3>3, <5>1
        <5> QED BY <2>6, <5>2
      <4> QED BY <1>1, <2>9, <3>1, <4>1 DEF Delivered
    <3> QED BY <3>2, <3>3
  <2>10. Delivered(d, k + 1)'
    BY <2>6, <2>8, <2>9 DEF Delivered, Begun
  <2> QED BY <2>3, <2>7, <2>10
<1>6. CASE Ping(d)
  <2>1. /\ HasFrame(d) /\ Frame1(d).op = "ping" /\ UNCHANGED <<fragment, got>>
        /\ todo' = [todo EXCEPT ![d] = Tail(@)]
    BY <1>6 DEF Ping, Took
  <2>2. k + 1 \in 1 .. Len(Scripts[d]) /\ Frame1(d) = Scripts[d][k + 1] /\ Read(d, k + 1)'
    BY <1>1, <2>1, ReadOn
  <2>3. Scripts[d][k + 1].op \notin DataOps
    BY <2>1, <2>2 DEF DataOps
  <2>4. Assembled(d, k + 1)'
    <3>1. CASE fragment[d] = <<>>
      BY <2>1, <3>1 DEF Assembled
    <3>2. CASE fragment[d] # <<>>
      <4>1. PICK j \in 1 .. k : /\ Scripts[d][j] = fragment[d][Len(fragment[d])]
                               /\ \A l \in j + 1 .. k : Scripts[d][l].op \notin DataOps
        BY <1>1, <3>2 DEF Assembled
      <4>2. j \in 1 .. k + 1 /\ \A l \in j + 1 .. k + 1 : Scripts[d][l].op \notin DataOps
        BY <2>3, <4>1
      <4>3. Begun(d, k + 1, fragment[d][1].m)
        BY <1>1, <3>2, BegunStays DEF Assembled
      <4> QED BY <1>1, <2>1, <3>2, <4>1, <4>2, <4>3 DEF Assembled, OneMessage, Begun
    <3> QED BY <3>1, <3>2
  <2>5. Delivered(d, k + 1)'
    <3>1. \A i \in 1 .. Len(got[d]) : Begun(d, k + 1, got[d][i][1].m)
      BY <1>1, BegunStays DEF Delivered
    <3> QED BY <1>1, <2>1, <3>1 DEF Delivered, Begun
  <2> QED BY <2>2, <2>4, <2>5
<1>7. CASE UNCHANGED <<todo, fragment, got>>
  BY <1>1, <1>2, <1>7
<1> QED BY <1>1, <1>2, <1>3, <1>4, <1>5, <1>6, <1>7
        DEF Next, Proceed, Happen, vars, inbound, Accept, Reject, Upgrade, HttpEnds,
            Disconnect, ReadingEnds, GraceEnds, TakeBinary, TakeOut, SendFails, WriterAborted,
            WriterStep, Monitors, Handles, Emit, Hangs, Returns, Crashes, HandlerAborted, Gone,
            HandlerStep

\* The handler gets whole messages in the order they were begun, whatever frames
\* a client sends in whatever pieces, with control frames anywhere between them
\* (ws_codec.rs:308-379).
THEOREM MessagesStayWhole == Spec => []MessagesAreWhole
<1>1. TypeInv /\ WholeInv => MessagesAreWhole
  <2> SUFFICES ASSUME TypeInv, WholeInv, NEW c \in Conns
               PROVE  /\ \A i \in DOMAIN got[c] : Whole(got[c][i])
                      /\ \A i, j \in DOMAIN got[c] : i < j => got[c][i][1].m < got[c][j][1].m
    BY DEF MessagesAreWhole
  <2>1. \E k \in Nat : Delivered(c, k)
    BY DEF WholeInv
  <2>2. DOMAIN got[c] = 1 .. Len(got[c])
    BY LenProperties DEF TypeInv, FramesOK
  <2> QED BY <2>1, <2>2 DEF Delivered
<1> QED BY <1>1, WholeInit, WholeStep, TypeInit, TypeStep, PTL DEF Spec
=============================================================================
