---------------------------- MODULE MCWebSocket ----------------------------
(* Small instances of WebSocket for TLC: more connections than permits; one
   client sends a message in two parts with a ping between them and then one
   that is too long, the other a message and a part of none. *)
EXTENDS WebSocket

ClientScripts == [c \in Conns |->
  IF c = "a"
    THEN <<Frame("text", 1, 1, FALSE), Frame("ping", 2, 1, TRUE), Frame("continue", 1, 2, TRUE),
           Frame("continue", 3, 2, TRUE)>>
    ELSE <<Frame("binary", 1, 1, TRUE), Frame("binary", 2, 1, FALSE),
           Frame("continue", 2, 2, FALSE), Frame("continue", 2, 3, TRUE)>>]

B(accept, frame_, binary, text, close, crash, hang, reject) ==
  [k \in {"accept", "frame", "binary", "text", "close", "crash", "hang", "reject"} |->
     CASE k = "accept" -> accept [] k = "frame" -> frame_
       [] k = "binary" -> binary [] k = "text" -> text [] k = "close" -> close
       [] k = "crash" -> crash [] k = "hang" -> hang [] k = "reject" -> reject]
SocketBudgets == {B(1, 3, 1, 1, 1, 0, 1, 0), B(1, 6, 0, 0, 1, 1, 0, 0), B(2, 1, 0, 0, 1, 1, 1, 1)}
CrashBudgets == {B(1, 0, 1, 1, 1, 1, 0, 0)}
=============================================================================
