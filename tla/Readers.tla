------------------------------ MODULE Readers ------------------------------
(***************************************************************************)
(* How a stream of bytes becomes messages: the frames of a websocket, after *)
(* the answer to its upgrade (network/websocket.cpp), the lines of an IRC  *)
(* server (backends/irc/server.cpp) and those of a console session         *)
(* (console/console.cpp).  The bytes come in packets that are cut anywhere. *)
(*                                                                         *)
(* A message is its length: a frame says how long it is, a line has its    *)
(* end, and no message is whole before all of it is there.  The bytes of   *)
(* the buffer are those after the position from, up to sent.  Once bytes   *)
(* are lost or in disorder, what is read next means nothing.               *)
(***************************************************************************)
EXTENDS Naturals, Sequences, Functions, FiniteSets

CONSTANTS Streams,         \* the lengths of the messages of a connection
          Room,            \* what the buffers hold that are not grown
          MaxConnections   \* bound on a behaviour

VARIABLES reader,      \* "frames", "irc" or "console"
          messages,    \* the stream
          phase,       \* "upgrade", "upgraded", "flush" or "read"
          sent, from,  \* how far the packets and the buffer's beginning are
          offset,      \* what the buffer keeps although it was handled
          view,        \* how much of it the handler has passed by
          busy,        \* the handler is at work on a packet
          taken,       \* history: the messages handled, of this connection
          lost,        \* history: how bytes were lost, "" as long as they were not
          connections  \* how many connections there were

vars == <<reader, messages, phase, sent, from, offset, view, busy, taken, lost, connections>>

\* Where the n-th message ends.
End[n \in Nat] == IF n = 0 THEN 0 ELSE End[n - 1] + messages[n]
Total == End[Len(messages)]

\* The messages that have come, without the answer to the upgrade.
Whole == {n \in DOMAIN messages : End[n] <= sent /\ (reader = "frames" => n > 1)}

Init ==
  /\ reader \in {"frames", "irc", "console"} /\ messages \in Streams
  /\ phase = IF reader = "frames" THEN "upgrade" ELSE "read"
  /\ sent = 0 /\ from = 0 /\ offset = 0 /\ view = 0 /\ busy = FALSE
  /\ taken = <<>> /\ lost = "" /\ connections = 1

Bytes(n) == sent + n <= Total /\ sent' = sent + n
Lose(how, when) == lost' = IF when THEN how ELSE lost

-----------------------------------------------------------------------------
(* The upgrade of a websocket *)

\* The buffer is cleared with the answer, whatever came behind it.
AnswerPacket(n) ==
  /\ phase = "upgrade" /\ Bytes(n)
  /\ IF sent' < End[1] THEN UNCHANGED <<phase, from>> /\ Lose("room", sent' - from > Room)
     ELSE phase' = "upgraded" /\ from' = sent' /\ Lose("coalesced", sent' > End[1])
  /\ UNCHANGED <<reader, messages, offset, view, busy, taken, connections>>

\* "websocket data might come in before the outer thread has a chance to unblock"
EarlyPacket(n) ==
  /\ phase = "upgraded" /\ Bytes(n)
  /\ Lose("room", sent' - from > Room)
  /\ UNCHANGED <<reader, messages, phase, from, offset, view, busy, taken, connections>>

\* The connecting thread installs the handler and then flushes the early bytes.
Install ==
  /\ phase = "upgraded"
  /\ phase' = IF sent > from THEN "flush" ELSE "read"
  /\ UNCHANGED <<reader, messages, sent, from, offset, view, busy, taken, lost, connections>>

Flush ==
  /\ phase = "flush" /\ phase' = "read" /\ busy' = TRUE /\ view' = offset
  /\ UNCHANGED <<reader, messages, sent, from, offset, taken, lost, connections>>

\* The receiver's packet overtakes them.
OvertakingPacket(n) ==
  /\ phase = "flush" /\ Bytes(n)
  /\ Lose("order", TRUE)
  /\ UNCHANGED <<reader, messages, phase, from, offset, view, busy, taken, connections>>

-----------------------------------------------------------------------------
(* The handlers *)

\* Those of frames and IRC lines let the buffer grow and skip what they have
\* handled; the console begins at the beginning.
Packet(n) ==
  /\ phase = "read" /\ ~busy /\ Bytes(n)
  /\ busy' = TRUE /\ view' = offset
  /\ Lose("room", reader = "console" /\ sent' - from > Room)
  /\ UNCHANGED <<reader, messages, phase, from, offset, taken, connections>>

\* The next message that the handler sees.
Upcoming == CHOOSE n \in DOMAIN messages : End[n - 1] = from + view
Seen == /\ from + view < sent
        /\ End[Upcoming] <= sent

\* Mutant: the offset stays.
TakeAgain ==
  /\ busy /\ Seen
  /\ taken' = Append(taken, Upcoming)
  /\ view' = view + messages[Upcoming]
  /\ UNCHANGED <<reader, messages, phase, sent, from, offset, busy, lost, connections>>

Take ==
  /\ busy /\ Seen
  /\ taken' = Append(taken, Upcoming)
  /\ view' = view + messages[Upcoming]
  /\ offset' = IF reader = "console" THEN 0 ELSE view'
  /\ UNCHANGED <<reader, messages, phase, sent, from, busy, lost, connections>>

\* What the loops take for an empty rest: IRC's has no such end, and that of
\* frames leaves one byte unread.
Finished == CASE reader = "frames" -> sent < from + view + 2
              [] reader = "console" -> sent = from + view
              [] OTHER -> FALSE

\* Mutant: the offset is kept with the buffer cleared.
ReturnKeepsOffset ==
  /\ busy /\ ~Seen
  /\ busy' = FALSE
  /\ IF Finished THEN from' = sent /\ Lose("remainder", sent > from + view)
     ELSE UNCHANGED <<from, lost>>
  /\ UNCHANGED <<reader, messages, phase, sent, offset, view, taken, connections>>

\* "we must leave it in the buffer until we get more data to parse it fully"
Return ==
  /\ busy /\ ~Seen
  /\ busy' = FALSE
  /\ IF Finished THEN from' = sent /\ offset' = 0 /\ Lose("remainder", sent > from + view)
     ELSE UNCHANGED <<from, offset, lost>>
  /\ UNCHANGED <<reader, messages, phase, sent, view, taken, connections>>

\* WebSocket::connect again, with the buffer and the offset as they are.
Reconnect ==
  /\ reader = "frames" /\ ~busy /\ phase # "flush" /\ connections < MaxConnections
  /\ connections' = connections + 1
  /\ phase' = "upgrade" /\ sent' = 0 /\ from' = 0 /\ taken' = <<>>
  /\ Lose("stale", phase = "read" /\ sent > from)
  /\ UNCHANGED <<reader, messages, offset, view, busy>>

Next == /\ lost = ""
        /\ \/ \E n \in 1..Total : \/ AnswerPacket(n) \/ EarlyPacket(n) \/ OvertakingPacket(n)
                                  \/ Packet(n)
           \/ Install \/ Flush \/ Take \/ Return \/ Reconnect

Spec == Init /\ [][Next]_vars

-----------------------------------------------------------------------------
TypeOK ==
  /\ from <= sent /\ sent <= Total /\ offset <= view /\ view <= Total
  /\ lost = "" => from + offset <= sent
  /\ phase \in {"upgrade", "upgraded", "flush", "read"} /\ busy \in BOOLEAN
  /\ Range(taken) \subseteq Whole
  /\ lost \in {"", "room", "coalesced", "order", "remainder", "stale"}

\* However the stream is cut, each frame and each line of IRC is handled once
\* and in its order, and each line of the console is run, again or not; unless
\* bytes were lost.  They may be by "we must leave it in the buffer until we get
\* more data to parse it fully" (websocket.cpp:184), which is not what happens to a
\* single byte.
EachMessageIsTaken ==
  (phase = "read" /\ ~busy /\ lost = "") =>
    /\ Range(taken) = Whole
    /\ reader # "console" => /\ Len(taken) = Cardinality(Whole)
                             /\ \A i \in 2..Len(taken) : taken[i] = taken[i - 1] + 1
=============================================================================
