--------------------------- MODULE ChatRoomClient ---------------------------
(***************************************************************************)
(* The chat room client (chat_room_client.cc) on TCPClient                 *)
(* (tcp_client.hpp): it connects, says something, and says something more  *)
(* for each message it reads.  One thread connects and then polls the      *)
(* io_context in loop() until the socket is closed.                        *)
(*                                                                         *)
(* A message is the number of the send_random_msg that composed it, Junk   *)
(* one that went out damaged.  What the client reads it only prints and    *)
(* counts, so a stream that lost its framing is one of fewer or more       *)
(* messages.  m_quit stays false and is left out.                          *)
(***************************************************************************)
EXTENDS Integers, Sequences

CONSTANTS
  Junk,      \* a frame that is not the one queued
  MaxHeard   \* bound: messages the server sends

ASSUME ClientAssumption ==
  /\ Junk \notin Nat
  /\ MaxHeard \in Nat

VARIABLES
  is_open,        \* m_tcp_socket.is_open()
  loop,           \* where loop() stands: "test", "poll" or "returned"
  connecting,     \* the state of async_connect
  rd,             \* the read: what it reads and its state
  wr,             \* the writes under way
  m_send_queue,
  heard,          \* number of messages sent by the server
  stream,         \* how many of them have not been read
  composed,       \* number of calls of send_random_msg
  wire            \* history: frames that went out

vars == <<is_open, loop, connecting, rd, wr, m_send_queue, heard, stream, composed, wire>>
socketVars == <<is_open, loop, connecting>>

OpStates == {"waiting", "done", "failed"}
NoRead == [op |-> "none", st |-> "none"]

TypeOK ==
  /\ is_open \in BOOLEAN
  /\ loop \in {"test", "poll", "returned"}
  /\ connecting \in OpStates \cup {"none"}
  /\ rd \in [op : {"header", "body"}, st : OpStates] \cup {NoRead}
  /\ wr \in Seq([frame : Nat \cup {Junk}, st : OpStates])
  /\ m_send_queue \in Seq(1..composed)
  /\ heard \in 0..MaxHeard /\ stream \in 0..heard
  /\ composed \in Nat
  /\ wire \in Seq(Nat \cup {Junk})

\* async_connect has opened the socket, or could not and has posted an error.
Init ==
  /\ is_open \in BOOLEAN
  /\ connecting = IF is_open THEN "waiting" ELSE "failed"
  /\ loop = "test"
  /\ rd = NoRead
  /\ wr = <<>>
  /\ m_send_queue = <<>>
  /\ heard = 0 /\ stream = 0
  /\ composed = 0
  /\ wire = <<>>
-----------------------------------------------------------------------------
(***************************************************************************)
(* The network and the server.                                             *)
(***************************************************************************)
ConnectCompletes(result) ==
  /\ loop = "poll"
  /\ connecting = "waiting"
  /\ connecting' = result
  /\ UNCHANGED <<is_open, loop, rd, wr, m_send_queue, heard, stream, composed, wire>>

ServerSends ==
  /\ loop = "poll"
  /\ is_open /\ connecting = "none"
  /\ heard < MaxHeard
  /\ heard' = heard + 1
  /\ stream' = stream + 1
  /\ UNCHANGED <<socketVars, rd, wr, m_send_queue, composed, wire>>

ReadCompletes ==
  /\ loop = "poll"
  /\ rd.st = "waiting"
  /\ stream > 0
  /\ rd' = [rd EXCEPT !.st = "done"]
  /\ UNCHANGED <<socketVars, wr, m_send_queue, heard, stream, composed, wire>>

ReadFails ==
  /\ loop = "poll"
  /\ rd.st = "waiting"
  /\ rd' = [rd EXCEPT !.st = "failed"]
  /\ UNCHANGED <<socketVars, wr, m_send_queue, heard, stream, composed, wire>>

WriteCompletes(i) ==
  /\ loop = "poll"
  /\ wr[i].st = "waiting"
  /\ wr' = [wr EXCEPT ![i].st = "done"]
  /\ wire' = Append(wire, wr[i].frame)
  /\ UNCHANGED <<socketVars, rd, m_send_queue, heard, stream, composed>>

WriteFails(i) ==
  /\ loop = "poll"
  /\ wr[i].st = "waiting"
  /\ wr' = [wr EXCEPT ![i].st = "failed"]
  /\ UNCHANGED <<socketVars, rd, m_send_queue, heard, stream, composed, wire>>
-----------------------------------------------------------------------------
(***************************************************************************)
(* Sending.                                                                *)
(***************************************************************************)
\* async_write of a frame: a part the socket takes late comes from memory
\* that do_write has given back.
Write(frame, late) ==
  [frame |-> IF late THEN Junk ELSE frame,
   st    |-> IF is_open THEN "waiting" ELSE "failed"]

\* Mutant: iswriting is asked after the push.
SendAsksLate(late) ==
  /\ composed' = composed + 1
  /\ m_send_queue' = Append(m_send_queue, composed')
  /\ UNCHANGED wr

\* Queue a message; do_write if nothing was queued before.
send_random_msg(late) ==
  /\ composed' = composed + 1
  /\ m_send_queue' = Append(m_send_queue, composed')
  /\ wr' = IF m_send_queue = <<>> THEN Append(wr, Write(composed', late)) ELSE wr

Without(ws, i) == SubSeq(ws, 1, i - 1) \o SubSeq(ws, i + 1, Len(ws))

\* Mutant: the next frame is the newest one.
WriteHandlerTakesBack(i, late) ==
  LET rest == Tail(m_send_queue) IN
  /\ loop = "poll"
  /\ wr[i].st = "done"
  /\ m_send_queue' = rest
  /\ wr' = IF rest = <<>> THEN Without(wr, i)
           ELSE Append(Without(wr, i), Write(rest[Len(rest)], late))
  /\ UNCHANGED <<socketVars, rd, heard, stream, composed, wire>>

WriteHandler(i, late) ==
  LET rest == Tail(m_send_queue) IN
  /\ loop = "poll"
  /\ wr[i].st = "done"
  /\ m_send_queue' = rest
  /\ wr' = IF rest = <<>> THEN Without(wr, i)
           ELSE Append(Without(wr, i), Write(Head(rest), late))
  /\ UNCHANGED <<socketVars, rd, heard, stream, composed, wire>>
-----------------------------------------------------------------------------
(***************************************************************************)
(* Connecting and reading.                                                 *)
(***************************************************************************)
\* read_header and read_body, unless the socket is closed.
StartRead(what) ==
  rd' = IF is_open THEN [op |-> what, st |-> "waiting"] ELSE NoRead

\* handle_connection_established, then start().
ConnectHandler(late) ==
  /\ loop = "poll"
  /\ connecting = "done"
  /\ connecting' = "none"
  /\ send_random_msg(late)
  /\ StartRead("header")
  /\ UNCHANGED <<is_open, loop, heard, stream, wire>>

HeaderHandler ==
  /\ loop = "poll"
  /\ rd = [op |-> "header", st |-> "done"]
  /\ StartRead("body")
  /\ UNCHANGED <<socketVars, wr, m_send_queue, heard, stream, composed, wire>>

\* handle_message answers, then the next header.
BodyHandler(late) ==
  /\ loop = "poll"
  /\ rd = [op |-> "body", st |-> "done"]
  /\ stream' = stream - 1
  /\ send_random_msg(late)
  /\ StartRead("header")
  /\ UNCHANGED <<socketVars, heard, wire>>
-----------------------------------------------------------------------------
(***************************************************************************)
(* Errors: the first closes the socket, and what waits on it fails.        *)
(***************************************************************************)
Abort(op) == [op EXCEPT !.st = IF @ = "waiting" THEN "failed" ELSE @]

\* read and writes are what is left when the failed operation is gone.
handle_error(read, writes) ==
  /\ is_open' = FALSE
  /\ rd' = IF is_open THEN Abort(read) ELSE read
  /\ wr' = IF is_open THEN [i \in DOMAIN writes |-> Abort(writes[i])] ELSE writes

\* Mutant: a failed connect only returns.
ConnectErrorIgnored ==
  /\ loop = "poll"
  /\ connecting = "failed"
  /\ connecting' = "none"
  /\ UNCHANGED <<is_open, loop, rd, wr, m_send_queue, heard, stream, composed, wire>>

ConnectErrorHandler ==
  /\ loop = "poll"
  /\ connecting = "failed"
  /\ connecting' = "none"
  /\ handle_error(rd, wr)
  /\ UNCHANGED <<loop, m_send_queue, heard, stream, composed, wire>>

ReadErrorHandler ==
  /\ loop = "poll"
  /\ rd.st = "failed"
  /\ handle_error(NoRead, wr)
  /\ UNCHANGED <<loop, connecting, m_send_queue, heard, stream, composed, wire>>

WriteErrorHandler(i) ==
  /\ loop = "poll"
  /\ wr[i].st = "failed"
  /\ handle_error(rd, Without(wr, i))
  /\ UNCHANGED <<loop, connecting, m_send_queue, heard, stream, composed, wire>>
-----------------------------------------------------------------------------
(***************************************************************************)
(* TCPClient::loop.                                                        *)
(***************************************************************************)
TestOpen ==
  /\ loop = "test"
  /\ loop' = IF is_open THEN "poll" ELSE "returned"
  /\ UNCHANGED <<is_open, connecting, rd, wr, m_send_queue, heard, stream, composed, wire>>

Ready(st) == st \in {"done", "failed"}

\* Mutant: poll_one() instead of poll().
EndPollOne ==
  /\ loop = "poll"
  /\ loop' = "test"
  /\ UNCHANGED <<is_open, connecting, rd, wr, m_send_queue, heard, stream, composed, wire>>

\* poll() returns when no handler is ready.
EndPoll ==
  /\ loop = "poll"
  /\ ~Ready(connecting) /\ ~Ready(rd.st)
  /\ \A i \in DOMAIN wr : ~Ready(wr[i].st)
  /\ loop' = "test"
  /\ UNCHANGED <<is_open, connecting, rd, wr, m_send_queue, heard, stream, composed, wire>>

Handlers ==
  \/ \E late \in BOOLEAN : ConnectHandler(late) \/ BodyHandler(late)
  \/ HeaderHandler
  \/ \E i \in DOMAIN wr, late \in BOOLEAN : WriteHandler(i, late)
  \/ ConnectErrorHandler
  \/ ReadErrorHandler
  \/ \E i \in DOMAIN wr : WriteErrorHandler(i)

Network ==
  \/ \E result \in {"done", "failed"} : ConnectCompletes(result)
  \/ ServerSends
  \/ ReadCompletes
  \/ ReadFails
  \/ \E i \in DOMAIN wr : WriteCompletes(i) \/ WriteFails(i)

Next == Network \/ Handlers \/ TestOpen \/ EndPoll

Spec == Init /\ [][Next]_vars

\* The thread inside loop() never waits.
FairSpec == Spec /\ WF_vars(Handlers \/ TestOpen \/ EndPoll)
-----------------------------------------------------------------------------
(***************************************************************************)
(* Properties.                                                             *)
(***************************************************************************)
\* Never two writes on the socket, never one with nothing queued, and on an
\* open socket never frames queued and no write under way.  (The types are
\* checked along with it.)
WritingWhileQueued ==
  /\ TypeOK
  /\ Len(wr) <= 1
  /\ wr # <<>> => m_send_queue # <<>>
  /\ is_open /\ m_send_queue # <<>> => wr # <<>>

\* What the client says goes out in the order it was composed, none twice
\* and none left out, up to damage by the buffer that do_write does not keep.
SaidInOrder == \A i \in DOMAIN wire : i <= composed /\ wire[i] \in {i, Junk}

\* When loop() returns, and main() with it destroys the client, no handler
\* with a reference to the client is left in the io_context, except the one
\* of an async_connect that could not open the socket, which never runs.
QuietAtReturn ==
  loop = "returned" =>
     /\ rd = NoRead /\ wr = <<>>
     /\ connecting # "none" => composed = 0 /\ connecting = "failed"

\* An error on any operation makes loop() return: its handler closes the
\* socket, everything else on the socket fails, and poll() runs dry.
ErrorEndsLoop ==
  (connecting = "failed" \/ rd.st = "failed" \/ \E i \in DOMAIN wr : wr[i].st = "failed")
  ~> (loop = "returned")
=============================================================================
