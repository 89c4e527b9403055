------------------------------ MODULE ChatRoom ------------------------------
(***************************************************************************)
(* The chat room server (chat_room_server.cc): TcpServer with the          *)
(* connections of the chat room.  A connection reads a header, then a      *)
(* body, and broadcasts what it read to every connection of the map, its   *)
(* own included; what it has to write waits in m_send_queue.               *)
(*                                                                         *)
(* The loop and the accept chain are TcpServer's.  The handlers below are  *)
(* written from the chat room; ImplementsServer says that they do no more  *)
(* than TcpServer lets the handlers of a derived connection do.            *)
(*                                                                         *)
(* A message is the number of the Say that sent it.  A text nobody said,   *)
(* or a frame that went out damaged, is Junk.  Texts are short enough for  *)
(* the arrays of chat_room_msg.                                            *)
(***************************************************************************)
EXTENDS Integers, Sequences, FiniteSets

CONSTANTS
  Conns, NoConn, IdSpace, MaxOps,   \* as in TcpServer
  Junk,      \* a text or frame that is not what was said or queued
  MaxSays,   \* bound: messages sent by all clients together
  MaxJunk    \* bound: messages read from a stream that lost its framing

ASSUME ChatAssumption ==
  /\ NoConn \notin Conns
  /\ IsFiniteSet(Conns)
  /\ IdSpace \in Nat \ {0}
  /\ MaxOps \in Nat /\ MaxOps >= 2      \* a read and a write at a time
  /\ Junk \notin Nat
  /\ MaxSays \in Nat
  /\ MaxJunk \in Nat \ {0}

VARIABLES
  m_tcp_conn_map, m_next_conn_id, m_id, object, is_open,
  loop, it, invalid, accepting, accepted,
  rd,             \* the read of each connection: what it reads and its state
  wr,             \* the writes under way on each connection
  m_send_queue,   \* frames of each connection not yet written
  stream,         \* messages a client sent and the server has not read
  framed,         \* the reads of a connection are still in step with stream
  said,           \* number of messages sent by clients
  log,            \* history: every frame broadcast
  joined,         \* history: how much had been broadcast when c joined
  wire            \* history: frames that went out to each client

serverVars == <<m_tcp_conn_map, m_next_conn_id, m_id, object>>
loopVars == <<loop, it, invalid>>
acceptVars == <<accepting, accepted>>
readVars == <<rd, stream, framed, said>>
writeVars == <<wr, m_send_queue, log, joined, wire>>
vars == <<serverVars, is_open, loopVars, acceptVars, readVars, writeVars>>

\* Operations of each connection that are in state s.
Count(s) ==
  [c \in Conns |-> (IF rd[c].st = s THEN 1 ELSE 0)
                   + Cardinality({i \in DOMAIN wr[c] : wr[c][i].st = s})]

Server == INSTANCE TcpServer
            WITH waiting <- Count("waiting"), done <- Count("done"), failed <- Count("failed")

OpStates == {"waiting", "done", "failed"}
Texts == 1..MaxSays \cup {Junk}
Frames == [from : Server!Ids, text : Texts]
NoRead == [op |-> "none", st |-> "none"]

TypeOK ==
  /\ rd \in [Conns -> [op : {"header", "body"}, st : OpStates] \cup {NoRead}]
  /\ wr \in [Conns -> Seq([frame : Frames \cup {Junk}, st : OpStates])]
  /\ m_send_queue \in [Conns -> Seq(Frames)]
  /\ stream \in [Conns -> Seq(Texts)]
  /\ framed \in [Conns -> BOOLEAN]
  /\ said \in 0..MaxSays
  /\ log \in Seq(Frames)
  /\ joined \in [Conns -> Nat]
  /\ wire \in [Conns -> Seq(Frames \cup {Junk})]

Init ==
  /\ rd = [c \in Conns |-> NoRead]
  /\ wr = [c \in Conns |-> <<>>]
  /\ Server!Init
  /\ m_send_queue = [c \in Conns |-> <<>>]
  /\ stream = [c \in Conns |-> <<>>]
  /\ framed = [c \in Conns |-> TRUE]
  /\ said = 0
  /\ log = <<>>
  /\ joined = [c \in Conns |-> 0]
  /\ wire = [c \in Conns |-> <<>>]
-----------------------------------------------------------------------------
(***************************************************************************)
(* Clients and the network.                                                *)
(***************************************************************************)
\* A client sends a message.  On a stream that lost its framing it may be
\* read as one or swallowed by one, and is not what was said.
Say(c) ==
  /\ loop = "poll"
  /\ is_open[c]
  /\ said < MaxSays
  /\ said' = said + 1
  /\ \/ stream' = [stream EXCEPT ![c] = Append(@, IF framed[c] THEN said + 1 ELSE Junk)]
     \/ ~framed[c] /\ UNCHANGED stream
  /\ UNCHANGED <<serverVars, is_open, loopVars, acceptVars, rd, framed, writeVars>>

ReadState(c, s) == rd' = [rd EXCEPT ![c].st = s]

ReadCompletes(c) ==
  /\ loop = "poll"
  /\ rd[c].st = "waiting"
  /\ stream[c] # <<>>
  /\ ReadState(c, "done")
  /\ UNCHANGED <<serverVars, is_open, loopVars, acceptVars, stream, framed, said, writeVars>>

\* async_read_some delivers a part of what it was asked for; what follows
\* is read as k messages nobody sent.
ReadCutShort(c, k) ==
  /\ loop = "poll"
  /\ rd[c].st = "waiting"
  /\ stream[c] # <<>>
  /\ framed[c]
  /\ ReadState(c, "done")
  /\ framed' = [framed EXCEPT ![c] = FALSE]
  /\ stream' = [stream EXCEPT ![c] = [i \in 1..k |-> Junk]]
  /\ UNCHANGED <<serverVars, is_open, loopVars, acceptVars, said, writeVars>>

ReadFails(c) ==
  /\ loop = "poll"
  /\ rd[c].st = "waiting"
  /\ ReadState(c, "failed")
  /\ UNCHANGED <<serverVars, is_open, loopVars, acceptVars, stream, framed, said, writeVars>>

WriteCompletes(c, i) ==
  /\ loop = "poll"
  /\ wr[c][i].st = "waiting"
  /\ wr' = [wr EXCEPT ![c][i].st = "done"]
  /\ wire' = [wire EXCEPT ![c] = Append(@, wr[c][i].frame)]
  /\ UNCHANGED <<serverVars, is_open, loopVars, acceptVars, readVars, m_send_queue, log, joined>>

WriteFails(c, i) ==
  /\ loop = "poll"
  /\ wr[c][i].st = "waiting"
  /\ wr' = [wr EXCEPT ![c][i].st = "failed"]
  /\ UNCHANGED <<serverVars, is_open, loopVars, acceptVars, readVars, m_send_queue, log, joined, wire>>
-----------------------------------------------------------------------------
(***************************************************************************)
(* Reading.                                                                *)
(***************************************************************************)
\* read_header and read_body, unless the socket is closed.
StartRead(c, what) ==
  rd' = [rd EXCEPT ![c] = IF is_open[c] THEN [op |-> what, st |-> "waiting"] ELSE NoRead]

HeaderHandler(c) ==
  /\ loop = "poll"
  /\ rd[c] = [op |-> "header", st |-> "done"]
  /\ StartRead(c, "body")
  /\ UNCHANGED <<serverVars, is_open, loopVars, acceptVars, stream, framed, said, writeVars>>

\* async_write of a frame to c.  The bytes the socket does not take at once
\* are read later, from the local vector that do_write has given back: if c
\* is in late, the frame that goes out need not be the one queued.
Write(c, frame, late) ==
  [frame |-> IF c \in late THEN Junk ELSE frame,
   st    |-> IF is_open[c] THEN "waiting" ELSE "failed"]

\* Mutant: iswriting is not asked.
BroadcastAlwaysWrites(frame, late) ==
  /\ m_send_queue' = [d \in Conns |-> IF d \in Server!Mapped
                                       THEN Append(m_send_queue[d], frame)
                                       ELSE m_send_queue[d]]
  /\ wr' = [d \in Conns |-> IF d \in Server!Mapped
                             THEN Append(wr[d], Write(d, Head(m_send_queue'[d]), late))
                             ELSE wr[d]]
  /\ log' = Append(log, frame)

\* send_msg_to_client for every connection of the map: do_write is called
\* if nothing was queued before.
broadcast(frame, late) ==
  /\ m_send_queue' = [d \in Conns |-> IF d \in Server!Mapped
                                       THEN Append(m_send_queue[d], frame)
                                       ELSE m_send_queue[d]]
  /\ wr' = [d \in Conns |-> IF d \in Server!Mapped /\ m_send_queue[d] = <<>>
                             THEN Append(wr[d], Write(d, frame, late))
                             ELSE wr[d]]
  /\ log' = Append(log, frame)

\* "guest(id):text".
Guest(c, text) == [from |-> m_id[c], text |-> text]

\* Mutant: the bytes of a body stay in the socket.
BodyHandlerPeeks(c, late) ==
  /\ loop = "poll"
  /\ rd[c] = [op |-> "body", st |-> "done"]
  /\ broadcast(Guest(c, Head(stream[c])), late)
  /\ StartRead(c, "header")
  /\ UNCHANGED <<serverVars, is_open, loopVars, acceptVars, stream, framed, said, joined, wire>>

\* handle_message, then the next header.
BodyHandler(c, late) ==
  /\ loop = "poll"
  /\ rd[c] = [op |-> "body", st |-> "done"]
  /\ broadcast(Guest(c, Head(stream[c])), late)
  /\ stream' = [stream EXCEPT ![c] = Tail(@)]
  /\ StartRead(c, "header")
  /\ UNCHANGED <<serverVars, is_open, loopVars, acceptVars, framed, said, joined, wire>>
-----------------------------------------------------------------------------
(***************************************************************************)
(* Writing, and errors.                                                    *)
(***************************************************************************)
Without(ws, i) == SubSeq(ws, 1, i - 1) \o SubSeq(ws, i + 1, Len(ws))

\* Mutant: pop_back.
WriteHandlerPopsBack(c, i, late) ==
  LET rest == SubSeq(m_send_queue[c], 1, Len(m_send_queue[c]) - 1) IN
  /\ loop = "poll"
  /\ wr[c][i].st = "done"
  /\ m_send_queue' = [m_send_queue EXCEPT ![c] = rest]
  /\ wr' = [wr EXCEPT ![c] =
              IF rest = <<>> THEN Without(@, i)
              ELSE Append(Without(@, i), Write(c, Head(rest), late))]
  /\ UNCHANGED <<serverVars, is_open, loopVars, acceptVars, readVars, log, joined, wire>>

\* Mutant: the handler does not go on to the next frame.
WriteHandlerStops(c, i, late) ==
  /\ loop = "poll"
  /\ wr[c][i].st = "done"
  /\ m_send_queue' = [m_send_queue EXCEPT ![c] = Tail(@)]
  /\ wr' = [wr EXCEPT ![c] = Without(@, i)]
  /\ UNCHANGED <<serverVars, is_open, loopVars, acceptVars, readVars, log, joined, wire>>

\* The frame leaves the queue, and the next one is written.
WriteHandler(c, i, late) ==
  LET rest == Tail(m_send_queue[c]) IN
  /\ loop = "poll"
  /\ wr[c][i].st = "done"
  /\ m_send_queue' = [m_send_queue EXCEPT ![c] = rest]
  /\ wr' = [wr EXCEPT ![c] =
              IF rest = <<>> THEN Without(@, i)
              ELSE Append(Without(@, i), Write(c, Head(rest), late))]
  /\ UNCHANGED <<serverVars, is_open, loopVars, acceptVars, readVars, log, joined, wire>>

\* close(): what waits on the socket fails.
Abort(op) == [op EXCEPT !.st = IF @ = "waiting" THEN "failed" ELSE @]
AbortAll(ws) == [i \in DOMAIN ws |-> Abort(ws[i])]

\* Mutant: the derived handle_error does not call the base's, so the socket
\* stays open.
ReadErrorHandlerKeepsOpen(c) ==
  /\ loop = "poll"
  /\ rd[c].st = "failed"
  /\ rd' = [rd EXCEPT ![c] = NoRead]
  /\ UNCHANGED <<serverVars, is_open, loopVars, acceptVars, stream, framed, said, writeVars>>

\* handle_error.  A frame whose write failed stays in the queue.
ReadErrorHandler(c) ==
  /\ loop = "poll"
  /\ rd[c].st = "failed"
  /\ rd' = [rd EXCEPT ![c] = NoRead]
  /\ is_open' = [is_open EXCEPT ![c] = FALSE]
  /\ wr' = [wr EXCEPT ![c] = IF is_open[c] THEN AbortAll(@) ELSE @]
  /\ UNCHANGED <<serverVars, loopVars, acceptVars, stream, framed, said>>
  /\ UNCHANGED <<m_send_queue, log, joined, wire>>

WriteErrorHandler(c, i) ==
  /\ loop = "poll"
  /\ wr[c][i].st = "failed"
  /\ wr' = [wr EXCEPT ![c] = IF is_open[c] THEN AbortAll(Without(@, i)) ELSE Without(@, i)]
  /\ is_open' = [is_open EXCEPT ![c] = FALSE]
  /\ rd' = [rd EXCEPT ![c] = IF is_open[c] THEN Abort(@) ELSE @]
  /\ UNCHANGED <<serverVars, loopVars, acceptVars, stream, framed, said>>
  /\ UNCHANGED <<m_send_queue, log, joined, wire>>
-----------------------------------------------------------------------------
(***************************************************************************)
(* The server.                                                             *)
(***************************************************************************)
\* start() reads a header; the read of a connection that add_conn turned
\* away fails with its socket.
AcceptHandler(new) ==
  /\ accepted = "ok"
  /\ rd' = [rd EXCEPT ![accepting] =
              [op |-> "header",
               st |-> IF m_tcp_conn_map[m_next_conn_id] = NoConn THEN "waiting" ELSE "failed"]]
  /\ joined' = [joined EXCEPT ![accepting] = Len(log)]
  /\ UNCHANGED <<stream, framed, said, wr, m_send_queue, log, wire>>
  /\ Server!AcceptHandler(new)

Accepting ==
  /\ UNCHANGED <<readVars, writeVars>>
  /\ \/ \E result \in {"ok", "error"} : Server!AcceptCompletes(result)
     \/ Server!AcceptFailedHandler

Looping ==
  /\ UNCHANGED <<readVars, writeVars>>
  /\ Server!LoopStep

Writes(c) == DOMAIN wr[c]

\* The members a broadcast makes do_write for.
Quiet == {c \in Server!Mapped : m_send_queue[c] = <<>>}

ReadHandlers ==
  \/ \E c \in Conns : HeaderHandler(c) \/ ReadErrorHandler(c)
  \/ \E c \in Conns, late \in SUBSET Quiet : BodyHandler(c, late)

WriteHandlers(c) ==
  \/ \E i \in Writes(c), late \in SUBSET {c} : WriteHandler(c, i, late)
  \/ \E i \in Writes(c) : WriteErrorHandler(c, i)

Network ==
  \/ \E c \in Conns : Say(c) \/ ReadCompletes(c) \/ ReadFails(c)
  \/ \E c \in Conns, k \in 1..MaxJunk : ReadCutShort(c, k)
  \/ \E c \in Conns : \E i \in Writes(c) : WriteCompletes(c, i) \/ WriteFails(c, i)

Next ==
  \/ Network
  \/ ReadHandlers
  \/ \E c \in Conns : WriteHandlers(c)
  \/ \E new \in Conns : AcceptHandler(new)
  \/ Accepting
  \/ Looping

Spec == Init /\ [][Next]_vars

(***************************************************************************)
(* The thread never waits and poll() runs ready handlers in turn.  Clients *)
(* read what is sent to them or go away: a write does not wait for ever.   *)
(***************************************************************************)
Fairness ==
  /\ WF_vars(Looping)
  /\ \A c \in Conns : WF_vars(WriteHandlers(c))
  /\ \A c \in Conns : SF_vars(\E i \in Writes(c) : WriteCompletes(c, i) \/ WriteFails(c, i))

FairSpec == Spec /\ Fairness
-----------------------------------------------------------------------------
(***************************************************************************)
(* Properties.                                                             *)
(***************************************************************************)
\* The chat room's connections keep to what TcpServer lets a derived
\* connection do, with at most two operations each: so no handler of theirs
\* runs on a dropped connection, and the map owns the live ones.
ImplementsServer == Server!Spec

\* What iswriting in send_msg_to_client stands on: never two writes on a
\* socket, never one with nothing queued, and on an open socket never
\* frames queued and no write under way, however broadcasts, completions
\* and errors follow each other.  (The types are checked along with it.)
WritingWhileQueued ==
  /\ TypeOK
  /\ \A c \in Conns :
        /\ Len(wr[c]) <= 1
        /\ wr[c] # <<>> => m_send_queue[c] # <<>>
        /\ is_open[c] /\ m_send_queue[c] # <<>> => wr[c] # <<>>

\* All members hear one conversation: a client gets the frames broadcast
\* since its connection joined, in that order, none twice and none left out,
\* up to damage by the buffer that do_write does not keep.
SameConversation ==
  \A c \in Conns : \A i \in DOMAIN wire[c] :
     /\ joined[c] + i <= Len(log)
     /\ wire[c][i] \in {log[joined[c] + i], Junk}

\* What one guest said is broadcast in the order it was said and once, even
\* when ids are used again.
SpokenInOrder ==
  \A i, j \in DOMAIN log :
     /\ i < j /\ log[i].from = log[j].from
     /\ log[i].text # Junk /\ log[j].text # Junk
     => log[i].text < log[j].text

\* Every frame broadcast to an open connection goes out or the connection
\* is closed: the queue never stalls.
EverythingGoesOut ==
  \A c \in Conns, n \in 1..MaxSays :
     (c \in Server!Mapped /\ is_open[c] /\ Len(log) >= joined[c] + n)
     ~> (Len(wire[c]) >= n \/ ~is_open[c])
=============================================================================
