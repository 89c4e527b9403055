-------------------------------- MODULE Echo --------------------------------
(***************************************************************************)
(* The echo example (examples/echo): EchoClient sends one message, and     *)
(* from then on client and server send back whatever they receive.  Both   *)
(* run the same two functions, send and async_recv, over one connection.   *)
(*                                                                         *)
(* send copies the message to an array on its stack and starts an          *)
(* async_write from it, without asking whether an earlier one is over.     *)
(* What becomes of the bytes depends on when asio takes them from the      *)
(* array, so the socket is modelled as asio's epoll reactor works it: an   *)
(* operation is tried at once if it is the first of its kind, otherwise it *)
(* waits in a queue for an event, and async_write starts again with what   *)
(* the kernel did not take.  A byte taken after send returned has whatever *)
(* value the stack holds then: Dead.                                       *)
(*                                                                         *)
(* Each end is one thread that polls; only one end's handlers run at a     *)
(* time there.  Accepting, the connection map and its clean-up are in      *)
(* TcpServer, async_connect in ChatRoomClient.                             *)
(***************************************************************************)
EXTENDS Integers, Sequences, SequencesExt

CONSTANTS
  MsgLen,     \* length of the message, "sixday"
  MaxRoom,    \* bound: bytes the kernel holds of one direction
  RecvSize    \* m_recv_buffer.size()

ASSUME EchoAssumption ==
  MsgLen \in Nat \ {0} /\ MaxRoom \in Nat \ {0} /\ RecvSize \in Nat \ {0}

VARIABLES
  sock,      \* the connection object and its socket, at each end
  room,      \* bytes the kernel takes of each end before it is full
  broken,    \* the connection is lost: reset, or closed at either end
  returned   \* the client's loop() has returned

vars == <<sock, room, broken, returned>>

Ends == {"client", "server"}

Peer(e) == IF e = "client" THEN "server" ELSE "client"

\* The bytes of the message are told apart by their place in it.
Msg == [i \in 1..MsgLen |-> i]

Dead == 0

Bytes == 0..MsgLen

\* What waits to be run by poll(): a completed operation with its error and
\* the bytes it received or has still to send, or an event of the socket.
Completion ==
  [op : {"read", "write"}, ec : BOOLEAN, data : Seq(Bytes)]
    \cup [op : {"io"}, flags : SUBSET {"in", "out"}]

TypeOK ==
  /\ sock \in [Ends -> [started : BOOLEAN, is_open : BOOLEAN, out : Seq(Bytes),
                        write_queue : Seq(Seq(Bytes)), try_speculative : BOOLEAN,
                        reads : 0..1, ready : Seq(Completion)]]
  /\ \A e \in Ends : Len(sock[e].out) <= room[e]
  /\ room \in [Ends -> 1..MaxRoom]
  /\ broken \in BOOLEAN
  /\ returned \in BOOLEAN

\* The connection is established, neither end has run start() yet.
Init ==
  /\ sock = [e \in Ends |-> [started |-> FALSE, is_open |-> TRUE, out |-> <<>>,
                             write_queue |-> <<>>, try_speculative |-> TRUE,
                             reads |-> 0, ready |-> <<>>]]
  /\ room \in [Ends -> 1..MaxRoom]
  /\ broken = FALSE
  /\ returned = FALSE
-----------------------------------------------------------------------------
(***************************************************************************)
(* Sending.  Each operator takes a socket s, of end e, and returns what    *)
(* becomes of it.                                                          *)
(***************************************************************************)
Least(a, b) == IF a < b THEN a ELSE b

Free(e, s) == room[e] - Len(s.out)

Stale(buf) == [i \in DOMAIN buf |-> Dead]

Completed(s, op, ec, data) ==
  [s EXCEPT !.ready = Append(@, [op |-> op, ec |-> ec, data |-> data])]

CanSend(e, s) == broken \/ Free(e, s) > 0

\* do_perform: the kernel takes what it has room for.  One that did not
\* take all, or fails, ends trying at once until the next event.
perform(e, s, buf) ==
  LET n == Least(Free(e, s), Len(buf)) IN
  IF broken
  THEN [Completed(s, "write", TRUE, Stale(buf)) EXCEPT !.try_speculative = FALSE]
  ELSE [Completed(s, "write", FALSE, Stale(SubSeq(buf, n + 1, Len(buf))))
          EXCEPT !.out = @ \o SubSeq(buf, 1, n),
                 !.try_speculative = n = Len(buf)]

\* Mutant: the operation just waits its turn for an event.
AsyncWriteSomeLater(e, s, buf) ==
  IF ~s.is_open THEN Completed(s, "write", TRUE, Stale(buf))
  ELSE [s EXCEPT !.write_queue = Append(@, Stale(buf))]

async_write_some(e, s, buf) ==
  CASE ~s.is_open -> Completed(s, "write", TRUE, Stale(buf))
    [] s.is_open /\ s.write_queue = <<>> /\ s.try_speculative /\ CanSend(e, s)
         -> perform(e, s, buf)
    [] OTHER -> [s EXCEPT !.write_queue = Append(@, Stale(buf))]

send(e, s, buf) == IF s.is_open THEN async_write_some(e, s, buf) ELSE s

\* The write half of perform_io: the queued operations in turn, up to the
\* first that is not finished.
PerformWrites(e, s) ==
  LET Step(acc, buf) ==
        IF acc.stop \/ ~CanSend(e, acc.s) THEN [acc EXCEPT !.stop = TRUE]
        ELSE LET t == perform(e, [acc.s EXCEPT !.write_queue = Tail(@)], buf)
             IN  [s |-> t, stop |-> ~t.try_speculative]
  IN  FoldLeft(Step, [s |-> [s EXCEPT !.try_speculative = TRUE], stop |-> FALSE],
               s.write_queue).s
-----------------------------------------------------------------------------
(***************************************************************************)
(* Receiving.  A read takes some of what the peer's kernel has sent; on a  *)
(* broken connection it may still, or it fails.                            *)
(***************************************************************************)
RecvResults(e) ==
  LET out == sock[Peer(e)].out IN
  {[op |-> "read", ec |-> FALSE, data |-> SubSeq(out, 1, n)] :
      n \in 1..Least(RecvSize, Len(out))}
    \cup IF broken THEN {[op |-> "read", ec |-> TRUE, data |-> <<>>]} ELSE {}

\* What async_read_some finds when it is tried at once: nothing yet, too.
Nothing == [op |-> "none"]

async_recv(s, found) ==
  CASE ~s.is_open -> s
    [] s.is_open /\ found = Nothing -> [s EXCEPT !.reads = @ + 1]
    [] OTHER -> [s EXCEPT !.ready = Append(@, found)]

\* End e becomes s after a read has found something, or nothing.
Update(e, s, found) ==
  sock' = [sock EXCEPT ![e] = s,
                       ![Peer(e)].out = IF s.is_open /\ found # Nothing
                                        THEN SubSeq(@, Len(found.data) + 1, Len(@))
                                        ELSE @]
-----------------------------------------------------------------------------
(***************************************************************************)
(* The two programs.                                                       *)
(***************************************************************************)
\* start(): the client sends the message, and both begin to receive.
start(e, found) ==
  LET s == [sock[e] EXCEPT !.started = TRUE] IN
  /\ ~sock[e].started
  /\ Update(e, async_recv(IF e = "client" THEN send(e, s, Msg) ELSE s, found), found)
  /\ UNCHANGED <<room, broken, returned>>

\* What poll() runs next at end e is an op.
HandlesNext(e, op) ==
  /\ sock[e].ready # <<>>
  /\ Head(sock[e].ready).op = op
  /\ e = "client" => ~returned

Succeeded(e) == ~Head(sock[e].ready).ec

Popped(e) == [sock[e] EXCEPT !.ready = Tail(@)]

\* Mutant: it receives again only if all it has sent is out.
ReadHandlerWaits(e, found) ==
  LET s == send(e, Popped(e), Head(sock[e].ready).data) IN
  /\ HandlesNext(e, "read") /\ Succeeded(e)
  /\ IF s.write_queue = <<>> THEN Update(e, async_recv(s, found), found)
     ELSE found = Nothing /\ Update(e, s, found)
  /\ UNCHANGED <<room, broken, returned>>

ReadHandler(e, found) ==
  LET s == send(e, Popped(e), Head(sock[e].ready).data) IN
  /\ HandlesNext(e, "read") /\ Succeeded(e)
  /\ Update(e, async_recv(s, found), found)
  /\ UNCHANGED <<room, broken, returned>>

\* async_write goes on with what is left; when nothing is, the lambda of
\* send does nothing.
WriteHandler(e) ==
  LET left == Head(sock[e].ready).data IN
  /\ HandlesNext(e, "write") /\ Succeeded(e)
  /\ sock' = [sock EXCEPT ![e] = IF left = <<>> THEN Popped(e)
                                 ELSE async_write_some(e, Popped(e), left)]
  /\ UNCHANGED <<room, broken, returned>>

\* Mutant: handle_error only reports the error.
HandleErrorReports(s) == s

\* handle_error: close() once, which completes what waits with an error.
handle_error(s) ==
  LET aborted(op, data) == [op |-> op, ec |-> TRUE, data |-> data] IN
  IF ~s.is_open THEN s
  ELSE [s EXCEPT !.is_open = FALSE, !.reads = 0, !.write_queue = <<>>,
                 !.ready = @ \o [i \in 1..s.reads |-> aborted("read", <<>>)]
                             \o [i \in DOMAIN s.write_queue |->
                                   aborted("write", s.write_queue[i])]]

ErrorHandler(e) ==
  /\ HandlesNext(e, "read") \/ HandlesNext(e, "write")
  /\ ~Succeeded(e)
  /\ sock' = [sock EXCEPT ![e] = handle_error(Popped(e))]
  /\ broken' = TRUE
  /\ UNCHANGED <<room, returned>>

\* The client's loop() finds the socket closed when poll() has run all that
\* was ready.
LoopReturns ==
  /\ ~sock["client"].is_open /\ sock["client"].ready = <<>>
  /\ ~returned
  /\ returned' = TRUE
  /\ UNCHANGED <<sock, room, broken>>
-----------------------------------------------------------------------------
(***************************************************************************)
(* The reactor and the network.                                            *)
(***************************************************************************)
\* epoll_wait reports a socket once, with what it is ready for; events that
\* nobody waits for are left out.
Event(e, flags) ==
  /\ sock[e].started /\ sock[e].is_open
  /\ \A i \in DOMAIN sock[e].ready : sock[e].ready[i].op # "io"
  /\ "out" \in flags => /\ CanSend(e, sock[e])
                        /\ sock[e].write_queue # <<>> \/ ~sock[e].try_speculative
  /\ "in" \in flags => sock[e].reads > 0 /\ RecvResults(e) # {}
  /\ sock' = [sock EXCEPT ![e].ready = Append(@, [op |-> "io", flags |-> flags])]
  /\ UNCHANGED <<room, broken, returned>>

\* perform_io, when the event's turn comes: writes before the read.  The
\* first operation completed is run now, the others join the queue.
perform_io(e, found) ==
  LET s == Popped(e)
      flags == Head(sock[e].ready).flags
      t == IF "out" \in flags THEN PerformWrites(e, s) ELSE s
      reading == "in" \in flags /\ s.reads > 0
      u == IF reading THEN async_recv([t EXCEPT !.reads = 0], found) ELSE t
      new == SubSeq(u.ready, Len(s.ready) + 1, Len(u.ready))
  IN
  /\ HandlesNext(e, "io")
  /\ IF reading THEN found \in RecvResults(e) ELSE found = Nothing
  /\ Update(e, IF new = <<>> THEN u
               ELSE [u EXCEPT !.ready = <<Head(new)>> \o s.ready \o Tail(new)], found)
  /\ UNCHANGED <<room, broken, returned>>

Break ==
  /\ ~broken
  /\ broken' = TRUE
  /\ UNCHANGED <<sock, room, returned>>

Found(e) == RecvResults(e) \cup {Nothing}

Receives(e) == \E found \in Found(e) : ReadHandler(e, found)

Performs(e) == \E found \in Found(e) : perform_io(e, found)

Handlers(e) == Receives(e) \/ WriteHandler(e) \/ ErrorHandler(e) \/ Performs(e)

Next ==
  \/ \E e \in Ends : \/ \E found \in Found(e) : start(e, found)
                     \/ Handlers(e)
                     \/ \E flags \in {{"in"}, {"out"}, {"in", "out"}} : Event(e, flags)
  \/ LoopReturns
  \/ Break

Spec == Init /\ [][Next]_vars

(***************************************************************************)
(* Both threads poll for ever, and an event that epoll has to report is    *)
(* reported.  Nothing makes the connection break.                          *)
(***************************************************************************)
Fairness ==
  /\ \A e \in Ends :
       /\ WF_vars(\E found \in Found(e) : start(e, found))
       /\ WF_vars(Handlers(e))
       /\ WF_vars(\E flags \in {{"in"}, {"in", "out"}} : Event(e, flags))
       /\ WF_vars(\E flags \in {{"out"}, {"in", "out"}} : Event(e, flags))
  /\ WF_vars(LoopReturns)

FairSpec == Spec /\ Fairness
-----------------------------------------------------------------------------
(***************************************************************************)
(* Properties.                                                             *)
(***************************************************************************)
DataOf(e, op) == FlattenSeq([i \in DOMAIN sock[e].ready |->
                   IF sock[e].ready[i].op = op THEN sock[e].ready[i].data ELSE <<>>])

\* The bytes under way, in the order in which the client is to receive them.
Ring ==
  LET Half(e) == sock[e].out \o FlattenSeq(sock[e].write_queue) \o DataOf(e, "write")
  IN  DataOf("client", "read") \o Half("server") \o DataOf("server", "read") \o Half("client")

Rotations(s) == {[i \in DOMAIN s |-> s[((i + k) % Len(s)) + 1]] : k \in 0..(Len(s) - 1)}

\* As long as the connection holds, the bytes of the message go round: none
\* is lost and none sent twice, however writes overlap; and if the kernel
\* has room for the whole message in each direction, they keep their order
\* and their values, although each send starts a write from an array of its
\* own stack without waiting for the last one.  (The types, with at most one
\* read under way at each end, are checked along with it.)
MessageGoesRound ==
  /\ TypeOK
  /\ sock["client"].started /\ ~broken =>
        /\ Len(Ring) = MsgLen
        /\ (\A e \in Ends : room[e] >= MsgLen) => Ring \in Rotations(Msg)

\* The game never ends by itself: the client receives again and again while
\* the connection holds, even when both directions are full.
PingPong == [](~broken) => []<><<Receives("client")>>_vars

\* When the connection is lost both ends close, with no operation left, and
\* the client's loop() returns.
LossEndsBoth ==
  broken ~> /\ returned
            /\ \A e \in Ends : ~sock[e].is_open /\ sock[e].reads = 0
                               /\ sock[e].write_queue = <<>> /\ sock[e].ready = <<>>
=============================================================================
