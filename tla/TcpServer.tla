----------------------------- MODULE TcpServer -----------------------------
(***************************************************************************)
(* TCPServer and TCPConnection (tcp_server.hpp, tcp_connection.hpp): the   *)
(* loop that polls the io_context, ticks the valid connections and drops   *)
(* the others, and the handlers it runs.  Everything happens in the one    *)
(* thread inside loop(); what interleaves is the order in which            *)
(* asynchronous operations complete.                                       *)
(*                                                                         *)
(* Handlers capture a connection as a raw this, so the question is whether *)
(* the connection still exists when they run.  The derived connection is   *)
(* any class that keeps to what the examples do: start() and a successful  *)
(* handler begin operations, on any connection of the map when it          *)
(* broadcasts, and a failed one calls handle_error.                        *)
(*                                                                         *)
(* The io_context is modelled by its contract: poll() returns when no      *)
(* completed operation is left to run; close() completes the operations    *)
(* of the socket with an error; one begun on a closed socket completes     *)
(* with an error at once.                                                  *)
(*                                                                         *)
(* m_quit is left out: the constructor, loop() and stop() all store false, *)
(* and the acceptor is never closed, so loop() does not return.            *)
(***************************************************************************)
EXTENDS Integers, FiniteSets

CONSTANTS
  Conns,     \* connection objects (bound: connections ever created)
  NoConn,    \* a null ConnectionPtr
  IdSpace,   \* number of values of m_next_conn_id, after which it wraps
  MaxOps     \* bound: operations of one connection at a time

ASSUME ServerAssumption ==
  /\ NoConn \notin Conns
  /\ IsFiniteSet(Conns)
  /\ IdSpace \in Nat \ {0}
  /\ MaxOps \in Nat \ {0}

VARIABLES
  m_tcp_conn_map,   \* id -> connection, NoConn where there is none
  m_next_conn_id,
  m_id,             \* m_id of each connection, -1 before add_conn
  object,           \* "unborn", "alive" or "destroyed"
  is_open,          \* m_tcp_socket.is_open() of each connection
  loop,             \* where loop() stands: "poll", "scan" or "remove"
  it,               \* ids the for loop has still to visit
  invalid,          \* invalid_connection
  accepting,        \* the connection async_accept waits with, or NoConn
  accepted,         \* its completion: "pending", "ok" or "error"
  waiting,          \* operations of each connection not completed yet
  done,             \* operations completed well, handler not run yet
  failed            \* operations completed with an error, likewise

serverVars == <<m_tcp_conn_map, m_next_conn_id, m_id, object>>
loopVars == <<loop, it, invalid>>
acceptVars == <<accepting, accepted>>
opVars == <<waiting, done, failed>>
vars == <<serverVars, is_open, loopVars, acceptVars, opVars>>

Ids == 0..(IdSpace - 1)

TypeOK ==
  /\ m_tcp_conn_map \in [Ids -> Conns \cup {NoConn}]
  /\ m_next_conn_id \in Ids
  /\ m_id \in [Conns -> Ids \cup {-1}]
  /\ object \in [Conns -> {"unborn", "alive", "destroyed"}]
  /\ is_open \in [Conns -> BOOLEAN]
  /\ loop \in {"poll", "scan", "remove"}
  /\ it \subseteq Ids
  /\ invalid \subseteq Conns
  /\ accepting \in Conns \cup {NoConn}
  /\ accepted \in {"pending", "ok", "error"}
  /\ waiting \in [Conns -> Nat] /\ done \in [Conns -> Nat] /\ failed \in [Conns -> Nat]

Mapped == {c \in Conns : \E id \in Ids : m_tcp_conn_map[id] = c}

Outstanding(c) == waiting[c] + done[c] + failed[c]

\* After start(): the first async_accept is under way.
Init ==
  /\ m_tcp_conn_map = [id \in Ids |-> NoConn]
  /\ m_next_conn_id = 0
  /\ m_id = [c \in Conns |-> -1]
  /\ accepting \in Conns
  /\ object = [c \in Conns |-> IF c = accepting THEN "alive" ELSE "unborn"]
  /\ is_open = [c \in Conns |-> FALSE]
  /\ loop = "poll"
  /\ it = {} /\ invalid = {}
  /\ accepted = "pending"
  /\ waiting = [c \in Conns |-> 0]
  /\ done = [c \in Conns |-> 0]
  /\ failed = [c \in Conns |-> 0]
-----------------------------------------------------------------------------
(***************************************************************************)
(* The io_context: operations complete, in any order, well or not.         *)
(***************************************************************************)
AcceptCompletes(result) ==
  /\ loop = "poll"
  /\ accepting # NoConn /\ accepted = "pending"
  /\ result = "ok" => \E c \in Conns : object[c] = "unborn"
  /\ accepted' = result
  /\ is_open' = IF result = "ok" THEN [is_open EXCEPT ![accepting] = TRUE] ELSE is_open
  /\ UNCHANGED <<serverVars, loopVars, accepting, opVars>>

OperationSucceeds(c) ==
  /\ loop = "poll"
  /\ waiting[c] > 0
  /\ waiting' = [waiting EXCEPT ![c] = @ - 1]
  /\ done' = [done EXCEPT ![c] = @ + 1]
  /\ UNCHANGED <<serverVars, is_open, loopVars, acceptVars, failed>>

\* eof, reset, or any other error.
OperationFails(c) ==
  /\ loop = "poll"
  /\ waiting[c] > 0
  /\ waiting' = [waiting EXCEPT ![c] = @ - 1]
  /\ failed' = [failed EXCEPT ![c] = @ + 1]
  /\ UNCHANGED <<serverVars, is_open, loopVars, acceptVars, done>>
-----------------------------------------------------------------------------
(***************************************************************************)
(* Handlers, run by poll().                                                *)
(***************************************************************************)
\* Mutant: the connection keeps the id but is filed under the next one.
AddConnNextKey(c) ==
  IF m_tcp_conn_map[m_next_conn_id] # NoConn
  THEN UNCHANGED <<m_tcp_conn_map, m_next_conn_id, m_id>>
  ELSE /\ m_id' = [m_id EXCEPT ![c] = m_next_conn_id]
       /\ m_next_conn_id' = (m_next_conn_id + 1) % IdSpace
       /\ m_tcp_conn_map' = [m_tcp_conn_map EXCEPT ![m_next_conn_id'] = c]

\* add_conn: an id still in the map is not given out again.
add_conn(c) ==
  IF m_tcp_conn_map[m_next_conn_id] # NoConn
  THEN UNCHANGED <<m_tcp_conn_map, m_next_conn_id, m_id>>
  ELSE /\ m_id' = [m_id EXCEPT ![c] = m_next_conn_id]
       /\ m_tcp_conn_map' = [m_tcp_conn_map EXCEPT ![m_next_conn_id] = c]
       /\ m_next_conn_id' = (m_next_conn_id + 1) % IdSpace

\* A connection nobody points to any more is destroyed.
Destroy(S) == [c \in Conns |-> IF c \in S THEN "destroyed" ELSE object[c]]

\* handle_accept_new_connection - add_conn, then start() begins a read -
\* and async_accept again with a new connection.  If add_conn did not keep
\* the connection, the handler's pointer was the last one: the destructor
\* closes the socket, and the read completes with an error.
AcceptHandler(new) ==
  LET kept == m_tcp_conn_map[m_next_conn_id] = NoConn IN
  /\ loop = "poll"
  /\ accepted = "ok"
  /\ object[new] = "unborn"
  /\ add_conn(accepting)
  /\ object' = [Destroy(IF kept THEN {} ELSE {accepting}) EXCEPT ![new] = "alive"]
  /\ is_open' = [is_open EXCEPT ![accepting] = kept]
  /\ waiting' = [waiting EXCEPT ![accepting] = @ + IF kept THEN 1 ELSE 0]
  /\ failed' = [failed EXCEPT ![accepting] = @ + IF kept THEN 0 ELSE 1]
  /\ accepting' = new
  /\ accepted' = "pending"
  /\ UNCHANGED <<loopVars, done>>

\* After an error nobody calls async_accept again.
AcceptFailedHandler ==
  /\ loop = "poll"
  /\ accepted = "error"
  /\ object' = Destroy({accepting})
  /\ accepting' = NoConn
  /\ accepted' = "pending"
  /\ UNCHANGED <<m_tcp_conn_map, m_next_conn_id, m_id, is_open, loopVars, opVars>>

\* A successful handler begins operations, begun[d] of them on connection d
\* of the map: its own next read, and writes to all when it broadcasts.
\* (The examples test is_open before a read, the chat room not before a
\* write; here neither is tested.)
SuccessHandler(c, begun) ==
  /\ loop = "poll"
  /\ done[c] > 0
  /\ \A d \in Mapped :
        Outstanding(d) + begun[d] - (IF d = c THEN 1 ELSE 0) <= MaxOps
  /\ done' = [done EXCEPT ![c] = @ - 1]
  /\ waiting' = [d \in Conns |->
                   waiting[d] + IF d \in Mapped /\ is_open[d] THEN begun[d] ELSE 0]
  /\ failed' = [d \in Conns |->
                  failed[d] + IF d \in Mapped /\ ~is_open[d] THEN begun[d] ELSE 0]
  /\ UNCHANGED <<serverVars, is_open, loopVars, acceptVars>>

\* Mutant: the derived handle_error does not call the base's.
ErrorHandlerNoClose(c) ==
  /\ loop = "poll"
  /\ failed[c] > 0
  /\ failed' = [failed EXCEPT ![c] = @ - 1]
  /\ UNCHANGED <<serverVars, is_open, loopVars, acceptVars, waiting, done>>

\* handle_error: close() once; what still waited completes with an error.
ErrorHandler(c) ==
  /\ loop = "poll"
  /\ failed[c] > 0
  /\ is_open' = [is_open EXCEPT ![c] = FALSE]
  /\ failed' = [failed EXCEPT ![c] = @ - 1 + IF is_open[c] THEN waiting[c] ELSE 0]
  /\ waiting' = [waiting EXCEPT ![c] = IF is_open[c] THEN 0 ELSE @]
  /\ UNCHANGED <<serverVars, loopVars, acceptVars, done>>
-----------------------------------------------------------------------------
(***************************************************************************)
(* loop().                                                                 *)
(***************************************************************************)
\* Mutant: poll_one() instead of poll().
EndPollOne ==
  /\ loop = "poll"
  /\ loop' = "scan"
  /\ it' = {id \in Ids : m_tcp_conn_map[id] # NoConn}
  /\ UNCHANGED <<serverVars, is_open, invalid, acceptVars, opVars>>

EndPoll ==
  /\ loop = "poll"
  /\ accepted = "pending"
  /\ \A c \in Conns : done[c] = 0 /\ failed[c] = 0
  /\ loop' = "scan"
  /\ it' = {id \in Ids : m_tcp_conn_map[id] # NoConn}
  /\ UNCHANGED <<serverVars, is_open, invalid, acceptVars, opVars>>

\* A valid connection is ticked (tick() is empty), an invalid one noted.
Scan(id) ==
  LET c == m_tcp_conn_map[id] IN
  /\ loop = "scan"
  /\ \A j \in it : id <= j
  /\ it' = it \ {id}
  /\ invalid' = IF is_open[c] THEN invalid ELSE invalid \cup {c}
  /\ UNCHANGED <<serverVars, is_open, loop, acceptVars, opVars>>

EndScan ==
  /\ loop = "scan"
  /\ it = {}
  /\ loop' = "remove"
  /\ UNCHANGED <<serverVars, is_open, it, invalid, acceptVars, opVars>>

\* handle_remove_connection for each of them, and the end of the pass, when
\* invalid_connection lets go of them.
RemoveInvalid ==
  /\ loop = "remove"
  /\ m_tcp_conn_map' = [id \in Ids |-> IF \E c \in invalid : m_id[c] = id
                                        THEN NoConn ELSE m_tcp_conn_map[id]]
  /\ object' = Destroy(invalid)
  /\ invalid' = {}
  /\ loop' = "poll"
  /\ UNCHANGED <<m_next_conn_id, m_id, is_open, it, acceptVars, opVars>>

Handlers ==
  \/ \E c \in Conns : AcceptHandler(c)
  \/ AcceptFailedHandler
  \/ \E c \in Conns : \E begun \in [Mapped -> 0..MaxOps] : SuccessHandler(c, begun)
  \/ \E c \in Conns : ErrorHandler(c)

LoopStep ==
  \/ EndPoll
  \/ \E id \in it : Scan(id)
  \/ EndScan
  \/ RemoveInvalid

Next ==
  \/ \E result \in {"ok", "error"} : AcceptCompletes(result)
  \/ \E c \in Conns : OperationSucceeds(c) \/ OperationFails(c)
  \/ Handlers
  \/ LoopStep

Spec == Init /\ [][Next]_vars

(***************************************************************************)
(* The thread inside loop() never waits: what it can do next it does.      *)
(***************************************************************************)
Fairness == WF_vars(Handlers) /\ WF_vars(LoopStep)

FairSpec == Spec /\ Fairness
-----------------------------------------------------------------------------
(***************************************************************************)
(* Properties.                                                             *)
(***************************************************************************)
\* No handler runs on a connection the loop has dropped: a closed connection
\* is dropped only after poll() has run every handler close() set free, and
\* nobody begins an operation on it afterwards.  The one connection that can
\* go before its handlers is one add_conn turned away, which never had an id.
NoOrphanHandler ==
  \A c \in Conns : Outstanding(c) > 0 /\ m_id[c] # -1 => object[c] = "alive"

\* Exactly the connections in the map, the one being accepted and the ones
\* about to be dropped exist; the map finds each under its own id.  (The
\* types, with ids that stay in their range, are checked along with it.)
MapOwnsConnections ==
  /\ TypeOK
  /\ \A c \in Conns : object[c] = "alive" <=> c \in Mapped \cup {accepting}
  /\ \A id \in Ids : m_tcp_conn_map[id] # NoConn => m_id[m_tcp_conn_map[id]] = id

\* A connection on which an operation failed is dropped and destroyed,
\* provided that poll() returns again and again: it does not as long as
\* operations complete faster than their handlers run.
ClosedIsDropped ==
  []<><<EndPoll>>_vars =>
     \A c \in Conns : (c \in Mapped /\ failed[c] > 0) ~> (object[c] = "destroyed")
=============================================================================
