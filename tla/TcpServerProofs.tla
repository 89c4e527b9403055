-------------------------- MODULE TcpServerProofs --------------------------
(***************************************************************************)
(* Proofs about TcpServer, for any number of connections, any range of     *)
(* connection ids and any number of operations per connection.             *)
(***************************************************************************)
EXTENDS TcpServer, TLAPS

\* Exactly the connections of the map and the one being accepted exist.
ObjectsOwned ==
  \A c \in Conns : object[c] = "alive" <=> c \in Mapped \cup {accepting}

\* A connection is found under its own id.
KeyedById ==
  \A id \in Ids : m_tcp_conn_map[id] # NoConn => m_id[m_tcp_conn_map[id]] = id

\* The connection async_accept waits with has no id and no operations yet,
\* and a completed accept has its connection.
AcceptingIsFresh ==
  /\ accepting # NoConn => m_id[accepting] = -1 /\ Outstanding(accepting) = 0
  /\ accepted # "pending" => accepting # NoConn

\* Nor has a connection that was not made yet.
UnbornIsFresh ==
  \A c \in Conns : object[c] = "unborn" => m_id[c] = -1 /\ Outstanding(c) = 0

\* close() leaves nothing waiting.
ClosedNotWaiting == \A c \in Conns : ~is_open[c] => waiting[c] = 0

\* poll() has returned only when every completed operation was handled, and
\* no operation completes before the next one.
PollDrained ==
  loop # "poll" => /\ accepted = "pending"
                   /\ \A c \in Conns : done[c] = 0 /\ failed[c] = 0

\* The for loop visits ids of the map, and what it notes is a closed
\* connection of the map.
ScanFindsMapped ==
  /\ \A id \in it : m_tcp_conn_map[id] # NoConn
  /\ loop # "scan" => it = {}
  /\ loop = "poll" => invalid = {}
  /\ \A c \in invalid : c \in Mapped /\ ~is_open[c]

\* An open socket belongs to a connection of the map, or to the one that was
\* just accepted.
OpenIsOwned ==
  \A c \in Conns : is_open[c] => c \in Mapped \/ (c = accepting /\ accepted = "ok")

ServerInv ==
  /\ TypeOK
  /\ ObjectsOwned
  /\ KeyedById
  /\ AcceptingIsFresh
  /\ UnbornIsFresh
  /\ ClosedNotWaiting
  /\ PollDrained
  /\ ScanFindsMapped
  /\ NoOrphanHandler
  /\ OpenIsOwned
-----------------------------------------------------------------------------
\* The initial states satisfy the invariant.
LEMMA InitServerInv == Init => ServerInv
<1> SUFFICES ASSUME Init PROVE ServerInv
  OBVIOUS
<1>1. 0 \in Ids
  BY ServerAssumption DEF Ids
<1>2. TypeOK
  BY <1>1, ServerAssumption DEF Init, TypeOK
<1>3. ObjectsOwned /\ KeyedById
  BY ServerAssumption DEF Init, ObjectsOwned, KeyedById, Mapped
<1>4. AcceptingIsFresh /\ UnbornIsFresh /\ NoOrphanHandler
  BY ServerAssumption
  DEF Init, AcceptingIsFresh, UnbornIsFresh, NoOrphanHandler, Outstanding
<1>5. ClosedNotWaiting /\ PollDrained /\ ScanFindsMapped /\ OpenIsOwned
  BY DEF Init, ClosedNotWaiting, PollDrained, ScanFindsMapped, OpenIsOwned
<1>6. QED
  BY <1>2, <1>3, <1>4, <1>5 DEF ServerInv

\* A connection without outstanding operations has none of any kind.
LEMMA NothingOutstanding ==
  ASSUME TypeOK, NEW c \in Conns
  PROVE  /\ Outstanding(c) \in Nat
         /\ Outstanding(c) = 0 <=> waiting[c] = 0 /\ done[c] = 0 /\ failed[c] = 0
<1>1. waiting[c] \in Nat /\ done[c] \in Nat /\ failed[c] \in Nat
  BY DEF TypeOK
<1>2. \A i, j, k \in Nat : /\ i + j + k \in Nat
                           /\ (i + j + k = 0) <=> (i = 0 /\ j = 0 /\ k = 0)
  OBVIOUS
<1>3. QED
  BY <1>1, <1>2 DEF Outstanding

\* A connection of the map exists, has an id and is not being accepted.
LEMMA MappedHasId ==
  ASSUME ServerInv, NEW c \in Mapped
  PROVE  /\ c \in Conns
         /\ object[c] = "alive"
         /\ m_id[c] \in Ids /\ m_id[c] # -1
         /\ m_tcp_conn_map[m_id[c]] = c
         /\ c # accepting
<1>1. PICK id \in Ids : m_tcp_conn_map[id] = c
  BY DEF Mapped
<1>2. c \in Conns /\ m_id[c] = id /\ id # -1
  BY <1>1, ServerAssumption DEF Mapped, ServerInv, KeyedById, Ids
<1>3. QED
  BY <1>1, <1>2, ServerAssumption
  DEF Mapped, ServerInv, ObjectsOwned, AcceptingIsFresh

\* The steps of the io_context: operations complete.
LEMMA CompletionKeepsInv ==
  ASSUME ServerInv,
         \/ \E result \in {"ok", "error"} : AcceptCompletes(result)
         \/ \E c \in Conns : OperationSucceeds(c) \/ OperationFails(c)
  PROVE  ServerInv'
<1> USE DEF ServerInv, serverVars, loopVars, acceptVars, opVars
<1>1. ASSUME NEW result \in {"ok", "error"}, AcceptCompletes(result)
      PROVE  ServerInv'
  <2>1. TypeOK'
    BY <1>1, ServerAssumption DEF AcceptCompletes, TypeOK
  <2>2. Mapped' = Mapped /\ \A c \in Conns : Outstanding(c)' = Outstanding(c)
    BY <1>1 DEF AcceptCompletes, Mapped, Outstanding
  <2>3. ObjectsOwned' /\ KeyedById' /\ AcceptingIsFresh' /\ UnbornIsFresh'
        /\ NoOrphanHandler'
    BY <1>1, <2>2
    DEF AcceptCompletes, TypeOK, ObjectsOwned, KeyedById, AcceptingIsFresh,
        UnbornIsFresh, NoOrphanHandler
  <2>4. ClosedNotWaiting' /\ PollDrained' /\ ScanFindsMapped' /\ OpenIsOwned'
    BY <1>1, <2>2
    DEF AcceptCompletes, TypeOK, ClosedNotWaiting, PollDrained, ScanFindsMapped,
        OpenIsOwned
  <2>5. QED
    BY <2>1, <2>3, <2>4
<1>2. ASSUME NEW c \in Conns, OperationSucceeds(c) \/ OperationFails(c)
      PROVE  ServerInv'
  <2>1. TypeOK'
    BY <1>2 DEF OperationSucceeds, OperationFails, TypeOK
  <2>2. Mapped' = Mapped /\ \A d \in Conns : Outstanding(d)' = Outstanding(d)
    BY <1>2 DEF OperationSucceeds, OperationFails, TypeOK, Mapped, Outstanding
  <2>3. ObjectsOwned' /\ KeyedById' /\ AcceptingIsFresh' /\ UnbornIsFresh'
        /\ NoOrphanHandler'
    BY <1>2, <2>2
    DEF OperationSucceeds, OperationFails, TypeOK, ObjectsOwned, KeyedById,
        AcceptingIsFresh, UnbornIsFresh, NoOrphanHandler
  <2>4. ClosedNotWaiting' /\ PollDrained' /\ ScanFindsMapped' /\ OpenIsOwned'
    BY <1>2, <2>2
    DEF OperationSucceeds, OperationFails, TypeOK, ClosedNotWaiting,
        PollDrained, ScanFindsMapped, OpenIsOwned
  <2>5. QED
    BY <2>1, <2>3, <2>4
<1>3. QED
  BY <1>1, <1>2

\* Accepting a connection: it is filed under a free id, or, when the id is
\* taken, destroyed without ever having had one.
LEMMA AcceptKeepsInv ==
  ASSUME ServerInv, NEW new \in Conns, AcceptHandler(new)
  PROVE  ServerInv'
<1> DEFINE kept == m_tcp_conn_map[m_next_conn_id] = NoConn
<1> USE DEF ServerInv, loopVars
<1>1. /\ accepting \in Conns /\ object[accepting] = "alive"
      /\ m_id[accepting] = -1 /\ Outstanding(accepting) = 0
      /\ new # accepting /\ object[new] = "unborn"
      /\ m_id[new] = -1 /\ Outstanding(new) = 0
  BY ServerAssumption
  DEF AcceptHandler, TypeOK, ObjectsOwned, AcceptingIsFresh, UnbornIsFresh
<1>2. /\ waiting[accepting] = 0 /\ done[accepting] = 0 /\ failed[accepting] = 0
      /\ waiting[new] = 0 /\ done[new] = 0 /\ failed[new] = 0
  BY <1>1, NothingOutstanding
<1>3. (m_next_conn_id + 1) % IdSpace \in Ids /\ m_next_conn_id \in Ids
      /\ -1 \notin Ids
  BY ServerAssumption DEF TypeOK, Ids
<1>4. TypeOK'
  BY <1>1, <1>3 DEF AcceptHandler, add_conn, Destroy, TypeOK
<1>5. new \notin Mapped /\ accepting \notin Mapped
  BY <1>1, MappedHasId
<1>6. CASE kept
  <2>1. /\ m_id' = [m_id EXCEPT ![accepting] = m_next_conn_id]
        /\ m_tcp_conn_map' = [m_tcp_conn_map EXCEPT ![m_next_conn_id] = accepting]
        /\ object' = [object EXCEPT ![new] = "alive"]
        /\ is_open' = [is_open EXCEPT ![accepting] = TRUE]
        /\ waiting' = [waiting EXCEPT ![accepting] = 1]
        /\ failed' = failed /\ done' = done
        /\ accepting' = new /\ accepted' = "pending"
        /\ loop = "poll" /\ UNCHANGED <<loop, it, invalid>>
    <3>1. /\ m_id' = [m_id EXCEPT ![accepting] = m_next_conn_id]
          /\ m_tcp_conn_map' = [m_tcp_conn_map EXCEPT ![m_next_conn_id] = accepting]
          /\ object' = [object EXCEPT ![new] = "alive"]
          /\ is_open' = [is_open EXCEPT ![accepting] = TRUE]
      BY <1>6 DEF AcceptHandler, add_conn, Destroy, TypeOK
    <3>2. /\ waiting' = [waiting EXCEPT ![accepting] = 1]
          /\ failed' = failed
      BY <1>1, <1>2, <1>6 DEF AcceptHandler, TypeOK
    <3>3. QED
      BY <3>1, <3>2 DEF AcceptHandler
  <2>2. Mapped' = Mapped \cup {accepting}
    BY <1>1, <1>3, <1>6, <2>1, ServerAssumption DEF Mapped, TypeOK
  <2>3. \A c \in Conns : c # accepting => Outstanding(c)' = Outstanding(c)
    BY <2>1 DEF Outstanding, TypeOK
  <2>4. ObjectsOwned'
    BY <1>1, <2>1, <2>2 DEF ObjectsOwned, TypeOK
  <2>5. KeyedById'
    BY <1>1, <1>3, <1>5, <2>1 DEF KeyedById, TypeOK, Mapped
  <2>6. AcceptingIsFresh' /\ UnbornIsFresh' /\ NoOrphanHandler'
    BY <1>1, <2>1, <2>3
    DEF AcceptingIsFresh, UnbornIsFresh, NoOrphanHandler, TypeOK
  <2>7. ClosedNotWaiting' /\ PollDrained' /\ ScanFindsMapped'
    BY <1>1, <1>3, <2>1, <2>2, ServerAssumption
    DEF ClosedNotWaiting, PollDrained, ScanFindsMapped, TypeOK
  <2>8. OpenIsOwned'
    BY <1>1, <2>1, <2>2 DEF OpenIsOwned, TypeOK
  <2>9. QED
    BY <1>4, <2>4, <2>5, <2>6, <2>7, <2>8
<1>7. CASE ~kept
  <2>1. /\ UNCHANGED <<m_id, m_tcp_conn_map, waiting, done>>
        /\ object' = [object EXCEPT ![accepting] = "destroyed", ![new] = "alive"]
        /\ is_open' = [is_open EXCEPT ![accepting] = FALSE]
        /\ failed' = [failed EXCEPT ![accepting] = 1]
        /\ accepting' = new /\ accepted' = "pending"
        /\ loop = "poll" /\ UNCHANGED <<loop, it, invalid>>
    <3>1. /\ UNCHANGED <<m_id, m_tcp_conn_map>>
          /\ object' = [object EXCEPT ![accepting] = "destroyed", ![new] = "alive"]
          /\ is_open' = [is_open EXCEPT ![accepting] = FALSE]
      BY <1>1, <1>7 DEF AcceptHandler, add_conn, Destroy, TypeOK
    <3>2. /\ failed' = [failed EXCEPT ![accepting] = 1]
          /\ waiting' = waiting
      BY <1>1, <1>2, <1>7 DEF AcceptHandler, TypeOK
    <3>3. QED
      BY <3>1, <3>2 DEF AcceptHandler
  <2>2. Mapped' = Mapped
    BY <2>1 DEF Mapped
  <2>3. \A c \in Conns : c # accepting => Outstanding(c)' = Outstanding(c)
    BY <2>1 DEF Outstanding, TypeOK
  <2>4. ObjectsOwned' /\ KeyedById'
    BY <1>1, <1>5, <2>1, <2>2 DEF ObjectsOwned, KeyedById, TypeOK
  <2>5. AcceptingIsFresh' /\ UnbornIsFresh' /\ NoOrphanHandler'
    BY <1>1, <2>1, <2>3
    DEF AcceptingIsFresh, UnbornIsFresh, NoOrphanHandler, TypeOK
  <2>6. ClosedNotWaiting' /\ PollDrained' /\ ScanFindsMapped' /\ OpenIsOwned'
    BY <1>1, <1>2, <2>1, <2>2
    DEF ClosedNotWaiting, PollDrained, ScanFindsMapped, OpenIsOwned, TypeOK
  <2>7. QED
    BY <1>4, <2>4, <2>5, <2>6
<1>8. QED
  BY <1>6, <1>7

\* The other handlers poll() runs.
LEMMA HandlersKeepInv == ASSUME ServerInv, Handlers PROVE ServerInv'
<1> USE DEF ServerInv, serverVars, loopVars, acceptVars, opVars
<1>1. CASE AcceptFailedHandler
  <2>1. /\ accepting \in Conns /\ m_id[accepting] = -1
        /\ Outstanding(accepting) = 0
    BY <1>1, ServerAssumption DEF AcceptFailedHandler, AcceptingIsFresh, TypeOK
  <2>2. /\ object' = [object EXCEPT ![accepting] = "destroyed"]
        /\ accepting' = NoConn /\ accepted' = "pending" /\ loop = "poll"
        /\ UNCHANGED <<m_tcp_conn_map, m_next_conn_id, m_id, is_open, loop, it,
                       invalid, waiting, done, failed>>
    BY <1>1, <2>1 DEF AcceptFailedHandler, Destroy, TypeOK
  <2>3. TypeOK'
    BY <2>2 DEF TypeOK
  <2>4. Mapped' = Mapped /\ accepting \notin Mapped
        /\ \A c \in Conns : Outstanding(c)' = Outstanding(c)
    BY <2>1, <2>2, MappedHasId DEF Mapped, Outstanding
  <2>5. ObjectsOwned' /\ KeyedById'
    BY <2>1, <2>2, <2>4, ServerAssumption DEF ObjectsOwned, KeyedById, TypeOK
  <2>6. AcceptingIsFresh' /\ UnbornIsFresh' /\ NoOrphanHandler'
    BY <2>1, <2>2, <2>4
    DEF AcceptingIsFresh, UnbornIsFresh, NoOrphanHandler, TypeOK
  <2>7. ClosedNotWaiting' /\ PollDrained' /\ ScanFindsMapped' /\ OpenIsOwned'
    BY <1>1, <2>2, <2>4
    DEF AcceptFailedHandler, ClosedNotWaiting, PollDrained, ScanFindsMapped, OpenIsOwned
  <2>8. QED
    BY <2>3, <2>5, <2>6, <2>7
<1>2. ASSUME NEW c \in Conns, NEW begun \in [Mapped -> 0..MaxOps],
             SuccessHandler(c, begun)
      PROVE  ServerInv'
  <2>1. \A d \in Mapped : begun[d] \in Nat
    BY ServerAssumption
  <2>2. TypeOK'
    BY <1>2, <2>1 DEF SuccessHandler, TypeOK
  <2>3. Mapped' = Mapped /\ accepting' = accepting /\ loop = "poll"
    BY <1>2 DEF SuccessHandler, Mapped
  <2>4. ASSUME NEW d \in Conns, d \notin Mapped
        PROVE  /\ waiting'[d] = waiting[d] /\ failed'[d] = failed[d]
               /\ Outstanding(d)' \in Nat /\ Outstanding(d)' <= Outstanding(d)
    BY <1>2, <2>4 DEF SuccessHandler, TypeOK, Outstanding
  <2>5. ObjectsOwned' /\ KeyedById' /\ PollDrained' /\ ScanFindsMapped' /\ OpenIsOwned'
    BY <1>2, <2>3
    DEF SuccessHandler, ObjectsOwned, KeyedById, PollDrained, ScanFindsMapped, OpenIsOwned
  <2>6. ClosedNotWaiting'
    BY <1>2, <2>1, <2>4 DEF SuccessHandler, ClosedNotWaiting, TypeOK
  <2>7. \A d \in Conns : Outstanding(d) \in Nat
    BY DEF Outstanding, TypeOK
  <2>8. AcceptingIsFresh' /\ UnbornIsFresh' /\ NoOrphanHandler'
    <3>1. \A d \in Conns : d \in Mapped =>
             object[d] = "alive" /\ d # accepting /\ m_id[d] # -1
      BY MappedHasId
    <3>2. UNCHANGED <<m_id, object, accepting, accepted>>
      BY <1>2 DEF SuccessHandler
    <3>3. AcceptingIsFresh'
      BY <2>4, <2>7, <3>1, <3>2 DEF AcceptingIsFresh, TypeOK
    <3>4. UnbornIsFresh'
      BY <2>4, <2>7, <3>1, <3>2 DEF UnbornIsFresh
    <3>5. NoOrphanHandler'
      BY <2>4, <2>7, <3>1, <3>2 DEF NoOrphanHandler
    <3>6. QED
      BY <3>3, <3>4, <3>5
  <2>9. QED
    BY <2>2, <2>5, <2>6, <2>8
<1>3. ASSUME NEW c \in Conns, ErrorHandler(c) PROVE ServerInv'
  <2>1. TypeOK'
    BY <1>3 DEF ErrorHandler, TypeOK
  <2>2. Mapped' = Mapped /\ loop = "poll"
    BY <1>3 DEF ErrorHandler, Mapped
  <2>3. \A d \in Conns : /\ Outstanding(d) \in Nat /\ Outstanding(d)' \in Nat
                         /\ Outstanding(d)' <= Outstanding(d)
    BY <1>3 DEF ErrorHandler, TypeOK, Outstanding
  <2>4. ObjectsOwned' /\ KeyedById' /\ PollDrained' /\ ScanFindsMapped' /\ OpenIsOwned'
    BY <1>3, <2>2
    DEF ErrorHandler, ObjectsOwned, KeyedById, PollDrained, ScanFindsMapped, OpenIsOwned,
        TypeOK
  <2>5. ClosedNotWaiting'
    BY <1>3 DEF ErrorHandler, ClosedNotWaiting, TypeOK
  <2>6. AcceptingIsFresh' /\ UnbornIsFresh' /\ NoOrphanHandler'
    BY <1>3, <2>3
    DEF ErrorHandler, AcceptingIsFresh, UnbornIsFresh, NoOrphanHandler, TypeOK
  <2>7. QED
    BY <2>1, <2>4, <2>5, <2>6
<1>4. QED
  BY <1>1, <1>2, <1>3, AcceptKeepsInv DEF Handlers

\* The rest of a pass of loop().  What it drops was closed, and poll() has
\* run every handler of it.
LEMMA LoopKeepsInv == ASSUME ServerInv, LoopStep PROVE ServerInv'
<1> USE DEF ServerInv, serverVars, loopVars, acceptVars, opVars
<1>1. ASSUME EndPoll \/ EndScan \/ \E id \in it : Scan(id)
      PROVE  ServerInv'
  <2>1. /\ UNCHANGED <<m_tcp_conn_map, m_next_conn_id, m_id, object, is_open,
                       accepting, accepted, waiting, done, failed>>
        /\ loop' # "poll" /\ loop' \in {"scan", "remove"}
    BY <1>1 DEF EndPoll, EndScan, Scan
  <2>2. Mapped' = Mapped /\ \A c \in Conns : Outstanding(c)' = Outstanding(c)
    BY <2>1 DEF Mapped, Outstanding
  <2>3. TypeOK'
    BY <1>1, <2>1 DEF EndPoll, EndScan, Scan, TypeOK, ScanFindsMapped
  <2>4. ObjectsOwned' /\ KeyedById' /\ AcceptingIsFresh' /\ UnbornIsFresh'
        /\ ClosedNotWaiting' /\ NoOrphanHandler' /\ OpenIsOwned'
    BY <2>1, <2>2
    DEF ObjectsOwned, KeyedById, AcceptingIsFresh, UnbornIsFresh,
        ClosedNotWaiting, NoOrphanHandler, OpenIsOwned, TypeOK
  <2>5. PollDrained'
    BY <1>1 DEF EndPoll, EndScan, Scan, PollDrained
  <2>6. ScanFindsMapped'
    BY <1>1, <2>2
    DEF EndPoll, EndScan, Scan, ScanFindsMapped, TypeOK, Mapped
  <2>7. QED
    BY <2>3, <2>4, <2>5, <2>6
<1>2. CASE RemoveInvalid
  <2>1. /\ UNCHANGED <<m_next_conn_id, m_id, is_open, it, accepting, accepted,
                       waiting, done, failed>>
        /\ loop = "remove" /\ loop' = "poll" /\ invalid' = {}
        /\ object' = [c \in Conns |->
                        IF c \in invalid THEN "destroyed" ELSE object[c]]
    BY <1>2 DEF RemoveInvalid, Destroy
  <2>2. ASSUME NEW id \in Ids
        PROVE  m_tcp_conn_map'[id] = IF m_tcp_conn_map[id] \in invalid
                                     THEN NoConn ELSE m_tcp_conn_map[id]
    <3>1. m_tcp_conn_map[id] \in invalid <=> \E c \in invalid : m_id[c] = id
      BY MappedHasId, ServerAssumption DEF ScanFindsMapped, KeyedById, TypeOK
    <3>2. QED
      BY <1>2, <3>1 DEF RemoveInvalid
  <2>3. TypeOK'
    BY <1>2, <2>1 DEF RemoveInvalid, TypeOK
  <2>4. Mapped' = Mapped \ invalid
    BY <2>2, ServerAssumption DEF Mapped, TypeOK
  <2>5. accepting \notin invalid
        /\ \A c \in invalid : c \in Conns /\ Outstanding(c) = 0
    BY <2>1, MappedHasId
    DEF ScanFindsMapped, PollDrained, ClosedNotWaiting, Outstanding, TypeOK
  <2>6. \A c \in Conns : Outstanding(c)' = Outstanding(c)
    BY <2>1 DEF Outstanding
  <2>7. ObjectsOwned'
    BY <2>1, <2>4, <2>5 DEF ObjectsOwned
  <2>8. KeyedById'
    BY <2>1, <2>2 DEF KeyedById
  <2>9. AcceptingIsFresh' /\ UnbornIsFresh'
    BY <2>1, <2>6 DEF AcceptingIsFresh, UnbornIsFresh, TypeOK
  <2>10. NoOrphanHandler'
    BY <2>1, <2>5, <2>6 DEF NoOrphanHandler
  <2>11. ClosedNotWaiting' /\ PollDrained' /\ ScanFindsMapped' /\ OpenIsOwned'
    BY <2>1, <2>4 DEF ClosedNotWaiting, PollDrained, ScanFindsMapped, OpenIsOwned
  <2>12. QED
    BY <2>3, <2>7, <2>8, <2>9, <2>10, <2>11
<1>3. QED
  BY <1>1, <1>2 DEF LoopStep

\* The invariant is inductive.
LEMMA NextServerInv == ServerInv /\ [Next]_vars => ServerInv'
<1> SUFFICES ASSUME ServerInv, [Next]_vars PROVE ServerInv'
  OBVIOUS
<1>1. CASE UNCHANGED vars
  BY <1>1
  DEF vars, serverVars, loopVars, acceptVars, opVars, ServerInv, TypeOK,
      ObjectsOwned, KeyedById, AcceptingIsFresh, UnbornIsFresh,
      ClosedNotWaiting, PollDrained, ScanFindsMapped, NoOrphanHandler,
      OpenIsOwned, Mapped, Outstanding
<1>2. CASE Next
  BY <1>2, CompletionKeepsInv, HandlersKeepInv, LoopKeepsInv DEF Next
<1>3. QED
  BY <1>1, <1>2

\* loop() never drops a connection one of whose handlers has still to run:
\* a handler that has the connection as a raw this finds it alive.  The only
\* connection destroyed before its handlers is one add_conn turned away.
THEOREM HandlersFindTheirConnection == Spec => []NoOrphanHandler
<1>1. ServerInv => NoOrphanHandler
  BY DEF ServerInv
<1>2. QED
  BY <1>1, InitServerInv, NextServerInv, PTL DEF Spec

\* The map and the accept own exactly the connections that exist, and the
\* map has each under its own id, even after m_next_conn_id wrapped around.
THEOREM MapIsExact == Spec => []MapOwnsConnections
<1>1. ServerInv => MapOwnsConnections
  BY DEF ServerInv, MapOwnsConnections, ObjectsOwned, KeyedById
<1>2. QED
  BY <1>1, InitServerInv, NextServerInv, PTL DEF Spec
=============================================================================
