--------------------------- MODULE ChatRoomProofs ---------------------------
(***************************************************************************)
(* Proofs about ChatRoom, for any number of connections, ids and messages, *)
(* any reads cut short and any operations failing.  What is proved of      *)
(* TcpServer holds of the chat room through the refinement mapping of      *)
(* ChatRoom: Base is TcpServer with its invariant and the proof of it.     *)
(***************************************************************************)
EXTENDS ChatRoom, SequenceTheorems, FiniteSetTheorems, TLAPS

Base == INSTANCE TcpServerProofs
          WITH waiting <- Count("waiting"), done <- Count("done"), failed <- Count("failed")

\* A connection without an id has nothing to write, and its read, if it was
\* turned away, has failed.
NoIdIsSilent ==
  \A c \in Conns : m_id[c] = -1 =>
     /\ m_send_queue[c] = <<>> /\ wr[c] = <<>> /\ wire[c] = <<>>
     /\ rd[c].st \in {"none", "failed"}

\* A read that completed well left its message in the stream.
ReadHasText == \A c \in Conns : rd[c].st = "done" => stream[c] # <<>>

ChatInv ==
  /\ WritingWhileQueued
  /\ NoIdIsSilent
  /\ ReadHasText

\* Frames that left both the queue and the server: not the one whose write is
\* completed and not handled.
Sent(c) ==
  Len(wire[c]) - IF wr[c] # <<>> /\ wr[c][1].st = "done" THEN 1 ELSE 0

\* What a connection has yet to write is what was broadcast after what it
\* has sent, all of it as long as it is in the map.
Continues(c) ==
  /\ Sent(c) \in Nat
  /\ joined[c] + Sent(c) + Len(m_send_queue[c]) <= Len(log)
  /\ c \in Server!Mapped => joined[c] + Sent(c) + Len(m_send_queue[c]) = Len(log)
  /\ \A k \in 1..Len(m_send_queue[c]) : m_send_queue[c][k] = log[joined[c] + Sent(c) + k]
  /\ wr[c] # <<>> => wr[c][1].frame \in {m_send_queue[c][1], Junk}

\* What went out to c is what was broadcast since it joined.
Heard(c) ==
  \A i \in 1..Len(wire[c]) : /\ joined[c] + i <= Len(log)
                             /\ wire[c][i] \in {log[joined[c] + i], Junk}

InConversation == \A c \in Conns : Continues(c) /\ Heard(c)

\* Text a was said before text b, or one of them is not what was said.
Before(a, b) == a # Junk /\ b # Junk => a < b

\* The ids under which what is in the stream of c may yet be broadcast: its
\* own, or, before it has one, an id that is free.
MaySpeakAs(c) ==
  IF c \in Server!Mapped THEN {m_id[c]}
  ELSE IF c = accepting THEN {id \in Server!Ids : m_tcp_conn_map[id] = NoConn}
  ELSE {}

\* The stream of c is in the order of saying, behind what was broadcast under
\* the ids it may speak as; nothing was sent to a socket that was never open.
InOrder(c) ==
  /\ \A k \in 1..Len(stream[c]) : Before(stream[c][k], said + 1)
  /\ \A j, k \in 1..Len(stream[c]) : j < k => Before(stream[c][j], stream[c][k])
  /\ \A i \in 1..Len(log), k \in 1..Len(stream[c]) :
        log[i].from \in MaySpeakAs(c) => Before(log[i].text, stream[c][k])
  /\ object[c] = "unborn" \/ (c = accepting /\ accepted # "ok") => stream[c] = <<>>

\* So is what was broadcast under one id.
LogInOrder ==
  /\ \A i \in 1..Len(log) : Before(log[i].text, said + 1)
  /\ \A i, j \in 1..Len(log) :
        i < j /\ log[i].from = log[j].from => Before(log[i].text, log[j].text)

AllInOrder == LogInOrder /\ \A c \in Conns : InOrder(c)
-----------------------------------------------------------------------------
(***************************************************************************)
(* TcpServer's invariant, in the terms of the chat room.                   *)
(***************************************************************************)
\* ServerAssumption of the instance.
LEMMA BaseAssumption ==
  /\ NoConn \notin Conns
  /\ Base!IsFiniteSet(Conns)
  /\ IdSpace \in Nat \ {0}
  /\ MaxOps \in Nat \ {0}
BY ChatAssumption DEF Base!IsFiniteSet, IsFiniteSet

\* Server and Base are the same module under the same mapping.
LEMMA SameServer ==
  /\ Server!Ids = Base!Ids /\ Server!Mapped = Base!Mapped
  /\ UNCHANGED Server!vars <=> UNCHANGED Base!vars
  /\ Server!Init <=> Base!Init
  /\ Server!Next <=> Base!Next
<1>1. Server!Ids = Base!Ids /\ Server!Mapped = Base!Mapped
  BY DEF Server!Ids, Base!Ids, Server!Mapped, Base!Mapped
<1>2. UNCHANGED Server!vars <=> UNCHANGED Base!vars
  BY DEF Server!vars, Base!vars, Server!serverVars, Base!serverVars, Server!loopVars,
         Base!loopVars, Server!acceptVars, Base!acceptVars, Server!opVars, Base!opVars
<1>3. Server!Init <=> Base!Init
  BY <1>1 DEF Server!Init, Base!Init
<1>4. /\ \A new : Server!AcceptHandler(new) <=> Base!AcceptHandler(new)
      /\ Server!AcceptFailedHandler <=> Base!AcceptFailedHandler
  BY DEF Server!AcceptHandler, Base!AcceptHandler, Server!AcceptFailedHandler,
         Base!AcceptFailedHandler, Server!add_conn, Base!add_conn, Server!Destroy,
         Base!Destroy, Server!loopVars, Base!loopVars, Server!opVars, Base!opVars
<1>5. /\ \A result : Server!AcceptCompletes(result) <=> Base!AcceptCompletes(result)
      /\ \A c : Server!OperationSucceeds(c) <=> Base!OperationSucceeds(c)
      /\ \A c : Server!OperationFails(c) <=> Base!OperationFails(c)
      /\ \A c : Server!ErrorHandler(c) <=> Base!ErrorHandler(c)
  BY DEF Server!AcceptCompletes, Base!AcceptCompletes, Server!OperationSucceeds,
         Base!OperationSucceeds, Server!OperationFails, Base!OperationFails,
         Server!ErrorHandler, Base!ErrorHandler, Server!serverVars, Base!serverVars,
         Server!loopVars, Base!loopVars, Server!acceptVars, Base!acceptVars,
         Server!opVars, Base!opVars
<1>6. \A c, begun : Server!SuccessHandler(c, begun) <=> Base!SuccessHandler(c, begun)
  BY <1>1
  DEF Server!SuccessHandler, Base!SuccessHandler, Server!Outstanding, Base!Outstanding,
      Server!serverVars, Base!serverVars, Server!loopVars, Base!loopVars,
      Server!acceptVars, Base!acceptVars
<1>7. Server!LoopStep <=> Base!LoopStep
  BY <1>1
  DEF Server!LoopStep, Base!LoopStep, Server!EndPoll, Base!EndPoll, Server!Scan, Base!Scan,
      Server!EndScan, Base!EndScan, Server!RemoveInvalid, Base!RemoveInvalid,
      Server!Destroy, Base!Destroy, Server!serverVars, Base!serverVars,
      Server!acceptVars, Base!acceptVars, Server!opVars, Base!opVars
<1>8. Server!Handlers <=> Base!Handlers
  BY <1>1, <1>4, <1>5, <1>6 DEF Server!Handlers, Base!Handlers
<1>9. Server!Next <=> Base!Next
  BY <1>5, <1>7, <1>8 DEF Server!Next, Base!Next
<1>10. QED
  BY <1>1, <1>2, <1>3, <1>9

\* TcpServer's invariant is inductive here too.
LEMMA BaseInvInductive ==
  /\ Server!Init => Base!ServerInv
  /\ Base!ServerInv /\ [Server!Next]_Server!vars => Base!ServerInv'
<1>1. Server!Init => Base!ServerInv
  BY SameServer, BaseAssumption, Base!InitServerInv
<1>2. Base!ServerInv /\ [Base!Next]_Base!vars => Base!ServerInv'
  BY BaseAssumption, Base!NextServerInv
<1>3. [Server!Next]_Server!vars => [Base!Next]_Base!vars
  BY SameServer
<1>4. QED
  BY <1>1, <1>2, <1>3

\* How many operations of c are in state s, with one write at most.
Reading(c, s) == IF rd[c].st = s THEN 1 ELSE 0
Writing(c, s) == IF wr[c] # <<>> /\ wr[c][1].st = s THEN 1 ELSE 0

\* A sequence that is not empty has a first element.
LEMMA FirstElement ==
  ASSUME NEW S, NEW ws \in Seq(S), ws # <<>>
  PROVE  /\ Len(ws) \in Nat \ {0} /\ 1 \in DOMAIN ws
         /\ ws[1] \in S /\ Head(ws) = ws[1]
BY EmptySeq

LEMMA OneOperation ==
  ASSUME NEW ws, NEW S, ws \in Seq(S), Len(ws) <= 1, NEW s
  PROVE  Cardinality({i \in DOMAIN ws : ws[i].st = s})
           = IF ws # <<>> /\ ws[1].st = s THEN 1 ELSE 0
<1> DEFINE T == {i \in DOMAIN ws : ws[i].st = s}
<1>1. DOMAIN ws = 1..Len(ws) /\ Len(ws) \in Nat /\ (ws = <<>> <=> Len(ws) = 0)
  OBVIOUS
<1>2. CASE ws # <<>> /\ ws[1].st = s
  <2>1. T = {1}
    BY <1>1, <1>2
  <2>2. QED
    BY <1>2, <2>1, FS_Singleton
<1>3. CASE ~(ws # <<>> /\ ws[1].st = s)
  <2>1. T = {}
    BY <1>1, <1>3
  <2>2. QED
    BY <1>3, <2>1, FS_EmptySet
<1>4. QED
  BY <1>2, <1>3

LEMMA CountIs ==
  ASSUME WritingWhileQueued, NEW s
  PROVE  Count(s) = [c \in Conns |-> Reading(c, s) + Writing(c, s)]
<1>1. \A c \in Conns : Cardinality({i \in DOMAIN wr[c] : wr[c][i].st = s}) = Writing(c, s)
  BY OneOperation DEF WritingWhileQueued, TypeOK, Writing
<1>2. QED
  BY <1>1 DEF Count, Reading

\* The same in the next state.
LEMMA CountWillBe ==
  ASSUME WritingWhileQueued', NEW s
  PROVE  Count(s)' = [c \in Conns |-> Reading(c, s)' + Writing(c, s)']
<1>1. \A c \in Conns : Cardinality({i \in DOMAIN wr'[c] : wr'[c][i].st = s}) = Writing(c, s)'
  BY OneOperation DEF WritingWhileQueued, TypeOK, Writing
<1>2. QED
  BY <1>1 DEF Count, Reading

\* What the chat room's handlers need to know of the server.
ServerFacts ==
  /\ m_tcp_conn_map \in [Server!Ids -> Conns \cup {NoConn}]
  /\ m_id \in [Conns -> Server!Ids \cup {-1}]
  /\ is_open \in [Conns -> BOOLEAN]
  /\ accepting \in Conns \cup {NoConn}
  /\ m_next_conn_id \in Server!Ids
  /\ \A c \in Server!Mapped :
        /\ m_id[c] \in Server!Ids /\ m_id[c] # -1 /\ m_tcp_conn_map[m_id[c]] = c
        /\ c # accepting
  /\ accepting # NoConn => m_id[accepting] = -1
  /\ accepted = "ok" => accepting # NoConn
  /\ \A c \in Conns : object[c] = "unborn" => m_id[c] = -1 /\ c # accepting /\ ~is_open[c]
  /\ \A c \in Conns : m_id[c] # -1 /\ (rd[c].st # "none" \/ wr[c] # <<>>) => c \in Server!Mapped
  /\ \A c \in Conns : is_open[c] => c \in Server!Mapped \/ (c = accepting /\ accepted = "ok")
  /\ loop # "poll" => accepted = "pending"

LEMMA ServerFactsHold ==
  ASSUME Base!ServerInv, WritingWhileQueued
  PROVE  ServerFacts
<1> USE DEF Base!ServerInv
<1>1. Server!Ids = Base!Ids /\ Server!Mapped = Base!Mapped
  BY SameServer
<1>2. /\ m_tcp_conn_map \in [Server!Ids -> Conns \cup {NoConn}]
      /\ m_id \in [Conns -> Server!Ids \cup {-1}]
      /\ is_open \in [Conns -> BOOLEAN]
      /\ accepting \in Conns \cup {NoConn}
      /\ m_next_conn_id \in Server!Ids
  BY <1>1 DEF Base!TypeOK
<1>3. \A c \in Server!Mapped :
        /\ m_id[c] \in Server!Ids /\ m_id[c] # -1 /\ m_tcp_conn_map[m_id[c]] = c
        /\ c # accepting
  BY <1>1, BaseAssumption, Base!MappedHasId
<1>4. /\ accepting # NoConn => m_id[accepting] = -1
      /\ accepted = "ok" => accepting # NoConn
      /\ loop # "poll" => accepted = "pending"
  BY DEF Base!AcceptingIsFresh, Base!PollDrained
<1>5. \A c \in Conns : is_open[c] => c \in Server!Mapped \/ (c = accepting /\ accepted = "ok")
  BY <1>1 DEF Base!OpenIsOwned
<1>6. \A c \in Conns : object[c] = "unborn" => m_id[c] = -1 /\ c # accepting /\ ~is_open[c]
  BY <1>1, <1>5 DEF Base!UnbornIsFresh, Base!ObjectsOwned
<1>7. ASSUME NEW c \in Conns, m_id[c] # -1, rd[c].st # "none" \/ wr[c] # <<>>
      PROVE  c \in Server!Mapped
  <2>1. /\ rd[c].st # "none" => rd[c].st \in OpStates
        /\ wr[c] # <<>> => wr[c][1].st \in OpStates
    <3>1. rd[c] \in [op : {"header", "body"}, st : OpStates] \cup {NoRead}
      BY DEF WritingWhileQueued, TypeOK
    <3>2. wr[c] \in Seq([frame : Frames \cup {Junk}, st : OpStates])
      BY DEF WritingWhileQueued, TypeOK
    <3>3. wr[c] # <<>> => wr[c][1] \in [frame : Frames \cup {Junk}, st : OpStates]
      BY <3>2, FirstElement
    <3>4. QED
      BY <3>1, <3>3 DEF NoRead
  <2>2. \E s \in OpStates : Reading(c, s) + Writing(c, s) > 0
    BY <1>7, <2>1 DEF Reading, Writing
  <2>3. Base!Outstanding(c) = Count("waiting")[c] + Count("done")[c] + Count("failed")[c]
    BY DEF Base!Outstanding
  <2>4. \A s : Count(s)[c] = Reading(c, s) + Writing(c, s)
    BY CountIs
  <2>5. \A s : Reading(c, s) \in Nat /\ Writing(c, s) \in Nat
    BY DEF Reading, Writing
  <2>6. Base!Outstanding(c) > 0
    <3> DEFINE n(s) == Reading(c, s) + Writing(c, s)
    <3>1. \A s : n(s) \in Nat
      BY <2>5
    <3>2. n("waiting") > 0 \/ n("done") > 0 \/ n("failed") > 0
      BY <2>2 DEF OpStates
    <3>3. Base!Outstanding(c) = n("waiting") + n("done") + n("failed")
      BY <2>3, <2>4
    <3> HIDE DEF n
    <3>4. QED
      BY <3>1, <3>2, <3>3
  <2>7. object[c] = "alive"
    BY <1>7, <2>6 DEF Base!NoOrphanHandler
  <2>8. QED
    BY <1>1, <1>4, <1>7, <2>7, BaseAssumption DEF Base!ObjectsOwned
<1>8. QED
  BY <1>2, <1>3, <1>4, <1>5, <1>6, <1>7 DEF ServerFacts
-----------------------------------------------------------------------------
(***************************************************************************)
(* The writes of one connection.                                           *)
(***************************************************************************)
WriteOps == [frame : Frames \cup {Junk}, st : OpStates]
ReadOps == [op : {"header", "body"}, st : OpStates] \cup {NoRead}

\* The types, connection by connection.
LEMMA ChatTypes ==
  ASSUME ChatInv, NEW c \in Conns
  PROVE  /\ rd[c] \in ReadOps
         /\ wr[c] \in Seq(WriteOps) /\ Len(wr[c]) <= 1
         /\ wr[c] # <<>> => wr[c][1] \in WriteOps
         /\ m_send_queue[c] \in Seq(Frames) /\ stream[c] \in Seq(Texts)
         /\ framed[c] \in BOOLEAN /\ joined[c] \in Nat
         /\ wire[c] \in Seq(Frames \cup {Junk})
         /\ wr[c] # <<>> => m_send_queue[c] # <<>>
<1>1. wr[c] \in Seq(WriteOps)
  BY DEF ChatInv, WritingWhileQueued, TypeOK, WriteOps
<1>2. QED
  BY <1>1, FirstElement DEF ChatInv, WritingWhileQueued, TypeOK, ReadOps

\* The only write of a connection is removed.
LEMMA WithoutTheOne ==
  ASSUME NEW S, NEW ws \in Seq(S), Len(ws) <= 1, NEW i \in DOMAIN ws
  PROVE  i = 1 /\ ws # <<>> /\ Without(ws, i) = <<>>
<1>1. Len(ws) = 1 /\ i = 1
  <2>1. DOMAIN ws = 1..Len(ws) /\ Len(ws) \in Nat
    OBVIOUS
  <2>2. QED
    BY <2>1
<1>2. SubSeq(ws, 1, 0) = <<>> /\ SubSeq(ws, 2, 1) = <<>>
  <2>1. SubSeq(ws, 1, 0) \in Seq(S) /\ Len(SubSeq(ws, 1, 0)) = 0
    BY <1>1, SubSeqProperties
  <2>2. SubSeq(ws, 2, 1) \in Seq(S) /\ Len(SubSeq(ws, 2, 1)) = 0
    BY <1>1, SubSeqProperties
  <2>3. QED
    BY <2>1, <2>2, EmptySeq
<1>3. <<>> \o <<>> = <<>>
  BY ConcatEmptySeq, <<>> \in Seq(S)
<1>4. QED
  BY <1>1, <1>2, <1>3 DEF Without

\* close() changes no frame and removes no write.
LEMMA AbortAllFacts ==
  ASSUME NEW ws \in Seq(WriteOps)
  PROVE  /\ AbortAll(ws) \in Seq(WriteOps)
         /\ Len(AbortAll(ws)) = Len(ws)
         /\ AbortAll(ws) = <<>> <=> ws = <<>>
         /\ \A i \in DOMAIN ws :
               /\ AbortAll(ws)[i].frame = ws[i].frame
               /\ AbortAll(ws)[i].st = IF ws[i].st = "waiting" THEN "failed" ELSE ws[i].st
<1>1. DOMAIN ws = 1..Len(ws) /\ Len(ws) \in Nat
  OBVIOUS
<1>2. \A i \in DOMAIN ws : /\ Abort(ws[i]) \in WriteOps
                           /\ Abort(ws[i]).frame = ws[i].frame
                           /\ Abort(ws[i]).st = IF ws[i].st = "waiting" THEN "failed" ELSE ws[i].st
  <2>1. ASSUME NEW x \in WriteOps
        PROVE  /\ Abort(x) \in WriteOps /\ Abort(x).frame = x.frame
               /\ Abort(x).st = IF x.st = "waiting" THEN "failed" ELSE x.st
    BY DEF Abort, WriteOps, OpStates
  <2>2. \A i \in DOMAIN ws : ws[i] \in WriteOps
    BY <1>1
  <2>3. QED
    BY <2>1, <2>2
<1>3. AbortAll(ws) \in [1..Len(ws) -> WriteOps]
  BY <1>1, <1>2 DEF AbortAll
<1>4. AbortAll(ws) \in Seq(WriteOps) /\ Len(AbortAll(ws)) = Len(ws)
  BY <1>1, <1>3
<1>5. \A i \in DOMAIN ws : AbortAll(ws)[i] = Abort(ws[i])
  BY DEF AbortAll
<1>6. AbortAll(ws) = <<>> <=> ws = <<>>
  <2>1. /\ AbortAll(ws) = <<>> <=> Len(AbortAll(ws)) = 0
        /\ ws = <<>> <=> Len(ws) = 0
    BY <1>4, EmptySeq
  <2>2. QED
    BY <1>4, <2>1
<1>7. QED
  BY <1>2, <1>4, <1>5, <1>6

\* A sequence with one element.
LEMMA Singleton ==
  ASSUME NEW S, NEW x \in S
  PROVE  /\ Append(<<>>, x) \in Seq(S) /\ Len(Append(<<>>, x)) = 1
         /\ Append(<<>>, x) # <<>> /\ Append(<<>>, x)[1] = x
<1>1. <<>> \in Seq(S) /\ Len(<<>>) = 0
  OBVIOUS
<1>2. QED
  BY <1>1, AppendProperties

\* What WriteHandler does to the queue and to the writes.
LEMMA WriteHandlerEffect ==
  ASSUME ChatInv, NEW c \in Conns, NEW i \in Writes(c), NEW late, WriteHandler(c, i, late)
  PROVE  /\ wr[c] # <<>> /\ wr[c][1].st = "done" /\ m_send_queue[c] # <<>>
         /\ Tail(m_send_queue[c]) \in Seq(Frames)
         /\ m_send_queue' = [m_send_queue EXCEPT ![c] = Tail(@)]
         /\ \/ Tail(m_send_queue[c]) = <<>> /\ wr' = [wr EXCEPT ![c] = <<>>]
            \/ /\ Tail(m_send_queue[c]) # <<>>
               /\ Write(c, Head(Tail(m_send_queue[c])), late) \in WriteOps
               /\ wr' = [wr EXCEPT ![c] =
                           Append(<<>>, Write(c, Head(Tail(m_send_queue[c])), late))]
<1> DEFINE rest == Tail(m_send_queue[c])
<1>1. i = 1 /\ wr[c] # <<>> /\ Without(wr[c], i) = <<>>
  BY ChatTypes, WithoutTheOne DEF Writes
<1>2. m_send_queue[c] # <<>> /\ m_send_queue[c] \in Seq(Frames)
  BY <1>1, ChatTypes
<1>3. rest \in Seq(Frames)
  BY <1>2
<1>4. rest # <<>> => Write(c, Head(rest), late) \in WriteOps
  <2>1. rest # <<>> => Head(rest) \in Frames
    BY <1>3, FirstElement
  <2>2. QED
    BY <2>1 DEF Write, WriteOps, OpStates
<1>5. QED
  BY <1>1, <1>2, <1>3, <1>4 DEF WriteHandler

\* A write begins with the frame it was given, or with a damaged one.
LEMMA WriteFacts ==
  ASSUME NEW c, NEW frame, NEW late
  PROVE  /\ Write(c, frame, late).frame \in {frame, Junk}
         /\ Write(c, frame, late).st \in {"waiting", "failed"}
BY DEF Write

\* What a broadcast does to a connection: it gets the frame, and a write if it
\* had none.
LEMMA BroadcastEffect ==
  ASSUME ChatInv, NEW frame \in Frames, NEW late, broadcast(frame, late), NEW d \in Conns
  PROVE  /\ m_send_queue' \in [Conns -> Seq(Frames)] /\ wr' \in [Conns -> Seq(WriteOps)]
         /\ d \notin Server!Mapped =>
               m_send_queue'[d] = m_send_queue[d] /\ wr'[d] = wr[d]
         /\ d \in Server!Mapped =>
               /\ m_send_queue'[d] = Append(m_send_queue[d], frame)
               /\ m_send_queue[d] # <<>> => wr'[d] = wr[d]
               /\ m_send_queue[d] = <<>> =>
                     /\ wr[d] = <<>> /\ wr'[d] = Append(<<>>, Write(d, frame, late))
                     /\ Len(wr'[d]) = 1 /\ wr'[d] # <<>>
                     /\ wr'[d][1] = Write(d, frame, late)
         /\ log' = Append(log, frame)
<1>1. \A e \in Conns : Write(e, frame, late) \in WriteOps
  BY DEF Write, WriteOps, OpStates
<1>2. \A e \in Conns : m_send_queue[e] \in Seq(Frames) /\ wr[e] \in Seq(WriteOps)
  BY ChatTypes
<1>3. \A e \in Conns : /\ Append(m_send_queue[e], frame) \in Seq(Frames)
                       /\ Append(wr[e], Write(e, frame, late)) \in Seq(WriteOps)
  BY <1>1, <1>2, AppendProperties
<1>4. m_send_queue' \in [Conns -> Seq(Frames)] /\ wr' \in [Conns -> Seq(WriteOps)]
  BY <1>2, <1>3 DEF broadcast
<1>5. m_send_queue[d] = <<>> => wr[d] = <<>>
  BY ChatTypes
<1>6. QED
  BY <1>1, <1>4, <1>5, Singleton DEF broadcast
-----------------------------------------------------------------------------
(***************************************************************************)
(* ChatInv is kept by every step.                                          *)
(***************************************************************************)
LEMMA InitChatInv == Init => ChatInv
<1> SUFFICES ASSUME Init PROVE ChatInv
  OBVIOUS
<1>1. <<>> \in Seq(WriteOps) /\ <<>> \in Seq(Frames) /\ <<>> \in Seq(Texts)
      /\ <<>> \in Seq(Frames \cup {Junk}) /\ Len(<<>>) = 0
  OBVIOUS
<1>2. 0 \in 0..MaxSays
  BY ChatAssumption
<1>3. TypeOK
  BY <1>1, <1>2 DEF Init, TypeOK, WriteOps
<1>4. WritingWhileQueued
  BY <1>1, <1>3 DEF Init, WritingWhileQueued
<1>5. NoIdIsSilent /\ ReadHasText
  BY DEF Init, NoIdIsSilent, ReadHasText, NoRead
<1>6. QED
  BY <1>4, <1>5 DEF ChatInv

\* Clients send, and reads complete, well or not.
LEMMA ReadingKeepsChatInv ==
  ASSUME ChatInv, NEW c \in Conns,
         \/ Say(c) \/ ReadCompletes(c) \/ ReadFails(c)
         \/ \E k \in 1..MaxJunk : ReadCutShort(c, k)
         \/ HeaderHandler(c)
  PROVE  ChatInv'
<1> USE DEF serverVars, loopVars, acceptVars, writeVars
<1>1. UNCHANGED <<m_id, is_open, wr, m_send_queue, log, joined, wire>>
  BY DEF Say, ReadCompletes, ReadFails, ReadCutShort, HeaderHandler
<1>2. rd[c] \in ReadOps /\ stream[c] \in Seq(Texts)
  BY ChatTypes
<1>3. /\ rd' \in [Conns -> ReadOps]
      /\ \A d \in Conns \ {c} : rd'[d] = rd[d]
      /\ rd'[c].st \in {"none", "failed"} \/ m_id[c] # -1 \/ rd' = rd
  <2>1. CASE Say(c)
    BY <2>1 DEF Say, ChatInv, WritingWhileQueued, TypeOK, ReadOps
  <2>2. CASE ReadCompletes(c) \/ ReadFails(c) \/ \E k \in 1..MaxJunk : ReadCutShort(c, k)
    <3>1. PICK s \in {"done", "failed"} : rd' = [rd EXCEPT ![c].st = s] /\ rd[c].st = "waiting"
      BY <2>2 DEF ReadCompletes, ReadFails, ReadCutShort, ReadState
    <3>2. rd[c] \in [op : {"header", "body"}, st : OpStates]
      BY <1>2, <3>1 DEF ReadOps, NoRead
    <3>3. [rd[c] EXCEPT !.st = s] \in ReadOps
      BY <3>2 DEF ReadOps, OpStates
    <3>4. m_id[c] # -1
      BY <3>1 DEF ChatInv, NoIdIsSilent
    <3>5. QED
      BY <3>1, <3>3, <3>4 DEF ChatInv, WritingWhileQueued, TypeOK, ReadOps
  <2>3. CASE HeaderHandler(c)
    <3>1. m_id[c] # -1
      BY <2>3 DEF HeaderHandler, ChatInv, NoIdIsSilent
    <3>2. [op |-> "body", st |-> "waiting"] \in ReadOps /\ NoRead \in ReadOps
      BY DEF ReadOps, OpStates
    <3>3. QED
      BY <2>3, <3>1, <3>2
      DEF HeaderHandler, StartRead, ChatInv, WritingWhileQueued, TypeOK, ReadOps
  <2>4. QED
    BY <2>1, <2>2, <2>3
<1>4. /\ stream' \in [Conns -> Seq(Texts)] /\ framed' \in [Conns -> BOOLEAN]
      /\ said' \in 0..MaxSays
      /\ \A d \in Conns : stream[d] # <<>> => stream'[d] # <<>>
  <2>1. CASE Say(c)
    <3>1. said + 1 \in 0..MaxSays /\ said + 1 \in Texts /\ Junk \in Texts
      <4>1. said < MaxSays /\ said \in 0..MaxSays
        BY <2>1 DEF Say, ChatInv, WritingWhileQueued, TypeOK
      <4>2. QED
        BY <4>1, ChatAssumption DEF Texts
    <3>2. \A x \in Texts : Append(stream[c], x) \in Seq(Texts) /\ Append(stream[c], x) # <<>>
      BY <1>2, AppendProperties
    <3>3. QED
      BY <2>1, <3>1, <3>2 DEF Say, ChatInv, WritingWhileQueued, TypeOK
  <2>2. ASSUME NEW k \in 1..MaxJunk, ReadCutShort(c, k)
        PROVE  /\ stream' \in [Conns -> Seq(Texts)] /\ framed' \in [Conns -> BOOLEAN]
               /\ said' \in 0..MaxSays
               /\ \A d \in Conns : stream[d] # <<>> => stream'[d] # <<>>
    <3> DEFINE junk == [i \in 1..k |-> Junk]
    <3>1. junk \in Seq(Texts) /\ junk # <<>>
      <4>1. k \in Nat /\ k # 0 /\ Junk \in Texts
        BY ChatAssumption DEF Texts
      <4>2. junk \in [1..k -> Texts]
        BY <4>1
      <4>3. junk \in Seq(Texts) /\ Len(junk) = k
        BY <4>1, <4>2
      <4>4. QED
        BY <4>1, <4>3
    <3>2. QED
      BY <2>2, <3>1 DEF ReadCutShort, ChatInv, WritingWhileQueued, TypeOK
  <2>3. CASE ReadCompletes(c) \/ ReadFails(c) \/ HeaderHandler(c)
    BY <2>3 DEF ReadCompletes, ReadFails, HeaderHandler, ChatInv, WritingWhileQueued, TypeOK
  <2>4. QED
    BY <2>1, <2>2, <2>3
<1>5. ReadHasText'
  <2>1. CASE Say(c)
    BY <1>4, <2>1 DEF Say, ChatInv, ReadHasText
  <2>2. CASE ReadCompletes(c) \/ \E k \in 1..MaxJunk : ReadCutShort(c, k)
    <3>1. stream[c] # <<>>
      BY <2>2 DEF ReadCompletes, ReadCutShort
    <3>2. QED
      BY <1>3, <1>4, <3>1 DEF ChatInv, ReadHasText
  <2>3. CASE ReadFails(c) \/ HeaderHandler(c)
    <3>1. rd'[c].st # "done"
      BY <2>3
      DEF ReadFails, ReadState, HeaderHandler, StartRead, NoRead, ChatInv,
          WritingWhileQueued, TypeOK
    <3>2. QED
      BY <1>3, <1>4, <3>1 DEF ChatInv, ReadHasText
  <2>4. QED
    BY <2>1, <2>2, <2>3
<1>6. TypeOK'
  BY <1>1, <1>3, <1>4 DEF ChatInv, WritingWhileQueued, TypeOK, ReadOps
<1>7. WritingWhileQueued'
  BY <1>1, <1>6 DEF ChatInv, WritingWhileQueued
<1>8. NoIdIsSilent'
  BY <1>1, <1>3 DEF ChatInv, NoIdIsSilent
<1>9. QED
  BY <1>5, <1>7, <1>8 DEF ChatInv

\* The only write of a connection completes.
LEMMA SetState ==
  ASSUME NEW ws \in Seq(WriteOps), Len(ws) <= 1, NEW i \in DOMAIN ws, NEW s \in OpStates
  PROVE  LET new == [ws EXCEPT ![i].st = s] IN
         /\ i = 1 /\ ws # <<>> /\ new \in Seq(WriteOps) /\ Len(new) = Len(ws) /\ new # <<>>
         /\ new[1].frame = ws[1].frame /\ new[1].st = s
<1> DEFINE new == [ws EXCEPT ![i].st = s]
<1>1. i = 1 /\ ws # <<>>
  BY WithoutTheOne
<1>2. ws[1] \in WriteOps /\ 1 \in DOMAIN ws
  BY <1>1, FirstElement
<1>3. [ws[1] EXCEPT !.st = s] \in WriteOps
  BY <1>2 DEF WriteOps
<1>4. new = [ws EXCEPT ![1] = [ws[1] EXCEPT !.st = s]]
  BY <1>1
<1>5. new \in Seq(WriteOps) /\ Len(new) = Len(ws)
  BY <1>2, <1>3, <1>4
<1>6. new[1] = [ws[1] EXCEPT !.st = s]
  BY <1>2, <1>4
<1>7. new[1].frame = ws[1].frame /\ new[1].st = s
  BY <1>2, <1>6 DEF WriteOps
<1>8. new # <<>>
  BY <1>1, <1>5, EmptySeq
<1>9. QED
  BY <1>1, <1>5, <1>7, <1>8

LEMMA WriteCompletionEffect ==
  ASSUME ChatInv, NEW c \in Conns, NEW i \in Writes(c),
         WriteCompletes(c, i) \/ WriteFails(c, i)
  PROVE  /\ wr[c] # <<>> /\ wr[c][1].st = "waiting"
         /\ wr' \in [Conns -> Seq(WriteOps)]
         /\ \A d \in Conns \ {c} : wr'[d] = wr[d]
         /\ Len(wr'[c]) = Len(wr[c]) /\ wr'[c] # <<>>
         /\ wr'[c][1].frame = wr[c][1].frame
         /\ WriteFails(c, i) => wr'[c][1].st = "failed" /\ wire' = wire
         /\ WriteCompletes(c, i) => /\ wr'[c][1].st = "done"
                                    /\ wire' = [wire EXCEPT ![c] = Append(@, wr[c][1].frame)]
<1>1. wr[c] \in Seq(WriteOps) /\ Len(wr[c]) <= 1 /\ i \in DOMAIN wr[c]
  BY ChatTypes DEF Writes
<1>2. wr \in [Conns -> Seq(WriteOps)]
  BY DEF ChatInv, WritingWhileQueued, TypeOK, WriteOps
<1>3. ASSUME NEW s \in OpStates, wr' = [wr EXCEPT ![c][i].st = s]
      PROVE  /\ i = 1 /\ wr[c] # <<>>
             /\ wr' \in [Conns -> Seq(WriteOps)]
             /\ \A d \in Conns \ {c} : wr'[d] = wr[d]
             /\ Len(wr'[c]) = Len(wr[c]) /\ wr'[c] # <<>>
             /\ wr'[c][1].frame = wr[c][1].frame /\ wr'[c][1].st = s
  <2> DEFINE new == [wr[c] EXCEPT ![i].st = s]
  <2>1. /\ i = 1 /\ wr[c] # <<>> /\ new \in Seq(WriteOps) /\ Len(new) = Len(wr[c])
        /\ new # <<>> /\ new[1].frame = wr[c][1].frame /\ new[1].st = s
    BY <1>1, SetState
  <2>2. wr' = [wr EXCEPT ![c] = new]
    BY <1>3
  <2> HIDE DEF new
  <2>3. wr'[c] = new /\ wr' \in [Conns -> Seq(WriteOps)] /\ \A d \in Conns \ {c} : wr'[d] = wr[d]
    BY <1>2, <2>1, <2>2
  <2>4. QED
    BY <2>1, <2>3
<1>4. "done" \in OpStates /\ "failed" \in OpStates
  BY DEF OpStates
<1>5. CASE WriteCompletes(c, i)
  <2>1. wr' = [wr EXCEPT ![c][i].st = "done"] /\ wr[c][i].st = "waiting"
        /\ wire' = [wire EXCEPT ![c] = Append(@, wr[c][i].frame)]
    BY <1>5 DEF WriteCompletes
  <2>2. ~WriteFails(c, i)
    <3>1. wr'[c][1].st = "done"
      BY <1>3, <1>4, <2>1
    <3>2. WriteFails(c, i) => wr'[c][1].st = "failed"
      BY <1>3, <1>4 DEF WriteFails
    <3>3. QED
      BY <3>1, <3>2
  <2>3. QED
    BY <1>3, <1>4, <2>1, <2>2
<1>6. CASE ~WriteCompletes(c, i)
  <2>1. /\ wr' = [wr EXCEPT ![c][i].st = "failed"] /\ wr[c][i].st = "waiting" /\ wire' = wire
    BY <1>6 DEF WriteFails
  <2>2. QED
    BY <1>3, <1>4, <1>6, <2>1
<1>7. QED
  BY <1>5, <1>6

\* Both error handlers: the socket is closed, the failed operation is gone,
\* and what waited has failed.
LEMMA ErrorEffect ==
  ASSUME ChatInv, NEW c \in Conns,
         ReadErrorHandler(c) \/ \E i \in Writes(c) : WriteErrorHandler(c, i)
  PROVE  /\ rd' \in [Conns -> ReadOps] /\ \A d \in Conns \ {c} : rd'[d] = rd[d]
         /\ rd'[c].st = "done" => rd[c].st = "done"
         /\ rd'[c].st = "waiting" => ~is_open[c] /\ rd[c].st = "waiting"
         /\ wr' \in [Conns -> Seq(WriteOps)] /\ \A d \in Conns \ {c} : wr'[d] = wr[d]
         /\ wr'[c] = <<>> \/ /\ wr[c] # <<>> /\ Len(wr'[c]) = Len(wr[c])
                             /\ wr'[c][1].frame = wr[c][1].frame
                             /\ wr'[c][1].st = IF is_open[c] /\ wr[c][1].st = "waiting"
                                               THEN "failed" ELSE wr[c][1].st
         /\ \/ rd[c].st = "failed" /\ rd'[c].st = "none" /\ (wr'[c] = <<>> <=> wr[c] = <<>>)
            \/ /\ wr[c] # <<>> /\ wr[c][1].st = "failed" /\ wr'[c] = <<>>
               /\ rd'[c].st = IF is_open[c] /\ rd[c].st = "waiting" THEN "failed" ELSE rd[c].st
         /\ is_open' = [is_open EXCEPT ![c] = FALSE]
         /\ UNCHANGED <<stream, framed, said, m_send_queue, log, joined, wire>>
<1>1. rd[c] \in ReadOps /\ wr[c] \in Seq(WriteOps) /\ Len(wr[c]) <= 1
      /\ (wr[c] # <<>> => 1 \in DOMAIN wr[c])
  BY ChatTypes, FirstElement
<1>2. wr \in [Conns -> Seq(WriteOps)] /\ rd \in [Conns -> ReadOps]
  BY DEF ChatInv, WritingWhileQueued, TypeOK, WriteOps, ReadOps
<1>3. CASE ReadErrorHandler(c)
  <2>1. /\ rd' = [rd EXCEPT ![c] = NoRead]
        /\ wr' = [wr EXCEPT ![c] = IF is_open[c] THEN AbortAll(wr[c]) ELSE wr[c]]
        /\ is_open' = [is_open EXCEPT ![c] = FALSE]
        /\ UNCHANGED <<stream, framed, said, m_send_queue, log, joined, wire>>
    BY <1>2, <1>3 DEF ReadErrorHandler
  <2>2. /\ rd' \in [Conns -> ReadOps] /\ \A d \in Conns \ {c} : rd'[d] = rd[d]
        /\ rd'[c].st = "none" /\ rd[c].st = "failed"
    BY <1>2, <1>3, <2>1 DEF ReadErrorHandler, ReadOps, NoRead
  <2>3. /\ AbortAll(wr[c]) \in Seq(WriteOps) /\ Len(AbortAll(wr[c])) = Len(wr[c])
        /\ AbortAll(wr[c]) = <<>> <=> wr[c] = <<>>
        /\ wr[c] # <<>> =>
              /\ AbortAll(wr[c])[1].frame = wr[c][1].frame
              /\ AbortAll(wr[c])[1].st = IF wr[c][1].st = "waiting" THEN "failed" ELSE wr[c][1].st
    BY <1>1, AbortAllFacts
  <2>4. /\ wr' \in [Conns -> Seq(WriteOps)] /\ \A d \in Conns \ {c} : wr'[d] = wr[d]
        /\ wr'[c] = IF is_open[c] THEN AbortAll(wr[c]) ELSE wr[c]
    BY <1>1, <1>2, <2>1, <2>3
  <2>5. QED
    BY <2>1, <2>2, <2>3, <2>4
<1>4. ASSUME NEW i \in Writes(c), WriteErrorHandler(c, i)
      PROVE  /\ rd' \in [Conns -> ReadOps] /\ \A d \in Conns \ {c} : rd'[d] = rd[d]
             /\ rd'[c].st = "done" => rd[c].st = "done"
             /\ rd'[c].st = "waiting" => ~is_open[c] /\ rd[c].st = "waiting"
             /\ wr' \in [Conns -> Seq(WriteOps)] /\ \A d \in Conns \ {c} : wr'[d] = wr[d]
             /\ wr'[c] = <<>> /\ wr[c] # <<>> /\ wr[c][1].st = "failed"
             /\ rd'[c].st = IF is_open[c] /\ rd[c].st = "waiting" THEN "failed" ELSE rd[c].st
             /\ is_open' = [is_open EXCEPT ![c] = FALSE]
             /\ UNCHANGED <<stream, framed, said, m_send_queue, log, joined, wire>>
  <2>1. i = 1 /\ wr[c] # <<>> /\ Without(wr[c], i) = <<>>
    BY <1>1, WithoutTheOne DEF Writes
  <2>2. <<>> \in Seq(WriteOps) /\ AbortAll(<<>>) = <<>>
    BY AbortAllFacts, <<>> \in Seq(WriteOps)
  <2>3. /\ wr' = [wr EXCEPT ![c] = <<>>]
        /\ rd' = [rd EXCEPT ![c] = IF is_open[c] THEN Abort(rd[c]) ELSE rd[c]]
        /\ wr[c][1].st = "failed"
        /\ is_open' = [is_open EXCEPT ![c] = FALSE]
        /\ UNCHANGED <<stream, framed, said, m_send_queue, log, joined, wire>>
    BY <1>2, <1>4, <2>1, <2>2 DEF WriteErrorHandler
  <2>4. /\ Abort(rd[c]) \in ReadOps
        /\ Abort(rd[c]).st = IF rd[c].st = "waiting" THEN "failed" ELSE rd[c].st
    BY <1>1 DEF ReadOps, NoRead, OpStates, Abort
  <2>5. /\ rd' \in [Conns -> ReadOps] /\ \A d \in Conns \ {c} : rd'[d] = rd[d]
        /\ rd'[c] = IF is_open[c] THEN Abort(rd[c]) ELSE rd[c]
    BY <1>2, <2>3, <2>4
  <2>6. wr' \in [Conns -> Seq(WriteOps)] /\ wr'[c] = <<>> /\ \A d \in Conns \ {c} : wr'[d] = wr[d]
    BY <1>2, <2>2, <2>3
  <2>7. QED
    BY <2>1, <2>3, <2>4, <2>5, <2>6
<1>5. QED
  BY <1>3, <1>4

\* Writes complete, go on to the next frame, or fail.
LEMMA WritingKeepsChatInv ==
  ASSUME ChatInv, NEW c \in Conns, NEW i \in Writes(c),
         \/ WriteCompletes(c, i) \/ WriteFails(c, i)
         \/ \E late \in SUBSET {c} : WriteHandler(c, i, late)
  PROVE  ChatInv'
<1> USE DEF serverVars, loopVars, acceptVars, readVars
<1>1. UNCHANGED <<m_id, is_open, rd, stream, framed, said, log, joined>>
  BY DEF WriteCompletes, WriteFails, WriteHandler
<1>2. wr[c] # <<>> /\ wr[c] \in Seq(WriteOps) /\ m_send_queue[c] # <<>> /\ m_id[c] # -1
  <2>1. wr[c] # <<>>
    BY ChatTypes, WithoutTheOne DEF Writes
  <2>2. QED
    BY <2>1, ChatTypes DEF ChatInv, NoIdIsSilent
<1>3. CASE WriteCompletes(c, i) \/ WriteFails(c, i)
  <2>1. UNCHANGED m_send_queue
    BY <1>3 DEF WriteCompletes, WriteFails
  <2>2. wire' \in [Conns -> Seq(Frames \cup {Junk})] /\ \A d \in Conns \ {c} : wire'[d] = wire[d]
    <3>1. wire \in [Conns -> Seq(Frames \cup {Junk})] /\ wr[c][1].frame \in Frames \cup {Junk}
      BY <1>2, ChatTypes DEF ChatInv, WritingWhileQueued, TypeOK, WriteOps
    <3>2. Append(wire[c], wr[c][1].frame) \in Seq(Frames \cup {Junk})
      BY <3>1, AppendProperties
    <3>3. wire' = wire \/ wire' = [wire EXCEPT ![c] = Append(@, wr[c][1].frame)]
      BY <1>3, WriteCompletionEffect
    <3>4. QED
      BY <3>1, <3>2, <3>3
  <2>3. /\ wr' \in [Conns -> Seq(WriteOps)]
        /\ \A d \in Conns \ {c} : wr'[d] = wr[d]
        /\ Len(wr'[c]) = Len(wr[c]) /\ wr'[c] # <<>>
    BY <1>3, WriteCompletionEffect
  <2>4. TypeOK'
    BY <1>1, <2>1, <2>2, <2>3 DEF ChatInv, WritingWhileQueued, TypeOK, WriteOps
  <2>5. WritingWhileQueued'
    BY <1>1, <1>2, <2>1, <2>3, <2>4 DEF ChatInv, WritingWhileQueued
  <2>6. NoIdIsSilent' /\ ReadHasText'
    BY <1>1, <1>2, <2>1, <2>2, <2>3 DEF ChatInv, NoIdIsSilent, ReadHasText
  <2>7. QED
    BY <2>5, <2>6 DEF ChatInv
<1>4. ASSUME NEW late, WriteHandler(c, i, late)
      PROVE  ChatInv'
  <2> DEFINE rest == Tail(m_send_queue[c])
             new == Write(c, Head(rest), late)
  <2>1. /\ rest \in Seq(Frames)
        /\ m_send_queue' = [m_send_queue EXCEPT ![c] = rest]
        /\ \/ rest = <<>> /\ wr' = [wr EXCEPT ![c] = <<>>]
           \/ /\ rest # <<>> /\ new \in WriteOps
              /\ wr' = [wr EXCEPT ![c] = Append(<<>>, new)]
    <3>1. m_send_queue \in [Conns -> Seq(Frames)]
      BY DEF ChatInv, WritingWhileQueued, TypeOK
    <3>2. QED
      BY <1>4, <3>1, WriteHandlerEffect
  <2> HIDE DEF rest, new
  <2>2. <<>> \in Seq(WriteOps) /\ Len(<<>>) = 0
    OBVIOUS
  <2>3. /\ m_send_queue' \in [Conns -> Seq(Frames)] /\ m_send_queue'[c] = rest
        /\ \A d \in Conns \ {c} : m_send_queue'[d] = m_send_queue[d]
    BY <2>1 DEF ChatInv, WritingWhileQueued, TypeOK
  <2>4. wr \in [Conns -> Seq(WriteOps)]
    BY DEF ChatInv, WritingWhileQueued, TypeOK, WriteOps
  <2>5. /\ wr' \in [Conns -> Seq(WriteOps)] /\ Len(wr'[c]) <= 1
        /\ wr'[c] = <<>> <=> rest = <<>>
        /\ \A d \in Conns \ {c} : wr'[d] = wr[d]
    <3>1. CASE rest = <<>> /\ wr' = [wr EXCEPT ![c] = <<>>]
      BY <2>2, <2>4, <3>1
    <3>2. CASE rest # <<>> /\ new \in WriteOps /\ wr' = [wr EXCEPT ![c] = Append(<<>>, new)]
      <4>1. Append(<<>>, new) \in Seq(WriteOps) /\ Len(Append(<<>>, new)) = 1
            /\ Append(<<>>, new) # <<>>
        BY <3>2, Singleton
      <4>2. QED
        BY <2>4, <3>2, <4>1
    <3>3. QED
      BY <2>1, <3>1, <3>2
  <2>6. wire' = wire
    BY <1>4 DEF WriteHandler
  <2>7. TypeOK'
    BY <1>1, <2>3, <2>5, <2>6 DEF ChatInv, WritingWhileQueued, TypeOK, WriteOps
  <2>8. WritingWhileQueued'
    BY <1>1, <2>3, <2>5, <2>7 DEF ChatInv, WritingWhileQueued
  <2>9. NoIdIsSilent' /\ ReadHasText'
    BY <1>1, <1>2, <2>3, <2>5, <2>6 DEF ChatInv, NoIdIsSilent, ReadHasText
  <2>10. QED
    BY <2>8, <2>9 DEF ChatInv
<1>5. QED
  BY <1>3, <1>4

\* An operation failed.
LEMMA ErrorKeepsChatInv ==
  ASSUME ChatInv, ServerFacts, NEW c \in Conns,
         ReadErrorHandler(c) \/ \E i \in Writes(c) : WriteErrorHandler(c, i)
  PROVE  ChatInv'
<1>1. UNCHANGED m_id
  BY DEF ReadErrorHandler, WriteErrorHandler, serverVars
<1>2. /\ rd' \in [Conns -> ReadOps] /\ \A d \in Conns \ {c} : rd'[d] = rd[d]
      /\ rd'[c].st = "done" => rd[c].st = "done"
      /\ rd'[c].st = "waiting" => rd[c].st = "waiting"
      /\ wr' \in [Conns -> Seq(WriteOps)] /\ \A d \in Conns \ {c} : wr'[d] = wr[d]
      /\ wr'[c] = <<>> \/ (wr[c] # <<>> /\ Len(wr'[c]) = Len(wr[c]))
      /\ is_open' = [is_open EXCEPT ![c] = FALSE]
      /\ UNCHANGED <<stream, framed, said, m_send_queue, log, joined, wire>>
  BY ErrorEffect
<1>3. ~is_open'[c] /\ \A d \in Conns \ {c} : is_open'[d] = is_open[d]
  BY <1>2 DEF ServerFacts
<1>4. Len(<<>>) = 0
  OBVIOUS
<1>5. TypeOK'
  BY <1>2 DEF ChatInv, WritingWhileQueued, TypeOK, WriteOps, ReadOps
<1>6. WritingWhileQueued'
  BY <1>2, <1>3, <1>4, <1>5 DEF ChatInv, WritingWhileQueued
<1>7. rd'[c].st \in {"none", "failed", "done", "waiting"}
  <2>1. rd'[c] \in ReadOps
    BY <1>2
  <2>2. QED
    BY <2>1 DEF ReadOps, NoRead, OpStates
<1>8. NoIdIsSilent'
  BY <1>1, <1>2, <1>7 DEF ChatInv, NoIdIsSilent
<1>9. ReadHasText'
  BY <1>2 DEF ChatInv, ReadHasText
<1>10. QED
  BY <1>6, <1>8, <1>9 DEF ChatInv

\* A message is read and broadcast.
LEMMA BodyEffect ==
  ASSUME ChatInv, ServerFacts, NEW c \in Conns, NEW late, BodyHandler(c, late)
  PROVE  /\ c \in Server!Mapped /\ m_id[c] # -1
         /\ stream[c] # <<>> /\ Head(stream[c]) = stream[c][1] /\ stream[c][1] \in Texts
         /\ Guest(c, stream[c][1]) \in Frames
         /\ broadcast(Guest(c, stream[c][1]), late)
         /\ Tail(stream[c]) \in Seq(Texts)
         /\ stream' = [stream EXCEPT ![c] = Tail(@)]
         /\ rd[c] = [op |-> "body", st |-> "done"]
         /\ rd' = [rd EXCEPT ![c] = IF is_open[c] THEN [op |-> "header", st |-> "waiting"]
                                                  ELSE NoRead]
<1>1. rd[c] = [op |-> "body", st |-> "done"]
  BY DEF BodyHandler
<1>2. m_id[c] # -1
  BY <1>1 DEF ChatInv, NoIdIsSilent
<1>3. c \in Server!Mapped /\ m_id[c] \in Server!Ids
  BY <1>1, <1>2 DEF ServerFacts
<1>4. stream[c] # <<>> /\ stream[c] \in Seq(Texts)
  BY <1>1, ChatTypes DEF ChatInv, ReadHasText
<1>5. Head(stream[c]) = stream[c][1] /\ stream[c][1] \in Texts /\ Tail(stream[c]) \in Seq(Texts)
  BY <1>4, FirstElement
<1>6. Guest(c, stream[c][1]) \in Frames
  BY <1>3, <1>5 DEF Guest, Frames
<1>7. QED
  BY <1>1, <1>2, <1>3, <1>4, <1>5, <1>6 DEF BodyHandler, StartRead

LEMMA BodyKeepsChatInv ==
  ASSUME ChatInv, ServerFacts, NEW c \in Conns, NEW late, BodyHandler(c, late)
  PROVE  ChatInv'
<1> DEFINE frame == Guest(c, stream[c][1])
<1>1. /\ c \in Server!Mapped /\ m_id[c] # -1
      /\ frame \in Frames /\ broadcast(frame, late)
      /\ Tail(stream[c]) \in Seq(Texts)
      /\ stream' = [stream EXCEPT ![c] = Tail(@)]
      /\ rd' = [rd EXCEPT ![c] = IF is_open[c] THEN [op |-> "header", st |-> "waiting"]
                                               ELSE NoRead]
  BY BodyEffect
<1>2. UNCHANGED <<m_id, is_open, framed, said, joined, wire>>
  BY DEF BodyHandler, serverVars
<1> HIDE DEF frame
<1>3. /\ rd' \in [Conns -> ReadOps] /\ rd'[c].st \in {"waiting", "none"}
      /\ \A d \in Conns \ {c} : rd'[d] = rd[d]
  <2>1. [op |-> "header", st |-> "waiting"] \in ReadOps /\ NoRead \in ReadOps
    BY DEF ReadOps, OpStates
  <2>2. QED
    BY <1>1, <2>1 DEF ChatInv, WritingWhileQueued, TypeOK, ReadOps, NoRead
<1>4. stream' \in [Conns -> Seq(Texts)] /\ \A d \in Conns \ {c} : stream'[d] = stream[d]
  BY <1>1 DEF ChatInv, WritingWhileQueued, TypeOK
<1>5. log' \in Seq(Frames)
  <2>1. log \in Seq(Frames) /\ log' = Append(log, frame)
    BY <1>1 DEF broadcast, ChatInv, WritingWhileQueued, TypeOK
  <2>2. QED
    BY <1>1, <2>1, AppendProperties
<1>6. m_send_queue' \in [Conns -> Seq(Frames)] /\ wr' \in [Conns -> Seq(WriteOps)]
  BY <1>1, BroadcastEffect
<1>7. TypeOK'
  BY <1>2, <1>3, <1>4, <1>5, <1>6 DEF ChatInv, WritingWhileQueued, TypeOK, WriteOps, ReadOps
<1>8. ASSUME NEW d \in Conns
      PROVE  /\ Len(wr'[d]) <= 1
             /\ wr'[d] # <<>> => m_send_queue'[d] # <<>>
             /\ is_open[d] /\ m_send_queue'[d] # <<>> => wr'[d] # <<>>
  <2>1. /\ Len(wr[d]) <= 1
        /\ wr[d] # <<>> => m_send_queue[d] # <<>>
        /\ is_open[d] /\ m_send_queue[d] # <<>> => wr[d] # <<>>
    BY DEF ChatInv, WritingWhileQueued
  <2>2. CASE d \notin Server!Mapped
    <3>1. m_send_queue'[d] = m_send_queue[d] /\ wr'[d] = wr[d]
      BY <1>1, <2>2, BroadcastEffect
    <3>2. QED
      BY <2>1, <3>1
  <2>3. CASE d \in Server!Mapped
    <3>1. /\ m_send_queue'[d] = Append(m_send_queue[d], frame)
          /\ m_send_queue[d] # <<>> => wr'[d] = wr[d]
          /\ m_send_queue[d] = <<>> => Len(wr'[d]) = 1 /\ wr'[d] # <<>>
      BY <1>1, <2>3, BroadcastEffect
    <3>2. m_send_queue[d] \in Seq(Frames)
      BY ChatTypes
    <3>3. m_send_queue'[d] # <<>>
      BY <1>1, <3>1, <3>2, AppendProperties
    <3>4. CASE m_send_queue[d] = <<>>
      <4>1. Len(wr'[d]) = 1 /\ wr'[d] # <<>>
        BY <3>1, <3>4
      <4>2. Len(wr'[d]) <= 1
        BY <4>1
      <4>3. QED
        BY <3>3, <4>1, <4>2
    <3>5. CASE m_send_queue[d] # <<>>
      BY <2>1, <3>1, <3>3, <3>5
    <3>6. QED
      BY <3>4, <3>5
  <2>4. QED
    BY <2>2, <2>3
<1>9. WritingWhileQueued'
  BY <1>2, <1>7, <1>8 DEF WritingWhileQueued
<1>10. NoIdIsSilent'
  <2>1. \A d \in Conns : m_id[d] = -1 => m_send_queue'[d] = m_send_queue[d] /\ wr'[d] = wr[d]
    BY <1>1, BroadcastEffect DEF ServerFacts
  <2>2. QED
    BY <1>1, <1>2, <1>3, <2>1 DEF ChatInv, NoIdIsSilent
<1>11. ReadHasText'
  BY <1>3, <1>4 DEF ChatInv, ReadHasText
<1>12. QED
  BY <1>9, <1>10, <1>11 DEF ChatInv

\* A connection is accepted: it gets a free id and an open socket, or neither.
LEMMA AcceptEffect ==
  ASSUME ChatInv, ServerFacts, NEW new \in Conns, AcceptHandler(new)
  PROVE  /\ accepting \in Conns /\ m_id[accepting] = -1 /\ new # accepting
         /\ accepting \notin Server!Mapped /\ object[new] = "unborn"
         /\ accepting' = new /\ accepted' = "pending"
         /\ \A c \in Conns \ {accepting} :
               m_id'[c] = m_id[c] /\ is_open'[c] = is_open[c] /\ rd'[c] = rd[c]
         /\ m_id' \in [Conns -> Server!Ids \cup {-1}]
         /\ rd' \in [Conns -> ReadOps]
         /\ joined' = [joined EXCEPT ![accepting] = Len(log)]
         /\ UNCHANGED <<stream, framed, said, wr, m_send_queue, log, wire>>
         /\ \/ /\ m_tcp_conn_map[m_next_conn_id] = NoConn
               /\ m_id'[accepting] = m_next_conn_id /\ rd'[accepting].st = "waiting"
               /\ m_tcp_conn_map' = [m_tcp_conn_map EXCEPT ![m_next_conn_id] = accepting]
            \/ /\ m_id'[accepting] = -1 /\ rd'[accepting].st = "failed"
               /\ UNCHANGED m_tcp_conn_map /\ ~is_open'[accepting]
         /\ \A c \in Conns : object'[c] = "unborn" => object[c] = "unborn"
<1> DEFINE kept == m_tcp_conn_map[m_next_conn_id] = NoConn
<1>1. /\ accepted = "ok" /\ object[new] = "unborn"
      /\ rd' = [rd EXCEPT ![accepting] =
                  [op |-> "header", st |-> IF kept THEN "waiting" ELSE "failed"]]
      /\ joined' = [joined EXCEPT ![accepting] = Len(log)]
      /\ UNCHANGED <<stream, framed, said, wr, m_send_queue, log, wire>>
      /\ accepting' = new /\ accepted' = "pending"
      /\ is_open' = [is_open EXCEPT ![accepting] = kept]
  BY DEF AcceptHandler, Server!AcceptHandler
<1>2. /\ accepting \in Conns /\ m_id[accepting] = -1 /\ new # accepting
      /\ accepting \notin Server!Mapped
  BY <1>1 DEF ServerFacts
<1>3. /\ rd' \in [Conns -> ReadOps] /\ rd'[accepting].st = IF kept THEN "waiting" ELSE "failed"
      /\ \A c \in Conns \ {accepting} : rd'[c] = rd[c]
  <2>1. \A s \in OpStates : [op |-> "header", st |-> s] \in ReadOps
    BY DEF ReadOps
  <2>2. QED
    BY <1>1, <1>2, <2>1 DEF ChatInv, WritingWhileQueued, TypeOK, ReadOps, OpStates
<1>4. /\ kept => /\ m_id' = [m_id EXCEPT ![accepting] = m_next_conn_id]
                 /\ m_tcp_conn_map' = [m_tcp_conn_map EXCEPT ![m_next_conn_id] = accepting]
      /\ ~kept => UNCHANGED <<m_id, m_tcp_conn_map>>
  BY DEF AcceptHandler, Server!AcceptHandler, Server!add_conn
<1>5. \A c \in Conns : object'[c] = "unborn" => object[c] = "unborn"
  <2>1. PICK S : object' = [Server!Destroy(S) EXCEPT ![new] = "alive"]
    BY DEF AcceptHandler, Server!AcceptHandler
  <2>2. QED
    BY <2>1 DEF Server!Destroy
<1>6. /\ \A c \in Conns \ {accepting} : m_id'[c] = m_id[c] /\ is_open'[c] = is_open[c]
      /\ m_id' \in [Conns -> Server!Ids \cup {-1}]
      /\ is_open'[accepting] = kept
      /\ m_id'[accepting] = IF kept THEN m_next_conn_id ELSE -1
  BY <1>1, <1>2, <1>4 DEF ServerFacts
<1>7. QED
  BY <1>1, <1>2, <1>3, <1>4, <1>5, <1>6

\* The server's other steps: an accept completes or fails, and the loop.
LEMMA ServerEffect ==
  ASSUME ServerFacts, Accepting \/ Looping
  PROVE  /\ UNCHANGED <<rd, stream, framed, said, wr, m_send_queue, log, joined, wire, m_id>>
         /\ \A c \in Conns : is_open'[c] = is_open[c] \/ c = accepting
         /\ \/ UNCHANGED m_tcp_conn_map
            \/ /\ loop = "remove" /\ UNCHANGED <<accepting, accepted>>
               /\ m_tcp_conn_map' = [id \in Server!Ids |-> IF \E c \in invalid : m_id[c] = id
                                                            THEN NoConn ELSE m_tcp_conn_map[id]]
         /\ accepting' = accepting \/ accepting' = NoConn
         /\ accepted' = "ok" => (accepted = "ok" \/ accepting # NoConn)
         /\ \A c \in Conns : object'[c] = "unborn" => object[c] = "unborn"
         /\ accepted = "ok" /\ accepting' # NoConn => accepted' = "ok"
<1> USE DEF readVars, writeVars
<1>1. CASE Accepting
  <2>1. UNCHANGED <<rd, stream, framed, said, wr, m_send_queue, log, joined, wire>>
    BY <1>1 DEF Accepting
  <2>2. ASSUME NEW result \in {"ok", "error"}, Server!AcceptCompletes(result)
        PROVE  /\ UNCHANGED <<m_id, m_tcp_conn_map, accepting, object>>
               /\ \A c \in Conns : is_open'[c] = is_open[c] \/ c = accepting
               /\ accepting # NoConn /\ accepted = "pending"
    BY <2>2 DEF Server!AcceptCompletes, Server!serverVars, ServerFacts
  <2>3. CASE Server!AcceptFailedHandler
    BY <2>1, <2>3 DEF Server!AcceptFailedHandler, Server!Destroy, Server!loopVars, ServerFacts
  <2>4. QED
    BY <1>1, <2>1, <2>2, <2>3 DEF Accepting
<1>2. CASE Looping
  <2>1. UNCHANGED <<rd, stream, framed, said, wr, m_send_queue, log, joined, wire>>
    BY <1>2 DEF Looping
  <2>2. CASE Server!EndPoll \/ Server!EndScan \/ \E id \in it : Server!Scan(id)
    BY <2>1, <2>2
    DEF Server!EndPoll, Server!EndScan, Server!Scan, Server!serverVars, Server!acceptVars,
        ServerFacts
  <2>3. CASE Server!RemoveInvalid
    BY <2>1, <2>3
    DEF Server!RemoveInvalid, Server!Destroy, Server!acceptVars, ServerFacts
  <2>4. QED
    BY <1>2, <2>2, <2>3 DEF Looping, Server!LoopStep
<1>3. QED
  BY <1>1, <1>2

LEMMA ServerKeepsChatInv ==
  ASSUME ChatInv, ServerFacts,
         (\E new \in Conns : AcceptHandler(new)) \/ Accepting \/ Looping
  PROVE  ChatInv'
<1>1. ASSUME NEW new \in Conns, AcceptHandler(new)
      PROVE  ChatInv'
  <2>1. /\ accepting \in Conns /\ m_id[accepting] = -1
        /\ \A c \in Conns \ {accepting} :
              m_id'[c] = m_id[c] /\ is_open'[c] = is_open[c] /\ rd'[c] = rd[c]
        /\ rd' \in [Conns -> ReadOps]
        /\ joined' = [joined EXCEPT ![accepting] = Len(log)]
        /\ UNCHANGED <<stream, framed, said, wr, m_send_queue, log, wire>>
        /\ \/ m_id'[accepting] # -1 /\ rd'[accepting].st = "waiting"
           \/ rd'[accepting].st = "failed"
    BY <1>1, AcceptEffect DEF ServerFacts, Server!Ids
  <2>2. m_send_queue[accepting] = <<>> /\ wr[accepting] = <<>> /\ wire[accepting] = <<>>
    BY <2>1 DEF ChatInv, NoIdIsSilent
  <2>3. joined' \in [Conns -> Nat]
    <3>1. Len(log) \in Nat
      BY DEF ChatInv, WritingWhileQueued, TypeOK
    <3>2. QED
      BY <2>1, <3>1 DEF ChatInv, WritingWhileQueued, TypeOK
  <2>4. TypeOK'
    BY <2>1, <2>3 DEF ChatInv, WritingWhileQueued, TypeOK, ReadOps
  <2>5. WritingWhileQueued'
    BY <2>1, <2>2, <2>4 DEF ChatInv, WritingWhileQueued
  <2>6. NoIdIsSilent' /\ ReadHasText'
    BY <2>1, <2>2 DEF ChatInv, NoIdIsSilent, ReadHasText
  <2>7. QED
    BY <2>5, <2>6 DEF ChatInv
<1>2. CASE Accepting \/ Looping
  <2>1. /\ UNCHANGED <<rd, stream, framed, said, wr, m_send_queue, log, joined, wire, m_id>>
        /\ \A c \in Conns : is_open'[c] = is_open[c] \/ c = accepting
    BY <1>2, ServerEffect
  <2>2. \A c \in Conns : c = accepting => m_send_queue[c] = <<>>
    BY ChatAssumption DEF ServerFacts, ChatInv, NoIdIsSilent
  <2>3. TypeOK'
    BY <2>1 DEF ChatInv, WritingWhileQueued, TypeOK
  <2>4. WritingWhileQueued'
    BY <2>1, <2>2, <2>3 DEF ChatInv, WritingWhileQueued
  <2>5. NoIdIsSilent' /\ ReadHasText'
    BY <2>1 DEF ChatInv, NoIdIsSilent, ReadHasText
  <2>6. QED
    BY <2>4, <2>5 DEF ChatInv
<1>3. QED
  BY <1>1, <1>2

\* Every step keeps ChatInv.
LEMMA NextChatInv ==
  ASSUME ChatInv, ServerFacts, [Next]_vars
  PROVE  ChatInv'
<1>1. CASE UNCHANGED vars
  BY <1>1
  DEF vars, serverVars, readVars, writeVars, ChatInv, WritingWhileQueued, TypeOK,
      NoIdIsSilent, ReadHasText
<1>2. CASE Network
  BY <1>2, ReadingKeepsChatInv, WritingKeepsChatInv DEF Network
<1>3. CASE ReadHandlers
  BY <1>3, ReadingKeepsChatInv, ErrorKeepsChatInv, BodyKeepsChatInv DEF ReadHandlers
<1>4. ASSUME NEW c \in Conns, WriteHandlers(c)
      PROVE  ChatInv'
  BY <1>4, WritingKeepsChatInv, ErrorKeepsChatInv DEF WriteHandlers
<1>5. CASE (\E new \in Conns : AcceptHandler(new)) \/ Accepting \/ Looping
  BY <1>5, ServerKeepsChatInv
<1>6. QED
  BY <1>1, <1>2, <1>3, <1>4, <1>5 DEF Next
-----------------------------------------------------------------------------
(***************************************************************************)
(* The chat room implements TcpServer, step by step.                       *)
(***************************************************************************)
\* The operations of c in state s.
Ops(c, s) == Reading(c, s) + Writing(c, s)

\* Every connection has an operation of each kind at most, in one state.
LEMMA OpsBound ==
  ASSUME ChatInv, NEW c \in Conns
  PROVE  /\ \A s : Count(s)[c] = Ops(c, s)
         /\ \A s : Ops(c, s) \in Nat
         /\ Ops(c, "waiting") + Ops(c, "done") + Ops(c, "failed") <= 2
<1>1. \A s : Count(s)[c] = Ops(c, s)
  BY CountIs DEF ChatInv, Ops
<1>2. /\ \A s : Reading(c, s) \in {0, 1} /\ Writing(c, s) \in {0, 1}
      /\ Reading(c, "waiting") + Reading(c, "done") + Reading(c, "failed") <= 1
      /\ Writing(c, "waiting") + Writing(c, "done") + Writing(c, "failed") <= 1
  BY DEF Reading, Writing
<1>3. \A u, v, w, x, y, z \in {0, 1} :
         u + v + w <= 1 /\ x + y + z <= 1 => (u + x) + (v + y) + (w + z) <= 2
  OBVIOUS
<1>4. QED
  BY <1>1, <1>2, <1>3 DEF Ops

\* The same in the next state.
LEMMA OpsWillBeBound ==
  ASSUME ChatInv', NEW c \in Conns
  PROVE  /\ \A s : Count(s)'[c] = Ops(c, s)'
         /\ \A s : Ops(c, s)' \in Nat
         /\ Ops(c, "waiting")' + Ops(c, "done")' + Ops(c, "failed")' <= 2
<1>1. \A s : Count(s)'[c] = Ops(c, s)'
  BY CountWillBe DEF ChatInv, Ops
<1>2. /\ \A s : Reading(c, s)' \in {0, 1} /\ Writing(c, s)' \in {0, 1}
      /\ Reading(c, "waiting")' + Reading(c, "done")' + Reading(c, "failed")' <= 1
      /\ Writing(c, "waiting")' + Writing(c, "done")' + Writing(c, "failed")' <= 1
  BY DEF Reading, Writing
<1>3. \A u, v, w, x, y, z \in {0, 1} :
         u + v + w <= 1 /\ x + y + z <= 1 => (u + x) + (v + y) + (w + z) <= 2
  OBVIOUS
<1>4. QED
  BY <1>1, <1>2, <1>3 DEF Ops

\* Counts are functions on the connections.
LEMMA CountDomain ==
  /\ \A s : Count(s) = [c \in Conns |-> Count(s)[c]]
  /\ \A s : Count(s)' = [c \in Conns |-> Count(s)'[c]]
BY DEF Count

\* A read or a write completes.
LEMMA CompletionStep ==
  ASSUME ChatInv, ChatInv', NEW c \in Conns, NEW s \in {"done", "failed"},
         loop = "poll", UNCHANGED <<serverVars, is_open, loopVars, acceptVars>>,
         \A d \in Conns \ {c} : rd'[d] = rd[d] /\ wr'[d] = wr[d],
         \/ rd[c].st = "waiting" /\ rd'[c].st = s /\ wr'[c] = wr[c]
         \/ /\ rd'[c] = rd[c] /\ wr[c] # <<>> /\ wr'[c] # <<>>
            /\ wr[c][1].st = "waiting" /\ wr'[c][1].st = s
  PROVE  \/ s = "done" /\ Server!OperationSucceeds(c)
         \/ s = "failed" /\ Server!OperationFails(c)
<1>1. \A d \in Conns \ {c} : \A x : Ops(d, x)' = Ops(d, x)
  BY DEF Ops, Reading, Writing
<1>2. /\ Ops(c, "waiting") > 0 /\ Ops(c, "waiting")' = Ops(c, "waiting") - 1
      /\ Ops(c, s)' = Ops(c, s) + 1
      /\ \A x : x \notin {"waiting", s} => Ops(c, x)' = Ops(c, x)
  BY DEF Ops, Reading, Writing
<1>3. /\ Count("waiting")' = [Count("waiting") EXCEPT ![c] = @ - 1]
      /\ Count(s)' = [Count(s) EXCEPT ![c] = @ + 1]
      /\ \A x \in OpStates \ {"waiting", s} : Count(x)' = Count(x)
      /\ Count("waiting")[c] > 0
  <2>1. \A d \in Conns : \A x : Count(x)[d] = Ops(d, x) /\ Count(x)'[d] = Ops(d, x)'
    BY OpsBound, OpsWillBeBound
  <2>2. ASSUME NEW x, NEW n, Ops(c, x)' = n
        PROVE  Count(x)' = [Count(x) EXCEPT ![c] = n]
    BY <1>1, <2>1, <2>2, CountDomain
  <2>3. ASSUME NEW x, Ops(c, x)' = Ops(c, x)
        PROVE  Count(x)' = Count(x)
    BY <1>1, <2>1, <2>3, CountDomain
  <2>4. QED
    BY <1>2, <2>1, <2>2, <2>3
<1>4. CASE s = "done"
  <2>1. Count("failed")' = Count("failed")
    BY <1>3, <1>4 DEF OpStates
  <2>2. QED
    BY <1>3, <1>4, <2>1
    DEF Server!OperationSucceeds, Server!serverVars, Server!loopVars, Server!acceptVars,
        serverVars, loopVars, acceptVars
<1>5. CASE s = "failed"
  <2>1. Count("done")' = Count("done")
    BY <1>3, <1>5 DEF OpStates
  <2>2. QED
    BY <1>3, <1>5, <2>1
    DEF Server!OperationFails, Server!serverVars, Server!loopVars, Server!acceptVars,
        serverVars, loopVars, acceptVars
<1>6. QED
  BY <1>4, <1>5

\* An error handler is TcpServer's.
LEMMA ErrorStep ==
  ASSUME ChatInv, ChatInv', ServerFacts, NEW c \in Conns,
         ReadErrorHandler(c) \/ \E i \in Writes(c) : WriteErrorHandler(c, i)
  PROVE  Server!ErrorHandler(c)
<1>1. loop = "poll" /\ UNCHANGED <<serverVars, loopVars, acceptVars>>
  BY DEF ReadErrorHandler, WriteErrorHandler
<1>2. is_open' = [is_open EXCEPT ![c] = FALSE] /\ is_open[c] \in BOOLEAN
  BY ErrorEffect DEF ServerFacts
<1>3. \A d \in Conns \ {c} : \A x : Ops(d, x)' = Ops(d, x)
  BY ErrorEffect DEF Ops, Reading, Writing
<1>4. /\ Ops(c, "failed") > 0
      /\ Ops(c, "failed")' = Ops(c, "failed") - 1 + IF is_open[c] THEN Ops(c, "waiting") ELSE 0
      /\ Ops(c, "waiting")' = IF is_open[c] THEN 0 ELSE Ops(c, "waiting")
      /\ Ops(c, "done")' = Ops(c, "done")
  <2>1. \/ /\ rd[c].st = "failed" /\ rd'[c].st = "none" /\ (wr'[c] = <<>> <=> wr[c] = <<>>)
           /\ wr'[c] = <<>> \/ wr'[c][1].st = IF is_open[c] /\ wr[c][1].st = "waiting"
                                              THEN "failed" ELSE wr[c][1].st
        \/ /\ wr[c] # <<>> /\ wr[c][1].st = "failed" /\ wr'[c] = <<>>
           /\ rd'[c].st = IF is_open[c] /\ rd[c].st = "waiting" THEN "failed" ELSE rd[c].st
    BY ErrorEffect
  <2>2. QED
    BY <1>2, <2>1 DEF Ops, Reading, Writing
<1>5. /\ Count("failed")[c] > 0
      /\ Count("failed")' = [Count("failed") EXCEPT ![c] =
                               @ - 1 + IF is_open[c] THEN Count("waiting")[c] ELSE 0]
      /\ Count("waiting")' = [Count("waiting") EXCEPT ![c] = IF is_open[c] THEN 0 ELSE @]
      /\ Count("done")' = Count("done")
  BY <1>3, <1>4, CountDomain, OpsBound, OpsWillBeBound
<1>6. QED
  BY <1>1, <1>2, <1>5
  DEF Server!ErrorHandler, Server!serverVars, Server!loopVars, Server!acceptVars,
      serverVars, loopVars, acceptVars

\* A handler that begins begun[d] operations on each member d.
LEMMA SuccessStep ==
  ASSUME ChatInv, ChatInv', ServerFacts, NEW c \in Conns,
         NEW begun \in [Server!Mapped -> 0..2],
         loop = "poll", UNCHANGED <<serverVars, is_open, loopVars, acceptVars>>,
         Ops(c, "done") > 0,
         \A d \in Conns :
            /\ Ops(d, "done")' = Ops(d, "done") - IF d = c THEN 1 ELSE 0
            /\ Ops(d, "waiting")' = Ops(d, "waiting")
                                    + IF d \in Server!Mapped /\ is_open[d] THEN begun[d] ELSE 0
            /\ Ops(d, "failed")' = Ops(d, "failed")
                                    + IF d \in Server!Mapped /\ ~is_open[d] THEN begun[d] ELSE 0
  PROVE  \E b \in [Server!Mapped -> 0..MaxOps] : Server!SuccessHandler(c, b)
<1>1. \A d \in Conns : \A x : Count(x)[d] = Ops(d, x) /\ Count(x)'[d] = Ops(d, x)'
  BY OpsBound, OpsWillBeBound
<1>2. begun \in [Server!Mapped -> 0..MaxOps]
  <2>1. 0..2 \subseteq 0..MaxOps
    BY ChatAssumption
  <2>2. QED
    BY <2>1
<1>3. ASSUME NEW d \in Server!Mapped
      PROVE  Server!Outstanding(d) + begun[d] - (IF d = c THEN 1 ELSE 0) <= MaxOps
  <2>1. d \in Conns /\ begun[d] \in Nat /\ is_open[d] \in BOOLEAN
    BY DEF Server!Mapped, ServerFacts
  <2>2. /\ Ops(d, "waiting") \in Nat /\ Ops(d, "done") \in Nat /\ Ops(d, "failed") \in Nat
        /\ Ops(d, "waiting")' + Ops(d, "done")' + Ops(d, "failed")' <= 2
    BY <2>1, OpsBound, OpsWillBeBound
  <2>3. Server!Outstanding(d) = Ops(d, "waiting") + Ops(d, "done") + Ops(d, "failed")
    BY <1>1, <2>1 DEF Server!Outstanding
  <2>4. /\ Ops(d, "done")' = Ops(d, "done") - IF d = c THEN 1 ELSE 0
        /\ Ops(d, "waiting")' = Ops(d, "waiting") + IF is_open[d] THEN begun[d] ELSE 0
        /\ Ops(d, "failed")' = Ops(d, "failed") + IF ~is_open[d] THEN begun[d] ELSE 0
    BY <2>1
  <2>5. \A x, y, z, b, k, m \in Nat :
           /\ (x + b) + (y - k) + z <= 2 /\ m >= 2 => x + y + z + b - k <= m
           /\ x + (y - k) + (z + b) <= 2 /\ m >= 2 => x + y + z + b - k <= m
    OBVIOUS
  <2>6. (IF d = c THEN 1 ELSE 0) \in Nat /\ MaxOps \in Nat /\ MaxOps >= 2
    BY ChatAssumption
  <2>7. CASE is_open[d]
    <3>1. (Ops(d, "waiting") + begun[d]) + (Ops(d, "done") - (IF d = c THEN 1 ELSE 0))
             + Ops(d, "failed") <= 2
      BY <2>2, <2>4, <2>7
    <3>2. QED
      BY <2>1, <2>2, <2>3, <2>5, <2>6, <3>1
  <2>8. CASE ~is_open[d]
    <3>1. Ops(d, "waiting") + (Ops(d, "done") - (IF d = c THEN 1 ELSE 0))
             + (Ops(d, "failed") + begun[d]) <= 2
      BY <2>2, <2>4, <2>8
    <3>2. QED
      BY <2>1, <2>2, <2>3, <2>5, <2>6, <3>1
  <2>9. QED
    BY <2>1, <2>7, <2>8
<1>4. Count("done")' = [Count("done") EXCEPT ![c] = @ - 1]
  <2>1. \A d \in Conns : Ops(d, "done") - 0 = Ops(d, "done")
    BY OpsBound
  <2>2. \A d \in Conns : Count("done")'[d] = IF d = c THEN Count("done")[c] - 1
                                              ELSE Count("done")[d]
    BY <1>1, <2>1
  <2>3. QED
    BY <2>2, CountDomain
<1>5. /\ Count("waiting")' = [d \in Conns |-> Count("waiting")[d]
            + IF d \in Server!Mapped /\ is_open[d] THEN begun[d] ELSE 0]
      /\ Count("failed")' = [d \in Conns |-> Count("failed")[d]
            + IF d \in Server!Mapped /\ ~is_open[d] THEN begun[d] ELSE 0]
  BY <1>1, CountDomain
<1>6. Count("done")[c] > 0
  BY <1>1
<1>7. Server!SuccessHandler(c, begun)
  BY <1>3, <1>4, <1>5, <1>6
  DEF Server!SuccessHandler, Server!serverVars, Server!loopVars, Server!acceptVars,
      serverVars, loopVars, acceptVars
<1>8. QED
  BY <1>2, <1>7

\* Handlers of a header, and of a write: they go on with their own connection.
LEMMA OwnSuccessStep ==
  ASSUME ChatInv, ChatInv', ServerFacts, NEW c \in Conns,
         \/ HeaderHandler(c)
         \/ \E i \in Writes(c), late \in SUBSET {c} : WriteHandler(c, i, late)
  PROVE  \E b \in [Server!Mapped -> 0..MaxOps] : Server!SuccessHandler(c, b)
<1>1. loop = "poll" /\ UNCHANGED <<serverVars, is_open, loopVars, acceptVars>>
  BY DEF HeaderHandler, WriteHandler
<1>2. ASSUME NEW n \in 0..1,
             /\ Ops(c, "done") > 0 /\ Ops(c, "done")' = Ops(c, "done") - 1
             /\ Ops(c, "waiting")' = Ops(c, "waiting") + IF is_open[c] THEN n ELSE 0
             /\ Ops(c, "failed")' = Ops(c, "failed") + IF ~is_open[c] THEN n ELSE 0
             /\ c \in Server!Mapped,
             \A d \in Conns \ {c} : rd'[d] = rd[d] /\ wr'[d] = wr[d]
      PROVE  \E b \in [Server!Mapped -> 0..MaxOps] : Server!SuccessHandler(c, b)
  <2> DEFINE begun == [d \in Server!Mapped |-> IF d = c THEN n ELSE 0]
  <2>1. begun \in [Server!Mapped -> 0..2]
    OBVIOUS
  <2>2. \A d \in Conns \ {c} : \A x : Ops(d, x)' = Ops(d, x)
    BY <1>2 DEF Ops, Reading, Writing
  <2>3. \A d \in Conns : \A x : Ops(d, x) \in Nat
    BY OpsBound
  <2>4. \A d \in Server!Mapped : begun[d] = IF d = c THEN n ELSE 0
    OBVIOUS
  <2> HIDE DEF begun
  <2>5. ASSUME NEW d \in Conns
        PROVE  /\ Ops(d, "done")' = Ops(d, "done") - IF d = c THEN 1 ELSE 0
               /\ Ops(d, "waiting")' = Ops(d, "waiting")
                     + IF d \in Server!Mapped /\ is_open[d] THEN begun[d] ELSE 0
               /\ Ops(d, "failed")' = Ops(d, "failed")
                     + IF d \in Server!Mapped /\ ~is_open[d] THEN begun[d] ELSE 0
    <3>1. CASE d = c
      BY <1>2, <2>4, <3>1
    <3>2. CASE d # c
      <4>1. \A x : Ops(d, x)' = Ops(d, x) /\ Ops(d, x) \in Nat
        BY <2>2, <2>3, <3>2
      <4>2. d \in Server!Mapped => begun[d] = 0
        BY <2>4, <3>2
      <4>3. QED
        BY <3>2, <4>1, <4>2
    <3>3. QED
      BY <3>1, <3>2
  <2>6. QED
    BY <1>1, <1>2, <2>1, <2>5, SuccessStep
<1>3. CASE HeaderHandler(c)
  <2>1. /\ rd[c].st = "done" /\ rd'[c].st = IF is_open[c] THEN "waiting" ELSE "none"
        /\ \A d \in Conns \ {c} : rd'[d] = rd[d]
        /\ wr' = wr
    BY <1>3 DEF HeaderHandler, StartRead, NoRead, writeVars, ChatInv, WritingWhileQueued, TypeOK
  <2>2. c \in Server!Mapped
    BY <2>1 DEF ChatInv, NoIdIsSilent, ServerFacts
  <2>3. is_open[c] \in BOOLEAN
    BY DEF ServerFacts
  <2> DEFINE n == IF is_open[c] THEN 1 ELSE 0
  <2>4. /\ Ops(c, "done") > 0 /\ Ops(c, "done")' = Ops(c, "done") - 1
        /\ Ops(c, "waiting")' = Ops(c, "waiting") + IF is_open[c] THEN n ELSE 0
        /\ Ops(c, "failed")' = Ops(c, "failed") + IF ~is_open[c] THEN n ELSE 0
    BY <2>1, <2>3 DEF Ops, Reading, Writing
  <2>5. n \in 0..1
    OBVIOUS
  <2> HIDE DEF n
  <2>6. QED
    BY <1>2, <2>1, <2>2, <2>4, <2>5
<1>4. ASSUME NEW i \in Writes(c), NEW late \in SUBSET {c}, WriteHandler(c, i, late)
      PROVE  \E b \in [Server!Mapped -> 0..MaxOps] : Server!SuccessHandler(c, b)
  <2> DEFINE rest == Tail(m_send_queue[c])
             n == IF rest = <<>> THEN 0 ELSE 1
  <2>1. /\ wr[c] # <<>> /\ wr[c][1].st = "done"
        /\ \/ rest = <<>> /\ wr' = [wr EXCEPT ![c] = <<>>]
           \/ /\ rest # <<>> /\ Write(c, Head(rest), late) \in WriteOps
              /\ wr' = [wr EXCEPT ![c] = Append(<<>>, Write(c, Head(rest), late))]
    BY <1>4, WriteHandlerEffect
  <2>2. rd' = rd
    BY <1>4 DEF WriteHandler, readVars
  <2>3. c \in Server!Mapped /\ is_open[c] \in BOOLEAN
    BY <2>1 DEF ChatInv, NoIdIsSilent, ServerFacts
  <2>4. /\ \A d \in Conns \ {c} : wr'[d] = wr[d]
        /\ rest = <<>> => wr'[c] = <<>>
        /\ rest # <<>> => /\ wr'[c] # <<>>
                          /\ wr'[c][1].st = IF is_open[c] THEN "waiting" ELSE "failed"
    <3>1. wr \in [Conns -> Seq(WriteOps)]
      BY DEF ChatInv, WritingWhileQueued, TypeOK, WriteOps
    <3>2. CASE rest = <<>>
      BY <2>1, <3>1, <3>2
    <3>3. CASE rest # <<>>
      <4>1. wr'[c] = Append(<<>>, Write(c, Head(rest), late))
            /\ \A d \in Conns \ {c} : wr'[d] = wr[d]
        BY <2>1, <3>1, <3>3
      <4>2. wr'[c] # <<>> /\ wr'[c][1] = Write(c, Head(rest), late)
        BY <2>1, <3>3, <4>1, Singleton
      <4>3. QED
        BY <3>3, <4>1, <4>2 DEF Write
    <3>4. QED
      BY <3>2, <3>3
  <2>5. n \in 0..1 /\ (n = 0 <=> rest = <<>>) /\ (n = 1 <=> rest # <<>>)
    OBVIOUS
  <2> HIDE DEF rest, n
  <2>6. /\ Ops(c, "done") > 0 /\ Ops(c, "done")' = Ops(c, "done") - 1
        /\ Ops(c, "waiting")' = Ops(c, "waiting") + IF is_open[c] THEN n ELSE 0
        /\ Ops(c, "failed")' = Ops(c, "failed") + IF ~is_open[c] THEN n ELSE 0
    BY <2>1, <2>2, <2>3, <2>4, <2>5 DEF Ops, Reading, Writing
  <2>7. QED
    BY <1>2, <2>2, <2>3, <2>4, <2>5, <2>6
<1>5. QED
  BY <1>3, <1>4

\* The handler of a body: its own next read, and a write to every member that
\* had none.
LEMMA BodyStep ==
  ASSUME ChatInv, ChatInv', ServerFacts, NEW c \in Conns, NEW late, BodyHandler(c, late)
  PROVE  \E b \in [Server!Mapped -> 0..MaxOps] : Server!SuccessHandler(c, b)
<1> DEFINE frame == Guest(c, stream[c][1])
           read(d) == IF d = c /\ is_open[c] THEN 1 ELSE 0
           write(d) == IF m_send_queue[d] = <<>> THEN 1 ELSE 0
           begun == [d \in Server!Mapped |-> read(d) + write(d)]
<1>1. loop = "poll" /\ UNCHANGED <<serverVars, is_open, loopVars, acceptVars>>
  BY DEF BodyHandler
<1>2. /\ c \in Server!Mapped /\ frame \in Frames /\ broadcast(frame, late)
      /\ rd[c] = [op |-> "body", st |-> "done"]
      /\ rd' = [rd EXCEPT ![c] = IF is_open[c] THEN [op |-> "header", st |-> "waiting"]
                                               ELSE NoRead]
  BY BodyEffect
<1>3. \A d \in Conns : is_open[d] \in BOOLEAN
  BY DEF ServerFacts
<1> HIDE DEF frame
<1>4. /\ rd[c].st = "done" /\ rd'[c].st = IF is_open[c] THEN "waiting" ELSE "none"
      /\ \A d \in Conns \ {c} : rd'[d] = rd[d]
  BY <1>2 DEF NoRead, ChatInv, WritingWhileQueued, TypeOK
<1>5. \A d \in Conns :
         /\ Reading(d, "done")' = Reading(d, "done") - IF d = c THEN 1 ELSE 0
         /\ Reading(d, "waiting")' = Reading(d, "waiting") + read(d)
         /\ Reading(d, "failed")' = Reading(d, "failed")
  BY <1>3, <1>4 DEF Reading
<1>6. ASSUME NEW d \in Conns
      PROVE  /\ Writing(d, "done")' = Writing(d, "done")
             /\ Writing(d, "waiting")' = Writing(d, "waiting")
                   + IF d \in Server!Mapped /\ is_open[d] THEN write(d) ELSE 0
             /\ Writing(d, "failed")' = Writing(d, "failed")
                   + IF d \in Server!Mapped /\ ~is_open[d] THEN write(d) ELSE 0
  <2>1. /\ d \notin Server!Mapped => wr'[d] = wr[d]
        /\ d \in Server!Mapped =>
              /\ m_send_queue[d] # <<>> => wr'[d] = wr[d]
              /\ m_send_queue[d] = <<>> =>
                    /\ wr[d] = <<>> /\ wr'[d] # <<>> /\ wr'[d][1] = Write(d, frame, late)
    BY <1>2, BroadcastEffect
  <2>2. Write(d, frame, late).st = IF is_open[d] THEN "waiting" ELSE "failed"
    BY DEF Write
  <2>3. QED
    BY <1>3, <2>1, <2>2 DEF Writing
<1>7. begun \in [Server!Mapped -> 0..2] /\ \A d \in Server!Mapped : begun[d] = read(d) + write(d)
  OBVIOUS
<1>8. ASSUME NEW d \in Conns
      PROVE  /\ Ops(d, "done")' = Ops(d, "done") - IF d = c THEN 1 ELSE 0
             /\ Ops(d, "waiting")' = Ops(d, "waiting")
                   + IF d \in Server!Mapped /\ is_open[d] THEN begun[d] ELSE 0
             /\ Ops(d, "failed")' = Ops(d, "failed")
                   + IF d \in Server!Mapped /\ ~is_open[d] THEN begun[d] ELSE 0
  <2>1. \A x : Reading(d, x) \in Nat /\ Writing(d, x) \in Nat
    BY DEF Reading, Writing
  <2>2. read(d) \in Nat /\ write(d) \in Nat
    OBVIOUS
  <2>3. /\ d \notin Server!Mapped \/ ~is_open[d] => read(d) = 0
        /\ d \in Server!Mapped => begun[d] = read(d) + write(d)
    BY <1>2, <1>7
  <2> HIDE DEF begun, read, write
  <2>4. Ops(d, "done")' = Ops(d, "done") - IF d = c THEN 1 ELSE 0
    BY <1>5, <1>6, <2>1 DEF Ops
  <2>5. Ops(d, "waiting")' = Ops(d, "waiting")
                   + IF d \in Server!Mapped /\ is_open[d] THEN begun[d] ELSE 0
    BY <1>5, <1>6, <2>1, <2>2, <2>3 DEF Ops
  <2>6. Ops(d, "failed")' = Ops(d, "failed")
                   + IF d \in Server!Mapped /\ ~is_open[d] THEN begun[d] ELSE 0
    BY <1>5, <1>6, <2>1, <2>2, <2>3 DEF Ops
  <2>7. QED
    BY <2>4, <2>5, <2>6
<1>9. Ops(c, "done") > 0
  BY <1>4 DEF Ops, Reading, Writing
<1> HIDE DEF begun
<1>10. QED
  BY <1>1, <1>7, <1>8, <1>9, SuccessStep

\* Nothing that TcpServer sees changes.
LEMMA ServerStutters ==
  ASSUME UNCHANGED <<serverVars, is_open, loopVars, acceptVars, rd, wr>>
  PROVE  UNCHANGED Server!vars
BY DEF Server!vars, Server!serverVars, Server!loopVars, Server!acceptVars, Server!opVars,
       serverVars, loopVars, acceptVars, Count

\* Every step of the chat room is one of TcpServer, or none.
LEMMA NextImplementsServer ==
  ASSUME ChatInv, ChatInv', ServerFacts, [Next]_vars
  PROVE  [Server!Next]_Server!vars
<1>1. CASE UNCHANGED vars
  BY <1>1, ServerStutters DEF vars, readVars, writeVars
<1>2. ASSUME NEW c \in Conns, Say(c)
      PROVE  UNCHANGED Server!vars
  BY <1>2, ServerStutters DEF Say, writeVars
<1>3. ASSUME NEW c \in Conns,
             ReadCompletes(c) \/ ReadFails(c) \/ \E k \in 1..MaxJunk : ReadCutShort(c, k)
      PROVE  Server!OperationSucceeds(c) \/ Server!OperationFails(c)
  <2>1. PICK s \in {"done", "failed"} : rd' = [rd EXCEPT ![c].st = s]
    BY <1>3 DEF ReadCompletes, ReadFails, ReadCutShort, ReadState
  <2>2. /\ loop = "poll" /\ rd[c].st = "waiting" /\ wr' = wr
        /\ UNCHANGED <<serverVars, is_open, loopVars, acceptVars>>
    BY <1>3 DEF ReadCompletes, ReadFails, ReadCutShort, writeVars
  <2>3. rd'[c].st = s /\ \A d \in Conns \ {c} : rd'[d] = rd[d]
    <3>1. rd \in [Conns -> ReadOps] /\ rd[c] \in [op : {"header", "body"}, st : OpStates]
      BY <2>2 DEF ChatInv, WritingWhileQueued, TypeOK, ReadOps, NoRead
    <3>2. QED
      BY <2>1, <3>1
  <2>4. QED
    BY <2>2, <2>3, CompletionStep
<1>4. ASSUME NEW c \in Conns, NEW i \in Writes(c), WriteCompletes(c, i) \/ WriteFails(c, i)
      PROVE  Server!OperationSucceeds(c) \/ Server!OperationFails(c)
  <2>1. /\ loop = "poll" /\ rd' = rd
        /\ UNCHANGED <<serverVars, is_open, loopVars, acceptVars>>
    BY <1>4 DEF WriteCompletes, WriteFails, readVars
  <2>2. /\ wr[c] # <<>> /\ wr[c][1].st = "waiting" /\ wr'[c] # <<>>
        /\ \A d \in Conns \ {c} : wr'[d] = wr[d]
        /\ wr'[c][1].st \in {"done", "failed"}
    BY <1>4, WriteCompletionEffect
  <2>3. QED
    BY <2>1, <2>2, CompletionStep
<1>5. CASE Network
  BY <1>2, <1>3, <1>4, <1>5 DEF Network, Server!Next
<1>6. CASE ReadHandlers
  <2>1. Server!Handlers
    BY <1>6, OwnSuccessStep, BodyStep, ErrorStep DEF ReadHandlers, Server!Handlers
  <2>2. QED
    BY <2>1 DEF Server!Next
<1>7. ASSUME NEW c \in Conns, WriteHandlers(c)
      PROVE  Server!Next
  <2>1. Server!Handlers
    BY <1>7, OwnSuccessStep, ErrorStep DEF WriteHandlers, Server!Handlers
  <2>2. QED
    BY <2>1 DEF Server!Next
<1>8. CASE (\E new \in Conns : AcceptHandler(new)) \/ Accepting \/ Looping
  <2>1. ASSUME NEW new \in Conns, AcceptHandler(new)
        PROVE  Server!Handlers
    BY <2>1 DEF AcceptHandler, Server!Handlers
  <2>2. CASE Accepting
    BY <2>2 DEF Accepting, Server!Next, Server!Handlers
  <2>3. CASE Looping
    BY <2>3 DEF Looping, Server!Next
  <2>4. QED
    BY <1>8, <2>1, <2>2, <2>3 DEF Server!Next
<1>9. QED
  BY <1>1, <1>5, <1>6, <1>7, <1>8 DEF Next
-----------------------------------------------------------------------------
(***************************************************************************)
(* The chat room's invariant and TcpServer's hold together.                *)
(***************************************************************************)
RoomInv == Base!ServerInv /\ ChatInv

LEMMA InitRoomInv == Init => RoomInv
BY InitChatInv, BaseInvInductive DEF Init, RoomInv

LEMMA NextRoomInv ==
  ASSUME RoomInv, [Next]_vars
  PROVE  RoomInv' /\ ServerFacts /\ [Server!Next]_Server!vars
<1>1. ServerFacts
  BY ServerFactsHold DEF RoomInv, ChatInv
<1>2. ChatInv'
  BY <1>1, NextChatInv DEF RoomInv
<1>3. [Server!Next]_Server!vars
  BY <1>1, <1>2, NextImplementsServer DEF RoomInv
<1>4. Base!ServerInv'
  BY <1>3, BaseInvInductive DEF RoomInv
<1>5. QED
  BY <1>1, <1>2, <1>3, <1>4 DEF RoomInv

\* Never two writes on a socket, never one with nothing queued, and on an open
\* socket never frames queued and no write: what iswriting stands on.
THEOREM RoomWritesOneByOne == Spec => []WritingWhileQueued
<1>1. Init => RoomInv
  BY InitRoomInv
<1>2. RoomInv /\ [Next]_vars => RoomInv'
  BY NextRoomInv
<1>3. RoomInv => WritingWhileQueued
  BY DEF RoomInv, ChatInv
<1>4. QED
  BY <1>1, <1>2, <1>3, PTL DEF Spec

\* The chat room's connections do no more than TcpServer lets a derived
\* connection do: what is proved of TcpServer holds of the chat room.
THEOREM RoomImplementsServer == Spec => ImplementsServer
<1>1. Init => RoomInv /\ Server!Init
  BY InitRoomInv DEF Init
<1>2. RoomInv /\ [Next]_vars => RoomInv' /\ [Server!Next]_Server!vars
  BY NextRoomInv
<1>3. QED
  BY <1>1, <1>2, PTL DEF Spec, ImplementsServer, Server!Spec

\* No read or write handler of the chat room runs on a connection that the
\* loop has dropped, though each holds its connection as a raw this.
THEOREM RoomHandlersFindTheirConnection == Spec => []Server!NoOrphanHandler
<1>1. Init => RoomInv
  BY InitRoomInv
<1>2. RoomInv /\ [Next]_vars => RoomInv'
  BY NextRoomInv
<1>3. RoomInv => Server!NoOrphanHandler
  BY DEF RoomInv, Base!ServerInv, Base!NoOrphanHandler, Server!NoOrphanHandler,
         Base!Outstanding, Server!Outstanding
<1>4. QED
  BY <1>1, <1>2, <1>3, PTL DEF Spec
-----------------------------------------------------------------------------
(***************************************************************************)
(* The conversation.                                                       *)
(***************************************************************************)
\* Nothing happened to c that matters to what it hears.
LEMMA StaysInConversation ==
  ASSUME NEW c \in Conns, Continues(c) /\ Heard(c),
         log' = log, wire'[c] = wire[c], joined'[c] = joined[c],
         m_send_queue'[c] = m_send_queue[c], Sent(c)' = Sent(c),
         wr'[c] # <<>> => wr[c] # <<>> /\ wr'[c][1].frame = wr[c][1].frame,
         c \in Server!Mapped' => c \in Server!Mapped
  PROVE  Continues(c)' /\ Heard(c)'
<1>1. Heard(c)'
  BY DEF Heard
<1>2. Continues(c)'
  BY DEF Continues
<1>3. QED
  BY <1>1, <1>2

\* A write completes: the frame at the head of the queue, or a damaged one,
\* goes out.
LEMMA WriteCompletesInConversation ==
  ASSUME ChatInv, NEW c \in Conns, Continues(c), Heard(c),
         NEW i \in Writes(c), WriteCompletes(c, i)
  PROVE  Continues(c)' /\ Heard(c)'
<1> DEFINE n == Len(wire[c])
           q == m_send_queue[c]
           f == wr[c][1].frame
<1>1. /\ wr[c] # <<>> /\ wr[c][1].st = "waiting"
      /\ wr'[c] # <<>> /\ wr'[c][1].st = "done" /\ wr'[c][1].frame = f
      /\ wire' = [wire EXCEPT ![c] = Append(@, f)]
  BY WriteCompletionEffect
<1>2. UNCHANGED <<m_send_queue, log, joined, m_tcp_conn_map>>
  BY DEF WriteCompletes, serverVars
<1>3. wire[c] \in Seq(Frames \cup {Junk}) /\ f \in Frames \cup {Junk} /\ wire'[c] = Append(wire[c], f)
  BY <1>1, ChatTypes DEF ChatInv, WritingWhileQueued, TypeOK, WriteOps
<1>4. /\ n \in Nat /\ Len(wire'[c]) = n + 1 /\ wire'[c][n + 1] = f
      /\ \A k \in 1..n : wire'[c][k] = wire[c][k]
  BY <1>3, AppendProperties
<1>5. q # <<>> /\ q \in Seq(Frames) /\ joined[c] \in Nat
  BY <1>1, ChatTypes
<1>6. Len(q) \in Nat /\ Len(q) >= 1 /\ Len(log) \in Nat
  BY <1>5, FirstElement DEF ChatInv, WritingWhileQueued, TypeOK
<1>7. Sent(c) = n /\ Sent(c)' = n
  BY <1>1, <1>4 DEF Sent
<1>8. Continues(c)'
  BY <1>1, <1>2, <1>7 DEF Continues, Server!Mapped
<1>9. joined[c] + (n + 1) <= Len(log) /\ f \in {log[joined[c] + (n + 1)], Junk}
  <2>1. joined[c] + n + Len(q) <= Len(log) /\ q[1] = log[joined[c] + n + 1] /\ f \in {q[1], Junk}
    BY <1>1, <1>6, <1>7 DEF Continues
  <2>2. joined[c] + n + 1 = joined[c] + (n + 1)
    BY <1>4, <1>5
  <2>3. \A x, m, l, len \in Nat : x + m + l <= len /\ l >= 1 => x + (m + 1) <= len
    OBVIOUS
  <2>4. QED
    BY <1>4, <1>5, <1>6, <2>1, <2>2, <2>3
<1>10. Heard(c)'
  <2> SUFFICES ASSUME NEW k \in 1..(n + 1)
               PROVE  joined[c] + k <= Len(log) /\ wire'[c][k] \in {log[joined[c] + k], Junk}
    BY <1>2, <1>4 DEF Heard
  <2>1. CASE k = n + 1
    BY <1>4, <1>9, <2>1
  <2>2. CASE k # n + 1
    <3>1. k \in 1..n
      BY <1>4, <2>2
    <3>2. QED
      BY <1>4, <3>1 DEF Heard
  <2>3. QED
    BY <2>1, <2>2
<1>11. QED
  BY <1>8, <1>10

\* A sequence without its head.
LEMMA TailFacts ==
  ASSUME NEW S, NEW q \in Seq(S), q # <<>>
  PROVE  /\ Len(q) \in Nat /\ Len(q) >= 1 /\ Len(Tail(q)) = Len(q) - 1
         /\ \A k \in 1..Len(Tail(q)) : Tail(q)[k] = q[k + 1]
BY EmptySeq

\* The handler of a write: the next frame of the queue is the next one of the
\* conversation.
LEMMA WriteHandlerInConversation ==
  ASSUME ChatInv, NEW c \in Conns, Continues(c), Heard(c),
         NEW i \in Writes(c), NEW late, WriteHandler(c, i, late)
  PROVE  Continues(c)' /\ Heard(c)'
<1> DEFINE q == m_send_queue[c]
           rest == Tail(q)
           s == Sent(c)
           j == joined[c]
<1>1. /\ wr[c] # <<>> /\ wr[c][1].st = "done" /\ q # <<>>
      /\ m_send_queue' = [m_send_queue EXCEPT ![c] = rest]
      /\ \/ rest = <<>> /\ wr' = [wr EXCEPT ![c] = <<>>]
         \/ /\ rest # <<>> /\ Write(c, Head(rest), late) \in WriteOps
            /\ wr' = [wr EXCEPT ![c] = Append(<<>>, Write(c, Head(rest), late))]
  <2>1. m_send_queue \in [Conns -> Seq(Frames)]
    BY DEF ChatInv, WritingWhileQueued, TypeOK
  <2>2. QED
    BY <2>1, WriteHandlerEffect
<1>2. UNCHANGED <<log, joined, wire, m_tcp_conn_map>>
  BY DEF WriteHandler, serverVars
<1>3. Heard(c)'
  BY <1>2 DEF Heard
<1>4. /\ q \in Seq(Frames) /\ j \in Nat /\ Len(wire[c]) \in Nat /\ s \in Nat /\ rest \in Seq(Frames)
      /\ Len(log) \in Nat
  <2>1. q \in Seq(Frames) /\ j \in Nat /\ wire[c] \in Seq(Frames \cup {Junk}) /\ log \in Seq(Frames)
    BY ChatTypes DEF ChatInv, WritingWhileQueued, TypeOK
  <2>2. QED
    BY <1>1, <2>1 DEF Continues
<1>5. m_send_queue'[c] = rest
  BY <1>1 DEF ChatInv, WritingWhileQueued, TypeOK
<1>6. /\ Len(q) \in Nat /\ Len(q) >= 1 /\ Len(rest) = Len(q) - 1
      /\ \A k \in 1..Len(rest) : rest[k] = q[k + 1]
  BY <1>1, <1>4, TailFacts
<1>7. wr'[c] # <<>> => wr'[c][1].frame \in {rest[1], Junk} /\ wr'[c][1].st # "done"
  <2>1. wr \in [Conns -> Seq(WriteOps)]
    BY DEF ChatInv, WritingWhileQueued, TypeOK, WriteOps
  <2>2. CASE rest = <<>>
    BY <1>1, <2>1, <2>2
  <2>3. CASE rest # <<>>
    <3>1. wr'[c] = Append(<<>>, Write(c, Head(rest), late)) /\ Write(c, Head(rest), late) \in WriteOps
      BY <1>1, <2>1, <2>3
    <3>2. wr'[c][1] = Write(c, Head(rest), late)
      BY <3>1, Singleton
    <3>3. Head(rest) = rest[1]
      BY <1>4, <2>3, FirstElement
    <3> HIDE DEF rest
    <3>4. Write(c, Head(rest), late).frame \in {Head(rest), Junk}
          /\ Write(c, Head(rest), late).st \in {"waiting", "failed"}
      BY WriteFacts
    <3>5. QED
      BY <3>2, <3>3, <3>4
  <2>4. QED
    BY <2>2, <2>3
<1>8. Sent(c)' = s + 1
  <2>1. Sent(c) = Len(wire[c]) - 1
    BY <1>1 DEF Sent
  <2>2. Sent(c)' = Len(wire'[c]) - 0
    BY <1>7 DEF Sent
  <2>3. QED
    BY <1>2, <1>4, <2>1, <2>2
<1>9. /\ j + s + Len(q) <= Len(log)
      /\ c \in Server!Mapped => j + s + Len(q) = Len(log)
      /\ \A k \in 1..Len(q) : q[k] = log[j + s + k]
  BY DEF Continues
<1> HIDE DEF q, rest, s, j
<1>10. /\ j + (s + 1) + Len(rest) <= Len(log)
       /\ c \in Server!Mapped => j + (s + 1) + Len(rest) = Len(log)
  BY <1>4, <1>6, <1>9
<1>11. \A k \in 1..Len(rest) : rest[k] = log[j + (s + 1) + k]
  <2>1. ASSUME NEW k \in 1..Len(rest)
        PROVE  k + 1 \in 1..Len(q) /\ j + s + (k + 1) = j + (s + 1) + k
    BY <1>4, <1>6
  <2>2. QED
    BY <1>6, <1>9, <2>1
<1>12. s + 1 \in Nat
  BY <1>4
<1>13. joined'[c] = j /\ Len(log') = Len(log) /\ Server!Mapped' = Server!Mapped
  BY <1>2 DEF j, Server!Mapped
<1>14. Continues(c)'
  BY <1>2, <1>5, <1>7, <1>8, <1>10, <1>11, <1>12, <1>13 DEF Continues
<1>15. QED
  BY <1>3, <1>14

\* A broadcast: every member gets the new frame behind what it has yet to write.
LEMMA BroadcastInConversation ==
  ASSUME ChatInv, ServerFacts, NEW d \in Conns, Continues(d), Heard(d),
         NEW c \in Conns, NEW late, BodyHandler(c, late)
  PROVE  Continues(d)' /\ Heard(d)'
<1> DEFINE frame == Guest(c, stream[c][1])
           q == m_send_queue[d]
           s == Sent(d)
           j == joined[d]
<1>1. /\ frame \in Frames /\ broadcast(frame, late) /\ UNCHANGED <<joined, wire, m_tcp_conn_map>>
  BY BodyEffect DEF BodyHandler, serverVars
<1> HIDE DEF frame
<1>2. /\ q \in Seq(Frames) /\ j \in Nat /\ s \in Nat /\ Len(q) \in Nat
      /\ wire[d] \in Seq(Frames \cup {Junk})
      /\ log \in Seq(Frames) /\ Len(log) \in Nat /\ log' = Append(log, frame)
  <2>1. q \in Seq(Frames) /\ j \in Nat /\ wire[d] \in Seq(Frames \cup {Junk}) /\ log \in Seq(Frames)
    BY ChatTypes DEF ChatInv, WritingWhileQueued, TypeOK
  <2>2. QED
    BY <1>1, <2>1 DEF Continues, broadcast
<1>3. /\ Len(log') = Len(log) + 1 /\ log'[Len(log) + 1] = frame
      /\ \A k \in 1..Len(log) : log'[k] = log[k]
  BY <1>1, <1>2, AppendProperties
<1>4. Server!Mapped' = Server!Mapped
  BY <1>1 DEF Server!Mapped
<1>5. Heard(d)'
  <2> SUFFICES ASSUME NEW i \in 1..Len(wire[d])
               PROVE  joined[d] + i <= Len(log') /\ wire[d][i] \in {log'[joined[d] + i], Junk}
    BY <1>1 DEF Heard
  <2>1. joined[d] + i <= Len(log) /\ wire[d][i] \in {log[joined[d] + i], Junk}
    BY DEF Heard
  <2>2. joined[d] + i \in 1..Len(log)
    BY <1>2, <2>1
  <2>3. QED
    BY <1>2, <1>3, <2>1, <2>2
<1>6. /\ j + s + Len(q) <= Len(log)
      /\ d \in Server!Mapped => j + s + Len(q) = Len(log)
      /\ \A k \in 1..Len(q) : q[k] = log[j + s + k]
      /\ wr[d] # <<>> => wr[d][1].frame \in {q[1], Junk}
  BY DEF Continues
<1>7. \A k \in 1..Len(q) : q[k] = log'[j + s + k]
  <2>1. \A k \in 1..Len(q) : j + s + k \in 1..Len(log)
    BY <1>2, <1>6, SMTT(30)
  <2>2. QED
    BY <1>3, <1>6, <2>1
<1>8. CASE d \notin Server!Mapped
  <2>1. m_send_queue'[d] = q /\ wr'[d] = wr[d]
    BY <1>1, <1>8, BroadcastEffect
  <2>2. Sent(d)' = s
    BY <1>1, <2>1 DEF Sent
  <2>3. j + s + Len(q) <= Len(log')
    BY <1>2, <1>3, <1>6
  <2>4. joined'[d] = j
    BY <1>1
  <2> HIDE DEF q, s, j
  <2>5. Continues(d)'
    BY <1>2, <1>4, <1>6, <1>7, <1>8, <2>1, <2>2, <2>3, <2>4 DEF Continues
  <2>6. QED
    BY <1>5, <2>5
<1>9. CASE d \in Server!Mapped
  <2>1. /\ m_send_queue'[d] = Append(q, frame)
        /\ q # <<>> => wr'[d] = wr[d]
        /\ q = <<>> => wr[d] = <<>> /\ wr'[d] # <<>> /\ wr'[d][1] = Write(d, frame, late)
    BY <1>1, <1>9, BroadcastEffect
  <2>2. /\ Len(m_send_queue'[d]) = Len(q) + 1
        /\ m_send_queue'[d][Len(q) + 1] = frame
        /\ \A k \in 1..Len(q) : m_send_queue'[d][k] = q[k]
    BY <1>1, <1>2, <2>1, AppendProperties
  <2>3. q = <<>> => /\ wr'[d][1].frame \in {frame, Junk} /\ wr'[d][1].st # "done"
                    /\ m_send_queue'[d][1] = frame
    <3>1. Write(d, frame, late).frame \in {frame, Junk}
          /\ Write(d, frame, late).st \in {"waiting", "failed"}
      BY WriteFacts
    <3>2. q = <<>> => Len(q) + 1 = 1
      BY <1>2, EmptySeq
    <3>3. QED
      BY <2>1, <2>2, <3>1, <3>2
  <2>4. Sent(d)' = s
    <3>1. CASE q = <<>>
      <4>1. Sent(d) = Len(wire[d]) - 0 /\ Sent(d)' = Len(wire'[d]) - 0
        BY <2>1, <2>3, <3>1 DEF Sent
      <4>2. QED
        BY <1>1, <4>1
    <3>2. CASE q # <<>>
      BY <1>1, <2>1, <3>2 DEF Sent
    <3>3. QED
      BY <3>1, <3>2
  <2>5. wr'[d] # <<>> => wr'[d][1].frame \in {m_send_queue'[d][1], Junk}
    <3>1. CASE q = <<>>
      BY <2>3, <3>1
    <3>2. CASE q # <<>>
      <4>1. 1 \in 1..Len(q)
        BY <1>2, <3>2, FirstElement
      <4>2. QED
        BY <1>6, <2>1, <2>2, <3>2, <4>1
    <3>3. QED
      BY <3>1, <3>2
  <2>6. joined'[d] = j
    BY <1>1
  <2> HIDE DEF q, s, j
  <2>7. j + s + (Len(q) + 1) = Len(log) + 1
    BY <1>2, <1>6, <1>9
  <2>8. \A k \in 1..(Len(q) + 1) : m_send_queue'[d][k] = log'[j + s + k]
    <3> SUFFICES ASSUME NEW k \in 1..(Len(q) + 1)
                 PROVE  m_send_queue'[d][k] = log'[j + s + k]
      OBVIOUS
    <3>1. CASE k = Len(q) + 1
      BY <1>3, <2>2, <2>7, <3>1
    <3>2. CASE k # Len(q) + 1
      <4>1. k \in 1..Len(q)
        BY <1>2, <3>2
      <4>2. QED
        BY <1>7, <2>2, <4>1
    <3>3. QED
      BY <3>1, <3>2
  <2>9. j + s + (Len(q) + 1) <= Len(log')
    BY <1>2, <1>3, <2>7
  <2>10. Continues(d)'
    BY <1>2, <1>3, <2>2, <2>4, <2>5, <2>6, <2>7, <2>8, <2>9 DEF Continues
  <2>11. QED
    BY <1>5, <2>10
<1>10. QED
  BY <1>8, <1>9

\* A new member has heard nothing, and has nothing to write, of what was
\* broadcast before.
LEMMA AcceptInConversation ==
  ASSUME ChatInv, ServerFacts, NEW c \in Conns, Continues(c), Heard(c),
         NEW new \in Conns, AcceptHandler(new)
  PROVE  Continues(c)' /\ Heard(c)'
<1>1. /\ accepting \in Conns /\ m_id[accepting] = -1
      /\ joined' = [joined EXCEPT ![accepting] = Len(log)]
      /\ UNCHANGED <<wr, m_send_queue, log, wire>>
      /\ \/ UNCHANGED m_tcp_conn_map
         \/ m_tcp_conn_map' = [m_tcp_conn_map EXCEPT ![m_next_conn_id] = accepting]
  BY AcceptEffect
<1>2. CASE c = accepting
  <2>1. m_send_queue'[c] = <<>> /\ wr'[c] = <<>> /\ wire'[c] = <<>> /\ joined'[c] = Len(log)
    BY <1>1, <1>2 DEF ChatInv, NoIdIsSilent, WritingWhileQueued, TypeOK
  <2>2. Len(<<>>) = 0 /\ Len(log) \in Nat
    BY DEF ChatInv, WritingWhileQueued, TypeOK
  <2>3. Sent(c)' = 0
    BY <2>1, <2>2 DEF Sent
  <2>4. Heard(c)'
    BY <2>1, <2>2 DEF Heard
  <2>5. Len(log) + 0 + 0 = Len(log) /\ Len(log') = Len(log)
    BY <1>1, <2>2
  <2>6. Continues(c)'
    BY <2>1, <2>2, <2>3, <2>5 DEF Continues
  <2>7. QED
    BY <2>4, <2>6
<1>3. CASE c # accepting
  <2>1. joined'[c] = joined[c]
    BY <1>1, <1>3
  <2>2. c \in Server!Mapped' => c \in Server!Mapped
    BY <1>1, <1>3 DEF Server!Mapped, ServerFacts
  <2>3. Sent(c)' = Sent(c)
    BY <1>1 DEF Sent
  <2>4. QED
    BY <1>1, <2>1, <2>2, <2>3, StaysInConversation
<1>4. QED
  BY <1>2, <1>3

LEMMA InitInConversation == Init => InConversation
<1> SUFFICES ASSUME Init, NEW c \in Conns PROVE Continues(c) /\ Heard(c)
  BY DEF InConversation
<1>1. /\ m_send_queue[c] = <<>> /\ wr[c] = <<>> /\ wire[c] = <<>> /\ joined[c] = 0 /\ log = <<>>
      /\ Len(<<>>) = 0
  BY DEF Init
<1>2. Sent(c) = 0
  BY <1>1 DEF Sent
<1>3. QED
  BY <1>1, <1>2 DEF Continues, Heard

\* A step of connection e does not matter to the others.
LEMMA NextInConversation ==
  ASSUME ChatInv, ServerFacts, InConversation, [Next]_vars
  PROVE  InConversation'
<1> SUFFICES ASSUME NEW c \in Conns PROVE Continues(c)' /\ Heard(c)'
  BY DEF InConversation
<1> USE DEF serverVars, loopVars, acceptVars, readVars, writeVars
<1>1. Continues(c) /\ Heard(c)
  BY DEF InConversation
<1>2. ASSUME UNCHANGED <<wr, m_send_queue, log, joined, wire>>,
             c \in Server!Mapped' => c \in Server!Mapped
      PROVE  Continues(c)' /\ Heard(c)'
  <2>1. Sent(c)' = Sent(c)
    BY <1>2 DEF Sent
  <2>2. QED
    BY <1>1, <1>2, <2>1, StaysInConversation
<1>3. CASE UNCHANGED vars
  BY <1>2, <1>3 DEF vars, Server!Mapped
<1>4. ASSUME NEW e \in Conns,
             \/ Say(e) \/ ReadCompletes(e) \/ ReadFails(e) \/ HeaderHandler(e)
             \/ \E k \in 1..MaxJunk : ReadCutShort(e, k)
      PROVE  Continues(c)' /\ Heard(c)'
  <2>1. UNCHANGED <<wr, m_send_queue, log, joined, wire, m_tcp_conn_map>>
    BY <1>4 DEF Say, ReadCompletes, ReadFails, HeaderHandler, ReadCutShort
  <2>2. QED
    BY <1>2, <2>1 DEF Server!Mapped
<1>5. CASE Accepting \/ Looping
  <2>1. UNCHANGED <<wr, m_send_queue, log, joined, wire>>
    BY <1>5 DEF Accepting, Looping
  <2>2. c \in Server!Mapped' => c \in Server!Mapped
    <3>1. \/ UNCHANGED m_tcp_conn_map
          \/ \A id \in Server!Ids : m_tcp_conn_map'[id] \in {m_tcp_conn_map[id], NoConn}
      BY <1>5, ServerEffect
    <3>2. QED
      BY <3>1, ChatAssumption DEF Server!Mapped
  <2>3. QED
    BY <1>2, <2>1, <2>2
<1>6. ASSUME NEW e \in Conns, NEW i \in Writes(e), WriteCompletes(e, i) \/ WriteFails(e, i)
      PROVE  Continues(c)' /\ Heard(c)'
  <2>1. UNCHANGED <<m_send_queue, log, joined, m_tcp_conn_map>>
    BY <1>6 DEF WriteCompletes, WriteFails
  <2>2. CASE WriteCompletes(e, i) /\ c = e
    BY <1>1, <2>2, WriteCompletesInConversation
  <2>3. CASE WriteFails(e, i) \/ c # e
    <3>1. /\ \A d \in Conns \ {e} : wr'[d] = wr[d]
          /\ wr[e] # <<>> /\ wr'[e] # <<>> /\ wr[e][1].st = "waiting"
          /\ wr'[e][1].frame = wr[e][1].frame
          /\ c = e => wr'[e][1].st = "failed"
      BY <1>6, <2>3, WriteCompletionEffect
    <3>2. wire'[c] = wire[c]
      <4>1. wire' = wire \/ (wire' = [wire EXCEPT ![e] = Append(@, wr[e][1].frame)] /\ c # e)
        BY <1>6, <2>3, WriteCompletionEffect
      <4>2. QED
        BY <4>1 DEF ChatInv, WritingWhileQueued, TypeOK
    <3>3. Sent(c)' = Sent(c)
      BY <3>1, <3>2 DEF Sent
    <3>4. Server!Mapped' = Server!Mapped
      BY <2>1 DEF Server!Mapped
    <3>5. wr'[c] # <<>> => wr[c] # <<>> /\ wr'[c][1].frame = wr[c][1].frame
      BY <3>1
    <3>6. QED
      BY <1>1, <2>1, <3>2, <3>3, <3>4, <3>5, StaysInConversation
  <2>4. QED
    BY <1>6, <2>2, <2>3
<1>7. ASSUME NEW e \in Conns, NEW i \in Writes(e), NEW late, WriteHandler(e, i, late)
      PROVE  Continues(c)' /\ Heard(c)'
  <2>1. CASE c = e
    BY <1>1, <1>7, <2>1, WriteHandlerInConversation
  <2>2. CASE c # e
    <3>1. UNCHANGED <<log, joined, wire, m_tcp_conn_map>>
      BY <1>7 DEF WriteHandler
    <3>2. wr'[c] = wr[c] /\ m_send_queue'[c] = m_send_queue[c]
      BY <1>7, <2>2 DEF WriteHandler, ChatInv, WritingWhileQueued, TypeOK
    <3>3. Sent(c)' = Sent(c) /\ Server!Mapped' = Server!Mapped
      BY <3>1, <3>2 DEF Sent, Server!Mapped
    <3>4. QED
      BY <1>1, <3>1, <3>2, <3>3, StaysInConversation
  <2>3. QED
    BY <2>1, <2>2
<1>8. ASSUME NEW e \in Conns, ReadErrorHandler(e) \/ \E i \in Writes(e) : WriteErrorHandler(e, i)
      PROVE  Continues(c)' /\ Heard(c)'
  <2>1. UNCHANGED <<m_send_queue, log, joined, wire, m_tcp_conn_map>>
    BY <1>8 DEF ReadErrorHandler, WriteErrorHandler
  <2>2. /\ \A d \in Conns \ {e} : wr'[d] = wr[d]
        /\ wr'[e] = <<>> \/ /\ wr[e] # <<>> /\ wr'[e][1].frame = wr[e][1].frame
                            /\ wr'[e][1].st = IF is_open[e] /\ wr[e][1].st = "waiting"
                                              THEN "failed" ELSE wr[e][1].st
        /\ wr'[e] = <<>> /\ wr[e] # <<>> => wr[e][1].st = "failed"
    BY <1>8, ErrorEffect
  <2>3. Sent(c)' = Sent(c)
    BY <2>1, <2>2 DEF Sent
  <2>4. Server!Mapped' = Server!Mapped
    BY <2>1 DEF Server!Mapped
  <2>5. wr'[c] # <<>> => wr[c] # <<>> /\ wr'[c][1].frame = wr[c][1].frame
    BY <2>2
  <2>6. QED
    BY <1>1, <2>1, <2>3, <2>4, <2>5, StaysInConversation
<1>9. ASSUME NEW e \in Conns, NEW late, BodyHandler(e, late)
      PROVE  Continues(c)' /\ Heard(c)'
  BY <1>1, <1>9, BroadcastInConversation
<1>10. ASSUME NEW new \in Conns, AcceptHandler(new)
       PROVE  Continues(c)' /\ Heard(c)'
  BY <1>1, <1>10, AcceptInConversation
<1>11. CASE Network
  BY <1>4, <1>6, <1>11 DEF Network
<1>12. CASE ReadHandlers
  BY <1>4, <1>8, <1>9, <1>12 DEF ReadHandlers
<1>13. ASSUME NEW e \in Conns, WriteHandlers(e)
       PROVE  Continues(c)' /\ Heard(c)'
  BY <1>7, <1>8, <1>13 DEF WriteHandlers
<1>14. QED
  BY <1>3, <1>5, <1>10, <1>11, <1>12, <1>13 DEF Next

\* All members hear one conversation: a client gets the frames broadcast since
\* it joined, in that order, none twice and none left out, up to damage.
THEOREM OneConversation == Spec => []SameConversation
<1>1. Init => RoomInv /\ InConversation
  BY InitRoomInv, InitInConversation
<1>2. RoomInv /\ InConversation /\ [Next]_vars => RoomInv' /\ InConversation'
  <2> SUFFICES ASSUME RoomInv, InConversation, [Next]_vars PROVE RoomInv' /\ InConversation'
    OBVIOUS
  <2>1. RoomInv' /\ ServerFacts
    BY NextRoomInv
  <2>2. InConversation'
    BY <2>1, NextInConversation DEF RoomInv
  <2>3. QED
    BY <2>1, <2>2
<1>3. RoomInv /\ InConversation => SameConversation
  <2> SUFFICES ASSUME RoomInv, InConversation, NEW c \in Conns, NEW i \in DOMAIN wire[c]
               PROVE  /\ joined[c] + i <= Len(log)
                      /\ wire[c][i] \in {log[joined[c] + i], Junk}
    BY DEF SameConversation
  <2>1. i \in 1..Len(wire[c])
    <3>1. wire[c] \in Seq(Frames \cup {Junk})
      BY ChatTypes DEF RoomInv
    <3>2. QED
      BY <3>1
  <2>2. QED
    BY <2>1 DEF InConversation, Heard
<1>4. QED
  BY <1>1, <1>2, <1>3, PTL DEF Spec
-----------------------------------------------------------------------------
(***************************************************************************)
(* The order of what is said.                                              *)
(***************************************************************************)
\* What was said before this is said before the next.
LEMMA BeforeNext ==
  ASSUME NEW n \in Nat
  PROVE  /\ \A a \in Texts : Before(a, n + 1) => Before(a, (n + 1) + 1)
         /\ Before(n + 1, (n + 1) + 1)
         /\ \A a : Before(a, Junk) /\ Before(Junk, a)
<1>1. n + 1 # Junk
  BY ChatAssumption
<1>2. \A a \in Texts : a = Junk \/ a \in Nat
  BY ChatAssumption DEF Texts
<1>3. QED
  BY <1>1, <1>2 DEF Before

\* Nothing happened to c that matters to the order.
LEMMA StaysInOrder ==
  ASSUME NEW c \in Conns, InOrder(c),
         log' = log, said' = said, stream'[c] = stream[c],
         MaySpeakAs(c)' \subseteq MaySpeakAs(c) \/ stream[c] = <<>>,
         object'[c] = "unborn" \/ (c = accepting' /\ accepted' # "ok") => stream[c] = <<>>
  PROVE  InOrder(c)'
<1>1. stream[c] = <<>> => 1..Len(stream[c]) = {}
  BY Len(<<>>) = 0
<1>2. \A i \in 1..Len(log), k \in 1..Len(stream[c]) :
        log[i].from \in MaySpeakAs(c)' => Before(log[i].text, stream[c][k])
  BY <1>1 DEF InOrder
<1>3. QED
  BY <1>2 DEF InOrder, Before

\* A step that leaves the server and the streams alone.
LEMMA QuietInOrder ==
  ASSUME AllInOrder,
         UNCHANGED <<log, said, stream, m_tcp_conn_map, m_id, object, accepting, accepted>>
  PROVE  AllInOrder'
<1>1. LogInOrder'
  BY DEF AllInOrder, LogInOrder, Before
<1>2. ASSUME NEW c \in Conns
      PROVE  InOrder(c)'
  <2>1. InOrder(c) /\ MaySpeakAs(c)' = MaySpeakAs(c)
    BY DEF AllInOrder, MaySpeakAs, Server!Mapped
  <2>2. object'[c] = "unborn" \/ (c = accepting' /\ accepted' # "ok") => stream[c] = <<>>
    BY <2>1 DEF InOrder
  <2>3. QED
    BY <2>1, <2>2, StaysInOrder
<1>3. QED
  BY <1>1, <1>2 DEF AllInOrder

\* The types that matter here.
LEMMA OrderTypes ==
  ASSUME ChatInv
  PROVE  /\ said \in Nat
         /\ Len(log) \in Nat /\ log \in Seq(Frames)
         /\ \A i \in 1..Len(log) : log[i].text \in Texts /\ log[i].from \in Server!Ids
         /\ \A c \in Conns : /\ stream[c] \in Seq(Texts) /\ Len(stream[c]) \in Nat
                             /\ \A k \in 1..Len(stream[c]) : stream[c][k] \in Texts
<1>1. said \in Nat /\ log \in Seq(Frames)
  BY ChatAssumption DEF ChatInv, WritingWhileQueued, TypeOK
<1>2. Len(log) \in Nat /\ \A i \in 1..Len(log) : log[i] \in Frames
  BY <1>1
<1>3. \A f \in Frames : f.text \in Texts /\ f.from \in Server!Ids
  BY DEF Frames
<1>4. \A c \in Conns : stream[c] \in Seq(Texts)
  BY DEF ChatInv, WritingWhileQueued, TypeOK
<1>5. QED
  BY <1>1, <1>2, <1>3, <1>4

\* A message is sent: it comes after everything said so far.
LEMMA SayInOrder ==
  ASSUME ChatInv, ServerFacts, AllInOrder, NEW e \in Conns, Say(e)
  PROVE  AllInOrder'
<1> DEFINE x == IF framed[e] THEN said + 1 ELSE Junk
<1>1. /\ said' = said + 1 /\ is_open[e]
      /\ \/ stream' = [stream EXCEPT ![e] = Append(@, x)]
         \/ UNCHANGED stream
      /\ UNCHANGED <<log, m_tcp_conn_map, m_id, object, accepting, accepted>>
  BY DEF Say, serverVars, acceptVars, writeVars
<1>2. /\ said \in Nat
      /\ \A i \in 1..Len(log) : log[i].text \in Texts
      /\ \A c \in Conns : /\ stream[c] \in Seq(Texts) /\ Len(stream[c]) \in Nat
                          /\ \A k \in 1..Len(stream[c]) : stream[c][k] \in Texts
  BY OrderTypes
<1>3. x \in Texts /\ x \in {said + 1, Junk}
  <2>1. said < MaxSays
    BY DEF Say
  <2>2. QED
    BY <1>2, <2>1, ChatAssumption DEF Texts
<1>4. /\ \A a \in Texts : Before(a, said + 1) => Before(a, (said + 1) + 1)
      /\ \A a : Before(a, said + 1) => Before(a, x)
      /\ Before(x, (said + 1) + 1)
  BY <1>2, <1>3, BeforeNext
<1> HIDE DEF x
<1>5. LogInOrder'
  <2>1. LogInOrder
    BY DEF AllInOrder
  <2>2. \A i \in 1..Len(log) : Before(log[i].text, said' + 1)
    BY <1>1, <1>2, <1>4, <2>1 DEF LogInOrder
  <2>3. QED
    BY <1>1, <2>1, <2>2 DEF LogInOrder, Before
<1>6. ASSUME NEW c \in Conns
      PROVE  InOrder(c)'
  <2>1. InOrder(c) /\ MaySpeakAs(c)' = MaySpeakAs(c)
    BY <1>1 DEF AllInOrder, MaySpeakAs, Server!Mapped
  <2>2. LogInOrder
    BY DEF AllInOrder
  <2>3. CASE stream'[c] = stream[c]
    <3>1. \A k \in 1..Len(stream[c]) : Before(stream[c][k], said' + 1)
      BY <1>1, <1>2, <1>4, <2>1 DEF InOrder
    <3>2. QED
      BY <1>1, <2>1, <2>3, <3>1 DEF InOrder, Before
  <2>4. CASE c = e /\ stream'[c] = Append(stream[c], x)
    <3> DEFINE n == Len(stream[c])
    <3>1. /\ n \in Nat /\ Len(stream'[c]) = n + 1 /\ stream'[c][n + 1] = x
          /\ \A k \in 1..n : stream'[c][k] = stream[c][k]
      BY <1>2, <1>3, <2>4, AppendProperties
    <3> HIDE DEF n
    <3>2. \A k \in 1..(n + 1) : k = n + 1 \/ k \in 1..n
      BY <3>1
    <3>3. \A k \in 1..n : Before(stream[c][k], said + 1) /\ Before(stream[c][k], x)
      BY <1>4, <2>1 DEF InOrder, n
    <3>4. \A k \in 1..(n + 1) : Before(stream'[c][k], said' + 1)
      BY <1>1, <1>2, <1>4, <3>1, <3>2, <3>3 DEF n
    <3>5. \A j, k \in 1..(n + 1) : j < k => Before(stream'[c][j], stream'[c][k])
      <4> SUFFICES ASSUME NEW j \in 1..(n + 1), NEW k \in 1..(n + 1), j < k
                   PROVE  Before(stream'[c][j], stream'[c][k])
        OBVIOUS
      <4>1. j \in 1..n
        BY <3>1
      <4>2. CASE k = n + 1
        BY <3>1, <3>3, <4>1, <4>2
      <4>3. CASE k \in 1..n
        BY <2>1, <3>1, <4>1, <4>3 DEF InOrder, n
      <4>4. QED
        BY <3>2, <4>2, <4>3
    <3>6. \A i \in 1..Len(log), k \in 1..(n + 1) :
             log[i].from \in MaySpeakAs(c) => Before(log[i].text, stream'[c][k])
      <4> SUFFICES ASSUME NEW i \in 1..Len(log), NEW k \in 1..(n + 1),
                          log[i].from \in MaySpeakAs(c)
                   PROVE  Before(log[i].text, stream'[c][k])
        OBVIOUS
      <4>1. CASE k = n + 1
        BY <1>4, <2>2, <3>1, <4>1 DEF LogInOrder
      <4>2. CASE k \in 1..n
        BY <2>1, <3>1, <4>2 DEF InOrder, n
      <4>3. QED
        BY <3>2, <4>1, <4>2
    <3>7. ~(object[c] = "unborn" \/ (c = accepting /\ accepted # "ok"))
      BY <1>1, <2>4 DEF ServerFacts
    <3>8. QED
      BY <1>1, <2>1, <3>1, <3>4, <3>5, <3>6, <3>7 DEF InOrder, Before
  <2>5. QED
    BY <1>1, <2>3, <2>4 DEF ChatInv, WritingWhileQueued, TypeOK
<1>7. QED
  BY <1>5, <1>6 DEF AllInOrder

\* A read cut short leaves nothing of what was said in the stream.
LEMMA CutShortInOrder ==
  ASSUME ChatInv, AllInOrder, NEW e \in Conns, NEW n \in 1..MaxJunk, ReadCutShort(e, n)
  PROVE  AllInOrder'
<1>1. /\ stream[e] # <<>> /\ stream' = [stream EXCEPT ![e] = [k \in 1..n |-> Junk]]
      /\ UNCHANGED <<log, said, m_tcp_conn_map, m_id, object, accepting, accepted>>
  BY DEF ReadCutShort, serverVars, acceptVars, writeVars
<1>2. LogInOrder'
  BY <1>1 DEF AllInOrder, LogInOrder, Before
<1>3. ASSUME NEW c \in Conns
      PROVE  InOrder(c)'
  <2>1. InOrder(c) /\ MaySpeakAs(c)' = MaySpeakAs(c)
    BY <1>1 DEF AllInOrder, MaySpeakAs, Server!Mapped
  <2>2. CASE c = e
    <3>1. /\ \A k \in 1..Len(stream'[c]) : stream'[c][k] = Junk
      <4>1. stream'[c] = [k \in 1..n |-> Junk]
        BY <1>1, <2>2 DEF ChatInv, WritingWhileQueued, TypeOK
      <4>2. n \in Nat
        BY ChatAssumption
      <4>3. Len([k \in 1..n |-> Junk]) = n
        BY <4>2
      <4>4. QED
        BY <4>1, <4>3
    <3>2. ~(object[c] = "unborn" \/ (c = accepting /\ accepted # "ok"))
      BY <1>1, <2>1, <2>2 DEF InOrder
    <3>3. QED
      BY <1>1, <3>1, <3>2 DEF InOrder, Before
  <2>3. CASE c # e
    <3>1. stream'[c] = stream[c]
      BY <1>1, <2>3 DEF ChatInv, WritingWhileQueued, TypeOK
    <3>2. object'[c] = "unborn" \/ (c = accepting' /\ accepted' # "ok") => stream[c] = <<>>
      BY <1>1, <2>1 DEF InOrder
    <3>3. QED
      BY <1>1, <2>1, <3>1, <3>2, StaysInOrder
  <2>4. QED
    BY <2>2, <2>3
<1>4. QED
  BY <1>2, <1>3 DEF AllInOrder

\* A message is broadcast: it comes after what was broadcast under the id of
\* its sender, and no other connection speaks as that id.
LEMMA BodyInOrder ==
  ASSUME ChatInv, ServerFacts, AllInOrder, NEW e \in Conns, NEW late, BodyHandler(e, late)
  PROVE  AllInOrder'
<1> DEFINE x == stream[e][1]
           frame == Guest(e, x)
           n == Len(log)
<1>1. /\ e \in Server!Mapped /\ stream[e] # <<>> /\ frame \in Frames
      /\ stream' = [stream EXCEPT ![e] = Tail(@)]
      /\ broadcast(frame, late)
      /\ UNCHANGED <<said, m_tcp_conn_map, m_id, object, accepting, accepted>>
  BY BodyEffect DEF BodyHandler, serverVars, acceptVars
<1>2. frame.from = m_id[e] /\ frame.text = x
  BY DEF Guest
<1>3. /\ said \in Nat /\ n \in Nat /\ log \in Seq(Frames)
      /\ \A c \in Conns : stream[c] \in Seq(Texts) /\ Len(stream[c]) \in Nat
  BY OrderTypes
<1>4. /\ Len(log') = n + 1 /\ log'[n + 1] = frame
      /\ \A i \in 1..n : log'[i] = log[i]
  BY <1>1, <1>3, AppendProperties DEF broadcast
<1> HIDE DEF frame, n, x
<1>5. \A i \in 1..(n + 1) : i = n + 1 \/ i \in 1..n
  BY <1>3
<1>6. InOrder(e) /\ LogInOrder /\ m_id[e] \in MaySpeakAs(e)
  BY <1>1 DEF AllInOrder, MaySpeakAs
<1>7. /\ 1 \in 1..Len(stream[e])
      /\ Len(Tail(stream[e])) = Len(stream[e]) - 1
      /\ \A k \in 1..Len(Tail(stream[e])) : Tail(stream[e])[k] = stream[e][k + 1]
      /\ \A k \in 1..Len(Tail(stream[e])) : k + 1 \in 1..Len(stream[e]) /\ 1 < k + 1
  <2>1. /\ Len(stream[e]) \in Nat /\ Len(stream[e]) >= 1 /\ Len(Tail(stream[e])) = Len(stream[e]) - 1
        /\ \A k \in 1..Len(Tail(stream[e])) : Tail(stream[e])[k] = stream[e][k + 1]
    BY <1>1, <1>3, TailFacts
  <2>2. QED
    BY <2>1
<1>8. Before(x, said + 1)
  BY <1>6, <1>7 DEF InOrder, x
<1>9. \A i \in 1..n : log[i].from = m_id[e] => Before(log[i].text, x)
  BY <1>6, <1>7 DEF InOrder, x, n
<1>10. LogInOrder'
  <2>1. \A i \in 1..(n + 1) : Before(log'[i].text, said + 1)
    BY <1>2, <1>4, <1>5, <1>6, <1>8 DEF LogInOrder, n
  <2>2. ASSUME NEW i \in 1..(n + 1), NEW j \in 1..(n + 1), i < j, log'[i].from = log'[j].from
        PROVE  Before(log'[i].text, log'[j].text)
    <3>1. i \in 1..n
      BY <1>3, <2>2
    <3>2. CASE j = n + 1
      BY <1>2, <1>4, <1>9, <2>2, <3>1, <3>2
    <3>3. CASE j \in 1..n
      BY <1>4, <1>6, <2>2, <3>1, <3>3 DEF LogInOrder, n
    <3>4. QED
      BY <1>5, <3>2, <3>3
  <2>3. QED
    BY <1>1, <1>4, <2>1, <2>2 DEF LogInOrder, Before
<1>11. ASSUME NEW c \in Conns
       PROVE  InOrder(c)'
  <2>1. InOrder(c) /\ MaySpeakAs(c)' = MaySpeakAs(c)
    BY <1>1 DEF AllInOrder, MaySpeakAs, Server!Mapped
  <2>2. CASE c = e
    <3> DEFINE rest == Tail(stream[e])
    <3>1. stream'[c] = rest
      BY <1>1, <2>2 DEF ChatInv, WritingWhileQueued, TypeOK
    <3>2. /\ Len(rest) \in Nat
          /\ \A k \in 1..Len(rest) : rest[k] = stream[e][k + 1] /\ k + 1 \in 1..Len(stream[e])
                                     /\ 1 < k + 1
      BY <1>3, <1>7
    <3> HIDE DEF rest
    <3>3. \A k \in 1..Len(rest) : Before(rest[k], said + 1) /\ Before(x, rest[k])
      BY <1>6, <1>7, <3>2 DEF InOrder, x
    <3>4. \A j, k \in 1..Len(rest) : j < k => Before(rest[j], rest[k])
      <4>1. \A j, k \in 1..Len(rest) : j < k => j + 1 < k + 1
        BY <3>2
      <4>2. QED
        BY <1>6, <3>2, <4>1 DEF InOrder
    <3>5. ASSUME NEW i \in 1..(n + 1), NEW k \in 1..Len(rest), log'[i].from \in MaySpeakAs(c)
          PROVE  Before(log'[i].text, rest[k])
      <4>1. CASE i = n + 1
        BY <1>2, <1>4, <3>3, <4>1
      <4>2. CASE i \in 1..n
        BY <1>4, <2>1, <2>2, <3>2, <3>5, <4>2 DEF InOrder, n
      <4>3. QED
        BY <1>5, <4>1, <4>2
    <3>6. ~(object[c] = "unborn" \/ (c = accepting /\ accepted # "ok"))
      BY <1>1, <2>1, <2>2 DEF InOrder
    <3>7. QED
      BY <1>1, <1>4, <2>1, <3>1, <3>3, <3>4, <3>5, <3>6 DEF InOrder, Before
  <2>3. CASE c # e
    <3>1. stream'[c] = stream[c]
      BY <1>1, <2>3 DEF ChatInv, WritingWhileQueued, TypeOK
    <3>2. m_id[e] \notin MaySpeakAs(c)
      <4>1. m_tcp_conn_map[m_id[e]] = e /\ e # NoConn
        BY <1>1, ChatAssumption DEF ServerFacts
      <4>2. c \in Server!Mapped => m_tcp_conn_map[m_id[c]] = c
        BY DEF ServerFacts
      <4>3. QED
        BY <2>3, <4>1, <4>2 DEF MaySpeakAs
    <3>3. ASSUME NEW i \in 1..(n + 1), NEW k \in 1..Len(stream[c]), log'[i].from \in MaySpeakAs(c)
          PROVE  Before(log'[i].text, stream[c][k])
      <4>1. i \in 1..n
        BY <1>2, <1>4, <1>5, <3>2, <3>3
      <4>2. QED
        BY <1>4, <2>1, <3>3, <4>1 DEF InOrder, n
    <3>4. QED
      BY <1>1, <1>4, <2>1, <3>1, <3>3 DEF InOrder, Before
  <2>4. QED
    BY <2>2, <2>3
<1>12. QED
  BY <1>10, <1>11 DEF AllInOrder

\* A new member takes an id nobody has; a stream outlives no id, as ids are
\* given back only when the accept is pending.
LEMMA ServerInOrder ==
  ASSUME ChatInv, ServerFacts, AllInOrder,
         (\E new \in Conns : AcceptHandler(new)) \/ Accepting \/ Looping
  PROVE  AllInOrder'
<1>1. UNCHANGED <<stream, said, log>>
  BY AcceptEffect, ServerEffect
<1>2. LogInOrder'
  BY <1>1 DEF AllInOrder, LogInOrder, Before
<1>3. ASSUME NEW new \in Conns, AcceptHandler(new), NEW c \in Conns
      PROVE  InOrder(c)'
  <2>1. InOrder(c)
    BY DEF AllInOrder
  <2>2. /\ accepting \in Conns /\ new # accepting
        /\ accepting \notin Server!Mapped /\ object[new] = "unborn"
        /\ accepting' = new /\ accepted' = "pending"
        /\ \A d \in Conns \ {accepting} : m_id'[d] = m_id[d]
        /\ \/ /\ m_tcp_conn_map[m_next_conn_id] = NoConn
              /\ m_id'[accepting] = m_next_conn_id
              /\ m_tcp_conn_map' = [m_tcp_conn_map EXCEPT ![m_next_conn_id] = accepting]
           \/ UNCHANGED m_tcp_conn_map
        /\ \A d \in Conns : object'[d] = "unborn" => object[d] = "unborn"
    BY <1>3, AcceptEffect
  <2>3. m_next_conn_id \in Server!Ids /\ m_tcp_conn_map \in [Server!Ids -> Conns \cup {NoConn}]
    BY DEF ServerFacts
  <2>4. object'[c] = "unborn" \/ (c = accepting' /\ accepted' # "ok") => stream[c] = <<>>
    BY <2>1, <2>2 DEF InOrder
  <2>5. MaySpeakAs(c)' \subseteq MaySpeakAs(c) \/ stream[c] = <<>>
    <3>1. CASE c = new
      BY <2>1, <2>2, <3>1 DEF InOrder
    <3>2. CASE c = accepting
      <4>1. MaySpeakAs(c) = {id \in Server!Ids : m_tcp_conn_map[id] = NoConn}
        BY <2>2, <3>2 DEF MaySpeakAs
      <4>2. CASE UNCHANGED m_tcp_conn_map
        <5>1. c \notin Server!Mapped' /\ c # accepting'
          BY <2>2, <3>2, <4>2 DEF Server!Mapped
        <5>2. QED
          BY <5>1 DEF MaySpeakAs
      <4>3. CASE /\ m_tcp_conn_map[m_next_conn_id] = NoConn
                 /\ m_id'[accepting] = m_next_conn_id
                 /\ m_tcp_conn_map' = [m_tcp_conn_map EXCEPT ![m_next_conn_id] = accepting]
        <5>1. c \in Server!Mapped'
          BY <2>3, <3>2, <4>3 DEF Server!Mapped
        <5>2. MaySpeakAs(c)' = {m_next_conn_id}
          BY <3>2, <4>3, <5>1 DEF MaySpeakAs
        <5>3. QED
          BY <2>3, <4>1, <4>3, <5>2
      <4>4. QED
        BY <2>2, <4>2, <4>3
    <3>3. CASE c # new /\ c # accepting
      <4>1. c \in Server!Mapped' => c \in Server!Mapped
        BY <2>2, <2>3, <3>3 DEF Server!Mapped
      <4>2. m_id'[c] = m_id[c] /\ c # accepting'
        BY <2>2, <3>3
      <4>3. QED
        BY <4>1, <4>2 DEF MaySpeakAs
    <3>4. QED
      BY <3>1, <3>2, <3>3
  <2>6. QED
    BY <1>1, <2>1, <2>4, <2>5, StaysInOrder
<1>4. ASSUME Accepting \/ Looping, NEW c \in Conns
      PROVE  InOrder(c)'
  <2>1. InOrder(c)
    BY DEF AllInOrder
  <2>2. /\ UNCHANGED m_id
        /\ \/ UNCHANGED m_tcp_conn_map
           \/ /\ loop = "remove" /\ UNCHANGED <<accepting, accepted>>
              /\ m_tcp_conn_map' = [id \in Server!Ids |-> IF \E d \in invalid : m_id[d] = id
                                                           THEN NoConn ELSE m_tcp_conn_map[id]]
        /\ accepting' = accepting \/ accepting' = NoConn
        /\ \A d \in Conns : object'[d] = "unborn" => object[d] = "unborn"
        /\ accepted = "ok" /\ accepting' # NoConn => accepted' = "ok"
    BY <1>4, ServerEffect
  <2>3. c # NoConn
    BY ChatAssumption
  <2>4. object'[c] = "unborn" \/ (c = accepting' /\ accepted' # "ok") => stream[c] = <<>>
    BY <2>1, <2>2, <2>3 DEF InOrder
  <2>5. MaySpeakAs(c)' \subseteq MaySpeakAs(c) \/ stream[c] = <<>>
    <3>1. CASE UNCHANGED m_tcp_conn_map
      BY <2>2, <2>3, <3>1 DEF MaySpeakAs, Server!Mapped
    <3>2. CASE /\ loop = "remove" /\ UNCHANGED <<accepting, accepted>>
               /\ m_tcp_conn_map' = [id \in Server!Ids |-> IF \E d \in invalid : m_id[d] = id
                                                            THEN NoConn ELSE m_tcp_conn_map[id]]
      <4>1. c \in Server!Mapped' => c \in Server!Mapped
        BY <2>3, <3>2 DEF Server!Mapped
      <4>2. c = accepting => stream[c] = <<>>
        BY <2>1, <3>2 DEF ServerFacts, InOrder
      <4>3. c # accepting => MaySpeakAs(c)' \subseteq MaySpeakAs(c)
        BY <2>2, <3>2, <4>1 DEF MaySpeakAs
      <4>4. QED
        BY <4>2, <4>3
    <3>3. QED
      BY <2>2, <3>1, <3>2
  <2>6. QED
    BY <1>1, <2>1, <2>4, <2>5, StaysInOrder
<1>5. QED
  BY <1>2, <1>3, <1>4 DEF AllInOrder

LEMMA InitInOrder == Init => AllInOrder
<1> SUFFICES ASSUME Init PROVE AllInOrder
  OBVIOUS
<1>1. log = <<>> /\ Len(<<>>) = 0 /\ \A c \in Conns : stream[c] = <<>>
  BY DEF Init
<1>2. QED
  BY <1>1 DEF AllInOrder, LogInOrder, InOrder

LEMMA NextInOrder ==
  ASSUME ChatInv, ServerFacts, AllInOrder, [Next]_vars
  PROVE  AllInOrder'
<1> USE DEF serverVars, loopVars, acceptVars, readVars, writeVars
<1>1. CASE UNCHANGED vars
  BY <1>1, QuietInOrder DEF vars
<1>2. ASSUME NEW e \in Conns,
             \/ ReadCompletes(e) \/ ReadFails(e) \/ HeaderHandler(e) \/ ReadErrorHandler(e)
      PROVE  AllInOrder'
  BY <1>2, QuietInOrder DEF ReadCompletes, ReadFails, HeaderHandler, ReadErrorHandler
<1>3. ASSUME NEW e \in Conns, NEW i,
             \/ WriteCompletes(e, i) \/ WriteFails(e, i) \/ WriteErrorHandler(e, i)
             \/ \E late : WriteHandler(e, i, late)
      PROVE  AllInOrder'
  BY <1>3, QuietInOrder DEF WriteCompletes, WriteFails, WriteErrorHandler, WriteHandler
<1>4. CASE Network
  BY <1>2, <1>3, <1>4, SayInOrder, CutShortInOrder DEF Network
<1>5. CASE ReadHandlers
  BY <1>2, <1>5, BodyInOrder DEF ReadHandlers
<1>6. ASSUME NEW e \in Conns, WriteHandlers(e)
      PROVE  AllInOrder'
  BY <1>3, <1>6 DEF WriteHandlers
<1>7. CASE (\E new \in Conns : AcceptHandler(new)) \/ Accepting \/ Looping
  BY <1>7, ServerInOrder
<1>8. QED
  BY <1>1, <1>4, <1>5, <1>6, <1>7 DEF Next

\* What one guest said is broadcast in the order it was said and once, even
\* when ids wrap around and are used again.
THEOREM GuestsSpeakInOrder == Spec => []SpokenInOrder
<1>1. Init => RoomInv /\ AllInOrder
  BY InitRoomInv, InitInOrder
<1>2. RoomInv /\ AllInOrder /\ [Next]_vars => RoomInv' /\ AllInOrder'
  <2> SUFFICES ASSUME RoomInv, AllInOrder, [Next]_vars PROVE RoomInv' /\ AllInOrder'
    OBVIOUS
  <2>1. RoomInv' /\ ServerFacts
    BY NextRoomInv
  <2>2. AllInOrder'
    BY <2>1, NextInOrder DEF RoomInv
  <2>3. QED
    BY <2>1, <2>2
<1>3. RoomInv /\ AllInOrder => SpokenInOrder
  <2> SUFFICES ASSUME RoomInv, AllInOrder PROVE SpokenInOrder
    OBVIOUS
  <2>1. log \in Seq(Frames)
    BY OrderTypes DEF RoomInv
  <2>2. DOMAIN log = 1..Len(log)
    BY <2>1
  <2>3. QED
    BY <2>2 DEF AllInOrder, LogInOrder, Before, SpokenInOrder
<1>4. QED
  BY <1>1, <1>2, <1>3, PTL DEF Spec
=============================================================================
