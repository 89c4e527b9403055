------------------------ MODULE ChatRoomClientProofs ------------------------
(***************************************************************************)
(* Proofs about ChatRoomClient, for any number of messages of the server   *)
(* and of the client.                                                      *)
(***************************************************************************)
EXTENDS ChatRoomClient, SequenceTheorems, TLAPS

\* One write at most, always of the message in front of the queue; on an
\* open socket a queued message means a write.
OneWriteAtATime ==
  /\ Len(wr) <= 1
  /\ wr # <<>> => /\ m_send_queue # <<>>
                  /\ wr[1].frame \in {m_send_queue[1], Junk}
  /\ is_open /\ m_send_queue # <<>> => wr # <<>>

\* The queue holds the last messages composed, in their order.
QueueIsARun ==
  /\ Len(m_send_queue) <= composed
  /\ \A k \in 1..Len(m_send_queue) :
        m_send_queue[k] = composed - Len(m_send_queue) + k

\* Every message composed went out or is queued; one that went out and whose
\* handler has not run is both.
Unhandled == IF wr # <<>> /\ wr[1].st = "done" THEN 1 ELSE 0

WireIsTheRest ==
  /\ Len(wire) = composed - Len(m_send_queue) + Unhandled
  /\ \A k \in 1..Len(wire) : wire[k] \in {k, Junk}

\* Nothing is said or read before the connection is there.
ConnectComesFirst ==
  connecting # "none" => /\ composed = 0
                         /\ rd = NoRead /\ wr = <<>> /\ m_send_queue = <<>>

\* On a closed socket nothing waits.
ClosedWaitsForNothing ==
  ~is_open => /\ connecting # "waiting"
              /\ rd.st # "waiting"
              /\ wr # <<>> => wr[1].st # "waiting"

\* Between two polls no handler is ready, except that of a connect which
\* could not open the socket.
NothingReadyAtTest ==
  loop = "test" => /\ connecting # "done"
                   /\ connecting = "failed" => ~is_open
                   /\ ~Ready(rd.st)
                   /\ wr # <<>> => ~Ready(wr[1].st)

\* A read is done only with something in the stream.
ReadHasBytes == rd.st = "done" => stream > 0

ClientInv ==
  /\ TypeOK
  /\ OneWriteAtATime
  /\ QueueIsARun
  /\ WireIsTheRest
  /\ ConnectComesFirst
  /\ ClosedWaitsForNothing
  /\ NothingReadyAtTest
  /\ ReadHasBytes
  /\ QuietAtReturn

\* A write as it is under way.
Writes == [frame : Nat \cup {Junk}, st : OpStates]
-----------------------------------------------------------------------------
\* A sequence of writes of which there is at most one.
LEMMA OneOrNone ==
  ASSUME NEW ws \in Seq(Writes), Len(ws) <= 1
  PROVE  \/ ws = <<>>
         \/ /\ Len(ws) = 1 /\ DOMAIN ws = {1}
            /\ ws[1] \in Writes /\ ws = <<ws[1]>>
<1>1. Len(ws) \in Nat /\ DOMAIN ws = 1..Len(ws)
  BY LenProperties
<1>2. CASE Len(ws) = 0
  BY <1>2, EmptySeq
<1>3. CASE Len(ws) = 1
  <2>1. ws[1] \in Writes /\ DOMAIN ws = {1}
    BY <1>1, <1>3, ElementOfSeq
  <2>2. ws = <<ws[1]>>
    BY <1>3, <2>1
  <2>3. QED
    BY <1>3, <2>1, <2>2
<1>4. QED
  BY <1>1, <1>2, <1>3

\* Taking the only write out leaves none.
LEMMA WithoutOnly == ASSUME NEW w PROVE Without(<<w>>, 1) = <<>>
<1>1. SubSeq(<<w>>, 1, 0) = <<>> /\ SubSeq(<<w>>, 2, 1) = <<>>
  BY SubSeqEmpty
<1>2. Len(<<w>>) = 1 /\ 1 - 1 = 0 /\ 1 + 1 = 2
  OBVIOUS
<1>3. <<>> \o <<>> = <<>>
  BY EmptySeq, ConcatEmptySeq
<1>4. QED
  BY <1>1, <1>2, <1>3 DEF Without

\* An aborted write does not wait, keeps its frame, and is done if it was.
LEMMA AbortWrite ==
  ASSUME NEW w \in Writes
  PROVE  /\ Abort(w) \in Writes /\ Abort(w).frame = w.frame
         /\ Abort(w).st # "waiting"
         /\ (Abort(w).st = "done") <=> (w.st = "done")
  BY DEF Abort, Writes, OpStates

\* The initial states satisfy the invariant.
LEMMA InitClientInv == Init => ClientInv
<1> SUFFICES ASSUME Init PROVE ClientInv
  OBVIOUS
<1> USE DEF Init
<1>1. /\ <<>> \in Seq(Writes) /\ <<>> \in Seq(1..composed)
      /\ <<>> \in Seq(Nat \cup {Junk}) /\ Len(<<>>) = 0
  BY EmptySeq
<1>2. TypeOK
  BY <1>1, ClientAssumption DEF TypeOK, Writes, OpStates
<1>3. OneWriteAtATime /\ QueueIsARun /\ WireIsTheRest
  <2>1. /\ Len(wr) = 0 /\ Len(m_send_queue) = 0 /\ Len(wire) = 0
        /\ composed = 0 /\ Unhandled = 0
    BY <1>1 DEF Unhandled
  <2>2. OneWriteAtATime
    BY <2>1 DEF OneWriteAtATime
  <2>3. QueueIsARun
    BY <2>1 DEF QueueIsARun
  <2>4. WireIsTheRest
    <3>1. 1..Len(wire) = {}
      BY <2>1
    <3> HIDE DEF Init
    <3>2. Len(wire) = composed - Len(m_send_queue) + Unhandled
      BY <2>1
    <3>3. QED
      BY <3>1, <3>2 DEF WireIsTheRest
  <2>5. QED
    BY <2>2, <2>3, <2>4
<1>4. ConnectComesFirst /\ ClosedWaitsForNothing /\ NothingReadyAtTest
      /\ ReadHasBytes /\ QuietAtReturn
  BY DEF ConnectComesFirst, ClosedWaitsForNothing, NothingReadyAtTest,
         ReadHasBytes, QuietAtReturn, NoRead, Ready
<1>5. QED
  BY <1>2, <1>3, <1>4 DEF ClientInv
-----------------------------------------------------------------------------
(***************************************************************************)
(* What the steps do to the sending side.                                  *)
(***************************************************************************)
SendTypes ==
  /\ wr \in Seq(Writes)
  /\ m_send_queue \in Seq(1..composed)
  /\ composed \in Nat
  /\ wire \in Seq(Nat \cup {Junk})

SendInv ==
  /\ SendTypes
  /\ OneWriteAtATime
  /\ QueueIsARun
  /\ WireIsTheRest
  /\ ~is_open => (wr # <<>> => wr[1].st # "waiting")

\* The sending side of the invariant.
LEMMA ClientSendInv == ClientInv => SendInv /\ is_open \in BOOLEAN
  BY DEF ClientInv, TypeOK, SendInv, SendTypes, Writes, ClosedWaitsForNothing

\* There is no write, or one.
LEMMA WriteShape ==
  ASSUME SendInv
  PROVE  \/ wr = <<>>
         \/ /\ Len(wr) = 1 /\ DOMAIN wr = {1}
            /\ wr[1] \in Writes /\ wr = <<wr[1]>>
  BY OneOrNone DEF SendInv, SendTypes, OneWriteAtATime

\* A write that begins is of the frame it was given, or damaged, and waits
\* only on an open socket.
LEMMA WriteBegins ==
  ASSUME NEW frame \in Nat, NEW late \in BOOLEAN
  PROVE  /\ Write(frame, late) \in Writes
         /\ Write(frame, late).frame \in {frame, Junk}
         /\ Write(frame, late).st # "done"
         /\ ~is_open => Write(frame, late).st # "waiting"
  BY DEF Write, Writes, OpStates

\* send_random_msg extends the queue, and writes if it was empty.
LEMMA SendKeeps ==
  ASSUME SendInv, is_open \in BOOLEAN, NEW late \in BOOLEAN,
         send_random_msg(late), UNCHANGED <<is_open, wire>>
  PROVE  SendInv'
<1> DEFINE n == Len(m_send_queue)
<1>1. /\ composed \in Nat /\ composed' = composed + 1 /\ composed' \in Nat
      /\ n \in Nat /\ n <= composed
      /\ m_send_queue \in Seq(1..composed')
      /\ composed' \in 1..composed'
  <2>1. composed' = composed + 1 /\ composed \in Nat
    BY DEF send_random_msg, SendInv, SendTypes
  <2>2. m_send_queue \in Seq(1..composed')
    BY <2>1, SeqMonotonic DEF SendInv, SendTypes
  <2>3. QED
    BY <2>1, <2>2, LenProperties DEF SendInv, QueueIsARun
<1>2. /\ m_send_queue' = Append(m_send_queue, composed')
      /\ m_send_queue' \in Seq(1..composed')
      /\ Len(m_send_queue') = n + 1
      /\ \A k \in 1..n : m_send_queue'[k] = m_send_queue[k]
      /\ m_send_queue'[n + 1] = composed'
      /\ m_send_queue' # <<>>
  BY <1>1, AppendProperties DEF send_random_msg
<1>3. QueueIsARun'
  <2>1. ASSUME NEW k \in 1..(n + 1)
        PROVE  m_send_queue'[k] = composed' - (n + 1) + k
    <3>1. CASE k = n + 1
      BY <1>1, <1>2, <3>1
    <3>2. CASE k \in 1..n
      <4>1. m_send_queue[k] = composed - n + k
        BY <3>2 DEF SendInv, QueueIsARun
      <4>2. QED
        BY <1>1, <1>2, <3>2, <4>1
    <3>3. QED
      BY <1>1, <3>1, <3>2
  <2>2. QED
    BY <1>1, <1>2, <2>1 DEF QueueIsARun
<1>4. CASE m_send_queue = <<>>
  <2>1. wr = <<>> /\ n = 0
    BY <1>4, EmptySeq DEF SendInv, OneWriteAtATime
  <2> DEFINE w == Write(composed', late)
  <2>2. wr' = <<w>> /\ wr' \in Seq(Writes) /\ Len(wr') = 1 /\ wr'[1] = w
        /\ wr' # <<>>
    <3>1. w \in Writes
      BY <1>1, WriteBegins
    <3>2. wr' = Append(<<>>, w)
      BY <1>4, <2>1 DEF send_random_msg
    <3> HIDE DEF w
    <3>3. QED
      BY <3>1, <3>2, EmptySeq, AppendProperties
  <2>3. /\ w.frame \in {composed', Junk} /\ w.st # "done"
        /\ ~is_open => w.st # "waiting"
    BY <1>1, WriteBegins
  <2>4. SendTypes'
    BY <1>1, <1>2, <2>2 DEF SendInv, SendTypes
  <2>5. m_send_queue'[1] = composed'
    BY <1>2, <2>1
  <2> HIDE DEF w
  <2>6. OneWriteAtATime'
    BY <1>2, <2>2, <2>3, <2>5 DEF OneWriteAtATime
  <2>7. WireIsTheRest'
    <3>1. Unhandled = 0 /\ Unhandled' = 0
      BY <2>1, <2>2, <2>3 DEF Unhandled
    <3>2. QED
      BY <1>1, <1>2, <3>1 DEF SendInv, WireIsTheRest
  <2>8. QED
    BY <1>3, <2>2, <2>3, <2>4, <2>6, <2>7 DEF SendInv
<1>5. CASE m_send_queue # <<>>
  <2>1. wr' = wr /\ n \in Nat \ {0}
    BY <1>5, EmptySeq DEF send_random_msg, SendInv, SendTypes
  <2>2. m_send_queue'[1] = m_send_queue[1]
    BY <1>2, <2>1
  <2>3. SendTypes'
    BY <1>1, <1>2, <2>1 DEF SendInv, SendTypes
  <2>4. OneWriteAtATime'
    BY <1>2, <1>5, <2>1, <2>2 DEF SendInv, OneWriteAtATime
  <2>5. WireIsTheRest'
    <3>1. Unhandled' = Unhandled /\ Unhandled \in {0, 1}
      BY <2>1 DEF Unhandled
    <3>2. QED
      BY <1>1, <1>2, <3>1 DEF SendInv, WireIsTheRest
  <2>6. QED
    BY <1>3, <2>1, <2>3, <2>4, <2>5 DEF SendInv
<1>6. QED
  BY <1>4, <1>5

\* A completed write has put its frame on the wire, the next in order.
LEMMA WriteCompletesKeeps ==
  ASSUME SendInv, NEW i \in DOMAIN wr, WriteCompletes(i) PROVE SendInv'
<1> DEFINE w == wr[1]
           d == [w EXCEPT !.st = "done"]
           n == Len(m_send_queue)
<1>1. i = 1 /\ Len(wr) = 1 /\ w \in Writes /\ wr = <<w>> /\ wr # <<>>
  BY WriteShape
<1>2. d \in Writes /\ d.frame = w.frame /\ d.st = "done" /\ w.st = "waiting"
  BY <1>1 DEF WriteCompletes, Writes, OpStates
<1>3. wr' = <<d>> /\ wr' \in Seq(Writes) /\ Len(wr') = 1 /\ wr'[1] = d /\ wr' # <<>>
  <2>1. wr' = [wr EXCEPT ![1] = d]
    BY <1>1 DEF WriteCompletes
  <2> HIDE DEF d, w
  <2>2. QED
    BY <1>1, <1>2, <2>1
<1>4. wire' = Append(wire, w.frame) /\ UNCHANGED <<is_open, m_send_queue, composed>>
  BY <1>1 DEF WriteCompletes, socketVars
<1>5. /\ wire' \in Seq(Nat \cup {Junk})
      /\ Len(wire') = Len(wire) + 1
      /\ \A k \in 1..Len(wire) : wire'[k] = wire[k]
      /\ wire'[Len(wire) + 1] = w.frame
  <2>1. w.frame \in Nat \cup {Junk}
    BY <1>1 DEF Writes
  <2> HIDE DEF w
  <2>2. QED
    BY <1>4, <2>1, AppendProperties DEF SendInv, SendTypes
<1>6. /\ m_send_queue # <<>> /\ w.frame \in {m_send_queue[1], Junk}
      /\ n \in Nat \ {0} /\ composed \in Nat
      /\ m_send_queue[1] = composed - n + 1
      /\ Len(wire) = composed - n
  <2>1. m_send_queue # <<>> /\ w.frame \in {m_send_queue[1], Junk}
    BY <1>1 DEF SendInv, OneWriteAtATime
  <2>2. n \in Nat \ {0} /\ composed \in Nat
    BY <2>1, EmptySeq DEF SendInv, SendTypes
  <2>3. m_send_queue[1] = composed - n + 1
    BY <2>2 DEF SendInv, QueueIsARun
  <2>4. Len(wire) = composed - n
    BY <1>1, <1>2, <2>2 DEF SendInv, WireIsTheRest, Unhandled
  <2>5. QED
    BY <2>1, <2>2, <2>3, <2>4
<1>7. Len(wire) \in Nat
  BY LenProperties DEF SendInv, SendTypes
<1> HIDE DEF w, d
<1>8. WireIsTheRest'
  <2>1. ASSUME NEW k \in 1..Len(wire') PROVE wire'[k] \in {k, Junk}
    <3>1. CASE k = Len(wire) + 1
      BY <1>5, <1>6, <1>7, <3>1
    <3>2. CASE k # Len(wire) + 1
      <4>1. k \in 1..Len(wire)
        BY <1>5, <1>7, <3>2
      <4>2. QED
        BY <1>5, <4>1 DEF SendInv, WireIsTheRest
    <3>3. QED
      BY <3>1, <3>2
  <2>2. Len(wire') = composed - n + 1
    BY <1>5, <1>6
  <2>3. QED
    BY <1>2, <1>3, <1>4, <1>6, <2>1, <2>2 DEF WireIsTheRest, Unhandled
<1>9. SendTypes' /\ OneWriteAtATime' /\ QueueIsARun'
  BY <1>2, <1>3, <1>4, <1>5, <1>6
  DEF SendInv, SendTypes, OneWriteAtATime, QueueIsARun
<1>10. QED
  BY <1>2, <1>3, <1>8, <1>9 DEF SendInv

\* A write that fails keeps its place, with its frame not on the wire.
LEMMA WriteFailsKeeps ==
  ASSUME SendInv, NEW i \in DOMAIN wr, WriteFails(i) PROVE SendInv'
<1> DEFINE w == wr[1]
           d == [w EXCEPT !.st = "failed"]
<1>1. i = 1 /\ Len(wr) = 1 /\ w \in Writes /\ wr = <<w>> /\ wr # <<>>
  BY WriteShape
<1>2. d \in Writes /\ d.frame = w.frame /\ d.st = "failed" /\ w.st = "waiting"
  BY <1>1 DEF WriteFails, Writes, OpStates
<1>3. wr' = <<d>> /\ wr' \in Seq(Writes) /\ Len(wr') = 1 /\ wr'[1] = d /\ wr' # <<>>
  <2>1. wr' = [wr EXCEPT ![1] = d]
    BY <1>1 DEF WriteFails
  <2> HIDE DEF d, w
  <2>2. QED
    BY <1>1, <1>2, <2>1
<1>4. UNCHANGED <<is_open, m_send_queue, composed, wire>>
  BY DEF WriteFails, socketVars
<1>5. QED
  BY <1>1, <1>2, <1>3, <1>4
  DEF SendInv, SendTypes, OneWriteAtATime, QueueIsARun, WireIsTheRest, Unhandled

\* The handler of a write takes its message off the queue and writes the
\* next one.
LEMMA WriteHandlerKeeps ==
  ASSUME SendInv, is_open \in BOOLEAN, NEW i \in DOMAIN wr, NEW late \in BOOLEAN,
         WriteHandler(i, late)
  PROVE  SendInv'
<1> DEFINE n == Len(m_send_queue)
           rest == Tail(m_send_queue)
<1>1. i = 1 /\ Len(wr) = 1 /\ wr = <<wr[1]>> /\ wr # <<>> /\ wr[1].st = "done"
  BY WriteShape DEF WriteHandler
<1>2. /\ m_send_queue # <<>> /\ n \in Nat \ {0} /\ composed \in Nat /\ n <= composed
      /\ rest \in Seq(1..composed) /\ Len(rest) = n - 1
      /\ \A k \in 1..(n - 1) : rest[k] = m_send_queue[k + 1]
  <2>1. m_send_queue # <<>>
    BY <1>1 DEF SendInv, OneWriteAtATime
  <2>2. QED
    BY <2>1, EmptySeq, HeadTailProperties DEF SendInv, SendTypes, QueueIsARun
<1>3. m_send_queue' = rest /\ UNCHANGED <<is_open, composed, wire>>
      /\ Without(wr, i) = <<>>
  BY <1>1, WithoutOnly DEF WriteHandler, socketVars
<1> HIDE DEF rest
<1>4. QueueIsARun'
  <2>1. ASSUME NEW k \in 1..(n - 1) PROVE rest[k] = composed - (n - 1) + k
    <3>1. k + 1 \in 1..n
      BY <1>2
    <3>2. QED
      BY <1>2, <3>1 DEF SendInv, QueueIsARun
  <2>2. QED
    <3>1. n - 1 <= composed
      BY <1>2
    <3>2. QED
      BY <1>2, <1>3, <2>1, <3>1 DEF QueueIsARun
<1>5. Len(wire) = composed - n + 1
  BY <1>1, <1>2 DEF SendInv, WireIsTheRest, Unhandled
<1>6. CASE rest = <<>>
  <2>1. wr' = <<>> /\ n = 1
    <3>1. wr' = <<>>
      BY <1>3, <1>6 DEF WriteHandler, rest
    <3>2. Len(rest) = 0
      BY <1>6, EmptySeq
    <3>3. QED
      BY <1>2, <3>1, <3>2
  <2>2. Len(wr') = 0 /\ wr' \in Seq(Writes)
    BY <2>1, EmptySeq
  <2>3. SendTypes' /\ OneWriteAtATime'
    BY <1>2, <1>3, <1>6, <2>1, <2>2 DEF SendInv, SendTypes, OneWriteAtATime
  <2>4. WireIsTheRest'
    <3>1. Unhandled' = 0
      BY <2>1 DEF Unhandled
    <3>2. Len(wire') = composed' - Len(m_send_queue') + Unhandled'
      <4>1. n \in Int /\ composed \in Int /\ Len(m_send_queue') = n - 1
        BY <1>2, <1>3
      <4>2. wire' = wire /\ composed' = composed
        BY <1>3
      <4> HIDE DEF n
      <4>3. QED
        BY <1>5, <3>1, <4>1, <4>2
    <3>3. QED
      BY <1>3, <3>2 DEF SendInv, WireIsTheRest
  <2>5. QED
    BY <1>4, <2>1, <2>3, <2>4 DEF SendInv
<1>7. CASE rest # <<>>
  <2> DEFINE w == Write(Head(rest), late)
  <2>1. Head(rest) = rest[1] /\ rest[1] \in Nat
    BY <1>2, <1>7, HeadTailProperties, EmptySeq, ElementOfSeq
  <2>2. /\ w \in Writes /\ w.frame \in {rest[1], Junk} /\ w.st # "done"
        /\ ~is_open => w.st # "waiting"
    BY <2>1, WriteBegins
  <2>3. wr' = Append(<<>>, w)
    BY <1>3, <1>7 DEF WriteHandler, rest
  <2> HIDE DEF w
  <2>4. wr' = <<w>> /\ wr' \in Seq(Writes) /\ Len(wr') = 1 /\ wr'[1] = w
        /\ wr' # <<>>
    BY <2>2, <2>3, EmptySeq, AppendProperties
  <2>5. SendTypes' /\ OneWriteAtATime'
    BY <1>2, <1>3, <1>7, <2>2, <2>4 DEF SendInv, SendTypes, OneWriteAtATime
  <2>6. WireIsTheRest'
    <3>1. Unhandled' = 0
      BY <2>2, <2>4 DEF Unhandled
    <3>2. Len(wire') = composed' - Len(m_send_queue') + Unhandled'
      <4>1. n \in Int /\ composed \in Int /\ Len(m_send_queue') = n - 1
        BY <1>2, <1>3
      <4>2. wire' = wire /\ composed' = composed
        BY <1>3
      <4> HIDE DEF n
      <4>3. QED
        BY <1>5, <3>1, <4>1, <4>2
    <3>3. QED
      BY <1>3, <3>2 DEF SendInv, WireIsTheRest
  <2>7. QED
    BY <1>3, <1>4, <2>2, <2>4, <2>5, <2>6 DEF SendInv
<1>8. QED
  BY <1>6, <1>7

\* handle_error: of the write that is left, if there is one, only the state
\* can change, and it no longer waits.
LEMMA ErrorKeeps ==
  ASSUME SendInv, is_open \in BOOLEAN, NEW read, NEW writes,
         \/ writes = wr
         \/ writes = <<>> /\ wr # <<>> /\ wr[1].st = "failed",
         handle_error(read, writes), UNCHANGED <<m_send_queue, composed, wire>>
  PROVE  SendInv' /\ is_open' = FALSE
<1>1. is_open' = FALSE
  BY DEF handle_error
<1>2. CASE writes = <<>>
  <2>1. wr' = <<>>
    <3>1. DOMAIN <<>> = {}
      BY EmptySeq, LenProperties
    <3>2. [k \in DOMAIN writes |-> Abort(writes[k])] = <<>>
      BY <1>2, <3>1
    <3>3. QED
      BY <1>2, <3>2 DEF handle_error
  <2>2. wr' \in Seq(Writes) /\ Len(wr') = 0
    BY <2>1, EmptySeq
  <2>3. ~(wr # <<>> /\ wr[1].st = "done")
    BY <1>2
  <2>4. WireIsTheRest'
    BY <2>1, <2>3 DEF SendInv, WireIsTheRest, Unhandled
  <2>5. SendTypes' /\ OneWriteAtATime' /\ QueueIsARun'
    BY <1>1, <2>1, <2>2 DEF SendInv, SendTypes, OneWriteAtATime, QueueIsARun
  <2>6. QED
    BY <1>1, <2>1, <2>4, <2>5 DEF SendInv
<1>3. CASE writes = wr /\ wr # <<>>
  <2> DEFINE w == wr[1]
             d == IF is_open THEN Abort(w) ELSE w
  <2>1. Len(wr) = 1 /\ DOMAIN wr = {1} /\ w \in Writes /\ wr = <<w>>
    BY <1>3, WriteShape
  <2>2. /\ d \in Writes /\ d.frame = w.frame /\ d.st # "waiting"
        /\ (d.st = "done") <=> (w.st = "done")
    BY <1>3, <2>1, AbortWrite DEF SendInv
  <2>3. wr' = <<d>>
    <3> HIDE DEF w
    <3>1. CASE is_open
      <4>1. wr' = [k \in {1} |-> Abort(wr[k])]
        BY <1>3, <2>1, <3>1 DEF handle_error
      <4>2. wr[1] = w /\ d = Abort(w)
        BY <3>1 DEF w
      <4> HIDE DEF d
      <4>3. QED
        BY <4>1, <4>2
    <3>2. CASE ~is_open
      BY <1>3, <2>1, <3>2 DEF handle_error
    <3>3. QED
      BY <3>1, <3>2
  <2> HIDE DEF d
  <2>4. wr' \in Seq(Writes) /\ Len(wr') = 1 /\ wr'[1] = d /\ wr' # <<>>
    BY <2>2, <2>3
  <2> HIDE DEF w
  <2>5. WireIsTheRest'
    BY <1>3, <2>2, <2>4 DEF SendInv, WireIsTheRest, Unhandled, w
  <2>6. SendTypes' /\ OneWriteAtATime' /\ QueueIsARun'
    BY <1>1, <1>3, <2>2, <2>4
    DEF SendInv, SendTypes, OneWriteAtATime, QueueIsARun, w
  <2>7. QED
    BY <1>1, <2>2, <2>4, <2>5, <2>6 DEF SendInv
<1>4. QED
  BY <1>1, <1>2, <1>3
-----------------------------------------------------------------------------
(***************************************************************************)
(* The rest of the invariant.                                              *)
(***************************************************************************)
Reads == [op : {"header", "body"}, st : OpStates] \cup {NoRead}

SocketTypes ==
  /\ is_open \in BOOLEAN
  /\ connecting \in OpStates \cup {"none"}
  /\ rd \in Reads
  /\ heard \in 0..MaxHeard /\ stream \in 0..heard

\* After a step inside poll() the invariant is its sending side and what the
\* connect and the read have to do with it.
LEMMA PollInv ==
  ASSUME loop' = "poll", SendInv', SocketTypes', ReadHasBytes', ConnectComesFirst',
         (~is_open => connecting # "waiting" /\ rd.st # "waiting")'
  PROVE  ClientInv'
<1>1. TypeOK'
  BY DEF TypeOK, SendInv, SendTypes, SocketTypes, Writes, Reads
<1>2. ClosedWaitsForNothing'
  BY DEF ClosedWaitsForNothing, SendInv
<1>3. NothingReadyAtTest' /\ QuietAtReturn'
  BY DEF NothingReadyAtTest, QuietAtReturn
<1>4. QED
  BY <1>1, <1>2, <1>3 DEF ClientInv, SendInv

\* What the invariant says of the socket, the connect and the read.
LEMMA ClientSocketInv ==
  ClientInv => /\ SendInv /\ SocketTypes /\ ReadHasBytes /\ ConnectComesFirst
               /\ ~is_open => connecting # "waiting" /\ rd.st # "waiting"
  BY ClientSendInv
  DEF ClientInv, TypeOK, SocketTypes, Reads, ClosedWaitsForNothing

\* A read that is under way has a state, and none else.
LEMMA ReadStates ==
  ASSUME NEW r \in Reads
  PROVE  /\ r.st \in OpStates \cup {"none"}
         /\ (r.st = "none") <=> (r = NoRead)
         /\ r # NoRead => /\ r \in [op : {"header", "body"}, st : OpStates]
                          /\ \A x \in OpStates :
                                /\ [r EXCEPT !.st = x] \in Reads
                                /\ [r EXCEPT !.st = x].st = x
         /\ Abort(r) \in Reads /\ Abort(r).st # "waiting"
         /\ Abort(r).st = "done" => r.st = "done"
  BY DEF Reads, NoRead, OpStates, Abort

\* StartRead begins a read of the kind asked for on an open socket.
LEMMA StartReadKeeps ==
  ASSUME NEW what \in {"header", "body"}, StartRead(what), is_open \in BOOLEAN
  PROVE  /\ rd' \in Reads /\ rd'.st # "done"
         /\ ~is_open => rd'.st # "waiting"
  BY DEF StartRead, Reads, NoRead, OpStates

\* The network's steps.
LEMMA NetworkKeeps == ASSUME ClientInv, Network PROVE ClientInv'
<1> USE ClientSocketInv, ClientAssumption
<1>r. rd \in Reads
  BY DEF SocketTypes
<1>1. ASSUME NEW result \in {"done", "failed"}, ConnectCompletes(result)
      PROVE  ClientInv'
  <2>1. SendInv'
    BY <1>1
    DEF ConnectCompletes, SendInv, SendTypes, OneWriteAtATime, QueueIsARun,
        WireIsTheRest, Unhandled
  <2>2. loop' = "poll" /\ SocketTypes' /\ ReadHasBytes' /\ ConnectComesFirst'
        /\ (~is_open => connecting # "waiting" /\ rd.st # "waiting")'
    BY <1>1
    DEF ConnectCompletes, SocketTypes, ReadHasBytes, ConnectComesFirst, OpStates
  <2>3. QED
    BY <2>1, <2>2, PollInv
<1>2. CASE ServerSends
  <2>1. SendInv'
    BY <1>2
    DEF ServerSends, socketVars, SendInv, SendTypes, OneWriteAtATime,
        QueueIsARun, WireIsTheRest, Unhandled
  <2>2. heard' \in 0..MaxHeard /\ stream' \in 0..heard' /\ stream' > 0
    BY <1>2 DEF ServerSends, SocketTypes
  <2>3. loop' = "poll" /\ SocketTypes' /\ ReadHasBytes' /\ ConnectComesFirst'
        /\ (~is_open => connecting # "waiting" /\ rd.st # "waiting")'
    BY <1>2, <2>2
    DEF ServerSends, socketVars, SocketTypes, ReadHasBytes, ConnectComesFirst
  <2>4. QED
    BY <2>1, <2>3, PollInv
<1>3. CASE ReadCompletes \/ ReadFails
  <2>1. SendInv'
    BY <1>3
    DEF ReadCompletes, ReadFails, socketVars, SendInv, SendTypes,
        OneWriteAtATime, QueueIsARun, WireIsTheRest, Unhandled
  <2>2. PICK x \in {"done", "failed"} :
          rd' = [rd EXCEPT !.st = x] /\ (x = "done" => stream > 0)
    BY <1>3 DEF ReadCompletes, ReadFails
  <2>3. rd # NoRead /\ rd' \in Reads /\ rd'.st = x
    <3>1. rd # NoRead
      BY <1>3 DEF ReadCompletes, ReadFails, NoRead
    <3>2. QED
      <4>1. x \in OpStates
        BY DEF OpStates
      <4>2. [rd EXCEPT !.st = x] \in Reads /\ [rd EXCEPT !.st = x].st = x
        BY <1>r, <3>1, <4>1, ReadStates
      <4>3. QED
        BY <2>2, <3>1, <4>2
  <2>4. connecting = "none"
    BY <2>3 DEF ConnectComesFirst
  <2>5. loop' = "poll" /\ SocketTypes' /\ ReadHasBytes' /\ ConnectComesFirst'
        /\ (~is_open => connecting # "waiting" /\ rd.st # "waiting")'
    BY <1>3, <2>2, <2>3, <2>4
    DEF ReadCompletes, ReadFails, socketVars, SocketTypes, ReadHasBytes,
        ConnectComesFirst
  <2>6. QED
    BY <2>1, <2>5, PollInv
<1>4. ASSUME NEW i \in DOMAIN wr, WriteCompletes(i) \/ WriteFails(i)
      PROVE  ClientInv'
  <2>1. SendInv'
    BY <1>4, WriteCompletesKeeps, WriteFailsKeeps
  <2>2. wr # <<>>
    BY WriteShape, EmptySeq
  <2>3. connecting = "none"
    BY <2>2 DEF ConnectComesFirst
  <2>4. loop' = "poll" /\ SocketTypes' /\ ReadHasBytes' /\ ConnectComesFirst'
        /\ (~is_open => connecting # "waiting" /\ rd.st # "waiting")'
    BY <1>4, <2>3
    DEF WriteCompletes, WriteFails, socketVars, SocketTypes, ReadHasBytes,
        ConnectComesFirst
  <2>5. QED
    BY <2>1, <2>4, PollInv
<1>5. QED
  BY <1>1, <1>2, <1>3, <1>4 DEF Network

\* The handlers poll() runs.
LEMMA HandlersKeep == ASSUME ClientInv, Handlers PROVE ClientInv'
<1> USE ClientSocketInv, ClientAssumption
<1>r. rd \in Reads /\ is_open \in BOOLEAN
  BY DEF SocketTypes
<1>1. ASSUME NEW late \in BOOLEAN, ConnectHandler(late) PROVE ClientInv'
  <2>1. SendInv'
    BY <1>r, <1>1, SendKeeps DEF ConnectHandler
  <2>2. rd' \in Reads /\ rd'.st # "done" /\ (~is_open => rd'.st # "waiting")
    BY <1>r, <1>1, StartReadKeeps DEF ConnectHandler
  <2>3. loop' = "poll" /\ SocketTypes' /\ ReadHasBytes' /\ ConnectComesFirst'
        /\ (~is_open => connecting # "waiting" /\ rd.st # "waiting")'
    BY <1>1, <2>2
    DEF ConnectHandler, SocketTypes, ReadHasBytes, ConnectComesFirst
  <2>4. QED
    BY <2>1, <2>3, PollInv
<1>2. CASE HeaderHandler
  <2>1. SendInv'
    BY <1>2
    DEF HeaderHandler, socketVars, SendInv, SendTypes, OneWriteAtATime,
        QueueIsARun, WireIsTheRest, Unhandled
  <2>2. rd' \in Reads /\ rd'.st # "done" /\ (~is_open => rd'.st # "waiting")
    BY <1>r, <1>2, StartReadKeeps DEF HeaderHandler
  <2>3. connecting = "none"
    BY <1>2 DEF HeaderHandler, NoRead, ConnectComesFirst
  <2>4. loop' = "poll" /\ SocketTypes' /\ ReadHasBytes' /\ ConnectComesFirst'
        /\ (~is_open => connecting # "waiting" /\ rd.st # "waiting")'
    BY <1>2, <2>2, <2>3
    DEF HeaderHandler, socketVars, SocketTypes, ReadHasBytes, ConnectComesFirst
  <2>5. QED
    BY <2>1, <2>4, PollInv
<1>3. ASSUME NEW late \in BOOLEAN, BodyHandler(late) PROVE ClientInv'
  <2>1. SendInv'
    BY <1>r, <1>3, SendKeeps DEF BodyHandler, socketVars
  <2>2. rd' \in Reads /\ rd'.st # "done" /\ (~is_open => rd'.st # "waiting")
    BY <1>r, <1>3, StartReadKeeps DEF BodyHandler
  <2>3. connecting = "none"
    BY <1>3 DEF BodyHandler, NoRead, ConnectComesFirst
  <2>4. heard' \in 0..MaxHeard /\ stream' \in 0..heard'
    BY <1>3 DEF BodyHandler, SocketTypes, ReadHasBytes
  <2>5. loop' = "poll" /\ SocketTypes' /\ ReadHasBytes' /\ ConnectComesFirst'
        /\ (~is_open => connecting # "waiting" /\ rd.st # "waiting")'
    BY <1>3, <2>2, <2>3, <2>4
    DEF BodyHandler, socketVars, SocketTypes, ReadHasBytes, ConnectComesFirst
  <2>6. QED
    BY <2>1, <2>5, PollInv
<1>4. ASSUME NEW i \in DOMAIN wr, NEW late \in BOOLEAN, WriteHandler(i, late)
      PROVE  ClientInv'
  <2>1. SendInv'
    BY <1>r, <1>4, WriteHandlerKeeps
  <2>2. wr # <<>>
    BY WriteShape, EmptySeq
  <2>3. connecting = "none"
    BY <2>2 DEF ConnectComesFirst
  <2>4. loop' = "poll" /\ SocketTypes' /\ ReadHasBytes' /\ ConnectComesFirst'
        /\ (~is_open => connecting # "waiting" /\ rd.st # "waiting")'
    BY <1>4, <2>3
    DEF WriteHandler, socketVars, SocketTypes, ReadHasBytes, ConnectComesFirst
  <2>5. QED
    BY <2>1, <2>4, PollInv
<1>5. ASSUME NEW read \in Reads, NEW writes,
             read.st = "done" => rd.st = "done",
             ~is_open => read.st # "waiting",
             \/ writes = wr
             \/ writes = <<>> /\ wr # <<>> /\ wr[1].st = "failed",
             handle_error(read, writes), loop = "poll",
             UNCHANGED <<loop, m_send_queue, heard, stream, composed, wire>>,
             connecting' = "none"
      PROVE  ClientInv'
  <2>1. SendInv' /\ is_open' = FALSE
    BY <1>r, <1>5, ErrorKeeps
  <2>2. rd' \in Reads /\ rd'.st # "waiting" /\ (rd'.st = "done" => rd.st = "done")
    BY <1>r, <1>5, ReadStates DEF handle_error
  <2>3. loop' = "poll" /\ SocketTypes' /\ ReadHasBytes' /\ ConnectComesFirst'
        /\ (~is_open => connecting # "waiting" /\ rd.st # "waiting")'
    BY <1>5, <2>1, <2>2 DEF SocketTypes, ReadHasBytes, ConnectComesFirst
  <2>4. QED
    BY <2>1, <2>3, PollInv
<1>6. CASE ConnectErrorHandler
  BY <1>r, <1>5, <1>6 DEF ConnectErrorHandler
<1>7. CASE ReadErrorHandler
  <2>1. connecting = "none"
    BY <1>7 DEF ReadErrorHandler, NoRead, ConnectComesFirst
  <2>2. NoRead \in Reads /\ NoRead.st = "none"
    BY DEF Reads, NoRead
  <2>3. QED
    BY <1>5, <1>7, <2>1, <2>2 DEF ReadErrorHandler
<1>8. ASSUME NEW i \in DOMAIN wr, WriteErrorHandler(i) PROVE ClientInv'
  <2>1. i = 1 /\ wr = <<wr[1]>> /\ wr # <<>>
    BY WriteShape, EmptySeq
  <2>2. Without(wr, i) = <<>>
    BY <2>1, WithoutOnly
  <2>3. connecting = "none"
    BY <2>1 DEF ConnectComesFirst
  <2>4. wr[1].st = "failed"
    BY <1>8, <2>1 DEF WriteErrorHandler
  <2>5. QED
    BY <1>r, <1>5, <1>8, <2>1, <2>2, <2>3, <2>4 DEF WriteErrorHandler
<1>9. QED
  BY <1>1, <1>2, <1>3, <1>4, <1>6, <1>7, <1>8 DEF Handlers

\* loop(): poll() returns with no handler ready, so with the socket closed
\* there is nothing left of the connect, the read and the write.
LEMMA LoopKeeps == ASSUME ClientInv, TestOpen \/ EndPoll PROVE ClientInv'
<1>1. UNCHANGED <<is_open, connecting, rd, wr, m_send_queue, heard, stream,
                  composed, wire>>
  BY DEF TestOpen, EndPoll
<1>2. TypeOK' /\ OneWriteAtATime' /\ QueueIsARun' /\ WireIsTheRest'
      /\ ConnectComesFirst' /\ ClosedWaitsForNothing' /\ ReadHasBytes'
  BY <1>1
  DEF TestOpen, EndPoll, ClientInv, TypeOK, OneWriteAtATime, QueueIsARun,
      WireIsTheRest, Unhandled, ConnectComesFirst, ClosedWaitsForNothing, ReadHasBytes
<1>3. SendInv /\ rd \in Reads /\ connecting \in OpStates \cup {"none"}
  BY ClientSocketInv DEF SocketTypes
<1>4. CASE EndPoll
  <2>1. loop' = "test"
    BY <1>4 DEF EndPoll
  <2>2. NothingReadyAtTest'
    BY <1>1, <1>3, <1>4, WriteShape DEF EndPoll, NothingReadyAtTest, Ready
  <2>3. QED
    BY <1>2, <2>1, <2>2 DEF ClientInv, QuietAtReturn
<1>5. CASE TestOpen /\ is_open
  <2>1. loop' = "poll"
    BY <1>5 DEF TestOpen
  <2>2. QED
    BY <1>2, <2>1 DEF ClientInv, QuietAtReturn, NothingReadyAtTest
<1>6. CASE TestOpen /\ ~is_open
  <2>1. loop = "test" /\ loop' = "returned"
    BY <1>6 DEF TestOpen
  <2>2. rd = NoRead
    BY <1>3, <1>6, <2>1, ReadStates
    DEF ClientInv, NothingReadyAtTest, ClosedWaitsForNothing, Ready, OpStates
  <2>3. wr = <<>>
    <3>1. ASSUME wr # <<>> PROVE FALSE
      <4>1. wr[1].st \in OpStates
        BY <1>3, <3>1, WriteShape DEF Writes
      <4>2. QED
        BY <1>6, <2>1, <3>1, <4>1
        DEF ClientInv, NothingReadyAtTest, ClosedWaitsForNothing, Ready, OpStates
    <3>2. QED
      BY <3>1
  <2>4. connecting # "none" => composed = 0 /\ connecting = "failed"
    BY <1>3, <1>6, <2>1
    DEF ClientInv, NothingReadyAtTest, ClosedWaitsForNothing, ConnectComesFirst,
        OpStates
  <2>5. QuietAtReturn' /\ NothingReadyAtTest'
    BY <1>1, <2>1, <2>2, <2>3, <2>4 DEF QuietAtReturn, NothingReadyAtTest
  <2>6. QED
    BY <1>2, <2>5 DEF ClientInv
<1>7. QED
  BY <1>4, <1>5, <1>6

\* The invariant is inductive.
LEMMA NextClientInv == ClientInv /\ [Next]_vars => ClientInv'
<1> SUFFICES ASSUME ClientInv, [Next]_vars PROVE ClientInv'
  OBVIOUS
<1>1. CASE UNCHANGED vars
  BY <1>1
  DEF vars, ClientInv, TypeOK, OneWriteAtATime, QueueIsARun, WireIsTheRest,
      Unhandled, ConnectComesFirst, ClosedWaitsForNothing, NothingReadyAtTest,
      ReadHasBytes, QuietAtReturn
<1>2. CASE Next
  BY <1>2, NetworkKeeps, HandlersKeep, LoopKeeps DEF Next
<1>3. QED
  BY <1>1, <1>2

\* However handlers and completions interleave, the client has never two
\* writes on its socket and never forgets a queued message on an open one.
THEOREM ClientWritesOneByOne == Spec => []WritingWhileQueued
<1>1. ClientInv => WritingWhileQueued
  BY DEF ClientInv, WritingWhileQueued, OneWriteAtATime
<1>2. QED
  BY <1>1, InitClientInv, NextClientInv, PTL DEF Spec

\* What the client composes goes out in that order, once each.
THEOREM ClientSaysInOrder == Spec => []SaidInOrder
<1>1. ASSUME ClientInv PROVE SaidInOrder
  <2>1. SendInv
    BY <1>1, ClientSendInv
  <2>2. DOMAIN wire = 1..Len(wire) /\ Len(wire) \in Nat
    BY <2>1, LenProperties DEF SendInv, SendTypes
  <2>3. Len(wire) <= composed /\ composed \in Nat
    <3>1. composed \in Nat /\ Len(m_send_queue) \in Nat
      BY <2>1, LenProperties DEF SendInv, SendTypes
    <3>2. CASE wr # <<>>
      <4>1. Len(m_send_queue) > 0
        BY <2>1, <3>2, EmptySeq DEF SendInv, SendTypes, OneWriteAtATime
      <4>2. QED
        BY <2>1, <3>1, <4>1 DEF SendInv, WireIsTheRest, Unhandled
    <3>3. CASE wr = <<>>
      BY <2>1, <3>1, <3>3 DEF SendInv, WireIsTheRest, Unhandled
    <3>4. QED
      BY <3>1, <3>2, <3>3
  <2>4. QED
    BY <2>1, <2>2, <2>3 DEF SaidInOrder, SendInv, WireIsTheRest
<1>2. QED
  BY <1>1, InitClientInv, NextClientInv, PTL DEF Spec

\* loop() returns, and the client can be destroyed, only when no handler
\* that refers to it is left, but for that of a connect that never opened
\* the socket.
THEOREM ClientReturnsQuiet == Spec => []QuietAtReturn
<1>1. ClientInv => QuietAtReturn
  BY DEF ClientInv
<1>2. QED
  BY <1>1, InitClientInv, NextClientInv, PTL DEF Spec
=============================================================================
