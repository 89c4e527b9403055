-------------------------- MODULE BlockQueueProofs --------------------------
(***************************************************************************)
(* Proofs about BlockQueue, for any number of threads and calls.           *)
(***************************************************************************)
EXTENDS BlockQueue, SequenceTheorems, FiniteSetTheorems, TLAPS

\* Where a thread stands while it holds the mutex.
Holding(t) ==
  IF t \in Producers THEN pc[t] \in {"push", "notify", "unlock"}
  ELSE \/ pc[t] \in {"check", "front", "pop", "unlock"}
       \/ pc[t] = "wait" /\ t \notin m_cond_not_empty

\* The mutex is held by exactly the thread that stands inside.
Held == \A t \in Threads : Holding(t) <=> m_mutex = t

\* Blocked threads stand at their wait.
Blocked == \A c \in m_cond_not_empty : pc[c] = "wait"

\* What take saw is still there when it acts on it, and put still has its
\* argument.
Seen ==
  /\ \A c \in Consumers : pc[c] \in {"front", "pop"} => m_queue # <<>>
  /\ \A c \in Consumers : pc[c] = "pop" => e[c] = Head(m_queue)
  /\ \A p \in Producers : pc[p] \in {"lock", "push"} => e[p] \in Elems

QueueInv == TypeOK /\ Held /\ Blocked /\ Seen

\* At the start nobody is inside.
LEMMA InitQueue == Init => QueueInv
<1> SUFFICES ASSUME Init PROVE QueueInv
  OBVIOUS
<1> USE QueueAssumption DEF Init
<1>1. <<>> \in Seq(Elems)
  BY EmptySeq
<1>2. TypeOK
  BY <1>1 DEF TypeOK, Threads, ProducerSteps, ConsumerSteps
<1>3. Held /\ Blocked /\ Seen
  BY DEF Held, Holding, Blocked, Seen, Threads
<1>4. QED
  BY <1>2, <1>3 DEF QueueInv

\* Every step keeps the mutex and what it protects in order.
LEMMA NextQueue == QueueInv /\ [Next]_vars => QueueInv'
<1> SUFFICES ASSUME QueueInv, [Next]_vars PROVE QueueInv'
  OBVIOUS
<1> USE QueueAssumption
    DEF QueueInv, TypeOK, Threads, ProducerSteps, ConsumerSteps, Held, Holding,
        Blocked, Seen, Goto, queueVars
<1>1. ASSUME NEW t \in Threads, Lock(t) PROVE QueueInv'
  BY <1>1 DEF Lock
<1>2. ASSUME NEW t \in Threads, Unlock(t) PROVE QueueInv'
  BY <1>2 DEF Unlock
<1>3. ASSUME NEW p \in Producers, NEW x \in Elems, put(p, x) PROVE QueueInv'
  BY <1>3 DEF put
<1>4. ASSUME NEW p \in Producers, Push(p) PROVE QueueInv'
  BY <1>4, AppendProperties DEF Push
<1>5. ASSUME NEW p \in Producers, Notify(p) PROVE QueueInv'
  BY <1>5 DEF Notify
<1>6. ASSUME NEW c \in Consumers, take(c) PROVE QueueInv'
  BY <1>6 DEF take
<1>7. ASSUME NEW c \in Consumers, Check(c) PROVE QueueInv'
  BY <1>7 DEF Check
<1>8. ASSUME NEW c \in Consumers, Wait(c) PROVE QueueInv'
  BY <1>8 DEF Wait
<1>9. ASSUME NEW c \in Consumers, SpuriousWakeup(c) PROVE QueueInv'
  BY <1>9 DEF SpuriousWakeup
<1>10. ASSUME NEW c \in Consumers, Front(c) PROVE QueueInv'
  BY <1>10, HeadTailProperties DEF Front
<1>11. ASSUME NEW c \in Consumers, Pop(c) PROVE QueueInv'
  BY <1>11, HeadTailProperties, AppendProperties DEF Pop
<1>12. CASE UNCHANGED vars
  BY <1>12 DEF vars
<1>13. QED
  BY <1>1, <1>2, <1>3, <1>4, <1>5, <1>6, <1>7, <1>8, <1>9, <1>10, <1>11, <1>12
  DEF Next, ProducerStep, ConsumerStep

\* The queue, its condition and its threads keep their types.
THEOREM QueueTypeCorrect == Spec => []TypeOK
<1>1. QueueInv => TypeOK
  BY DEF QueueInv
<1>2. QED
  BY InitQueue, NextQueue, <1>1, PTL DEF Spec

\* BlockQueue implements the abstract channel: the pop of a take is where
\* an element is received, and it is the oldest one, because nobody else
\* enters between the test, the read of front() and pop_front().
THEOREM QueueRefinesChannel == Spec => ImplementsChannel
<1>1. Init => Ch!ChannelInit
  BY DEF Init, Ch!ChannelInit
<1>2. QueueInv /\ [Next]_vars => [Ch!ChannelNext]_<<m_queue, taken>>
  <2> SUFFICES ASSUME QueueInv, [Next]_vars
               PROVE  Ch!ChannelNext \/ UNCHANGED <<m_queue, taken>>
    OBVIOUS
  <2>1. ASSUME NEW p \in Producers, Push(p) PROVE Ch!ChannelNext
    <3>1. e[p] \in Elems /\ Ch!Send(e[p])
      BY <2>1 DEF Push, QueueInv, Seen, Ch!Send
    <3>2. QED
      BY <3>1 DEF Ch!ChannelNext
  <2>2. ASSUME NEW c \in Consumers, Pop(c) PROVE Ch!ChannelNext
    BY <2>2 DEF Pop, QueueInv, Seen, Ch!ChannelNext, Ch!Receive
  <2>3. QED
    BY <2>1, <2>2
    DEF Next, ProducerStep, ConsumerStep, Lock, Unlock, put, Notify, take, Check,
        Wait, SpuriousWakeup, Front, vars, queueVars
<1>3. QED
  BY InitQueue, NextQueue, <1>1, <1>2, PTL
  DEF Spec, ImplementsChannel, Ch!ChannelSpec
-----------------------------------------------------------------------------
\* A consumer at its wait, not blocked yet, still holds the mutex under
\* which it found the queue empty.
WaitsOnEmpty ==
  \A c \in Consumers :
     pc[c] = "wait" /\ c \notin m_cond_not_empty => m_queue = <<>>

WakeupInv == QueueInv /\ WaitsOnEmpty /\ EveryElemHasATaker

\* A consumer stays right about the empty queue until it blocks.
LEMMA NextWaitsOnEmpty == QueueInv /\ WaitsOnEmpty /\ [Next]_vars => WaitsOnEmpty'
<1> SUFFICES ASSUME QueueInv, WaitsOnEmpty, [Next]_vars,
                    NEW d \in Consumers, pc'[d] = "wait", d \notin m_cond_not_empty'
             PROVE  m_queue' = <<>>
  BY DEF WaitsOnEmpty
<1> USE QueueAssumption DEF QueueInv, TypeOK, Threads, Held, Holding, Blocked, Seen, Goto, queueVars
<1>1. ASSUME NEW p \in Producers, Push(p) PROVE FALSE
  BY <1>1 DEF Push
<1>2. ASSUME NEW c \in Consumers, Pop(c) PROVE FALSE
  BY <1>2 DEF Pop
<1>3. ASSUME NEW c \in Consumers, Check(c) PROVE m_queue' = <<>>
  BY <1>3 DEF Check, WaitsOnEmpty
<1>4. ASSUME NEW t \in Threads, Lock(t) \/ Unlock(t) PROVE m_queue' = <<>>
  BY <1>4 DEF Lock, Unlock, WaitsOnEmpty
<1>5. ASSUME NEW p \in Producers, Notify(p) PROVE m_queue' = <<>>
  BY <1>5 DEF Notify, WaitsOnEmpty
<1>6. ASSUME NEW p \in Producers, NEW x \in Elems, put(p, x) PROVE m_queue' = <<>>
  BY <1>6 DEF put, WaitsOnEmpty
<1>7. ASSUME NEW c \in Consumers, take(c) \/ Wait(c) \/ SpuriousWakeup(c) \/ Front(c)
      PROVE  m_queue' = <<>>
  BY <1>7 DEF take, Wait, SpuriousWakeup, Front, WaitsOnEmpty
<1>8. CASE UNCHANGED vars
  BY <1>8 DEF vars, WaitsOnEmpty
<1>9. QED
  BY <1>1, <1>2, <1>3, <1>4, <1>5, <1>6, <1>7, <1>8
  DEF Next, ProducerStep, ConsumerStep

\* Every step keeps one taker per element while anybody is blocked.
LEMMA NextTaker ==
  QueueInv /\ WaitsOnEmpty /\ EveryElemHasATaker /\ [Next]_vars => EveryElemHasATaker'
<1> SUFFICES ASSUME QueueInv, WaitsOnEmpty, EveryElemHasATaker, [Next]_vars,
                    m_cond_not_empty' # {}
             PROVE  Len(m_queue') <= Cardinality(Takers') + Cardinality(Notifiers')
  BY DEF EveryElemHasATaker
<1>t. /\ m_cond_not_empty \subseteq Consumers
      /\ m_queue \in Seq(Elems)
      /\ pc \in [Threads -> ProducerSteps \cup ConsumerSteps]
      /\ Producers \cap Consumers = {}
      /\ Producers \subseteq Threads /\ Consumers \subseteq Threads
      /\ Blocked
  BY QueueAssumption DEF QueueInv, TypeOK, Threads
<1>f. /\ IsFiniteSet(Takers) /\ IsFiniteSet(Takers')
      /\ IsFiniteSet(Notifiers) /\ IsFiniteSet(Notifiers')
  <2>1. Takers \subseteq Consumers /\ Takers' \subseteq Consumers
    BY DEF Takers
  <2>2. Notifiers \subseteq {m_mutex}
    BY DEF Notifiers, QueueInv, Held, Holding, Threads
  <2>3. Notifiers' \subseteq {m_mutex'}
    BY NextQueue DEF Notifiers, QueueInv, Held, Holding, Threads
  <2>4. IsFiniteSet({m_mutex}) /\ IsFiniteSet({m_mutex'})
    BY FS_Singleton
  <2>5. QED
    BY <2>1, <2>2, <2>3, <2>4, FS_Subset, QueueAssumption
<1>n. /\ Cardinality(Takers) \in Nat /\ Cardinality(Takers') \in Nat
      /\ Cardinality(Notifiers) \in Nat /\ Cardinality(Notifiers') \in Nat
      /\ Len(m_queue) \in Nat
  BY <1>f, <1>t, FS_CardinalityType, LenProperties
<1>h. m_cond_not_empty # {} =>
        Len(m_queue) <= Cardinality(Takers) + Cardinality(Notifiers)
  BY DEF EveryElemHasATaker
<1>s. ASSUME UNCHANGED m_queue, Takers' = Takers, Notifiers' = Notifiers,
             m_cond_not_empty # {}
      PROVE  Len(m_queue') <= Cardinality(Takers') + Cardinality(Notifiers')
  BY <1>s, <1>h
<1>1. ASSUME NEW p \in Producers, Lock(p) \/ Unlock(p)
      PROVE  Len(m_queue') <= Cardinality(Takers') + Cardinality(Notifiers')
  <2>1. Takers' = Takers /\ Notifiers' = Notifiers
    BY <1>1, <1>t DEF Lock, Unlock, Goto, Takers, Notifiers
  <2>2. QED
    BY <1>1, <2>1, <1>s DEF Lock, Unlock
<1>2. ASSUME NEW c \in Consumers, Lock(c) \/ Unlock(c) \/ Check(c) \/ Front(c)
      PROVE  Len(m_queue') <= Cardinality(Takers') + Cardinality(Notifiers')
  <2>1. Takers' = Takers /\ Notifiers' = Notifiers
    BY <1>2, <1>t DEF Lock, Unlock, Check, Front, Goto, Takers, Notifiers, queueVars
  <2>2. QED
    BY <1>2, <2>1, <1>s DEF Lock, Unlock, Check, Front, queueVars
<1>3. ASSUME NEW p \in Producers, NEW x \in Elems, put(p, x)
      PROVE  Len(m_queue') <= Cardinality(Takers') + Cardinality(Notifiers')
  <2>1. Takers' = Takers /\ Notifiers' = Notifiers
    BY <1>3, <1>t DEF put, Goto, Takers, Notifiers, queueVars
  <2>2. QED
    BY <1>3, <2>1, <1>s DEF put, queueVars
<1>4. ASSUME NEW p \in Producers, Push(p)
      PROVE  Len(m_queue') <= Cardinality(Takers') + Cardinality(Notifiers')
  <2>1. Takers' = Takers /\ Notifiers' = Notifiers \cup {p} /\ p \notin Notifiers
    BY <1>4, <1>t DEF Push, Goto, Takers, Notifiers
  <2>2. Cardinality(Notifiers') = Cardinality(Notifiers) + 1
    BY <2>1, <1>f, FS_AddElement
  <2>3. Len(m_queue') = Len(m_queue) + 1 /\ m_cond_not_empty # {}
    BY <1>4, <1>t DEF Push, QueueInv, Seen
  <2>4. QED
    BY <2>1, <2>2, <2>3, <1>h, <1>n
<1>5. ASSUME NEW p \in Producers, Notify(p)
      PROVE  Len(m_queue') <= Cardinality(Takers') + Cardinality(Notifiers')
  <2>1. PICK c \in m_cond_not_empty :
           /\ m_cond_not_empty' = m_cond_not_empty \ {c}
           /\ pc' = [pc EXCEPT ![p] = "unlock", ![c] = "lock"]
    BY <1>5 DEF Notify
  <2>2. Takers' = Takers \cup {c} /\ c \notin Takers
    BY <1>5, <1>t, <2>1 DEF Takers
  <2>3. Notifiers' = Notifiers \ {p} /\ p \in Notifiers
    BY <1>5, <1>t, <2>1 DEF Notify, Notifiers
  <2>4. /\ Cardinality(Takers') = Cardinality(Takers) + 1
        /\ Cardinality(Notifiers') = Cardinality(Notifiers) - 1
    BY <2>2, <2>3, <1>f, FS_AddElement, FS_RemoveElement
  <2>5. m_queue' = m_queue /\ m_cond_not_empty # {}
    BY <1>5, <2>1 DEF Notify
  <2>6. QED
    BY <2>4, <2>5, <1>h, <1>n
<1>6. ASSUME NEW c \in Consumers, take(c) \/ SpuriousWakeup(c)
      PROVE  Len(m_queue') <= Cardinality(Takers') + Cardinality(Notifiers')
  <2>1. /\ Takers' = Takers \cup {c} /\ c \notin Takers
        /\ Notifiers' = Notifiers
    BY <1>6, <1>t DEF take, SpuriousWakeup, Goto, Takers, Notifiers, Blocked, queueVars
  <2>2. Cardinality(Takers') = Cardinality(Takers) + 1
    BY <2>1, <1>f, FS_AddElement
  <2>3. m_queue' = m_queue /\ m_cond_not_empty # {}
    BY <1>6 DEF take, SpuriousWakeup, queueVars
  <2>4. QED
    BY <2>1, <2>2, <2>3, <1>h, <1>n
<1>7. ASSUME NEW c \in Consumers, Wait(c)
      PROVE  Len(m_queue') <= Cardinality(Takers') + Cardinality(Notifiers')
  <2>1. m_queue' = <<>>
    BY <1>7 DEF Wait, WaitsOnEmpty
  <2>2. QED
    BY <2>1, <1>n, EmptySeq
<1>8. ASSUME NEW c \in Consumers, Pop(c)
      PROVE  Len(m_queue') <= Cardinality(Takers') + Cardinality(Notifiers')
  <2>1. /\ Takers' = Takers \ {c} /\ c \in Takers
        /\ Notifiers' = Notifiers
    BY <1>8, <1>t DEF Pop, Goto, Takers, Notifiers, Blocked
  <2>2. Cardinality(Takers') = Cardinality(Takers) - 1
    BY <2>1, <1>f, FS_RemoveElement
  <2>3. m_queue # <<>> /\ m_queue' = Tail(m_queue) /\ m_cond_not_empty # {}
    BY <1>8 DEF Pop, QueueInv, Seen
  <2>4. Len(m_queue') = Len(m_queue) - 1
    BY <2>3, <1>t, HeadTailProperties
  <2>5. QED
    BY <2>1, <2>2, <2>3, <2>4, <1>h, <1>n
<1>9. CASE UNCHANGED vars
  <2>1. Takers' = Takers /\ Notifiers' = Notifiers
    BY <1>9 DEF vars, queueVars, Takers, Notifiers
  <2>2. QED
    BY <1>9, <2>1, <1>s DEF vars, queueVars
<1>10. QED
  BY <1>1, <1>2, <1>3, <1>4, <1>5, <1>6, <1>7, <1>8, <1>9
  DEF Next, ProducerStep, ConsumerStep

\* No wake-up is ever lost: one notify_one per put suffices for any number
\* of producers and consumers, with spurious wake-ups and in any order.
THEOREM NoLostWakeup == Spec => []EveryElemHasATaker
<1>1. Init => WakeupInv
  BY InitQueue DEF Init, WakeupInv, WaitsOnEmpty, EveryElemHasATaker
<1>2. WakeupInv /\ [Next]_vars => WakeupInv'
  BY NextQueue, NextWaitsOnEmpty, NextTaker DEF WakeupInv
<1>3. WakeupInv => EveryElemHasATaker
  BY DEF WakeupInv
<1>4. QED
  BY <1>1, <1>2, <1>3, PTL DEF Spec
=============================================================================
