----------------------------- MODULE BlockQueue -----------------------------
(***************************************************************************)
(* BlockQueue of block_queue.hpp: a deque under a mutex, and a condition   *)
(* variable on which take waits.  Each line of put and take that touches   *)
(* shared state is a step, so that what the mutex protects, and what only  *)
(* the wake-up protocol guarantees, is not taken for granted.              *)
(*                                                                         *)
(* std::mutex and std::condition_variable are modelled by their contract:  *)
(* wait releases the mutex and blocks in one step, notify_one unblocks at  *)
(* most one thread, and a wait may return although nobody notified.        *)
(***************************************************************************)
EXTENDS Integers, Sequences, FiniteSets

CONSTANTS
  Producers,   \* threads that call put
  Consumers,   \* threads that call take
  Elems,       \* values of ElemT
  NoElem,      \* no value
  Free,        \* a mutex nobody holds
  MaxPuts      \* bound: calls of put

ASSUME QueueAssumption ==
  /\ Producers \cap Consumers = {}
  /\ IsFiniteSet(Consumers)
  /\ NoElem \notin Elems
  /\ Free \notin Producers \cup Consumers
  /\ MaxPuts \in Nat

VARIABLES
  m_mutex,            \* the thread that holds it, or Free
  m_cond_not_empty,   \* the threads blocked in wait
  m_queue,            \* the deque
  pc,                 \* where each thread stands
  e,                  \* put's argument, take's local e
  taken,              \* history: elements taken, in the order of the pops
  puts                \* number of calls of put

queueVars == <<m_mutex, m_cond_not_empty, m_queue>>
vars == <<queueVars, pc, e, taken, puts>>

Threads == Producers \cup Consumers

\* "lock" is also where a woken thread stands: it needs the mutex again.
ProducerSteps == {"idle", "lock", "push", "notify", "unlock"}
ConsumerSteps == {"idle", "lock", "check", "wait", "front", "pop", "unlock"}

TypeOK ==
  /\ m_mutex \in Threads \cup {Free}
  /\ m_cond_not_empty \subseteq Consumers
  /\ m_queue \in Seq(Elems)
  /\ pc \in [Threads -> ProducerSteps \cup ConsumerSteps]
  /\ \A p \in Producers : pc[p] \in ProducerSteps
  /\ \A c \in Consumers : pc[c] \in ConsumerSteps
  /\ e \in [Threads -> Elems \cup {NoElem}]
  /\ taken \in Seq(Elems)
  /\ puts \in 0..MaxPuts

Init ==
  /\ m_mutex = Free
  /\ m_cond_not_empty = {}
  /\ m_queue = <<>>
  /\ pc = [t \in Threads |-> "idle"]
  /\ e = [t \in Threads |-> NoElem]
  /\ taken = <<>>
  /\ puts = 0

Goto(t, step) == pc' = [pc EXCEPT ![t] = step]

\* The lock_guard or unique_lock of a call, or the end of a wait.
Lock(t) ==
  /\ pc[t] = "lock"
  /\ m_mutex = Free
  /\ m_mutex' = t
  /\ Goto(t, IF t \in Producers THEN "push" ELSE "check")
  /\ UNCHANGED <<m_cond_not_empty, m_queue, e, taken, puts>>

\* The guard's destructor: the call returns.
Unlock(t) ==
  /\ pc[t] = "unlock"
  /\ m_mutex' = Free
  /\ Goto(t, "idle")
  /\ e' = [e EXCEPT ![t] = NoElem]
  /\ UNCHANGED <<m_cond_not_empty, m_queue, taken, puts>>
-----------------------------------------------------------------------------
(***************************************************************************)
(* put, by copy or by move.                                                *)
(***************************************************************************)
put(p, x) ==
  /\ pc[p] = "idle"
  /\ puts < MaxPuts
  /\ puts' = puts + 1
  /\ e' = [e EXCEPT ![p] = x]
  /\ Goto(p, "lock")
  /\ UNCHANGED <<queueVars, taken>>

\* Mutant: the argument was moved from before it is pushed.
PushMovedFrom(p) ==
  /\ pc[p] = "push"
  /\ m_queue' = Append(m_queue, NoElem)
  /\ Goto(p, "notify")
  /\ UNCHANGED <<m_mutex, m_cond_not_empty, e, taken, puts>>

\* Mutant: push_front.
PushFront(p) ==
  /\ pc[p] = "push"
  /\ m_queue' = <<e[p]>> \o m_queue
  /\ Goto(p, "notify")
  /\ UNCHANGED <<m_mutex, m_cond_not_empty, e, taken, puts>>

Push(p) ==
  /\ pc[p] = "push"
  /\ m_queue' = Append(m_queue, e[p])
  /\ Goto(p, "notify")
  /\ UNCHANGED <<m_mutex, m_cond_not_empty, e, taken, puts>>

\* Mutant: notify only when the queue was empty before the push.
NotifyFirstOnly(p) ==
  /\ pc[p] = "notify"
  /\ \/ /\ m_cond_not_empty = {} \/ Len(m_queue) > 1
        /\ UNCHANGED m_cond_not_empty
        /\ Goto(p, "unlock")
     \/ \E c \in m_cond_not_empty :
           /\ Len(m_queue) = 1
           /\ m_cond_not_empty' = m_cond_not_empty \ {c}
           /\ pc' = [pc EXCEPT ![p] = "unlock", ![c] = "lock"]
  /\ UNCHANGED <<m_mutex, m_queue, e, taken, puts>>

\* notify_one: one waiting thread, whichever, goes for the mutex.
Notify(p) ==
  /\ pc[p] = "notify"
  /\ \/ /\ m_cond_not_empty = {}
        /\ m_cond_not_empty' = {}
        /\ Goto(p, "unlock")
     \/ \E c \in m_cond_not_empty :
           /\ m_cond_not_empty' = m_cond_not_empty \ {c}
           /\ pc' = [pc EXCEPT ![p] = "unlock", ![c] = "lock"]
  /\ UNCHANGED <<m_mutex, m_queue, e, taken, puts>>
-----------------------------------------------------------------------------
(***************************************************************************)
(* take.                                                                   *)
(***************************************************************************)
take(c) ==
  /\ pc[c] = "idle"
  /\ Goto(c, "lock")
  /\ UNCHANGED <<queueVars, e, taken, puts>>

\* The loop's test.
Check(c) ==
  /\ pc[c] = "check"
  /\ Goto(c, IF m_queue = <<>> THEN "wait" ELSE "front")
  /\ UNCHANGED <<queueVars, e, taken, puts>>

\* wait: blocked and the mutex released, in one step.
Wait(c) ==
  /\ pc[c] = "wait"
  /\ c \notin m_cond_not_empty
  /\ m_cond_not_empty' = m_cond_not_empty \cup {c}
  /\ m_mutex' = Free
  /\ UNCHANGED <<m_queue, pc, e, taken, puts>>

SpuriousWakeup(c) ==
  /\ c \in m_cond_not_empty
  /\ m_cond_not_empty' = m_cond_not_empty \ {c}
  /\ Goto(c, "lock")
  /\ UNCHANGED <<m_mutex, m_queue, e, taken, puts>>

\* e is built from front() before pop_front() removes it.
Front(c) ==
  /\ pc[c] = "front"
  /\ e' = [e EXCEPT ![c] = Head(m_queue)]
  /\ Goto(c, "pop")
  /\ UNCHANGED <<queueVars, taken, puts>>

Pop(c) ==
  /\ pc[c] = "pop"
  /\ m_queue' = Tail(m_queue)
  /\ taken' = Append(taken, e[c])
  /\ Goto(c, "unlock")
  /\ UNCHANGED <<m_mutex, m_cond_not_empty, e, puts>>

ProducerStep(p) == Lock(p) \/ Push(p) \/ Notify(p) \/ Unlock(p)

ConsumerStep(c) ==
  \/ Lock(c)
  \/ Check(c)
  \/ Wait(c)
  \/ Front(c)
  \/ Pop(c)
  \/ Unlock(c)

Next ==
  \/ \E p \in Producers : ProducerStep(p) \/ \E x \in Elems : put(p, x)
  \/ \E c \in Consumers : ConsumerStep(c) \/ take(c) \/ SpuriousWakeup(c)

Spec == Init /\ [][Next]_vars

(***************************************************************************)
(* A call that has begun goes on as far as the mutex and the condition let *)
(* it; nobody has to call, and nobody has to wake up spuriously.           *)
(***************************************************************************)
Fairness ==
  /\ \A p \in Producers : WF_vars(ProducerStep(p))
  /\ \A c \in Consumers : WF_vars(ConsumerStep(c))

FairSpec == Spec /\ Fairness
-----------------------------------------------------------------------------
(***************************************************************************)
(* Properties.                                                             *)
(***************************************************************************)
Ch == INSTANCE Channel WITH sent <- m_queue

\* Elements are taken in the order they were put and none twice, although
\* reading front() and pop_front() are two steps and any number of threads
\* take.
ImplementsChannel == Ch!ChannelSpec

\* Consumers inside take that are not blocked and have not popped yet.
Takers == {c \in Consumers \ m_cond_not_empty :
             pc[c] \in {"lock", "check", "wait", "front", "pop"}}

Notifiers == {p \in Producers : pc[p] = "notify"}

\* No wake-up is lost: while anybody is blocked, every element of the queue
\* has a consumer of its own on the way to it, or a producer about to
\* notify one.  One notification per element is enough because a consumer
\* blocks only on an empty queue.
EveryElemHasATaker ==
  m_cond_not_empty # {} =>
     Len(m_queue) <= Cardinality(Takers) + Cardinality(Notifiers)

\* A consumer inside take gets an element if there is one: nobody blocks for
\* good beside a queue that is not empty.
TakeReturns ==
  \A k \in 0..MaxPuts :
     (/\ Len(taken) = k
      /\ m_queue # <<>>
      /\ \E c \in Consumers : pc[c] \in ConsumerSteps \ {"idle", "unlock"})
     ~> (Len(taken) > k)
=============================================================================
