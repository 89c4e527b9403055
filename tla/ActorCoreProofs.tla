-------------------------- MODULE ActorCoreProofs --------------------------
(***************************************************************************)
(* Proofs about ActorCore, for any number of actors, ids, workers,         *)
(* messages and clock values.                                              *)
(***************************************************************************)
EXTENDS ActorCore, SequenceTheorems, TLAPS

\* The keys run() has still to visit have an entry in the map.
VisitsRegistered == it \subseteq Registered

\* Nothing is posted before run().
QuietSetup ==
  runner = "setup" => /\ m_thread_pool = <<>>
                      /\ \A w \in Workers : worker[w] = "idle"

\* An actor that is claimed, queued or running is in STATE_TICKING.
BusyIsTicking ==
  /\ runner \in {"stamp", "post"} => m_state[actor_ptr] = STATE_TICKING
  /\ \A i \in 1..Len(m_thread_pool) : m_state[m_thread_pool[i]] = STATE_TICKING
  /\ \A w \in Workers : worker[w] # "idle" => m_state[task[w]] = STATE_TICKING

\* What ready_tick saw is still true when run() acts on it.
ReadyStillHolds ==
  /\ runner = "claim" => m_state[actor_ptr] = STATE_READY_TICK
  /\ runner \in {"claim", "stamp"} =>
       now - m_last_tick_timestamp[actor_ptr] >= Interval[actor_ptr]

\* OneTickPerActor, element by element.
OnePlace ==
  /\ runner \in {"stamp", "post"} =>
       /\ \A i \in 1..Len(m_thread_pool) : m_thread_pool[i] # actor_ptr
       /\ \A w \in Workers : worker[w] # "idle" => task[w] # actor_ptr
  /\ \A i \in 1..Len(m_thread_pool) : \A w \in Workers :
       worker[w] # "idle" => task[w] # m_thread_pool[i]
  /\ \A i, j \in 1..Len(m_thread_pool) :
       m_thread_pool[i] = m_thread_pool[j] => i = j
  /\ \A v, w \in Workers :
       worker[v] # "idle" /\ worker[w] # "idle" /\ task[v] = task[w] => v = w

ExclusionInv ==
  /\ TypeOK
  /\ VisitsRegistered
  /\ QuietSetup
  /\ BusyIsTicking
  /\ ReadyStillHolds
  /\ OnePlace
-----------------------------------------------------------------------------
\* The initial states have their types.
LEMMA InitTypeOK == Init => TypeOK /\ VisitsRegistered
<1> SUFFICES ASSUME Init PROVE TypeOK /\ VisitsRegistered
  OBVIOUS
<1> USE DEF Init, ActorBaseInit
<1>1. /\ <<>> \in Seq(ActorMsgPtr)
      /\ <<>> \in Seq(Actors)
      /\ <<>> \in Seq(Nat)
  BY EmptySeq
<1>2. m_last_tick_timestamp \in [Actors -> Int]
  BY ActorAssumption
<1>3. BaseTypeOK
  BY <1>1, <1>2 DEF BaseTypeOK, STATE_READY_TICK, STATE_TICKING
<1>4. /\ task \in [Workers -> Actors \cup {NoActor}]
      /\ worker \in [Workers -> WorkerSteps]
      /\ msglist \in [Workers -> Seq(ActorMsgPtr)]
      /\ pos \in [Workers -> Nat]
      /\ times \in [Actors -> Seq(Nat)]
      /\ m_actor_map \in [Ids -> Actors \cup {NoActor}]
  BY <1>1 DEF WorkerSteps
<1>5. QED
  BY <1>1, <1>3, <1>4, CoreAssumption
  DEF TypeOK, VisitsRegistered, RunnerSteps

\* Counting at one position leaves a sequence of counters one.
LEMMA ExceptNatSeq ==
  ASSUME NEW s \in Seq(Nat), NEW i \in Nat
  PROVE  [s EXCEPT ![i] = @ + 1] \in Seq(Nat)
<1>1. CASE i \in 1..Len(s)
  BY <1>1, ExceptSeq, ElementOfSeq
<1>2. CASE i \notin 1..Len(s)
  <2>1. [s EXCEPT ![i] = @ + 1] = s
    BY <1>2, LenProperties
  <2>2. QED
    BY <2>1
<1>3. QED
  BY <1>1, <1>2

\* Every step keeps the types, and the run loop visits only keys of the map.
LEMMA NextTypeOK ==
  TypeOK /\ VisitsRegistered /\ [Next]_vars => TypeOK' /\ VisitsRegistered'
<1> SUFFICES ASSUME TypeOK, VisitsRegistered, [Next]_vars
             PROVE  TypeOK' /\ VisitsRegistered'
  OBVIOUS
<1> USE ActorAssumption, CoreAssumption
    DEF TypeOK, BaseTypeOK, VisitsRegistered, Registered, RunnerSteps,
        WorkerSteps, STATE_READY_TICK, STATE_TICKING, baseVars, coreVars, workerVars
<1>1. ASSUME NEW a \in Actors, NEW id \in Ids, RenameActor(a, id)
      PROVE  TypeOK' /\ VisitsRegistered'
  BY <1>1 DEF RenameActor, set_id
<1>2. ASSUME NEW a \in Actors, InitActor(a) PROVE TypeOK' /\ VisitsRegistered'
  BY <1>2 DEF InitActor, init, set_state
<1>3. ASSUME NEW a \in Actors, register_actor(a)
      PROVE  TypeOK' /\ VisitsRegistered'
  BY <1>3 DEF register_actor
<1>4. CASE EnterRun
  BY <1>4 DEF EnterRun
<1>5. ASSUME NEW ts \in Clock, ReadClock(ts) PROVE TypeOK' /\ VisitsRegistered'
  BY <1>5 DEF ReadClock
<1>6. ASSUME NEW id \in it, Visit(id) PROVE TypeOK' /\ VisitsRegistered'
  BY <1>6 DEF Visit
<1>7. CASE EndPass
  BY <1>7 DEF EndPass
<1>8. CASE Claim
  BY <1>8 DEF Claim, set_state
<1>9. CASE Stamp
  BY <1>9 DEF Stamp, set_last_tick_timestamp
<1>10. CASE Post
  BY <1>10, SMTT(30) DEF Post
<1>11. ASSUME NEW w \in Workers, StartTask(w) PROVE TypeOK' /\ VisitsRegistered'
  <2>1. /\ Head(m_thread_pool) \in Actors
        /\ Tail(m_thread_pool) \in Seq(Actors)
    BY <1>11, HeadTailProperties DEF StartTask
  <2>2. QED
    BY <1>11, <2>1 DEF StartTask
<1>12. ASSUME NEW w \in Workers, Tick(w) PROVE TypeOK' /\ VisitsRegistered'
  BY <1>12 DEF Tick, set_state
<1>13. ASSUME NEW w \in Workers, CopyMsgs(w) PROVE TypeOK' /\ VisitsRegistered'
  BY <1>13 DEF CopyMsgs
<1>14. ASSUME NEW w \in Workers, HandleMsg(w) PROVE TypeOK' /\ VisitsRegistered'
  <2> DEFINE a == task[w]
             counted == [times[a] EXCEPT ![pos[w]] = @ + 1]
  <2>1. a \in Actors /\ times[a] \in Seq(Nat) /\ pos[w] \in Nat
    BY <1>14 DEF HandleMsg
  <2>2. counted \in Seq(Nat)
    BY <2>1, ExceptNatSeq
  <2>3. times' = times \/ times' = [times EXCEPT ![a] = counted]
    BY <1>14 DEF HandleMsg
  <2>4. times' \in [Actors -> Seq(Nat)]
    <3> HIDE DEF counted
    <3>1. QED BY <2>2, <2>3
  <2>5. /\ pos' \in [Workers -> Nat]
        /\ UNCHANGED <<baseVars, coreVars, task, worker, msglist>>
    BY <1>14 DEF HandleMsg
  <2>6. QED
    BY <2>4, <2>5
<1>15. ASSUME NEW w \in Workers, TickDone(w) PROVE TypeOK' /\ VisitsRegistered'
  <2>1. /\ task[w] \in Actors
        /\ worker' = [worker EXCEPT ![w] = "idle"]
        /\ task' = [task EXCEPT ![w] = NoActor]
        /\ m_state' \in [Actors -> {STATE_READY_TICK, STATE_TICKING}]
    BY <1>15 DEF TickDone, set_state
  <2>2. /\ task' \in [Workers -> Actors \cup {NoActor}]
        /\ worker' \in [Workers -> WorkerSteps]
        /\ \A v \in Workers : worker'[v] # "idle" => task'[v] \in Actors
    BY <2>1
  <2>3. /\ msglist' \in [Workers -> Seq(ActorMsgPtr)]
        /\ pos' \in [Workers -> Nat]
        /\ UNCHANGED <<m_id, m_last_tick_timestamp, m_msg_vec, coreVars, times>>
    BY <1>15 DEF TickDone
  <2>4. QED
    BY <2>1, <2>2, <2>3
<1>16. ASSUME NEW a \in Actors, NEW msgptr \in ActorMsgPtr, AddMsg(a, msgptr)
       PROVE  TypeOK' /\ VisitsRegistered'
  <2>1. /\ Append(m_msg_vec[a], msgptr) \in Seq(ActorMsgPtr)
        /\ Append(times[a], 0) \in Seq(Nat)
    BY AppendProperties
  <2>2. QED
    BY <1>16, <2>1 DEF AddMsg, addmsg
<1>17. CASE UNCHANGED vars
  BY <1>17 DEF vars
<1>18. QED
  BY <1>1, <1>2, <1>3, <1>4, <1>5, <1>6, <1>7, <1>8, <1>9, <1>10, <1>11,
     <1>12, <1>13, <1>14, <1>15, <1>16, <1>17
  DEF Next, Setup, RunLoop, WorkerStep

\* The actor runtime keeps its types: in particular assert(actor_ptr) in
\* run() holds and no worker runs a lambda without an actor.
THEOREM TypeCorrect == Spec => []TypeOK
<1>1. TypeOK /\ VisitsRegistered /\ [Next]_vars => (TypeOK /\ VisitsRegistered)'
  BY NextTypeOK
<1>2. QED
  BY InitTypeOK, <1>1, PTL DEF Spec
-----------------------------------------------------------------------------
\* The initial states satisfy the invariant: nothing is posted yet.
LEMMA InitExclusion == Init => ExclusionInv
<1> SUFFICES ASSUME Init PROVE ExclusionInv
  OBVIOUS
<1>1. TypeOK /\ VisitsRegistered
  BY InitTypeOK
<1>2. QED
  BY <1>1 DEF Init, ExclusionInv, QuietSetup, BusyIsTicking, ReadyStillHolds, OnePlace

\* Every step keeps an actor in at most one place and its state in step
\* with that place.
LEMMA NextExclusion == ExclusionInv /\ [Next]_vars => ExclusionInv'
<1> DEFINE Rest == QuietSetup /\ BusyIsTicking /\ ReadyStillHolds /\ OnePlace
<1> SUFFICES ASSUME ExclusionInv, [Next]_vars PROVE Rest'
  BY NextTypeOK DEF ExclusionInv
<1>t. /\ m_state \in [Actors -> {STATE_READY_TICK, STATE_TICKING}]
      /\ task \in [Workers -> Actors \cup {NoActor}]
      /\ worker \in [Workers -> WorkerSteps]
      /\ \A w \in Workers : worker[w] # "idle" => task[w] \in Actors
      /\ runner \in {"claim", "stamp", "post"} => actor_ptr \in Actors
      /\ m_thread_pool \in Seq(Actors)
  BY DEF ExclusionInv, TypeOK, BaseTypeOK
<1>p. \A i \in 1..Len(m_thread_pool) : m_thread_pool[i] \in Actors
  BY <1>t, ElementOfSeq
<1>s. STATE_READY_TICK # STATE_TICKING
  BY DEF STATE_READY_TICK, STATE_TICKING
<1>i. QuietSetup /\ BusyIsTicking /\ ReadyStillHolds /\ OnePlace
  BY DEF ExclusionInv
<1> USE <1>i DEF QuietSetup, BusyIsTicking, ReadyStillHolds, OnePlace,
                 baseVars, coreVars, workerVars
<1>1. ASSUME NEW a \in Actors, NEW id \in Ids, RenameActor(a, id) PROVE Rest'
  BY <1>1 DEF RenameActor
<1>2. ASSUME NEW a \in Actors, InitActor(a) PROVE Rest'
  BY <1>2, EmptySeq DEF InitActor
<1>3. ASSUME NEW a \in Actors, register_actor(a) PROVE Rest'
  BY <1>3 DEF register_actor
<1>4. CASE EnterRun
  BY <1>4 DEF EnterRun
<1>5. ASSUME NEW ts \in Clock, ReadClock(ts) PROVE Rest'
  BY <1>5 DEF ReadClock
<1>6. ASSUME NEW id \in it, Visit(id) PROVE Rest'
  BY <1>6 DEF Visit, ready_tick
<1>7. CASE EndPass
  BY <1>7 DEF EndPass
<1>8. CASE Claim
  <2>1. /\ actor_ptr \in Actors
        /\ \A a \in Actors :
             m_state'[a] = IF a = actor_ptr THEN STATE_TICKING ELSE m_state[a]
    BY <1>8, <1>t DEF Claim, set_state
  <2>2. QED
    BY <1>8, <1>t, <1>p, <1>s, <2>1 DEF Claim
<1>9. CASE Stamp
  BY <1>9 DEF Stamp
<1>10. CASE Post
  <2>1. /\ Len(m_thread_pool') = Len(m_thread_pool) + 1
        /\ m_thread_pool'[Len(m_thread_pool) + 1] = actor_ptr
        /\ \A i \in 1..Len(m_thread_pool) : m_thread_pool'[i] = m_thread_pool[i]
        /\ Len(m_thread_pool) \in Nat
    BY <1>10, <1>t, AppendProperties DEF Post
  <2>2. \A i \in 1..Len(m_thread_pool') :
           \/ i \in 1..Len(m_thread_pool) /\ m_thread_pool'[i] = m_thread_pool[i]
           \/ i = Len(m_thread_pool) + 1 /\ m_thread_pool'[i] = actor_ptr
    BY <2>1
  <2>3. QED
    BY <1>10, <2>2 DEF Post
<1>11. ASSUME NEW w \in Workers, StartTask(w) PROVE Rest'
  <2>1. /\ Len(m_thread_pool) \in Nat \ {0}
        /\ Len(m_thread_pool') = Len(m_thread_pool) - 1
        /\ \A i \in 1..Len(m_thread_pool') : m_thread_pool'[i] = m_thread_pool[i + 1]
        /\ Head(m_thread_pool) = m_thread_pool[1]
    BY <1>11, <1>t, HeadTailProperties, EmptySeq DEF StartTask
  <2>2. \A i \in 1..Len(m_thread_pool') :
           /\ i + 1 \in 1..Len(m_thread_pool) /\ i + 1 # 1
           /\ m_thread_pool'[i] = m_thread_pool[i + 1]
    BY <2>1
  <2>3. \A v \in Workers :
           /\ task'[v] = IF v = w THEN m_thread_pool[1] ELSE task[v]
           /\ worker'[v] = IF v = w THEN "tick" ELSE worker[v]
    BY <1>11, <1>t, <2>1 DEF StartTask
  <2>4. 1 \in 1..Len(m_thread_pool)
    BY <2>1
  <2>5. QED
    BY <1>11, <2>2, <2>3, <2>4 DEF StartTask
<1>12. ASSUME NEW w \in Workers, Tick(w) PROVE Rest'
  <2>1. /\ task[w] \in Actors
        /\ m_state[task[w]] = STATE_TICKING
        /\ \A v \in Workers : worker'[v] # "idle" <=> worker[v] # "idle"
    BY <1>12, <1>t DEF Tick
  <2>2. m_state' = m_state
    BY <1>12, <1>t, <2>1 DEF Tick, set_state
  <2>3. QED
    BY <1>12, <2>1, <2>2 DEF Tick
<1>13. ASSUME NEW w \in Workers, CopyMsgs(w) PROVE Rest'
  <2>1. \A v \in Workers : worker'[v] # "idle" <=> worker[v] # "idle"
    BY <1>13, <1>t DEF CopyMsgs
  <2>2. QED
    BY <1>13, <2>1 DEF CopyMsgs
<1>14. ASSUME NEW w \in Workers, HandleMsg(w) PROVE Rest'
  BY <1>14 DEF HandleMsg
<1>15. ASSUME NEW w \in Workers, TickDone(w) PROVE Rest'
  <2>1. /\ worker[w] # "idle"
        /\ task[w] \in Actors
        /\ \A a \in Actors :
             m_state'[a] = IF a = task[w] THEN STATE_READY_TICK ELSE m_state[a]
    BY <1>15, <1>t DEF TickDone, set_state
  <2>2. \A v \in Workers :
           worker'[v] # "idle" =>
              v # w /\ worker[v] # "idle" /\ task'[v] = task[v]
    BY <1>15, <1>t DEF TickDone
  <2>3. QED
    BY <1>15, <1>t, <1>p, <1>s, <2>1, <2>2 DEF TickDone
<1>16. ASSUME NEW a \in Actors, NEW msgptr \in ActorMsgPtr, AddMsg(a, msgptr)
       PROVE  Rest'
  BY <1>16 DEF AddMsg
<1>17. CASE UNCHANGED vars
  BY <1>17 DEF vars
<1>18. QED
  BY <1>1, <1>2, <1>3, <1>4, <1>5, <1>6, <1>7, <1>8, <1>9, <1>10, <1>11,
     <1>12, <1>13, <1>14, <1>15, <1>16, <1>17
  DEF Next, Setup, RunLoop, WorkerStep

\* No two workers ever tick the same actor, and no actor is posted again
\* while its lambda is queued or running: ready_tick, set_state and post are
\* separate steps of run(), but only run() moves an actor out of
\* STATE_READY_TICK and only the lambda that holds it moves it back.
THEOREM MutualExclusion == Spec => []OneTickPerActor
<1>1. ExclusionInv => OneTickPerActor
  BY DEF ExclusionInv, OnePlace, OneTickPerActor, Claimed, Queued, Running
<1>2. QED
  BY InitExclusion, NextExclusion, <1>1, PTL DEF Spec

\* The stamps of an actor never come closer than its interval, whatever the
\* clock does between two passes of run().
THEOREM Spacing == Spec => TickSpacing
<1>1. ExclusionInv /\ [Next]_vars =>
        [\A a \in Actors :
            m_last_tick_timestamp'[a] # m_last_tick_timestamp[a] =>
               m_last_tick_timestamp'[a] >= m_last_tick_timestamp[a] + Interval[a]]_vars
  <2> SUFFICES ASSUME ExclusionInv, Next, NEW a \in Actors,
                      m_last_tick_timestamp'[a] # m_last_tick_timestamp[a]
               PROVE  m_last_tick_timestamp'[a] >= m_last_tick_timestamp[a] + Interval[a]
    OBVIOUS
  <2>1. Stamp
    BY DEF Next, Setup, RunLoop, WorkerStep, RenameActor, InitActor, register_actor,
           EnterRun, ReadClock, Visit, EndPass, Claim, Post, StartTask, Tick,
           CopyMsgs, HandleMsg, TickDone, AddMsg, baseVars
  <2>2. a = actor_ptr /\ m_last_tick_timestamp'[a] = now
    BY <2>1 DEF Stamp, set_last_tick_timestamp, ExclusionInv, TypeOK, BaseTypeOK
  <2>3. /\ now - m_last_tick_timestamp[a] >= Interval[a]
        /\ now \in Int /\ m_last_tick_timestamp[a] \in Int /\ Interval[a] \in Int
    BY <2>1, <2>2, ActorAssumption
    DEF Stamp, ExclusionInv, ReadyStillHolds, TypeOK, BaseTypeOK
  <2>4. QED
    BY <2>2, <2>3
<1>2. QED
  BY InitExclusion, NextExclusion, <1>1, PTL DEF Spec, TickSpacing
-----------------------------------------------------------------------------
\* One counter per mailbox entry.
Counted == \A a \in Actors : Len(times[a]) = Len(m_msg_vec[a])

\* The copy a tick works through is a prefix of the mailbox, however many
\* messages are added meanwhile.
CopyIsPrefix ==
  \A w \in Workers :
     worker[w] = "handle" =>
        /\ pos[w] \in 1..(Len(msglist[w]) + 1)
        /\ Len(msglist[w]) <= Len(m_msg_vec[task[w]])
        /\ \A i \in 1..Len(msglist[w]) : msglist[w][i] = m_msg_vec[task[w]][i]

\* What a tick has handled so far is strictly ahead of what it has not.
HandledAhead ==
  \A w \in Workers :
     worker[w] = "handle" =>
        \A i \in 1..Len(m_msg_vec[task[w]]) :
           i < pos[w] /\ m_msg_vec[task[w]][i] # NullMsg =>
              /\ times[task[w]][i] > 0
              /\ \A j \in 1..Len(m_msg_vec[task[w]]) :
                   j >= pos[w] => times[task[w]][i] > times[task[w]][j]

MailboxInv == Counted /\ CopyIsPrefix /\ HandledAhead /\ NoOvertaking

\* Nothing has been added or handled at the start.
LEMMA InitMailbox == Init => MailboxInv
  BY EmptySeq
  DEF Init, ActorBaseInit, MailboxInv, Counted, CopyIsPrefix, HandledAhead, NoOvertaking

\* Every step keeps the mailboxes and their counters in order; the counters
\* of an actor that one worker handles are not touched by another.
LEMMA NextMailbox ==
  ExclusionInv /\ MailboxInv /\ [Next]_vars => MailboxInv'
<1> SUFFICES ASSUME ExclusionInv, MailboxInv, [Next]_vars PROVE MailboxInv'
  OBVIOUS
<1>t. /\ m_msg_vec \in [Actors -> Seq(ActorMsgPtr)]
      /\ task \in [Workers -> Actors \cup {NoActor}]
      /\ worker \in [Workers -> WorkerSteps]
      /\ \A w \in Workers : worker[w] # "idle" => task[w] \in Actors
      /\ msglist \in [Workers -> Seq(ActorMsgPtr)]
      /\ pos \in [Workers -> Nat]
      /\ times \in [Actors -> Seq(Nat)]
  BY DEF ExclusionInv, TypeOK, BaseTypeOK
<1>x. \A v, w \in Workers :
         worker[v] # "idle" /\ worker[w] # "idle" /\ task[v] = task[w] => v = w
  BY DEF ExclusionInv, OnePlace
<1>n. \A a \in Actors : /\ Len(m_msg_vec[a]) \in Nat
                         /\ \A i \in 1..Len(times[a]) : times[a][i] \in Nat
  BY <1>t, LenProperties, ElementOfSeq
<1> USE DEF MailboxInv, Counted, CopyIsPrefix, HandledAhead, NoOvertaking
<1>u. ASSUME UNCHANGED <<m_msg_vec, times>>,
             \A v \in Workers : worker'[v] = "handle" =>
                /\ worker[v] = "handle" /\ task'[v] = task[v]
                /\ msglist'[v] = msglist[v] /\ pos'[v] = pos[v]
      PROVE  MailboxInv'
  <2>1. Counted' /\ NoOvertaking'
    BY <1>u
  <2>2. CopyIsPrefix'
    BY <1>u
  <2>3. HandledAhead'
    BY <1>u
  <2>4. QED
    BY <2>1, <2>2, <2>3
<1>1. CASE UNCHANGED <<m_msg_vec, workerVars>>
  BY <1>1, <1>u DEF workerVars
<1>2. ASSUME NEW w \in Workers, StartTask(w) PROVE MailboxInv'
  <2>1. /\ UNCHANGED <<m_msg_vec, msglist, pos, times>>
        /\ \A v \in Workers :
             worker'[v] = "handle" => worker[v] = "handle" /\ task'[v] = task[v]
    BY <1>2, <1>t DEF StartTask, baseVars
  <2>2. QED
    BY <2>1, <1>u
<1>3. ASSUME NEW w \in Workers, Tick(w) PROVE MailboxInv'
  <2>1. /\ UNCHANGED <<m_msg_vec, msglist, pos, times, task>>
        /\ \A v \in Workers : worker'[v] = "handle" => worker[v] = "handle"
    BY <1>3, <1>t DEF Tick
  <2>2. QED
    BY <2>1, <1>u
<1>4. ASSUME NEW w \in Workers, CopyMsgs(w) PROVE MailboxInv'
  <2>1. /\ UNCHANGED <<m_msg_vec, times, task>>
        /\ task[w] \in Actors
        /\ msglist'[w] = m_msg_vec[task[w]] /\ pos'[w] = 1
        /\ \A v \in Workers \ {w} :
             msglist'[v] = msglist[v] /\ pos'[v] = pos[v] /\ worker'[v] = worker[v]
    BY <1>4, <1>t DEF CopyMsgs, baseVars
  <2>2. QED
    BY <2>1, <1>n
<1>5. ASSUME NEW w \in Workers, HandleMsg(w) PROVE MailboxInv'
  <2> DEFINE a == task[w]
             k == pos[w]
  <2>1. /\ worker[w] = "handle" /\ a \in Actors
        /\ k \in 1..Len(m_msg_vec[a])
        /\ k <= Len(msglist[w]) /\ msglist[w][k] = m_msg_vec[a][k]
        /\ UNCHANGED <<m_msg_vec, task, worker, msglist>>
        /\ \A v \in Workers : pos'[v] = IF v = w THEN k + 1 ELSE pos[v]
    <3>1. /\ worker[w] = "handle" /\ a \in Actors
          /\ k <= Len(msglist[w])
          /\ UNCHANGED <<m_msg_vec, task, worker, msglist>>
          /\ \A v \in Workers : pos'[v] = IF v = w THEN k + 1 ELSE pos[v]
      BY <1>5, <1>t DEF HandleMsg, baseVars
    <3>2. k \in 1..Len(msglist[w]) /\ Len(msglist[w]) <= Len(m_msg_vec[a])
      BY <3>1, <1>t, LenProperties
    <3>3. QED
      BY <3>1, <3>2, <1>n
  <2>2. CopyIsPrefix'
    <3> SUFFICES ASSUME NEW v \in Workers, worker[v] = "handle"
                 PROVE  /\ pos'[v] \in 1..(Len(msglist[v]) + 1)
                        /\ Len(msglist[v]) <= Len(m_msg_vec[task[v]])
                        /\ \A i \in 1..Len(msglist[v]) :
                             msglist[v][i] = m_msg_vec[task[v]][i]
      BY <2>1
    <3>1. Len(msglist[w]) \in Nat
      BY <1>t, LenProperties
    <3>2. QED
      BY <2>1, <3>1
  <2>3. CASE m_msg_vec[a][k] = NullMsg
    <3>1. times' = times
      BY <1>5, <2>1, <2>3 DEF HandleMsg
    <3>2. Counted' /\ NoOvertaking'
      BY <2>1, <3>1
    <3>3. CopyIsPrefix'
      BY <2>2
    <3>4. HandledAhead'
      <4> SUFFICES ASSUME NEW v \in Workers, worker[v] = "handle",
                          NEW i \in 1..Len(m_msg_vec[task[v]]),
                          i < pos'[v], m_msg_vec[task[v]][i] # NullMsg
                   PROVE  /\ times[task[v]][i] > 0
                          /\ \A j \in 1..Len(m_msg_vec[task[v]]) :
                               j >= pos'[v] => times[task[v]][i] > times[task[v]][j]
        BY <2>1, <3>1
      <4>1. i < pos[v]
        BY <2>1, <2>3
      <4>2. \A j \in 1..Len(m_msg_vec[task[v]]) : j >= pos'[v] => j >= pos[v]
        BY <2>1
      <4>3. QED
        BY <4>1, <4>2
    <3>5. QED
      BY <3>2, <3>3, <3>4
  <2>4. CASE m_msg_vec[a][k] # NullMsg
    <3>1. /\ \A b \in Actors \ {a} : times'[b] = times[b]
          /\ Len(times'[a]) = Len(times[a])
          /\ \A i \in 1..Len(m_msg_vec[a]) :
               /\ times[a][i] \in Nat
               /\ times'[a][i] = IF i = k THEN times[a][k] + 1 ELSE times[a][i]
      <4>1. times' = [times EXCEPT ![a] = [times[a] EXCEPT ![k] = times[a][k] + 1]]
        BY <1>5, <1>t, <2>1, <2>4 DEF HandleMsg
      <4>2. /\ times[a] \in Seq(Nat) /\ k \in 1..Len(times[a])
            /\ times[a][k] + 1 \in Nat
        BY <1>t, <1>n, <2>1
      <4>3. QED
        BY <4>1, <4>2, <1>t, <1>n, <2>1, ExceptSeq, SMTT(30)
    <3>2. Counted'
      <4> SUFFICES ASSUME NEW b \in Actors PROVE Len(times'[b]) = Len(m_msg_vec[b])
        BY <2>1
      <4>1. QED
        BY <3>1
    <3>3. NoOvertaking'
      <4> SUFFICES ASSUME NEW b \in Actors,
                          NEW i \in 1..Len(m_msg_vec[b]), NEW j \in 1..Len(m_msg_vec[b]),
                          i < j, m_msg_vec[b][i] # NullMsg
                   PROVE  times'[b][i] >= times'[b][j]
        BY <2>1
      <4>1. CASE b # a
        BY <4>1, <3>1
      <4>2. CASE b = a /\ j = k
        <5>1. times[a][i] > times[a][k]
          BY <4>2, <2>1
        <5>2. /\ times[a][i] \in Nat /\ times'[a][i] = times[a][i]
              /\ times[a][k] \in Nat /\ times'[a][k] = times[a][k] + 1
          BY <4>2, <3>1
        <5>3. QED
          BY <4>2, <5>1, <5>2
      <4>3. CASE b = a /\ j # k
        <5>1. times[a][i] >= times[a][j]
          BY <4>3
        <5>2. /\ times[a][i] \in Nat /\ times'[a][i] \in {times[a][i], times[a][i] + 1}
              /\ times[a][j] \in Nat /\ times'[a][j] = times[a][j]
          BY <4>3, <3>1
        <5>3. QED
          BY <4>3, <5>1, <5>2
      <4>4. QED
        BY <4>1, <4>2, <4>3
    <3>4. HandledAhead'
      <4> SUFFICES ASSUME NEW v \in Workers, worker[v] = "handle",
                          NEW i \in 1..Len(m_msg_vec[task[v]]),
                          i < pos'[v], m_msg_vec[task[v]][i] # NullMsg
                   PROVE  /\ times'[task[v]][i] > 0
                          /\ \A j \in 1..Len(m_msg_vec[task[v]]) :
                               j >= pos'[v] => times'[task[v]][i] > times'[task[v]][j]
        BY <2>1
      <4>1. CASE v # w
        <5>1. task[v] \in Actors \ {a}
          BY <4>1, <1>x, <1>t, <2>1
        <5>2. QED
          BY <4>1, <5>1, <2>1, <3>1
      <4>2. CASE v = w /\ i < k
        <5>1. /\ times[a][i] > 0
              /\ \A j \in 1..Len(m_msg_vec[a]) : j >= k => times[a][i] > times[a][j]
          BY <4>2
        <5>2. /\ i \in 1..Len(m_msg_vec[a]) /\ i # k /\ k \in Nat
              /\ \A j \in 1..Len(m_msg_vec[a]) : j >= k + 1 => j >= k /\ j # k
          BY <4>2, <2>1
        <5>3. /\ times'[a][i] = times[a][i]
              /\ \A j \in 1..Len(m_msg_vec[a]) : j >= k + 1 => times'[a][j] = times[a][j]
          BY <5>2, <3>1
        <5>4. QED
          BY <4>2, <5>1, <5>2, <5>3, <2>1
      <4>3. CASE v = w /\ i = k
        <5>1. \A j \in 1..Len(m_msg_vec[a]) : j > k => times[a][k] >= times[a][j]
          BY <4>3, <2>1, <2>4
        <5>2. \A j \in 1..Len(m_msg_vec[a]) : j >= k + 1 => j > k /\ j # k
          BY <2>1
        <5>3. /\ times[a][k] \in Nat /\ times'[a][k] = times[a][k] + 1
              /\ \A j \in 1..Len(m_msg_vec[a]) :
                   j >= k + 1 => times[a][j] \in Nat /\ times'[a][j] = times[a][j]
          BY <5>2, <2>1, <3>1
        <5>4. ASSUME NEW j \in 1..Len(m_msg_vec[a]), j >= k + 1
              PROVE  times'[a][k] > times'[a][j]
          BY <5>1, <5>2, <5>3, <5>4, SMTT(30)
        <5>5. times'[a][k] > 0
          BY <5>3
        <5>6. QED
          BY <4>3, <5>4, <5>5, <2>1
      <4>4. QED
        BY <4>1, <4>2, <4>3, <2>1
    <3>5. QED
      BY <3>2, <3>3, <3>4, <2>2
  <2>5. QED
    BY <2>3, <2>4
<1>6. ASSUME NEW w \in Workers, TickDone(w) PROVE MailboxInv'
  <2>1. /\ UNCHANGED <<m_msg_vec, times>>
        /\ \A v \in Workers : worker'[v] = "handle" =>
             /\ worker[v] = "handle" /\ task'[v] = task[v]
             /\ msglist'[v] = msglist[v] /\ pos'[v] = pos[v]
    BY <1>6, <1>t DEF TickDone
  <2>2. QED
    BY <2>1, <1>u
<1>7. ASSUME NEW a \in Actors, NEW msgptr \in ActorMsgPtr, AddMsg(a, msgptr)
      PROVE  MailboxInv'
  <2>1. /\ UNCHANGED <<task, worker, msglist, pos>>
        /\ \A b \in Actors \ {a} :
             times'[b] = times[b] /\ m_msg_vec'[b] = m_msg_vec[b]
        /\ m_msg_vec'[a] = Append(m_msg_vec[a], msgptr)
        /\ times'[a] = Append(times[a], 0)
    BY <1>7, <1>t DEF AddMsg, addmsg
  <2>2. /\ Len(m_msg_vec'[a]) = Len(m_msg_vec[a]) + 1
        /\ \A i \in 1..Len(m_msg_vec[a]) : m_msg_vec'[a][i] = m_msg_vec[a][i]
        /\ Len(times'[a]) = Len(m_msg_vec[a]) + 1
        /\ \A i \in 1..Len(m_msg_vec[a]) :
             times'[a][i] = times[a][i] /\ times[a][i] \in Nat
        /\ times'[a][Len(m_msg_vec[a]) + 1] = 0
    BY <2>1, <1>t, <1>n, AppendProperties
  <2>3. Counted'
    <3> SUFFICES ASSUME NEW b \in Actors PROVE Len(times'[b]) = Len(m_msg_vec'[b])
      OBVIOUS
    <3>1. QED
      BY <2>1, <2>2
  <2>4. CopyIsPrefix'
    <3> SUFFICES ASSUME NEW v \in Workers, worker[v] = "handle"
                 PROVE  /\ pos[v] \in 1..(Len(msglist[v]) + 1)
                        /\ Len(msglist[v]) <= Len(m_msg_vec'[task[v]])
                        /\ \A i \in 1..Len(msglist[v]) :
                             msglist[v][i] = m_msg_vec'[task[v]][i]
      BY <2>1
    <3>1. /\ task[v] \in Actors /\ Len(msglist[v]) \in Nat
          /\ Len(m_msg_vec[task[v]]) \in Nat
      BY <1>t, LenProperties
    <3>2. CASE task[v] # a
      BY <3>1, <3>2, <2>1
    <3>3. CASE task[v] = a
      BY <3>1, <3>3, <2>2
    <3>4. QED
      BY <3>2, <3>3
  <2>5. NoOvertaking'
    <3> SUFFICES ASSUME NEW b \in Actors,
                        NEW i \in 1..Len(m_msg_vec'[b]), NEW j \in 1..Len(m_msg_vec'[b]),
                        i < j, m_msg_vec'[b][i] # NullMsg
                 PROVE  times'[b][i] >= times'[b][j]
      OBVIOUS
    <3>1. CASE b # a
      BY <3>1, <2>1
    <3>2. CASE b = a
      <4>1. i \in 1..Len(m_msg_vec[a]) /\ times'[a][i] = times[a][i] /\ times[a][i] \in Nat
        BY <3>2, <2>2, <1>n
      <4>2. j \in 1..Len(m_msg_vec[a]) \/ j = Len(m_msg_vec[a]) + 1
        BY <3>2, <2>2, <1>n
      <4>3. j \in 1..Len(m_msg_vec[a]) => times[a][i] >= times[a][j] /\ times'[a][j] = times[a][j]
        BY <3>2, <4>1, <2>2
      <4>4. QED
        BY <3>2, <4>1, <4>2, <4>3, <2>2
    <3>3. QED
      BY <3>1, <3>2
  <2>6. HandledAhead'
    <3> SUFFICES ASSUME NEW v \in Workers, worker[v] = "handle",
                        NEW i \in 1..Len(m_msg_vec'[task[v]]),
                        i < pos[v], m_msg_vec'[task[v]][i] # NullMsg
                 PROVE  /\ times'[task[v]][i] > 0
                        /\ \A j \in 1..Len(m_msg_vec'[task[v]]) :
                             j >= pos[v] => times'[task[v]][i] > times'[task[v]][j]
      BY <2>1
    <3>1. CASE task[v] # a
      BY <3>1, <2>1, <1>t
    <3>2. CASE task[v] = a
      <4>1. Len(msglist[v]) \in Nat /\ pos[v] <= Len(m_msg_vec[a]) + 1
        BY <3>2, <1>t, <1>n, LenProperties
      <4>2. i \in 1..Len(m_msg_vec[a])
        BY <3>2, <4>1, <2>2, <1>t, <1>n
      <4>3. /\ times[a][i] > 0
            /\ \A j \in 1..Len(m_msg_vec[a]) : j >= pos[v] => times[a][i] > times[a][j]
        BY <3>2, <4>2, <2>2
      <4>4. \A j \in 1..Len(m_msg_vec'[a]) :
               j \in 1..Len(m_msg_vec[a]) \/ j = Len(m_msg_vec[a]) + 1
        BY <2>2, <1>n
      <4>5. QED
        BY <3>2, <4>2, <4>3, <4>4, <2>2
    <3>3. QED
      BY <3>1, <3>2
  <2>7. QED
    BY <2>3, <2>4, <2>5, <2>6
<1>8. QED
  BY <1>1, <1>2, <1>3, <1>4, <1>5, <1>6, <1>7
  DEF Next, Setup, RunLoop, WorkerStep, RenameActor, InitActor, register_actor,
      EnterRun, ReadClock, Visit, EndPass, Claim, Stamp, Post, baseVars, vars

\* An actor handles its messages in the order they were added, although
\* addmsg runs between the copy and the loop over it and the same messages
\* are handled again by every tick.
THEOREM InOrder == Spec => []NoOvertaking
<1>1. MailboxInv => NoOvertaking
  BY DEF MailboxInv
<1>2. QED
  BY InitExclusion, NextExclusion, InitMailbox, NextMailbox, <1>1, PTL DEF Spec
=============================================================================
