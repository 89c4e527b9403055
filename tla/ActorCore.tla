----------------------------- MODULE ActorCore -----------------------------
(***************************************************************************)
(* The actor runtime (actor_core.h, actor_core.cc) with the actors of      *)
(* ActorBase.  Three kinds of threads take steps:                          *)
(*   - the thread that registers the actors and then never leaves run();   *)
(*   - the workers of the asio::thread_pool, which run the posted lambdas; *)
(*   - any thread that calls addmsg, a handle_msg body included (the       *)
(*     mailbox lock is not held while messages are handled).               *)
(* Every access to an actor's atomic m_state is a step of its own, so that *)
(* ready_tick, set_state and the lambda's two stores interleave freely.    *)
(***************************************************************************)
EXTENDS ActorBase

CONSTANTS
  Workers,   \* the threads of m_thread_pool (hardware_concurrency() of them)
  Clock,     \* values Timestamp::now().unixmills() may return, in any order
  Horizon,   \* a time the clock is sure to reach
  MaxTicks,  \* bound: the liveness property counts this many ticks
  NoActor    \* no entry under this id; a worker that runs nothing

ASSUME CoreAssumption ==
  /\ Clock \subseteq Int
  /\ Horizon \in Int
  /\ MaxTicks \in Nat
  /\ NoActor \notin Actors

VARIABLES
  m_actor_map,    \* id -> actor, NoActor where the map has no such key
  runner,         \* where the thread inside run() stands
  now,            \* run()'s local now
  it,             \* the keys the for loop has still to visit
  actor_ptr,      \* run()'s local actor_ptr
  m_thread_pool,  \* lambdas posted and not yet started: the actor of each
  task,           \* the actor each worker's current lambda captured
  worker,         \* where each worker stands in that lambda
  msglist,        \* handle_all_msg's local copy of the mailbox
  pos,            \* position of the range-for over msglist
  times           \* history: how often each mailbox entry has been handled

coreVars == <<m_actor_map, runner, now, it, actor_ptr, m_thread_pool>>
workerVars == <<task, worker, msglist, pos, times>>
vars == <<baseVars, coreVars, workerVars>>

RunnerSteps == {"setup", "clock", "visit", "claim", "stamp", "post"}
WorkerSteps == {"idle", "tick", "copy", "handle"}

TypeOK ==
  /\ BaseTypeOK
  /\ m_actor_map \in [Ids -> Actors \cup {NoActor}]
  /\ runner \in RunnerSteps
  /\ now \in Int
  /\ it \in SUBSET Ids
  /\ actor_ptr \in Actors \cup {NoActor}
  /\ runner \in {"claim", "stamp", "post"} => actor_ptr \in Actors
  /\ m_thread_pool \in Seq(Actors)
  /\ task \in [Workers -> Actors \cup {NoActor}]
  /\ worker \in [Workers -> WorkerSteps]
  /\ \A w \in Workers : worker[w] # "idle" => task[w] \in Actors
  /\ msglist \in [Workers -> Seq(ActorMsgPtr)]
  /\ pos \in [Workers -> Nat]
  /\ times \in [Actors -> Seq(Nat)]

Registered == {i \in Ids : m_actor_map[i] # NoActor}

Init ==
  /\ ActorBaseInit
  /\ m_actor_map = [i \in Ids |-> NoActor]
  /\ runner = "setup"
  /\ now \in Clock
  /\ it = {}
  /\ actor_ptr = NoActor
  /\ m_thread_pool = <<>>
  /\ task = [w \in Workers |-> NoActor]
  /\ worker = [w \in Workers |-> "idle"]
  /\ msglist = [w \in Workers |-> <<>>]
  /\ pos = [w \in Workers |-> 1]
  /\ times = [a \in Actors |-> <<>>]
-----------------------------------------------------------------------------
(***************************************************************************)
(* Before run(): the owner creates, renames, initializes and registers     *)
(* actors.  The map is not synchronized, so nobody registers later.        *)
(***************************************************************************)
RenameActor(a, id) ==
  /\ runner = "setup"
  /\ set_id(a, id)
  /\ UNCHANGED <<m_state, m_last_tick_timestamp, m_msg_vec, coreVars, workerVars>>

InitActor(a) ==
  /\ runner = "setup"
  /\ init(a)
  /\ UNCHANGED <<m_id, m_last_tick_timestamp, m_msg_vec, coreVars, workerVars>>

\* An id already in the map keeps its first actor.
register_actor(a) ==
  /\ runner = "setup"
  /\ m_actor_map' = IF m_actor_map[m_id[a]] = NoActor
                    THEN [m_actor_map EXCEPT ![m_id[a]] = a]
                    ELSE m_actor_map
  /\ UNCHANGED <<baseVars, runner, now, it, actor_ptr, m_thread_pool, workerVars>>

EnterRun ==
  /\ runner = "setup"
  /\ runner' = "clock"
  /\ UNCHANGED <<baseVars, m_actor_map, now, it, actor_ptr, m_thread_pool, workerVars>>

(***************************************************************************)
(* run(): one reading of the wall clock per pass over the map, in the      *)
(* order of the keys; a due actor is marked, stamped and posted.           *)
(***************************************************************************)
ReadClock(ts) ==
  /\ runner = "clock"
  /\ now' = ts
  /\ it' = Registered
  /\ runner' = "visit"
  /\ UNCHANGED <<baseVars, m_actor_map, actor_ptr, m_thread_pool, workerVars>>

Visit(id) ==
  /\ runner = "visit"
  /\ \A j \in it : id <= j
  /\ it' = it \ {id}
  /\ actor_ptr' = m_actor_map[id]
  /\ runner' = IF ready_tick(m_actor_map[id], now) THEN "claim" ELSE "visit"
  /\ UNCHANGED <<baseVars, m_actor_map, now, m_thread_pool, workerVars>>

EndPass ==
  /\ runner = "visit"
  /\ it = {}
  /\ runner' = "clock"
  /\ UNCHANGED <<baseVars, m_actor_map, now, it, actor_ptr, m_thread_pool, workerVars>>

\* Mutant: run() leaves it to the worker's tick() to set STATE_TICKING.
ClaimLeftToWorker ==
  /\ runner = "claim"
  /\ runner' = "stamp"
  /\ UNCHANGED <<baseVars, m_actor_map, now, it, actor_ptr, m_thread_pool, workerVars>>

Claim ==
  /\ runner = "claim"
  /\ set_state(actor_ptr, STATE_TICKING)
  /\ runner' = "stamp"
  /\ UNCHANGED <<m_id, m_last_tick_timestamp, m_msg_vec>>
  /\ UNCHANGED <<m_actor_map, now, it, actor_ptr, m_thread_pool, workerVars>>

Stamp ==
  /\ runner = "stamp"
  /\ set_last_tick_timestamp(actor_ptr, now)
  /\ runner' = "post"
  /\ UNCHANGED <<m_id, m_state, m_msg_vec>>
  /\ UNCHANGED <<m_actor_map, now, it, actor_ptr, m_thread_pool, workerVars>>

Post ==
  /\ runner = "post"
  /\ m_thread_pool' = Append(m_thread_pool, actor_ptr)
  /\ runner' = "visit"
  /\ UNCHANGED <<baseVars, m_actor_map, now, it, actor_ptr, workerVars>>

(***************************************************************************)
(* A worker: start the oldest lambda, then tick() - set the state, copy    *)
(* the mailbox, handle the copy entry by entry - and set the actor ready.  *)
(***************************************************************************)
\* Mutant: the lambda's captured pointer was moved from, so it is null.
StartTaskMovedFrom(w) ==
  /\ worker[w] = "idle"
  /\ m_thread_pool # <<>>
  /\ task' = [task EXCEPT ![w] = NoActor]
  /\ m_thread_pool' = Tail(m_thread_pool)
  /\ worker' = [worker EXCEPT ![w] = "tick"]
  /\ UNCHANGED <<baseVars, m_actor_map, runner, now, it, actor_ptr, msglist, pos, times>>

StartTask(w) ==
  /\ worker[w] = "idle"
  /\ m_thread_pool # <<>>
  /\ task' = [task EXCEPT ![w] = Head(m_thread_pool)]
  /\ m_thread_pool' = Tail(m_thread_pool)
  /\ worker' = [worker EXCEPT ![w] = "tick"]
  /\ UNCHANGED <<baseVars, m_actor_map, runner, now, it, actor_ptr, msglist, pos, times>>

Tick(w) ==
  /\ worker[w] = "tick"
  /\ set_state(task[w], STATE_TICKING)
  /\ worker' = [worker EXCEPT ![w] = "copy"]
  /\ UNCHANGED <<m_id, m_last_tick_timestamp, m_msg_vec, coreVars, task, msglist, pos, times>>

\* The copy leaves m_msg_vec as it is: the same entries are there next time.
CopyMsgs(w) ==
  /\ worker[w] = "copy"
  /\ msglist' = [msglist EXCEPT ![w] = m_msg_vec[task[w]]]
  /\ pos' = [pos EXCEPT ![w] = 1]
  /\ worker' = [worker EXCEPT ![w] = "handle"]
  /\ UNCHANGED <<baseVars, coreVars, task, times>>

\* Mutant: the loop walks the copy from its newest entry to its oldest.
HandleMsgBackwards(w) ==
  LET i == Len(msglist[w]) + 1 - pos[w] IN
  /\ worker[w] = "handle"
  /\ pos[w] <= Len(msglist[w])
  /\ times' = IF msglist[w][i] = NullMsg
              THEN times
              ELSE [times EXCEPT ![task[w]][i] = @ + 1]
  /\ pos' = [pos EXCEPT ![w] = @ + 1]
  /\ UNCHANGED <<baseVars, coreVars, task, worker, msglist>>

HandleMsg(w) ==
  /\ worker[w] = "handle"
  /\ pos[w] <= Len(msglist[w])
  /\ times' = IF msglist[w][pos[w]] = NullMsg
              THEN times
              ELSE [times EXCEPT ![task[w]][pos[w]] = @ + 1]
  /\ pos' = [pos EXCEPT ![w] = @ + 1]
  /\ UNCHANGED <<baseVars, coreVars, task, worker, msglist>>

\* Mutant: an early return of the lambda skips the second set_state.
TickDoneStaysTicking(w) ==
  /\ worker[w] = "handle"
  /\ pos[w] > Len(msglist[w])
  /\ worker' = [worker EXCEPT ![w] = "idle"]
  /\ msglist' = [msglist EXCEPT ![w] = <<>>]
  /\ pos' = [pos EXCEPT ![w] = 1]
  /\ task' = [task EXCEPT ![w] = NoActor]
  /\ UNCHANGED <<baseVars, coreVars, times>>

TickDone(w) ==
  /\ worker[w] = "handle"
  /\ pos[w] > Len(msglist[w])
  /\ set_state(task[w], STATE_READY_TICK)
  /\ worker' = [worker EXCEPT ![w] = "idle"]
  /\ msglist' = [msglist EXCEPT ![w] = <<>>]
  /\ pos' = [pos EXCEPT ![w] = 1]
  /\ task' = [task EXCEPT ![w] = NoActor]
  /\ UNCHANGED <<m_id, m_last_tick_timestamp, m_msg_vec, coreVars, times>>

\* Any thread, at any time.
AddMsg(a, msgptr) ==
  /\ Len(m_msg_vec[a]) < MaxMsgs[a]
  /\ addmsg(a, msgptr)
  /\ times' = [times EXCEPT ![a] = Append(@, 0)]
  /\ UNCHANGED <<m_id, m_state, m_last_tick_timestamp, coreVars, task, worker, msglist, pos>>

Setup ==
  \/ \E a \in Actors : register_actor(a) \/ InitActor(a)
  \/ \E a \in Actors, id \in Ids : RenameActor(a, id)

RunLoop ==
  \/ EnterRun
  \/ \E ts \in Clock : ReadClock(ts)
  \/ \E id \in it : Visit(id)
  \/ EndPass
  \/ Claim
  \/ Stamp
  \/ Post

WorkerStep(w) ==
  \/ StartTask(w)
  \/ Tick(w)
  \/ CopyMsgs(w)
  \/ HandleMsg(w)
  \/ TickDone(w)

Next ==
  \/ Setup
  \/ RunLoop
  \/ \E w \in Workers : WorkerStep(w)
  \/ \E a \in Actors, msgptr \in ActorMsgPtr : AddMsg(a, msgptr)

Spec == Init /\ [][Next]_vars

(***************************************************************************)
(* run() never returns and never waits, a pool thread with a posted lambda *)
(* runs it, and real time passes: the clock is read at Horizon or later    *)
(* again and again, even if it jumps back in between.                      *)
(***************************************************************************)
Fairness ==
  /\ WF_vars(RunLoop)
  /\ \A w \in Workers : WF_vars(WorkerStep(w))
  /\ SF_vars(\E ts \in Clock : ts >= Horizon /\ ReadClock(ts))

FairSpec == Spec /\ Fairness
-----------------------------------------------------------------------------
(***************************************************************************)
(* Safety.                                                                 *)
(***************************************************************************)
\* Actors the run loop has claimed and not posted yet.
Claimed == IF runner \in {"stamp", "post"} THEN {actor_ptr} ELSE {}

Queued == {m_thread_pool[i] : i \in 1..Len(m_thread_pool)}

Running == {task[w] : w \in {v \in Workers : worker[v] # "idle"}}

\* Between ready_tick and the end of the lambda an actor exists in exactly
\* one place: claimed by run(), once in the pool's queue, or in one worker.
\* In particular two workers never tick the same actor at the same time,
\* although the test of m_state and its store are two steps and an actor
\* renamed between two registrations stands in the map twice.
OneTickPerActor ==
  /\ Claimed \cap (Queued \cup Running) = {}
  /\ Queued \cap Running = {}
  /\ \A i, j \in 1..Len(m_thread_pool) :
        m_thread_pool[i] = m_thread_pool[j] => i = j
  /\ \A v, w \in Workers :
        worker[v] # "idle" /\ worker[w] # "idle" /\ task[v] = task[w] => v = w

\* Messages are handled in the order they were added: at no time has a
\* message been handled more often than one added to the actor before it.
NoOvertaking ==
  \A a \in Actors : \A i, j \in 1..Len(m_msg_vec[a]) :
     i < j /\ m_msg_vec[a][i] # NullMsg => times[a][i] >= times[a][j]

\* Two ticks of an actor are at least its interval apart on the clock run()
\* reads, even when that clock is set back between two passes.
TickSpacing ==
  [][\A a \in Actors :
        m_last_tick_timestamp'[a] # m_last_tick_timestamp[a] =>
           m_last_tick_timestamp'[a] >= m_last_tick_timestamp[a] + Interval[a]
    ]_vars

(***************************************************************************)
(* Liveness.                                                               *)
(***************************************************************************)
\* A further tick of the actor falls within the horizon.
DueAgain(a) ==
  /\ runner # "setup"
  /\ \E id \in Ids : m_actor_map[id] = a
  /\ m_last_tick_timestamp[a] + Interval[a] <= Horizon

\* A message in the mailbox of a registered actor is handled by every further
\* tick, for the first time (k = 0) as well as after k times: no message
\* is missed because it arrives while the mailbox is copied or handled, no
\* actor stays in STATE_TICKING, and no other actor keeps it from ticking.
HandledAtNextTick ==
  \A a \in Actors : \A i \in 1..MaxMsgs[a], k \in 0..MaxTicks :
     (/\ DueAgain(a)
      /\ i <= Len(m_msg_vec[a])
      /\ m_msg_vec[a][i] # NullMsg
      /\ times[a][i] = k)
     ~> (i <= Len(times[a]) /\ times[a][i] > k)
=============================================================================
