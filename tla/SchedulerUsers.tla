--------------------------- MODULE SchedulerUsers ---------------------------
(***************************************************************************)
(* The three ways in which this repository uses asio's scheduler:          *)
(*   - "timers", test/timer/timer_test.cc: Printer's two timers call       *)
(*     printA and printB through a strand, and two threads call run();     *)
(*   - "pool", the thread_pool of ActorCore: the thread inside             *)
(*     ActorCore::run posts lambdas, the pool's threads run them, and the  *)
(*     pool's own work keeps them there;                                   *)
(*   - "poll", TCPServer::loop and TCPClient::loop: one thread calls       *)
(*     poll() again and again, and handlers begin the next operation, or   *)
(*     do not.  (Here a timer stands for an operation on a socket.)        *)
(* Time is left out: a timer expires some time after it was set.  The      *)
(* timer queue and timerfd appear by their effect: a reactor that blocks   *)
(* returns when a timer has expired.                                       *)
(***************************************************************************)
EXTENDS Strand

CONSTANTS
  Timers,      \* m_timerA and m_timerB
  Write,       \* the completion of Printer's async_write on a closed socket
  Lambdas,     \* what ActorCore::run posts
  Limit        \* 10 in printA and printB

\* There is a thread in run() and a timer; what can be queued is told apart.
ASSUME UsersAssumption ==
  /\ Runners # {}
  /\ Timers # {} /\ IsFiniteSet(Timers)
  /\ Limit \in Nat
  /\ Timers \cap Lambdas = {} /\ Write # Invoker
  /\ {Write, Invoker} \cap (Timers \cup Lambdas) = {}
  /\ {task_operation_, NoOp} \cap (Timers \cup Lambdas \cup {Write, Invoker}) = {}

VARIABLES
  program,     \* "timers", "pool" or "poll"
  timer,       \* each timer: "idle", "set" or "expired"
  m_count,
  posted,      \* lambdas posted
  ran          \* lambdas run

printerVars == <<timer, m_count>>
poolVars == <<posted, ran>>
vars == <<schedulerVars, strandVars, fn, program, printerVars, poolVars>>

Ops == Timers \cup {Write, Invoker} \cup Lambdas

TypeOK ==
  /\ op_queue_ \in Seq(Ops \cup {task_operation_})
  /\ outstanding_work_ \in Nat
  /\ {stopped_, task_, polls, task_interrupted_, interrupted, signalled, locked_} \subseteq BOOLEAN
  /\ woken \subseteq Waiters
  /\ pc \in [Threads -> {"start", "outside", "loop", "wait", "signal", "task", "cleanup",
                         "handler", "finish", "stop", "returned",
                         "invoke", "check", "count", "rearm", "repost"}]
  /\ then \in [Threads -> {"outside", "returned", "task", "handler", "loop", "finish"}]
  /\ blocks \in [Threads -> BOOLEAN]
  /\ private_op_queue \in [Threads -> Seq(Timers)]
  /\ op \in [Threads -> Ops \cup {NoOp}]
  /\ owed \in [Threads -> Nat]
  /\ waiting_queue_ \in Seq(Timers) /\ ready_queue_ \in Seq(Timers)
  /\ fn \in [Threads -> Timers \cup {NoOp}]
  /\ program \in {"timers", "pool", "poll"}
  /\ timer \in [Timers -> {"idle", "set", "expired"}]
  /\ m_count \in Nat
  /\ posted \subseteq Lambdas /\ ran \subseteq posted

\* A wait on a timer is work, and so is the strand's executor that its
\* handler carries; an invoker carries the one it was made with.
cost == [o \in Ops |-> IF program = "timers" /\ o \in Timers \cup {Invoker} THEN 2 ELSE 1]

\* When the threads call run() or poll(): after Printer's constructor, after
\* thread_pool's, or with an operation begun on each socket.
Init ==
  /\ program \in {"timers", "pool", "poll"}
  /\ CASE program = "timers" ->
            SchedulerInit(<<task_operation_, Write>>, 2 * Cardinality(Timers) + 1,
                          TRUE, Runners, FALSE)
       [] program = "pool" -> SchedulerInit(<<>>, 1, FALSE, Runners, FALSE)
       [] program = "poll" ->
            \E r \in Runners :
               SchedulerInit(<<task_operation_>>, Cardinality(Timers), TRUE, {r}, TRUE)
  /\ StrandInit
  /\ timer = [x \in Timers |-> IF program = "pool" THEN "idle" ELSE "set"]
  /\ m_count = 0
  /\ posted = {} /\ ran = {}
-----------------------------------------------------------------------------
(***************************************************************************)
(* The reactor's timers.                                                   *)
(***************************************************************************)
Expire(x) ==
  /\ timer[x] = "set"
  /\ timer' = [timer EXCEPT ![x] = "expired"]
  /\ UNCHANGED <<schedulerVars, strandVars, fn, program, m_count, poolVars>>

\* epoll_reactor::run with get_ready_timers: all that have expired.
RunTask(t) ==
  LET expired == {x \in Timers : timer[x] = "expired"} IN
  /\ \E found \in SetToSeqs(expired) : TaskReturns(t, found)
  /\ timer' = [x \in Timers |-> IF x \in expired THEN "idle" ELSE timer[x]]
  /\ UNCHANGED <<strandVars, fn, program, m_count, poolVars>>
-----------------------------------------------------------------------------
(***************************************************************************)
(* Printer.                                                                *)
(***************************************************************************)
\* wait_handler::do_complete: the handler goes through its strand.
TimerHandler(t) ==
  /\ program = "timers" /\ op[t] \in Timers
  /\ dispatch(t, op[t])
  /\ UNCHANGED <<program, printerVars, poolVars>>

\* printA and printB: the test, the count, and the timer set again.
Check(t) ==
  /\ pc[t] = "check"
  /\ Goto(t, IF m_count < Limit THEN "count" ELSE "invoke")
  /\ UNCHANGED <<queueVars, taskVars, eventVars, then, blocks, private_op_queue, op, owed>>
  /\ UNCHANGED <<strandVars, fn, program, printerVars, poolVars>>

Count(t) ==
  /\ pc[t] = "count"
  /\ m_count' = m_count + 1
  /\ Goto(t, "rearm")
  /\ UNCHANGED <<queueVars, taskVars, eventVars, then, blocks, private_op_queue, op, owed>>
  /\ UNCHANGED <<strandVars, fn, program, timer, poolVars>>

Rearm(t) ==
  /\ pc[t] = "rearm"
  /\ timer' = [timer EXCEPT ![fn[t]] = "set"]
  /\ outstanding_work_' = outstanding_work_ + cost[fn[t]]
  /\ Goto(t, "invoke")
  /\ UNCHANGED <<op_queue_, stopped_, taskVars, eventVars, then, blocks, private_op_queue, op, owed>>
  /\ UNCHANGED <<strandVars, fn, program, m_count, poolVars>>

\* The write's promise gets its exception; the future is gone.
WriteHandler(t) ==
  /\ pc[t] = "handler" /\ op[t] = Write
  /\ Goto(t, "finish")
  /\ UNCHANGED <<queueVars, taskVars, eventVars, then, blocks, private_op_queue, op, owed>>
  /\ UNCHANGED <<strandVars, fn, program, printerVars, poolVars>>
-----------------------------------------------------------------------------
(***************************************************************************)
(* ActorCore's pool.                                                       *)
(***************************************************************************)
Post(t, x) ==
  /\ program = "pool" /\ pc[t] = "outside"
  /\ x \notin posted
  /\ post_immediate_completion(t, x, "outside")
  /\ posted' = posted \cup {x}
  /\ UNCHANGED <<blocks, private_op_queue, op, owed, strandVars, fn, program, printerVars, ran>>

RunLambda(t) ==
  /\ pc[t] = "handler" /\ op[t] \in Lambdas
  /\ ran' = ran \cup {op[t]}
  /\ Goto(t, "finish")
  /\ UNCHANGED <<queueVars, taskVars, eventVars, then, blocks, private_op_queue, op, owed>>
  /\ UNCHANGED <<strandVars, fn, program, printerVars, posted>>
-----------------------------------------------------------------------------
(***************************************************************************)
(* The network loops.                                                      *)
(***************************************************************************)
\* A handler begins the next operation, or the connection is over.
SocketHandler(t, again) ==
  /\ program = "poll" /\ pc[t] = "handler" /\ op[t] \in Timers
  /\ timer' = IF again THEN [timer EXCEPT ![op[t]] = "set"] ELSE timer
  /\ outstanding_work_' = outstanding_work_ + IF again THEN 1 ELSE 0
  /\ Goto(t, "finish")
  /\ UNCHANGED <<op_queue_, stopped_, taskVars, eventVars, then, blocks, private_op_queue, op, owed>>
  /\ UNCHANGED <<strandVars, fn, program, m_count, poolVars>>
-----------------------------------------------------------------------------
SchedulerStep(t) ==
  /\ Signal(t) \/ stop(t) \/ run(t) \/ Return(t) \/ Wait(t) \/ WaitAgain(t)
     \/ TakeTask(t) \/ PollTask(t) \/ PollReturns(t) \/ PollAgain(t) \/ TakeOp(t, cost) \/ work_finished(t)
  /\ UNCHANGED <<strandVars, fn, program, printerVars, poolVars>>

StrandStep(t) ==
  /\ StartInvoker(t) \/ RunReady(t, "check") \/ InvokerExit(t) \/ Repost(t)
  /\ UNCHANGED <<program, printerVars, poolVars>>

ThreadStep(t) ==
  \/ SchedulerStep(t) \/ RunTask(t) \/ StrandStep(t)
  \/ TimerHandler(t) \/ Check(t) \/ Count(t) \/ Rearm(t) \/ WriteHandler(t)
  \/ RunLambda(t)
  \/ \E again \in BOOLEAN : SocketHandler(t, again)

Next ==
  \/ \E t \in Threads : ThreadStep(t)
  \/ \E x \in Timers : Expire(x)
  \/ \E t \in Posters, x \in Lambdas : Post(t, x)
  \/ \E t \in Threads : SpuriousWakeup(t) /\ UNCHANGED <<strandVars, fn, program, printerVars, poolVars>>

Spec == Init /\ [][Next]_vars

\* Threads that can run do, and timers expire.  Nobody need post.
FairSpec ==
  /\ Spec
  /\ \A t \in Threads : WF_vars(ThreadStep(t))
  /\ \A x \in Timers : WF_vars(Expire(x))
-----------------------------------------------------------------------------
(***************************************************************************)
(* Properties.                                                             *)
(***************************************************************************)
\* No wake-up is lost: an operation, or the reactor, does not lie in the
\* queue while every thread inside run() sleeps or blocks and nobody is about
\* to wake one.
QueuedOpIsSeen ==
  op_queue_ # <<>> =>
     \/ \E t \in Threads : pc[t] = "signal"
     \/ \E t \in Runners :
           ~Asleep(t) /\ ~(pc[t] = "task" /\ blocks[t] /\ ~interrupted)

\* run() and poll() return only when no operation is queued and no thread is
\* inside a handler, run() moreover only when no timer is set and nothing
\* waits in the strand.  A pool's run() does not return at all.  (The types,
\* with a count of work that is never negative, are checked along with it.)
ReturnsWhenDone ==
  /\ TypeOK
  /\ (\E t \in Runners : pc[t] = "returned") =>
        /\ program # "pool"
        /\ \A i \in DOMAIN op_queue_ : op_queue_[i] = task_operation_
        /\ \A t \in Threads : private_op_queue[t] = <<>> /\ owed[t] = 0
        /\ program = "timers" =>
              /\ \A x \in Timers : timer[x] = "idle"
              /\ waiting_queue_ = <<>> /\ ready_queue_ = <<>>

\* Two threads and two timers never count past the limit, and when run() has
\* returned the limit has been reached: what ~Printer prints.
CountIsExact ==
  /\ m_count <= Limit
  /\ program = "timers" /\ (\E t \in Runners : pc[t] = "returned") => m_count = Limit

\* Both threads return from run(), a lambda that is posted is run, and a loop
\* of poll() sees every operation that is ready: the context never stops for
\* good while one is under way.
HandlersGetDone ==
  /\ [](program = "timers") => <>(\A t \in Runners : pc[t] = "returned")
  /\ []<>(ran = posted)
  /\ \A x \in Timers : (timer[x] = "expired") ~> (timer[x] # "expired")

\* The queue without the reactor's entry, which is in it once if at all.
OpsOf(q) ==
  IF task_operation_ \in Range(q)
  THEN RemoveAt(q, CHOOSE i \in DOMAIN q : q[i] = task_operation_)
  ELSE q

Pool == INSTANCE TaskPool WITH
  PoolThreads <- Runners, Functions <- Ops, Nothing <- NoOp,
  queue <- OpsOf(op_queue_),
  running <- [t \in Runners |-> op[t]]

\* Operations are started in the order they were queued, each once.
ImplementsPool == Pool!Spec
=============================================================================
