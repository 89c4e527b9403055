----------------------------- MODULE Scheduler -----------------------------
(***************************************************************************)
(* asio's scheduler (scheduler.ipp, scheduler.hpp, posix_event.hpp), the   *)
(* engine of io_context::run() and poll() and of thread_pool: threads      *)
(* inside run() share a queue of operations; one entry of the queue stands *)
(* for the reactor, which the thread that takes it runs; a thread that     *)
(* finds the queue empty sleeps on the wake-up event.  What an operation   *)
(* does when it is completed is left to the modules that extend this one.  *)
(*                                                                         *)
(* What happens under mutex_ is one step; a thread that wakes up, or comes *)
(* back from the reactor, goes on in do_run_one without releasing it.      *)
(* pthread_cond_signal comes after the unlock and is a step of its own.    *)
(* Work is counted up in the step that makes it: who makes work holds some *)
(* already, so nobody can see a zero in between.                           *)
(*                                                                         *)
(* one_thread_ is false, as without a concurrency hint of 1.  The programs *)
(* of SchedulerUsers have no continuations, so private_outstanding_work    *)
(* stays 0 and private_op_queue holds only what the reactor found; the     *)
(* later steps of an async_write are continuations, and where one of them  *)
(* is done at once it would be counted in its thread before it is counted  *)
(* here.  A socket's event that completes no operation is counted up       *)
(* (compensating_work_started) and down again; both are left out.  Where   *)
(* poll() is called, one thread calls it, again and again.                 *)
(***************************************************************************)
EXTENDS Integers, Sequences, FiniteSets, SequencesExt

CONSTANTS
  Runners,         \* threads that call run() or poll()
  Posters,         \* other threads that post
  task_operation_, \* the reactor's entry in the queue
  NoOp             \* no operation

ASSUME SchedulerAssumption ==
  /\ Runners \cap Posters = {}
  /\ task_operation_ # NoOp

Threads == Runners \cup Posters

VARIABLES
  op_queue_,          \* operations ready to be completed
  outstanding_work_,  \* reasons for run() not to return
  stopped_,
  task_,              \* there is a reactor
  polls,              \* the program calls poll(), not run()
  task_interrupted_,  \* the reactor is not, or will not stay, blocked
  interrupted,        \* interrupt() was called and epoll_wait has not seen it
  signalled,          \* the event: state_ & 1
  woken,              \* threads in pthread_cond_wait that may return from it
  pc,                 \* where each thread stands
  then,               \* where it goes on after a signal or a stop()
  blocks,             \* the reactor it runs was told to block
  private_op_queue,   \* what its reactor run found
  op,                 \* the operation it is completing
  owed                \* work_finished() calls it has still to make

queueVars == <<op_queue_, outstanding_work_, stopped_>>
taskVars == <<task_, polls, task_interrupted_, interrupted>>
eventVars == <<signalled, woken>>
threadVars == <<pc, then, blocks, private_op_queue, op, owed>>
schedulerVars == <<queueVars, taskVars, eventVars, threadVars>>

\* The high bits of the event's state_ count these.
Waiters == {t \in Threads : pc[t] = "wait"}

Asleep(t) == pc[t] = "wait" /\ t \notin woken

SchedulerInit(ops, work, reactor, who, polling) ==
  /\ op_queue_ = ops
  /\ outstanding_work_ = work
  /\ stopped_ = FALSE
  /\ task_ = reactor /\ polls = polling
  /\ task_interrupted_ = TRUE /\ interrupted = FALSE
  /\ signalled = FALSE /\ woken = {}
  /\ pc = [t \in Threads |-> IF t \in who THEN "start" ELSE "outside"]
  /\ then = [t \in Threads |-> "outside"]
  /\ blocks = [t \in Threads |-> FALSE]
  /\ private_op_queue = [t \in Threads |-> <<>>]
  /\ op = [t \in Threads |-> NoOp]
  /\ owed = [t \in Threads |-> 0]
-----------------------------------------------------------------------------
(***************************************************************************)
(* Waking threads up.                                                      *)
(***************************************************************************)
\* Mutant: the event is signalled, but nobody in pthread_cond_wait.
WakeNobody(t, next, busy) ==
  /\ signalled' = TRUE
  /\ pc' = [pc EXCEPT ![t] = next]
  /\ UNCHANGED <<then, task_interrupted_, interrupted>>

\* Mutant: a thread is woken, but the event is not set, so it sleeps again.
WakeWithoutEvent(t, next, busy) ==
  LET others == Waiters \ {t} IN
  /\ UNCHANGED signalled
  /\ IF others # {}
     THEN /\ pc' = [pc EXCEPT ![t] = "signal"]
          /\ then' = [then EXCEPT ![t] = next]
          /\ task_interrupted_' = busy /\ UNCHANGED interrupted
     ELSE /\ pc' = [pc EXCEPT ![t] = next]
          /\ task_interrupted_' = (busy \/ task_)
          /\ interrupted' = (interrupted \/ (task_ /\ ~busy))
          /\ UNCHANGED then

\* wake_one_thread_and_unlock by t, which goes on to next: a sleeping thread,
\* or else the one that blocks in the reactor.
wake_one_thread(t, next, busy) ==
  LET others == Waiters \ {t} IN
  /\ signalled' = TRUE
  /\ IF others # {}
     THEN /\ pc' = [pc EXCEPT ![t] = "signal"]
          /\ then' = [then EXCEPT ![t] = next]
          /\ task_interrupted_' = busy /\ UNCHANGED interrupted
     ELSE /\ pc' = [pc EXCEPT ![t] = next]
          /\ task_interrupted_' = (busy \/ task_)
          /\ interrupted' = (interrupted \/ (task_ /\ ~busy))
          /\ UNCHANGED then

\* pthread_cond_signal wakes one thread that sleeps, if any does.
Signal(t) ==
  /\ pc[t] = "signal"
  /\ IF \E u \in Threads : Asleep(u)
     THEN \E u \in Threads : Asleep(u) /\ woken' = woken \cup {u}
     ELSE UNCHANGED woken
  /\ pc' = [pc EXCEPT ![t] = then[t]]
  /\ UNCHANGED <<queueVars, taskVars, signalled, then, blocks, private_op_queue, op, owed>>

\* stop(): everybody wakes up, the thread in the reactor included.
stop(t) ==
  /\ pc[t] = "stop"
  /\ stopped_' = TRUE
  /\ signalled' = TRUE /\ woken' = Waiters
  /\ task_interrupted_' = (task_interrupted_ \/ task_)
  /\ interrupted' = (interrupted \/ (task_ /\ ~task_interrupted_))
  /\ pc' = [pc EXCEPT ![t] = then[t]]
  /\ UNCHANGED <<op_queue_, outstanding_work_, task_, polls, then, blocks, private_op_queue, op, owed>>

SpuriousWakeup(t) ==
  /\ Asleep(t)
  /\ woken' = woken \cup {t}
  /\ UNCHANGED <<queueVars, taskVars, signalled, threadVars>>
-----------------------------------------------------------------------------
(***************************************************************************)
(* run() and do_run_one, poll() and do_poll_one.                           *)
(***************************************************************************)
\* Both begin alike.  (Nobody calls restart(): a context that has stopped
\* once stays stopped.)
run(t) ==
  /\ pc[t] = "start"
  /\ pc' = [pc EXCEPT ![t] = IF outstanding_work_ = 0 THEN "stop" ELSE "loop"]
  /\ then' = [then EXCEPT ![t] = "returned"]
  /\ UNCHANGED <<queueVars, taskVars, eventVars, blocks, private_op_queue, op, owed>>

\* t has the mutex and is at the head of the while loop.
AtLoop(t) ==
  \/ pc[t] \in {"loop", "cleanup"}
  \/ pc[t] = "wait" /\ t \in woken /\ signalled

\* The queue and the flag as it sees them: task_cleanup has put back what the
\* reactor found, and the reactor.
QueueAt(t) ==
  op_queue_ \o IF pc[t] = "cleanup" THEN Append(private_op_queue[t], task_operation_) ELSE <<>>

InterruptedAt(t) == task_interrupted_ \/ pc[t] = "cleanup"

Return(t) ==
  /\ AtLoop(t) /\ stopped_
  /\ op_queue_' = QueueAt(t)
  /\ private_op_queue' = [private_op_queue EXCEPT ![t] = <<>>]
  /\ task_interrupted_' = InterruptedAt(t)
  /\ pc' = [pc EXCEPT ![t] = "returned"]
  /\ woken' = woken \ {t}
  /\ UNCHANGED <<outstanding_work_, stopped_, task_, polls, interrupted, signalled, then, blocks, op, owed>>

\* wakeup_event_.clear and wait.
Wait(t) ==
  /\ AtLoop(t) /\ ~stopped_ /\ QueueAt(t) = <<>>
  /\ signalled' = FALSE
  /\ woken' = woken \ {t}
  /\ pc' = [pc EXCEPT ![t] = "wait"]
  /\ UNCHANGED <<queueVars, taskVars, then, blocks, private_op_queue, op, owed>>

\* The event was cleared again before this thread had the mutex.
WaitAgain(t) ==
  /\ pc[t] = "wait" /\ t \in woken /\ ~signalled
  /\ woken' = woken \ {t}
  /\ UNCHANGED <<queueVars, taskVars, signalled, threadVars>>

\* The first entry is the reactor.  It blocks only if nothing else is queued.
TakeTask(t) ==
  LET rest == Tail(QueueAt(t))
      more == rest # <<>>
  IN
  /\ AtLoop(t) /\ ~stopped_ /\ QueueAt(t) # <<>>
  /\ ~polls /\ Head(QueueAt(t)) = task_operation_
  /\ op_queue_' = rest
  /\ private_op_queue' = [private_op_queue EXCEPT ![t] = <<>>]
  /\ task_interrupted_' = more
  /\ blocks' = [blocks EXCEPT ![t] = ~more]
  /\ signalled' = (signalled \/ more)
  /\ woken' = woken \ {t}
  /\ pc' = [pc EXCEPT ![t] = IF more /\ Waiters \ {t} # {} THEN "signal" ELSE "task"]
  /\ then' = [then EXCEPT ![t] = "task"]
  /\ UNCHANGED <<outstanding_work_, stopped_, task_, polls, interrupted, op, owed>>

\* In poll() the reactor never blocks, and others are left asleep.
PollTask(t) ==
  /\ polls /\ pc[t] = "loop" /\ ~stopped_
  /\ op_queue_ # <<>> /\ Head(op_queue_) = task_operation_
  /\ op_queue_' = Tail(op_queue_)
  /\ blocks' = [blocks EXCEPT ![t] = FALSE]
  /\ pc' = [pc EXCEPT ![t] = "task"]
  /\ UNCHANGED <<outstanding_work_, stopped_, taskVars, eventVars, then, private_op_queue, op, owed>>

\* Mutant: poll() returns whenever it has run the reactor.
PollReturnsEarly(t) ==
  /\ polls /\ pc[t] = "cleanup" /\ ~stopped_
  /\ op_queue_' = QueueAt(t)
  /\ private_op_queue' = [private_op_queue EXCEPT ![t] = <<>>]
  /\ task_interrupted_' = TRUE
  /\ signalled' = TRUE
  /\ pc' = [pc EXCEPT ![t] = "returned"]
  /\ UNCHANGED <<outstanding_work_, stopped_, task_, polls, interrupted, woken, then, blocks, op, owed>>

\* poll() returns when the reactor has found nothing.
PollReturns(t) ==
  /\ polls /\ pc[t] = "cleanup" /\ ~stopped_
  /\ Head(QueueAt(t)) = task_operation_
  /\ op_queue_' = QueueAt(t)
  /\ private_op_queue' = [private_op_queue EXCEPT ![t] = <<>>]
  /\ task_interrupted_' = TRUE
  /\ signalled' = TRUE
  /\ pc' = [pc EXCEPT ![t] = "returned"]
  /\ UNCHANGED <<outstanding_work_, stopped_, task_, polls, interrupted, woken, then, blocks, op, owed>>

PollAgain(t) ==
  /\ polls /\ pc[t] = "returned"
  /\ pc' = [pc EXCEPT ![t] = "start"]
  /\ UNCHANGED <<queueVars, taskVars, eventVars, then, blocks, private_op_queue, op, owed>>

\* The first entry is an operation that stands for cost[o] pieces of work.
TakeOp(t, cost) ==
  LET o == Head(QueueAt(t))
      rest == Tail(QueueAt(t))
  IN
  /\ AtLoop(t) /\ ~stopped_ /\ QueueAt(t) # <<>>
  /\ o # task_operation_
  /\ op_queue_' = rest
  /\ private_op_queue' = [private_op_queue EXCEPT ![t] = <<>>]
  /\ IF rest # <<>>
     THEN wake_one_thread(t, "handler", InterruptedAt(t))
     ELSE /\ pc' = [pc EXCEPT ![t] = "handler"]
          /\ task_interrupted_' = InterruptedAt(t)
          /\ UNCHANGED <<then, signalled, interrupted>>
  /\ woken' = woken \ {t}
  /\ op' = [op EXCEPT ![t] = o]
  /\ owed' = [owed EXCEPT ![t] = cost[o]]
  /\ UNCHANGED <<outstanding_work_, stopped_, task_, polls, blocks>>

\* The reactor returns with the operations in found.
TaskReturns(t, found) ==
  /\ pc[t] = "task"
  /\ blocks[t] => interrupted \/ found # <<>>
  /\ interrupted' = FALSE
  /\ private_op_queue' = [private_op_queue EXCEPT ![t] = found]
  /\ pc' = [pc EXCEPT ![t] = "cleanup"]
  /\ UNCHANGED <<queueVars, task_, polls, task_interrupted_, eventVars, then, blocks, op, owed>>
-----------------------------------------------------------------------------
(***************************************************************************)
(* Work.                                                                   *)
(***************************************************************************)
\* Mutant: the operation goes to the front of the queue.
PostFront(t, o, next) ==
  /\ outstanding_work_' = outstanding_work_ + 1
  /\ op_queue_' = <<o>> \o op_queue_
  /\ wake_one_thread(t, next, task_interrupted_)
  /\ UNCHANGED <<stopped_, task_, polls, woken>>

\* post_immediate_completion of o by t, which goes on to next.
post_immediate_completion(t, o, next) ==
  /\ outstanding_work_' = outstanding_work_ + 1
  /\ op_queue_' = Append(op_queue_, o)
  /\ wake_one_thread(t, next, task_interrupted_)
  /\ UNCHANGED <<stopped_, task_, polls, woken>>

\* The operation has been completed: the work it stood for is finished piece
\* by piece, and run() goes on to the next.
work_finished(t) ==
  LET next == IF owed[t] = 1 THEN "loop" ELSE "finish" IN
  /\ pc[t] = "finish"
  /\ outstanding_work_' = outstanding_work_ - 1
  /\ owed' = [owed EXCEPT ![t] = @ - 1]
  /\ then' = [then EXCEPT ![t] = next]
  /\ pc' = [pc EXCEPT ![t] = IF outstanding_work_ = 1 THEN "stop" ELSE next]
  /\ op' = IF owed[t] = 1 THEN [op EXCEPT ![t] = NoOp] ELSE op
  /\ UNCHANGED <<op_queue_, stopped_, taskVars, eventVars, blocks, private_op_queue>>
=============================================================================
