------------------------------- MODULE Strand -------------------------------
(***************************************************************************)
(* A strand on top of the scheduler (strand_executor_service.ipp, .hpp):   *)
(* functions given to it run one at a time, in whatever threads.  The      *)
(* thread that finds the strand unlocked runs its function at once; what   *)
(* others bring meanwhile waits and is run by an invoker posted at the     *)
(* end.  Under the strand's mutex everything is one step; ready_queue_ has *)
(* no mutex and belongs to the thread that holds the strand.               *)
(***************************************************************************)
EXTENDS Scheduler

CONSTANT Invoker     \* the operation that runs what waits in the strand

VARIABLES
  locked_,           \* some thread, or a posted invoker, holds the strand
  waiting_queue_,    \* functions brought meanwhile
  ready_queue_,      \* functions the holder runs
  fn                 \* the function each thread runs in the strand

strandVars == <<locked_, waiting_queue_, ready_queue_>>

StrandInit ==
  /\ locked_ = FALSE
  /\ waiting_queue_ = <<>> /\ ready_queue_ = <<>>
  /\ fn = [t \in Threads |-> NoOp]

\* The thread is between taking the strand and letting go of it.
InStrand(t) == pc[t] \in {"invoke", "check", "count", "rearm", "repost"}

Goto(t, place) == pc' = [pc EXCEPT ![t] = place]

\* Mutant: whoever comes runs its function.
DispatchAlways(t, f) ==
  /\ pc[t] = "handler"
  /\ locked_' = TRUE
  /\ ready_queue_' = Append(ready_queue_, f)
  /\ outstanding_work_' = outstanding_work_ + 1
  /\ owed' = [owed EXCEPT ![t] = @ + 1]
  /\ Goto(t, "invoke")
  /\ UNCHANGED <<waiting_queue_, fn, op_queue_, stopped_, taskVars, eventVars>>
  /\ UNCHANGED <<then, blocks, private_op_queue, op>>

\* execute, with enqueue: the first one in runs an invoker at once (which
\* counts as work of its own), the others leave their function.
dispatch(t, f) ==
  /\ pc[t] = "handler"
  /\ \/ /\ locked_
        /\ waiting_queue_' = Append(waiting_queue_, f)
        /\ Goto(t, "finish")
        /\ UNCHANGED <<locked_, ready_queue_, outstanding_work_, owed>>
     \/ /\ ~locked_
        /\ locked_' = TRUE
        /\ ready_queue_' = Append(ready_queue_, f)
        /\ outstanding_work_' = outstanding_work_ + 1
        /\ owed' = [owed EXCEPT ![t] = @ + 1]
        /\ Goto(t, "invoke")
        /\ UNCHANGED waiting_queue_
  /\ UNCHANGED <<fn, op_queue_, stopped_, taskVars, eventVars, then, blocks, private_op_queue, op>>

\* A posted invoker begins.
StartInvoker(t) ==
  /\ pc[t] = "handler" /\ op[t] = Invoker
  /\ Goto(t, "invoke")
  /\ UNCHANGED <<strandVars, fn, queueVars, taskVars, eventVars>>
  /\ UNCHANGED <<then, blocks, private_op_queue, op, owed>>

\* The invoker's loop: the next function, begun at place.
RunReady(t, place) ==
  /\ pc[t] = "invoke" /\ ready_queue_ # <<>>
  /\ fn' = [fn EXCEPT ![t] = Head(ready_queue_)]
  /\ ready_queue_' = Tail(ready_queue_)
  /\ Goto(t, place)
  /\ UNCHANGED <<locked_, waiting_queue_, queueVars, taskVars, eventVars>>
  /\ UNCHANGED <<then, blocks, private_op_queue, op, owed>>

\* Mutant: what waits is looked at, and the strand kept, only if it was ready.
InvokerExitForgets(t) ==
  /\ pc[t] = "invoke" /\ ready_queue_ = <<>>
  /\ locked_' = FALSE
  /\ Goto(t, "finish")
  /\ UNCHANGED <<waiting_queue_, ready_queue_, fn, queueVars, taskVars, eventVars>>
  /\ UNCHANGED <<then, blocks, private_op_queue, op, owed>>

\* on_invoker_exit: the strand is kept if somebody waits.
InvokerExit(t) ==
  /\ pc[t] = "invoke" /\ ready_queue_ = <<>>
  /\ ready_queue_' = waiting_queue_
  /\ waiting_queue_' = <<>>
  /\ locked_' = (waiting_queue_ # <<>>)
  /\ Goto(t, IF waiting_queue_ # <<>> THEN "repost" ELSE "finish")
  /\ UNCHANGED <<fn, queueVars, taskVars, eventVars, then, blocks, private_op_queue, op, owed>>

\* The invoker is posted again, and takes its own piece of work along.
Repost(t) ==
  /\ pc[t] = "repost"
  /\ post_immediate_completion(t, Invoker, "finish")
  /\ owed' = [owed EXCEPT ![t] = @ - 1]
  /\ UNCHANGED <<strandVars, fn, blocks, private_op_queue, op>>

\* Who holds the strand: threads that are in it or have taken an invoker, and
\* invokers in the queue.
Holders ==
  LET taken(t) == /\ op[t] = Invoker
                  /\ pc[t] = "handler" \/ (pc[t] = "signal" /\ then[t] = "handler")
      threads == {t \in Threads : InStrand(t) \/ taken(t)}
      queued == {i \in DOMAIN op_queue_ : op_queue_[i] = Invoker}
  IN  ({"thread"} \X threads) \cup ({"queued"} \X queued)

\* Exactly one thread, or one posted invoker, holds a locked strand.  So the
\* ready queue, which has no mutex, is touched by one thread at a time, and
\* no function stays behind in a strand that nobody holds.
StrandHasOneHolder ==
  IF locked_ THEN \E h \in Holders : Holders = {h}
  ELSE Holders = {} /\ waiting_queue_ = <<>> /\ ready_queue_ = <<>>
=============================================================================
