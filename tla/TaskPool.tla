------------------------------ MODULE TaskPool ------------------------------
(***************************************************************************)
(* What a program relies on when it hands functions to an asio execution   *)
(* context that threads run: they are started in the order they were       *)
(* queued, each once, each by a thread that runs nothing else meanwhile.   *)
(***************************************************************************)
EXTENDS SequencesExt

CONSTANTS
  PoolThreads,   \* the threads
  Functions,     \* what can be queued
  Nothing        \* what a free thread runs

VARIABLES
  queue,         \* functions not started yet
  running        \* the function each thread runs

Init ==
  /\ queue \in Seq(Functions)
  /\ running = [t \in PoolThreads |-> Nothing]

\* Functions are added at the end.
Submit == IsPrefix(queue, queue') /\ running' = running

\* A free thread starts the first function.  It may have added some itself
\* just before: asio keeps the lock in between.
Start(t) ==
  /\ running[t] = Nothing /\ running'[t] # Nothing
  /\ running' = [running EXCEPT ![t] = running'[t]]
  /\ IsPrefix(queue, <<running'[t]>> \o queue')

Finish(t) ==
  /\ running[t] # Nothing
  /\ running' = [running EXCEPT ![t] = Nothing]
  /\ UNCHANGED queue

Next == Submit \/ \E t \in PoolThreads : Start(t) \/ Finish(t)

Spec == Init /\ [][Next]_<<queue, running>>
=============================================================================
