-------------------------- MODULE SchedulerProofs --------------------------
(***************************************************************************)
(* Proofs about SchedulerUsers, for any number of threads, timers, lambdas *)
(* and counts: asio's scheduler loses no wake-up, counts its work exactly  *)
(* and starts operations in order, and its strand has one holder.          *)
(***************************************************************************)
EXTENDS SchedulerUsers, SequenceTheorems, FiniteSetTheorems, TLAPS
-----------------------------------------------------------------------------
(***************************************************************************)
(* The inductive invariant.  Whatever can be queued (the reactor's entry,  *)
(* a timer's operation, an invoker, a write, a lambda) is in one place.    *)
(***************************************************************************)
Armed == {x \in Timers : timer[x] # "idle"}

Queued == Range(op_queue_)

Found(t) == Range(private_op_queue[t])

\* Where a thread stands, or goes on after its signal.
At(t) == IF pc[t] = "signal" THEN then[t] ELSE pc[t]

Reacting == {"task", "cleanup"}
Stranded == {"invoke", "check", "count", "rearm", "repost"}
Printing == {"check", "count", "rearm"}
Free == {"start", "outside", "loop", "wait", "task", "cleanup", "stop", "returned"}

\* What a thread has in hand.
Hand(at, o, f) ==
  CASE at = "handler"  -> {o}
    [] at \in Reacting -> {task_operation_}
    [] at \in Printing -> {Invoker, f}
    [] at \in Stranded \ Printing -> {Invoker}
    [] OTHER -> {}

Held(t) == Hand(At(t), op[t], fn[t]) \cup Found(t)

Shared == Armed \cup Queued \cup Range(waiting_queue_) \cup Range(ready_queue_)

Somewhere == Shared \cup UNION {Held(t) : t \in Threads}

\* Each thing is in one place, and there once.
OnePlace ==
  /\ \A t, u \in Threads : t # u => Held(t) \cap Held(u) = {}
  /\ \A t \in Threads : Held(t) \cap Shared = {}
  /\ (Armed \cup Queued) \cap (Range(waiting_queue_) \cup Range(ready_queue_)) = {}
  /\ Armed \cap Queued = {} /\ Range(waiting_queue_) \cap Range(ready_queue_) = {}
  /\ IsInjective(op_queue_) /\ IsInjective(waiting_queue_) /\ IsInjective(ready_queue_)
  /\ \A t \in Threads : IsInjective(private_op_queue[t])

\* What a thread owes goes with where it stands.
ThreadOK(t) ==
  /\ At(t) \in Free => op[t] = NoOp /\ owed[t] = 0
  /\ At(t) = "handler" => op[t] \in Ops /\ owed[t] = cost[op[t]]
  /\ At(t) \in Stranded =>
        /\ program = "timers"
        /\ (op[t] \in Timers /\ owed[t] = 3) \/ (op[t] = Invoker /\ owed[t] = 2)
  /\ At(t) = "finish" => op[t] \in Ops /\ owed[t] \in 1..3
  /\ At(t) \in Printing => fn[t] \in Timers
  /\ private_op_queue[t] # <<>> => pc[t] = "cleanup"
  /\ pc[t] = "signal" => then[t] \in {"task", "handler", "finish", "outside"}
  /\ pc[t] = "stop" => then[t] \in {"returned", "loop"}
  /\ t \in Posters => At(t) = "outside"

ThreadsOK == \A t \in Threads : ThreadOK(t)

\* What goes with the program, and when the strand is locked.
ProgramOK ==
  /\ task_ = (program # "pool") /\ polls = (program = "poll")
  /\ polls => \A t, u \in Threads : pc[t] # "outside" /\ pc[u] # "outside" => t = u
  /\ program # "timers" => ~locked_
  /\ locked_ <=> Invoker \in Somewhere
  /\ ~locked_ => waiting_queue_ = <<>> /\ ready_queue_ = <<>>
  /\ task_operation_ \in Somewhere => task_
  /\ Somewhere \cap Lambdas \subseteq posted

\* The work under way: operations that no thread has taken yet, and what
\* threads owe.
Pending == Armed \cup (Queued \ {task_operation_}) \cup UNION {Found(t) : t \in Threads}

Dear == {o \in Pending : cost[o] = 2}

Owing(n) == {t \in Threads : owed[t] >= n}

WorkUntaken == Cardinality(Pending) + Cardinality(Dear)

WorkOwed == Cardinality(Owing(1)) + Cardinality(Owing(2)) + Cardinality(Owing(3))

WorkCounted ==
  /\ IsFiniteSet(Pending) /\ \A n \in 1..3 : IsFiniteSet(Owing(n))
  /\ outstanding_work_ = WorkUntaken + WorkOwed + (IF program = "pool" THEN 1 ELSE 0)

\* Whoever stops, or has returned, has seen that there is no work.
StopsWithoutWork ==
  /\ stopped_ => outstanding_work_ = 0
  /\ \A t \in Threads :
        pc[t] = "stop" \/ (pc[t] = "returned" /\ ~polls) => outstanding_work_ = 0

\* A timer gets lost only when the limit is reached.
CountOK ==
  /\ m_count <= Limit
  /\ \A t \in Threads : pc[t] = "count" => m_count < Limit
  /\ program = "timers" /\ m_count < Limit => Timers \subseteq Somewhere

Blocked(t) == pc[t] = "task" /\ blocks[t] /\ ~interrupted

Awake(t) == ~Asleep(t) /\ ~Blocked(t)

WakeOK ==
  /\ \A t \in Threads : At(t) = "task" /\ blocks[t] /\ task_interrupted_ => interrupted
  /\ \A t \in Threads : pc[t] = "signal" /\ then[t] = "task" => ~blocks[t]
  /\ stopped_ => signalled
  /\ op_queue_ # <<>> /\ ~signalled => Waiters = {}
  /\ op_queue_ # <<>> =>
        \/ \E t \in Runners : Awake(t)
        \/ \E t \in Threads : pc[t] = "signal" /\ \E u \in Runners : Asleep(u)

SchedulerInv ==
  /\ TypeOK /\ OnePlace /\ ThreadsOK /\ ProgramOK /\ WorkCounted /\ StopsWithoutWork
  /\ CountOK /\ WakeOK
-----------------------------------------------------------------------------
(***************************************************************************)
(* Sequences in which nothing occurs twice.                                *)
(***************************************************************************)
LEMMA EmptyRange ==
  ASSUME NEW S, NEW q \in Seq(S)
  PROVE  /\ Range(q) \subseteq S
         /\ q = <<>> <=> Range(q) = {}
         /\ Range(<<>>) = {} /\ IsInjective(<<>>)
<1>1. DOMAIN q = 1..Len(q) /\ Len(q) \in Nat /\ \A i \in 1..Len(q) : q[i] \in S
  OBVIOUS
<1>2. DOMAIN <<>> = {}
  OBVIOUS
<1>3. q # <<>> => Len(q) >= 1
  BY EmptySeq
<1>4. q # <<>> => q[1] \in Range(q)
  BY <1>1, <1>3 DEF Range
<1>5. Range(<<>>) = {}
  BY <1>2 DEF Range
<1>6. QED
  BY <1>1, <1>2, <1>4, <1>5 DEF Range, IsInjective

LEMMA AppendOnce ==
  ASSUME NEW S, NEW q \in Seq(S), NEW x \in S
  PROVE  /\ Append(q, x) \in Seq(S) /\ Append(q, x) # <<>>
         /\ Range(Append(q, x)) = Range(q) \cup {x}
         /\ IsInjective(q) /\ x \notin Range(q) => IsInjective(Append(q, x))
<1> DEFINE r == Append(q, x)
<1>1. /\ DOMAIN q = 1..Len(q) /\ DOMAIN r = 1..(Len(q) + 1) /\ Len(q) \in Nat
      /\ \A i \in 1..Len(q) : r[i] = q[i]
      /\ r[Len(q) + 1] = x
      /\ r \in Seq(S) /\ r # <<>>
  BY AppendProperties
<1> HIDE DEF r
<1>2. \A i \in DOMAIN r : i \in DOMAIN q \/ i = Len(q) + 1
  BY <1>1
<1>3. Range(r) = Range(q) \cup {x}
  BY <1>1, <1>2 DEF Range
<1>4. ASSUME IsInjective(q), x \notin Range(q)
      PROVE  IsInjective(r)
  BY <1>1, <1>2, <1>4 DEF IsInjective, Range
<1>5. QED
  BY <1>1, <1>3, <1>4 DEF r

LEMMA TailOnce ==
  ASSUME NEW S, NEW q \in Seq(S), q # <<>>, IsInjective(q)
  PROVE  /\ Head(q) \in Range(q) /\ Tail(q) \in Seq(S)
         /\ Range(Tail(q)) = Range(q) \ {Head(q)}
         /\ IsInjective(Tail(q))
<1> DEFINE r == Tail(q)
<1>1. /\ DOMAIN q = 1..Len(q) /\ Len(q) \in Nat /\ Len(q) >= 1
      /\ DOMAIN r = 1..(Len(q) - 1) /\ \A i \in 1..(Len(q) - 1) : r[i] = q[i + 1]
      /\ Head(q) = q[1] /\ r \in Seq(S)
  BY HeadTailProperties, EmptySeq
<1> HIDE DEF r
<1>2. \A i \in 1..(Len(q) - 1) : i + 1 \in 1..Len(q)
  BY <1>1
<1>3. \A i \in 1..Len(q) : i # 1 => i - 1 \in 1..(Len(q) - 1) /\ (i - 1) + 1 = i
  BY <1>1
<1>4. Range(r) \subseteq Range(q) \ {q[1]}
  <2>1. SUFFICES ASSUME NEW i \in 1..(Len(q) - 1)
                 PROVE  r[i] \in Range(q) /\ r[i] # q[1]
    BY <1>1 DEF Range
  <2>2. i + 1 \in 1..Len(q) /\ 1 \in 1..Len(q) /\ i + 1 # 1 /\ r[i] = q[i + 1]
    BY <1>1, <1>2
  <2>3. QED
    BY <1>1, <2>2 DEF Range, IsInjective
<1>5. Range(q) \ {q[1]} \subseteq Range(r)
  <2>1. SUFFICES ASSUME NEW i \in 1..Len(q), q[i] # q[1]
                 PROVE  q[i] \in Range(r)
    BY <1>1 DEF Range
  <2>2. i - 1 \in 1..(Len(q) - 1) /\ r[i - 1] = q[i]
    BY <1>1, <1>3, <2>1
  <2>3. QED
    BY <1>1, <2>2 DEF Range
<1>6. IsInjective(r)
  <2>1. SUFFICES ASSUME NEW i \in 1..(Len(q) - 1), NEW j \in 1..(Len(q) - 1), r[i] = r[j]
                 PROVE  i = j
    BY <1>1 DEF IsInjective
  <2>2. q[i + 1] = q[j + 1] /\ i + 1 \in DOMAIN q /\ j + 1 \in DOMAIN q
    BY <1>1, <1>2, <2>1
  <2>3. i + 1 = j + 1
    BY <2>2 DEF IsInjective
  <2>4. QED
    BY <2>3
<1>7. q[1] \in Range(q)
  BY <1>1 DEF Range
<1>8. QED
  BY <1>1, <1>4, <1>5, <1>6, <1>7 DEF r

LEMMA ConcatOnce ==
  ASSUME NEW S, NEW q \in Seq(S), NEW p \in Seq(S),
         IsInjective(q), IsInjective(p), Range(q) \cap Range(p) = {}
  PROVE  /\ q \o p \in Seq(S)
         /\ Range(q \o p) = Range(q) \cup Range(p)
         /\ IsInjective(q \o p)
<1> DEFINE r == q \o p
<1>1. /\ DOMAIN q = 1..Len(q) /\ Len(q) \in Nat /\ DOMAIN p = 1..Len(p) /\ Len(p) \in Nat
      /\ r \in Seq(S) /\ Len(r) = Len(q) + Len(p) /\ DOMAIN r = 1..(Len(q) + Len(p))
      /\ \A i \in 1..(Len(q) + Len(p)) : r[i] = IF i <= Len(q) THEN q[i] ELSE p[i - Len(q)]
  BY ConcatProperties
<1>2. Range(r) = Range(q) \cup Range(p)
  BY RangeConcatenation
<1> HIDE DEF r
<1>3. \A i \in DOMAIN r : \/ i \in DOMAIN q /\ r[i] = q[i]
                          \/ ~(i \in DOMAIN q) /\ i - Len(q) \in DOMAIN p /\ r[i] = p[i - Len(q)]
  BY <1>1
<1>4. IsInjective(r)
  <2>1. SUFFICES ASSUME NEW i \in DOMAIN r, NEW j \in DOMAIN r, r[i] = r[j]
                 PROVE  i = j
    BY DEF IsInjective
  <2>2. i \in Int /\ j \in Int
    BY <1>1
  <2>3. CASE i \in DOMAIN q
    <3>1. q[i] = r[i] /\ q[i] \in Range(q)
      BY <1>3, <2>3 DEF Range
    <3>2. j \in DOMAIN q
      <4>1. SUFFICES ASSUME ~(j \in DOMAIN q) PROVE FALSE
        OBVIOUS
      <4>2. r[j] \in Range(p)
        BY <1>3, <4>1 DEF Range
      <4>3. QED
        BY <2>1, <3>1, <4>2
    <3>3. QED
      BY <1>3, <2>1, <2>3, <3>1, <3>2 DEF IsInjective
  <2>4. CASE ~(i \in DOMAIN q)
    <3>1. p[i - Len(q)] = r[i] /\ i - Len(q) \in DOMAIN p /\ r[i] \in Range(p)
      BY <1>3, <2>4 DEF Range
    <3>2. ~(j \in DOMAIN q)
      <4>1. SUFFICES ASSUME j \in DOMAIN q PROVE FALSE
        OBVIOUS
      <4>2. r[j] \in Range(q)
        BY <1>3, <4>1 DEF Range
      <4>3. QED
        BY <2>1, <3>1, <4>2
    <3>3. p[j - Len(q)] = r[j] /\ j - Len(q) \in DOMAIN p
      BY <1>3, <3>2
    <3>4. i - Len(q) = j - Len(q)
      BY <2>1, <3>1, <3>3 DEF IsInjective
    <3>5. QED
      BY <1>1, <2>2, <3>4
  <2>5. QED
    BY <2>3, <2>4
<1>5. QED
  BY <1>1, <1>2, <1>4 DEF r

\* What the reactor finds is what has expired, each timer once.
LEMMA OrdersOfSet ==
  ASSUME NEW S, IsFiniteSet(S), NEW f \in SetToSeqs(S)
  PROVE  f \in Seq(S) /\ Range(f) = S /\ IsInjective(f)
<1> DEFINE n == Cardinality(S)
<1>1. n \in Nat
  BY FS_CardinalityType
<1>2. f \in [1..n -> S] /\ \A i, j \in 1..n : i # j => f[i] # f[j]
  BY DEF SetToSeqs
<1> HIDE DEF n
<1>3. IsInjective(f)
  BY <1>2 DEF IsInjective
<1>4. f \in Injection(1..n, S)
  BY <1>2, <1>3 DEF Injection
<1>5. Cardinality(1..n) = n
  BY <1>1, FS_Interval
<1>6. f \in Surjection(1..n, S)
  BY <1>4, <1>5, FS_Injection DEF n
<1>7. Range(f) = S
  BY <1>2, <1>6 DEF Surjection, Range
<1>8. QED
  BY <1>1, <1>2, <1>3, <1>7
-----------------------------------------------------------------------------
(***************************************************************************)
(* Steps of one thread.                                                    *)
(***************************************************************************)
\* Only t moves.
OnlyMoves(t) ==
  /\ program' = program
  /\ \A u \in Threads \ {t} :
        /\ pc'[u] = pc[u] /\ then'[u] = then[u] /\ op'[u] = op[u] /\ fn'[u] = fn[u]
        /\ owed'[u] = owed[u] /\ blocks'[u] = blocks[u]
        /\ private_op_queue'[u] = private_op_queue[u]

Spots ==
  {"start", "outside", "loop", "wait", "signal", "task", "cleanup", "handler", "finish",
   "stop", "returned", "invoke", "check", "count", "rearm", "repost"}

NextSpots == {"outside", "returned", "task", "handler", "loop", "finish"}

LEMMA SpotFacts ==
  ASSUME TypeOK
  PROVE  /\ pc \in [Threads -> Spots] /\ then \in [Threads -> NextSpots]
         /\ \A t \in Threads, s \in Spots : [pc EXCEPT ![t] = s] \in [Threads -> Spots]
         /\ \A t \in Threads, s \in NextSpots : [then EXCEPT ![t] = s] \in [Threads -> NextSpots]
         /\ {"task", "signal", "handler", "finish", "outside"} \subseteq Spots
         /\ {"task", "handler", "finish", "outside"} \subseteq NextSpots
<1>1. pc \in [Threads -> Spots] /\ then \in [Threads -> NextSpots]
  BY DEF TypeOK, Spots, NextSpots
<1>2. QED
  BY <1>1 DEF Spots, NextSpots

LEMMA HandFacts ==
  ASSUME NEW o, NEW f
  PROVE  /\ Hand("handler", o, f) = {o}
         /\ Hand("task", o, f) = {task_operation_} /\ Hand("cleanup", o, f) = {task_operation_}
         /\ Hand("invoke", o, f) = {Invoker} /\ Hand("repost", o, f) = {Invoker}
         /\ \A at \in Printing : Hand(at, o, f) = {Invoker, f}
         /\ \A at \in (Free \ Reacting) \cup {"finish"} : Hand(at, o, f) = {}
  BY DEF Hand, Reacting, Printing, Stranded, Free

LEMMA OthersStay ==
  ASSUME NEW t \in Threads, OnlyMoves(t)
  PROVE  \A u \in Threads \ {t} :
            /\ At(u)' = At(u) /\ Held(u)' = Held(u) /\ Found(u)' = Found(u)
            /\ ThreadOK(u) => ThreadOK(u)'
<1>1. cost' = cost
  BY DEF OnlyMoves, cost
<1>2. TAKE u \in Threads \ {t}
<1>3. /\ pc'[u] = pc[u] /\ then'[u] = then[u] /\ op'[u] = op[u] /\ fn'[u] = fn[u]
      /\ owed'[u] = owed[u] /\ private_op_queue'[u] = private_op_queue[u]
      /\ program' = program
  BY DEF OnlyMoves
<1>4. At(u)' = At(u) /\ Found(u)' = Found(u)
  BY <1>3 DEF At, Found
<1>5. Held(u)' = Held(u)
  BY <1>3, <1>4 DEF Held, Hand
<1>6. ThreadOK(u) => ThreadOK(u)'
  BY <1>1, <1>3, <1>4 DEF ThreadOK
<1>7. QED
  BY <1>4, <1>5, <1>6

LEMMA ThreadsMove ==
  ASSUME ThreadsOK, NEW t \in Threads, OnlyMoves(t), ThreadOK(t)'
  PROVE  ThreadsOK'
  BY OthersStay DEF ThreadsOK

\* Where everything is: in what is shared, in hand of t or of another.
HeldByOthers(t) == UNION {Held(u) : u \in Threads \ {t}}

LEMMA SomewhereMoves ==
  ASSUME NEW t \in Threads, OnlyMoves(t)
  PROVE  /\ Somewhere = Shared \cup Held(t) \cup HeldByOthers(t)
         /\ Somewhere' = Shared' \cup Held(t)' \cup HeldByOthers(t)
<1>1. Somewhere = Shared \cup Held(t) \cup HeldByOthers(t)
  BY DEF Somewhere, HeldByOthers
<1>2. Somewhere' = Shared' \cup Held(t)' \cup UNION {Held(u)' : u \in Threads \ {t}}
  BY DEF Somewhere
<1>3. UNION {Held(u)' : u \in Threads \ {t}} = HeldByOthers(t)
  BY OthersStay DEF HeldByOthers
<1>4. QED
  BY <1>1, <1>2, <1>3

\* Things move between what is shared and the hand of t, and new ones come in.
LEMMA MoveKeepsPlaces ==
  ASSUME OnePlace, NEW t \in Threads, OnlyMoves(t), NEW new, new \cap Somewhere = {},
         Held(t)' \cup Shared' \subseteq Held(t) \cup Shared \cup new,
         Held(t)' \cap Shared' = {},
         ((Armed \cup Queued) \cap (Range(waiting_queue_) \cup Range(ready_queue_)) = {})',
         (Armed \cap Queued = {} /\ Range(waiting_queue_) \cap Range(ready_queue_) = {})',
         (IsInjective(op_queue_) /\ IsInjective(waiting_queue_) /\ IsInjective(ready_queue_))',
         IsInjective(private_op_queue[t])'
  PROVE  OnePlace'
<1>1. \A u \in Threads \ {t} : Held(u)' = Held(u) /\ private_op_queue'[u] = private_op_queue[u]
  BY OthersStay DEF OnlyMoves
<1>2. \A u \in Threads \ {t} : Held(u) \cap (Held(t) \cup Shared \cup new) = {}
  BY DEF OnePlace, Somewhere
<1>3. \A u, v \in Threads : u # v => Held(u)' \cap Held(v)' = {}
  <2>1. TAKE u, v \in Threads
  <2>2. HAVE u # v
  <2>3. CASE u = t
    BY <1>1, <1>2, <2>2, <2>3
  <2>4. CASE v = t
    BY <1>1, <1>2, <2>2, <2>4
  <2>5. CASE u # t /\ v # t
    BY <1>1, <2>2, <2>5 DEF OnePlace
  <2>6. QED
    BY <2>3, <2>4, <2>5
<1>4. \A u \in Threads : Held(u)' \cap Shared' = {}
  BY <1>1, <1>2
<1>5. \A u \in Threads : IsInjective(private_op_queue'[u])
  BY <1>1 DEF OnePlace
<1>6. QED
  BY <1>3, <1>4, <1>5 DEF OnePlace

\* t moves and lets go of nothing, and what is shared stays.
LEMMA SamePlaces ==
  ASSUME OnePlace, NEW t \in Threads, OnlyMoves(t), Held(t)' \subseteq Held(t), Armed' = Armed,
         UNCHANGED <<op_queue_, waiting_queue_, ready_queue_>>,
         private_op_queue'[t] = private_op_queue[t]
  PROVE  /\ OnePlace' /\ Pending' = Pending
         /\ Somewhere' \subseteq Somewhere
         /\ Somewhere \subseteq Somewhere' \cup (Held(t) \ Held(t)')
<1>1. Shared' = Shared /\ Queued' = Queued
  BY DEF Shared, Queued
<1>2. Somewhere' \subseteq Somewhere /\ Somewhere \subseteq Somewhere' \cup (Held(t) \ Held(t)')
  BY <1>1, SomewhereMoves
<1>3. Pending' = Pending
  <2>1. \A u \in Threads : Found(u)' = Found(u)
    BY OthersStay DEF Found
  <2>2. UNION {Found(u)' : u \in Threads} = UNION {Found(u) : u \in Threads}
    BY <2>1
  <2>3. QED
    BY <1>1, <2>2 DEF Pending
<1>4. /\ ((Armed \cup Queued) \cap (Range(waiting_queue_) \cup Range(ready_queue_)) = {})'
      /\ (Armed \cap Queued = {} /\ Range(waiting_queue_) \cap Range(ready_queue_) = {})'
      /\ (IsInjective(op_queue_) /\ IsInjective(waiting_queue_) /\ IsInjective(ready_queue_))'
      /\ IsInjective(private_op_queue[t])'
  BY <1>1 DEF OnePlace
<1>5. Held(t)' \cap Shared' = {} /\ Held(t)' \cup Shared' \subseteq Held(t) \cup Shared \cup {}
  BY <1>1 DEF OnePlace
<1>6. OnePlace'
  BY <1>4, <1>5, MoveKeepsPlaces
<1>7. QED
  BY <1>2, <1>3, <1>6
-----------------------------------------------------------------------------
CoreInv ==
  /\ TypeOK /\ OnePlace /\ ThreadsOK /\ ProgramOK /\ WorkCounted /\ StopsWithoutWork /\ CountOK

LEMMA SameWork ==
  ASSUME WorkCounted, UNCHANGED <<program, owed, outstanding_work_>>, Pending' = Pending
  PROVE  WorkCounted'
<1>1. cost' = cost
  BY DEF cost
<1>2. Dear' = Dear
  BY <1>1 DEF Dear
<1>3. \A n \in 1..3 : Owing(n)' = Owing(n)
  BY DEF Owing
<1>4. Owing(1)' = Owing(1) /\ Owing(2)' = Owing(2) /\ Owing(3)' = Owing(3)
  BY DEF Owing
<1>5. QED
  BY <1>2, <1>3, <1>4 DEF WorkCounted, WorkUntaken, WorkOwed

LEMMA StopsMove ==
  ASSUME StopsWithoutWork, NEW t \in Threads, OnlyMoves(t), UNCHANGED polls,
         outstanding_work_ = 0 => outstanding_work_' = 0,
         stopped_' => stopped_ \/ outstanding_work_' = 0,
         pc'[t] = "stop" \/ (pc'[t] = "returned" /\ ~polls) => outstanding_work_' = 0
  PROVE  StopsWithoutWork'
<1>1. \A u \in Threads \ {t} : pc'[u] = pc[u]
  BY DEF OnlyMoves
<1>2. QED
  BY <1>1 DEF StopsWithoutWork

LEMMA ProgramMoves ==
  ASSUME ProgramOK, NEW t \in Threads, OnlyMoves(t), UNCHANGED <<task_, polls>>,
         pc[t] = "outside" /\ polls => pc'[t] = "outside",
         program # "timers" => ~locked_',
         locked_' <=> Invoker \in Somewhere',
         ~locked_' => waiting_queue_' = <<>> /\ ready_queue_' = <<>>,
         task_operation_ \in Somewhere' => task_operation_ \in Somewhere,
         Somewhere' \cap Lambdas \subseteq posted'
  PROVE  ProgramOK'
<1>1. \A u \in Threads \ {t} : pc'[u] = pc[u]
  BY DEF OnlyMoves
<1>2. program' = program
  BY DEF OnlyMoves
<1>3. polls => \A u, v \in Threads : pc'[u] # "outside" /\ pc'[v] # "outside" => u = v
  BY <1>1 DEF ProgramOK
<1>4. QED
  BY <1>2, <1>3 DEF ProgramOK

LEMMA CountMoves ==
  ASSUME CountOK, NEW t \in Threads, OnlyMoves(t), UNCHANGED m_count,
         pc'[t] = "count" => m_count < Limit,
         program = "timers" /\ m_count < Limit => Somewhere \cap Timers \subseteq Somewhere'
  PROVE  CountOK'
<1>1. \A u \in Threads \ {t} : pc'[u] = pc[u]
  BY DEF OnlyMoves
<1>2. program' = program
  BY DEF OnlyMoves
<1>3. \A u \in Threads : pc'[u] = "count" => m_count < Limit
  BY <1>1 DEF CountOK
<1>4. QED
  BY <1>2, <1>3 DEF CountOK

\* t moves on with what it has in hand.
LEMMA QuietStep ==
  ASSUME CoreInv, NEW t \in Threads, OnlyMoves(t), Held(t)' = Held(t), Armed' = Armed,
         UNCHANGED <<op_queue_, outstanding_work_, task_, polls, owed, private_op_queue>>,
         UNCHANGED <<locked_, waiting_queue_, ready_queue_, posted, m_count>>,
         ThreadOK(t)', TypeOK',
         pc[t] = "outside" /\ polls => pc'[t] = "outside",
         pc'[t] = "count" => m_count < Limit,
         stopped_' => stopped_ \/ outstanding_work_ = 0,
         pc'[t] = "stop" \/ (pc'[t] = "returned" /\ ~polls) => outstanding_work_ = 0
  PROVE  CoreInv'
<1>1. /\ OnePlace' /\ Pending' = Pending /\ Somewhere' = Somewhere
  BY SamePlaces DEF CoreInv
<1>2. ThreadsOK'
  BY ThreadsMove DEF CoreInv
<1>3. program' = program
  BY DEF OnlyMoves
<1>4. WorkCounted'
  BY <1>1, <1>3, SameWork DEF CoreInv
<1>5. StopsWithoutWork'
  BY StopsMove DEF CoreInv
<1>6. ProgramOK'
  BY <1>1, ProgramMoves DEF CoreInv, ProgramOK
<1>7. CountOK'
  BY <1>1, CountMoves DEF CoreInv
<1>8. QED
  BY <1>1, <1>2, <1>4, <1>5, <1>6, <1>7 DEF CoreInv

\* What the modules that extend Scheduler leave alone in its own steps.
others == <<strandVars, fn, program, printerVars, poolVars>>

LEMMA SignalStep ==
  ASSUME CoreInv, NEW t \in Threads, Signal(t), UNCHANGED others
  PROVE  CoreInv'
<1> USE DEF others, queueVars, taskVars, strandVars, printerVars, poolVars
<1>1. OnlyMoves(t) /\ pc' = [pc EXCEPT ![t] = then[t]] /\ pc[t] = "signal"
  BY DEF Signal, OnlyMoves, CoreInv, TypeOK
<1>2. then[t] \in {"task", "handler", "finish", "outside"}
  BY <1>1 DEF CoreInv, ThreadsOK, ThreadOK
<1>3. At(t)' = At(t) /\ pc'[t] = then[t] /\ then'[t] = then[t]
  BY <1>1, <1>2 DEF At, Signal, CoreInv, TypeOK
<1>4. Held(t)' = Held(t)
  BY <1>3 DEF Held, Found, Signal
<1>5. ThreadOK(t)'
  <2>1. ThreadOK(t) /\ cost' = cost
    BY DEF CoreInv, ThreadsOK, cost
  <2>2. QED
    BY <1>1, <1>2, <1>3, <2>1 DEF ThreadOK, Signal
<1>6. TypeOK'
  <2>1. woken' \subseteq Waiters'
    BY <1>1, <1>2 DEF Signal, CoreInv, TypeOK, Waiters, Asleep
  <2>2. QED
    BY <1>1, <1>2, <2>1 DEF Signal, CoreInv, TypeOK
<1>7. Armed' = Armed
  BY DEF Armed
<1>8. pc'[t] # "count" /\ pc'[t] # "stop" /\ pc'[t] # "returned"
  BY <1>2, <1>3
<1>9. pc[t] # "outside" /\ stopped_' = stopped_
  BY <1>1 DEF Signal
<1>10. QED
  BY <1>1, <1>4, <1>5, <1>6, <1>7, <1>8, <1>9, QuietStep DEF Signal

LEMMA StopStep ==
  ASSUME CoreInv, NEW t \in Threads, stop(t), UNCHANGED others
  PROVE  CoreInv'
<1> USE DEF others, strandVars, printerVars, poolVars
<1>1. OnlyMoves(t) /\ pc' = [pc EXCEPT ![t] = then[t]] /\ pc[t] = "stop"
  BY DEF stop, OnlyMoves, CoreInv, TypeOK
<1>2. ThreadOK(t) /\ cost' = cost
  BY DEF CoreInv, ThreadsOK, cost
<1>3. then[t] \in {"returned", "loop"} /\ outstanding_work_ = 0
  BY <1>1, <1>2 DEF CoreInv, ThreadOK, StopsWithoutWork
<1>4. At(t) = "stop" /\ At(t)' = then[t] /\ pc'[t] = then[t] /\ then' = then
  BY <1>1, <1>3 DEF At, stop, CoreInv, TypeOK
<1>5. Held(t)' = Held(t)
  BY <1>3, <1>4 DEF Held, Hand, Found, stop, Reacting, Printing, Stranded
<1>6. ThreadOK(t)'
  BY <1>1, <1>2, <1>3, <1>4 DEF ThreadOK, stop, Free, Stranded, Printing
<1>7. TypeOK'
  <2>1. woken' \subseteq Waiters'
    BY <1>1, <1>3 DEF stop, CoreInv, TypeOK, Waiters
  <2>2. QED
    BY <1>1, <1>3, <2>1 DEF stop, CoreInv, TypeOK
<1>8. Armed' = Armed
  BY DEF Armed
<1>9. QED
  BY <1>1, <1>3, <1>4, <1>5, <1>6, <1>7, <1>8, QuietStep DEF stop

LEMMA RunStep ==
  ASSUME CoreInv, NEW t \in Threads, run(t), UNCHANGED others
  PROVE  CoreInv'
<1> USE DEF others, strandVars, printerVars, poolVars, queueVars, taskVars, eventVars
<1>1. /\ OnlyMoves(t) /\ pc[t] = "start"
      /\ pc'[t] \in {"stop", "loop"} /\ then'[t] = "returned"
      /\ pc'[t] = "stop" => outstanding_work_ = 0
  BY DEF run, OnlyMoves, CoreInv, TypeOK
<1>2. ThreadOK(t) /\ cost' = cost
  BY DEF CoreInv, ThreadsOK, cost
<1>3. At(t) = "start" /\ At(t)' = pc'[t]
  BY <1>1 DEF At
<1>4. Held(t)' = Held(t)
  BY <1>1, <1>3 DEF Held, Hand, Found, run, Reacting, Printing, Stranded
<1>5. ThreadOK(t)'
  BY <1>1, <1>2, <1>3 DEF ThreadOK, run, Free, Stranded, Printing
<1>6. TypeOK'
  <2>1. Waiters \subseteq Waiters'
    BY <1>1 DEF run, CoreInv, TypeOK, Waiters
  <2>2. QED
    BY <1>1, <2>1 DEF run, CoreInv, TypeOK
<1>7. Armed' = Armed
  BY DEF Armed
<1>8. QED
  BY <1>1, <1>4, <1>5, <1>6, <1>7, QuietStep DEF run

LEMMA PollAgainStep ==
  ASSUME CoreInv, NEW t \in Threads, PollAgain(t), UNCHANGED others
  PROVE  CoreInv'
<1> USE DEF others, strandVars, printerVars, poolVars, queueVars, taskVars, eventVars
<1>1. /\ OnlyMoves(t) /\ pc[t] = "returned" /\ pc'[t] = "start"
  BY DEF PollAgain, OnlyMoves, CoreInv, TypeOK
<1>2. ThreadOK(t) /\ cost' = cost
  BY DEF CoreInv, ThreadsOK, cost
<1>3. At(t) = "returned" /\ At(t)' = "start"
  BY <1>1 DEF At
<1>4. Held(t)' = Held(t)
  BY <1>3 DEF Held, Hand, Found, PollAgain, Reacting, Printing, Stranded
<1>5. ThreadOK(t)'
  BY <1>1, <1>2, <1>3 DEF ThreadOK, PollAgain, Free, Stranded, Printing
<1>6. TypeOK'
  <2>1. Waiters \subseteq Waiters'
    BY <1>1 DEF PollAgain, CoreInv, TypeOK, Waiters
  <2>2. QED
    BY <1>1, <2>1 DEF PollAgain, CoreInv, TypeOK
<1>7. Armed' = Armed
  BY DEF Armed
<1>8. QED
  BY <1>1, <1>4, <1>5, <1>6, <1>7, QuietStep DEF PollAgain

LEMMA SleepStep ==
  ASSUME CoreInv, NEW t \in Threads, WaitAgain(t) \/ SpuriousWakeup(t), UNCHANGED others
  PROVE  CoreInv'
<1> USE DEF others, strandVars, printerVars, poolVars, queueVars, taskVars, threadVars
<1>1. OnlyMoves(t) /\ UNCHANGED <<queueVars, taskVars, signalled, threadVars>>
  BY DEF WaitAgain, SpuriousWakeup, OnlyMoves
<1>2. pc[t] = "wait"
  BY DEF WaitAgain, SpuriousWakeup, Asleep
<1>3. Held(t)' = Held(t) /\ Armed' = Armed
  BY <1>1 DEF Held, At, Found, Armed
<1>4. ThreadOK(t)'
  <2>1. ThreadOK(t) /\ cost' = cost /\ At(t)' = At(t)
    BY <1>1 DEF CoreInv, ThreadsOK, cost, At
  <2>2. QED
    BY <1>1, <2>1 DEF ThreadOK
<1>5. TypeOK'
  <2>1. Waiters' = Waiters /\ woken' \subseteq Waiters
    BY <1>1, <1>2 DEF WaitAgain, SpuriousWakeup, CoreInv, TypeOK, Waiters
  <2>2. QED
    BY <1>1, <2>1 DEF CoreInv, TypeOK
<1>6. QED
  BY <1>1, <1>2, <1>3, <1>4, <1>5, QuietStep

LEMMA ExpireStep ==
  ASSUME CoreInv, NEW x \in Timers, Expire(x)
  PROVE  CoreInv'
<1> USE DEF strandVars, poolVars, queueVars, taskVars, threadVars, eventVars, schedulerVars
<1>1. PICK t \in Threads : TRUE
  BY UsersAssumption DEF Threads
<1>2. OnlyMoves(t)
  BY DEF Expire, OnlyMoves
<1>3. Held(t)' = Held(t) /\ Armed' = Armed
  BY DEF Held, At, Found, Armed, Expire, CoreInv, TypeOK
<1>4. ThreadOK(t)'
  <2>1. ThreadOK(t) /\ cost' = cost /\ At(t)' = At(t)
    BY DEF CoreInv, ThreadsOK, cost, At, Expire
  <2>2. QED
    BY <2>1 DEF ThreadOK, Expire
<1>5. TypeOK'
  <2>1. Waiters' = Waiters
    BY DEF Expire, Waiters
  <2>2. QED
    BY <2>1 DEF CoreInv, TypeOK, Expire
<1>6. /\ pc'[t] = "count" => m_count < Limit
      /\ pc'[t] = "stop" \/ (pc'[t] = "returned" /\ ~polls) => outstanding_work_ = 0
  BY DEF CoreInv, CountOK, StopsWithoutWork, Expire
<1>7. QED
  BY <1>2, <1>3, <1>4, <1>5, <1>6, QuietStep DEF Expire

LEMMA StartInvokerStep ==
  ASSUME CoreInv, NEW t \in Threads, StartInvoker(t), UNCHANGED <<program, printerVars, poolVars>>
  PROVE  CoreInv'
<1> USE DEF strandVars, printerVars, poolVars, queueVars, taskVars, eventVars
<1>1. /\ OnlyMoves(t) /\ pc[t] = "handler" /\ pc'[t] = "invoke" /\ op[t] = Invoker
  BY DEF StartInvoker, Goto, OnlyMoves, CoreInv, TypeOK
<1>2. ThreadOK(t) /\ cost' = cost
  BY DEF CoreInv, ThreadsOK, cost
<1>3. At(t) = "handler" /\ At(t)' = "invoke"
  BY <1>1 DEF At
<1>4. Held(t)' = Held(t)
  BY <1>1, <1>3 DEF Held, Hand, Found, StartInvoker, Reacting, Printing, Stranded
<1>5. program = "timers"
  <2>1. Invoker \in Held(t)
    BY <1>1, <1>3, HandFacts DEF Held
  <2>2. QED
    BY <2>1 DEF CoreInv, ProgramOK, Somewhere
<1>6. ThreadOK(t)'
  <2>1. cost[Invoker] = 2
    BY <1>5 DEF cost, Ops
  <2>2. QED
    BY <1>1, <1>2, <1>3, <1>5, <2>1 DEF ThreadOK, StartInvoker, Free, Stranded, Printing
<1>7. TypeOK'
  <2>1. Waiters \subseteq Waiters'
    BY <1>1 DEF StartInvoker, Goto, CoreInv, TypeOK, Waiters
  <2>2. QED
    BY <1>1, <2>1 DEF StartInvoker, Goto, CoreInv, TypeOK
<1>8. Armed' = Armed
  BY DEF Armed
<1>9. QED
  BY <1>1, <1>4, <1>6, <1>7, <1>8, QuietStep DEF StartInvoker
-----------------------------------------------------------------------------
(***************************************************************************)
(* A thread at the head of its loop.                                       *)
(***************************************************************************)
LEMMA LoopFacts ==
  ASSUME CoreInv, NEW t \in Threads, AtLoop(t)
  PROVE  /\ QueueAt(t) \in Seq(Ops \cup {task_operation_})
         /\ IsInjective(QueueAt(t)) /\ Range(QueueAt(t)) = Queued \cup Held(t)
         /\ pc[t] \in {"loop", "cleanup", "wait"} /\ At(t) = pc[t]
         /\ op[t] = NoOp /\ owed[t] = 0
         /\ Found(t) \subseteq Timers
         /\ Held(t) = Found(t) \cup (IF pc[t] = "cleanup" THEN {task_operation_} ELSE {})
         /\ pc[t] # "cleanup" =>
               /\ QueueAt(t) = op_queue_ /\ Found(t) = {}
               /\ private_op_queue[t] = <<>>
<1> DEFINE S == Ops \cup {task_operation_}
           p == private_op_queue[t]
<1>1. pc[t] \in {"loop", "cleanup", "wait"} /\ At(t) = pc[t]
  BY DEF AtLoop, At
<1>2. ThreadOK(t)
  BY DEF CoreInv, ThreadsOK
<1>3. op[t] = NoOp /\ owed[t] = 0 /\ (pc[t] # "cleanup" => p = <<>>)
  BY <1>1, <1>2 DEF ThreadOK, Free
<1>4. op_queue_ \in Seq(S) /\ p \in Seq(Timers)
  BY DEF CoreInv, TypeOK
<1>5. p \in Seq(S)
  BY <1>4, SeqMonotonic DEF Ops
<1>6. Found(t) \subseteq Timers /\ Range(<<>>) = {}
  BY <1>4, EmptyRange DEF Found
<1>7. Held(t) = Found(t) \cup (IF pc[t] = "cleanup" THEN {task_operation_} ELSE {})
  <2>1. Hand(pc[t], op[t], fn[t]) = IF pc[t] = "cleanup" THEN {task_operation_} ELSE {}
    BY <1>1 DEF Hand, Reacting, Printing, Stranded
  <2>2. QED
    BY <1>1, <2>1 DEF Held
<1>8. /\ IsInjective(op_queue_) /\ IsInjective(p)
      /\ Queued \cap Held(t) = {}
  BY DEF CoreInv, OnePlace, Shared
<1>9. CASE pc[t] # "cleanup"
  <2>1. QueueAt(t) = op_queue_
    BY <1>4, <1>9, ConcatEmptySeq DEF QueueAt
  <2>2. Found(t) = {}
    BY <1>3, <1>6, <1>9 DEF Found
  <2>3. QED
    BY <1>1, <1>3, <1>4, <1>6, <1>7, <1>8, <1>9, <2>1, <2>2 DEF Queued
<1>10. CASE pc[t] = "cleanup"
  <2> DEFINE r == Append(p, task_operation_)
  <2>1. task_operation_ \notin Range(p)
    BY <1>6, UsersAssumption DEF Found
  <2>2. r \in Seq(S) /\ Range(r) = Range(p) \cup {task_operation_} /\ IsInjective(r)
    BY <1>5, <1>8, <2>1, AppendOnce
  <2>3. QueueAt(t) = op_queue_ \o r
    BY <1>10 DEF QueueAt
  <2>4. Range(op_queue_) \cap Range(r) = {} /\ Range(r) = Held(t)
    BY <1>7, <1>8, <1>10, <2>2 DEF Queued, Found
  <2> HIDE DEF r
  <2>5. /\ op_queue_ \o r \in Seq(S) /\ IsInjective(op_queue_ \o r)
        /\ Range(op_queue_ \o r) = Range(op_queue_) \cup Range(r)
    BY <1>4, <1>8, <2>2, <2>4, ConcatOnce
  <2>6. QED
    BY <1>1, <1>3, <1>6, <1>7, <1>10, <2>3, <2>4, <2>5 DEF Queued
<1>11. QED
  BY <1>9, <1>10

\* It leaves in the queue what it does not take.
LEMMA LoopPlaces ==
  ASSUME CoreInv, NEW t \in Threads, AtLoop(t), OnlyMoves(t),
         UNCHANGED <<timer, waiting_queue_, ready_queue_>>,
         private_op_queue'[t] = <<>>, IsInjective(op_queue_'),
         Queued' \cup Held(t)' = Queued \cup Held(t), Queued' \cap Held(t)' = {}
  PROVE  /\ OnePlace' /\ Somewhere' = Somewhere
         /\ Pending' = Pending \ Held(t)'
         /\ Held(t)' \subseteq Pending \cup {task_operation_}
<1> DEFINE rest == Armed \cup Range(waiting_queue_) \cup Range(ready_queue_)
<1>1. Shared = Queued \cup rest /\ Shared' = Queued' \cup rest /\ Armed' = Armed
  BY DEF Shared, Armed
<1>2. (Queued \cup Held(t)) \cap rest = {}
  BY DEF CoreInv, OnePlace, Shared
<1>3. Held(t)' \cap Shared' = {} /\ Held(t)' \cup Shared' = Held(t) \cup Shared
  BY <1>1, <1>2
<1>4. Somewhere' = Somewhere
  BY <1>3, SomewhereMoves
<1>5. OnePlace'
  <2>1. ((Armed \cup Queued) \cap (Range(waiting_queue_) \cup Range(ready_queue_)) = {})'
    BY <1>1, <1>2 DEF CoreInv, OnePlace
  <2>2. /\ (Armed \cap Queued = {})'
        /\ (Range(waiting_queue_) \cap Range(ready_queue_) = {})'
    BY <1>1, <1>2 DEF CoreInv, OnePlace
  <2>3. (IsInjective(waiting_queue_) /\ IsInjective(ready_queue_))'
    BY DEF CoreInv, OnePlace
  <2>4. IsInjective(private_op_queue[t])'
    BY DEF IsInjective
  <2>5. QED
    BY <1>3, <2>1, <2>2, <2>3, <2>4, MoveKeepsPlaces DEF CoreInv
<1>6. Pending' = Pending \ Held(t)' /\ Held(t)' \subseteq Pending \cup {task_operation_}
  <2> DEFINE fs == UNION {Found(u) : u \in Threads \ {t}}
  <2>1. Pending = Armed \cup (Queued \ {task_operation_}) \cup Found(t) \cup fs
    BY DEF Pending
  <2>2. Found(t)' = {}
    BY EmptyRange DEF Found, Range
  <2>3. UNION {Found(u)' : u \in Threads} = fs
    BY <2>2, OthersStay
  <2>4. Pending' = Armed \cup (Queued' \ {task_operation_}) \cup fs
    BY <1>1, <2>3 DEF Pending
  <2>5. Held(t) = Found(t) \/ Held(t) = Found(t) \cup {task_operation_}
    BY LoopFacts
  <2>6. (Queued \cup Held(t)) \cap fs = {}
    BY DEF CoreInv, OnePlace, Held, Shared
  <2>7. task_operation_ \notin Armed /\ task_operation_ \notin fs /\ task_operation_ \notin Found(t)
    <3>1. \A u \in Threads : Found(u) \subseteq Timers
      BY EmptyRange DEF Found, CoreInv, TypeOK
    <3>2. QED
      BY <3>1, UsersAssumption DEF Armed
  <2> HIDE DEF fs
  <2>8. QED
    BY <1>2, <2>1, <2>4, <2>5, <2>6, <2>7
<1>7. QED
  BY <1>4, <1>5, <1>6
-----------------------------------------------------------------------------
(***************************************************************************)
(* Counting work.                                                          *)
(***************************************************************************)
LEMMA WorkIsNat ==
  ASSUME TypeOK, WorkCounted
  PROVE  /\ WorkUntaken \in Nat /\ WorkOwed \in Nat
         /\ IsFiniteSet(Dear)
         /\ Cardinality(Pending) \in Nat /\ Cardinality(Dear) \in Nat
         /\ \A n \in 1..3 : IsFiniteSet(Owing(n)) /\ Cardinality(Owing(n)) \in Nat
<1>1. Dear \in SUBSET Pending
  BY DEF Dear
<1>2. IsFiniteSet(Dear)
  BY <1>1, FS_Subset DEF WorkCounted
<1>3. Cardinality(Pending) \in Nat /\ Cardinality(Dear) \in Nat
  BY <1>2, FS_CardinalityType DEF WorkCounted
<1>4. \A n \in 1..3 : IsFiniteSet(Owing(n)) /\ Cardinality(Owing(n)) \in Nat
  BY FS_CardinalityType DEF WorkCounted
<1>5. Cardinality(Owing(1)) \in Nat /\ Cardinality(Owing(2)) \in Nat /\ Cardinality(Owing(3)) \in Nat
  BY <1>4
<1>6. QED
  BY <1>2, <1>3, <1>4, <1>5 DEF WorkUntaken, WorkOwed

\* t owes b pieces instead of a.
LEMMA OwedChanges ==
  ASSUME TypeOK, WorkCounted, NEW t \in Threads, NEW a \in 0..3, NEW b \in 0..3,
         owed[t] = a, owed' = [owed EXCEPT ![t] = b]
  PROVE  /\ \A n \in 1..3 : IsFiniteSet(Owing(n)')
         /\ WorkOwed' = WorkOwed + b - a
<1> DEFINE one(n, c) == IF c >= n THEN 1 ELSE 0
<1>1. ASSUME NEW n \in 1..3
      PROVE  /\ IsFiniteSet(Owing(n)') /\ Cardinality(Owing(n)) \in Nat
             /\ Cardinality(Owing(n)') = Cardinality(Owing(n)) + one(n, b) - one(n, a)
  <2>1. IsFiniteSet(Owing(n)) /\ Cardinality(Owing(n)) \in Nat
    BY WorkIsNat
  <2>2. /\ Owing(n)' = IF b >= n THEN Owing(n) \cup {t} ELSE Owing(n) \ {t}
        /\ t \in Owing(n) <=> a >= n
    BY DEF Owing, TypeOK
  <2>3. CASE b >= n
    <3>1. IsFiniteSet(Owing(n)') /\ Cardinality(Owing(n)') =
            IF t \in Owing(n) THEN Cardinality(Owing(n)) ELSE Cardinality(Owing(n)) + 1
      BY <2>1, <2>2, <2>3, FS_AddElement
    <3>2. QED
      BY <2>1, <2>2, <2>3, <3>1
  <2>4. CASE ~(b >= n)
    <3>1. IsFiniteSet(Owing(n)') /\ Cardinality(Owing(n)') =
            IF t \in Owing(n) THEN Cardinality(Owing(n)) - 1 ELSE Cardinality(Owing(n))
      BY <2>1, <2>2, <2>4, FS_RemoveElement
    <3>2. QED
      BY <2>1, <2>2, <2>4, <3>1
  <2>5. QED
    BY <2>3, <2>4
<1>2. /\ Cardinality(Owing(1)') = Cardinality(Owing(1)) + one(1, b) - one(1, a)
      /\ Cardinality(Owing(2)') = Cardinality(Owing(2)) + one(2, b) - one(2, a)
      /\ Cardinality(Owing(3)') = Cardinality(Owing(3)) + one(3, b) - one(3, a)
      /\ Cardinality(Owing(1)) \in Nat /\ Cardinality(Owing(2)) \in Nat
      /\ Cardinality(Owing(3)) \in Nat
  BY <1>1
<1>3. one(1, a) + one(2, a) + one(3, a) = a /\ one(1, b) + one(2, b) + one(3, b) = b
  OBVIOUS
<1>4. /\ one(1, a) \in Int /\ one(2, a) \in Int /\ one(3, a) \in Int
      /\ one(1, b) \in Int /\ one(2, b) \in Int /\ one(3, b) \in Int
  OBVIOUS
<1> HIDE DEF one
<1>5. WorkOwed' = WorkOwed + b - a
  BY <1>2, <1>3, <1>4 DEF WorkOwed
<1>6. QED
  BY <1>1, <1>5

LEMMA CostFacts ==
  /\ cost \in [Ops -> {1, 2}]
  /\ program' = program => cost' = cost
  BY DEF cost

\* An operation is no longer, or from now on, among those not taken.
LEMMA PendingShrinks ==
  ASSUME TypeOK, WorkCounted, NEW o \in Ops, o \in Pending, Pending' = Pending \ {o},
         program' = program
  PROVE  IsFiniteSet(Pending') /\ WorkUntaken' = WorkUntaken - cost[o]
<1>1. IsFiniteSet(Pending) /\ IsFiniteSet(Dear)
      /\ Cardinality(Pending) \in Nat /\ Cardinality(Dear) \in Nat
  BY WorkIsNat DEF WorkCounted
<1>2. cost' = cost /\ cost[o] \in {1, 2}
  BY CostFacts
<1>3. Dear' = Dear \ {o} /\ (o \in Dear <=> cost[o] = 2)
  BY <1>2 DEF Dear
<1>4. IsFiniteSet(Pending') /\ Cardinality(Pending') = Cardinality(Pending) - 1
  BY <1>1, FS_RemoveElement
<1>5. Cardinality(Dear') = IF o \in Dear THEN Cardinality(Dear) - 1 ELSE Cardinality(Dear)
  BY <1>1, <1>3, FS_RemoveElement
<1>6. QED
  BY <1>1, <1>2, <1>3, <1>4, <1>5 DEF WorkUntaken

LEMMA PendingGrows ==
  ASSUME TypeOK, WorkCounted, NEW o \in Ops, o \notin Pending, Pending' = Pending \cup {o},
         program' = program
  PROVE  IsFiniteSet(Pending') /\ WorkUntaken' = WorkUntaken + cost[o]
<1>1. IsFiniteSet(Pending) /\ IsFiniteSet(Dear)
      /\ Cardinality(Pending) \in Nat /\ Cardinality(Dear) \in Nat
  BY WorkIsNat DEF WorkCounted
<1>2. cost' = cost /\ cost[o] \in {1, 2}
  BY CostFacts
<1>3. Dear' = (IF cost[o] = 2 THEN Dear \cup {o} ELSE Dear) /\ o \notin Dear
  BY <1>2 DEF Dear
<1>4. IsFiniteSet(Pending') /\ Cardinality(Pending') = Cardinality(Pending) + 1
  BY <1>1, FS_AddElement
<1>5. Cardinality(Dear') = IF cost[o] = 2 THEN Cardinality(Dear) + 1 ELSE Cardinality(Dear)
  BY <1>1, <1>3, FS_AddElement
<1>6. QED
  BY <1>1, <1>2, <1>4, <1>5 DEF WorkUntaken

LEMMA SamePending ==
  ASSUME WorkCounted, Pending' = Pending, program' = program
  PROVE  IsFiniteSet(Pending') /\ WorkUntaken' = WorkUntaken
<1>1. Dear' = Dear
  BY CostFacts DEF Dear
<1>2. QED
  BY <1>1 DEF WorkCounted, WorkUntaken

LEMMA SameOwed ==
  ASSUME WorkCounted, owed' = owed
  PROVE  /\ \A n \in 1..3 : IsFiniteSet(Owing(n)')
         /\ WorkOwed' = WorkOwed
<1>1. Owing(1)' = Owing(1) /\ Owing(2)' = Owing(2) /\ Owing(3)' = Owing(3)
  BY DEF Owing
<1>2. \A n \in 1..3 : Owing(n)' = Owing(n)
  BY DEF Owing
<1>3. QED
  BY <1>1, <1>2 DEF WorkCounted, WorkOwed

\* Whoever owes work, and an operation not taken, is counted.
LEMMA WorkIsSeen ==
  ASSUME TypeOK, WorkCounted
  PROVE  /\ Pending # {} => outstanding_work_ > 0
         /\ \A t \in Threads : owed[t] > 0 => outstanding_work_ > 0
         /\ \A t \in Threads : owed[t] > 1 => outstanding_work_ > 1
         /\ program = "pool" => outstanding_work_ > 0
<1>1. /\ WorkUntaken \in Nat /\ WorkOwed \in Nat
      /\ outstanding_work_ = WorkUntaken + WorkOwed + (IF program = "pool" THEN 1 ELSE 0)
      /\ Cardinality(Pending) \in Nat /\ Cardinality(Dear) \in Nat
      /\ \A n \in 1..3 : Cardinality(Owing(n)) \in Nat
      /\ IsFiniteSet(Pending) /\ IsFiniteSet(Owing(1)) /\ IsFiniteSet(Owing(2))
  BY WorkIsNat DEF WorkCounted
<1>2. Pending # {} => WorkUntaken > 0
  <2>1. Pending # {} => Cardinality(Pending) # 0
    BY <1>1, FS_EmptySet
  <2>2. QED
    BY <1>1, <2>1 DEF WorkUntaken
<1>3. ASSUME NEW t \in Threads, owed[t] > 0
      PROVE  WorkOwed > 0
  <2>1. t \in Owing(1)
    BY <1>3 DEF Owing, TypeOK
  <2>2. Cardinality(Owing(1)) # 0
    BY <1>1, <2>1, FS_EmptySet
  <2>3. Cardinality(Owing(1)) \in Nat /\ Cardinality(Owing(2)) \in Nat /\ Cardinality(Owing(3)) \in Nat
    BY <1>1
  <2>4. QED
    BY <2>2, <2>3 DEF WorkOwed
<1>4. ASSUME NEW t \in Threads, owed[t] > 1
      PROVE  WorkOwed > 1
  <2>1. t \in Owing(1) /\ t \in Owing(2)
    BY <1>4 DEF Owing, TypeOK
  <2>2. Cardinality(Owing(1)) # 0 /\ Cardinality(Owing(2)) # 0
    BY <1>1, <2>1, FS_EmptySet
  <2>3. Cardinality(Owing(1)) \in Nat /\ Cardinality(Owing(2)) \in Nat /\ Cardinality(Owing(3)) \in Nat
    BY <1>1
  <2>4. QED
    BY <2>2, <2>3 DEF WorkOwed
<1>5. QED
  BY <1>1, <1>2, <1>3, <1>4
-----------------------------------------------------------------------------
(***************************************************************************)
(* The steps of the loop.                                                  *)
(***************************************************************************)
LEMMA LoopStep ==
  ASSUME CoreInv, NEW t \in Threads, AtLoop(t), OnlyMoves(t), UNCHANGED others,
         UNCHANGED <<outstanding_work_, stopped_, task_, polls, owed>>,
         private_op_queue'[t] = <<>>, IsInjective(op_queue_'),
         Queued' \cup Held(t)' = Queued \cup Held(t), Queued' \cap Held(t)' = {},
         Held(t)' \subseteq {task_operation_},
         TypeOK', ThreadOK(t)', pc'[t] # "count", pc'[t] # "stop",
         pc'[t] = "returned" => polls \/ stopped_
  PROVE  CoreInv'
<1> USE DEF others, strandVars, printerVars, poolVars
<1>1. OnePlace' /\ Somewhere' = Somewhere /\ Pending' = Pending \ Held(t)'
  BY LoopPlaces
<1>2. Pending' = Pending
  <2>1. task_operation_ \notin Pending
    <3>1. \A u \in Threads : Found(u) \subseteq Timers
      BY EmptyRange DEF Found, CoreInv, TypeOK
    <3>2. QED
      BY <3>1, UsersAssumption DEF Armed, Pending
  <2>2. QED
    BY <1>1, <2>1
<1>3. ThreadsOK'
  BY ThreadsMove DEF CoreInv
<1>4. WorkCounted'
  BY <1>2, SameWork DEF CoreInv
<1>5. StopsWithoutWork'
  BY StopsMove DEF CoreInv, StopsWithoutWork
<1>6. ProgramOK'
  <2>1. pc[t] # "outside"
    BY LoopFacts
  <2>2. QED
    BY <1>1, <2>1, ProgramMoves DEF CoreInv, ProgramOK
<1>7. CountOK'
  BY <1>1, CountMoves DEF CoreInv
<1>8. QED
  BY <1>1, <1>3, <1>4, <1>5, <1>6, <1>7 DEF CoreInv

\* What t takes from the queue leaves the rest.
LEMMA TakeFacts ==
  ASSUME CoreInv, NEW t \in Threads, AtLoop(t), QueueAt(t) # <<>>,
         op_queue_' = Tail(QueueAt(t)), Held(t)' = {Head(QueueAt(t))}
  PROVE  /\ op_queue_' \in Seq(Ops \cup {task_operation_})
         /\ Head(QueueAt(t)) \in Ops \cup {task_operation_}
         /\ IsInjective(op_queue_')
         /\ Queued' \cup Held(t)' = Queued \cup Held(t) /\ Queued' \cap Held(t)' = {}
<1> DEFINE q == QueueAt(t)
           S == Ops \cup {task_operation_}
<1>1. q \in Seq(S) /\ IsInjective(q) /\ Range(q) = Queued \cup Held(t)
  BY LoopFacts
<1> HIDE DEF q
<1>2. /\ Head(q) \in Range(q) /\ Tail(q) \in Seq(S)
      /\ Range(Tail(q)) = Range(q) \ {Head(q)} /\ IsInjective(Tail(q))
  BY <1>1, TailOnce DEF q
<1>3. Range(q) \subseteq S
  BY <1>1, EmptyRange
<1>4. Queued' = Range(Tail(q)) /\ op_queue_' = Tail(q)
  BY DEF Queued, q
<1>5. QED
  BY <1>1, <1>2, <1>3, <1>4 DEF q

LEMMA WaitStep ==
  ASSUME CoreInv, NEW t \in Threads, Wait(t), UNCHANGED others
  PROVE  CoreInv'
<1> USE DEF others, strandVars, printerVars, poolVars, queueVars, taskVars
<1>1. /\ OnlyMoves(t) /\ pc'[t] = "wait" /\ AtLoop(t) /\ QueueAt(t) = <<>>
      /\ then' = then /\ op' = op /\ owed' = owed /\ private_op_queue' = private_op_queue
  BY DEF Wait, OnlyMoves, CoreInv, TypeOK
<1>2. Held(t) = {} /\ pc[t] # "cleanup"
  <2>1. Range(QueueAt(t)) = {}
    BY <1>1 DEF Range
  <2>2. Held(t) = {}
    BY <1>1, <2>1, LoopFacts
  <2>3. QED
    BY <1>1, <2>2, LoopFacts
<1>3. /\ op[t] = NoOp /\ owed[t] = 0 /\ private_op_queue[t] = <<>> /\ pc[t] \in {"loop", "wait"}
  BY <1>1, <1>2, LoopFacts
<1>4. At(t)' = "wait" /\ At(t) = pc[t]
  BY <1>1, <1>3 DEF At
<1>5. Held(t)' = Held(t)
  <2>1. Held(t)' = Found(t)' /\ Found(t)' = Found(t) /\ Found(t) \subseteq Held(t)
    BY <1>1, <1>4 DEF Held, Hand, Found, Reacting, Printing, Stranded
  <2>2. QED
    BY <1>2, <2>1
<1>6. ThreadOK(t)'
  <2>1. ThreadOK(t)
    BY DEF CoreInv, ThreadsOK
  <2>2. t \in Posters => At(t) = "outside"
    BY <2>1 DEF ThreadOK
  <2>3. QED
    BY <1>1, <1>3, <1>4, <2>2 DEF ThreadOK, Free, Stranded, Printing
<1>7. TypeOK'
  <2>1. woken' \subseteq Waiters'
    BY <1>1 DEF Wait, CoreInv, TypeOK, Waiters
  <2>2. QED
    BY <1>1, <2>1 DEF Wait, CoreInv, TypeOK
<1>8. Armed' = Armed
  BY DEF Armed
<1>9. QED
  BY <1>1, <1>3, <1>5, <1>6, <1>7, <1>8, QuietStep DEF Wait

LEMMA ReturnStep ==
  ASSUME CoreInv, NEW t \in Threads, Return(t) \/ PollReturns(t), UNCHANGED others
  PROVE  CoreInv'
<1> USE DEF others, strandVars, printerVars, poolVars
<1>1. /\ OnlyMoves(t) /\ pc' = [pc EXCEPT ![t] = "returned"] /\ AtLoop(t) /\ op_queue_' = QueueAt(t)
      /\ private_op_queue' = [private_op_queue EXCEPT ![t] = <<>>]
      /\ UNCHANGED <<outstanding_work_, stopped_, task_, polls, then, blocks, op, owed, interrupted>>
      /\ woken' \in {woken, woken \ {t}} /\ pc'[t] = "returned"
      /\ polls \/ stopped_
  BY DEF Return, PollReturns, OnlyMoves, AtLoop, CoreInv, TypeOK
<1>2. private_op_queue'[t] = <<>>
  BY <1>1 DEF CoreInv, TypeOK
<1>3. At(t)' = "returned" /\ Held(t)' = {}
  <2>1. At(t)' = "returned"
    BY <1>1 DEF At
  <2>2. Found(t)' = {}
    BY <1>2 DEF Found, Range
  <2>3. QED
    BY <2>1, <2>2 DEF Held, Hand, Reacting, Printing, Stranded
<1>4. /\ IsInjective(op_queue_') /\ op_queue_' \in Seq(Ops \cup {task_operation_})
      /\ Queued' = Queued \cup Held(t)
  BY <1>1, LoopFacts DEF Queued
<1>5. ThreadOK(t)'
  <2>1. t \notin Posters
    BY <1>1, LoopFacts DEF CoreInv, ThreadsOK, ThreadOK
  <2>2. QED
    BY <1>1, <1>2, <1>3, <2>1, LoopFacts DEF ThreadOK, Free, Stranded, Printing
<1>6. TypeOK'
  <2>1. woken' \subseteq Waiters'
    <3>1. pc[t] = "cleanup" => t \notin woken
      BY DEF CoreInv, TypeOK, Waiters
    <3>2. woken' \subseteq woken \ {t}
      BY <1>1, <3>1 DEF Return, PollReturns
    <3>3. QED
      BY <1>1, <3>2 DEF CoreInv, TypeOK, Waiters
  <2>2. {task_interrupted_', signalled'} \subseteq BOOLEAN
    BY DEF Return, PollReturns, InterruptedAt, CoreInv, TypeOK
  <2>3. private_op_queue' \in [Threads -> Seq(Timers)]
    BY <1>1 DEF CoreInv, TypeOK
  <2>4. QED
    BY <1>1, <1>4, <2>1, <2>2, <2>3 DEF CoreInv, TypeOK
<1>7. QED
  BY <1>1, <1>2, <1>3, <1>4, <1>5, <1>6, LoopStep

LEMMA TakeTaskStep ==
  ASSUME CoreInv, NEW t \in Threads, TakeTask(t) \/ PollTask(t), UNCHANGED others
  PROVE  CoreInv'
<1> USE DEF others, strandVars, printerVars, poolVars
<1>1. /\ AtLoop(t) /\ OnlyMoves(t) /\ QueueAt(t) # <<>> /\ Head(QueueAt(t)) = task_operation_
      /\ op_queue_' = Tail(QueueAt(t)) /\ private_op_queue'[t] = <<>>
      /\ private_op_queue' \in [Threads -> Seq(Timers)]
      /\ UNCHANGED <<outstanding_work_, stopped_, task_, polls, op, owed, interrupted>>
      /\ At(t)' = "task" /\ pc'[t] \in {"task", "signal"} /\ then'[t] \in {then[t], "task"}
      /\ pc' = [pc EXCEPT ![t] = "task"] \/ pc' = [pc EXCEPT ![t] = "signal"]
      /\ pc'[t] = "signal" => then'[t] = "task"
      /\ then' = then \/ then' = [then EXCEPT ![t] = "task"]
      /\ woken' \in {woken, woken \ {t}} /\ (pc[t] = "wait" => woken' = woken \ {t})
      /\ blocks' \in [Threads -> BOOLEAN]
      /\ {task_interrupted_', signalled'} \subseteq BOOLEAN
  <2>1. CASE TakeTask(t)
    <3> USE <2>1 DEF TakeTask
    <3>1. /\ AtLoop(t) /\ QueueAt(t) # <<>> /\ Head(QueueAt(t)) = task_operation_
          /\ op_queue_' = Tail(QueueAt(t)) /\ private_op_queue'[t] = <<>>
          /\ private_op_queue' \in [Threads -> Seq(Timers)]
          /\ UNCHANGED <<outstanding_work_, stopped_, task_, polls, op, owed, interrupted>>
          /\ woken' = woken \ {t}
      BY DEF CoreInv, TypeOK
    <3>2. /\ pc' = [pc EXCEPT ![t] = "task"] \/ pc' = [pc EXCEPT ![t] = "signal"]
          /\ then' = [then EXCEPT ![t] = "task"]
      OBVIOUS
    <3>3. pc'[t] \in {"task", "signal"} /\ then'[t] = "task" /\ At(t)' = "task"
      BY <3>2 DEF CoreInv, TypeOK, At
    <3>4. /\ blocks' \in [Threads -> BOOLEAN]
          /\ {task_interrupted_', signalled'} \subseteq BOOLEAN
      BY DEF CoreInv, TypeOK
    <3>5. OnlyMoves(t)
      BY DEF OnlyMoves, CoreInv, TypeOK
    <3>6. QED
      BY <3>1, <3>2, <3>3, <3>4, <3>5
  <2>2. CASE PollTask(t)
    <3> USE <2>2 DEF PollTask, taskVars, eventVars
    <3>1. AtLoop(t) /\ pc[t] = "loop"
      BY DEF AtLoop
    <3>2. QueueAt(t) = op_queue_ /\ private_op_queue[t] = <<>>
      BY <3>1, LoopFacts
    <3>3. pc' = [pc EXCEPT ![t] = "task"] /\ pc'[t] = "task" /\ At(t)' = "task"
      BY DEF CoreInv, TypeOK, At
    <3>4. OnlyMoves(t) /\ blocks' \in [Threads -> BOOLEAN]
      BY DEF OnlyMoves, CoreInv, TypeOK
    <3>5. QED
      BY <3>1, <3>2, <3>3, <3>4 DEF CoreInv, TypeOK
  <2>3. QED
    BY <2>1, <2>2
<1>2. Held(t)' = {task_operation_}
  <2>1. Found(t)' = {}
    BY <1>1 DEF Found, Range
  <2>2. QED
    BY <1>1, <2>1 DEF Held, Hand, Reacting, Printing, Stranded
<1>3. /\ op_queue_' \in Seq(Ops \cup {task_operation_}) /\ IsInjective(op_queue_')
      /\ Queued' \cup Held(t)' = Queued \cup Held(t) /\ Queued' \cap Held(t)' = {}
  BY <1>1, <1>2, TakeFacts
<1>4. ThreadOK(t)'
  <2>1. t \notin Posters
    BY <1>1, LoopFacts DEF CoreInv, ThreadsOK, ThreadOK
  <2>2. op[t] = NoOp /\ owed[t] = 0
    BY <1>1, LoopFacts
  <2>3. QED
    BY <1>1, <2>1, <2>2 DEF ThreadOK, Free, Stranded, Printing
<1>5. TypeOK'
  <2>1. woken' \subseteq Waiters'
    <3>1. pc[t] # "wait" => t \notin woken
      BY DEF CoreInv, TypeOK, Waiters
    <3>2. woken' \subseteq woken \ {t}
      BY <1>1, <3>1
    <3>3. \A u \in Threads \ {t} : pc'[u] = pc[u]
      BY <1>1 DEF OnlyMoves
    <3>4. QED
      BY <3>2, <3>3 DEF CoreInv, TypeOK, Waiters
  <2>2. /\ pc' \in [Threads -> Spots]
        /\ then' \in [Threads -> NextSpots]
    <3>1. /\ pc' = [pc EXCEPT ![t] = "task"] \/ pc' = [pc EXCEPT ![t] = "signal"]
          /\ then' = then \/ then' = [then EXCEPT ![t] = "task"]
      BY <1>1
    <3>2. TypeOK
      BY DEF CoreInv
    <3>3. QED
      BY <3>1, <3>2, SpotFacts
  <2>3. QED
    BY <1>1, <1>3, <2>1, <2>2 DEF CoreInv, TypeOK, Spots, NextSpots
<1>6. pc'[t] # "count" /\ pc'[t] # "stop" /\ pc'[t] # "returned"
  BY <1>1
<1>7. QED
  BY <1>1, <1>2, <1>3, <1>4, <1>5, <1>6, LoopStep

\* What waking another thread does to the one that does it.
LEMMA WakeFacts ==
  ASSUME TypeOK, NEW t \in Threads, NEW next \in {"handler", "finish", "outside"},
         NEW busy \in BOOLEAN, wake_one_thread(t, next, busy)
  PROVE  /\ pc'[t] \in {next, "signal"} /\ (pc'[t] = "signal" => then'[t] = next)
         /\ At(t)' = next
         /\ \A u \in Threads \ {t} : pc'[u] = pc[u] /\ then'[u] = then[u]
         /\ {task_interrupted_', interrupted', signalled'} \subseteq BOOLEAN
         /\ pc' \in [Threads -> Spots]
         /\ then' \in [Threads -> NextSpots]
<1>1. \/ pc' = [pc EXCEPT ![t] = next] /\ then' = then
      \/ pc' = [pc EXCEPT ![t] = "signal"] /\ then' = [then EXCEPT ![t] = next]
  BY DEF wake_one_thread
<1>2. pc'[t] \in {next, "signal"} /\ (pc'[t] = "signal" => then'[t] = next)
  BY <1>1 DEF TypeOK
<1>3. At(t)' = next
  BY <1>2 DEF At
<1>4. \A u \in Threads \ {t} : pc'[u] = pc[u] /\ then'[u] = then[u]
  BY <1>1 DEF TypeOK
<1>5. {task_interrupted_', interrupted', signalled'} \subseteq BOOLEAN
  BY DEF wake_one_thread, TypeOK
<1>6. pc' \in [Threads -> Spots] /\ then' \in [Threads -> NextSpots]
  BY <1>1, SpotFacts
<1>7. QED
  BY <1>2, <1>3, <1>4, <1>5, <1>6

LEMMA TakeOpStep ==
  ASSUME CoreInv, NEW t \in Threads, TakeOp(t, cost), UNCHANGED others
  PROVE  CoreInv'
<1> USE DEF others, strandVars, printerVars, poolVars
<1> DEFINE o == Head(QueueAt(t))
<1>1. /\ AtLoop(t) /\ ~stopped_ /\ QueueAt(t) # <<>> /\ o # task_operation_
      /\ op_queue_' = Tail(QueueAt(t))
      /\ private_op_queue' = [private_op_queue EXCEPT ![t] = <<>>]
      /\ woken' = woken \ {t}
      /\ op' = [op EXCEPT ![t] = o] /\ owed' = [owed EXCEPT ![t] = cost[o]]
      /\ UNCHANGED <<outstanding_work_, stopped_, task_, polls, blocks>>
  BY DEF TakeOp
<1>2. InterruptedAt(t) \in BOOLEAN
  BY DEF InterruptedAt, CoreInv, TypeOK
<1>3. /\ pc'[t] \in {"handler", "signal"} /\ (pc'[t] = "signal" => then'[t] = "handler")
      /\ At(t)' = "handler"
      /\ \A u \in Threads \ {t} : pc'[u] = pc[u] /\ then'[u] = then[u]
      /\ {task_interrupted_', interrupted', signalled'} \subseteq BOOLEAN
      /\ pc' \in [Threads -> Spots]
      /\ then' \in [Threads -> NextSpots]
  <2>1. CASE Tail(QueueAt(t)) # <<>>
    <3>1. wake_one_thread(t, "handler", InterruptedAt(t))
      BY <2>1 DEF TakeOp
    <3>2. QED
      BY <1>2, <3>1, WakeFacts DEF CoreInv
  <2>2. CASE Tail(QueueAt(t)) = <<>>
    <3>1. /\ pc' = [pc EXCEPT ![t] = "handler"]
          /\ task_interrupted_' = InterruptedAt(t)
          /\ UNCHANGED <<then, signalled, interrupted>>
      BY <2>2 DEF TakeOp
    <3>2. pc' \in [Threads -> Spots] /\ then' \in [Threads -> NextSpots]
      BY <3>1, SpotFacts DEF CoreInv
    <3>3. QED
      BY <1>2, <3>1, <3>2 DEF CoreInv, TypeOK, At
  <2>3. QED
    BY <2>1, <2>2
<1>4. OnlyMoves(t) /\ op'[t] = o /\ owed'[t] = cost[o] /\ private_op_queue'[t] = <<>>
  BY <1>1, <1>3 DEF OnlyMoves, CoreInv, TypeOK
<1>5. Held(t)' = {o}
  <2>1. Found(t)' = {}
    BY <1>4 DEF Found, Range
  <2>2. QED
    BY <1>3, <1>4, <2>1, HandFacts DEF Held
<1>6. /\ op_queue_' \in Seq(Ops \cup {task_operation_}) /\ IsInjective(op_queue_')
      /\ o \in Ops
      /\ Queued' \cup Held(t)' = Queued \cup Held(t) /\ Queued' \cap Held(t)' = {}
  BY <1>1, <1>5, TakeFacts
<1> HIDE DEF o
<1>7. /\ OnePlace' /\ Somewhere' = Somewhere
      /\ Pending' = Pending \ {o} /\ o \in Pending
  BY <1>1, <1>4, <1>5, <1>6, LoopPlaces
<1>8. op[t] = NoOp /\ owed[t] = 0 /\ pc[t] \in {"loop", "cleanup", "wait"} /\ t \notin Posters
  BY <1>1, LoopFacts DEF CoreInv, ThreadsOK, ThreadOK
<1>9. cost[o] \in {1, 2} /\ cost' = cost /\ program' = program
  BY <1>6, CostFacts
<1>10. ThreadsOK'
  <2>1. ThreadOK(t)'
    BY <1>3, <1>4, <1>6, <1>8, <1>9 DEF ThreadOK, Free, Stranded, Printing
  <2>2. QED
    BY <1>4, <2>1, ThreadsMove DEF CoreInv
<1>11. TypeOK'
  <2>1. woken' \subseteq Waiters'
    BY <1>1, <1>3 DEF CoreInv, TypeOK, Waiters
  <2>2. /\ private_op_queue' \in [Threads -> Seq(Timers)]
        /\ op' \in [Threads -> Ops \cup {NoOp}] /\ owed' \in [Threads -> Nat]
    BY <1>1, <1>6, <1>9 DEF CoreInv, TypeOK
  <2>3. QED
    BY <1>1, <1>3, <1>6, <2>1, <2>2 DEF CoreInv, TypeOK, Spots, NextSpots
<1>12. WorkCounted'
  <2>1. IsFiniteSet(Pending') /\ WorkUntaken' = WorkUntaken - cost[o]
    BY <1>6, <1>7, PendingShrinks DEF CoreInv
  <2>2. (\A n \in 1..3 : IsFiniteSet(Owing(n)')) /\ WorkOwed' = WorkOwed + cost[o] - 0
    <3>1. cost[o] \in 0..3 /\ 0 \in 0..3
      BY <1>9
    <3>2. QED
      BY <1>1, <1>8, <3>1, OwedChanges DEF CoreInv
  <2>3. WorkUntaken \in Nat /\ WorkOwed \in Nat
    BY WorkIsNat DEF CoreInv
  <2>4. WorkUntaken' + WorkOwed' = WorkUntaken + WorkOwed
    BY <1>9, <2>1, <2>2, <2>3
  <2>5. QED
    BY <1>1, <1>9, <2>1, <2>2, <2>4 DEF CoreInv, WorkCounted
<1>13. StopsWithoutWork'
  BY <1>1, <1>3, <1>4, StopsMove DEF CoreInv
<1>14. ProgramOK'
  BY <1>1, <1>4, <1>7, <1>8, ProgramMoves DEF CoreInv, ProgramOK
<1>15. CountOK'
  BY <1>3, <1>4, <1>7, CountMoves DEF CoreInv
<1>16. QED
  BY <1>7, <1>10, <1>11, <1>12, <1>13, <1>14, <1>15 DEF CoreInv
-----------------------------------------------------------------------------
(***************************************************************************)
(* Handlers.                                                               *)
(***************************************************************************)
LEMMA WorkFinishedStep ==
  ASSUME CoreInv, NEW t \in Threads, work_finished(t), UNCHANGED others
  PROVE  CoreInv'
<1> USE DEF others, strandVars, printerVars, poolVars, taskVars, eventVars
<1> DEFINE next == IF owed[t] = 1 THEN "loop" ELSE "finish"
<1>1. /\ pc[t] = "finish" /\ outstanding_work_' = outstanding_work_ - 1
      /\ owed' = [owed EXCEPT ![t] = owed[t] - 1]
      /\ then' = [then EXCEPT ![t] = next]
      /\ pc' = [pc EXCEPT ![t] = IF outstanding_work_ = 1 THEN "stop" ELSE next]
      /\ op' = IF owed[t] = 1 THEN [op EXCEPT ![t] = NoOp] ELSE op
      /\ UNCHANGED <<op_queue_, stopped_, blocks, private_op_queue>>
      /\ UNCHANGED <<task_, polls, task_interrupted_, interrupted, signalled, woken>>
  BY DEF work_finished
<1>2. ThreadOK(t) /\ cost' = cost /\ program' = program
  BY CostFacts DEF CoreInv, ThreadsOK
<1>3. At(t) = "finish" /\ owed[t] \in 1..3 /\ op[t] \in Ops
  BY <1>1, <1>2 DEF ThreadOK, At
<1>4. outstanding_work_ > 0 /\ (owed[t] > 1 => outstanding_work_ > 1) /\ outstanding_work_ \in Nat
  BY <1>3, WorkIsSeen DEF CoreInv, TypeOK
<1>5. /\ OnlyMoves(t) /\ then'[t] = next /\ owed'[t] = owed[t] - 1
      /\ pc'[t] = (IF outstanding_work_ = 1 THEN "stop" ELSE next)
      /\ op'[t] = (IF owed[t] = 1 THEN NoOp ELSE op[t])
  BY <1>1 DEF OnlyMoves, CoreInv, TypeOK
<1>6. outstanding_work_ = 1 => owed[t] = 1
  BY <1>3, <1>4
<1>7. At(t)' = pc'[t]
  BY <1>5 DEF At
<1>8. Held(t) = Found(t) /\ Held(t)' = Found(t)' /\ Found(t)' = Found(t)
  BY <1>1, <1>3, <1>5, <1>7 DEF Held, Hand, Found, Reacting, Printing, Stranded
<1>9. OnePlace' /\ Pending' = Pending /\ Somewhere' = Somewhere
  <2>1. Armed' = Armed
    BY DEF Armed
  <2>2. QED
    BY <1>1, <1>5, <1>8, <2>1, SamePlaces DEF CoreInv
<1>10. ThreadsOK'
  <2>1. owed'[t] = 0 <=> owed[t] = 1
    BY <1>3, <1>5
  <2>2. owed[t] # 1 => owed'[t] \in 1..3
    BY <1>3, <1>5
  <2>3. ThreadOK(t)'
    BY <1>1, <1>2, <1>3, <1>5, <1>6, <1>7, <2>1, <2>2 DEF ThreadOK, Free, Stranded, Printing
  <2>4. QED
    BY <1>5, <2>3, ThreadsMove DEF CoreInv
<1>11. TypeOK'
  <2>1. Waiters \subseteq Waiters'
    BY <1>1 DEF CoreInv, TypeOK, Waiters
  <2>2. owed' \in [Threads -> Nat] /\ op' \in [Threads -> Ops \cup {NoOp}]
    BY <1>1, <1>3 DEF CoreInv, TypeOK
  <2>3. outstanding_work_' \in Nat
    BY <1>1, <1>4
  <2>4. QED
    BY <1>1, <2>1, <2>2, <2>3 DEF CoreInv, TypeOK
<1>12. WorkCounted'
  <2>1. IsFiniteSet(Pending') /\ WorkUntaken' = WorkUntaken
    BY <1>2, <1>9, SamePending DEF CoreInv
  <2>2. owed[t] \in 0..3 /\ owed[t] - 1 \in 0..3
    BY <1>3
  <2>3. (\A n \in 1..3 : IsFiniteSet(Owing(n)')) /\ WorkOwed' = WorkOwed + (owed[t] - 1) - owed[t]
    BY <1>1, <2>2, OwedChanges DEF CoreInv
  <2>4. WorkUntaken \in Nat /\ WorkOwed \in Nat
    BY WorkIsNat DEF CoreInv
  <2>5. QED
    BY <1>1, <1>2, <1>3, <2>1, <2>3, <2>4 DEF CoreInv, WorkCounted
<1>13. StopsWithoutWork'
  BY <1>1, <1>4, <1>5, StopsMove DEF CoreInv
<1>14. ProgramOK'
  BY <1>1, <1>5, <1>9, ProgramMoves DEF CoreInv, ProgramOK
<1>15. CountOK'
  BY <1>5, <1>9, CountMoves DEF CoreInv
<1>16. QED
  BY <1>9, <1>10, <1>11, <1>12, <1>13, <1>14, <1>15 DEF CoreInv

\* The reactor returns with what has expired.
LEMMA RunTaskStep ==
  ASSUME CoreInv, NEW t \in Threads, RunTask(t)
  PROVE  CoreInv'
<1> USE DEF strandVars, poolVars, queueVars, eventVars
<1> DEFINE expired == {x \in Timers : timer[x] = "expired"}
<1>1. PICK found \in SetToSeqs(expired) : TaskReturns(t, found)
  BY DEF RunTask
<1>2. /\ timer' = [x \in Timers |-> IF x \in expired THEN "idle" ELSE timer[x]]
      /\ UNCHANGED <<locked_, waiting_queue_, ready_queue_, fn, program, m_count, posted, ran>>
  BY DEF RunTask
<1>3. IsFiniteSet(expired)
  BY UsersAssumption, FS_Subset
<1>4. found \in Seq(expired) /\ Range(found) = expired /\ IsInjective(found)
  BY <1>1, <1>3, OrdersOfSet
<1>5. found \in Seq(Timers) /\ expired \subseteq Armed
  BY <1>4, SeqMonotonic DEF Armed
<1>6. /\ pc[t] = "task" /\ interrupted' = FALSE
      /\ private_op_queue' = [private_op_queue EXCEPT ![t] = found]
      /\ pc' = [pc EXCEPT ![t] = "cleanup"]
      /\ UNCHANGED <<op_queue_, outstanding_work_, stopped_, task_, polls, task_interrupted_>>
      /\ UNCHANGED <<signalled, woken, then, blocks, op, owed>>
  BY <1>1 DEF TaskReturns
<1>7. /\ OnlyMoves(t) /\ pc'[t] = "cleanup" /\ private_op_queue'[t] = found
  BY <1>2, <1>6 DEF OnlyMoves, CoreInv, TypeOK
<1>8. /\ At(t) = "task" /\ At(t)' = "cleanup"
      /\ ThreadOK(t) /\ cost' = cost
  BY <1>2, <1>6, <1>7, CostFacts DEF At, CoreInv, ThreadsOK
<1>9. private_op_queue[t] = <<>> /\ Found(t) = {} /\ Found(t)' = expired
  <2>1. private_op_queue[t] = <<>>
    BY <1>6, <1>8 DEF ThreadOK
  <2>2. QED
    BY <1>4, <1>7, <2>1 DEF Found, Range
<1>10. Held(t) = {task_operation_} /\ Held(t)' = {task_operation_} \cup expired
  BY <1>8, <1>9, HandFacts DEF Held
<1>11. Armed' = Armed \ expired
  BY <1>2 DEF Armed, CoreInv, TypeOK
<1> DEFINE rest == Queued \cup Range(waiting_queue_) \cup Range(ready_queue_)
<1>12. Queued' = Queued /\ Shared = Armed \cup rest /\ Shared' = (Armed \ expired) \cup rest
  BY <1>2, <1>6, <1>11 DEF Shared, Queued
<1>13. /\ Armed \cap rest = {} /\ task_operation_ \notin Shared
  BY <1>10 DEF CoreInv, OnePlace, Shared
<1>14. OnePlace'
  <2>1. /\ Held(t)' \cup Shared' \subseteq Held(t) \cup Shared \cup {}
        /\ Held(t)' \cap Shared' = {}
    BY <1>5, <1>10, <1>12, <1>13
  <2>2. ((Armed \cup Queued) \cap (Range(waiting_queue_) \cup Range(ready_queue_)) = {})'
    BY <1>2, <1>11, <1>12 DEF CoreInv, OnePlace
  <2>3. (Armed \cap Queued = {} /\ Range(waiting_queue_) \cap Range(ready_queue_) = {})'
    BY <1>2, <1>11, <1>12 DEF CoreInv, OnePlace
  <2>4. (IsInjective(op_queue_) /\ IsInjective(waiting_queue_) /\ IsInjective(ready_queue_))'
    BY <1>2, <1>6 DEF CoreInv, OnePlace
  <2>5. QED
    BY <1>4, <1>7, <2>1, <2>2, <2>3, <2>4, MoveKeepsPlaces DEF CoreInv
<1>15. Somewhere' = Somewhere
  BY <1>5, <1>7, <1>10, <1>12, SomewhereMoves
<1>16. Pending' = Pending
  <2> DEFINE fs == UNION {Found(u) : u \in Threads \ {t}}
  <2>1. Pending = Armed \cup (Queued \ {task_operation_}) \cup fs
    BY <1>9 DEF Pending
  <2>2. UNION {Found(u)' : u \in Threads} = expired \cup fs
    BY <1>7, <1>9, OthersStay
  <2>3. Pending' = (Armed \ expired) \cup (Queued \ {task_operation_}) \cup (expired \cup fs)
    BY <1>11, <1>12, <2>2 DEF Pending
  <2>4. QED
    BY <1>5, <2>1, <2>3
<1>17. ThreadsOK'
  <2>1. ThreadOK(t)'
    BY <1>2, <1>6, <1>7, <1>8 DEF ThreadOK, Free, Stranded, Printing
  <2>2. QED
    BY <1>7, <2>1, ThreadsMove DEF CoreInv
<1>18. TypeOK'
  <2>1. Waiters \subseteq Waiters'
    BY <1>6 DEF CoreInv, TypeOK, Waiters
  <2>2. timer' \in [Timers -> {"idle", "set", "expired"}]
    BY <1>2 DEF CoreInv, TypeOK
  <2>3. private_op_queue' \in [Threads -> Seq(Timers)]
    BY <1>5, <1>6 DEF CoreInv, TypeOK
  <2>4. QED
    BY <1>2, <1>6, <2>1, <2>2, <2>3 DEF CoreInv, TypeOK
<1>19. WorkCounted'
  BY <1>2, <1>6, <1>16, SameWork DEF CoreInv
<1>20. StopsWithoutWork'
  BY <1>6, <1>7, StopsMove DEF CoreInv
<1>21. ProgramOK'
  BY <1>2, <1>6, <1>7, <1>15, ProgramMoves DEF CoreInv, ProgramOK
<1>22. CountOK'
  BY <1>2, <1>7, <1>15, CountMoves DEF CoreInv
<1>23. QED
  BY <1>14, <1>17, <1>18, <1>19, <1>20, <1>21, <1>22 DEF CoreInv

\* t lets go of an operation that nobody will need.
LEMMA HandlerStep ==
  ASSUME CoreInv, NEW t \in Threads, OnlyMoves(t), Armed' = Armed,
         UNCHANGED <<op_queue_, outstanding_work_, stopped_, task_, polls, owed, private_op_queue>>,
         UNCHANGED <<locked_, waiting_queue_, ready_queue_, posted, m_count>>,
         Held(t)' \subseteq Held(t), Invoker \notin Held(t) \ Held(t)',
         program = "timers" /\ m_count < Limit => (Held(t) \ Held(t)') \cap Timers = {},
         ThreadOK(t)', TypeOK', pc[t] # "outside",
         pc'[t] # "stop", pc'[t] # "returned", pc'[t] = "count" => m_count < Limit
  PROVE  CoreInv'
<1>1. /\ OnePlace' /\ Pending' = Pending /\ Somewhere' \subseteq Somewhere
      /\ Somewhere \subseteq Somewhere' \cup (Held(t) \ Held(t)')
  BY SamePlaces DEF CoreInv
<1>2. ThreadsOK'
  BY ThreadsMove DEF CoreInv
<1>3. program' = program
  BY DEF OnlyMoves
<1>4. WorkCounted'
  BY <1>1, <1>3, SameWork DEF CoreInv
<1>5. StopsWithoutWork'
  BY StopsMove DEF CoreInv
<1>6. ProgramOK'
  <2>1. Invoker \in Somewhere' <=> Invoker \in Somewhere
    BY <1>1
  <2>2. QED
    BY <1>1, <2>1, ProgramMoves DEF CoreInv, ProgramOK
<1>7. CountOK'
  BY <1>1, CountMoves DEF CoreInv
<1>8. QED
  BY <1>1, <1>2, <1>4, <1>5, <1>6, <1>7 DEF CoreInv

\* A thread that has something in hand other than the reactor found nothing.
LEMMA NothingFound ==
  ASSUME CoreInv, NEW t \in Threads, pc[t] # "cleanup"
  PROVE  private_op_queue[t] = <<>> /\ Found(t) = {}
<1>1. private_op_queue[t] = <<>>
  BY DEF CoreInv, ThreadsOK, ThreadOK
<1>2. QED
  BY <1>1 DEF Found, Range

\* Steps from a handler to "finish".
LEMMA ToFinish ==
  ASSUME CoreInv, NEW t \in Threads, pc[t] = "handler",
         pc' = [pc EXCEPT ![t] = "finish"], program' = program,
         UNCHANGED <<then, blocks, private_op_queue, op, owed, fn>>
  PROVE  /\ OnlyMoves(t) /\ pc'[t] = "finish" /\ At(t)' = "finish" /\ At(t) = "handler"
         /\ Held(t) = {op[t]} /\ Held(t)' = {} /\ ThreadOK(t)'
         /\ op[t] \in Ops /\ owed[t] = cost[op[t]] /\ owed[t] \in {1, 2}
         /\ Waiters' = Waiters /\ Found(t) = {}
<1>1. OnlyMoves(t) /\ pc'[t] = "finish"
  BY DEF OnlyMoves, CoreInv, TypeOK
<1>2. At(t) = "handler" /\ At(t)' = "finish"
  BY <1>1 DEF At
<1>3. Found(t) = {} /\ Found(t)' = {}
  BY NothingFound DEF Found
<1>4. Held(t) = {op[t]} /\ Held(t)' = {}
  BY <1>2, <1>3, HandFacts DEF Held
<1>5. ThreadOK(t)
  BY DEF CoreInv, ThreadsOK
<1>6. op[t] \in Ops /\ owed[t] = cost[op[t]] /\ owed[t] \in {1, 2}
  BY <1>2, <1>5, CostFacts DEF ThreadOK
<1>7. owed[t] \in 1..3
  BY <1>6
<1>8. ThreadOK(t)'
  BY <1>1, <1>2, <1>5, <1>6, <1>7, NothingFound DEF ThreadOK, Free, Stranded, Printing
<1>9. Waiters' = Waiters
  BY DEF Waiters, CoreInv, TypeOK
<1>10. QED
  BY <1>1, <1>2, <1>3, <1>4, <1>6, <1>8, <1>9

LEMMA WriteHandlerStep ==
  ASSUME CoreInv, NEW t \in Threads, WriteHandler(t)
  PROVE  CoreInv'
<1> USE DEF strandVars, printerVars, poolVars, queueVars, taskVars, eventVars
<1>1. /\ pc[t] = "handler" /\ op[t] = Write /\ pc' = [pc EXCEPT ![t] = "finish"]
      /\ UNCHANGED <<op_queue_, outstanding_work_, stopped_, task_, polls, task_interrupted_>>
      /\ UNCHANGED <<interrupted, signalled, woken, then, blocks, private_op_queue, op, owed>>
      /\ UNCHANGED <<locked_, waiting_queue_, ready_queue_, fn, program, timer, m_count, posted, ran>>
  BY DEF WriteHandler, Goto
<1>2. /\ OnlyMoves(t) /\ pc'[t] = "finish" /\ Held(t) = {Write} /\ Held(t)' = {}
      /\ ThreadOK(t)' /\ Waiters' = Waiters
  BY <1>1, ToFinish
<1>3. TypeOK'
  BY <1>1, <1>2 DEF CoreInv, TypeOK
<1>4. Armed' = Armed
  BY <1>1 DEF Armed
<1>5. QED
  BY <1>1, <1>2, <1>3, <1>4, UsersAssumption, HandlerStep

LEMMA RunLambdaStep ==
  ASSUME CoreInv, NEW t \in Threads, RunLambda(t)
  PROVE  CoreInv'
<1> USE DEF strandVars, printerVars, queueVars, taskVars, eventVars
<1>1. /\ pc[t] = "handler" /\ op[t] \in Lambdas /\ pc' = [pc EXCEPT ![t] = "finish"]
      /\ ran' = ran \cup {op[t]}
      /\ UNCHANGED <<op_queue_, outstanding_work_, stopped_, task_, polls, task_interrupted_>>
      /\ UNCHANGED <<interrupted, signalled, woken, then, blocks, private_op_queue, op, owed>>
      /\ UNCHANGED <<locked_, waiting_queue_, ready_queue_, fn, program, timer, m_count, posted>>
  BY DEF RunLambda, Goto
<1>2. /\ OnlyMoves(t) /\ pc'[t] = "finish" /\ Held(t) = {op[t]} /\ Held(t)' = {}
      /\ ThreadOK(t)' /\ Waiters' = Waiters
  BY <1>1, ToFinish
<1>3. op[t] \in posted
  BY <1>1, <1>2 DEF CoreInv, ProgramOK, Somewhere
<1>4. TypeOK'
  BY <1>1, <1>2, <1>3 DEF CoreInv, TypeOK
<1>5. Armed' = Armed
  BY <1>1 DEF Armed
<1>6. op[t] # Invoker /\ op[t] \notin Timers
  BY <1>1, UsersAssumption
<1>7. QED
  BY <1>1, <1>2, <1>4, <1>5, <1>6, HandlerStep

\* A timer is set by the thread that has it in hand.
LEMMA ArmPlaces ==
  ASSUME CoreInv, NEW t \in Threads, OnlyMoves(t), pc[t] # "cleanup",
         NEW x \in Timers, x \in Held(t), Held(t)' = Held(t) \ {x},
         timer' = [timer EXCEPT ![x] = "set"],
         UNCHANGED <<op_queue_, waiting_queue_, ready_queue_, private_op_queue>>
  PROVE  /\ OnePlace' /\ Somewhere' = Somewhere
         /\ x \notin Pending /\ Pending' = Pending \cup {x}
<1>1. Armed' = Armed \cup {x}
  BY DEF Armed, CoreInv, TypeOK
<1>2. Queued' = Queued /\ Shared' = Shared \cup {x} /\ x \notin Shared
  BY <1>1 DEF Shared, Queued, CoreInv, OnePlace
<1>3. Somewhere' = Somewhere
  BY <1>2, SomewhereMoves
<1>4. OnePlace'
  <2>1. /\ Held(t)' \cup Shared' \subseteq Held(t) \cup Shared \cup {}
        /\ Held(t)' \cap Shared' = {}
    BY <1>2 DEF CoreInv, OnePlace
  <2>2. ((Armed \cup Queued) \cap (Range(waiting_queue_) \cup Range(ready_queue_)) = {})'
    BY <1>1, <1>2 DEF CoreInv, OnePlace, Shared
  <2>3. (Armed \cap Queued = {} /\ Range(waiting_queue_) \cap Range(ready_queue_) = {})'
    BY <1>1, <1>2 DEF CoreInv, OnePlace, Shared
  <2>4. /\ (IsInjective(op_queue_) /\ IsInjective(waiting_queue_) /\ IsInjective(ready_queue_))'
        /\ IsInjective(private_op_queue[t])'
    BY DEF CoreInv, OnePlace
  <2>5. QED
    BY <2>1, <2>2, <2>3, <2>4, MoveKeepsPlaces DEF CoreInv
<1>5. x \notin Pending
  <2>1. \A u \in Threads : x \notin Found(u)
    BY NothingFound DEF CoreInv, OnePlace, Held
  <2>2. QED
    BY <1>2, <2>1 DEF Pending, Shared
<1>6. Pending' = Pending \cup {x}
  <2>1. UNION {Found(u)' : u \in Threads} = UNION {Found(u) : u \in Threads}
    BY DEF Found
  <2>2. QED
    BY <1>1, <1>2, <2>1 DEF Pending
<1>7. QED
  BY <1>3, <1>4, <1>5, <1>6

LEMMA SocketHandlerStep ==
  ASSUME CoreInv, NEW t \in Threads, NEW again \in BOOLEAN, SocketHandler(t, again)
  PROVE  CoreInv'
<1> USE DEF strandVars, poolVars, taskVars, eventVars
<1>1. /\ program = "poll" /\ pc[t] = "handler" /\ op[t] \in Timers
      /\ pc' = [pc EXCEPT ![t] = "finish"]
      /\ timer' = (IF again THEN [timer EXCEPT ![op[t]] = "set"] ELSE timer)
      /\ outstanding_work_' = outstanding_work_ + IF again THEN 1 ELSE 0
      /\ UNCHANGED <<op_queue_, stopped_, task_, polls, task_interrupted_>>
      /\ UNCHANGED <<interrupted, signalled, woken, then, blocks, private_op_queue, op, owed>>
      /\ UNCHANGED <<locked_, waiting_queue_, ready_queue_, fn, program, m_count, posted, ran>>
  BY DEF SocketHandler, Goto
<1>2. /\ OnlyMoves(t) /\ pc'[t] = "finish" /\ Held(t) = {op[t]} /\ Held(t)' = {}
      /\ ThreadOK(t)' /\ Waiters' = Waiters /\ op[t] \in Ops /\ owed[t] \in {1, 2}
  BY <1>1, ToFinish
<1>3. outstanding_work_ \in Nat /\ outstanding_work_ > 0
  BY <1>2, WorkIsSeen DEF CoreInv, TypeOK
<1>4. TypeOK'
  <2>1. timer' \in [Timers -> {"idle", "set", "expired"}]
    BY <1>1 DEF CoreInv, TypeOK
  <2>2. outstanding_work_' \in Nat
    BY <1>1, <1>3
  <2>3. QED
    BY <1>1, <1>2, <2>1, <2>2 DEF CoreInv, TypeOK
<1>5. CASE ~again
  <2>1. Armed' = Armed /\ outstanding_work_' = outstanding_work_
    BY <1>1, <1>3, <1>5 DEF Armed
  <2>2. op[t] # Invoker
    BY <1>1, UsersAssumption
  <2>3. QED
    BY <1>1, <1>2, <1>4, <2>1, <2>2, HandlerStep
<1>6. CASE again
  <2>1. timer' = [timer EXCEPT ![op[t]] = "set"] /\ outstanding_work_' = outstanding_work_ + 1
    BY <1>1, <1>6
  <2>2. /\ OnePlace' /\ Somewhere' = Somewhere
        /\ op[t] \notin Pending /\ Pending' = Pending \cup {op[t]}
    BY <1>1, <1>2, <2>1, ArmPlaces
  <2>3. ThreadsOK'
    BY <1>2, ThreadsMove DEF CoreInv
  <2>4. WorkCounted'
    <3>1. cost[op[t]] = 1
      BY <1>1, <1>2 DEF cost
    <3>2. IsFiniteSet(Pending') /\ WorkUntaken' = WorkUntaken + 1
      BY <1>1, <1>2, <2>2, <3>1, PendingGrows DEF CoreInv
    <3>3. (\A n \in 1..3 : IsFiniteSet(Owing(n)')) /\ WorkOwed' = WorkOwed
      BY <1>1, SameOwed DEF CoreInv
    <3>4. WorkUntaken \in Nat /\ WorkOwed \in Nat
      BY WorkIsNat DEF CoreInv
    <3>5. QED
      BY <1>1, <2>1, <3>2, <3>3, <3>4 DEF CoreInv, WorkCounted
  <2>5. StopsWithoutWork'
    BY <1>1, <1>2, <1>3, StopsMove DEF CoreInv
  <2>6. ProgramOK'
    BY <1>1, <1>2, <2>2, ProgramMoves DEF CoreInv, ProgramOK
  <2>7. CountOK'
    BY <1>1, <1>2, <2>2, CountMoves DEF CoreInv
  <2>8. QED
    BY <1>4, <2>2, <2>3, <2>4, <2>5, <2>6, <2>7 DEF CoreInv
<1>7. QED
  BY <1>5, <1>6
-----------------------------------------------------------------------------
(***************************************************************************)
(* The strand.                                                             *)
(***************************************************************************)
LEMMA StrandFacts ==
  ASSUME CoreInv, NEW t \in Threads, pc[t] \in Stranded
  PROVE  /\ At(t) = pc[t] /\ program = "timers" /\ locked_
         /\ (op[t] \in Timers /\ owed[t] = 3) \/ (op[t] = Invoker /\ owed[t] = 2)
         /\ op[t] \in Ops /\ owed[t] \in 2..3
         /\ private_op_queue[t] = <<>> /\ Found(t) = {}
         /\ Held(t) = Hand(pc[t], op[t], fn[t]) /\ Invoker \in Held(t)
         /\ pc[t] \in Printing => fn[t] \in Timers /\ Held(t) = {Invoker, fn[t]}
         /\ pc[t] \notin Printing => Held(t) = {Invoker}
         /\ t \notin Posters
         /\ Invoker \notin Shared /\ \A u \in Threads \ {t} : Invoker \notin Held(u)
         /\ outstanding_work_ > 1
<1>1. pc[t] # "signal" /\ pc[t] # "cleanup" /\ pc[t] # "outside"
  BY DEF Stranded
<1>2. At(t) = pc[t] /\ ThreadOK(t)
  BY <1>1 DEF At, CoreInv, ThreadsOK
<1>3. /\ program = "timers"
      /\ (op[t] \in Timers /\ owed[t] = 3) \/ (op[t] = Invoker /\ owed[t] = 2)
      /\ pc[t] \in Printing => fn[t] \in Timers
      /\ t \notin Posters
  BY <1>1, <1>2 DEF ThreadOK
<1>4. op[t] \in Ops /\ owed[t] \in 2..3
  BY <1>3 DEF Ops
<1>5. private_op_queue[t] = <<>> /\ Found(t) = {}
  BY <1>1, NothingFound
<1>6. Held(t) = Hand(pc[t], op[t], fn[t])
  BY <1>2, <1>5 DEF Held
<1>7. /\ pc[t] \in Printing => Held(t) = {Invoker, fn[t]}
      /\ pc[t] \notin Printing => Held(t) = {Invoker}
  BY <1>6 DEF Hand, Stranded, Printing, Reacting
<1>8. Invoker \in Held(t) /\ Invoker \in Somewhere
  BY <1>7 DEF Somewhere
<1>9. locked_
  BY <1>8 DEF CoreInv, ProgramOK
<1>10. Invoker \notin Shared /\ \A u \in Threads \ {t} : Invoker \notin Held(u)
  BY <1>8 DEF CoreInv, OnePlace
<1>11. outstanding_work_ > 1
  <2>1. owed[t] > 1
    BY <1>4
  <2>2. QED
    BY <2>1, WorkIsSeen DEF CoreInv
<1>12. QED
  BY <1>2, <1>3, <1>4, <1>5, <1>6, <1>7, <1>8, <1>9, <1>10, <1>11

\* t moves functions between its hand and the strand's queues, and may take
\* the strand.
Mine(t) == Held(t) \cup Range(waiting_queue_) \cup Range(ready_queue_)

LEMMA StrandPlaces ==
  ASSUME CoreInv, NEW t \in Threads, OnlyMoves(t), Armed' = Armed,
         UNCHANGED <<op_queue_, private_op_queue>>,
         Mine(t)' \subseteq Mine(t) \cup {Invoker},
         Invoker \in Mine(t)' => Invoker \in Mine(t) \/ Invoker \notin Somewhere,
         Held(t)' \cap (Range(waiting_queue_') \cup Range(ready_queue_')) = {},
         Range(waiting_queue_') \cap Range(ready_queue_') = {},
         IsInjective(waiting_queue_'), IsInjective(ready_queue_')
  PROVE  /\ OnePlace' /\ Pending' = Pending
         /\ Mine(t) \subseteq Somewhere
         /\ Somewhere' = (Somewhere \ Mine(t)) \cup Mine(t)'
<1> DEFINE rest == Armed \cup Queued
           new == {Invoker} \ Somewhere
<1>1. Queued' = Queued /\ \A u \in Threads : Found(u)' = Found(u)
  BY DEF Queued, Found
<1>2. Pending' = Pending
  <2>1. UNION {Found(u)' : u \in Threads} = UNION {Found(u) : u \in Threads}
    BY <1>1
  <2>2. QED
    BY <1>1, <2>1 DEF Pending
<1>3. /\ Shared = rest \cup Range(waiting_queue_) \cup Range(ready_queue_)
      /\ Shared' = rest \cup Range(waiting_queue_') \cup Range(ready_queue_')
  BY <1>1 DEF Shared
<1>4. rest \cap Mine(t) = {}
  BY <1>3 DEF CoreInv, OnePlace, Mine
<1>5. rest \subseteq Somewhere /\ Mine(t) \subseteq Somewhere
  BY <1>3 DEF Somewhere, Mine
<1>6. rest \cap Mine(t)' = {} /\ Mine(t)' \subseteq Mine(t) \cup new
  BY <1>4, <1>5
<1>7. HeldByOthers(t) \cap Mine(t) = {}
  BY DEF CoreInv, OnePlace, HeldByOthers, Shared, Mine
<1>8. /\ Somewhere = rest \cup Mine(t) \cup HeldByOthers(t)
      /\ Somewhere' = rest \cup Mine(t)' \cup HeldByOthers(t)
  BY <1>3, SomewhereMoves DEF Mine
<1>9. Somewhere' = (Somewhere \ Mine(t)) \cup Mine(t)'
  BY <1>4, <1>7, <1>8
<1>10. OnePlace'
  <2>1. /\ Held(t)' \cup Shared' \subseteq Held(t) \cup Shared \cup new
        /\ Held(t)' \cap Shared' = {} /\ new \cap Somewhere = {}
    BY <1>3, <1>6 DEF Mine
  <2>2. ((Armed \cup Queued) \cap (Range(waiting_queue_) \cup Range(ready_queue_)) = {})'
    BY <1>1, <1>6 DEF Mine
  <2>3. (Armed \cap Queued = {} /\ Range(waiting_queue_) \cap Range(ready_queue_) = {})'
    BY <1>1 DEF CoreInv, OnePlace
  <2>4. (IsInjective(op_queue_) /\ IsInjective(waiting_queue_) /\ IsInjective(ready_queue_))'
    BY DEF CoreInv, OnePlace
  <2>5. IsInjective(private_op_queue[t])'
    BY DEF CoreInv, OnePlace
  <2> HIDE DEF new
  <2>6. QED
    BY <2>1, <2>2, <2>3, <2>4, <2>5, MoveKeepsPlaces DEF CoreInv
<1>11. QED
  BY <1>2, <1>5, <1>9, <1>10

\* Such a step, when no work begins or ends with it.
LEMMA StrandMoves ==
  ASSUME CoreInv, NEW t \in Threads, OnlyMoves(t),
         OnePlace', Pending' = Pending, ThreadOK(t)', TypeOK',
         UNCHANGED <<outstanding_work_, stopped_, task_, polls, owed, posted, m_count>>,
         program = "timers", pc[t] # "outside",
         pc'[t] # "stop", pc'[t] # "returned", pc'[t] # "count",
         Somewhere' = Somewhere \/ Somewhere' = Somewhere \ {Invoker},
         locked_' <=> Invoker \in Somewhere',
         ~locked_' => waiting_queue_' = <<>> /\ ready_queue_' = <<>>
  PROVE  CoreInv'
<1>1. ThreadsOK'
  BY ThreadsMove DEF CoreInv
<1>2. program' = program
  BY DEF OnlyMoves
<1>3. WorkCounted'
  BY <1>2, SameWork DEF CoreInv
<1>4. StopsWithoutWork'
  BY StopsMove DEF CoreInv
<1>5. ProgramOK'
  BY ProgramMoves DEF CoreInv, ProgramOK
<1>6. CountOK'
  <2>1. Somewhere \cap Timers \subseteq Somewhere'
    BY UsersAssumption
  <2>2. QED
    BY <2>1, CountMoves DEF CoreInv
<1>7. QED
  BY <1>1, <1>3, <1>4, <1>5, <1>6 DEF CoreInv

LEMMA RunReadyStep ==
  ASSUME CoreInv, NEW t \in Threads, RunReady(t, "check"), UNCHANGED <<program, printerVars, poolVars>>
  PROVE  CoreInv'
<1> USE DEF printerVars, poolVars, queueVars, taskVars, eventVars
<1> DEFINE x == Head(ready_queue_)
<1>1. /\ pc[t] = "invoke" /\ ready_queue_ # <<>> /\ fn' = [fn EXCEPT ![t] = x]
      /\ ready_queue_' = Tail(ready_queue_) /\ pc' = [pc EXCEPT ![t] = "check"]
      /\ UNCHANGED <<locked_, waiting_queue_, op_queue_, outstanding_work_, stopped_>>
      /\ UNCHANGED <<task_, polls, task_interrupted_, interrupted, signalled, woken>>
      /\ UNCHANGED <<then, blocks, private_op_queue, op, owed>>
      /\ UNCHANGED <<program, timer, m_count, posted, ran>>
  BY DEF RunReady, Goto
<1>2. ready_queue_ \in Seq(Timers) /\ IsInjective(ready_queue_)
  BY DEF CoreInv, TypeOK, OnePlace
<1>3. /\ x \in Range(ready_queue_) /\ ready_queue_' \in Seq(Timers)
      /\ Range(ready_queue_') = Range(ready_queue_) \ {x} /\ IsInjective(ready_queue_')
      /\ x \in Timers
  BY <1>1, <1>2, TailOnce, EmptyRange
<1> HIDE DEF x
<1>4. /\ At(t) = "invoke" /\ program = "timers" /\ locked_
      /\ (op[t] \in Timers /\ owed[t] = 3) \/ (op[t] = Invoker /\ owed[t] = 2)
      /\ private_op_queue[t] = <<>> /\ Found(t) = {}
      /\ Held(t) = {Invoker} /\ t \notin Posters /\ Invoker \notin Shared
  BY <1>1, StrandFacts DEF Stranded, Printing
<1>5. OnlyMoves(t) /\ pc'[t] = "check" /\ fn'[t] = x
  BY <1>1 DEF OnlyMoves, CoreInv, TypeOK
<1>6. At(t)' = "check"
  BY <1>5 DEF At
<1>7. Held(t)' = {Invoker, x}
  <2>1. Found(t)' = {}
    BY <1>1, <1>4 DEF Found
  <2>2. QED
    BY <1>5, <1>6, <2>1 DEF Held, Hand, Reacting, Printing
<1>8. Armed' = Armed
  BY <1>1 DEF Armed
<1>9. /\ Mine(t)' = Mine(t)
      /\ Held(t)' \cap (Range(waiting_queue_') \cup Range(ready_queue_')) = {}
      /\ Range(waiting_queue_') \cap Range(ready_queue_') = {}
      /\ IsInjective(waiting_queue_')
  <2>1. waiting_queue_' = waiting_queue_
    BY <1>1
  <2>2. Range(waiting_queue_) \cap Range(ready_queue_) = {} /\ IsInjective(waiting_queue_)
    BY DEF CoreInv, OnePlace
  <2>3. Invoker \notin Range(waiting_queue_) \cup Range(ready_queue_)
    BY <1>4 DEF Shared
  <2>4. QED
    BY <1>3, <1>4, <1>7, <2>1, <2>2, <2>3 DEF Mine
<1>10. /\ OnePlace' /\ Pending' = Pending /\ Mine(t) \subseteq Somewhere
       /\ Somewhere' = (Somewhere \ Mine(t)) \cup Mine(t)'
  BY <1>1, <1>3, <1>5, <1>8, <1>9, StrandPlaces
<1>11. Somewhere' = Somewhere
  BY <1>9, <1>10
<1>12. ThreadOK(t)'
  BY <1>1, <1>3, <1>4, <1>5, <1>6 DEF ThreadOK, Free, Stranded, Printing
<1>13. TypeOK'
  <2>1. Waiters \subseteq Waiters'
    BY <1>1 DEF CoreInv, TypeOK, Waiters
  <2>2. fn' \in [Threads -> Timers \cup {NoOp}]
    BY <1>1, <1>3 DEF CoreInv, TypeOK
  <2>3. QED
    BY <1>1, <1>3, <2>1, <2>2 DEF CoreInv, TypeOK
<1>14. locked_' <=> Invoker \in Somewhere'
  BY <1>1, <1>11 DEF CoreInv, ProgramOK
<1>15. QED
  BY <1>1, <1>4, <1>5, <1>10, <1>11, <1>12, <1>13, <1>14, StrandMoves

LEMMA InvokerExitStep ==
  ASSUME CoreInv, NEW t \in Threads, InvokerExit(t), UNCHANGED <<program, printerVars, poolVars>>
  PROVE  CoreInv'
<1> USE DEF printerVars, poolVars, queueVars, taskVars, eventVars
<1> DEFINE kept == waiting_queue_ # <<>>
           place == IF kept THEN "repost" ELSE "finish"
<1>1. /\ pc[t] = "invoke" /\ ready_queue_ = <<>> /\ pc' = [pc EXCEPT ![t] = place]
      /\ ready_queue_' = waiting_queue_ /\ waiting_queue_' = <<>> /\ locked_' = kept
      /\ UNCHANGED <<fn, op_queue_, outstanding_work_, stopped_>>
      /\ UNCHANGED <<task_, polls, task_interrupted_, interrupted, signalled, woken>>
      /\ UNCHANGED <<then, blocks, private_op_queue, op, owed>>
      /\ UNCHANGED <<program, timer, m_count, posted, ran>>
  BY DEF InvokerExit, Goto
<1>2. /\ At(t) = "invoke" /\ program = "timers" /\ locked_
      /\ (op[t] \in Timers /\ owed[t] = 3) \/ (op[t] = Invoker /\ owed[t] = 2)
      /\ private_op_queue[t] = <<>> /\ Found(t) = {} /\ op[t] \in Ops /\ owed[t] \in 2..3
      /\ Held(t) = {Invoker} /\ t \notin Posters /\ Invoker \notin Shared
  BY <1>1, StrandFacts DEF Stranded, Printing
<1>3. OnlyMoves(t) /\ pc'[t] = place
  BY <1>1 DEF OnlyMoves, CoreInv, TypeOK
<1>4. At(t)' = place
  BY <1>3 DEF At
<1>5. Held(t)' = IF kept THEN {Invoker} ELSE {}
  <2>1. Found(t)' = {}
    BY <1>1, <1>2 DEF Found
  <2>2. QED
    BY <1>4, <2>1 DEF Held, Hand, Reacting, Printing, Stranded
<1>6. Armed' = Armed
  BY <1>1 DEF Armed
<1>7. /\ Range(<<>>) = {} /\ IsInjective(<<>>)
      /\ IsInjective(waiting_queue_) /\ waiting_queue_ \in Seq(Timers)
      /\ Invoker \notin Range(waiting_queue_) /\ Range(waiting_queue_) \subseteq Somewhere
      /\ kept <=> Range(waiting_queue_) # {}
  <2>1. IsInjective(waiting_queue_) /\ waiting_queue_ \in Seq(Timers)
    BY DEF CoreInv, OnePlace, TypeOK
  <2>2. QED
    BY <1>2, <2>1, EmptyRange DEF Shared, Somewhere
<1>8. /\ Mine(t) = {Invoker} \cup Range(waiting_queue_)
      /\ Mine(t)' = Held(t)' \cup Range(waiting_queue_)
  BY <1>1, <1>2, <1>7 DEF Mine
<1>9. /\ OnePlace' /\ Pending' = Pending
      /\ Somewhere' = (Somewhere \ Mine(t)) \cup Mine(t)'
  <2>1. Mine(t)' \subseteq Mine(t) \cup {Invoker} /\ Invoker \in Mine(t)
    BY <1>5, <1>8
  <2>2. /\ UNCHANGED <<op_queue_, private_op_queue>>
        /\ IsInjective(ready_queue_') /\ IsInjective(waiting_queue_')
    BY <1>1, <1>7
  <2>3. /\ Held(t)' \cap (Range(waiting_queue_') \cup Range(ready_queue_')) = {}
        /\ Range(waiting_queue_') \cap Range(ready_queue_') = {}
    BY <1>1, <1>5, <1>7
  <2>4. OnlyMoves(t)
    BY <1>3
  <2>5. QED
    BY <1>6, <2>1, <2>2, <2>3, <2>4, StrandPlaces
<1>10. Invoker \in Somewhere
  BY <1>2 DEF CoreInv, ProgramOK
<1>11. /\ Somewhere' = Somewhere \/ Somewhere' = Somewhere \ {Invoker}
       /\ locked_' <=> Invoker \in Somewhere'
  <2>1. CASE kept
    BY <1>1, <1>5, <1>7, <1>8, <1>9, <1>10, <2>1
  <2>2. CASE ~kept
    BY <1>1, <1>5, <1>7, <1>8, <1>9, <1>10, <2>2
  <2>3. QED
    BY <2>1, <2>2
<1>12. ThreadOK(t)'
  <2>1. owed[t] \in 1..3
    BY <1>2
  <2>2. QED
    BY <1>1, <1>2, <1>3, <1>4, <2>1 DEF ThreadOK, Free, Stranded, Printing
<1>13. TypeOK'
  <2>1. Waiters \subseteq Waiters'
    BY <1>1 DEF CoreInv, TypeOK, Waiters
  <2>2. QED
    BY <1>1, <1>7, <2>1 DEF CoreInv, TypeOK
<1>14. ~locked_' => waiting_queue_' = <<>> /\ ready_queue_' = <<>>
  BY <1>1
<1>15. pc[t] # "outside" /\ pc'[t] # "stop" /\ pc'[t] # "returned" /\ pc'[t] # "count"
  BY <1>1, <1>3
<1>16. QED
  BY <1>1, <1>2, <1>3, <1>9, <1>11, <1>12, <1>13, <1>14, <1>15, StrandMoves

\* printA and printB, in whatever thread.
LEMMA CheckStep ==
  ASSUME CoreInv, NEW t \in Threads, Check(t)
  PROVE  CoreInv'
<1> USE DEF strandVars, printerVars, poolVars, queueVars, taskVars, eventVars
<1> DEFINE place == IF m_count < Limit THEN "count" ELSE "invoke"
<1>1. /\ pc[t] = "check" /\ pc' = [pc EXCEPT ![t] = place]
      /\ UNCHANGED <<op_queue_, outstanding_work_, stopped_, task_, polls, task_interrupted_>>
      /\ UNCHANGED <<interrupted, signalled, woken, then, blocks, private_op_queue, op, owed>>
      /\ UNCHANGED <<locked_, waiting_queue_, ready_queue_, fn, program, timer, m_count, posted, ran>>
  BY DEF Check, Goto
<1>2. /\ At(t) = "check" /\ program = "timers"
      /\ (op[t] \in Timers /\ owed[t] = 3) \/ (op[t] = Invoker /\ owed[t] = 2)
      /\ private_op_queue[t] = <<>> /\ Found(t) = {}
      /\ Held(t) = {Invoker, fn[t]} /\ fn[t] \in Timers /\ t \notin Posters
  BY <1>1, StrandFacts DEF Stranded, Printing
<1>3. OnlyMoves(t) /\ pc'[t] = place
  BY <1>1 DEF OnlyMoves, CoreInv, TypeOK
<1>4. At(t)' = place
  BY <1>3 DEF At
<1>5. Held(t)' = IF m_count < Limit THEN {Invoker, fn[t]} ELSE {Invoker}
  <2>1. Found(t)' = {}
    BY <1>1, <1>2 DEF Found
  <2>2. QED
    BY <1>1, <1>4, <2>1 DEF Held, Hand, Reacting, Printing, Stranded
<1>6. Armed' = Armed
  BY <1>1 DEF Armed
<1>7. ThreadOK(t)'
  BY <1>1, <1>2, <1>3, <1>4 DEF ThreadOK, Free, Stranded, Printing
<1>8. TypeOK'
  <2>1. Waiters \subseteq Waiters'
    BY <1>1 DEF CoreInv, TypeOK, Waiters
  <2>2. QED
    BY <1>1, <2>1 DEF CoreInv, TypeOK
<1>9. /\ Held(t)' \subseteq Held(t) /\ Invoker \notin Held(t) \ Held(t)'
      /\ program = "timers" /\ m_count < Limit => (Held(t) \ Held(t)') \cap Timers = {}
  BY <1>2, <1>5
<1>10. /\ pc[t] # "outside" /\ pc'[t] # "stop" /\ pc'[t] # "returned"
       /\ pc'[t] = "count" => m_count < Limit
  BY <1>1, <1>3
<1>11. QED
  BY <1>1, <1>3, <1>6, <1>7, <1>8, <1>9, <1>10, HandlerStep

\* Nobody else counts: the strand is t's.
LEMMA CountStep ==
  ASSUME CoreInv, NEW t \in Threads, Count(t)
  PROVE  CoreInv'
<1> USE DEF strandVars, poolVars, queueVars, taskVars, eventVars
<1>1. /\ pc[t] = "count" /\ pc' = [pc EXCEPT ![t] = "rearm"] /\ m_count' = m_count + 1
      /\ UNCHANGED <<op_queue_, outstanding_work_, stopped_, task_, polls, task_interrupted_>>
      /\ UNCHANGED <<interrupted, signalled, woken, then, blocks, private_op_queue, op, owed>>
      /\ UNCHANGED <<locked_, waiting_queue_, ready_queue_, fn, program, timer, posted, ran>>
  BY DEF Count, Goto
<1>2. /\ At(t) = "count" /\ program = "timers"
      /\ (op[t] \in Timers /\ owed[t] = 3) \/ (op[t] = Invoker /\ owed[t] = 2)
      /\ private_op_queue[t] = <<>> /\ Found(t) = {}
      /\ Held(t) = {Invoker, fn[t]} /\ fn[t] \in Timers /\ t \notin Posters
      /\ \A u \in Threads \ {t} : Invoker \notin Held(u)
  BY <1>1, StrandFacts DEF Stranded, Printing
<1>3. OnlyMoves(t) /\ pc'[t] = "rearm"
  BY <1>1 DEF OnlyMoves, CoreInv, TypeOK
<1>4. At(t)' = "rearm"
  BY <1>3 DEF At
<1>5. Held(t)' = Held(t)
  <2>1. Found(t)' = {}
    BY <1>1, <1>2 DEF Found
  <2>2. QED
    BY <1>1, <1>2, <1>4, <2>1 DEF Held, Hand, Reacting, Printing, Stranded
<1>6. Armed' = Armed
  BY <1>1 DEF Armed
<1>7. OnePlace' /\ Pending' = Pending /\ Somewhere' = Somewhere
  BY <1>1, <1>3, <1>5, <1>6, SamePlaces DEF CoreInv
<1>8. ThreadsOK'
  <2>1. ThreadOK(t)'
    BY <1>1, <1>2, <1>3, <1>4 DEF ThreadOK, Free, Stranded, Printing
  <2>2. QED
    BY <1>3, <2>1, ThreadsMove DEF CoreInv
<1>9. m_count \in Nat /\ Limit \in Nat /\ m_count < Limit
  BY <1>1, UsersAssumption DEF CoreInv, TypeOK, CountOK
<1>10. TypeOK'
  <2>1. Waiters \subseteq Waiters'
    BY <1>1 DEF CoreInv, TypeOK, Waiters
  <2>2. m_count' \in Nat
    BY <1>1, <1>9
  <2>3. QED
    BY <1>1, <2>1, <2>2 DEF CoreInv, TypeOK
<1>11. WorkCounted'
  BY <1>1, <1>7, SameWork DEF CoreInv
<1>12. StopsWithoutWork'
  BY <1>1, <1>3, StopsMove DEF CoreInv
<1>13. ProgramOK'
  BY <1>1, <1>3, <1>7, ProgramMoves DEF CoreInv, ProgramOK
<1>14. CountOK'
  <2>1. ASSUME NEW u \in Threads, pc'[u] = "count" PROVE FALSE
    <3>1. u # t /\ pc[u] = "count"
      BY <1>3, <2>1 DEF OnlyMoves
    <3>2. Invoker \in Held(u)
      BY <3>1, StrandFacts DEF Stranded
    <3>3. QED
      BY <1>2, <3>1, <3>2
  <2>2. m_count' <= Limit /\ (m_count' < Limit => m_count < Limit)
    BY <1>1, <1>9
  <2>3. QED
    BY <1>1, <1>7, <2>1, <2>2 DEF CoreInv, CountOK
<1>15. QED
  BY <1>7, <1>8, <1>10, <1>11, <1>12, <1>13, <1>14 DEF CoreInv

LEMMA RearmStep ==
  ASSUME CoreInv, NEW t \in Threads, Rearm(t)
  PROVE  CoreInv'
<1> USE DEF strandVars, poolVars, taskVars, eventVars
<1> DEFINE x == fn[t]
<1>1. /\ pc[t] = "rearm" /\ pc' = [pc EXCEPT ![t] = "invoke"]
      /\ timer' = [timer EXCEPT ![x] = "set"]
      /\ outstanding_work_' = outstanding_work_ + cost[x]
      /\ UNCHANGED <<op_queue_, stopped_, task_, polls, task_interrupted_>>
      /\ UNCHANGED <<interrupted, signalled, woken, then, blocks, private_op_queue, op, owed>>
      /\ UNCHANGED <<locked_, waiting_queue_, ready_queue_, fn, program, m_count, posted, ran>>
  BY DEF Rearm, Goto
<1>2. /\ At(t) = "rearm" /\ program = "timers"
      /\ (op[t] \in Timers /\ owed[t] = 3) \/ (op[t] = Invoker /\ owed[t] = 2)
      /\ private_op_queue[t] = <<>> /\ Found(t) = {}
      /\ Held(t) = {Invoker, x} /\ x \in Timers /\ t \notin Posters
      /\ outstanding_work_ > 1
  BY <1>1, StrandFacts DEF Stranded, Printing
<1>3. OnlyMoves(t) /\ pc'[t] = "invoke"
  BY <1>1 DEF OnlyMoves, CoreInv, TypeOK
<1>4. At(t)' = "invoke"
  BY <1>3 DEF At
<1>5. Held(t)' = Held(t) \ {x}
  <2>1. Found(t)' = {}
    BY <1>1, <1>2 DEF Found
  <2>2. Held(t)' = {Invoker}
    BY <1>4, <2>1 DEF Held, Hand, Reacting, Printing, Stranded
  <2>3. QED
    BY <1>2, <2>2, UsersAssumption
<1> HIDE DEF x
<1>6. OnePlace' /\ Somewhere' = Somewhere /\ x \notin Pending /\ Pending' = Pending \cup {x}
  BY <1>1, <1>2, <1>3, <1>5, ArmPlaces
<1>7. ThreadsOK'
  <2>1. ThreadOK(t)'
    BY <1>1, <1>2, <1>3, <1>4 DEF ThreadOK, Free, Stranded, Printing
  <2>2. QED
    BY <1>3, <2>1, ThreadsMove DEF CoreInv
<1>8. x \in Ops /\ cost[x] \in {1, 2} /\ outstanding_work_ \in Nat
  BY <1>2, CostFacts DEF Ops, CoreInv, TypeOK
<1>9. TypeOK'
  <2>1. Waiters \subseteq Waiters'
    BY <1>1 DEF CoreInv, TypeOK, Waiters
  <2>2. outstanding_work_' \in Nat
    BY <1>1, <1>8
  <2>3. timer' \in [Timers -> {"idle", "set", "expired"}]
    BY <1>1 DEF CoreInv, TypeOK
  <2>4. QED
    BY <1>1, <2>1, <2>2, <2>3 DEF CoreInv, TypeOK
<1>10. WorkCounted'
  <2>1. IsFiniteSet(Pending') /\ WorkUntaken' = WorkUntaken + cost[x]
    BY <1>1, <1>6, <1>8, PendingGrows DEF CoreInv
  <2>2. (\A n \in 1..3 : IsFiniteSet(Owing(n)')) /\ WorkOwed' = WorkOwed
    BY <1>1, SameOwed DEF CoreInv
  <2>3. WorkUntaken \in Nat /\ WorkOwed \in Nat
    BY WorkIsNat DEF CoreInv
  <2>4. QED
    BY <1>1, <1>8, <2>1, <2>2, <2>3 DEF CoreInv, WorkCounted
<1>11. StopsWithoutWork'
  BY <1>1, <1>2, <1>3, <1>8, StopsMove DEF CoreInv
<1>12. ProgramOK'
  BY <1>1, <1>3, <1>6, ProgramMoves DEF CoreInv, ProgramOK
<1>13. CountOK'
  BY <1>1, <1>3, <1>6, CountMoves DEF CoreInv
<1>14. QED
  BY <1>6, <1>7, <1>9, <1>10, <1>11, <1>12, <1>13 DEF CoreInv

\* A timer's handler finds the strand locked, or takes it.
LEMMA TimerHandlerStep ==
  ASSUME CoreInv, NEW t \in Threads, TimerHandler(t)
  PROVE  CoreInv'
<1> USE DEF printerVars, poolVars, taskVars, eventVars
<1> DEFINE x == op[t]
<1>1. /\ pc[t] = "handler" /\ program = "timers" /\ x \in Timers
      /\ UNCHANGED <<fn, op_queue_, stopped_, task_, polls, task_interrupted_, interrupted>>
      /\ UNCHANGED <<signalled, woken, then, blocks, private_op_queue, op>>
      /\ UNCHANGED <<program, timer, m_count, posted, ran>>
  BY DEF TimerHandler, dispatch
<1>2. At(t) = "handler" /\ ThreadOK(t)
  BY <1>1 DEF At, CoreInv, ThreadsOK
<1>3. Found(t) = {} /\ private_op_queue[t] = <<>> /\ Found(t)' = {}
  BY <1>1, NothingFound DEF Found
<1>4. Held(t) = {x} /\ x \notin Shared
  BY <1>2, <1>3, HandFacts DEF Held, CoreInv, OnePlace
<1>5. x \in Ops /\ cost[x] = 2 /\ cost' = cost /\ owed[t] = 2 /\ t \notin Posters /\ x # Invoker
  BY <1>1, <1>2, UsersAssumption, CostFacts DEF ThreadOK, Ops, cost
<1>6. Armed' = Armed
  BY <1>1 DEF Armed
<1>7. /\ waiting_queue_ \in Seq(Timers) /\ ready_queue_ \in Seq(Timers)
      /\ IsInjective(waiting_queue_) /\ IsInjective(ready_queue_)
      /\ x \notin Range(waiting_queue_) /\ x \notin Range(ready_queue_)
      /\ Range(waiting_queue_) \cap Range(ready_queue_) = {}
      /\ Mine(t) = {x} \cup Range(waiting_queue_) \cup Range(ready_queue_)
  BY <1>4 DEF CoreInv, OnePlace, TypeOK, Shared, Mine
<1>8. Range(<<>>) = {} /\ IsInjective(<<>>)
  BY EmptyRange, <1>7
<1> HIDE DEF x
<1>9. CASE locked_
  <2>1. /\ waiting_queue_' = Append(waiting_queue_, x) /\ pc' = [pc EXCEPT ![t] = "finish"]
        /\ UNCHANGED <<locked_, ready_queue_, outstanding_work_, owed>>
    BY <1>9 DEF TimerHandler, dispatch, Goto, x
  <2>2. OnlyMoves(t) /\ pc'[t] = "finish" /\ Held(t)' = {} /\ ThreadOK(t)' /\ Waiters' = Waiters
    BY <1>1, <2>1, ToFinish
  <2>3. /\ Range(waiting_queue_') = Range(waiting_queue_) \cup {x}
        /\ IsInjective(waiting_queue_') /\ waiting_queue_' \in Seq(Timers)
    BY <1>1, <1>7, <2>1, AppendOnce
  <2>4. Mine(t)' = Mine(t)
    BY <1>7, <2>1, <2>2, <2>3 DEF Mine
  <2>5. Range(waiting_queue_') \cap Range(ready_queue_') = {} /\ IsInjective(ready_queue_')
    BY <1>7, <2>1, <2>3
  <2>6. /\ OnePlace' /\ Pending' = Pending /\ Mine(t) \subseteq Somewhere
        /\ Somewhere' = (Somewhere \ Mine(t)) \cup Mine(t)'
    BY <1>1, <1>6, <2>2, <2>3, <2>4, <2>5, StrandPlaces
  <2>7. Somewhere' = Somewhere
    BY <2>4, <2>6
  <2>8. TypeOK'
    BY <1>1, <2>1, <2>2, <2>3 DEF CoreInv, TypeOK
  <2>9. (locked_' <=> Invoker \in Somewhere') /\ locked_'
    BY <1>9, <2>1, <2>7 DEF CoreInv, ProgramOK
  <2>10. QED
    BY <1>1, <2>1, <2>2, <2>6, <2>7, <2>8, <2>9, StrandMoves
<1>10. CASE ~locked_
  <2>1. /\ ready_queue_' = Append(ready_queue_, x) /\ pc' = [pc EXCEPT ![t] = "invoke"]
        /\ locked_' = TRUE /\ outstanding_work_' = outstanding_work_ + 1
        /\ owed' = [owed EXCEPT ![t] = owed[t] + 1] /\ waiting_queue_' = waiting_queue_
    BY <1>10 DEF TimerHandler, dispatch, Goto, x
  <2>2. OnlyMoves(t) /\ pc'[t] = "invoke" /\ owed'[t] = 3
    BY <1>1, <1>5, <2>1 DEF OnlyMoves, CoreInv, TypeOK
  <2>3. At(t)' = "invoke"
    BY <2>2 DEF At
  <2>4. Held(t)' = {Invoker}
    BY <1>3, <2>3, HandFacts DEF Held
  <2>5. waiting_queue_ = <<>> /\ ready_queue_ = <<>> /\ Invoker \notin Somewhere
    BY <1>10 DEF CoreInv, ProgramOK
  <2>6. /\ Range(ready_queue_') = {x} /\ IsInjective(ready_queue_') /\ ready_queue_' \in Seq(Timers)
        /\ Range(waiting_queue_') = {} /\ IsInjective(waiting_queue_')
    <3>1. /\ Range(ready_queue_') = Range(ready_queue_) \cup {x}
          /\ IsInjective(ready_queue_') /\ ready_queue_' \in Seq(Timers)
      BY <1>1, <1>7, <2>1, AppendOnce
    <3>2. QED
      BY <1>8, <2>1, <2>5, <3>1
  <2>7. Mine(t) = {x} /\ Mine(t)' = {Invoker, x}
    BY <1>7, <1>8, <2>4, <2>5, <2>6 DEF Mine
  <2>8. /\ OnePlace' /\ Pending' = Pending /\ Mine(t) \subseteq Somewhere
        /\ Somewhere' = (Somewhere \ Mine(t)) \cup Mine(t)'
    <3>1. Mine(t)' \subseteq Mine(t) \cup {Invoker}
      BY <2>7
    <3>2. Held(t)' \cap (Range(waiting_queue_') \cup Range(ready_queue_')) = {}
      BY <1>5, <2>4, <2>6
    <3>3. UNCHANGED <<op_queue_, private_op_queue>>
      BY <1>1
    <3>4. QED
      BY <1>6, <2>2, <2>5, <2>6, <3>1, <3>2, <3>3, StrandPlaces
  <2>9. Somewhere' = Somewhere \cup {Invoker}
    BY <2>7, <2>8
  <2>10. ThreadsOK'
    <3>1. ThreadOK(t)'
      BY <1>1, <1>3, <1>5, <2>2, <2>3 DEF x, ThreadOK, Free, Stranded, Printing
    <3>2. QED
      BY <2>2, <3>1, ThreadsMove DEF CoreInv
  <2>11. outstanding_work_ > 0 /\ outstanding_work_ \in Nat
    <3>1. owed[t] > 0
      BY <1>5
    <3>2. QED
      BY <3>1, WorkIsSeen DEF CoreInv, TypeOK
  <2>12. TypeOK'
    <3>1. Waiters \subseteq Waiters'
      BY <1>1, <2>1 DEF CoreInv, TypeOK, Waiters
    <3>2. outstanding_work_' \in Nat /\ owed' \in [Threads -> Nat]
      BY <2>1, <2>11 DEF CoreInv, TypeOK
    <3>3. QED
      BY <1>1, <2>1, <2>6, <3>1, <3>2 DEF CoreInv, TypeOK
  <2>13. WorkCounted'
    <3>1. IsFiniteSet(Pending') /\ WorkUntaken' = WorkUntaken
      BY <1>1, <2>8, SamePending DEF CoreInv
    <3>2. owed[t] = 2 /\ owed' = [owed EXCEPT ![t] = 3] /\ 2 \in 0..3 /\ 3 \in 0..3
      BY <1>5, <2>1
    <3>3. (\A n \in 1..3 : IsFiniteSet(Owing(n)')) /\ WorkOwed' = WorkOwed + 3 - 2
      BY <3>2, OwedChanges DEF CoreInv
    <3>4. WorkUntaken \in Nat /\ WorkOwed \in Nat
      BY WorkIsNat DEF CoreInv
    <3>5. QED
      BY <1>1, <2>1, <3>1, <3>3, <3>4 DEF CoreInv, WorkCounted
  <2>14. StopsWithoutWork'
    BY <1>1, <2>2, <2>11, StopsMove DEF CoreInv
  <2>15. ProgramOK'
    <3>1. /\ task_operation_ \in Somewhere' => task_operation_ \in Somewhere
          /\ Somewhere' \cap Lambdas \subseteq posted'
      BY <1>1, <2>9, UsersAssumption DEF CoreInv, ProgramOK
    <3>2. locked_' /\ Invoker \in Somewhere'
      BY <2>1, <2>9
    <3>3. QED
      BY <1>1, <2>2, <3>1, <3>2, ProgramMoves DEF CoreInv
  <2>16. CountOK'
    BY <1>1, <2>2, <2>9, CountMoves DEF CoreInv
  <2>17. QED
    BY <2>8, <2>10, <2>12, <2>13, <2>14, <2>15, <2>16 DEF CoreInv
<1>11. QED
  BY <1>9, <1>10
-----------------------------------------------------------------------------
(***************************************************************************)
(* Posting.                                                                *)
(***************************************************************************)
LEMMA QueuePlaces ==
  ASSUME CoreInv, NEW t \in Threads, OnlyMoves(t), pc[t] # "cleanup",
         NEW x \in Ops, x \in Held(t) \/ x \notin Somewhere, Held(t)' = Held(t) \ {x},
         op_queue_' = Append(op_queue_, x),
         UNCHANGED <<timer, waiting_queue_, ready_queue_, private_op_queue>>
  PROVE  /\ OnePlace' /\ Somewhere' = Somewhere \cup {x}
         /\ x \notin Pending /\ Pending' = Pending \cup {x}
         /\ op_queue_' \in Seq(Ops \cup {task_operation_})
<1>1. op_queue_ \in Seq(Ops \cup {task_operation_}) /\ IsInjective(op_queue_)
  BY DEF CoreInv, TypeOK, OnePlace
<1>2. x \notin Shared /\ Queued \subseteq Shared
  BY DEF CoreInv, OnePlace, Somewhere, Shared
<1>3. /\ op_queue_' \in Seq(Ops \cup {task_operation_})
      /\ Queued' = Queued \cup {x} /\ IsInjective(op_queue_')
  BY <1>1, <1>2, AppendOnce DEF Queued
<1>4. Armed' = Armed /\ Shared' = Shared \cup {x}
  BY <1>3 DEF Armed, Shared
<1>5. Somewhere' = Somewhere \cup {x}
  BY <1>4, SomewhereMoves
<1>6. OnePlace'
  <2> DEFINE new == {x} \ Somewhere
  <2>1. /\ Held(t)' \cup Shared' \subseteq Held(t) \cup Shared \cup new
        /\ Held(t)' \cap Shared' = {} /\ new \cap Somewhere = {}
    BY <1>4 DEF CoreInv, OnePlace
  <2>2. ((Armed \cup Queued) \cap (Range(waiting_queue_) \cup Range(ready_queue_)) = {})'
    BY <1>2, <1>3, <1>4 DEF CoreInv, OnePlace, Shared
  <2>3. (Armed \cap Queued = {} /\ Range(waiting_queue_) \cap Range(ready_queue_) = {})'
    BY <1>2, <1>3, <1>4 DEF CoreInv, OnePlace, Shared
  <2>4. /\ (IsInjective(op_queue_) /\ IsInjective(waiting_queue_) /\ IsInjective(ready_queue_))'
        /\ IsInjective(private_op_queue[t])'
    BY <1>3 DEF CoreInv, OnePlace
  <2> HIDE DEF new
  <2>5. QED
    BY <2>1, <2>2, <2>3, <2>4, MoveKeepsPlaces DEF CoreInv
<1>7. x \notin Pending
  <2>1. \A u \in Threads : x \notin Found(u)
    <3>1. CASE x \notin Somewhere
      BY <3>1 DEF Somewhere, Held
    <3>2. CASE x \in Held(t)
      BY <3>2, NothingFound DEF CoreInv, OnePlace, Held
    <3>3. QED
      BY <3>1, <3>2
  <2>2. QED
    BY <1>2, <2>1 DEF Pending, Shared
<1>8. Pending' = Pending \cup {x}
  <2>1. UNION {Found(u)' : u \in Threads} = UNION {Found(u) : u \in Threads}
    BY DEF Found
  <2>2. x # task_operation_
    BY UsersAssumption DEF Ops
  <2>3. QED
    BY <1>3, <1>4, <2>1, <2>2 DEF Pending
<1>9. QED
  BY <1>3, <1>5, <1>6, <1>7, <1>8

LEMMA RepostStep ==
  ASSUME CoreInv, NEW t \in Threads, Repost(t), UNCHANGED <<program, printerVars, poolVars>>
  PROVE  CoreInv'
<1> USE DEF printerVars, poolVars, strandVars
<1>1. /\ pc[t] = "repost" /\ wake_one_thread(t, "finish", task_interrupted_)
      /\ op_queue_' = Append(op_queue_, Invoker) /\ outstanding_work_' = outstanding_work_ + 1
      /\ owed' = [owed EXCEPT ![t] = owed[t] - 1]
      /\ UNCHANGED <<stopped_, task_, polls, woken, locked_, waiting_queue_, ready_queue_, fn>>
      /\ UNCHANGED <<blocks, private_op_queue, op, program, timer, m_count, posted, ran>>
  BY DEF Repost, post_immediate_completion
<1>2. /\ At(t) = "repost" /\ program = "timers" /\ locked_
      /\ op[t] \in Ops /\ owed[t] \in 2..3 /\ private_op_queue[t] = <<>> /\ Found(t) = {}
      /\ Held(t) = {Invoker} /\ t \notin Posters /\ outstanding_work_ > 1
  BY <1>1, StrandFacts DEF Stranded, Printing
<1>3. /\ pc'[t] \in {"finish", "signal"} /\ (pc'[t] = "signal" => then'[t] = "finish")
      /\ At(t)' = "finish"
      /\ \A u \in Threads \ {t} : pc'[u] = pc[u] /\ then'[u] = then[u]
      /\ {task_interrupted_', interrupted', signalled'} \subseteq BOOLEAN
      /\ pc' \in [Threads -> Spots] /\ then' \in [Threads -> NextSpots]
  <2>1. TypeOK /\ task_interrupted_ \in BOOLEAN /\ wake_one_thread(t, "finish", task_interrupted_)
    BY <1>1 DEF CoreInv, TypeOK
  <2>2. QED
    BY <2>1, WakeFacts
<1>4. OnlyMoves(t) /\ owed'[t] = owed[t] - 1
  BY <1>1, <1>3 DEF OnlyMoves, CoreInv, TypeOK
<1>5. Held(t)' = {}
  <2>1. Found(t)' = {}
    BY <1>1, <1>2 DEF Found
  <2>2. QED
    BY <1>3, <2>1 DEF Held, Hand, Reacting, Printing, Stranded
<1>6. Invoker \in Ops /\ cost[Invoker] = 2 /\ program' = program
  BY <1>1, <1>2 DEF Ops, cost
<1>7. /\ OnePlace' /\ Somewhere' = Somewhere \cup {Invoker}
      /\ Invoker \notin Pending /\ Pending' = Pending \cup {Invoker}
      /\ op_queue_' \in Seq(Ops \cup {task_operation_})
  <2>1. Held(t)' = Held(t) \ {Invoker} /\ Invoker \in Held(t) /\ pc[t] # "cleanup"
    BY <1>1, <1>2, <1>5
  <2>2. QED
    BY <1>1, <1>4, <1>6, <2>1, QueuePlaces
<1>8. Invoker \in Somewhere
  BY <1>2 DEF CoreInv, ProgramOK
<1>9. Somewhere' = Somewhere
  BY <1>7, <1>8
<1>10. ThreadsOK'
  <2>1. owed'[t] \in 1..3
    BY <1>2, <1>4
  <2>2. ThreadOK(t)'
    BY <1>1, <1>2, <1>3, <2>1 DEF ThreadOK, Free, Stranded, Printing
  <2>3. QED
    BY <1>4, <2>2, ThreadsMove DEF CoreInv
<1>11. TypeOK'
  <2>1. woken' \subseteq Waiters'
    BY <1>1, <1>3 DEF CoreInv, TypeOK, Waiters
  <2>2. outstanding_work_' \in Nat /\ owed' \in [Threads -> Nat]
    BY <1>1, <1>2 DEF CoreInv, TypeOK
  <2>3. QED
    BY <1>1, <1>3, <1>7, <2>1, <2>2 DEF CoreInv, TypeOK, Spots, NextSpots
<1>12. WorkCounted'
  <2>1. IsFiniteSet(Pending') /\ WorkUntaken' = WorkUntaken + 2
    BY <1>6, <1>7, PendingGrows DEF CoreInv
  <2>2. owed[t] \in 0..3 /\ owed[t] - 1 \in 0..3
    BY <1>2
  <2>3. (\A n \in 1..3 : IsFiniteSet(Owing(n)')) /\ WorkOwed' = WorkOwed + (owed[t] - 1) - owed[t]
    BY <1>1, <2>2, OwedChanges DEF CoreInv
  <2>4. WorkUntaken \in Nat /\ WorkOwed \in Nat
    BY WorkIsNat DEF CoreInv
  <2>5. WorkUntaken' + WorkOwed' = WorkUntaken + WorkOwed + 1
    BY <1>2, <2>1, <2>3, <2>4
  <2>6. QED
    BY <1>1, <1>2, <2>1, <2>3, <2>4, <2>5 DEF CoreInv, WorkCounted
<1>13. StopsWithoutWork'
  BY <1>1, <1>2, <1>3, <1>4, StopsMove DEF CoreInv
<1>14. ProgramOK'
  BY <1>1, <1>4, <1>9, ProgramMoves DEF CoreInv, ProgramOK
<1>15. CountOK'
  BY <1>1, <1>3, <1>4, <1>9, CountMoves DEF CoreInv
<1>16. QED
  BY <1>7, <1>10, <1>11, <1>12, <1>13, <1>14, <1>15 DEF CoreInv

LEMMA PostStep ==
  ASSUME CoreInv, NEW t \in Posters, NEW x \in Lambdas, Post(t, x)
  PROVE  CoreInv'
<1> USE DEF printerVars, strandVars
<1>1. /\ program = "pool" /\ pc[t] = "outside" /\ x \notin posted
      /\ wake_one_thread(t, "outside", task_interrupted_)
      /\ op_queue_' = Append(op_queue_, x) /\ outstanding_work_' = outstanding_work_ + 1
      /\ posted' = posted \cup {x}
      /\ UNCHANGED <<stopped_, task_, polls, woken, locked_, waiting_queue_, ready_queue_, fn>>
      /\ UNCHANGED <<blocks, private_op_queue, op, owed, program, timer, m_count, ran>>
  BY DEF Post, post_immediate_completion
<1>2. t \in Threads /\ At(t) = "outside" /\ ThreadOK(t)
  BY <1>1 DEF Threads, At, CoreInv, ThreadsOK
<1>3. /\ pc'[t] \in {"outside", "signal"} /\ (pc'[t] = "signal" => then'[t] = "outside")
      /\ At(t)' = "outside"
      /\ \A u \in Threads \ {t} : pc'[u] = pc[u] /\ then'[u] = then[u]
      /\ {task_interrupted_', interrupted', signalled'} \subseteq BOOLEAN
      /\ pc' \in [Threads -> Spots] /\ then' \in [Threads -> NextSpots]
  <2>1. TypeOK /\ task_interrupted_ \in BOOLEAN /\ wake_one_thread(t, "outside", task_interrupted_)
    BY <1>1 DEF CoreInv, TypeOK
  <2>2. QED
    BY <1>2, <2>1, WakeFacts
<1>4. OnlyMoves(t)
  BY <1>1, <1>3 DEF OnlyMoves, CoreInv, TypeOK
<1>5. private_op_queue[t] = <<>> /\ Found(t) = {} /\ Found(t)' = {}
  BY <1>1, <1>2, NothingFound DEF Found
<1>6. Held(t) = {} /\ Held(t)' = {}
  BY <1>2, <1>3, <1>5 DEF Held, Hand, Reacting, Printing, Stranded
<1>7. x \in Ops /\ cost[x] = 1 /\ x \notin Somewhere
  BY <1>1 DEF Ops, cost, CoreInv, ProgramOK
<1>8. /\ OnePlace' /\ Somewhere' = Somewhere \cup {x}
      /\ x \notin Pending /\ Pending' = Pending \cup {x}
      /\ op_queue_' \in Seq(Ops \cup {task_operation_})
  <2>1. Held(t)' = Held(t) \ {x} /\ pc[t] # "cleanup"
    BY <1>1, <1>6
  <2>2. QED
    BY <1>1, <1>2, <1>4, <1>7, <2>1, QueuePlaces
<1>9. ThreadsOK'
  <2>1. op[t] = NoOp /\ owed[t] = 0
    BY <1>2 DEF ThreadOK, Free
  <2>2. ThreadOK(t)'
    BY <1>1, <1>3, <1>5, <2>1 DEF ThreadOK, Free, Stranded, Printing
  <2>3. QED
    BY <1>2, <1>4, <2>2, ThreadsMove DEF CoreInv
<1>10. outstanding_work_ \in Nat /\ outstanding_work_ > 0
  BY <1>1, WorkIsSeen DEF CoreInv, TypeOK
<1>11. TypeOK'
  <2>1. woken' \subseteq Waiters'
    BY <1>1, <1>3 DEF CoreInv, TypeOK, Waiters
  <2>2. outstanding_work_' \in Nat
    BY <1>1, <1>10
  <2>3. posted' \subseteq Lambdas /\ ran' \subseteq posted'
    BY <1>1 DEF CoreInv, TypeOK
  <2>4. QED
    BY <1>1, <1>3, <1>8, <2>1, <2>2, <2>3 DEF CoreInv, TypeOK, Spots, NextSpots
<1>12. WorkCounted'
  <2>1. IsFiniteSet(Pending') /\ WorkUntaken' = WorkUntaken + 1
    BY <1>1, <1>7, <1>8, PendingGrows DEF CoreInv
  <2>2. (\A n \in 1..3 : IsFiniteSet(Owing(n)')) /\ WorkOwed' = WorkOwed
    BY <1>1, SameOwed DEF CoreInv
  <2>3. WorkUntaken \in Nat /\ WorkOwed \in Nat
    BY WorkIsNat DEF CoreInv
  <2>4. QED
    BY <1>1, <2>1, <2>2, <2>3 DEF CoreInv, WorkCounted
<1>13. StopsWithoutWork'
  BY <1>1, <1>2, <1>3, <1>4, <1>10, StopsMove DEF CoreInv
<1>14. ProgramOK'
  <2>1. /\ task_operation_ \in Somewhere' => task_operation_ \in Somewhere
        /\ Invoker \in Somewhere' <=> Invoker \in Somewhere
    BY <1>7, <1>8, UsersAssumption
  <2>2. Somewhere' \cap Lambdas \subseteq posted'
    BY <1>1, <1>8 DEF CoreInv, ProgramOK
  <2>3. ~polls
    BY <1>1 DEF CoreInv, ProgramOK
  <2>4. QED
    BY <1>1, <1>2, <1>4, <2>1, <2>2, <2>3, ProgramMoves DEF CoreInv, ProgramOK
<1>15. CountOK'
  BY <1>1, <1>2, <1>3, <1>4, <1>8, CountMoves DEF CoreInv
<1>16. QED
  BY <1>8, <1>9, <1>11, <1>12, <1>13, <1>14, <1>15 DEF CoreInv
-----------------------------------------------------------------------------
(***************************************************************************)
(* The initial states of the three programs.                               *)
(***************************************************************************)
LEMMA ShortQueues ==
  ASSUME NEW S, NEW a \in S, NEW b \in S, a # b
  PROVE  /\ <<>> \in Seq(S) /\ Range(<<>>) = {} /\ IsInjective(<<>>)
         /\ <<a>> \in Seq(S) /\ Range(<<a>>) = {a} /\ IsInjective(<<a>>)
         /\ <<a, b>> \in Seq(S) /\ Range(<<a, b>>) = {a, b} /\ IsInjective(<<a, b>>)
<1>1. DOMAIN <<>> = {} /\ DOMAIN <<a>> = 1..1 /\ DOMAIN <<a, b>> = 1..2
  OBVIOUS
<1>2. \A i \in 1..1 : i = 1
  OBVIOUS
<1>3. \A i \in 1..2 : i = 1 \/ i = 2
  OBVIOUS
<1>4. <<a>>[1] = a /\ <<a, b>>[1] = a /\ <<a, b>>[2] = b
  OBVIOUS
<1>5. 1 \in 1..1 /\ 1 \in 1..2 /\ 2 \in 1..2
  OBVIOUS
<1>6. Range(<<>>) = {} /\ IsInjective(<<>>)
  BY <1>1 DEF Range, IsInjective
<1>7. Range(<<a>>) = {a} /\ IsInjective(<<a>>)
  BY <1>1, <1>2, <1>4, <1>5 DEF Range, IsInjective
<1>8. Range(<<a, b>>) = {a, b}
  BY <1>1, <1>3, <1>4, <1>5 DEF Range
<1>9. IsInjective(<<a, b>>)
  BY <1>1, <1>3, <1>4, <1>5 DEF IsInjective
<1>10. QED
  BY <1>6, <1>7, <1>8, <1>9

LEMMA InitPrograms ==
  ASSUME Init
  PROVE  /\ \/ /\ program = "timers" /\ op_queue_ = <<task_operation_, Write>>
               /\ outstanding_work_ = 2 * Cardinality(Timers) + 1
               /\ task_ = TRUE /\ polls = FALSE
            \/ /\ program = "pool" /\ op_queue_ = <<>> /\ outstanding_work_ = 1
               /\ task_ = FALSE /\ polls = FALSE
            \/ /\ program = "poll" /\ op_queue_ = <<task_operation_>>
               /\ outstanding_work_ = Cardinality(Timers)
               /\ task_ = TRUE /\ polls = TRUE
               /\ \A t, u \in Threads : pc[t] # "outside" /\ pc[u] # "outside" => t = u
         /\ pc \in [Threads -> {"start", "outside"}] /\ \A t \in Posters : pc[t] = "outside"
         /\ stopped_ = FALSE /\ task_interrupted_ = TRUE /\ interrupted = FALSE
         /\ signalled = FALSE /\ woken = {}
         /\ then = [t \in Threads |-> "outside"] /\ blocks = [t \in Threads |-> FALSE]
         /\ private_op_queue = [t \in Threads |-> <<>>]
         /\ op = [t \in Threads |-> NoOp] /\ owed = [t \in Threads |-> 0]
<1>1. program \in {"timers", "pool", "poll"}
  BY DEF Init
<1>2. CASE program = "timers"
  <2>1. SchedulerInit(<<task_operation_, Write>>, 2 * Cardinality(Timers) + 1, TRUE, Runners, FALSE)
    BY <1>2 DEF Init
  <2>2. QED
    BY <1>2, <2>1, SchedulerAssumption DEF SchedulerInit, Threads
<1>3. CASE program = "pool"
  <2>1. SchedulerInit(<<>>, 1, FALSE, Runners, FALSE)
    BY <1>3 DEF Init
  <2>2. QED
    BY <1>3, <2>1, SchedulerAssumption DEF SchedulerInit, Threads
<1>4. CASE program = "poll"
  <2>1. PICK r \in Runners :
           SchedulerInit(<<task_operation_>>, Cardinality(Timers), TRUE, {r}, TRUE)
    BY <1>4 DEF Init
  <2>2. pc = [t \in Threads |-> IF t \in {r} THEN "start" ELSE "outside"]
    BY <2>1 DEF SchedulerInit
  <2>3. /\ \A t, u \in Threads : pc[t] # "outside" /\ pc[u] # "outside" => t = u
        /\ pc \in [Threads -> {"start", "outside"}] /\ \A t \in Posters : pc[t] = "outside"
    BY <2>2, SchedulerAssumption DEF Threads
  <2>4. QED
    BY <1>4, <2>1, <2>3 DEF SchedulerInit
<1>5. QED
  BY <1>1, <1>2, <1>3, <1>4

LEMMA InitCore ==
  ASSUME Init
  PROVE  SchedulerInv
<1> DEFINE S == Ops \cup {task_operation_}
<1>1. /\ locked_ = FALSE /\ waiting_queue_ = <<>> /\ ready_queue_ = <<>>
      /\ fn = [t \in Threads |-> NoOp]
      /\ timer = [x \in Timers |-> IF program = "pool" THEN "idle" ELSE "set"]
      /\ m_count = 0 /\ posted = {} /\ ran = {} /\ program \in {"timers", "pool", "poll"}
  BY DEF Init, StrandInit
<1>2. /\ pc \in [Threads -> {"start", "outside"}] /\ \A t \in Posters : pc[t] = "outside"
      /\ stopped_ = FALSE /\ task_interrupted_ = TRUE /\ interrupted = FALSE
      /\ signalled = FALSE /\ woken = {}
      /\ then = [t \in Threads |-> "outside"] /\ blocks = [t \in Threads |-> FALSE]
      /\ private_op_queue = [t \in Threads |-> <<>>]
      /\ op = [t \in Threads |-> NoOp] /\ owed = [t \in Threads |-> 0]
  BY InitPrograms
<1>3. /\ Range(<<>>) = {} /\ IsInjective(<<>>) /\ task_operation_ \in S /\ Write \in S
      /\ Range(<<task_operation_>>) = {task_operation_} /\ IsInjective(<<task_operation_>>)
      /\ Range(<<task_operation_, Write>>) = {task_operation_, Write}
      /\ IsInjective(<<task_operation_, Write>>)
      /\ <<>> \in Seq(S) /\ <<task_operation_>> \in Seq(S) /\ <<task_operation_, Write>> \in Seq(S)
  <2>1. task_operation_ \in S /\ Write \in S /\ task_operation_ # Write
    BY UsersAssumption DEF Ops
  <2> HIDE DEF S
  <2>2. QED
    BY <2>1, ShortQueues
<1>4. \A t \in Threads : /\ At(t) = pc[t] /\ At(t) \in {"start", "outside"}
                         /\ Found(t) = {} /\ Held(t) = {}
  <2>1. TAKE t \in Threads
  <2>2. At(t) = pc[t] /\ At(t) \in {"start", "outside"}
    BY <1>2 DEF At
  <2>3. Found(t) = {}
    BY <1>2, <1>3 DEF Found
  <2>4. QED
    BY <2>2, <2>3 DEF Held, Hand, Reacting, Printing, Stranded
<1>5. Shared = Armed \cup Queued /\ Somewhere = Armed \cup Queued
  BY <1>1, <1>3, <1>4 DEF Shared, Somewhere
<1>6. Armed = IF program = "pool" THEN {} ELSE Timers
  BY <1>1 DEF Armed
<1>7. /\ Queued = IF program = "timers" THEN {task_operation_, Write}
                  ELSE IF program = "pool" THEN {} ELSE {task_operation_}
      /\ IsInjective(op_queue_) /\ op_queue_ \in Seq(S)
  BY <1>3, InitPrograms DEF Queued
<1>8. Pending = Armed \cup (Queued \ {task_operation_})
  BY <1>4 DEF Pending
<1>9. Pending = IF program = "timers" THEN Timers \cup {Write}
                ELSE IF program = "pool" THEN {} ELSE Timers
  BY <1>1, <1>6, <1>7, <1>8, UsersAssumption
<1>10. Dear = IF program = "timers" THEN Timers ELSE {}
  <2>1. \A o \in Ops : cost[o] = IF program = "timers" /\ o \in Timers \cup {Invoker} THEN 2 ELSE 1
    BY DEF cost
  <2>2. Pending \subseteq Ops
    BY <1>9 DEF Ops
  <2>3. QED
    BY <1>1, <1>9, <2>1, <2>2, UsersAssumption DEF Dear
<1>11. IsFiniteSet(Timers) /\ Cardinality(Timers) \in Nat /\ Write \notin Timers
  BY UsersAssumption, FS_CardinalityType
<1>12. /\ IsFiniteSet(Timers \cup {Write}) /\ Cardinality(Timers \cup {Write}) = Cardinality(Timers) + 1
       /\ IsFiniteSet({}) /\ Cardinality({}) = 0
  BY <1>11, FS_AddElement, FS_EmptySet
<1>13. \A n \in 1..3 : Owing(n) = {}
  BY <1>2 DEF Owing
<1>14. /\ outstanding_work_ = IF program = "timers" THEN 2 * Cardinality(Timers) + 1
                             ELSE IF program = "pool" THEN 1 ELSE Cardinality(Timers)
       /\ task_ = (program # "pool") /\ polls = (program = "poll")
       /\ program \in {"timers", "pool", "poll"}
  BY InitPrograms
<1>15. WorkCounted
  <2>1. Owing(1) = {} /\ Owing(2) = {} /\ Owing(3) = {}
    BY <1>13
  <2>2. WorkOwed = 0
    BY <1>12, <2>1 DEF WorkOwed
  <2>3. IsFiniteSet(Pending) /\ \A n \in 1..3 : IsFiniteSet(Owing(n))
    BY <1>9, <1>11, <1>12, <1>13
  <2>4. WorkUntaken = IF program = "timers" THEN (Cardinality(Timers) + 1) + Cardinality(Timers)
                      ELSE IF program = "pool" THEN 0 ELSE Cardinality(Timers)
    BY <1>1, <1>9, <1>10, <1>11, <1>12 DEF WorkUntaken
  <2>5. QED
    BY <1>11, <1>14, <2>2, <2>3, <2>4 DEF WorkCounted
<1>16. TypeOK
  <2>1. outstanding_work_ \in Nat
    BY <1>11, <1>14
  <2>2. op_queue_ \in Seq(Ops \cup {task_operation_})
    BY <1>7
  <2>3. {stopped_, task_, polls, task_interrupted_, interrupted, signalled, locked_} \subseteq BOOLEAN
    BY <1>1, <1>2, <1>14
  <2>4. woken \subseteq Waiters
    BY <1>2
  <2>5. pc \in [Threads -> Spots] /\ then \in [Threads -> NextSpots]
    BY <1>2 DEF Spots, NextSpots
  <2>6. <<>> \in Seq(Timers)
    OBVIOUS
  <2>7. /\ blocks \in [Threads -> BOOLEAN] /\ private_op_queue \in [Threads -> Seq(Timers)]
        /\ op \in [Threads -> Ops \cup {NoOp}] /\ owed \in [Threads -> Nat]
    BY <1>2, <2>6
  <2>8. /\ waiting_queue_ \in Seq(Timers) /\ ready_queue_ \in Seq(Timers)
        /\ fn \in [Threads -> Timers \cup {NoOp}]
        /\ timer \in [Timers -> {"idle", "set", "expired"}]
        /\ m_count \in Nat /\ posted \subseteq Lambdas /\ ran \subseteq posted
    BY <1>1, <2>6
  <2>9. QED
    BY <1>1, <2>1, <2>2, <2>3, <2>4, <2>5, <2>7, <2>8 DEF TypeOK, Spots, NextSpots
<1>17. OnePlace
  <2>1. Armed \cap Queued = {}
    BY <1>6, <1>7, UsersAssumption
  <2>2. \A t \in Threads : IsInjective(private_op_queue[t])
    BY <1>2, <1>3
  <2>3. QED
    BY <1>1, <1>3, <1>4, <1>7, <2>1, <2>2 DEF OnePlace
<1>18. ThreadsOK
  <2>1. SUFFICES ASSUME NEW t \in Threads PROVE ThreadOK(t)
    BY DEF ThreadsOK
  <2>2. /\ op[t] = NoOp /\ owed[t] = 0 /\ private_op_queue[t] = <<>>
        /\ pc[t] \in {"start", "outside"} /\ At(t) = pc[t]
    BY <1>2, <1>4
  <2>3. t \in Posters => At(t) = "outside"
    BY <1>2, <1>4
  <2>4. QED
    BY <2>2, <2>3 DEF ThreadOK, Free, Stranded, Printing
<1>19. ProgramOK
  <2>1. /\ task_ = (program # "pool") /\ polls = (program = "poll")
        /\ polls => \A t, u \in Threads : pc[t] # "outside" /\ pc[u] # "outside" => t = u
    BY InitPrograms
  <2>2. Invoker \notin Somewhere /\ Somewhere \cap Lambdas = {}
    BY <1>5, <1>6, <1>7, UsersAssumption
  <2>3. task_operation_ \in Somewhere => program # "pool"
    BY <1>5, <1>6, <1>7
  <2>4. QED
    BY <1>1, <2>1, <2>2, <2>3 DEF ProgramOK
<1>20. StopsWithoutWork
  BY <1>2 DEF StopsWithoutWork
<1>21. CountOK
  <2>1. program = "timers" => Timers \subseteq Somewhere
    BY <1>5, <1>6
  <2>2. QED
    BY <1>1, <1>2, <2>1, UsersAssumption DEF CountOK
<1>22. WakeOK
  <2>1. Waiters = {}
    BY <1>2 DEF Waiters
  <2>2. PICK r \in Runners : TRUE
    BY UsersAssumption
  <2>3. Awake(r)
    BY <1>2 DEF Awake, Asleep, Blocked, Threads
  <2>4. QED
    BY <1>2, <2>1, <2>3 DEF WakeOK
<1>23. QED
  BY <1>15, <1>16, <1>17, <1>18, <1>19, <1>20, <1>21, <1>22 DEF SchedulerInv
-----------------------------------------------------------------------------
(***************************************************************************)
(* Waking threads up.                                                      *)
(***************************************************************************)
LEMMA RunnerFacts ==
  ASSUME CoreInv, NEW t \in Threads, At(t) # "outside"
  PROVE  t \in Runners
  BY DEF CoreInv, ThreadsOK, ThreadOK, Threads

LEMMA WaitersRun ==
  ASSUME CoreInv
  PROVE  Waiters \subseteq Runners
<1>1. \A t \in Threads : pc[t] = "wait" => At(t) # "outside"
  BY DEF At
<1>2. QED
  BY <1>1, RunnerFacts DEF Waiters

\* One thread at a time runs the reactor, whose entry is then not queued.
LEMMA OneReactor ==
  ASSUME CoreInv, NEW t \in Threads, At(t) \in Reacting
  PROVE  /\ task_ /\ program # "pool" /\ task_operation_ \notin Queued
         /\ \A u \in Threads \ {t} : At(u) \notin Reacting /\ task_operation_ \notin Held(u)
<1>1. \A u \in Threads : At(u) \in Reacting => task_operation_ \in Held(u)
  BY HandFacts DEF Held, Reacting
<1>2. task_operation_ \in Somewhere
  BY <1>1 DEF Somewhere
<1>3. QED
  BY <1>1, <1>2 DEF CoreInv, OnePlace, ProgramOK, Shared

\* t goes on, awake, and the queue and the event stay as they are.
LEMMA WakeStays ==
  ASSUME WakeOK, NEW t \in Threads, OnlyMoves(t), pc[t] # "signal", pc[t] # "wait",
         pc'[t] \notin {"wait", "signal", "task"},
         UNCHANGED <<op_queue_, stopped_, task_interrupted_, interrupted, signalled, woken>>
  PROVE  WakeOK'
<1>1. /\ \A u \in Threads \ {t} : /\ pc'[u] = pc[u] /\ then'[u] = then[u]
                                  /\ blocks'[u] = blocks[u] /\ At(u)' = At(u)
      /\ At(t)' # "task"
  BY DEF OnlyMoves, At
<1>2. Waiters' = Waiters
  BY <1>1 DEF Waiters
<1>3. \A u \in Threads : (Awake(u) => Awake(u)') /\ (Asleep(u) => Asleep(u)')
  BY <1>1 DEF Awake, Asleep, Blocked
<1>4. \A u \in Threads : pc[u] = "signal" => pc'[u] = "signal"
  BY <1>1
<1>5. op_queue_' # <<>> =>
        \/ \E u \in Runners : Awake(u)'
        \/ \E u \in Threads : pc'[u] = "signal" /\ \E v \in Runners : Asleep(v)'
  BY <1>3, <1>4 DEF WakeOK, Threads
<1>6. QED
  BY <1>1, <1>2, <1>5 DEF WakeOK

\* The event is signalled and t goes on, awake.
LEMMA WakeAll ==
  ASSUME WakeOK, NEW t \in Runners, OnlyMoves(t), Awake(t)',
         op_queue_' # <<>> => signalled' \/ Waiters' = {},
         stopped_' => signalled',
         pc'[t] = "signal" /\ then'[t] = "task" => ~blocks'[t],
         \A u \in Threads : At(u)' = "task" /\ blocks'[u] /\ task_interrupted_' => interrupted'
  PROVE  WakeOK'
<1>1. \A u \in Threads \ {t} : pc'[u] = pc[u] /\ then'[u] = then[u] /\ blocks'[u] = blocks[u]
  BY DEF OnlyMoves
<1>2. \A u \in Threads : pc'[u] = "signal" /\ then'[u] = "task" => ~blocks'[u]
  BY <1>1 DEF WakeOK
<1>3. QED
  BY <1>2 DEF WakeOK

LEMMA SignalWakes ==
  ASSUME CoreInv, WakeOK, NEW t \in Threads, Signal(t)
  PROVE  WakeOK'
<1> USE DEF queueVars, taskVars
<1>1. /\ pc[t] = "signal" /\ pc' = [pc EXCEPT ![t] = then[t]] /\ pc'[t] = then[t]
      /\ UNCHANGED <<op_queue_, stopped_, task_interrupted_, interrupted, signalled, then, blocks>>
  BY DEF Signal, CoreInv, TypeOK
<1>2. then[t] \in {"task", "handler", "finish", "outside"}
  BY <1>1 DEF CoreInv, ThreadsOK, ThreadOK
<1>3. \A u \in Threads : u # t => pc'[u] = pc[u]
  BY <1>1 DEF CoreInv, TypeOK
<1>4. \A u \in Threads : At(u)' = At(u)
  BY <1>1, <1>2, <1>3 DEF At
<1>5. Waiters' = Waiters
  BY <1>1, <1>2, <1>3 DEF Waiters
<1>6. \A u \in Threads : pc'[u] = "signal" => pc[u] = "signal"
  BY <1>1, <1>2, <1>3
<1>7. op_queue_ # <<>> => \E u \in Runners : Awake(u)'
  <2>1. HAVE op_queue_ # <<>>
  <2>2. CASE \E u \in Threads : Asleep(u)
    <3>1. PICK u \in Threads : Asleep(u) /\ woken' = woken \cup {u}
      BY <2>2 DEF Signal
    <3>2. pc[u] = "wait" /\ u # t
      BY <1>1, <3>1 DEF Asleep
    <3>3. Awake(u)'
      BY <1>3, <3>1, <3>2 DEF Awake, Asleep, Blocked
    <3>4. u \in Runners
      BY <3>2, WaitersRun DEF Waiters
    <3>5. QED
      BY <3>3, <3>4
  <2>3. CASE ~\E u \in Threads : Asleep(u)
    <3>1. woken' = woken
      BY <2>3 DEF Signal
    <3>2. PICK u \in Runners : Awake(u)
      BY <2>1, <2>3 DEF WakeOK, Threads
    <3>3. u \in Threads
      BY DEF Threads
    <3>4. CASE u # t
      <4>1. Awake(u)'
        BY <1>1, <1>3, <3>1, <3>2, <3>3, <3>4 DEF Awake, Asleep, Blocked
      <4>2. QED
        BY <4>1
    <3>5. CASE u = t
      <4>1. then[t] = "task" => ~blocks[t]
        BY <1>1 DEF WakeOK
      <4>2. Awake(t)'
        BY <1>1, <1>2, <4>1 DEF Awake, Asleep, Blocked
      <4>3. QED
        BY <3>5, <4>2
    <3>6. QED
      BY <3>4, <3>5
  <2>4. QED
    BY <2>2, <2>3
<1>8. /\ \A u \in Threads : At(u)' = "task" /\ blocks'[u] /\ task_interrupted_' => interrupted'
      /\ \A u \in Threads : pc'[u] = "signal" /\ then'[u] = "task" => ~blocks'[u]
      /\ stopped_' => signalled'
      /\ op_queue_' # <<>> /\ ~signalled' => Waiters' = {}
  BY <1>1, <1>4, <1>5, <1>6 DEF WakeOK
<1>9. op_queue_' # <<>> => \E u \in Runners : Awake(u)'
  BY <1>1, <1>7
<1>10. QED
  BY <1>8, <1>9 DEF WakeOK

LEMMA StopWakes ==
  ASSUME CoreInv, WakeOK, NEW t \in Threads, stop(t), UNCHANGED others
  PROVE  WakeOK'
<1> USE DEF others
<1>1. /\ pc[t] = "stop" /\ pc' = [pc EXCEPT ![t] = then[t]] /\ pc'[t] = then[t]
      /\ signalled' = TRUE /\ woken' = Waiters
      /\ task_interrupted_' = (task_interrupted_ \/ task_)
      /\ interrupted' = (interrupted \/ (task_ /\ ~task_interrupted_))
      /\ UNCHANGED <<then, blocks, op, owed, private_op_queue, fn, program>>
  BY DEF stop, CoreInv, TypeOK
<1>2. then[t] \in {"returned", "loop"} /\ At(t) = "stop"
  BY <1>1 DEF CoreInv, ThreadsOK, ThreadOK, At
<1>3. t \in Runners
  BY <1>2, RunnerFacts
<1>4. OnlyMoves(t)
  BY <1>1 DEF OnlyMoves, CoreInv, TypeOK
<1>5. Awake(t)'
  BY <1>1, <1>2 DEF Awake, Asleep, Blocked
<1>6. ASSUME NEW u \in Threads, At(u)' = "task", blocks'[u], task_interrupted_' PROVE interrupted'
  <2>1. At(t)' # "task"
    BY <1>1, <1>2 DEF At
  <2>2. At(u) = "task" /\ blocks[u]
    BY <1>1, <1>4, <1>6, <2>1, OthersStay
  <2>3. CASE task_interrupted_
    BY <1>1, <2>2, <2>3 DEF WakeOK
  <2>4. CASE ~task_interrupted_
    BY <1>1, <1>6, <2>4
  <2>5. QED
    BY <2>3, <2>4
<1>7. QED
  BY <1>1, <1>2, <1>3, <1>4, <1>5, <1>6, WakeAll

LEMMA SleepWakes ==
  ASSUME CoreInv, WakeOK, NEW t \in Threads, WaitAgain(t) \/ SpuriousWakeup(t)
  PROVE  WakeOK'
<1> USE DEF queueVars, taskVars, threadVars
<1>1. UNCHANGED <<op_queue_, stopped_, task_interrupted_, interrupted, signalled, pc, then, blocks>>
  BY DEF WaitAgain, SpuriousWakeup
<1>2. pc[t] = "wait" /\ t \in Runners
  <2>1. pc[t] = "wait"
    BY DEF WaitAgain, SpuriousWakeup, Asleep
  <2>2. QED
    BY <2>1, WaitersRun DEF Waiters
<1>3. op_queue_ # <<>> => Awake(t)'
  <2>1. CASE WaitAgain(t)
    <3>1. ~signalled /\ Waiters # {}
      BY <1>2, <2>1 DEF WaitAgain, Waiters
    <3>2. QED
      BY <3>1 DEF WakeOK
  <2>2. CASE SpuriousWakeup(t)
    BY <1>1, <1>2, <2>2 DEF SpuriousWakeup, Awake, Asleep, Blocked
  <2>3. QED
    BY <2>1, <2>2
<1>4. (\A u \in Threads : At(u)' = At(u)) /\ Waiters' = Waiters
  BY <1>1 DEF At, Waiters
<1>5. QED
  BY <1>1, <1>2, <1>3, <1>4 DEF WakeOK

LEMMA WaitWakes ==
  ASSUME CoreInv, WakeOK, NEW t \in Threads, Wait(t)
  PROVE  WakeOK'
<1> USE DEF queueVars, taskVars
<1>1. /\ AtLoop(t) /\ ~stopped_ /\ QueueAt(t) = <<>> /\ pc' = [pc EXCEPT ![t] = "wait"]
      /\ UNCHANGED <<op_queue_, stopped_, task_interrupted_, interrupted, then, blocks>>
  BY DEF Wait
<1>2. op_queue_ = <<>>
  <2>1. Range(QueueAt(t)) = {} /\ op_queue_ \in Seq(Ops \cup {task_operation_})
    BY <1>1 DEF Range, CoreInv, TypeOK
  <2>2. Range(op_queue_) = {}
    BY <1>1, <2>1, LoopFacts DEF Queued
  <2>3. QED
    BY <2>1, <2>2, EmptyRange
<1>3. pc'[t] = "wait" /\ \A u \in Threads : u # t => pc'[u] = pc[u]
  BY <1>1 DEF CoreInv, TypeOK
<1>4. At(t)' = "wait" /\ \A u \in Threads : u # t => At(u)' = At(u)
  BY <1>1, <1>3 DEF At
<1>5. QED
  BY <1>1, <1>2, <1>3, <1>4 DEF WakeOK

\* While t comes back from the reactor, or takes it, nobody else is in it.
LEMMA NobodyReacts ==
  ASSUME CoreInv, NEW t \in Threads, AtLoop(t),
         pc[t] = "cleanup" \/ (QueueAt(t) # <<>> /\ Head(QueueAt(t)) = task_operation_)
  PROVE  \A u \in Threads \ {t} : At(u) # "task"
<1>1. task_operation_ \in Queued \cup Held(t)
  <2>1. CASE pc[t] = "cleanup"
    BY <2>1, LoopFacts
  <2>2. CASE QueueAt(t) # <<>> /\ Head(QueueAt(t)) = task_operation_
    <3> DEFINE q == QueueAt(t)
    <3>1. q \in Seq(Ops \cup {task_operation_}) /\ IsInjective(q) /\ Range(q) = Queued \cup Held(t)
      BY LoopFacts
    <3> HIDE DEF q
    <3>2. Head(q) \in Range(q)
      BY <2>2, <3>1, TailOnce DEF q
    <3>3. QED
      BY <2>2, <3>1, <3>2 DEF q
  <2>3. QED
    BY <2>1, <2>2
<1>2. \A u \in Threads : At(u) = "task" => task_operation_ \in Held(u)
  BY HandFacts DEF Held
<1>3. QED
  BY <1>1, <1>2 DEF CoreInv, OnePlace, Shared

LEMMA ReturnWakes ==
  ASSUME CoreInv, WakeOK, NEW t \in Threads, Return(t) \/ PollReturns(t), UNCHANGED others
  PROVE  WakeOK'
<1> USE DEF others
<1>1. /\ OnlyMoves(t) /\ pc'[t] = "returned" /\ AtLoop(t)
      /\ UNCHANGED <<stopped_, then, blocks, interrupted>>
  BY DEF Return, PollReturns, OnlyMoves, AtLoop, CoreInv, TypeOK
<1>2. signalled'
  BY DEF Return, PollReturns, WakeOK
<1>3. t \in Runners /\ Awake(t)' /\ At(t)' = "returned"
  <2>1. At(t) # "outside"
    BY <1>1, LoopFacts
  <2>2. QED
    BY <1>1, <2>1, RunnerFacts DEF Awake, Asleep, Blocked, At
<1>4. ASSUME NEW u \in Threads, At(u)' = "task", blocks'[u], task_interrupted_' PROVE interrupted'
  <2>1. u \in Threads \ {t} /\ At(u) = "task"
    BY <1>1, <1>3, <1>4, OthersStay
  <2>2. pc[t] # "cleanup"
    BY <1>1, <2>1, NobodyReacts
  <2>3. task_interrupted_
    BY <1>4, <2>2 DEF Return, PollReturns, InterruptedAt
  <2>4. QED
    BY <1>1, <1>4, <2>1, <2>3 DEF WakeOK
<1>5. QED
  BY <1>1, <1>2, <1>3, <1>4, WakeAll

LEMMA TakeTaskWakes ==
  ASSUME CoreInv, WakeOK, NEW t \in Threads, TakeTask(t) \/ PollTask(t), UNCHANGED others
  PROVE  WakeOK'
<1> USE DEF others
<1>1. /\ AtLoop(t) /\ QueueAt(t) # <<>> /\ Head(QueueAt(t)) = task_operation_
      /\ ~stopped_ /\ stopped_' = stopped_
  <2>1. CASE TakeTask(t)
    BY <2>1 DEF TakeTask
  <2>2. CASE PollTask(t)
    <3>1. AtLoop(t) /\ pc[t] = "loop"
      BY <2>2 DEF AtLoop, PollTask
    <3>2. QueueAt(t) = op_queue_
      BY <3>1, LoopFacts
    <3>3. QED
      BY <2>2, <3>1, <3>2 DEF PollTask
  <2>3. QED
    BY <2>1, <2>2
<1>2. \A u \in Threads \ {t} : At(u) # "task"
  BY <1>1, NobodyReacts
<1>3. t \in Runners
  BY <1>1, LoopFacts, RunnerFacts
<1>4. CASE TakeTask(t)
  <2> DEFINE more == Tail(QueueAt(t)) # <<>>
  <2>1. /\ op_queue_' = Tail(QueueAt(t)) /\ task_interrupted_' = more
        /\ blocks' = [blocks EXCEPT ![t] = ~more] /\ signalled' = (signalled \/ more)
        /\ pc' = [pc EXCEPT ![t] = IF more /\ Waiters \ {t} # {} THEN "signal" ELSE "task"]
        /\ then' = [then EXCEPT ![t] = "task"]
        /\ woken' = woken \ {t}
        /\ UNCHANGED <<op, owed, fn, program>>
        /\ private_op_queue' = [private_op_queue EXCEPT ![t] = <<>>]
    BY <1>4 DEF TakeTask
  <2>2. /\ blocks'[t] = ~more /\ pc'[t] = (IF more /\ Waiters \ {t} # {} THEN "signal" ELSE "task")
        /\ OnlyMoves(t) /\ then'[t] = "task"
    BY <2>1 DEF CoreInv, TypeOK, OnlyMoves
  <2> HIDE DEF more
  <2>3. op_queue_' # <<>> <=> more
    BY <2>1 DEF more
  <2>4. \A u \in Threads \ {t} : /\ At(u)' # "task" /\ pc'[u] = pc[u] /\ then'[u] = then[u]
                                 /\ blocks'[u] = blocks[u]
    BY <1>2, <2>2, OthersStay DEF OnlyMoves
  <2>5. more => Awake(t)'
    BY <2>2 DEF Awake, Asleep, Blocked
  <2>6. /\ \A u \in Threads : At(u)' = "task" /\ blocks'[u] /\ task_interrupted_' => interrupted'
        /\ \A u \in Threads : pc'[u] = "signal" /\ then'[u] = "task" => ~blocks'[u]
    BY <2>1, <2>2, <2>4 DEF WakeOK
  <2>7. op_queue_' # <<>> => signalled'
    BY <2>1, <2>3
  <2>8. QED
    BY <1>1, <1>3, <2>3, <2>5, <2>6, <2>7 DEF WakeOK
<1>5. CASE PollTask(t)
  <2>1. /\ op_queue_ # <<>> /\ pc[t] = "loop" /\ pc' = [pc EXCEPT ![t] = "task"]
        /\ blocks' = [blocks EXCEPT ![t] = FALSE]
        /\ UNCHANGED <<task_interrupted_, interrupted, signalled, woken, then, private_op_queue>>
        /\ UNCHANGED <<op, owed, fn, program>>
    BY <1>5 DEF PollTask, taskVars, eventVars
  <2>2. /\ blocks'[t] = FALSE /\ pc'[t] = "task" /\ OnlyMoves(t)
    BY <2>1 DEF CoreInv, TypeOK, OnlyMoves
  <2>3. Awake(t)'
    BY <2>2 DEF Awake, Asleep, Blocked
  <2>4. \A u \in Threads \ {t} : At(u)' # "task"
    BY <1>2, <2>2, OthersStay
  <2>5. \A u \in Threads : At(u)' = "task" /\ blocks'[u] /\ task_interrupted_' => interrupted'
    BY <2>2, <2>4
  <2>6. op_queue_' # <<>> => signalled' \/ Waiters' = {}
    <3>1. \A u \in Threads : pc'[u] = "wait" => pc[u] = "wait"
      BY <2>1 DEF CoreInv, TypeOK
    <3>2. Waiters' \subseteq Waiters
      BY <3>1 DEF Waiters
    <3>3. QED
      BY <2>1, <3>2 DEF WakeOK
  <2>7. QED
    BY <1>1, <1>3, <2>2, <2>3, <2>5, <2>6, WakeAll
<1>6. QED
  BY <1>4, <1>5

\* Waking a thread interrupts the reactor if it is the reactor that blocks.
LEMMA WakeReactor ==
  ASSUME NEW t, NEW next, NEW busy \in BOOLEAN, wake_one_thread(t, next, busy), busy => interrupted
  PROVE  task_interrupted_' => interrupted'
  BY DEF wake_one_thread

LEMMA TakeOpWakes ==
  ASSUME CoreInv, WakeOK, NEW t \in Threads, TakeOp(t, cost), UNCHANGED others
  PROVE  WakeOK'
<1> USE DEF others
<1>1. /\ AtLoop(t) /\ ~stopped_ /\ op_queue_' = Tail(QueueAt(t))
      /\ private_op_queue' = [private_op_queue EXCEPT ![t] = <<>>]
      /\ op' = [op EXCEPT ![t] = Head(QueueAt(t))]
      /\ owed' = [owed EXCEPT ![t] = cost[Head(QueueAt(t))]]
      /\ UNCHANGED <<stopped_, blocks, fn, program>>
  BY DEF TakeOp
<1>2. InterruptedAt(t) \in BOOLEAN
  BY DEF InterruptedAt, CoreInv, TypeOK
<1>3. t \in Runners
  BY <1>1, LoopFacts, RunnerFacts
<1>4. /\ pc'[t] \in {"handler", "signal"} /\ (pc'[t] = "signal" => then'[t] = "handler")
      /\ \A u \in Threads \ {t} : pc'[u] = pc[u] /\ then'[u] = then[u]
      /\ op_queue_' # <<>> => signalled'
      /\ (InterruptedAt(t) => interrupted) => (task_interrupted_' => interrupted')
  <2>1. CASE Tail(QueueAt(t)) # <<>>
    <3>1. wake_one_thread(t, "handler", InterruptedAt(t)) /\ TypeOK
      BY <2>1 DEF TakeOp, CoreInv
    <3>2. signalled'
      BY <3>1 DEF wake_one_thread
    <3>3. /\ pc'[t] \in {"handler", "signal"} /\ (pc'[t] = "signal" => then'[t] = "handler")
          /\ \A u \in Threads \ {t} : pc'[u] = pc[u] /\ then'[u] = then[u]
      BY <1>2, <3>1, WakeFacts
    <3>4. (InterruptedAt(t) => interrupted) => (task_interrupted_' => interrupted')
      BY <1>2, <3>1, WakeReactor
    <3>5. QED
      BY <3>2, <3>3, <3>4
  <2>2. CASE Tail(QueueAt(t)) = <<>>
    <3>1. /\ pc' = [pc EXCEPT ![t] = "handler"]
          /\ task_interrupted_' = InterruptedAt(t)
          /\ UNCHANGED <<then, signalled, interrupted>>
      BY <2>2 DEF TakeOp
    <3>2. QED
      BY <1>1, <2>2, <3>1 DEF CoreInv, TypeOK
  <2>3. QED
    BY <2>1, <2>2
<1>5. OnlyMoves(t) /\ Awake(t)' /\ At(t)' # "task"
  BY <1>1, <1>4 DEF OnlyMoves, CoreInv, TypeOK, Awake, Asleep, Blocked, At
<1>6. ASSUME NEW u \in Threads, At(u)' = "task", blocks'[u], task_interrupted_' PROVE interrupted'
  <2>1. u \in Threads \ {t} /\ At(u) = "task" /\ blocks[u]
    BY <1>1, <1>5, <1>6, OthersStay
  <2>2. pc[t] # "cleanup"
    BY <1>1, <2>1, NobodyReacts
  <2>3. InterruptedAt(t) => interrupted
    BY <2>1, <2>2 DEF InterruptedAt, WakeOK
  <2>4. QED
    BY <1>4, <1>6, <2>3
<1>7. QED
  BY <1>1, <1>3, <1>4, <1>5, <1>6, WakeAll

LEMMA RunTaskWakes ==
  ASSUME CoreInv, WakeOK, NEW t \in Threads, RunTask(t)
  PROVE  WakeOK'
<1> USE DEF strandVars, poolVars, queueVars, eventVars
<1>1. PICK found : TaskReturns(t, found)
  BY DEF RunTask
<1>2. /\ pc[t] = "task" /\ pc' = [pc EXCEPT ![t] = "cleanup"]
      /\ private_op_queue' = [private_op_queue EXCEPT ![t] = found]
      /\ UNCHANGED <<op_queue_, stopped_, task_interrupted_, signalled, woken, then, blocks, op, owed>>
      /\ UNCHANGED <<fn, program>>
  BY <1>1 DEF TaskReturns, RunTask
<1>3. OnlyMoves(t) /\ pc'[t] = "cleanup" /\ At(t) = "task" /\ At(t)' = "cleanup"
  BY <1>2 DEF OnlyMoves, CoreInv, TypeOK, At
<1>4. t \in Runners /\ Awake(t)'
  BY <1>3, RunnerFacts DEF Awake, Asleep, Blocked
<1>5. \A u \in Threads : At(u)' # "task"
  <2>1. \A u \in Threads \ {t} : At(u) # "task"
    BY <1>3, OneReactor DEF Reacting
  <2>2. QED
    BY <1>3, <2>1, OthersStay
<1>6. op_queue_' # <<>> => signalled' \/ Waiters' = {}
  <2>1. \A u \in Threads : pc'[u] = "wait" => pc[u] = "wait"
    BY <1>2 DEF CoreInv, TypeOK
  <2>2. Waiters' \subseteq Waiters
    BY <2>1 DEF Waiters
  <2>3. QED
    BY <1>2, <2>2 DEF WakeOK
<1>7. stopped_' => signalled'
  BY <1>2 DEF WakeOK
<1>8. QED
  BY <1>3, <1>4, <1>5, <1>6, <1>7, WakeAll

\* Whoever posts wakes a thread, or finds one awake.
LEMMA PostWakes ==
  ASSUME CoreInv, WakeOK, NEW t \in Threads, NEW x, NEW next \in {"finish", "outside"},
         post_immediate_completion(t, x, next),
         UNCHANGED <<blocks, private_op_queue, op, fn, program>>,
         owed' = owed \/ owed' = [owed EXCEPT ![t] = owed[t] - 1],
         At(t) # "task", pc[t] # "wait", At(t) # "outside" \/ program = "pool"
  PROVE  WakeOK'
<1>1. /\ wake_one_thread(t, next, task_interrupted_) /\ UNCHANGED <<stopped_, woken>>
      /\ TypeOK /\ task_interrupted_ \in BOOLEAN
  BY DEF post_immediate_completion, CoreInv, TypeOK
<1>2. signalled'
  BY <1>1 DEF wake_one_thread
<1>3. /\ pc'[t] \in {next, "signal"} /\ (pc'[t] = "signal" => then'[t] = next)
      /\ At(t)' = next
      /\ \A u \in Threads \ {t} : pc'[u] = pc[u] /\ then'[u] = then[u]
  BY <1>1, WakeFacts
<1>4. OnlyMoves(t) /\ pc'[t] \notin {"wait", "task"}
  BY <1>3 DEF OnlyMoves, CoreInv, TypeOK
<1>5. ASSUME NEW u \in Threads, At(u)' = "task", blocks'[u], task_interrupted_' PROVE interrupted'
  <2>1. At(u) = "task" /\ blocks[u]
    BY <1>3, <1>4, <1>5, OthersStay
  <2>2. task_interrupted_ => interrupted
    BY <2>1 DEF WakeOK
  <2>3. QED
    BY <1>1, <1>5, <2>2, WakeReactor
<1>6. CASE At(t) # "outside"
  <2>1. t \in Runners /\ Awake(t)'
    BY <1>4, <1>6, RunnerFacts DEF Awake, Asleep, Blocked
  <2>2. pc'[t] = "signal" => then'[t] # "task"
    BY <1>3
  <2>3. QED
    BY <1>2, <1>4, <1>5, <2>1, <2>2, WakeAll
<1>7. CASE program = "pool"
  <2>1. \A u \in Threads : pc'[u] = "signal" /\ then'[u] = "task" => ~blocks'[u]
    BY <1>3, <1>4 DEF WakeOK, OnlyMoves
  <2>2. \/ \E u \in Runners : Awake(u)'
        \/ \E u \in Threads : pc'[u] = "signal" /\ \E v \in Runners : Asleep(v)'
    <3>1. CASE Waiters \ {t} # {}
      <4>1. PICK u \in Waiters : u # t
        BY <3>1
      <4>2. u \in Threads /\ u \in Runners /\ pc'[u] = "wait"
        BY <1>3, <4>1, WaitersRun DEF Waiters
      <4>3. pc'[t] = "signal"
        BY <1>1, <3>1 DEF wake_one_thread, TypeOK
      <4>4. Asleep(u)' \/ Awake(u)'
        BY <4>2 DEF Awake, Blocked
      <4>5. QED
        BY <4>2, <4>3, <4>4
    <3>2. CASE Waiters \ {t} = {}
      <4>1. PICK u \in Runners : TRUE
        BY UsersAssumption
      <4>2. u \in Threads
        BY DEF Threads
      <4>3. pc'[u] # "wait"
        BY <1>3, <1>4, <3>2, <4>2 DEF Waiters
      <4>4. pc'[u] # "task"
        <5>1. At(u) # "task"
          BY <1>7, <4>2, OneReactor DEF Reacting
        <5>2. pc[u] # "task"
          BY <5>1 DEF At
        <5>3. QED
          BY <1>3, <1>4, <4>2, <5>2
      <4>5. Awake(u)'
        BY <4>3, <4>4 DEF Awake, Asleep, Blocked
      <4>6. QED
        BY <4>5
    <3>3. QED
      BY <3>1, <3>2
  <2>3. QED
    BY <1>2, <1>5, <2>1, <2>2 DEF WakeOK
<1>8. QED
  BY <1>6, <1>7

LEMMA RepostWakes ==
  ASSUME CoreInv, WakeOK, NEW t \in Threads, Repost(t), UNCHANGED program
  PROVE  WakeOK'
<1>1. /\ post_immediate_completion(t, Invoker, "finish") /\ pc[t] = "repost"
      /\ owed' = [owed EXCEPT ![t] = owed[t] - 1]
      /\ UNCHANGED <<fn, blocks, private_op_queue, op>>
  BY DEF Repost
<1>2. At(t) = "repost"
  BY <1>1 DEF At
<1>3. QED
  BY <1>1, <1>2, PostWakes

LEMMA LambdaWakes ==
  ASSUME CoreInv, WakeOK, NEW t \in Posters, NEW x \in Lambdas, Post(t, x)
  PROVE  WakeOK'
<1>1. /\ post_immediate_completion(t, x, "outside") /\ pc[t] = "outside" /\ program = "pool"
      /\ UNCHANGED <<fn, blocks, private_op_queue, op, owed, program>>
  BY DEF Post
<1>2. At(t) = "outside" /\ t \in Threads
  BY <1>1 DEF At, Threads
<1>3. QED
  BY <1>1, <1>2, PostWakes

\* The steps that leave the queue and the event alone.
LEMMA QuietWakes ==
  ASSUME CoreInv, WakeOK, NEW t \in Threads,
         \/ (run(t) \/ PollAgain(t) \/ work_finished(t)) /\ UNCHANGED others
         \/ (StartInvoker(t) \/ RunReady(t, "check") \/ InvokerExit(t)) /\ UNCHANGED program
         \/ TimerHandler(t) \/ Check(t) \/ Count(t) \/ Rearm(t)
         \/ WriteHandler(t) \/ RunLambda(t) \/ \E again \in BOOLEAN : SocketHandler(t, again)
  PROVE  WakeOK'
<1> USE DEF queueVars, taskVars, eventVars, strandVars, printerVars, poolVars, Goto
<1> DEFINE quiet ==
     /\ OnlyMoves(t) /\ pc[t] # "signal" /\ pc[t] # "wait"
     /\ pc'[t] \notin {"wait", "signal", "task"}
     /\ UNCHANGED <<op_queue_, stopped_, task_interrupted_, interrupted, signalled, woken>>
<1>1. TypeOK
  BY DEF CoreInv
<1>2. CASE (run(t) \/ PollAgain(t)) /\ UNCHANGED others
  <2>1. quiet
    BY <1>1, <1>2 DEF run, PollAgain, others, OnlyMoves, TypeOK
  <2>2. QED
    BY <2>1, WakeStays
<1>3. CASE work_finished(t) /\ UNCHANGED others
  <2>1. quiet
    BY <1>1, <1>3 DEF work_finished, others, OnlyMoves, TypeOK
  <2>2. QED
    BY <2>1, WakeStays
<1>4. CASE (StartInvoker(t) \/ RunReady(t, "check")) /\ UNCHANGED program
  <2>1. quiet
    BY <1>1, <1>4 DEF StartInvoker, RunReady, OnlyMoves, TypeOK
  <2>2. QED
    BY <2>1, WakeStays
<1>5. CASE InvokerExit(t) /\ UNCHANGED program
  <2>1. quiet
    BY <1>1, <1>5 DEF InvokerExit, OnlyMoves, TypeOK
  <2>2. QED
    BY <2>1, WakeStays
<1>6. CASE TimerHandler(t)
  <2>1. quiet
    BY <1>1, <1>6 DEF TimerHandler, dispatch, OnlyMoves, TypeOK
  <2>2. QED
    BY <2>1, WakeStays
<1>7. CASE Check(t) \/ Count(t) \/ Rearm(t)
  <2>1. quiet
    BY <1>1, <1>7 DEF Check, Count, Rearm, OnlyMoves, TypeOK
  <2>2. QED
    BY <2>1, WakeStays
<1>8. CASE WriteHandler(t) \/ RunLambda(t) \/ \E again \in BOOLEAN : SocketHandler(t, again)
  <2>1. quiet
    BY <1>1, <1>8 DEF WriteHandler, RunLambda, SocketHandler, OnlyMoves, TypeOK
  <2>2. QED
    BY <2>1, WakeStays
<1>9. QED
  BY <1>2, <1>3, <1>4, <1>5, <1>6, <1>7, <1>8

\* Steps that leave all that the invariant speaks of alone.
LEMMA StutterStep ==
  ASSUME SchedulerInv, UNCHANGED vars
  PROVE  SchedulerInv'
<1> USE DEF vars, schedulerVars, queueVars, taskVars, eventVars, threadVars, strandVars, printerVars, poolVars
<1>1. PICK t \in Threads : TRUE
  BY UsersAssumption DEF Threads
<1>2. /\ OnlyMoves(t) /\ Held(t)' = Held(t) /\ Armed' = Armed /\ At(t)' = At(t)
      /\ Waiters' = Waiters /\ cost' = cost
  BY DEF OnlyMoves, Held, At, Found, Armed, Waiters, cost
<1>3. TypeOK' /\ ThreadOK(t)'
  <2>1. TypeOK'
    BY <1>2 DEF SchedulerInv, TypeOK
  <2>2. ThreadOK(t)
    BY DEF SchedulerInv, ThreadsOK
  <2>3. QED
    BY <1>2, <2>1, <2>2 DEF ThreadOK
<1>4. /\ CoreInv /\ pc'[t] = pc[t]
      /\ pc'[t] = "count" => m_count < Limit
      /\ pc'[t] = "stop" \/ (pc'[t] = "returned" /\ ~polls) => outstanding_work_ = 0
  BY DEF SchedulerInv, CoreInv, CountOK, StopsWithoutWork
<1>5. CoreInv'
  BY <1>2, <1>3, <1>4, QuietStep
<1>6. WakeOK'
  <2>1. /\ \A u \in Threads : At(u)' = At(u)
        /\ \A u \in Threads : (Awake(u)' <=> Awake(u)) /\ (Asleep(u)' <=> Asleep(u))
    BY DEF At, Awake, Asleep, Blocked
  <2>2. \A u \in Runners : (Awake(u)' <=> Awake(u)) /\ (Asleep(u)' <=> Asleep(u))
    BY <2>1 DEF Threads
  <2>3. QED
    BY <1>2, <2>1, <2>2 DEF SchedulerInv, WakeOK
<1>7. QED
  BY <1>5, <1>6 DEF CoreInv, SchedulerInv

LEMMA ExpireWakes ==
  ASSUME CoreInv, WakeOK, NEW x \in Timers, Expire(x)
  PROVE  WakeOK'
<1> USE DEF schedulerVars, queueVars, taskVars, eventVars, threadVars
<1>1. UNCHANGED <<op_queue_, stopped_, task_interrupted_, interrupted, signalled, woken, pc, then, blocks>>
  BY DEF Expire
<1>2. /\ \A u \in Threads : At(u)' = At(u)
      /\ \A u \in Threads : (Awake(u)' <=> Awake(u)) /\ (Asleep(u)' <=> Asleep(u))
      /\ Waiters' = Waiters
  BY <1>1 DEF At, Awake, Asleep, Blocked, Waiters
<1>3. \A u \in Runners : (Awake(u)' <=> Awake(u)) /\ (Asleep(u)' <=> Asleep(u))
  BY <1>2 DEF Threads
<1>4. QED
  BY <1>1, <1>2, <1>3 DEF WakeOK
-----------------------------------------------------------------------------
LEMMA CoreAndWake ==
  /\ SchedulerInv <=> CoreInv /\ WakeOK
  /\ SchedulerInv' <=> CoreInv' /\ WakeOK'
  BY DEF SchedulerInv, CoreInv

LEMMA SchedulerStepKeeps ==
  ASSUME SchedulerInv, NEW t \in Threads, SchedulerStep(t)
  PROVE  SchedulerInv'
<1>1. CoreInv /\ WakeOK
  BY CoreAndWake
<1>2. UNCHANGED others
  BY DEF SchedulerStep, others
<1>3. CASE Signal(t)
  BY <1>1, <1>2, <1>3, CoreAndWake, SignalStep, SignalWakes
<1>4. CASE stop(t)
  BY <1>1, <1>2, <1>4, CoreAndWake, StopStep, StopWakes
<1>5. CASE run(t)
  BY <1>1, <1>2, <1>5, CoreAndWake, RunStep, QuietWakes
<1>6. CASE Return(t) \/ PollReturns(t)
  BY <1>1, <1>2, <1>6, CoreAndWake, ReturnStep, ReturnWakes
<1>7. CASE Wait(t)
  BY <1>1, <1>2, <1>7, CoreAndWake, WaitStep, WaitWakes
<1>8. CASE WaitAgain(t)
  BY <1>1, <1>2, <1>8, CoreAndWake, SleepStep, SleepWakes
<1>9. CASE TakeTask(t) \/ PollTask(t)
  BY <1>1, <1>2, <1>9, CoreAndWake, TakeTaskStep, TakeTaskWakes
<1>10. CASE PollAgain(t)
  BY <1>1, <1>2, <1>10, CoreAndWake, PollAgainStep, QuietWakes
<1>11. CASE TakeOp(t, cost)
  BY <1>1, <1>2, <1>11, CoreAndWake, TakeOpStep, TakeOpWakes
<1>12. CASE work_finished(t)
  BY <1>1, <1>2, <1>12, CoreAndWake, WorkFinishedStep, QuietWakes
<1>13. QED
  BY <1>3, <1>4, <1>5, <1>6, <1>7, <1>8, <1>9, <1>10, <1>11, <1>12 DEF SchedulerStep

LEMMA StrandStepKeeps ==
  ASSUME SchedulerInv, NEW t \in Threads, StrandStep(t)
  PROVE  SchedulerInv'
<1>1. CoreInv /\ WakeOK
  BY CoreAndWake
<1>2. UNCHANGED <<program, printerVars, poolVars>> /\ UNCHANGED program
  BY DEF StrandStep
<1>3. CASE StartInvoker(t)
  BY <1>1, <1>2, <1>3, CoreAndWake, StartInvokerStep, QuietWakes
<1>4. CASE RunReady(t, "check")
  BY <1>1, <1>2, <1>4, CoreAndWake, RunReadyStep, QuietWakes
<1>5. CASE InvokerExit(t)
  BY <1>1, <1>2, <1>5, CoreAndWake, InvokerExitStep, QuietWakes
<1>6. CASE Repost(t)
  BY <1>1, <1>2, <1>6, CoreAndWake, RepostStep, RepostWakes
<1>7. QED
  BY <1>3, <1>4, <1>5, <1>6 DEF StrandStep

LEMMA ThreadStepKeeps ==
  ASSUME SchedulerInv, NEW t \in Threads, ThreadStep(t)
  PROVE  SchedulerInv'
<1>1. CoreInv /\ WakeOK
  BY CoreAndWake
<1>2. CASE SchedulerStep(t)
  BY <1>2, SchedulerStepKeeps
<1>3. CASE StrandStep(t)
  BY <1>3, StrandStepKeeps
<1>4. CASE RunTask(t)
  BY <1>1, <1>4, CoreAndWake, RunTaskStep, RunTaskWakes
<1>5. CASE TimerHandler(t)
  BY <1>1, <1>5, CoreAndWake, TimerHandlerStep, QuietWakes
<1>6. CASE Check(t)
  BY <1>1, <1>6, CoreAndWake, CheckStep, QuietWakes
<1>7. CASE Count(t)
  BY <1>1, <1>7, CoreAndWake, CountStep, QuietWakes
<1>8. CASE Rearm(t)
  BY <1>1, <1>8, CoreAndWake, RearmStep, QuietWakes
<1>9. CASE WriteHandler(t)
  BY <1>1, <1>9, CoreAndWake, WriteHandlerStep, QuietWakes
<1>10. CASE RunLambda(t)
  BY <1>1, <1>10, CoreAndWake, RunLambdaStep, QuietWakes
<1>11. CASE \E again \in BOOLEAN : SocketHandler(t, again)
  BY <1>1, <1>11, CoreAndWake, SocketHandlerStep, QuietWakes
<1>12. QED
  BY <1>2, <1>3, <1>4, <1>5, <1>6, <1>7, <1>8, <1>9, <1>10, <1>11 DEF ThreadStep

LEMMA NextKeeps ==
  ASSUME SchedulerInv, [Next]_vars
  PROVE  SchedulerInv'
<1>1. CoreInv /\ WakeOK
  BY CoreAndWake
<1>2. CASE \E t \in Threads : ThreadStep(t)
  BY <1>2, ThreadStepKeeps
<1>3. CASE \E x \in Timers : Expire(x)
  BY <1>1, <1>3, CoreAndWake, ExpireStep, ExpireWakes
<1>4. CASE \E t \in Posters, x \in Lambdas : Post(t, x)
  BY <1>1, <1>4, CoreAndWake, PostStep, LambdaWakes
<1>5. CASE \E t \in Threads : SpuriousWakeup(t) /\ UNCHANGED <<strandVars, fn, program, printerVars, poolVars>>
  <2>1. PICK t \in Threads : SpuriousWakeup(t) /\ UNCHANGED others
    BY <1>5 DEF others
  <2>2. QED
    BY <1>1, <2>1, CoreAndWake, SleepStep, SleepWakes
<1>6. CASE UNCHANGED vars
  BY <1>6, StutterStep
<1>7. QED
  BY <1>2, <1>3, <1>4, <1>5, <1>6 DEF Next

\* Everything that can be queued is in one place, the count of outstanding
\* work is what is under way, and the wake-up event is told of all that is
\* queued: the inductive invariant of the scheduler, its strand and its users.
THEOREM SchedulerInvariant == Spec => []SchedulerInv
<1>1. Init => SchedulerInv
  BY InitCore
<1>2. SchedulerInv /\ [Next]_vars => SchedulerInv'
  BY NextKeeps
<1>3. QED
  BY <1>1, <1>2, PTL DEF Spec
-----------------------------------------------------------------------------
(***************************************************************************)
(* What follows from it.                                                   *)
(***************************************************************************)
LEMMA HoldsInvoker ==
  ASSUME SchedulerInv, NEW t \in Threads
  PROVE  Invoker \in Held(t) <=>
           \/ InStrand(t)
           \/ op[t] = Invoker /\ (pc[t] = "handler" \/ (pc[t] = "signal" /\ then[t] = "handler"))
<1>1. ThreadOK(t) /\ TypeOK
  BY DEF SchedulerInv, ThreadsOK
<1>2. Invoker \notin Found(t)
  <2>1. private_op_queue[t] \in Seq(Timers)
    BY <1>1 DEF TypeOK
  <2>2. QED
    BY <2>1, EmptyRange, UsersAssumption DEF Found
<1>3. Invoker \in Held(t) <=> Invoker \in Hand(At(t), op[t], fn[t])
  BY <1>2 DEF Held
<1>4. InStrand(t) <=> pc[t] \in Stranded
  BY DEF InStrand, Stranded
<1>5. pc[t] \in Stranded <=> At(t) \in Stranded
  BY <1>1 DEF At, ThreadOK, Stranded
<1>6. pc[t] = "handler" \/ (pc[t] = "signal" /\ then[t] = "handler") <=> At(t) = "handler"
  BY DEF At
<1>7. Invoker \in Hand(At(t), op[t], fn[t]) <=>
         At(t) \in Stranded \/ (op[t] = Invoker /\ At(t) = "handler")
  <2>1. Invoker # task_operation_
    BY UsersAssumption
  <2>2. QED
    BY <2>1 DEF Hand, Stranded, Printing, Reacting
<1>8. QED
  BY <1>3, <1>4, <1>5, <1>6, <1>7

LEMMA InvOneHolder ==
  ASSUME SchedulerInv
  PROVE  StrandHasOneHolder
<1> DEFINE threads == {t \in Threads : Invoker \in Held(t)}
           queued == {i \in DOMAIN op_queue_ : op_queue_[i] = Invoker}
<1>1. Holders = ({"thread"} \X threads) \cup ({"queued"} \X queued)
  <2>1. threads = {t \in Threads : \/ InStrand(t)
                                   \/ /\ op[t] = Invoker
                                      /\ pc[t] = "handler" \/ (pc[t] = "signal" /\ then[t] = "handler")}
    BY HoldsInvoker
  <2>2. QED
    BY <2>1 DEF Holders
<1> HIDE DEF threads
<1>2. /\ OnePlace /\ TypeOK /\ (locked_ <=> Invoker \in Somewhere)
      /\ ~locked_ => waiting_queue_ = <<>> /\ ready_queue_ = <<>>
  BY DEF SchedulerInv, ProgramOK
<1>3. Invoker \in Queued <=> queued # {}
  BY DEF Queued, Range
<1>4. Invoker \in Somewhere <=> threads # {} \/ queued # {}
  <2>1. Invoker \notin Armed \cup Range(waiting_queue_) \cup Range(ready_queue_)
    BY <1>2, EmptyRange, UsersAssumption DEF Armed, TypeOK
  <2>2. QED
    BY <1>3, <2>1 DEF Somewhere, Shared, threads
<1>5. \A t, u \in threads : t = u
  BY <1>2 DEF threads, OnePlace
<1>6. \A i, j \in queued : i = j
  BY <1>2 DEF OnePlace, IsInjective
<1>7. threads = {} \/ queued = {}
  BY <1>2, <1>3 DEF threads, OnePlace, Shared
<1> HIDE DEF queued
<1>8. CASE ~locked_
  <2>1. threads = {} /\ queued = {}
    BY <1>2, <1>4, <1>8
  <2>2. Holders = {}
    BY <1>1, <2>1
  <2>3. QED
    BY <1>2, <1>8, <2>2 DEF StrandHasOneHolder
<1>9. CASE locked_
  <2>1. \E h \in Holders : Holders = {h}
    <3>1. CASE threads # {}
      <4>1. PICK t \in threads : TRUE
        BY <3>1
      <4>2. threads = {t} /\ queued = {}
        BY <1>5, <1>7, <4>1
      <4>3. Holders = {<<"thread", t>>}
        BY <1>1, <4>2
      <4>4. QED
        BY <4>3
    <3>2. CASE queued # {}
      <4>1. PICK i \in queued : TRUE
        BY <3>2
      <4>2. queued = {i} /\ threads = {}
        BY <1>6, <1>7, <4>1
      <4>3. Holders = {<<"queued", i>>}
        BY <1>1, <4>2
      <4>4. QED
        BY <4>3
    <3>3. QED
      BY <1>2, <1>4, <1>9, <3>1, <3>2
  <2>2. QED
    BY <1>9, <2>1 DEF StrandHasOneHolder
<1>10. QED
  BY <1>8, <1>9

LEMMA InvSeen ==
  ASSUME SchedulerInv
  PROVE  QueuedOpIsSeen
  BY DEF SchedulerInv, WakeOK, QueuedOpIsSeen, Awake, Blocked

\* A locked strand is held by one thread, or by one posted invoker, for any
\* number of threads and timers: dispatch, the invoker's loop, its exit and
\* its posting again hand the strand on without a gap or an overlap.
THEOREM StrandExcludes == Spec => []StrandHasOneHolder
  BY SchedulerInvariant, InvOneHolder, PTL

\* wake_one_thread_and_unlock loses no wake-up, for any number of threads:
\* never do all of them sleep, or block in the reactor, on a queue that is
\* not empty.
THEOREM NoLostWakeup == Spec => []QueuedOpIsSeen
  BY SchedulerInvariant, InvSeen, PTL
-----------------------------------------------------------------------------
\* Where there is no work nothing is under way, except perhaps the reactor.
LEMMA NoWorkNothing ==
  ASSUME SchedulerInv, outstanding_work_ = 0
  PROVE  /\ Pending = {} /\ program # "pool" /\ ~locked_
         /\ Somewhere \subseteq {task_operation_}
         /\ \A t \in Threads : owed[t] = 0 /\ private_op_queue[t] = <<>>
<1>1. TypeOK /\ WorkCounted /\ ThreadsOK /\ ProgramOK
  BY DEF SchedulerInv
<1>2. Pending = {} /\ program # "pool" /\ \A t \in Threads : ~(owed[t] > 0)
  BY <1>1, WorkIsSeen
<1>3. \A t \in Threads : owed[t] = 0
  BY <1>1, <1>2 DEF TypeOK
<1>4. \A t \in Threads : Found(t) = {} /\ private_op_queue[t] = <<>>
  <2>1. TAKE t \in Threads
  <2>2. Found(t) = {}
    BY <1>2 DEF Pending
  <2>3. private_op_queue[t] \in Seq(Timers)
    BY <1>1 DEF TypeOK
  <2>4. QED
    BY <2>2, <2>3, EmptyRange DEF Found
<1>5. \A t \in Threads : Held(t) \subseteq {task_operation_}
  <2>1. TAKE t \in Threads
  <2>2. ThreadOK(t) /\ owed[t] = 0
    BY <1>1, <1>3 DEF ThreadsOK
  <2>3. At(t) # "handler"
    BY <2>2, CostFacts DEF ThreadOK
  <2>4. At(t) \notin Stranded
    BY <2>2 DEF ThreadOK
  <2>5. Hand(At(t), op[t], fn[t]) \subseteq {task_operation_}
    BY <2>3, <2>4 DEF Hand, Printing, Stranded
  <2>6. QED
    BY <1>4, <2>5 DEF Held
<1>6. Armed = {} /\ Queued \subseteq {task_operation_}
  BY <1>2 DEF Pending
<1>7. Invoker \notin Somewhere
  <2>1. Invoker \notin Range(waiting_queue_) \cup Range(ready_queue_) /\ Invoker # task_operation_
    BY <1>1, EmptyRange, UsersAssumption DEF TypeOK
  <2>2. QED
    BY <1>5, <1>6, <2>1 DEF Somewhere, Shared
<1>8. ~locked_ /\ waiting_queue_ = <<>> /\ ready_queue_ = <<>>
  BY <1>1, <1>7 DEF ProgramOK
<1>9. Range(waiting_queue_) = {} /\ Range(ready_queue_) = {}
  BY <1>8 DEF Range
<1>10. Somewhere \subseteq {task_operation_}
  BY <1>5, <1>6, <1>9 DEF Somewhere, Shared
<1>11. QED
  BY <1>2, <1>3, <1>4, <1>8, <1>10

\* A thread whose poll() has returned left nothing but the reactor queued.
PollsDry == polls => \A t \in Threads : pc[t] = "returned" => Queued \subseteq {task_operation_}

\* The first entry is the reactor only when nothing else is there.
LEMMA ReactorIsLast ==
  ASSUME CoreInv, NEW t \in Threads, pc[t] = "cleanup", Head(QueueAt(t)) = task_operation_
  PROVE  Queued = {} /\ Found(t) = {}
<1> DEFINE S == Ops \cup {task_operation_}
           p == private_op_queue[t]
           r == Append(p, task_operation_)
<1>1. op_queue_ \in Seq(S) /\ p \in Seq(S) /\ p \in Seq(Timers) /\ task_operation_ \in S
  <2>1. op_queue_ \in Seq(S) /\ p \in Seq(Timers)
    BY DEF CoreInv, TypeOK
  <2>2. QED
    BY <2>1, SeqMonotonic DEF Ops
<1>2. QueueAt(t) = op_queue_ \o r
  BY DEF QueueAt
<1>3. task_operation_ \notin Queued
  BY OneReactor DEF At, Reacting
<1>4. /\ r \in Seq(S) /\ Len(r) = Len(p) + 1 /\ Len(p) \in Nat
      /\ \A i \in 1..Len(p) : r[i] = p[i]
  BY <1>1, AppendProperties
<1> HIDE DEF S, r
<1>5. Len(op_queue_) \in Nat /\ Len(op_queue_ \o r) = Len(op_queue_) + Len(r)
      /\ \A i \in 1..(Len(op_queue_) + Len(r)) :
            (op_queue_ \o r)[i] = IF i <= Len(op_queue_) THEN op_queue_[i] ELSE r[i - Len(op_queue_)]
  <2>1. op_queue_ \in Seq(S) /\ r \in Seq(S)
    BY <1>1, <1>4
  <2>2. Len(op_queue_) \in Nat
    BY <2>1
  <2>3. QED
    BY <2>1, <2>2, ConcatProperties
<1>6. Head(op_queue_ \o r) = (op_queue_ \o r)[1]
  BY <1>4, <1>5
<1>7. op_queue_ = <<>>
  <2>1. SUFFICES ASSUME op_queue_ # <<>> PROVE FALSE
    OBVIOUS
  <2>2. 1 \in 1..Len(op_queue_) /\ op_queue_[1] \in Range(op_queue_)
    <3>1. Len(op_queue_) # 0
      BY <1>1, <2>1, EmptySeq
    <3>2. 1 \in 1..Len(op_queue_) /\ DOMAIN op_queue_ = 1..Len(op_queue_)
      BY <1>1, <1>5, <3>1
    <3>3. QED
      BY <3>2 DEF Range
  <2>3. (op_queue_ \o r)[1] = op_queue_[1]
    BY <1>4, <1>5, <2>2
  <2>4. QED
    BY <1>2, <1>3, <1>6, <2>2, <2>3 DEF Queued
<1>8. p = <<>>
  <2>1. SUFFICES ASSUME p # <<>> PROVE FALSE
    OBVIOUS
  <2>2. 1 \in 1..Len(p) /\ p[1] \in Timers
    <3>1. Len(p) # 0
      BY <1>1, <2>1, EmptySeq
    <3>2. 1 \in 1..Len(p)
      BY <1>4, <3>1
    <3>3. QED
      BY <1>1, <3>2
  <2>3. Len(op_queue_) = 0
    BY <1>7
  <2>4. (op_queue_ \o r)[1] = r[1] /\ r[1] = p[1]
    BY <1>4, <1>5, <2>2, <2>3
  <2>5. QED
    BY <1>2, <1>6, <2>2, <2>4, UsersAssumption
<1>9. QED
  BY <1>7, <1>8 DEF Queued, Found, Range

\* How threads come to be "returned", and who moves.
LEMMA WhoReturns ==
  ASSUME TypeOK, ThreadsOK, NEW t \in Threads, ThreadStep(t)
  PROVE  /\ pc[t] # "outside" /\ (pc[t] = "returned" => pc'[t] # "returned")
         /\ \A u \in Threads \ {t} : pc'[u] = pc[u]
         /\ polls' = polls
         /\ pc'[t] = "returned" => Return(t) \/ PollReturns(t) \/ stop(t)
<1> USE DEF TypeOK, Goto, queueVars, taskVars, eventVars, threadVars
<1>1. CASE Return(t) \/ PollReturns(t)
  BY <1>1 DEF Return, PollReturns, AtLoop
<1>2. CASE stop(t)
  BY <1>2 DEF stop
<1>3. CASE Signal(t)
  <2>1. then[t] \in {"task", "handler", "finish", "outside"}
    BY <1>3 DEF Signal, ThreadsOK, ThreadOK
  <2>2. QED
    BY <1>3, <2>1 DEF Signal
<1>4. CASE run(t) \/ PollAgain(t) \/ Wait(t) \/ WaitAgain(t)
  BY <1>4 DEF run, PollAgain, Wait, WaitAgain, AtLoop
<1>5. CASE TakeTask(t) \/ PollTask(t)
  BY <1>5 DEF TakeTask, PollTask, AtLoop
<1>6. CASE TakeOp(t, cost)
  <2>1. /\ pc' = [pc EXCEPT ![t] = "handler"] \/ pc' = [pc EXCEPT ![t] = "signal"]
        /\ AtLoop(t) /\ polls' = polls
    BY <1>6 DEF TakeOp, wake_one_thread
  <2>2. QED
    BY <2>1 DEF AtLoop
<1>7. CASE work_finished(t)
  BY <1>7 DEF work_finished
<1>8. CASE RunTask(t)
  BY <1>8 DEF RunTask, TaskReturns
<1>9. CASE StartInvoker(t) \/ RunReady(t, "check") \/ InvokerExit(t)
  BY <1>9 DEF StartInvoker, RunReady, InvokerExit
<1>10. CASE Repost(t)
  BY <1>10 DEF Repost, post_immediate_completion, wake_one_thread
<1>11. CASE TimerHandler(t)
  BY <1>11 DEF TimerHandler, dispatch
<1>12. CASE Check(t) \/ Count(t) \/ Rearm(t) \/ WriteHandler(t) \/ RunLambda(t)
  BY <1>12 DEF Check, Count, Rearm, WriteHandler, RunLambda
<1>13. CASE \E again \in BOOLEAN : SocketHandler(t, again)
  BY <1>13 DEF SocketHandler
<1>14. QED
  BY <1>1, <1>2, <1>3, <1>4, <1>5, <1>6, <1>7, <1>8, <1>9, <1>10, <1>11, <1>12, <1>13
  DEF ThreadStep, SchedulerStep, StrandStep

LEMMA PollsDryKept ==
  ASSUME SchedulerInv, PollsDry, [Next]_vars
  PROVE  PollsDry'
<1>1. CoreInv /\ TypeOK /\ ThreadsOK /\ ProgramOK
  BY DEF SchedulerInv, CoreInv
<1>2. CASE UNCHANGED <<pc, op_queue_, polls>>
  BY <1>2 DEF PollsDry, Queued
<1>3. CASE \E t \in Threads : ThreadStep(t)
  <2>1. PICK t \in Threads : ThreadStep(t)
    BY <1>3
  <2>2. /\ pc[t] # "outside" /\ (pc[t] = "returned" => pc'[t] # "returned")
        /\ \A u \in Threads \ {t} : pc'[u] = pc[u]
        /\ polls' = polls
        /\ pc'[t] = "returned" => Return(t) \/ PollReturns(t) \/ stop(t)
    BY <1>1, <2>1, WhoReturns
  <2>3. SUFFICES ASSUME polls, NEW u \in Threads, pc'[u] = "returned"
                 PROVE  Queued' \subseteq {task_operation_}
    BY <2>2 DEF PollsDry
  <2>4. u = t
    BY <1>1, <2>2, <2>3 DEF ProgramOK
  <2>5. CASE outstanding_work_ = 0 /\ (Return(t) \/ stop(t))
    <3>1. Pending = {} /\ Somewhere \subseteq {task_operation_}
      BY <2>5, NoWorkNothing
    <3>2. Queued \subseteq {task_operation_} /\ Held(t) \subseteq {task_operation_}
      BY <3>1 DEF Somewhere, Shared
    <3>3. CASE Return(t)
      <4>1. op_queue_' = QueueAt(t) /\ AtLoop(t)
        BY <3>3 DEF Return
      <4>2. Range(QueueAt(t)) = Queued \cup Held(t)
        BY <1>1, <4>1, LoopFacts
      <4>3. QED
        BY <3>2, <4>1, <4>2 DEF Queued
    <3>4. CASE stop(t)
      BY <3>2, <3>4 DEF stop, Queued
    <3>5. QED
      BY <2>5, <3>3, <3>4
  <2>6. CASE PollReturns(t)
    <3>1. pc[t] = "cleanup" /\ Head(QueueAt(t)) = task_operation_ /\ op_queue_' = QueueAt(t) /\ AtLoop(t)
      BY <2>6 DEF PollReturns, AtLoop
    <3>2. Queued = {} /\ Found(t) = {}
      BY <1>1, <3>1, ReactorIsLast
    <3>3. Range(QueueAt(t)) = Queued \cup Held(t) /\ Held(t) \subseteq Found(t) \cup {task_operation_}
      BY <1>1, <3>1, LoopFacts
    <3>4. QED
      BY <3>1, <3>2, <3>3 DEF Queued
  <2>7. Return(t) \/ stop(t) => outstanding_work_ = 0
    BY DEF Return, stop, SchedulerInv, StopsWithoutWork
  <2>8. QED
    BY <2>2, <2>3, <2>4, <2>5, <2>6, <2>7
<1>4. CASE \E x \in Timers : Expire(x)
  BY <1>2, <1>4 DEF Expire, schedulerVars, queueVars, threadVars, taskVars
<1>5. CASE \E t \in Posters, x \in Lambdas : Post(t, x)
  <2>1. program = "pool" /\ polls' = polls
    BY <1>5 DEF Post, post_immediate_completion
  <2>2. ~polls'
    BY <1>1, <2>1 DEF ProgramOK
  <2>3. QED
    BY <2>2 DEF PollsDry
<1>6. CASE \E t \in Threads : SpuriousWakeup(t) /\ UNCHANGED <<strandVars, fn, program, printerVars, poolVars>>
  BY <1>2, <1>6 DEF SpuriousWakeup, queueVars, threadVars, taskVars
<1>7. CASE UNCHANGED vars
  BY <1>2, <1>7 DEF vars, schedulerVars, queueVars, threadVars, taskVars
<1>8. QED
  BY <1>3, <1>4, <1>5, <1>6, <1>7 DEF Next

LEMMA PollsDryAlways == Spec => []PollsDry
<1>1. Init => PollsDry
  <2>1. Init => \A t \in Threads : pc[t] # "returned"
    BY InitPrograms
  <2>2. QED
    BY <2>1 DEF PollsDry
<1>2. SchedulerInv /\ PollsDry /\ [Next]_vars => PollsDry'
  BY PollsDryKept
<1>3. QED
  BY <1>1, <1>2, SchedulerInvariant, PTL DEF Spec

LEMMA InvReturns ==
  ASSUME SchedulerInv, PollsDry
  PROVE  ReturnsWhenDone
<1>1. CoreInv /\ TypeOK /\ ThreadsOK /\ ProgramOK /\ StopsWithoutWork
  BY DEF SchedulerInv, CoreInv
<1>2. SUFFICES ASSUME NEW t \in Runners, pc[t] = "returned"
               PROVE  /\ program # "pool"
                      /\ \A i \in DOMAIN op_queue_ : op_queue_[i] = task_operation_
                      /\ \A u \in Threads : private_op_queue[u] = <<>> /\ owed[u] = 0
                      /\ program = "timers" =>
                            /\ \A x \in Timers : timer[x] = "idle"
                            /\ waiting_queue_ = <<>> /\ ready_queue_ = <<>>
  BY <1>1 DEF ReturnsWhenDone
<1>3. t \in Threads
  BY DEF Threads
<1>4. Queued \subseteq {task_operation_} => \A i \in DOMAIN op_queue_ : op_queue_[i] = task_operation_
  BY DEF Queued, Range
<1>5. CASE ~polls
  <2>1. outstanding_work_ = 0
    BY <1>1, <1>2, <1>3, <1>5 DEF StopsWithoutWork
  <2>2. /\ Pending = {} /\ program # "pool" /\ ~locked_
        /\ Somewhere \subseteq {task_operation_}
        /\ \A u \in Threads : owed[u] = 0 /\ private_op_queue[u] = <<>>
    BY <2>1, NoWorkNothing
  <2>3. \A x \in Timers : timer[x] = "idle"
    BY <2>2 DEF Pending, Armed
  <2>4. Queued \subseteq {task_operation_}
    BY <2>2 DEF Somewhere, Shared
  <2>5. waiting_queue_ = <<>> /\ ready_queue_ = <<>>
    BY <1>1, <2>2 DEF ProgramOK
  <2>6. QED
    BY <1>4, <2>2, <2>3, <2>4, <2>5
<1>6. CASE polls
  <2>1. program = "poll" /\ \A u \in Threads : u # t => pc[u] = "outside"
    BY <1>1, <1>2, <1>3, <1>6 DEF ProgramOK
  <2>2. \A u \in Threads : private_op_queue[u] = <<>> /\ owed[u] = 0
    <3>1. TAKE u \in Threads
    <3>2. pc[u] \in {"outside", "returned"} /\ At(u) = pc[u] /\ ThreadOK(u)
      BY <1>1, <1>2, <2>1 DEF At, ThreadsOK
    <3>3. QED
      BY <3>2 DEF ThreadOK, Free
  <2>3. Queued \subseteq {task_operation_}
    BY <1>2, <1>3, <1>6 DEF PollsDry
  <2>4. QED
    BY <1>4, <2>1, <2>2, <2>3
<1>7. QED
  BY <1>5, <1>6

LEMMA InvCount ==
  ASSUME SchedulerInv
  PROVE  CountIsExact
<1>1. TypeOK /\ ProgramOK /\ StopsWithoutWork /\ CountOK /\ Limit \in Nat /\ m_count \in Nat
  BY UsersAssumption DEF SchedulerInv, TypeOK
<1>2. ASSUME program = "timers", NEW t \in Runners, pc[t] = "returned"
      PROVE  m_count = Limit
  <2>1. outstanding_work_ = 0
    BY <1>1, <1>2 DEF StopsWithoutWork, ProgramOK, Threads
  <2>2. Somewhere \subseteq {task_operation_}
    BY <2>1, NoWorkNothing
  <2>3. ~(Timers \subseteq Somewhere)
    BY <2>2, UsersAssumption
  <2>4. QED
    BY <1>1, <1>2, <2>3 DEF CountOK
<1>3. QED
  BY <1>1, <1>2 DEF CountIsExact, CountOK

\* outstanding_work_ is counted up and down so that run() and poll() return
\* only when nothing is queued, owed, set or waiting, and the types hold with
\* a count of work that is never negative, for any number of threads.
THEOREM ReturnsOnlyWhenDone == Spec => []ReturnsWhenDone
  BY SchedulerInvariant, PollsDryAlways, InvReturns, PTL

\* Printer's count, which printA and printB read and raise without a lock of
\* their own, reaches the limit and never passes it.
THEOREM CountsExactly == Spec => []CountIsExact
  BY SchedulerInvariant, InvCount, PTL
-----------------------------------------------------------------------------
(***************************************************************************)
(* The queue without the reactor's entry.                                  *)
(***************************************************************************)
Entries == Ops \cup {task_operation_}

LEMMA ReactorIsNoOp == task_operation_ \notin Ops /\ NoOp \notin Ops /\ Ops \subseteq Entries
  BY UsersAssumption DEF Ops, Entries

LEMMA OpsOfJoined ==
  ASSUME NEW u \in Seq(Ops), NEW v \in Seq(Ops)
  PROVE  /\ u \o (<<task_operation_>> \o v) \in Seq(Entries)
         /\ OpsOf(u \o (<<task_operation_>> \o v)) = u \o v
<1> DEFINE k == task_operation_
           r == <<k>> \o v
           q == u \o r
<1>1. /\ u \in Seq(Entries) /\ v \in Seq(Entries) /\ <<k>> \in Seq(Entries)
      /\ Len(<<k>>) = 1 /\ <<k>>[1] = k
  BY SeqMonotonic, ReactorIsNoOp DEF Entries
<1>2. /\ r \in Seq(Entries) /\ Len(r) = 1 + Len(v)
      /\ \A i \in 1..(1 + Len(v)) : r[i] = IF i <= 1 THEN <<k>>[i] ELSE v[i - 1]
  BY <1>1, ConcatProperties
<1>3. Len(u) \in Nat /\ Len(v) \in Nat
  OBVIOUS
<1> HIDE DEF r
<1>4. /\ q \in Seq(Entries) /\ Len(q) = Len(u) + (1 + Len(v))
      /\ \A i \in 1..(Len(u) + (1 + Len(v))) :
            q[i] = IF i <= Len(u) THEN u[i] ELSE r[i - Len(u)]
  <2>1. /\ q \in Seq(Entries) /\ Len(q) = Len(u) + Len(r)
        /\ \A i \in 1..(Len(u) + Len(r)) :
              q[i] = IF i <= Len(u) THEN u[i] ELSE r[i - Len(u)]
    BY <1>1, <1>2, ConcatProperties
  <2> HIDE DEF q
  <2>2. QED
    BY <1>2, <2>1
<1>5. DOMAIN q = 1..(Len(u) + Len(v) + 1)
  BY <1>3, <1>4
<1> HIDE DEF q
<1>6. \A i \in 1..Len(u) : q[i] = u[i] /\ u[i] \in Ops
  BY <1>3, <1>4, ElementOfSeq
<1>7. q[Len(u) + 1] = k
  BY <1>1, <1>2, <1>3, <1>4
<1>8. \A i \in 1..Len(v) : q[Len(u) + 1 + i] = v[i] /\ v[i] \in Ops
  <2>1. SUFFICES ASSUME NEW i \in 1..Len(v)
                 PROVE  q[Len(u) + 1 + i] = v[i] /\ v[i] \in Ops
    OBVIOUS
  <2>2. q[Len(u) + 1 + i] = r[i + 1]
    BY <1>3, <1>4
  <2>3. r[i + 1] = v[i]
    BY <1>2, <1>3
  <2>4. QED
    BY <2>2, <2>3, ElementOfSeq
<1>9. \A i \in DOMAIN q : q[i] = k => i = Len(u) + 1
  <2>1. SUFFICES ASSUME NEW i \in DOMAIN q, i # Len(u) + 1 PROVE q[i] # k
    OBVIOUS
  <2>2. i \in 1..Len(u) \/ (i - (Len(u) + 1) \in 1..Len(v) /\ i = Len(u) + 1 + (i - (Len(u) + 1)))
    BY <1>3, <1>5, <2>1
  <2>3. q[i] \in Ops
    BY <1>6, <1>8, <2>2
  <2>4. QED
    BY <2>3, ReactorIsNoOp
<1>10. Len(u) + 1 \in DOMAIN q
  BY <1>3, <1>5
<1>11. k \in Range(q)
  BY <1>7, <1>10 DEF Range
<1>12. (CHOOSE i \in DOMAIN q : q[i] = k) = Len(u) + 1
  BY <1>7, <1>9, <1>10
<1>13. OpsOf(q) = SubSeq(q, 1, Len(u)) \o SubSeq(q, Len(u) + 2, Len(q))
  <2>1. OpsOf(q) = RemoveAt(q, Len(u) + 1)
    BY <1>11, <1>12 DEF OpsOf
  <2>2. (Len(u) + 1) - 1 = Len(u) /\ (Len(u) + 1) + 1 = Len(u) + 2
    BY <1>3
  <2>3. QED
    BY <2>1, <2>2 DEF RemoveAt
<1>14. SubSeq(q, 1, Len(u)) = u
  <2> DEFINE a == SubSeq(q, 1, Len(u))
  <2>1. \A i \in 1..Len(u) : q[i] \in Ops
    BY <1>6
  <2>2. /\ a \in Seq(Ops) /\ Len(a) = IF 1 <= Len(u) THEN Len(u) - 1 + 1 ELSE 0
        /\ \A i \in 1..(Len(u) - 1 + 1) : a[i] = q[1 + i - 1]
    BY <1>3, <2>1, SubSeqProperties
  <2> HIDE DEF a
  <2>3. Len(a) = Len(u) /\ \A i \in 1..Len(a) : a[i] = u[i]
    BY <1>3, <1>6, <2>2
  <2>4. a = u
    BY <2>2, <2>3, SeqEqual
  <2>5. QED
    BY <2>4 DEF a
<1>15. SubSeq(q, Len(u) + 2, Len(q)) = v
  <2> DEFINE a == SubSeq(q, Len(u) + 2, Len(q))
  <2>1. \A i \in (Len(u) + 2)..Len(q) : q[i] \in Ops
    <3>1. SUFFICES ASSUME NEW i \in (Len(u) + 2)..Len(q) PROVE q[i] \in Ops
      OBVIOUS
    <3>2. i - (Len(u) + 1) \in 1..Len(v) /\ i = Len(u) + 1 + (i - (Len(u) + 1))
      BY <1>3, <1>4
    <3>3. QED
      BY <1>8, <3>2
  <2>2. Len(u) + 2 \in Int /\ Len(q) \in Int
    BY <1>3, <1>4
  <2>3. /\ a \in Seq(Ops)
        /\ Len(a) = IF Len(u) + 2 <= Len(q) THEN Len(q) - (Len(u) + 2) + 1 ELSE 0
        /\ \A i \in 1..(Len(q) - (Len(u) + 2) + 1) : a[i] = q[(Len(u) + 2) + i - 1]
    BY <2>1, <2>2, SubSeqProperties
  <2> HIDE DEF a
  <2>4. Len(a) = Len(v)
    BY <1>3, <1>4, <2>3
  <2>5. \A i \in 1..Len(a) : a[i] = v[i]
    <3>1. SUFFICES ASSUME NEW i \in 1..Len(v) PROVE a[i] = v[i]
      BY <2>4
    <3>2. i \in 1..(Len(q) - (Len(u) + 2) + 1) /\ (Len(u) + 2) + i - 1 = Len(u) + 1 + i
      BY <1>3, <1>4
    <3>3. QED
      BY <1>8, <2>3, <3>2
  <2>6. a = v
    BY <2>3, <2>4, <2>5, SeqEqual
  <2>7. QED
    BY <2>6 DEF a
<1>16. QED
  BY <1>4, <1>13, <1>14, <1>15 DEF q, r

LEMMA OpsOfPlain ==
  ASSUME NEW q \in Seq(Ops)
  PROVE  OpsOf(q) = q
<1>1. Range(q) \subseteq Ops
  BY EmptyRange
<1>2. QED
  BY <1>1, ReactorIsNoOp DEF OpsOf

\* The reactor's entry is not in the queue, or it parts it in two.
LEMMA QueueParts ==
  ASSUME NEW q \in Seq(Entries), IsInjective(q)
  PROVE  \/ q \in Seq(Ops) /\ OpsOf(q) = q
         \/ \E u, v \in Seq(Ops) : q = u \o (<<task_operation_>> \o v) /\ OpsOf(q) = u \o v
<1> DEFINE k == task_operation_
<1>1. /\ DOMAIN q = 1..Len(q) /\ Len(q) \in Nat
      /\ \A i \in 1..Len(q) : q[i] \in Entries /\ (q[i] # k => q[i] \in Ops)
  BY ElementOfSeq DEF Entries
<1>2. CASE k \notin Range(q)
  <2>1. \A i \in 1..Len(q) : q[i] \in Ops
    BY <1>1, <1>2 DEF Range
  <2>2. q \in Seq(Ops)
    BY <1>1, <2>1
  <2>3. QED
    BY <2>2, OpsOfPlain
<1>3. CASE k \in Range(q)
  <2>1. PICK n \in 1..Len(q) : q[n] = k
    BY <1>1, <1>3 DEF Range
  <2>2. \A i \in 1..Len(q) : i # n => q[i] \in Ops
    BY <1>1, <2>1 DEF IsInjective
  <2> DEFINE u == SubSeq(q, 1, n - 1)
             v == SubSeq(q, n + 1, Len(q))
             w == SubSeq(q, n, Len(q))
  <2>3. u \in Seq(Ops)
    <3>1. \A i \in 1..(n - 1) : q[i] \in Ops
      BY <1>1, <2>2
    <3>2. n - 1 \in Int /\ 1 \in Int
      BY <1>1
    <3>3. QED
      BY <3>1, <3>2, SubSeqProperties
  <2>4. v \in Seq(Ops)
    <3>1. \A i \in (n + 1)..Len(q) : q[i] \in Ops
      BY <1>1, <2>2
    <3>2. n + 1 \in Int /\ Len(q) \in Int
      BY <1>1
    <3>3. QED
      BY <3>1, <3>2, SubSeqProperties
  <2>5. w = <<k>> \o v
    <3>1. Len(q) \in n..Len(q)
      BY <1>1
    <3>2. QED
      BY <2>1, <3>1, SubSeqRecursiveFirst
  <2>6. q = u \o w
    <3>1. /\ 1 \in 1..(Len(q) + 1) /\ n - 1 \in (1 - 1)..Len(q) /\ Len(q) \in (n - 1)..Len(q)
          /\ (n - 1) + 1 = n
      BY <1>1
    <3>2. SubSeq(q, 1, n - 1) \o SubSeq(q, (n - 1) + 1, Len(q)) = SubSeq(q, 1, Len(q))
      BY <3>1, ConcatAdjacentSubSeq
    <3>3. SubSeq(q, 1, Len(q)) = q
      BY SubSeqFull
    <3>4. QED
      BY <3>1, <3>2, <3>3
  <2> HIDE DEF u, v, w
  <2>7. q = u \o (<<k>> \o v) /\ OpsOf(q) = u \o v
    BY <2>3, <2>4, <2>5, <2>6, OpsOfJoined
  <2>8. QED
    BY <2>3, <2>4, <2>7
<1>4. QED
  BY <1>2, <1>3

LEMMA OpsOfType ==
  ASSUME NEW q \in Seq(Entries), IsInjective(q)
  PROVE  OpsOf(q) \in Seq(Ops)
<1>1. ASSUME NEW u \in Seq(Ops), NEW v \in Seq(Ops), OpsOf(q) = u \o v
      PROVE  OpsOf(q) \in Seq(Ops)
  <2>1. u \o v \in Seq(Ops)
    BY ConcatProperties
  <2>2. QED
    BY <1>1, <2>1
<1>2. QED
  BY <1>1, QueueParts

\* Appending, and taking the first entry.
LEMMA OpsOfAppend ==
  ASSUME NEW q \in Seq(Entries), IsInjective(q), NEW x \in Ops
  PROVE  OpsOf(q) \in Seq(Ops) /\ OpsOf(Append(q, x)) = OpsOf(q) \o <<x>>
<1> DEFINE k == task_operation_
<1>1. x \in Entries /\ <<x>> \in Seq(Ops) /\ <<x>> \in Seq(Entries)
  BY ReactorIsNoOp
<1>2. Append(q, x) = q \o <<x>>
  BY <1>1, AppendIsConcat
<1>3. CASE q \in Seq(Ops) /\ OpsOf(q) = q
  <2>1. q \o <<x>> \in Seq(Ops)
    BY <1>1, <1>3, ConcatProperties
  <2>2. QED
    BY <1>2, <1>3, <2>1, OpsOfPlain
<1>4. ASSUME NEW u \in Seq(Ops), NEW v \in Seq(Ops), q = u \o (<<k>> \o v), OpsOf(q) = u \o v
      PROVE  OpsOf(q) \in Seq(Ops) /\ OpsOf(Append(q, x)) = OpsOf(q) \o <<x>>
  <2>1. v \o <<x>> \in Seq(Ops) /\ u \o v \in Seq(Ops)
    BY <1>1, ConcatProperties
  <2>2. u \in Seq(Entries) /\ v \in Seq(Entries) /\ <<k>> \in Seq(Entries)
    BY SeqMonotonic, ReactorIsNoOp DEF Entries
  <2>3. <<k>> \o v \in Seq(Entries)
    BY <2>2, ConcatProperties
  <2>4. (u \o (<<k>> \o v)) \o <<x>> = u \o ((<<k>> \o v) \o <<x>>)
    BY <1>1, <2>2, <2>3, ConcatAssociative
  <2>5. (<<k>> \o v) \o <<x>> = <<k>> \o (v \o <<x>>)
    BY <1>1, <2>2, ConcatAssociative
  <2>6. OpsOf(u \o (<<k>> \o (v \o <<x>>))) = u \o (v \o <<x>>)
    BY <2>1, OpsOfJoined
  <2>7. (u \o v) \o <<x>> = u \o (v \o <<x>>)
    BY <1>1, ConcatAssociative
  <2>8. QED
    BY <1>2, <1>4, <2>1, <2>4, <2>5, <2>6, <2>7
<1>5. QED
  BY <1>3, <1>4, QueueParts

LEMMA HeadTailConcat ==
  ASSUME NEW S, NEW s \in Seq(S), NEW r \in Seq(S), s # <<>>
  PROVE  /\ s = <<Head(s)>> \o Tail(s) /\ <<Head(s)>> \in Seq(S) /\ Tail(s) \in Seq(S)
         /\ Head(s \o r) = Head(s) /\ Tail(s \o r) = Tail(s) \o r
<1>1. /\ Head(s) \in S /\ Tail(s) \in Seq(S) /\ Len(Tail(s)) = Len(s) - 1
      /\ Len(s) \in Nat \ {0} /\ Head(s) = s[1]
  BY HeadTailProperties, EmptySeq
<1>2. <<Head(s)>> \in Seq(S)
  BY <1>1
<1>3. s = <<Head(s)>> \o Tail(s)
  <2>1. 1 \in 1..Len(s) /\ Len(s) \in 1..Len(s) /\ 1 + 1 = 2
    BY <1>1
  <2>2. SubSeq(s, 1, Len(s)) = <<s[1]>> \o SubSeq(s, 1 + 1, Len(s))
    BY <2>1, SubSeqRecursiveFirst
  <2>3. SubSeq(s, 1, Len(s)) = s /\ Tail(s) = SubSeq(s, 2, Len(s))
    BY SubSeqFull, TailIsSubSeq
  <2>4. QED
    BY <1>1, <2>1, <2>2, <2>3
<1> DEFINE q == s \o r
<1>4. /\ q \in Seq(S) /\ Len(q) = Len(s) + Len(r)
      /\ \A i \in 1..(Len(s) + Len(r)) : q[i] = IF i <= Len(s) THEN s[i] ELSE r[i - Len(s)]
  BY ConcatProperties
<1>5. Len(r) \in Nat
  OBVIOUS
<1> HIDE DEF q
<1>6. q # <<>>
  BY <1>1, <1>4, <1>5, EmptySeq
<1>7. Head(q) = q[1] /\ q[1] = s[1]
  BY <1>1, <1>4, <1>5, <1>6
<1> DEFINE a == Tail(q)
           b == Tail(s) \o r
<1>8. /\ a \in Seq(S) /\ Len(a) = Len(q) - 1 /\ \A i \in 1..Len(a) : a[i] = q[i + 1]
  BY <1>4, <1>6, HeadTailProperties
<1>9. /\ b \in Seq(S) /\ Len(b) = Len(Tail(s)) + Len(r)
      /\ \A i \in 1..(Len(Tail(s)) + Len(r)) :
            b[i] = IF i <= Len(Tail(s)) THEN Tail(s)[i] ELSE r[i - Len(Tail(s))]
  BY <1>1, ConcatProperties
<1>10. \A i \in 1..Len(Tail(s)) : Tail(s)[i] = s[i + 1]
  BY HeadTailProperties
<1> HIDE DEF a, b
<1>11. Len(a) = Len(b)
  BY <1>1, <1>4, <1>5, <1>8, <1>9
<1>12. \A i \in 1..Len(a) : a[i] = b[i]
  <2>1. SUFFICES ASSUME NEW i \in 1..Len(a) PROVE a[i] = b[i]
    OBVIOUS
  <2>2. a[i] = q[i + 1] /\ i + 1 \in 1..(Len(s) + Len(r)) /\ i \in 1..(Len(Tail(s)) + Len(r))
    BY <1>1, <1>4, <1>5, <1>8, <2>1
  <2>3. CASE i <= Len(s) - 1
    <3>1. q[i + 1] = s[i + 1]
      BY <1>1, <1>4, <1>5, <2>2, <2>3
    <3>2. b[i] = Tail(s)[i]
      BY <1>1, <1>9, <2>2, <2>3
    <3>3. i \in 1..Len(Tail(s))
      BY <1>1, <2>2, <2>3
    <3>4. QED
      BY <1>10, <2>2, <3>1, <3>2, <3>3
  <2>4. CASE ~(i <= Len(s) - 1)
    <3>1. q[i + 1] = r[i + 1 - Len(s)] /\ i + 1 - Len(s) = i - (Len(s) - 1)
      BY <1>1, <1>4, <1>5, <2>2, <2>4
    <3>2. b[i] = r[i - (Len(s) - 1)]
      BY <1>1, <1>9, <2>2, <2>4
    <3>3. QED
      BY <2>2, <3>1, <3>2
  <2>5. QED
    BY <2>3, <2>4
<1>13. a = b
  BY <1>8, <1>9, <1>11, <1>12, SeqEqual
<1>14. QED
  BY <1>1, <1>2, <1>3, <1>7, <1>13 DEF a, b, q

LEMMA OpsOfTail ==
  ASSUME NEW q \in Seq(Entries), IsInjective(q), q # <<>>
  PROVE  /\ Head(q) = task_operation_ => OpsOf(Tail(q)) = OpsOf(q)
         /\ Head(q) # task_operation_ =>
               Head(q) \in Ops /\ OpsOf(q) = <<Head(q)>> \o OpsOf(Tail(q))
<1> DEFINE k == task_operation_
<1>1. CASE q \in Seq(Ops) /\ OpsOf(q) = q
  <2>1. Head(q) \in Ops /\ Tail(q) \in Seq(Ops)
    BY <1>1, HeadTailProperties
  <2>2. q = <<Head(q)>> \o Tail(q)
    BY <1>1, HeadTailConcat
  <2>3. OpsOf(Tail(q)) = Tail(q)
    BY <2>1, OpsOfPlain
  <2>4. QED
    BY <1>1, <2>1, <2>2, <2>3, ReactorIsNoOp
<1>2. ASSUME NEW u \in Seq(Ops), NEW v \in Seq(Ops), q = u \o (<<k>> \o v), OpsOf(q) = u \o v
      PROVE  /\ Head(q) = k => OpsOf(Tail(q)) = OpsOf(q)
             /\ Head(q) # k => Head(q) \in Ops /\ OpsOf(q) = <<Head(q)>> \o OpsOf(Tail(q))
  <2>1. /\ u \in Seq(Entries) /\ v \in Seq(Entries) /\ <<k>> \in Seq(Entries)
        /\ <<k>> # <<>> /\ Head(<<k>>) = k /\ Tail(<<k>>) = <<>>
    BY SeqMonotonic, ReactorIsNoOp DEF Entries
  <2>2. <<k>> \o v \in Seq(Entries) /\ Head(<<k>> \o v) = k /\ Tail(<<k>> \o v) = v
    BY <2>1, HeadTailConcat, ConcatProperties, ConcatEmptySeq
  <2>3. CASE u = <<>>
    <3>1. q = <<k>> \o v /\ OpsOf(q) = v
      BY <1>2, <2>2, <2>3, ConcatEmptySeq
    <3>2. QED
      BY <2>2, <3>1, OpsOfPlain
  <2>4. CASE u # <<>>
    <3>1. /\ Head(q) = Head(u) /\ Tail(q) = Tail(u) \o (<<k>> \o v)
      BY <1>2, <2>1, <2>2, <2>4, HeadTailConcat
    <3>2. /\ Head(u) \in Ops /\ Tail(u) \in Seq(Ops) /\ <<Head(u)>> \in Seq(Ops)
          /\ u = <<Head(u)>> \o Tail(u)
      BY <2>4, HeadTailProperties, HeadTailConcat
    <3>3. OpsOf(Tail(q)) = Tail(u) \o v
      BY <3>1, <3>2, OpsOfJoined
    <3>4. (<<Head(u)>> \o Tail(u)) \o v = <<Head(u)>> \o (Tail(u) \o v)
      BY <3>2, ConcatAssociative
    <3>5. QED
      BY <1>2, <3>1, <3>2, <3>3, <3>4, ReactorIsNoOp
  <2>5. QED
    BY <2>3, <2>4
<1>3. QED
  BY <1>1, <1>2, QueueParts

LEMMA PrefixOfConcat ==
  ASSUME NEW S, NEW s \in Seq(S), NEW w \in Seq(S)
  PROVE  IsPrefix(s, s \o w) /\ IsPrefix(s, s)
<1>1. Len(s) \in Nat /\ Len(w) \in Nat /\ Len(s \o w) = Len(s) + Len(w)
  BY ConcatProperties
<1>2. SubSeq(s \o w, 1, Len(s)) = SubSeq(s, 1, Len(s))
  <2>1. CASE Len(s) = 0
    BY <2>1, SubSeqEmpty
  <2>2. CASE Len(s) # 0
    <3>1. 1 \in 1..Len(s) /\ Len(s) \in 1..Len(s)
      BY <1>1, <2>2
    <3>2. QED
      BY <3>1, SubSeqOfConcat1
  <2>3. QED
    BY <2>1, <2>2
<1>3. Len(s) <= Len(s \o w)
  BY <1>1
<1>4. QED
  BY <1>1, <1>2, <1>3 DEF IsPrefix
-----------------------------------------------------------------------------
(***************************************************************************)
(* The scheduler is a pool of tasks.                                       *)
(***************************************************************************)
Running == [t \in Runners |-> op[t]]

PoolStep == [Pool!Next]_<<OpsOf(op_queue_), Running>>

\* What a thread at the head of its loop puts back comes last.
LEMMA LoopQueue ==
  ASSUME CoreInv, NEW t \in Threads, AtLoop(t)
  PROVE  /\ QueueAt(t) \in Seq(Entries) /\ IsInjective(QueueAt(t))
         /\ IsPrefix(OpsOf(op_queue_), OpsOf(QueueAt(t)))
<1> DEFINE k == task_operation_
           p == private_op_queue[t]
<1>1. QueueAt(t) \in Seq(Entries) /\ IsInjective(QueueAt(t))
  BY LoopFacts DEF Entries
<1>2. op_queue_ \in Seq(Entries) /\ IsInjective(op_queue_) /\ p \in Seq(Timers)
  BY DEF CoreInv, TypeOK, OnePlace, Entries
<1>3. p \in Seq(Ops) /\ <<>> \in Seq(Ops)
  BY <1>2, SeqMonotonic, EmptySeq DEF Ops
<1>4. CASE pc[t] # "cleanup"
  <2>1. QueueAt(t) = op_queue_
    BY <1>4, LoopFacts
  <2>2. OpsOf(op_queue_) \in Seq(Ops)
    BY <1>2, OpsOfType
  <2>3. QED
    BY <1>1, <1>3, <2>1, <2>2, PrefixOfConcat
<1>5. CASE pc[t] = "cleanup"
  <2>1. k \notin Queued
    BY <1>5, LoopFacts DEF CoreInv, OnePlace, Shared
  <2>2. op_queue_ \in Seq(Ops) /\ OpsOf(op_queue_) = op_queue_
    <3>1. Range(op_queue_) \subseteq Ops
      BY <1>2, <2>1, EmptyRange DEF Queued, Entries
    <3>2. op_queue_ \in Seq(Range(op_queue_))
      BY <1>2, SeqOfRange
    <3>3. op_queue_ \in Seq(Ops)
      BY <3>1, <3>2, SeqMonotonic
    <3>4. QED
      BY <3>3, OpsOfPlain
  <2>3. /\ <<k>> \in Seq(Entries) /\ op_queue_ \in Seq(Entries) /\ p \in Seq(Entries)
        /\ k \in Entries
    BY <1>2, <1>3, SeqMonotonic, ReactorIsNoOp DEF Entries
  <2>4. Append(p, k) = p \o <<k>>
    BY <2>3, AppendIsConcat
  <2>5. QueueAt(t) = op_queue_ \o (p \o <<k>>)
    BY <1>5, <2>4 DEF QueueAt
  <2>6. op_queue_ \o (p \o <<k>>) = (op_queue_ \o p) \o <<k>>
    <3> DEFINE e == <<k>>
    <3>1. e \in Seq(Entries) /\ op_queue_ \in Seq(Entries) /\ p \in Seq(Entries)
      BY <2>3
    <3> HIDE DEF e, p
    <3>2. (op_queue_ \o p) \o e = op_queue_ \o (p \o e)
      BY <3>1, ConcatAssociative, SMTT(40)
    <3>3. QED
      BY <3>2 DEF e
  <2>7. <<k>> = <<k>> \o <<>>
    BY <2>3, ConcatEmptySeq
  <2>8. op_queue_ \o p \in Seq(Ops) /\ (op_queue_ \o p) \o <<>> = op_queue_ \o p
    BY <1>3, <2>2, ConcatProperties, ConcatEmptySeq
  <2>9. OpsOf(QueueAt(t)) = op_queue_ \o p
    <3>1. OpsOf((op_queue_ \o p) \o (<<k>> \o <<>>)) = (op_queue_ \o p) \o <<>>
      BY <1>3, <2>8, OpsOfJoined
    <3>2. QED
      BY <2>5, <2>6, <2>7, <2>8, <3>1
  <2>10. QED
    BY <1>1, <1>3, <2>2, <2>9, PrefixOfConcat
<1>6. QED
  BY <1>4, <1>5

LEMMA PoolStutters ==
  ASSUME UNCHANGED <<op_queue_, op>>
  PROVE  PoolStep
<1>1. OpsOf(op_queue_)' = OpsOf(op_queue_)
  BY DEF OpsOf, Range, RemoveAt
<1>2. Running' = Running
  BY DEF Running
<1>3. QED
  BY <1>1, <1>2 DEF PoolStep

LEMMA PoolSubmits ==
  ASSUME IsPrefix(OpsOf(op_queue_), OpsOf(op_queue_')), op' = op
  PROVE  PoolStep
<1>1. OpsOf(op_queue_)' = OpsOf(op_queue_')
  BY DEF OpsOf, Range, RemoveAt
<1>2. Running' = Running
  BY DEF Running
<1>3. Pool!Submit
  BY <1>1, <1>2 DEF Pool!Submit, Running, IsPrefix, Pool!IsPrefix
<1>4. QED
  BY <1>3 DEF PoolStep, Pool!Next

LEMMA PoolStarts ==
  ASSUME TypeOK, NEW t \in Runners, NEW o \in Ops, op[t] = NoOp, op' = [op EXCEPT ![t] = o],
         IsPrefix(OpsOf(op_queue_), <<o>> \o OpsOf(op_queue_'))
  PROVE  PoolStep
<1>1. OpsOf(op_queue_)' = OpsOf(op_queue_')
  BY DEF OpsOf, Range, RemoveAt
<1>2. /\ Running[t] = NoOp /\ Running'[t] = o /\ o # NoOp
      /\ Running' = [Running EXCEPT ![t] = o]
  BY ReactorIsNoOp DEF Running, TypeOK, Threads
<1>3. Pool!Start(t)
  BY <1>1, <1>2 DEF Pool!Start, Running, IsPrefix, Pool!IsPrefix
<1>4. QED
  BY <1>3 DEF PoolStep, Pool!Next

LEMMA PoolFinishes ==
  ASSUME TypeOK, NEW t \in Runners, op[t] \in Ops, op' = [op EXCEPT ![t] = NoOp],
         op_queue_' = op_queue_
  PROVE  PoolStep
<1>1. OpsOf(op_queue_)' = OpsOf(op_queue_)
  BY DEF OpsOf, Range, RemoveAt
<1>2. Running[t] # NoOp /\ Running' = [Running EXCEPT ![t] = NoOp]
  BY ReactorIsNoOp DEF Running, TypeOK, Threads
<1>3. Pool!Finish(t)
  BY <1>1, <1>2 DEF Pool!Finish, Running
<1>4. QED
  BY <1>3 DEF PoolStep, Pool!Next

\* In the order of SchedulerStep's disjuncts.
LEMMA SchedulerStepInPool ==
  ASSUME CoreInv, NEW t \in Threads, SchedulerStep(t)
  PROVE  PoolStep
<1>1. TypeOK /\ ThreadOK(t)
  BY DEF CoreInv, ThreadsOK
<1>2. ASSUME Signal(t) \/ stop(t) \/ run(t) \/ Wait(t) \/ WaitAgain(t) \/ PollAgain(t)
      PROVE  PoolStep
  <2>1. UNCHANGED <<op_queue_, op>>
    BY <1>2 DEF Signal, stop, run, Wait, WaitAgain, PollAgain, queueVars, threadVars
  <2>2. QED
    BY <2>1, PoolStutters
<1>3. ASSUME Return(t) \/ PollReturns(t) PROVE PoolStep
  <2>1. AtLoop(t) /\ op_queue_' = QueueAt(t) /\ op' = op
    BY <1>3 DEF Return, PollReturns, AtLoop
  <2>2. QED
    BY <2>1, LoopQueue, PoolSubmits
<1>4. ASSUME TakeTask(t) \/ PollTask(t) PROVE PoolStep
  <2>1. /\ AtLoop(t) /\ QueueAt(t) # <<>> /\ Head(QueueAt(t)) = task_operation_
        /\ op_queue_' = Tail(QueueAt(t)) /\ op' = op
    <3>1. CASE TakeTask(t)
      BY <3>1 DEF TakeTask
    <3>2. CASE PollTask(t)
      <4>1. AtLoop(t) /\ pc[t] # "cleanup"
        BY <3>2 DEF PollTask, AtLoop
      <4>2. QueueAt(t) = op_queue_
        BY <4>1, LoopFacts
      <4>3. QED
        BY <3>2, <4>1, <4>2 DEF PollTask
    <3>3. QED
      BY <1>4, <3>1, <3>2
  <2>2. OpsOf(op_queue_') = OpsOf(QueueAt(t))
    BY <2>1, LoopQueue, OpsOfTail
  <2>3. QED
    BY <2>1, <2>2, LoopQueue, PoolSubmits
<1>5. ASSUME TakeOp(t, cost) PROVE PoolStep
  <2>1. /\ AtLoop(t) /\ QueueAt(t) # <<>> /\ Head(QueueAt(t)) # task_operation_
        /\ op_queue_' = Tail(QueueAt(t)) /\ op' = [op EXCEPT ![t] = Head(QueueAt(t))]
    BY <1>5 DEF TakeOp
  <2>2. /\ Head(QueueAt(t)) \in Ops
        /\ OpsOf(QueueAt(t)) = <<Head(QueueAt(t))>> \o OpsOf(op_queue_')
    BY <2>1, LoopQueue, OpsOfTail
  <2>3. IsPrefix(OpsOf(op_queue_), <<Head(QueueAt(t))>> \o OpsOf(op_queue_'))
    BY <2>1, <2>2, LoopQueue
  <2>4. op[t] = NoOp /\ At(t) \in {"loop", "cleanup", "wait"}
    BY <2>1, LoopFacts
  <2>5. t \in Runners
    BY <1>1, <2>4 DEF ThreadOK, Threads
  <2>6. QED
    BY <1>1, <2>1, <2>2, <2>3, <2>4, <2>5, PoolStarts
<1>6. ASSUME work_finished(t) PROVE PoolStep
  <2>1. /\ pc[t] = "finish" /\ op_queue_' = op_queue_
        /\ op' = IF owed[t] = 1 THEN [op EXCEPT ![t] = NoOp] ELSE op
    BY <1>6 DEF work_finished
  <2>2. op[t] \in Ops /\ t \in Runners
    BY <1>1, <2>1 DEF ThreadOK, At, Threads
  <2>3. CASE owed[t] = 1
    BY <1>1, <2>1, <2>2, <2>3, PoolFinishes
  <2>4. CASE owed[t] # 1
    BY <2>1, <2>4, PoolStutters
  <2>5. QED
    BY <2>3, <2>4
<1>7. QED
  BY <1>2, <1>3, <1>4, <1>5, <1>6 DEF SchedulerStep

LEMMA AddInPool ==
  ASSUME CoreInv, NEW x \in Ops, op_queue_' = Append(op_queue_, x), op' = op
  PROVE  PoolStep
<1>1. op_queue_ \in Seq(Entries) /\ IsInjective(op_queue_) /\ <<x>> \in Seq(Ops)
  BY DEF CoreInv, TypeOK, OnePlace, Entries
<1>2. OpsOf(op_queue_) \in Seq(Ops) /\ OpsOf(op_queue_') = OpsOf(op_queue_) \o <<x>>
  BY <1>1, OpsOfAppend
<1>3. IsPrefix(OpsOf(op_queue_), OpsOf(op_queue_) \o <<x>>)
  BY <1>1, <1>2, PrefixOfConcat
<1>4. QED
  BY <1>2, <1>3, PoolSubmits

LEMMA OtherStepInPool ==
  ASSUME CoreInv, NEW t \in Threads,
         \/ RunTask(t) \/ StrandStep(t) \/ TimerHandler(t) \/ Check(t) \/ Count(t) \/ Rearm(t)
         \/ WriteHandler(t) \/ RunLambda(t) \/ \E again \in BOOLEAN : SocketHandler(t, again)
  PROVE  PoolStep
<1>1. CASE StrandStep(t) /\ Repost(t)
  <2>1. op_queue_' = Append(op_queue_, Invoker) /\ op' = op /\ Invoker \in Ops
    BY <1>1 DEF Repost, post_immediate_completion, Ops
  <2>2. QED
    BY <2>1, AddInPool
<1>2. ASSUME StartInvoker(t) \/ RunReady(t, "check") \/ InvokerExit(t) PROVE PoolStep
  <2>1. UNCHANGED <<op_queue_, op>>
    BY <1>2 DEF StartInvoker, RunReady, InvokerExit, queueVars
  <2>2. QED
    BY <2>1, PoolStutters
<1>3. ASSUME RunTask(t) \/ TimerHandler(t) \/ Check(t) \/ Count(t) PROVE PoolStep
  <2>1. UNCHANGED <<op_queue_, op>>
    BY <1>3 DEF RunTask, TaskReturns, TimerHandler, dispatch, Check, Count, queueVars
  <2>2. QED
    BY <2>1, PoolStutters
<1>4. ASSUME \/ Rearm(t) \/ WriteHandler(t) \/ RunLambda(t)
             \/ \E again \in BOOLEAN : SocketHandler(t, again)
      PROVE  PoolStep
  <2>1. UNCHANGED <<op_queue_, op>>
    BY <1>4 DEF Rearm, WriteHandler, RunLambda, SocketHandler, queueVars
  <2>2. QED
    BY <2>1, PoolStutters
<1>5. QED
  BY <1>1, <1>2, <1>3, <1>4 DEF StrandStep

LEMMA NextInPool ==
  ASSUME SchedulerInv, [Next]_vars
  PROVE  PoolStep
<1>1. CoreInv
  BY CoreAndWake
<1>2. CASE \E t \in Threads : ThreadStep(t)
  BY <1>1, <1>2, SchedulerStepInPool, OtherStepInPool DEF ThreadStep
<1>3. CASE \E t \in Posters, x \in Lambdas : Post(t, x)
  <2>1. PICK t \in Posters, x \in Lambdas : Post(t, x)
    BY <1>3
  <2>2. op_queue_' = Append(op_queue_, x) /\ op' = op /\ x \in Ops
    BY <2>1 DEF Post, post_immediate_completion, Ops
  <2>3. QED
    BY <1>1, <2>2, AddInPool
<1>4. ASSUME \/ \E x \in Timers : Expire(x)
             \/ \E t \in Threads : SpuriousWakeup(t)
             \/ UNCHANGED vars
      PROVE  PoolStep
  <2>1. UNCHANGED <<op_queue_, op>>
    BY <1>4 DEF Expire, SpuriousWakeup, vars, schedulerVars, queueVars, threadVars
  <2>2. QED
    BY <2>1, PoolStutters
<1>5. QED
  BY <1>2, <1>3, <1>4 DEF Next

LEMMA InitInPool ==
  ASSUME Init
  PROVE  Pool!Init
<1>1. SchedulerInv
  BY InitCore
<1>2. op_queue_ \in Seq(Entries) /\ IsInjective(op_queue_)
  BY <1>1, CoreAndWake DEF CoreInv, TypeOK, OnePlace, Entries
<1>3. OpsOf(op_queue_) \in Seq(Ops)
  BY <1>2, OpsOfType
<1>4. op = [t \in Threads |-> NoOp]
  BY DEF Init, SchedulerInit
<1>5. Running = [t \in Runners |-> NoOp]
  BY <1>4 DEF Running, Threads
<1>6. QED
  BY <1>3, <1>5 DEF Pool!Init, Running

\* Whoever posts, and however many threads run, operations are started in the
\* order they were queued, each once, by a thread that completes nothing else
\* meanwhile: task_cleanup puts what the reactor found behind what is queued,
\* and the reactor's entry, which moves about among them, disturbs nothing.
THEOREM SchedulerRefinesPool == Spec => ImplementsPool
<1>1. Init => Pool!Init
  BY InitInPool
<1>2. SchedulerInv /\ [Next]_vars => [Pool!Next]_<<OpsOf(op_queue_), [t \in Runners |-> op[t]]>>
  BY NextInPool DEF PoolStep, Running
<1>3. QED
  BY <1>1, <1>2, SchedulerInvariant, PTL DEF Spec, ImplementsPool, Pool!Spec
=============================================================================
