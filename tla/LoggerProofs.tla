---------------------------- MODULE LoggerProofs ----------------------------
(***************************************************************************)
(* Proofs about Logger, for any loggers, names, threads and line sizes,    *)
(* any number of lines and flushes, and any choice of the fopen and fwrite *)
(* calls that fail.                                                        *)
(***************************************************************************)
EXTENDS Logger, SequenceTheorems, TLAPS

\* main runs only when every logger has been constructed, and nobody flushes
\* before.
MainAfterConstruction ==
  /\ phase \in {"run", "exit"} => \A l \in Loggers : object[l] # "unborn"
  /\ phase = "init" => \A t \in Threads : pc[t] = "idle"

\* A thread in flush has its logger; one in no call is in none; and the
\* iterator of flush_all_logger points to loggers of the map, so the map may
\* not change before that call has returned.
FlushesALogger ==
  \A t \in Threads :
     /\ pc[t] \in {"open", "write"} => lg[t] \in Loggers
     /\ pc[t] = "idle" => call[t] = "none"
     /\ pc[t] = "next" => call[t] = "all"
     /\ it[t] # {} => call[t] = "all"
     /\ \A n \in it[t] : m_logger_map[n] # NoLogger

\* A logger that was not constructed has retired nothing.
UnbornIsEmpty ==
  \A l \in Loggers : object[l] = "unborn" => flushes[l] = 0 /\ m_curr_cache_block[l] = 0

\* Every flush retired one block, and every block was retired by a flush.
FlushesAccounted ==
  \A l \in Loggers : Accounted(file[m_log_file_name[l]], l, m_ready_flush_cache_block_list[l],
                               lost[l], flushes[l])

LoggerInv ==
  /\ TypeOK
  /\ MainAfterConstruction
  /\ FlushesALogger
  /\ UnbornIsEmpty
  /\ EveryLineGoesBehind
  /\ FlushesAccounted
-----------------------------------------------------------------------------
\* The size log compares with is the largest value of a size_t, and no line
\* is that long.
LEMMA UsableSizeIsMaximal ==
  ASSUME NEW l, NEW size \in LineSizes
  PROVE  size < get_curr_cache_block_usable_size(l)
<1> DEFINE M == 2^SizeBits
<1>1. M \in Nat /\ size \in 0..(M - 2)
  BY LoggerAssumption
<1>2. BlockSize - BlockSize - 1 = -1
  BY LoggerAssumption
<1> HIDE DEF M
<1>3. (-1) % M = M - 1
  BY <1>1
<1>4. QED
  BY <1>1, <1>2, <1>3 DEF get_curr_cache_block_usable_size, M

\* Retiring one more block behind the others.
LEMMA RetireKeepsAccount ==
  ASSUME NEW f, NEW l, NEW list \in Seq(Nat), NEW gone, NEW n \in Nat,
         Accounted(f, l, list, gone, n)
  PROVE  Accounted(f, l, Append(list, n + 1), gone, n + 1)
<1> DEFINE new == Append(list, n + 1)
<1>1. /\ DOMAIN list = 1..Len(list) /\ DOMAIN new = 1..(Len(list) + 1)
      /\ Len(list) \in Nat
      /\ \A i \in 1..Len(list) : new[i] = list[i]
      /\ new[Len(list) + 1] = n + 1
  BY AppendProperties
<1> HIDE DEF new
<1>2. Range(new) = Range(list) \cup {n + 1}
  BY <1>1 DEF Range
<1>3. \A b \in Written(f, l) \cup Range(list) \cup gone : b \in 1..n
  BY DEF Accounted
<1>4. Increasing(new)
  <2>1. \A i \in 1..Len(list) : list[i] \in 1..n
    BY <1>1, <1>3 DEF Range
  <2>2. SUFFICES ASSUME NEW i \in 1..(Len(list) + 1), NEW j \in 1..(Len(list) + 1), i < j
                 PROVE  new[i] < new[j]
    BY <1>1 DEF Increasing
  <2>3. i \in 1..Len(list) /\ (j = Len(list) + 1 \/ j \in 1..Len(list))
    BY <1>1, <2>2, SMTT(30)
  <2>4. CASE j = Len(list) + 1
    <3>1. new[i] \in 1..n /\ new[j] = n + 1
      BY <1>1, <2>1, <2>3, <2>4
    <3>2. QED
      BY <3>1
  <2>5. CASE j \in 1..Len(list)
    <3>1. list[i] < list[j]
      BY <1>1, <2>2, <2>3, <2>5 DEF Accounted, Increasing
    <3>2. QED
      BY <1>1, <2>3, <2>5, <3>1
  <2>6. QED
    BY <2>3, <2>4, <2>5
<1>5. \A b \in Written(f, l), c \in Range(new) : b < c
  BY <1>2, <1>3 DEF Accounted
<1>6. (Written(f, l) \cup Range(new)) \cap gone = {}
  BY <1>2, <1>3 DEF Accounted
<1>7. Written(f, l) \cup Range(new) \cup gone = 1..(n + 1)
  <2>1. 1..(n + 1) = (1..n) \cup {n + 1}
    OBVIOUS
  <2>2. QED
    BY <1>2, <2>1 DEF Accounted
<1>8. QED
  BY <1>4, <1>5, <1>6, <1>7 DEF Accounted, new

\* What fwrite appends to a file.
Appended(l, list, good) == [k \in 1..Len(good) |-> [of |-> l, block |-> list[good[k]]]]

\* The file h is f with the blocks of the list at the positions good behind it.
Extends(h, f, l, list, good) ==
  /\ Len(f) \in Nat /\ Len(good) \in Nat
  /\ DOMAIN good = 1..Len(good) /\ \A k \in 1..Len(good) : good[k] \in 1..Len(list)
  /\ Increasing(good)
  /\ DOMAIN h = 1..(Len(f) + Len(good))
  /\ \A i \in 1..Len(f) : h[i] = f[i]
  /\ \A i \in (Len(f) + 1)..(Len(f) + Len(good)) :
        h[i].of = l /\ h[i].block = list[good[i - Len(f)]]

LEMMA AppendedFacts ==
  ASSUME NEW l \in Loggers, NEW list \in Seq(Nat), NEW good \in SomePositions(Len(list)),
         NEW f \in Seq(Blocks)
  PROVE  /\ Appended(l, list, good) \in Seq(Blocks)
         /\ f \o Appended(l, list, good) \in Seq(Blocks)
         /\ Extends(f \o Appended(l, list, good), f, l, list, good)
<1> DEFINE g == Appended(l, list, good)
<1>1. PICK k \in 0..Len(list) : good \in [1..k -> 1..Len(list)] /\ Increasing(good)
  BY DEF SomePositions
<1>2. Len(list) \in Nat /\ k \in Nat
  OBVIOUS
<1>3. good \in Seq(1..Len(list)) /\ Len(good) = k /\ DOMAIN good = 1..k
  BY <1>1, <1>2
<1>4. \A i \in 1..k : good[i] \in 1..Len(list) /\ list[good[i]] \in Nat
  BY <1>1, <1>2
<1>5. g \in [1..k -> Blocks]
  BY <1>3, <1>4 DEF Appended, Blocks
<1>6. g \in Seq(Blocks) /\ Len(g) = k
  BY <1>2, <1>5
<1>7. \A i \in 1..k : g[i].of = l /\ g[i].block = list[good[i]]
  BY <1>3 DEF Appended
<1> HIDE DEF g
<1>8. /\ f \o g \in Seq(Blocks) /\ Len(f \o g) = Len(f) + k
      /\ \A i \in 1..(Len(f) + k) : (f \o g)[i] = IF i <= Len(f) THEN f[i] ELSE g[i - Len(f)]
  BY <1>6, ConcatProperties
<1>9. /\ \A i \in 1..Len(f) : (f \o g)[i] = f[i]
      /\ \A i \in (Len(f) + 1)..(Len(f) + k) : (f \o g)[i] = g[i - Len(f)] /\ i - Len(f) \in 1..k
  BY <1>2, <1>8
<1>10. DOMAIN (f \o g) = 1..(Len(f) + k)
  BY <1>8
<1>11. \A i \in (Len(f) + 1)..(Len(f) + k) :
          (f \o g)[i].of = l /\ (f \o g)[i].block = list[good[i - Len(f)]]
  BY <1>7, <1>9, ZenonT(40)
<1>12. Len(f) \in Nat
  OBVIOUS
<1>13. QED
  BY <1>1, <1>2, <1>3, <1>4, <1>6, <1>8, <1>9, <1>10, <1>11, <1>12 DEF g, Extends

\* What one logger writes is nothing of another.
LEMMA OthersKeepAccount ==
  ASSUME NEW l \in Loggers, NEW list \in Seq(Nat), NEW good \in SomePositions(Len(list)),
         NEW f \in Seq(Blocks), NEW m \in Loggers, m # l,
         NEW mine, NEW gone, NEW n,
         Accounted(f, m, mine, gone, n)
  PROVE  Accounted(f \o Appended(l, list, good), m, mine, gone, n)
<1> DEFINE h == f \o Appended(l, list, good)
<1>1. /\ DOMAIN f = 1..Len(f) /\ Len(f) \in Nat /\ Len(good) \in Nat
      /\ DOMAIN h = 1..(Len(f) + Len(good))
      /\ \A i \in 1..Len(f) : h[i] = f[i]
      /\ \A i \in (Len(f) + 1)..(Len(f) + Len(good)) : h[i].of = l
  <2>1. DOMAIN f = 1..Len(f)
    OBVIOUS
  <2>2. Extends(h, f, l, list, good)
    BY AppendedFacts
  <2> HIDE DEF h
  <2>3. QED
    BY <2>1, <2>2 DEF Extends
<1> HIDE DEF h
<1>2. InFile(h, m) = InFile(f, m)
  BY <1>1 DEF InFile
<1>3. \A i \in InFile(h, m) : h[i] = f[i]
  BY <1>1, <1>2 DEF InFile
<1>4. Written(h, m) = Written(f, m)
  BY <1>2, <1>3 DEF Written
<1>5. QED
  BY <1>2, <1>3, <1>4 DEF Accounted, h

\* Writing the list, some blocks of it at least, and emptying it.
LEMMA WriteKeepsAccount ==
  ASSUME NEW l \in Loggers, NEW list \in Seq(Nat), NEW good \in SomePositions(Len(list)),
         NEW f \in Seq(Blocks), NEW gone, NEW n,
         Accounted(f, l, list, gone, n)
  PROVE  Accounted(f \o Appended(l, list, good), l, <<>>,
                   gone \cup {list[i] : i \in DOMAIN list \ Range(good)}, n)
<1> DEFINE h == f \o Appended(l, list, good)
           bad == {list[i] : i \in DOMAIN list \ Range(good)}
           put == {list[i] : i \in Range(good)}
<1>1. /\ DOMAIN f = 1..Len(f) /\ Len(f) \in Nat /\ Len(good) \in Nat
      /\ DOMAIN good = 1..Len(good) /\ \A k \in 1..Len(good) : good[k] \in 1..Len(list)
      /\ Increasing(good)
      /\ DOMAIN h = 1..(Len(f) + Len(good))
      /\ \A i \in 1..Len(f) : h[i] = f[i]
      /\ \A i \in (Len(f) + 1)..(Len(f) + Len(good)) :
            h[i].of = l /\ h[i].block = list[good[i - Len(f)]]
  <2>1. Extends(h, f, l, list, good)
    BY AppendedFacts
  <2> HIDE DEF h
  <2>2. QED
    BY <2>1 DEF Extends
<1>2. DOMAIN list = 1..Len(list) /\ Len(list) \in Nat /\ \A i \in 1..Len(list) : list[i] \in Nat
  OBVIOUS
<1> HIDE DEF h
<1>3. InFile(h, l) = InFile(f, l) \cup (Len(f) + 1)..(Len(f) + Len(good))
  BY <1>1 DEF InFile
<1>4. InFile(f, l) \subseteq 1..Len(f)
  BY <1>1 DEF InFile
<1>5. Range(good) \subseteq DOMAIN list
  BY <1>1, <1>2 DEF Range
<1>6. Written(h, l) = Written(f, l) \cup put
  <2>1. \A i \in InFile(f, l) : h[i].block = f[i].block
    BY <1>1, <1>4
  <2>2. {h[i].block : i \in (Len(f) + 1)..(Len(f) + Len(good))} = put
    <3>1. \A k \in 1..Len(good) : /\ k + Len(f) \in (Len(f) + 1)..(Len(f) + Len(good))
                                  /\ (k + Len(f)) - Len(f) = k
      BY <1>1
    <3>2. \A i \in (Len(f) + 1)..(Len(f) + Len(good)) : i - Len(f) \in 1..Len(good)
      BY <1>1
    <3>3. \A k \in 1..Len(good) : h[k + Len(f)].block = list[good[k]]
      BY <1>1, <3>1
    <3>4. Range(good) = {good[k] : k \in 1..Len(good)}
      BY <1>1 DEF Range
    <3>5. \A i \in (Len(f) + 1)..(Len(f) + Len(good)) : h[i].block \in put
      BY <1>1, <3>2, <3>4
    <3>6. \A b \in put : \E i \in (Len(f) + 1)..(Len(f) + Len(good)) : h[i].block = b
      <4> SUFFICES ASSUME NEW b \in put
                   PROVE  \E i \in (Len(f) + 1)..(Len(f) + Len(good)) : h[i].block = b
        OBVIOUS
      <4>1. PICK p \in Range(good) : b = list[p]
        OBVIOUS
      <4>2. PICK k \in 1..Len(good) : p = good[k]
        BY <3>4
      <4>3. h[k + Len(f)].block = b
        BY <3>3, <4>1, <4>2
      <4>4. QED
        BY <3>1, <4>3
    <3>7. QED
      BY <3>5, <3>6
  <2>3. Written(h, l) = {h[i].block : i \in InFile(f, l)}
                           \cup {h[i].block : i \in (Len(f) + 1)..(Len(f) + Len(good))}
    BY <1>3 DEF Written
  <2>4. QED
    BY <2>1, <2>2, <2>3, ZenonT(40) DEF Written
<1>7. put \cup bad = Range(list) /\ put \cap bad = {}
  <2>1. \A i, j \in DOMAIN list : list[i] = list[j] => i = j
    BY <1>2 DEF Accounted, Increasing
  <2>2. QED
    BY <1>5, <2>1 DEF Range
<1>8. ASSUME NEW i \in InFile(h, l), NEW j \in InFile(h, l), i < j
      PROVE  h[i].block < h[j].block
  <2>1. CASE j \in InFile(f, l)
    <3>1. i \in InFile(f, l)
      BY <1>1, <1>3, <1>4, <1>8, <2>1
    <3>2. QED
      BY <1>1, <1>4, <1>8, <2>1, <3>1 DEF Accounted
  <2>2. CASE j \notin InFile(f, l)
    <3>1. /\ j \in (Len(f) + 1)..(Len(f) + Len(good)) /\ j - Len(f) \in 1..Len(good)
          /\ h[j].block = list[good[j - Len(f)]]
      BY <1>1, <1>3, <2>2
    <3>2. CASE i \in InFile(f, l)
      <4>1. h[i].block \in Written(f, l)
        BY <1>1, <1>4, <3>2 DEF Written
      <4>2. h[j].block \in Range(list)
        BY <1>1, <1>2, <3>1 DEF Range
      <4>3. QED
        BY <4>1, <4>2 DEF Accounted
    <3>3. CASE i \notin InFile(f, l)
      <4>1. /\ i \in (Len(f) + 1)..(Len(f) + Len(good)) /\ i - Len(f) \in 1..Len(good)
            /\ h[i].block = list[good[i - Len(f)]]
        BY <1>1, <1>3, <3>3
      <4>2. i - Len(f) < j - Len(f)
        BY <1>1, <1>8, <3>1, <4>1
      <4>3. good[i - Len(f)] < good[j - Len(f)]
        BY <1>1, <3>1, <4>1, <4>2 DEF Increasing
      <4>4. QED
        BY <1>1, <1>2, <3>1, <4>1, <4>3 DEF Accounted, Increasing
    <3>4. QED
      BY <3>2, <3>3
  <2>3. QED
    BY <2>1, <2>2
<1>9. Increasing(<<>>) /\ Range(<<>>) = {}
  BY DEF Increasing, Range
<1>10. Written(f, l) \cap Range(list) = {}
  <2>1. \A i \in DOMAIN list : ~(list[i] < list[i])
    BY <1>2
  <2>2. QED
    BY <2>1 DEF Accounted, Range
<1>11. Written(h, l) \cap (gone \cup bad) = {}
  BY <1>6, <1>7, <1>10 DEF Accounted
<1>12. Written(h, l) \cup gone \cup bad = 1..n
  BY <1>6, <1>7 DEF Accounted
<1>13. QED
  BY <1>8, <1>9, <1>11, <1>12 DEF Accounted, h
-----------------------------------------------------------------------------
\* The initial states satisfy the invariant.
LEMMA InitLoggerInv == Init => LoggerInv
<1> SUFFICES ASSUME Init PROVE LoggerInv
  OBVIOUS
<1>1. TypeOK
  <2>1. <<>> \in Seq(Nat) /\ <<>> \in Seq(Blocks) /\ 0 \in 0..MaxLines
    BY LoggerAssumption
  <2>2. /\ m_ready_flush_cache_block_list \in [Loggers -> Seq(Nat)]
        /\ behind \in [Loggers -> Seq(Nat)]
        /\ file \in [Names -> Seq(Blocks)]
    BY <2>1 DEF Init
  <2>3. QED
    BY <2>1, <2>2 DEF Init, TypeOK
<1>2. MainAfterConstruction /\ FlushesALogger /\ UnbornIsEmpty
  BY DEF Init, MainAfterConstruction, FlushesALogger, UnbornIsEmpty
<1>3. EveryLineGoesBehind
  BY DEF Init, EveryLineGoesBehind
<1>4. ASSUME NEW l \in Loggers
      PROVE  Accounted(file[m_log_file_name[l]], l, m_ready_flush_cache_block_list[l],
                       lost[l], flushes[l])
  <2>1. /\ file[m_log_file_name[l]] = <<>> /\ m_ready_flush_cache_block_list[l] = <<>>
        /\ lost[l] = {} /\ flushes[l] = 0
    BY DEF Init
  <2>2. DOMAIN <<>> = {} /\ 1..0 = {}
    OBVIOUS
  <2>3. QED
    BY <2>1, <2>2 DEF Accounted, InFile, Written, Increasing, Range
<1>5. QED
  BY <1>1, <1>2, <1>3, <1>4 DEF LoggerInv, FlushesAccounted

\* Nothing is accounted for differently when no block moves.
LEMMA AccountUnchanged ==
  ASSUME FlushesAccounted,
         UNCHANGED <<m_log_file_name, file, lost, flushes, m_ready_flush_cache_block_list>>
  PROVE  FlushesAccounted'
BY DEF FlushesAccounted

\* Static initialization: constructing the manager and the loggers.
LEMMA ConstructionKeepsInv ==
  ASSUME LoggerInv,
         ConstructManager \/ (\E l \in Loggers : ConstructLogger(l)) \/ EnterMain
  PROVE  LoggerInv'
<1> USE DEF LoggerInv, managerVars, cacheVars, threadVars, lineVars, fileVars
<1>1. FlushesAccounted'
  <2>1. UNCHANGED <<m_log_file_name, file, lost, flushes, m_ready_flush_cache_block_list>>
    BY DEF ConstructManager, ConstructLogger, EnterMain
  <2>2. QED
    BY <2>1, AccountUnchanged
<1>2. CASE ConstructManager
  <2>1. TypeOK'
    BY <1>2 DEF ConstructManager, TypeOK
  <2>2. MainAfterConstruction' /\ FlushesALogger' /\ UnbornIsEmpty' /\ EveryLineGoesBehind'
    BY <1>2
    DEF ConstructManager, MainAfterConstruction, FlushesALogger, UnbornIsEmpty,
        EveryLineGoesBehind
  <2>3. QED
    BY <1>1, <2>1, <2>2
<1>3. ASSUME NEW l \in Loggers, ConstructLogger(l)
      PROVE  LoggerInv'
  <2>1. m_logger_map' \in [Names -> Loggers \cup {NoLogger}]
    BY <1>3 DEF ConstructLogger, add_logger, TypeOK
  <2>2. TypeOK'
    BY <1>3, <2>1 DEF ConstructLogger, TypeOK
  <2>3. phase' \in {"init", "crashed"} /\ \A t \in Threads : pc[t] = "idle"
    BY <1>3 DEF ConstructLogger, MainAfterConstruction
  <2>4. MainAfterConstruction'
    BY <1>3, <2>3 DEF ConstructLogger, MainAfterConstruction
  <2>5. \A t \in Threads : it[t] = {}
    BY <2>3 DEF FlushesALogger
  <2>6. FlushesALogger'
    BY <1>3, <2>5 DEF ConstructLogger, FlushesALogger
  <2>7. UnbornIsEmpty' /\ EveryLineGoesBehind'
    BY <1>3 DEF ConstructLogger, TypeOK, UnbornIsEmpty, EveryLineGoesBehind
  <2>8. QED
    BY <1>1, <2>2, <2>4, <2>6, <2>7
<1>4. CASE EnterMain
  <2>1. TypeOK'
    BY <1>4 DEF EnterMain, TypeOK
  <2>2. MainAfterConstruction' /\ FlushesALogger' /\ UnbornIsEmpty' /\ EveryLineGoesBehind'
    BY <1>4
    DEF EnterMain, MainAfterConstruction, FlushesALogger, UnbornIsEmpty,
        EveryLineGoesBehind
  <2>3. QED
    BY <1>1, <2>1, <2>2
<1>5. QED
  BY <1>2, <1>3, <1>4

\* log swaps no block: the line goes behind the current one.
LEMMA LogKeepsInv ==
  ASSUME LoggerInv,
         NEW t \in Threads, NEW l \in Loggers, NEW size \in LineSizes, Log(t, l, size)
  PROVE  LoggerInv'
<1> USE DEF LoggerInv, managerVars, threadVars, fileVars
<1>1. size < get_curr_cache_block_usable_size(l)
  BY UsableSizeIsMaximal
<1>2. ~(size >= get_curr_cache_block_usable_size(l))
  <2>1. size \in Int /\ get_curr_cache_block_usable_size(l) \in Int
    <3>1. BlockSize - BlockSize - 1 \in Int /\ 2^SizeBits \in Nat /\ 2^SizeBits > 0
          /\ size \in Int
      BY LoggerAssumption
    <3>2. \A a \in Int, b \in Nat : b > 0 => a % b \in Int
      OBVIOUS
    <3>3. QED
      BY <3>1, <3>2 DEF get_curr_cache_block_usable_size
  <2>2. QED
    BY <1>1, <2>1
<1>3. /\ phase = "run" /\ lines[l] < MaxLines
      /\ lines' = [lines EXCEPT ![l] = @ + 1]
      /\ behind' = [behind EXCEPT ![l] = Append(@, m_curr_cache_block[l])]
      /\ UNCHANGED <<phase, manager, m_logger_map, m_log_file_name, object>>
      /\ UNCHANGED <<m_curr_cache_block, m_ready_flush_cache_block_list, flushes>>
      /\ UNCHANGED <<pc, call, lg, it, file, lost, unopened>>
  BY <1>1, <1>2 DEF Log
<1>4. FlushesAccounted'
  BY <1>3, AccountUnchanged
<1>5. behind[l] \in Seq(Nat) /\ m_curr_cache_block[l] \in Nat /\ lines[l] \in 0..MaxLines
  BY DEF TypeOK
<1>6. Append(behind[l], m_curr_cache_block[l]) \in Seq(Nat)
      /\ Len(Append(behind[l], m_curr_cache_block[l])) = Len(behind[l]) + 1
  BY <1>5, AppendProperties
<1>7. lines[l] + 1 \in 0..MaxLines
  BY <1>3, <1>5, LoggerAssumption
<1>8. TypeOK'
  BY <1>3, <1>6, <1>7 DEF TypeOK
<1>9. MainAfterConstruction' /\ FlushesALogger' /\ UnbornIsEmpty'
  BY <1>3 DEF MainAfterConstruction, FlushesALogger, UnbornIsEmpty
<1>10. EveryLineGoesBehind'
  BY <1>3, <1>6 DEF EveryLineGoesBehind, TypeOK
<1>11. QED
  BY <1>4, <1>8, <1>9, <1>10

\* The end of the program, of main, and of the entries of the map.
LEMMA PhaseKeepsInv ==
  ASSUME LoggerInv,
         HeapDamaged \/ LeaveMain \/ \E n \in Names : remove_logger(n)
  PROVE  LoggerInv'
<1> USE DEF LoggerInv, managerVars, cacheVars, threadVars, lineVars, fileVars
<1>1. FlushesAccounted'
  <2>1. UNCHANGED <<m_log_file_name, file, lost, flushes, m_ready_flush_cache_block_list>>
    BY DEF HeapDamaged, LeaveMain, remove_logger
  <2>2. QED
    BY <2>1, AccountUnchanged
<1>2. CASE HeapDamaged
  <2>1. TypeOK'
    BY <1>2 DEF HeapDamaged, TypeOK
  <2>2. MainAfterConstruction' /\ FlushesALogger' /\ UnbornIsEmpty' /\ EveryLineGoesBehind'
    BY <1>2
    DEF HeapDamaged, MainAfterConstruction, FlushesALogger, UnbornIsEmpty,
        EveryLineGoesBehind
  <2>3. QED
    BY <1>1, <2>1, <2>2
<1>3. CASE LeaveMain
  <2>1. TypeOK'
    BY <1>3 DEF LeaveMain, TypeOK
  <2>2. MainAfterConstruction' /\ FlushesALogger' /\ UnbornIsEmpty' /\ EveryLineGoesBehind'
    BY <1>3
    DEF LeaveMain, MainAfterConstruction, FlushesALogger, UnbornIsEmpty,
        EveryLineGoesBehind
  <2>3. QED
    BY <1>1, <2>1, <2>2
<1>4. ASSUME NEW n \in Names, remove_logger(n)
      PROVE  LoggerInv'
  <2>1. TypeOK'
    BY <1>4 DEF remove_logger, TypeOK
  <2>2. \A t \in Threads : it[t] = {}
    BY <1>4 DEF remove_logger, FlushesALogger
  <2>3. FlushesALogger'
    BY <1>4, <2>2 DEF remove_logger, FlushesALogger
  <2>4. MainAfterConstruction' /\ UnbornIsEmpty' /\ EveryLineGoesBehind'
    BY <1>4 DEF remove_logger, MainAfterConstruction, UnbornIsEmpty, EveryLineGoesBehind
  <2>5. QED
    BY <1>1, <2>1, <2>3, <2>4
<1>5. QED
  BY <1>2, <1>3, <1>4
-----------------------------------------------------------------------------
\* Beginning a flush of a logger that exists retires its current block, which
\* is the one behind all those it retired before.
LEMMA BeginFlushKeepsBlocks ==
  ASSUME LoggerInv,
         NEW t \in Threads, NEW l \in Loggers, object[l] # "unborn",
         NEW c \in {"flush", "all", "dtor"}, BeginFlush(t, l, c),
         UNCHANGED <<phase, managerVars, object, lineVars, fileVars>>,
         it' \in [Threads -> SUBSET Names]
  PROVE  TypeOK' /\ UnbornIsEmpty' /\ EveryLineGoesBehind' /\ FlushesAccounted'
<1> USE DEF LoggerInv, managerVars, lineVars, fileVars
<1>1. /\ m_curr_cache_block[l] \in Nat /\ flushes[l] \in Nat
      /\ m_ready_flush_cache_block_list[l] \in Seq(Nat)
      /\ m_curr_cache_block[l] = flushes[l] + 1
  BY DEF TypeOK, EveryLineGoesBehind
<1>2. /\ m_ready_flush_cache_block_list' =
           [m_ready_flush_cache_block_list EXCEPT ![l] = Append(@, m_curr_cache_block[l])]
      /\ m_curr_cache_block' = [m_curr_cache_block EXCEPT ![l] = @ + 1]
      /\ flushes' = [flushes EXCEPT ![l] = @ + 1]
      /\ pc' = [pc EXCEPT ![t] = "open"]
      /\ call' = [call EXCEPT ![t] = c]
      /\ lg' = [lg EXCEPT ![t] = l]
  BY DEF BeginFlush, swap_cache_block
<1>3. Append(m_ready_flush_cache_block_list[l], m_curr_cache_block[l]) \in Seq(Nat)
  BY <1>1, AppendProperties
<1>4. TypeOK'
  <2>1. /\ m_ready_flush_cache_block_list' \in [Loggers -> Seq(Nat)]
        /\ m_curr_cache_block' \in [Loggers -> Nat] /\ flushes' \in [Loggers -> Nat]
        /\ \A m \in Loggers : m_curr_cache_block'[m] >= m_curr_cache_block[m]
    BY <1>1, <1>2, <1>3, SMTT(30) DEF TypeOK
  <2>2. /\ pc' \in [Threads -> {"idle", "next", "open", "write"}]
        /\ call' \in [Threads -> {"none", "flush", "all", "dtor"}]
        /\ lg' \in [Threads -> Loggers \cup {NoLogger}]
    BY <1>2 DEF TypeOK
  <2>3. \A m \in Loggers : object'[m] # "unborn" => m_curr_cache_block'[m] > 0
    <3>1. \A m \in Loggers : object'[m] # "unborn" => m_curr_cache_block[m] > 0
      BY DEF TypeOK
    <3>2. \A m \in Loggers : m_curr_cache_block[m] \in Nat /\ m_curr_cache_block'[m] \in Nat
      BY <2>1 DEF TypeOK
    <3>3. \A m \in Loggers : m_curr_cache_block'[m] >= m_curr_cache_block[m]
      BY <2>1, Zenon
    <3>4. TAKE m \in Loggers
    <3>5. HAVE object'[m] # "unborn"
    <3> DEFINE old == m_curr_cache_block[m]
               new == m_curr_cache_block'[m]
    <3>6. old \in Nat /\ new \in Nat /\ new >= old /\ old > 0
      BY <3>1, <3>2, <3>3, <3>5, Zenon
    <3> HIDE DEF old, new
    <3>7. new > 0
      BY <3>6
    <3>8. QED
      BY <3>7 DEF new
  <2>4. QED
    BY <2>1, <2>2, <2>3 DEF TypeOK
<1>5. UnbornIsEmpty'
  BY <1>2 DEF UnbornIsEmpty, TypeOK
<1>6. EveryLineGoesBehind'
  <2>1. ASSUME NEW m \in Loggers, object[m] # "unborn"
        PROVE  m_curr_cache_block'[m] = flushes'[m] + 1
    <3>1. CASE m = l
      BY <1>1, <1>2, <3>1 DEF TypeOK
    <3>2. CASE m # l
      BY <1>2, <2>1, <3>2 DEF TypeOK, EveryLineGoesBehind
    <3>3. QED
      BY <3>1, <3>2
  <2>2. QED
    BY <2>1 DEF EveryLineGoesBehind
<1>7. ASSUME NEW m \in Loggers
      PROVE  Accounted(file[m_log_file_name[m]], m, m_ready_flush_cache_block_list'[m],
                       lost[m], flushes'[m])
  <2>1. Accounted(file[m_log_file_name[m]], m, m_ready_flush_cache_block_list[m],
                  lost[m], flushes[m])
    BY DEF FlushesAccounted
  <2>2. CASE m = l
    <3>1. /\ m_ready_flush_cache_block_list'[l] =
               Append(m_ready_flush_cache_block_list[l], flushes[l] + 1)
          /\ flushes'[l] = flushes[l] + 1
      BY <1>1, <1>2 DEF TypeOK
    <3>2. QED
      BY <1>1, <2>1, <2>2, <3>1, RetireKeepsAccount
  <2>3. CASE m # l
    BY <1>2, <2>1, <2>3 DEF TypeOK
  <2>4. QED
    BY <2>2, <2>3
<1>8. FlushesAccounted'
  BY <1>7 DEF FlushesAccounted
<1>9. QED
  BY <1>4, <1>5, <1>6, <1>8

\* The calls that begin a flush: flush, an iteration of flush_all_logger, and
\* the destructor.
LEMMA FlushBeginsKeepsInv ==
  ASSUME LoggerInv, NEW t \in Threads,
         (\E l \in Loggers : Flush(t, l) \/ Destruct(t, l)) \/ FlushNext(t)
  PROVE  LoggerInv'
<1> USE DEF LoggerInv
<1>1. ASSUME NEW l \in Loggers, Flush(t, l) \/ Destruct(t, l)
      PROVE  LoggerInv'
  <2>1. /\ phase \in {"run", "exit"} /\ pc[t] = "idle"
        /\ UNCHANGED <<phase, managerVars, object, it, lineVars, fileVars>>
        /\ \E c \in {"flush", "dtor"} : BeginFlush(t, l, c)
    BY <1>1 DEF Flush, Destruct
  <2>2. PICK c \in {"flush", "dtor"} : BeginFlush(t, l, c)
    BY <2>1
  <2>3. object[l] # "unborn"
    BY <2>1 DEF MainAfterConstruction
  <2>4. it' \in [Threads -> SUBSET Names]
    BY <2>1 DEF TypeOK
  <2>5. TypeOK' /\ UnbornIsEmpty' /\ EveryLineGoesBehind' /\ FlushesAccounted'
    BY <2>1, <2>2, <2>3, <2>4, BeginFlushKeepsBlocks
  <2>6. MainAfterConstruction'
    BY <2>1 DEF MainAfterConstruction
  <2>7. it[t] = {}
    BY <2>1 DEF FlushesALogger
  <2>8. FlushesALogger'
    BY <2>1, <2>2, <2>7 DEF BeginFlush, FlushesALogger, TypeOK, managerVars
  <2>9. QED
    BY <2>5, <2>6, <2>8
<1>2. CASE FlushNext(t)
  <2>1. /\ phase # "crashed" /\ pc[t] = "next"
        /\ UNCHANGED <<phase, managerVars, object, lineVars, fileVars>>
    BY <1>2 DEF FlushNext
  <2>2. PICK n \in it[t] : /\ BeginFlush(t, m_logger_map[n], "all")
                           /\ it' = [it EXCEPT ![t] = @ \ {n}]
    BY <1>2 DEF FlushNext
  <2>3. phase \in {"run", "exit"}
    BY <2>1 DEF MainAfterConstruction, TypeOK
  <2>4. it' \in [Threads -> SUBSET Names]
    BY <2>2 DEF TypeOK
  <2>5. m_logger_map[n] \in Loggers /\ object[m_logger_map[n]] # "unborn"
    BY <2>2, <2>3 DEF FlushesALogger, MainAfterConstruction, TypeOK
  <2>6. TypeOK' /\ UnbornIsEmpty' /\ EveryLineGoesBehind' /\ FlushesAccounted'
    BY <2>1, <2>2, <2>4, <2>5, BeginFlushKeepsBlocks
  <2>7. MainAfterConstruction'
    BY <2>1, <2>3 DEF MainAfterConstruction
  <2>8. FlushesALogger'
    BY <2>1, <2>2, <2>5 DEF BeginFlush, FlushesALogger, TypeOK, managerVars
  <2>9. QED
    BY <2>6, <2>7, <2>8
<1>3. QED
  BY <1>1, <1>2

\* The end of a flush: the thread is idle again or goes on in
\* flush_all_logger, and no logger becomes unborn.
LEMMA EndFlushKeepsThreads ==
  ASSUME LoggerInv, NEW t \in Threads, phase # "crashed", pc[t] \in {"open", "write"},
         EndFlush(t), UNCHANGED <<phase, managerVars, m_curr_cache_block, flushes, it, lineVars>>
  PROVE  /\ lg[t] \in Loggers
         /\ MainAfterConstruction' /\ FlushesALogger' /\ UnbornIsEmpty'
         /\ EveryLineGoesBehind'
         /\ pc' \in [Threads -> {"idle", "next", "open", "write"}]
         /\ call' \in [Threads -> {"none", "flush", "all", "dtor"}]
         /\ lg' \in [Threads -> Loggers \cup {NoLogger}]
         /\ object' \in [Loggers -> {"unborn", "alive", "destroyed"}]
         /\ \A l \in Loggers : object'[l] # "unborn" => m_curr_cache_block'[l] > 0
<1> USE DEF LoggerInv, managerVars, lineVars
<1>1. lg[t] \in Loggers
  BY DEF FlushesALogger
<1>2. phase \in {"run", "exit"} /\ \A l \in Loggers : object[l] # "unborn"
  BY DEF MainAfterConstruction, TypeOK
<1>3. object' \in [Loggers -> {"unborn", "alive", "destroyed"}]
      /\ \A l \in Loggers : object'[l] # "unborn"
  BY <1>1, <1>2 DEF EndFlush, TypeOK
<1>4. /\ pc' \in [Threads -> {"idle", "next", "open", "write"}]
      /\ call' \in [Threads -> {"none", "flush", "all", "dtor"}]
      /\ lg' \in [Threads -> Loggers \cup {NoLogger}]
  BY DEF EndFlush, TypeOK
<1>5. MainAfterConstruction' /\ UnbornIsEmpty'
  BY <1>2, <1>3 DEF MainAfterConstruction, UnbornIsEmpty
<1>6. EveryLineGoesBehind' /\ \A l \in Loggers : m_curr_cache_block'[l] > 0
  BY <1>2 DEF EveryLineGoesBehind, TypeOK
<1>7. FlushesALogger'
  BY DEF EndFlush, FlushesALogger, TypeOK
<1>8. QED
  BY <1>1, <1>3, <1>4, <1>5, <1>6, <1>7

\* Opening the file, or not.
LEMMA OpenKeepsInv ==
  ASSUME LoggerInv, NEW t \in Threads, Opened(t) \/ NotOpened(t)
  PROVE  LoggerInv'
<1> USE DEF LoggerInv
<1>1. FlushesAccounted'
  <2>1. UNCHANGED <<m_log_file_name, file, lost, flushes, m_ready_flush_cache_block_list>>
    BY DEF Opened, NotOpened, managerVars, cacheVars, fileVars
  <2>2. QED
    BY <2>1, AccountUnchanged
<1>2. CASE Opened(t)
  <2> USE DEF managerVars, cacheVars, lineVars, fileVars
  <2>1. TypeOK'
    BY <1>2 DEF Opened, TypeOK
  <2>2. MainAfterConstruction'
    BY <1>2 DEF Opened, MainAfterConstruction, TypeOK
  <2>3. FlushesALogger'
    BY <1>2 DEF Opened, FlushesALogger, TypeOK
  <2>4. UnbornIsEmpty' /\ EveryLineGoesBehind'
    BY <1>2 DEF Opened, UnbornIsEmpty, EveryLineGoesBehind
  <2>5. QED
    BY <1>1, <2>1, <2>2, <2>3, <2>4
<1>3. CASE NotOpened(t)
  <2>1. /\ phase # "crashed" /\ pc[t] \in {"open", "write"} /\ EndFlush(t)
        /\ UNCHANGED <<phase, managerVars, m_curr_cache_block, flushes, it, lineVars>>
    BY <1>3 DEF NotOpened, cacheVars
  <2>2. /\ lg[t] \in Loggers
        /\ MainAfterConstruction' /\ FlushesALogger' /\ UnbornIsEmpty'
        /\ EveryLineGoesBehind'
        /\ pc' \in [Threads -> {"idle", "next", "open", "write"}]
        /\ call' \in [Threads -> {"none", "flush", "all", "dtor"}]
        /\ lg' \in [Threads -> Loggers \cup {NoLogger}]
        /\ object' \in [Loggers -> {"unborn", "alive", "destroyed"}]
        /\ \A l \in Loggers : object'[l] # "unborn" => m_curr_cache_block'[l] > 0
    BY <2>1, EndFlushKeepsThreads
  <2>3. TypeOK'
    BY <1>3, <2>2 DEF NotOpened, TypeOK, managerVars, cacheVars, lineVars
  <2>4. QED
    BY <1>1, <2>2, <2>3
<1>4. QED
  BY <1>2, <1>3

\* The second critical section of flush: the list goes to the file, and to
\* no other logger's blocks, whoever else has the same file.
LEMMA FlushWriteKeepsInv ==
  ASSUME LoggerInv, NEW t \in Threads, FlushWrite(t)
  PROVE  LoggerInv'
<1> DEFINE l == lg[t]
           name == m_log_file_name[l]
           list == m_ready_flush_cache_block_list[l]
<1> USE DEF LoggerInv
<1>1. /\ phase # "crashed" /\ pc[t] \in {"open", "write"} /\ EndFlush(t)
      /\ UNCHANGED <<phase, managerVars, m_curr_cache_block, flushes, it, lineVars>>
      /\ m_ready_flush_cache_block_list' = [m_ready_flush_cache_block_list EXCEPT ![l] = <<>>]
      /\ unopened' = unopened \ {l}
  BY DEF FlushWrite
<1>2. /\ l \in Loggers
      /\ MainAfterConstruction' /\ FlushesALogger' /\ UnbornIsEmpty'
      /\ EveryLineGoesBehind'
      /\ pc' \in [Threads -> {"idle", "next", "open", "write"}]
      /\ call' \in [Threads -> {"none", "flush", "all", "dtor"}]
      /\ lg' \in [Threads -> Loggers \cup {NoLogger}]
      /\ object' \in [Loggers -> {"unborn", "alive", "destroyed"}]
      /\ \A m \in Loggers : object'[m] # "unborn" => m_curr_cache_block'[m] > 0
  BY <1>1, EndFlushKeepsThreads
<1>3. PICK good \in SomePositions(Len(list)) :
         /\ file' = [file EXCEPT ![name] = @ \o Appended(l, list, good)]
         /\ lost' = [lost EXCEPT ![l] = @ \cup {list[i] : i \in DOMAIN list \ Range(good)}]
  BY DEF FlushWrite, Appended
<1>4. /\ name \in Names /\ list \in Seq(Nat) /\ file[name] \in Seq(Blocks)
      /\ lost[l] \in SUBSET Nat /\ flushes[l] \in Nat
  BY <1>2 DEF TypeOK
<1> DEFINE more == {list[i] : i \in DOMAIN list \ Range(good)}
<1>5. more \in SUBSET Nat
  BY <1>4
<1>6. file[name] \o Appended(l, list, good) \in Seq(Blocks)
  BY <1>2, <1>4, AppendedFacts
<1> HIDE DEF more
<1>7. lost' = [lost EXCEPT ![l] = @ \cup more]
  BY <1>3 DEF more
<1>8. TypeOK'
  <2>1. file' \in [Names -> Seq(Blocks)]
    BY <1>3, <1>4, <1>6 DEF TypeOK
  <2>2. lost' \in [Loggers -> SUBSET Nat]
    BY <1>2, <1>4, <1>5, <1>7 DEF TypeOK
  <2>3. <<>> \in Seq(Nat)
    OBVIOUS
  <2>4. m_ready_flush_cache_block_list' \in [Loggers -> Seq(Nat)]
    BY <1>1, <1>2, <2>3 DEF TypeOK
  <2>5. unopened' \subseteq Loggers
    BY <1>1 DEF TypeOK
  <2>6. QED
    BY <1>1, <1>2, <2>1, <2>2, <2>4, <2>5 DEF TypeOK, managerVars, lineVars
<1>9. ASSUME NEW m \in Loggers
      PROVE  Accounted(file'[m_log_file_name[m]], m, m_ready_flush_cache_block_list'[m],
                       lost'[m], flushes[m])
  <2>1. Accounted(file[m_log_file_name[m]], m, m_ready_flush_cache_block_list[m],
                  lost[m], flushes[m])
    BY DEF FlushesAccounted
  <2>2. file'[name] = file[name] \o Appended(l, list, good)
    BY <1>3, <1>4 DEF TypeOK
  <2>3. CASE m = l
    <3>1. m_ready_flush_cache_block_list'[l] = <<>> /\ lost'[l] = lost[l] \cup more
      BY <1>1, <1>2, <1>7 DEF TypeOK
    <3>2. Accounted(file[name] \o Appended(l, list, good), l, <<>>, lost[l] \cup more,
                    flushes[l])
      BY <1>2, <1>4, <2>1, <2>3, WriteKeepsAccount DEF more
    <3>3. QED
      BY <2>2, <2>3, <3>1, <3>2
  <2>4. CASE m # l
    <3>1. m_ready_flush_cache_block_list'[m] = m_ready_flush_cache_block_list[m]
          /\ lost'[m] = lost[m]
      BY <1>1, <1>2, <1>7, <2>4 DEF TypeOK
    <3>2. CASE m_log_file_name[m] = name
      <4>1. Accounted(file[name] \o Appended(l, list, good), m,
                      m_ready_flush_cache_block_list[m], lost[m], flushes[m])
        BY <1>2, <1>4, <2>1, <2>4, <3>2, OthersKeepAccount
      <4>2. QED
        BY <2>2, <3>1, <3>2, <4>1
    <3>3. CASE m_log_file_name[m] # name
      <4>1. file'[m_log_file_name[m]] = file[m_log_file_name[m]]
        BY <1>3, <3>3 DEF TypeOK
      <4>2. QED
        BY <2>1, <3>1, <4>1
    <3>4. QED
      BY <3>2, <3>3
  <2>5. QED
    BY <2>3, <2>4
<1>10. FlushesAccounted'
  BY <1>1, <1>9 DEF FlushesAccounted, managerVars
<1>11. QED
  BY <1>2, <1>8, <1>10

\* The beginning and the end of flush_all_logger.
LEMMA FlushAllKeepsInv ==
  ASSUME LoggerInv, NEW t \in Threads, flush_all_logger(t) \/ FlushedAll(t)
  PROVE  LoggerInv'
<1> USE DEF LoggerInv, managerVars, cacheVars, lineVars, fileVars
<1>1. FlushesAccounted'
  <2>1. UNCHANGED <<m_log_file_name, file, lost, flushes, m_ready_flush_cache_block_list>>
    BY DEF flush_all_logger, FlushedAll
  <2>2. QED
    BY <2>1, AccountUnchanged
<1>2. TypeOK'
  <2>1. CASE flush_all_logger(t)
    <3>1. it' \in [Threads -> SUBSET Names]
      BY <2>1 DEF flush_all_logger, TypeOK
    <3>2. QED
      BY <2>1, <3>1 DEF flush_all_logger, TypeOK
  <2>2. CASE FlushedAll(t)
    BY <2>2 DEF FlushedAll, TypeOK
  <2>3. QED
    BY <2>1, <2>2
<1>3. MainAfterConstruction'
  BY DEF flush_all_logger, FlushedAll, MainAfterConstruction, TypeOK
<1>4. FlushesALogger'
  <2>1. CASE flush_all_logger(t)
    BY <2>1 DEF flush_all_logger, FlushesALogger, TypeOK
  <2>2. CASE FlushedAll(t)
    BY <2>2 DEF FlushedAll, FlushesALogger, TypeOK
  <2>3. QED
    BY <2>1, <2>2
<1>5. UnbornIsEmpty' /\ EveryLineGoesBehind'
  BY DEF flush_all_logger, FlushedAll, UnbornIsEmpty, EveryLineGoesBehind
<1>6. QED
  BY <1>1, <1>2, <1>3, <1>4, <1>5

\* Every step of the program keeps the invariant.
LEMMA NextLoggerInv == LoggerInv /\ [Next]_vars => LoggerInv'
<1> SUFFICES ASSUME LoggerInv, [Next]_vars
             PROVE  LoggerInv'
  OBVIOUS
<1>1. CASE UNCHANGED vars
  <2>1. FlushesAccounted'
    BY <1>1, AccountUnchanged DEF LoggerInv, vars, managerVars, cacheVars, fileVars
  <2>2. TypeOK' /\ UnbornIsEmpty' /\ EveryLineGoesBehind'
    BY <1>1
    DEF LoggerInv, vars, managerVars, cacheVars, threadVars, lineVars, fileVars, TypeOK,
        UnbornIsEmpty, EveryLineGoesBehind
  <2>3. MainAfterConstruction' /\ FlushesALogger'
    BY <1>1
    DEF LoggerInv, vars, managerVars, threadVars, MainAfterConstruction, FlushesALogger
  <2>4. QED
    BY <2>1, <2>2, <2>3 DEF LoggerInv
<1>2. CASE ConstructManager \/ (\E l \in Loggers : ConstructLogger(l)) \/ EnterMain
  BY <1>2, ConstructionKeepsInv
<1>3. ASSUME NEW t \in Threads, NEW l \in Loggers, NEW size \in LineSizes, Log(t, l, size)
      PROVE  LoggerInv'
  BY <1>3, LogKeepsInv
<1>4. CASE HeapDamaged \/ LeaveMain \/ \E n \in Names : remove_logger(n)
  BY <1>4, PhaseKeepsInv
<1>5. ASSUME NEW t \in Threads,
             \/ \E l \in Loggers : Flush(t, l) \/ Destruct(t, l)
             \/ flush_all_logger(t) \/ FlushStep(t)
      PROVE  LoggerInv'
  <2>1. CASE (\E l \in Loggers : Flush(t, l) \/ Destruct(t, l)) \/ FlushNext(t)
    BY <2>1, FlushBeginsKeepsInv
  <2>2. CASE Opened(t) \/ NotOpened(t)
    BY <2>2, OpenKeepsInv
  <2>3. CASE FlushWrite(t)
    BY <2>3, FlushWriteKeepsInv
  <2>4. CASE flush_all_logger(t) \/ FlushedAll(t)
    BY <2>4, FlushAllKeepsInv
  <2>5. QED
    BY <1>5, <2>1, <2>2, <2>3, <2>4 DEF FlushStep
<1>6. QED
  BY <1>1, <1>2, <1>3, <1>4, <1>5 DEF Next

\* The invariant holds throughout.
LEMMA AlwaysLoggerInv == Spec => []LoggerInv
<1>1. QED
  BY InitLoggerInv, NextLoggerInv, PTL DEF Spec

\* log never retires a block and copies every line behind one: with any block
\* size and any lines a size_t can measure, since the size it compares with is
\* the largest value of the type.
THEOREM LinesGoBehind == Spec => []EveryLineGoesBehind
<1>1. LoggerInv => EveryLineGoesBehind
  BY DEF LoggerInv
<1>2. QED
  BY <1>1, AlwaysLoggerInv, PTL

\* With any number of threads flushing any loggers, also several of one file,
\* and any fopen and fwrite failing: a retired block is in the file once, in
\* the order of filling, or still in the list behind those, or lost to fwrite.
THEOREM BlocksRetireInOrder == Spec => []RetiredInOrderOnce
<1>1. LoggerInv => RetiredInOrderOnce
  <2> SUFFICES ASSUME LoggerInv, NEW l \in Loggers
               PROVE  Accounted(file[m_log_file_name[l]], l, m_ready_flush_cache_block_list[l],
                                lost[l], m_curr_cache_block[l] - 1)
    BY DEF LoggerInv, RetiredInOrderOnce
  <2> USE DEF LoggerInv
  <2>1. /\ flushes[l] \in Nat /\ m_curr_cache_block[l] \in Nat
        /\ Accounted(file[m_log_file_name[l]], l, m_ready_flush_cache_block_list[l],
                     lost[l], flushes[l])
    BY DEF TypeOK, FlushesAccounted
  <2>2. 1..(m_curr_cache_block[l] - 1) = 1..flushes[l]
    <3>1. CASE object[l] = "unborn"
      <4>1. flushes[l] = 0 /\ m_curr_cache_block[l] = 0
        BY <3>1 DEF UnbornIsEmpty
      <4>2. 1..(0 - 1) = 1..0
        OBVIOUS
      <4>3. QED
        BY <4>1, <4>2
    <3>2. CASE object[l] # "unborn"
      BY <2>1, <3>2 DEF EveryLineGoesBehind
    <3>3. QED
      BY <3>1, <3>2
  <2>3. QED
    BY <2>1, <2>2 DEF Accounted
<1>2. QED
  BY <1>1, AlwaysLoggerInv, PTL
=============================================================================
