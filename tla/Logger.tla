------------------------------- MODULE Logger -------------------------------
(***************************************************************************)
(* Logger and LoggerManager (logger.h, logger.cc).  A logger fills a block *)
(* of fixed size; flush retires the current block to a list and writes the *)
(* list to the logger's file.  The mutex is released between the two, and  *)
(* while the file is opened, so flushes and calls of log interleave there. *)
(* What happens under the mutex is one step.                               *)
(*                                                                         *)
(* The life of a program that uses the macros LOGGER_MANAGER_IMPL and      *)
(* LOGGER_IMPL: the manager and the loggers are globals of different       *)
(* translation units, constructed in any order ("init"); threads log and   *)
(* flush ("run"); the loggers are destroyed, which flushes them ("exit").  *)
(* A logger that is constructed before its manager enters a map that does  *)
(* not exist yet, and the program crashes.  The map has no mutex: it       *)
(* changes only while nobody walks it.                                     *)
(*                                                                         *)
(* A block is the number of blocks its logger had made when it made this   *)
(* one.  Its bytes are left out: log copies every line to end() of the     *)
(* array, that is behind the block.  What it overwrites there is the       *)
(* heap's, so from then on the program may crash.                          *)
(***************************************************************************)
EXTENDS Integers, Sequences, FiniteSets, Functions

CONSTANTS
  Loggers,        \* the Logger objects
  NoLogger,       \* no logger
  Names,          \* numbers standing for log file names, in std::map's order
  NamesOf,        \* the names each logger may be constructed with
  Threads,        \* threads that call log and flush
  BlockSize,      \* number of chars of a CacheBlock
  SizeBits,       \* width of std::size_t
  LineSizes,      \* lengths of prefix, text and suffix together
  MaxLines,       \* bound: lines logged to one logger
  MaxFlushes      \* bound: no flush begins after that many of a logger before

ASSUME LoggerAssumption ==
  /\ NoLogger \notin Loggers
  /\ Names \subseteq Int /\ IsFiniteSet(Names)
  /\ NamesOf \in [Loggers -> SUBSET Names]
  /\ BlockSize \in Nat /\ SizeBits \in Nat
  /\ 2^SizeBits \in Nat
  /\ LineSizes \subseteq 0..(2^SizeBits - 2)   \* no line comes near a size_t
  /\ MaxLines \in Nat /\ MaxFlushes \in Nat

VARIABLES
  phase,                            \* "init", "run", "exit" or "crashed"
  manager,                          \* g_logger_manager has been constructed
  m_logger_map,                     \* the manager's map
  m_log_file_name,                  \* the name of each logger
  object,                           \* "unborn", "alive" or "destroyed"
  m_curr_cache_block,               \* the current block of each logger
  m_ready_flush_cache_block_list,   \* the list of each logger
  pc,                               \* where each thread stands
  call,                             \* what each thread is in: "flush", "all" or "dtor"
  lg,                               \* the logger it is flushing
  it,                               \* names flush_all_logger has still to visit
  file,                             \* blocks in each file, in their order
  behind,                           \* history: the block each line of a logger is behind
  lines,                            \* history: calls of log of each logger
  flushes,                          \* history: flushes of each logger
  lost,                             \* history: blocks fwrite did not write
  unopened                          \* history: loggers whose last flush had no file

managerVars == <<manager, m_logger_map, m_log_file_name>>
cacheVars == <<m_curr_cache_block, m_ready_flush_cache_block_list, flushes>>
threadVars == <<pc, call, lg, it>>
lineVars == <<behind, lines>>
fileVars == <<file, lost, unopened>>
vars == <<phase, managerVars, object, cacheVars, threadVars, lineVars, fileVars>>

Blocks == [of : Loggers, block : Nat]

TypeOK ==
  /\ phase \in {"init", "run", "exit", "crashed"}
  /\ manager \in BOOLEAN
  /\ m_logger_map \in [Names -> Loggers \cup {NoLogger}]
  /\ m_log_file_name \in [Loggers -> Names]
  /\ object \in [Loggers -> {"unborn", "alive", "destroyed"}]
  /\ m_curr_cache_block \in [Loggers -> Nat]
  /\ m_ready_flush_cache_block_list \in [Loggers -> Seq(Nat)]
  /\ pc \in [Threads -> {"idle", "next", "open", "write"}]
  /\ call \in [Threads -> {"none", "flush", "all", "dtor"}]
  /\ lg \in [Threads -> Loggers \cup {NoLogger}]
  /\ it \in [Threads -> SUBSET Names]
  /\ file \in [Names -> Seq(Blocks)]
  /\ behind \in [Loggers -> Seq(Nat)]
  /\ lines \in [Loggers -> 0..MaxLines]
  /\ flushes \in [Loggers -> Nat]
  /\ lost \in [Loggers -> SUBSET Nat]
  /\ unopened \subseteq Loggers
  /\ \A l \in Loggers : object[l] # "unborn" => m_curr_cache_block[l] > 0

Init ==
  /\ phase = "init"
  /\ manager = FALSE
  /\ m_logger_map = [n \in Names |-> NoLogger]
  /\ m_log_file_name \in [Loggers -> Names]
  /\ \A l \in Loggers : m_log_file_name[l] \in NamesOf[l]
  /\ object = [l \in Loggers |-> "unborn"]
  /\ m_curr_cache_block = [l \in Loggers |-> 0]
  /\ m_ready_flush_cache_block_list = [l \in Loggers |-> <<>>]
  /\ pc = [t \in Threads |-> "idle"]
  /\ call = [t \in Threads |-> "none"]
  /\ lg = [t \in Threads |-> NoLogger]
  /\ it = [t \in Threads |-> {}]
  /\ file = [n \in Names |-> <<>>]
  /\ behind = [l \in Loggers |-> <<>>]
  /\ lines = [l \in Loggers |-> 0]
  /\ flushes = [l \in Loggers |-> 0]
  /\ lost = [l \in Loggers |-> {}]
  /\ unopened = {}
-----------------------------------------------------------------------------
(***************************************************************************)
(* Static initialization.                                                  *)
(***************************************************************************)
ConstructManager ==
  /\ phase = "init" /\ ~manager
  /\ manager' = TRUE
  /\ UNCHANGED <<phase, m_logger_map, m_log_file_name, object, cacheVars, threadVars, lineVars, fileVars>>

\* add_logger: the first logger of a name stays.
add_logger(l) ==
  m_logger_map' = [m_logger_map EXCEPT ![m_log_file_name[l]] = IF @ = NoLogger THEN l ELSE @]

\* The constructor: a first block, and the entry in the manager's map.  The
\* insertion follows null pointers when the map is only zeroed memory.
ConstructLogger(l) ==
  /\ phase = "init" /\ object[l] = "unborn"
  /\ object' = [object EXCEPT ![l] = "alive"]
  /\ m_curr_cache_block' = [m_curr_cache_block EXCEPT ![l] = 1]
  /\ IF manager THEN add_logger(l) /\ UNCHANGED phase
                ELSE phase' = "crashed" /\ UNCHANGED m_logger_map
  /\ UNCHANGED <<manager, m_log_file_name, m_ready_flush_cache_block_list, flushes>>
  /\ UNCHANGED <<threadVars, lineVars, fileVars>>

EnterMain ==
  /\ phase = "init" /\ manager
  /\ \A l \in Loggers : object[l] = "alive"
  /\ phase' = "run"
  /\ UNCHANGED <<managerVars, object, cacheVars, threadVars, lineVars, fileVars>>
-----------------------------------------------------------------------------
(***************************************************************************)
(* log.                                                                    *)
(***************************************************************************)
\* Mutant: what is left of the block after the lines copied so far.
UsableSizeLeft(l) == BlockSize - lines[l]

\* max_size() and size() of a std::array are both its length, so the int is
\* -1, and log holds it in a std::size_t.
get_curr_cache_block_usable_size(l) == (BlockSize - BlockSize - 1) % 2^SizeBits

swap_cache_block(l) ==
  /\ m_ready_flush_cache_block_list' =
       [m_ready_flush_cache_block_list EXCEPT ![l] = Append(@, m_curr_cache_block[l])]
  /\ m_curr_cache_block' = [m_curr_cache_block EXCEPT ![l] = @ + 1]

\* log of a line of log_total_size bytes, under the mutex.  (The line and its
\* time are put together before, in memory of the calling thread.)
Log(t, l, log_total_size) ==
  /\ phase = "run" /\ pc[t] = "idle"
  /\ lines[l] < MaxLines
  /\ lines' = [lines EXCEPT ![l] = @ + 1]
  /\ IF log_total_size >= get_curr_cache_block_usable_size(l)
     THEN swap_cache_block(l)
     ELSE UNCHANGED <<m_curr_cache_block, m_ready_flush_cache_block_list>>
  /\ behind' = IF log_total_size < get_curr_cache_block_usable_size(l)
               THEN [behind EXCEPT ![l] = Append(@, m_curr_cache_block'[l])]
               ELSE behind
  /\ UNCHANGED <<phase, managerVars, object, flushes, threadVars, fileVars>>

\* What lay behind the block was in use.
HeapDamaged ==
  /\ phase \in {"run", "exit"}
  /\ \E l \in Loggers : behind[l] # <<>>
  /\ phase' = "crashed"
  /\ UNCHANGED <<managerVars, object, cacheVars, threadVars, lineVars, fileVars>>
-----------------------------------------------------------------------------
(***************************************************************************)
(* flush.                                                                  *)
(***************************************************************************)
\* The first critical section.
BeginFlush(t, l, c) ==
  /\ swap_cache_block(l)
  /\ flushes' = [flushes EXCEPT ![l] = @ + 1]
  /\ pc' = [pc EXCEPT ![t] = "open"]
  /\ call' = [call EXCEPT ![t] = c]
  /\ lg' = [lg EXCEPT ![t] = l]

Flush(t, l) ==
  /\ phase = "run" /\ pc[t] = "idle"
  /\ flushes[l] < MaxFlushes
  /\ BeginFlush(t, l, "flush")
  /\ UNCHANGED <<phase, managerVars, object, it, lineVars, fileVars>>

\* The flush is over; flush_all_logger goes on to the next logger, and the
\* destructor destroys the members.
EndFlush(t) ==
  /\ pc' = [pc EXCEPT ![t] = IF call[t] = "all" THEN "next" ELSE "idle"]
  /\ call' = [call EXCEPT ![t] = IF @ = "all" THEN @ ELSE "none"]
  /\ lg' = [lg EXCEPT ![t] = NoLogger]
  /\ object' = IF call[t] = "dtor" THEN [object EXCEPT ![lg[t]] = "destroyed"] ELSE object

Opened(t) ==
  /\ phase # "crashed" /\ pc[t] = "open"
  /\ pc' = [pc EXCEPT ![t] = "write"]
  /\ UNCHANGED <<phase, managerVars, object, cacheVars, call, lg, it, lineVars, fileVars>>

\* fopen fails: the blocks stay in the list.
NotOpened(t) ==
  /\ phase # "crashed" /\ pc[t] = "open"
  /\ EndFlush(t)
  /\ unopened' = unopened \cup {lg[t]}
  /\ UNCHANGED <<phase, managerVars, cacheVars, it, lineVars, file, lost>>

\* Mutant: only the block this flush retired is written and removed from
\* the list, which clear() then empties.
FlushWriteOwn(t) ==
  LET l == lg[t]
      list == m_ready_flush_cache_block_list[l]
  IN
  /\ phase # "crashed" /\ pc[t] = "write"
  /\ file' = [file EXCEPT ![m_log_file_name[l]] = @ \o <<[of |-> l, block |-> list[Len(list)]]>>]
  /\ m_ready_flush_cache_block_list' = [m_ready_flush_cache_block_list EXCEPT ![l] = <<>>]
  /\ lost' = lost
  /\ unopened' = unopened \ {l}
  /\ EndFlush(t)
  /\ UNCHANGED <<phase, managerVars, m_curr_cache_block, flushes, it, lineVars>>

Increasing(s) == \A i, j \in DOMAIN s : i < j => s[i] < s[j]

\* Some positions of a list of n blocks, in their order.
SomePositions(n) == {s \in UNION {[1..k -> 1..n] : k \in 0..n} : Increasing(s)}

\* The second critical section: fwrite of each block, of which those at the
\* positions in good reach the file (nobody looks at what fwrite and fclose
\* return), and clear.
FlushWrite(t) ==
  LET l == lg[t]
      list == m_ready_flush_cache_block_list[l]
  IN
  /\ phase # "crashed" /\ pc[t] = "write"
  /\ \E good \in SomePositions(Len(list)) :
        /\ file' = [file EXCEPT ![m_log_file_name[l]] =
                      @ \o [k \in 1..Len(good) |-> [of |-> l, block |-> list[good[k]]]]]
        /\ lost' = [lost EXCEPT ![l] = @ \cup {list[i] : i \in DOMAIN list \ Range(good)}]
  /\ m_ready_flush_cache_block_list' = [m_ready_flush_cache_block_list EXCEPT ![l] = <<>>]
  /\ unopened' = unopened \ {l}
  /\ EndFlush(t)
  /\ UNCHANGED <<phase, managerVars, m_curr_cache_block, flushes, it, lineVars>>
-----------------------------------------------------------------------------
(***************************************************************************)
(* The manager, and the exit.                                              *)
(***************************************************************************)
flush_all_logger(t) ==
  /\ phase = "run" /\ pc[t] = "idle"
  /\ \A l \in Loggers : flushes[l] < MaxFlushes
  /\ pc' = [pc EXCEPT ![t] = "next"]
  /\ call' = [call EXCEPT ![t] = "all"]
  /\ it' = [it EXCEPT ![t] = {n \in Names : m_logger_map[n] # NoLogger}]
  /\ UNCHANGED <<phase, managerVars, object, cacheVars, lg, lineVars, fileVars>>

FlushNext(t) ==
  /\ phase # "crashed" /\ pc[t] = "next"
  /\ \E n \in it[t] :
        /\ \A k \in it[t] : n <= k
        /\ BeginFlush(t, m_logger_map[n], "all")
        /\ it' = [it EXCEPT ![t] = @ \ {n}]
  /\ UNCHANGED <<phase, managerVars, object, lineVars, fileVars>>

FlushedAll(t) ==
  /\ phase # "crashed" /\ pc[t] = "next" /\ it[t] = {}
  /\ pc' = [pc EXCEPT ![t] = "idle"]
  /\ call' = [call EXCEPT ![t] = "none"]
  /\ UNCHANGED <<phase, managerVars, object, cacheVars, lg, it, lineVars, fileVars>>

remove_logger(n) ==
  /\ phase = "run"
  /\ \A t \in Threads : call[t] # "all"
  /\ m_logger_map[n] # NoLogger
  /\ m_logger_map' = [m_logger_map EXCEPT ![n] = NoLogger]
  /\ UNCHANGED <<phase, manager, m_log_file_name, object, cacheVars, threadVars, lineVars, fileVars>>

LeaveMain ==
  /\ phase = "run"
  /\ \A t \in Threads : pc[t] = "idle"
  /\ phase' = "exit"
  /\ UNCHANGED <<managerVars, object, cacheVars, threadVars, lineVars, fileVars>>

\* Mutant: the destructor does not flush.
DestructOnly(t, l) ==
  /\ phase = "exit"
  /\ \A u \in Threads : pc[u] = "idle"
  /\ object[l] = "alive"
  /\ object' = [object EXCEPT ![l] = "destroyed"]
  /\ UNCHANGED <<phase, managerVars, cacheVars, threadVars, lineVars, fileVars>>

\* ~Logger flushes; one thread destroys the globals one after the other.
Destruct(t, l) ==
  /\ phase = "exit"
  /\ \A u \in Threads : pc[u] = "idle"
  /\ object[l] = "alive"
  /\ BeginFlush(t, l, "dtor")
  /\ UNCHANGED <<phase, managerVars, object, it, lineVars, fileVars>>

FlushStep(t) ==
  \/ Opened(t)
  \/ NotOpened(t)
  \/ FlushWrite(t)
  \/ FlushNext(t)
  \/ FlushedAll(t)

Next ==
  \/ ConstructManager
  \/ \E l \in Loggers : ConstructLogger(l)
  \/ EnterMain
  \/ \E t \in Threads, l \in Loggers, size \in LineSizes : Log(t, l, size)
  \/ HeapDamaged
  \/ \E t \in Threads, l \in Loggers : Flush(t, l)
  \/ \E t \in Threads : flush_all_logger(t)
  \/ \E t \in Threads : FlushStep(t)
  \/ \E n \in Names : remove_logger(n)
  \/ LeaveMain
  \/ \E t \in Threads, l \in Loggers : Destruct(t, l)

Spec == Init /\ [][Next]_vars

\* A flush under way proceeds, and an exit destroys the globals.  Nothing is
\* assumed of the callers.
FairSpec ==
  /\ Spec
  /\ \A t \in Threads : WF_vars(FlushStep(t))
  /\ WF_vars(\E t \in Threads, l \in Loggers : Destruct(t, l))
-----------------------------------------------------------------------------
(***************************************************************************)
(* Properties.                                                             *)
(***************************************************************************)
\* The test of the usable size decides nothing: log never retires a block,
\* however much it has been given, and copies each line behind a block.
EveryLineGoesBehind ==
  \A l \in Loggers :
     /\ Len(behind[l]) = lines[l]
     /\ object[l] # "unborn" => m_curr_cache_block[l] = flushes[l] + 1

\* Where the blocks of a logger l are in a file f, and which they are.
InFile(f, l) == {i \in DOMAIN f : f[i].of = l}

Written(f, l) == {f[i].block : i \in InFile(f, l)}

\* The blocks of l up to n have been retired: they are in the file f, in the
\* order they were filled, in the list, behind those of the file, or in gone;
\* and none of them is in two places, or twice in one.
Accounted(f, l, list, gone, n) ==
  /\ \A i, j \in InFile(f, l) : i < j => f[i].block < f[j].block
  /\ Increasing(list)
  /\ \A b \in Written(f, l), c \in Range(list) : b < c
  /\ (Written(f, l) \cup Range(list)) \cap gone = {}
  /\ Written(f, l) \cup Range(list) \cup gone = 1..n

\* Whatever flushes of one logger overlap, and whichever of them find their
\* file: the blocks of a logger reach the file in the order they were
\* filled, none twice, and a retired block is in the file, in the list, or
\* one that fwrite failed on.  (The types are checked along with it.)
RetiredInOrderOnce ==
  /\ TypeOK
  /\ \A l \in Loggers : Accounted(file[m_log_file_name[l]], l, m_ready_flush_cache_block_list[l],
                                  lost[l], m_curr_cache_block[l] - 1)

\* The exit comes to an end, and then each block a line was logged to is in
\* its file, or was lost to an fwrite, or the destructor's fopen failed.
ExitWritesAll ==
  (phase = "exit") ~>
     \/ phase = "crashed"
     \/ \A l \in Loggers :
           /\ object[l] = "destroyed"
           /\ \/ l \in unopened
              \/ Range(behind[l]) \subseteq Written(file[m_log_file_name[l]], l) \cup lost[l]
=============================================================================
