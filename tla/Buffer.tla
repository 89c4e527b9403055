------------------------------- MODULE Buffer -------------------------------
(***************************************************************************)
(* The ring buffer of buffer.hpp.  One thread uses a buffer, so a method   *)
(* is one step, except append and the constructor: their growth loop and   *)
(* what follows it are steps of their own, so that a loop that never ends  *)
(* is a behaviour of the model.                                            *)
(*                                                                         *)
(* m_data is a function on the cells malloc returned; a cell nobody has    *)
(* written, and one beyond the allocation, holds Junk.                     *)
(***************************************************************************)
EXTENDS Integers, Sequences

CONSTANTS
  Bytes,              \* the bytes callers append
  Nul,                \* the byte that ends a C string
  Junk,               \* an unspecified byte
  BUFFER_SIZE_SMALL,
  BUFFER_SIZE_RAW,
  BUFFER_SIZE_MAX,
  RETRIEVE_MAX,       \* size of the array in retrieve_all_as_string
  InitSizes,          \* arguments of buffer(int32_t)
  Texts,              \* arguments of buffer(const std::string&)
  Sources,            \* arguments of append
  Counts              \* sizes asked of write_to, peek and skip

ASSUME BufferAssumption ==
  /\ Nul \in Bytes /\ Junk \notin Bytes
  /\ BUFFER_SIZE_SMALL \in Nat \ {0}
  /\ BUFFER_SIZE_RAW \in Nat \ {0}
  /\ BUFFER_SIZE_MAX \in Nat /\ BUFFER_SIZE_SMALL <= BUFFER_SIZE_MAX
  /\ RETRIEVE_MAX \in Nat
  /\ InitSizes \subseteq Int
  /\ Texts \subseteq Seq(Bytes)
  /\ Sources \subseteq Seq(Bytes) \ {<<>>}
  /\ Counts \subseteq Nat \ {0}

VARIABLES
  m_data, m_size, m_head, m_tail, m_full,
  pc,        \* "new", "idle", "grow" (refix_new_size) or "store" (append)
  src,       \* append's argument while a call is under way
  newsize,   \* resize's argument while a call is under way
  tmp,       \* refix_new_size's local tmp
  out,       \* history: the call that returned last, as ByteQueue reports it
  made       \* history: the constructor called, by "size" or from a "text"

ring == <<m_data, m_size, m_head, m_tail, m_full>>
call == <<pc, src, newsize, tmp>>
vars == <<ring, call, out, made>>

\* length(), of given members: realloc calls it halfway through its updates.
LengthOf(head, tail, size, isfull) ==
  IF isfull THEN size
  ELSE IF head = tail THEN 0
  ELSE IF head < tail THEN tail - head
  ELSE (size - head) + tail

length == LengthOf(m_head, m_tail, m_size, m_full)
empty == m_head = m_tail /\ ~m_full
get_free_size == m_size - length

\* Mutant: BUFFER_SIZE_MAX itself is not allowed.
IsValidSizeStrict(n) == n > 0 /\ n < BUFFER_SIZE_MAX

is_valid_size(n) == n > 0 /\ n <= BUFFER_SIZE_MAX

\* n cells of data from a given one on, as memcpy reads them.
Cells(data, from, n) ==
  [i \in 1..n |-> IF from + i - 1 \in DOMAIN data THEN data[from + i - 1] ELSE Junk]

\* The first n unread bytes: to the end of the storage, then from its start.
UnreadOf(data, head, tail, size, n) ==
  LET right_free == size - head IN
  IF head < tail \/ n <= right_free
  THEN Cells(data, head, n)
  ELSE Cells(data, head, right_free) \o Cells(data, 0, n - right_free)

Unread(n) == UnreadOf(m_data, m_head, m_tail, m_size, n)

contents == Unread(length)

Queue == INSTANCE ByteQueue WITH q <- contents

Indices == IF m_size = 0 THEN {0} ELSE 0..(m_size - 1)

\* The members' types: both positions stay inside the storage, and only
\* equal positions can mean full.
TypeOK ==
  /\ m_size \in Nat
  /\ m_head \in Indices /\ m_tail \in Indices
  /\ m_full \in BOOLEAN
  /\ m_full => m_head = m_tail /\ m_size > 0
  /\ \E n \in 0..m_size : m_data \in [0..(n - 1) -> Bytes \cup {Junk}]
  /\ pc \in {"new", "idle", "grow", "store"}
  /\ src \in Seq(Bytes)
  /\ newsize \in Nat /\ tmp \in Nat
  /\ out \in [by : Queue!Calls, n : Nat, bytes : Seq(Bytes \cup {Junk})]
  /\ made \in {"none", "size", "text"}

Init ==
  /\ m_data = <<>>
  /\ m_size = 0 /\ m_head = 0 /\ m_tail = 0
  /\ m_full = FALSE
  /\ pc = "new"
  /\ src = <<>> /\ newsize = 0 /\ tmp = 0
  /\ out = Queue!Silent
  /\ made = "none"
-----------------------------------------------------------------------------
(***************************************************************************)
(* Growth.                                                                 *)
(***************************************************************************)
\* resize() up to the loop of refix_new_size.
StartGrow(n) ==
  /\ pc' = "grow"
  /\ newsize' = n
  /\ tmp' = IF n <= BUFFER_SIZE_SMALL THEN BUFFER_SIZE_SMALL ELSE m_size

\* Mutant: the loop only ever doubles.
GrowStepDoublesOnly ==
  /\ pc = "grow"
  /\ tmp < newsize
  /\ tmp' = IF tmp < BUFFER_SIZE_RAW THEN tmp * 2 ELSE tmp
  /\ UNCHANGED <<ring, pc, src, newsize, out, made>>

\* One iteration of the loop; from 0, doubling leads nowhere.
GrowStep ==
  /\ pc = "grow"
  /\ tmp < newsize
  /\ tmp' = IF tmp < BUFFER_SIZE_RAW THEN tmp * 2
            ELSE IF tmp < BUFFER_SIZE_MAX THEN tmp + BUFFER_SIZE_RAW
            ELSE tmp
  /\ UNCHANGED <<ring, pc, src, newsize, out, made>>

\* realloc(): the unread bytes move to the front of the new storage;
\* length() is asked when m_head is already 0 and the rest is still old.
realloc(n) ==
  LET moved == IF m_head < m_tail
               THEN Cells(m_data, m_head, m_tail - m_head)
               ELSE Cells(m_data, m_head, m_size - m_head) \o Cells(m_data, 0, m_tail)
      tail  == LengthOf(0, m_tail, m_size, m_full)
  IN /\ m_data' = [c \in 0..(n - 1) |->
                     IF c < Len(moved) THEN moved[c + 1] ELSE Junk]
     /\ m_size' = n
     /\ m_head' = 0
     /\ m_tail' = tail
     /\ m_full' = (tail = n)

\* The size is valid: move to it and, in append, go on to store.
FinishGrow ==
  /\ pc = "grow"
  /\ tmp >= newsize
  /\ is_valid_size(tmp)
  /\ realloc(tmp)
  /\ pc' = IF src = <<>> THEN "idle" ELSE "store"
  /\ newsize' = 0 /\ tmp' = 0
  /\ UNCHANGED <<src, out, made>>

\* The loop overshot BUFFER_SIZE_MAX: resize() fails and append returns 0.
GrowRefused ==
  /\ pc = "grow"
  /\ tmp >= newsize
  /\ ~is_valid_size(tmp)
  /\ pc' = "idle"
  /\ src' = <<>> /\ newsize' = 0 /\ tmp' = 0
  /\ out' = IF src = <<>> THEN out ELSE Queue!Report("refuse", Len(src), src)
  /\ UNCHANGED <<ring, made>>
-----------------------------------------------------------------------------
(***************************************************************************)
(* Constructors.                                                           *)
(***************************************************************************)
Construct(init_size) ==
  LET atLeast == IF init_size > BUFFER_SIZE_SMALL THEN init_size ELSE BUFFER_SIZE_SMALL
      clamped == IF atLeast > BUFFER_SIZE_MAX THEN BUFFER_SIZE_MAX ELSE atLeast
  IN /\ pc = "new"
     /\ StartGrow(clamped)
     /\ made' = "size"
     /\ UNCHANGED <<ring, src, out>>

\* copy_from(s, len, len + len / 2); an empty string leaves no storage.
ConstructText(s) ==
  LET len  == Len(s)
      size == len + (len \div 2)
  IN /\ pc = "new"
     /\ pc' = "idle"
     /\ IF len > 0
        THEN /\ m_data' = [c \in 0..(len - 1) |-> s[c + 1]]
             /\ m_size' = size
             /\ m_head' = 0
             /\ m_tail' = (m_tail + len) % size
             /\ m_full' = (m_tail' = m_size')
        ELSE UNCHANGED ring
     /\ made' = "text"
     /\ UNCHANGED <<src, newsize, tmp, out>>
-----------------------------------------------------------------------------
(***************************************************************************)
(* append.                                                                 *)
(***************************************************************************)
AppendFits(s) ==
  /\ pc = "idle"
  /\ get_free_size >= Len(s)
  /\ pc' = "store"
  /\ src' = s
  /\ out' = Queue!Silent
  /\ UNCHANGED <<ring, newsize, tmp, made>>

AppendGrows(s) ==
  /\ pc = "idle"
  /\ get_free_size < Len(s)
  /\ is_valid_size(length + Len(s))
  /\ StartGrow(length + Len(s))
  /\ src' = s
  /\ out' = Queue!Silent
  /\ UNCHANGED <<ring, made>>

AppendRefused(s) ==
  /\ pc = "idle"
  /\ get_free_size < Len(s)
  /\ ~is_valid_size(length + Len(s))
  /\ out' = Queue!Report("refuse", Len(s), s)
  /\ UNCHANGED <<ring, call, made>>

\* The free cells with the bytes copied into them, in one piece or two.
Filled ==
  LET n          == Len(src)
      right_free == m_size - m_tail
  IN [c \in DOMAIN m_data |->
        IF m_tail <= c /\ c < m_tail + n THEN src[c - m_tail + 1]
        ELSE IF m_head <= m_tail /\ c < n - right_free
             THEN src[right_free + c + 1]
        ELSE m_data[c]]

\* Mutant: m_tail is not wrapped.
StoreNoWrap ==
  /\ pc = "store"
  /\ m_data' = Filled
  /\ m_tail' = m_tail + Len(src)
  /\ m_full' = (m_head = m_tail')
  /\ pc' = "idle"
  /\ src' = <<>>
  /\ out' = Queue!Report("append", Len(src), src)
  /\ UNCHANGED <<m_size, m_head, newsize, tmp, made>>

\* Mutant: check_full_after_append is not called.
StoreForgetsFull ==
  /\ pc = "store"
  /\ m_data' = Filled
  /\ m_tail' = (m_tail + Len(src)) % m_size
  /\ m_full' = FALSE
  /\ pc' = "idle"
  /\ src' = <<>>
  /\ out' = Queue!Report("append", Len(src), src)
  /\ UNCHANGED <<m_size, m_head, newsize, tmp, made>>

\* The copy, the new m_tail and check_full_after_append.
Store ==
  /\ pc = "store"
  /\ m_data' = Filled
  /\ m_tail' = (m_tail + Len(src)) % m_size
  /\ m_full' = (m_head = m_tail')
  /\ pc' = "idle"
  /\ src' = <<>>
  /\ out' = Queue!Report("append", Len(src), src)
  /\ UNCHANGED <<m_size, m_head, newsize, tmp, made>>
-----------------------------------------------------------------------------
(***************************************************************************)
(* The consuming and reading methods.                                      *)
(***************************************************************************)
AtMostLength(n) == IF length < n THEN length ELSE n

\* Mutant: check_full_after_writeto is not called.
ConsumeKeepsFull(n) ==
  /\ m_head' = (m_head + n) % m_size
  /\ UNCHANGED <<m_data, m_size, m_tail, m_full>>

\* m_head moves past n bytes and the buffer is no longer full.
Consume(n) ==
  /\ m_head' = (m_head + n) % m_size
  /\ m_full' = FALSE
  /\ UNCHANGED <<m_data, m_size, m_tail>>

write_to(n) ==
  /\ pc = "idle"
  /\ out' = Queue!Report("write_to", n, IF empty THEN <<>> ELSE Unread(AtMostLength(n)))
  /\ IF empty THEN UNCHANGED ring ELSE Consume(AtMostLength(n))
  /\ UNCHANGED <<call, made>>

peek(n) ==
  /\ pc = "idle"
  /\ out' = Queue!Report("peek", n, IF empty THEN <<>> ELSE Unread(AtMostLength(n)))
  /\ UNCHANGED <<ring, call, made>>

skip(n) ==
  /\ pc = "idle"
  /\ IF length < n THEN UNCHANGED ring ELSE Consume(n)
  /\ out' = Queue!Report("skip", n, <<>>)
  /\ UNCHANGED <<call, made>>

clear ==
  /\ pc = "idle"
  /\ m_head' = 0 /\ m_tail' = 0 /\ m_full' = FALSE
  /\ out' = Queue!Report("clear", 0, <<>>)
  /\ UNCHANGED <<m_data, m_size, call, made>>

\* The callers of retrieve_all_as_string hold less than its array does.
retrieve_all_as_string ==
  /\ pc = "idle"
  /\ length < RETRIEVE_MAX
  /\ out' = Queue!Report("retrieve", 0, IF empty THEN <<>> ELSE Queue!UpToNul(contents))
  /\ UNCHANGED <<ring, call, made>>

AllButGrowth ==
  \/ \E n \in InitSizes : Construct(n)
  \/ \E s \in Texts : ConstructText(s)
  \/ GrowStep
  \/ FinishGrow
  \/ GrowRefused
  \/ \E s \in Sources : AppendFits(s) \/ AppendRefused(s)
  \/ Store
  \/ \E n \in Counts : write_to(n) \/ peek(n) \/ skip(n)
  \/ clear
  \/ retrieve_all_as_string

Next ==
  \/ AllButGrowth
  \/ \E s \in Sources : AppendGrows(s)

Spec == Init /\ [][Next]_vars

(***************************************************************************)
(* The same without growth while the unread bytes start behind cell 0      *)
(* (a full buffer may start anywhere): realloc is right only then.         *)
(***************************************************************************)
OrderlyNext ==
  \/ AllButGrowth
  \/ \E s \in Sources : (m_head = 0 \/ m_full) /\ AppendGrows(s)

OrderlySpec == Init /\ [][OrderlyNext]_vars

\* A call that has begun goes on: nothing in it waits.
Proceed == GrowStep \/ FinishGrow \/ GrowRefused \/ Store

FairSpec == OrderlySpec /\ WF_vars(Proceed)
-----------------------------------------------------------------------------
(***************************************************************************)
(* Properties.                                                             *)
(***************************************************************************)
\* Buffers built by size are queues of bytes.  An append adds exactly its
\* bytes or, refused, nothing; growing on the way changes nothing; write_to
\* and skip consume exactly the bytes at the front they are asked for, only
\* clear drops the rest, and peek and write_to hand over what was appended.
\* So wrapping around, the full flag and growing lose, repeat and reorder
\* nothing.
ImplementsByteQueue ==
  Queue!QueueInit /\ [][made' = "size" => Queue!QueueNext]_vars

\* A growth loop that starts from some storage ends, and append returns.
GrowthReturns == (pc = "grow" /\ tmp > 0) ~> (pc = "idle")

\* A buffer built by size refuses an append only when more than
\* BUFFER_SIZE_MAX bytes would be unread, never because the steps of the
\* growth loop jump over the maximum.
RefusesOnlyBeyondMax == [][made = "size" => ~GrowRefused]_vars

\* Every call changes length() by exactly what it stored or handed over.  A
\* buffer built from a string has the string's length, except that one built
\* from a single character is empty: m_tail has wrapped to 0 before it is
\* compared with m_size.
LengthsAddUp ==
  [][/\ \A s \in Texts : ConstructText(s) => length' = IF Len(s) = 1 THEN 0 ELSE Len(s)
     /\ Store => length' = length + Len(src)
     /\ FinishGrow \/ GrowStep => length' = length
     /\ \A n \in Counts : write_to(n) => length' = length - Len(out'.bytes)
     /\ \A n \in Counts : skip(n) => length' \in {length, length - n}
    ]_vars

\* Growing keeps the unread bytes: what the buffer test expects of an append
\* that grows a full buffer, asked of every buffer.
GrowthKeepsUnread == [][FinishGrow => contents' = contents]_vars

\* An append adds its bytes behind the unread ones: what the buffer test
\* expects of one to a buffer built from a string, and what append's
\* diagrams call free space promises.
AppendAddsBytes == [][Store => contents' = contents \o src]_vars
=============================================================================
