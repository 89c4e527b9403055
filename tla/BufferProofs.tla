---------------------------- MODULE BufferProofs ----------------------------
(***************************************************************************)
(* Proofs about Buffer, for any sizes, bytes and arguments.                *)
(***************************************************************************)
EXTENDS Buffer, SequenceTheorems, WellFoundedInduction, TLAPS

(***************************************************************************)
(* Arithmetic of the ring.                                                 *)
(***************************************************************************)
\* The cell a position behind the end of the storage stands for.
Wrap(x, size) == IF x < size THEN x ELSE x - size

\* What a cell may hold.
Cell == Bytes \cup {Junk}

\* What out may say of a call.
Reports == [by : Queue!Calls, n : Nat, bytes : Seq(Cell)]

\* Bytes are cells.
LEMMA BytesAreCells ==
  ASSUME NEW s \in Seq(Bytes)
  PROVE  s \in Seq(Cell)
  BY DEF Cell

\* A report of cells is one.
LEMMA ReportType ==
  ASSUME NEW by \in Queue!Calls, NEW n \in Nat, NEW bytes \in Seq(Cell)
  PROVE  Queue!Report(by, n, bytes) \in Reports /\ Queue!Report(by, n, bytes).bytes = bytes
  BY DEF Queue!Report, Reports

\* The names of the calls.
LEMMA CallNames ==
  {"none", "append", "refuse", "write_to", "peek", "skip", "clear", "retrieve"} = Queue!Calls
  BY DEF Queue!Calls

LEMMA SilentType == Queue!Silent \in Reports
<1>1. <<>> \in Seq(Cell)
  OBVIOUS
<1>2. QED
  BY <1>1, ReportType, CallNames DEF Queue!Silent

\* Positions never pass the end more than once.
LEMMA ModOnce ==
  ASSUME NEW size \in Nat, size > 0, NEW x \in Nat, x < 2 * size
  PROVE  x % size = Wrap(x, size) /\ Wrap(x, size) \in 0..(size - 1)
  BY DEF Wrap

\* length() lies between 0 and the size, and leads from head to tail.
LEMMA LengthFacts ==
  ASSUME NEW size \in Nat, size > 0, NEW head \in 0..(size - 1), NEW tail \in 0..(size - 1),
         NEW isfull \in BOOLEAN, isfull => head = tail
  PROVE  /\ LengthOf(head, tail, size, isfull) \in 0..size
         /\ Wrap(head + LengthOf(head, tail, size, isfull), size) = tail
         /\ LengthOf(head, tail, size, isfull) = 0 <=> head = tail /\ ~isfull
         /\ LengthOf(head, tail, size, isfull) = size <=> isfull
  BY DEF LengthOf, Wrap

(***************************************************************************)
(* S is the size, h the head, t the tail, L the length, n the bytes a call *)
(* moves.                                                                  *)
(***************************************************************************)
\* The length after n bytes have been stored.
LEMMA LengthAfterStore ==
  ASSUME NEW S \in Nat, S > 0, NEW h \in 0..(S - 1), NEW L \in 0..S,
         NEW n \in Nat, n > 0, L + n <= S, NEW full \in BOOLEAN,
         full <=> h = Wrap(Wrap(h + L, S) + n, S)
  PROVE  LengthOf(h, Wrap(Wrap(h + L, S) + n, S), S, full) = L + n
  BY DEF Wrap, LengthOf

\* The length after n bytes have been consumed.
LEMMA LengthAfterConsume ==
  ASSUME NEW S \in Nat, S > 0, NEW h \in 0..(S - 1), NEW L \in 0..S,
         NEW n \in 1..L
  PROVE  LengthOf(Wrap(h + n, S), Wrap(h + L, S), S, FALSE) = L - n
  BY DEF Wrap, LengthOf

\* Cells reads a sequence of that length.
LEMMA CellsFacts ==
  ASSUME NEW size \in Nat, NEW data \in [0..(size - 1) -> Cell],
         NEW from \in Nat, NEW n \in Nat, from + n <= size
  PROVE  /\ Cells(data, from, n) \in Seq(Cell)
         /\ Len(Cells(data, from, n)) = n
         /\ \A i \in 1..n : Cells(data, from, n)[i] = data[from + i - 1]
<1> DEFINE c == Cells(data, from, n)
<1>1. c \in [1..n -> Cell] /\ \A i \in 1..n : c[i] = data[from + i - 1]
  BY DEF Cells
<1>2. c \in Seq(Cell) /\ Len(c) = n
  <2> HIDE DEF c
  <2>1. QED
    BY <1>1, SeqDef
<1>3. QED
  BY <1>1, <1>2

\* The unread bytes are the cells from head on, around the end.
LEMMA UnreadFacts ==
  ASSUME NEW size \in Nat, size > 0, NEW data \in [0..(size - 1) -> Cell],
         NEW head \in 0..(size - 1), NEW tail \in 0..(size - 1),
         NEW n \in Nat, n <= size, head < tail => n <= tail - head
  PROVE  /\ UnreadOf(data, head, tail, size, n) \in Seq(Cell)
         /\ Len(UnreadOf(data, head, tail, size, n)) = n
         /\ \A i \in 1..n : UnreadOf(data, head, tail, size, n)[i]
                              = data[Wrap(head + i - 1, size)]
<1> DEFINE u == UnreadOf(data, head, tail, size, n)
           right == size - head
<1>1. CASE head < tail \/ n <= right
  <2>1. u = Cells(data, head, n) /\ head + n <= size
    BY <1>1 DEF UnreadOf
  <2>2. \A i \in 1..n : Wrap(head + i - 1, size) = head + i - 1
    BY <2>1 DEF Wrap
  <2>3. /\ Cells(data, head, n) \in Seq(Cell) /\ Len(Cells(data, head, n)) = n
        /\ \A i \in 1..n : Cells(data, head, n)[i] = data[head + i - 1]
    <3>1. head \in Nat /\ size \in Nat
      OBVIOUS
    <3>2. Cells(data, head, n) \in Seq(Cell) /\ Len(Cells(data, head, n)) = n
      BY <3>1, <2>1, CellsFacts, Zenon
    <3>3. \A i \in 1..n : Cells(data, head, n)[i] = data[head + i - 1]
      BY <3>1, <2>1, CellsFacts
    <3>4. QED
      BY <3>2, <3>3
  <2>4. QED
    BY <2>1, <2>2, <2>3
<1>2. CASE ~(head < tail \/ n <= right)
  <2> DEFINE a == Cells(data, head, right)
             b == Cells(data, 0, n - right)
  <2>1. u = a \o b
    BY <1>2 DEF UnreadOf
  <2>2. /\ right \in Nat /\ n - right \in Nat /\ n - right <= size
        /\ head + right <= size
    BY <1>2
  <2>3. /\ a \in Seq(Cell) /\ Len(a) = right
        /\ \A i \in 1..right : a[i] = data[head + i - 1]
        /\ b \in Seq(Cell) /\ Len(b) = n - right
        /\ \A i \in 1..(n - right) : b[i] = data[0 + i - 1]
    <3>1. ASSUME NEW from \in Nat, NEW m \in Nat, from + m <= size
          PROVE  /\ Cells(data, from, m) \in Seq(Cell)
                 /\ Len(Cells(data, from, m)) = m
                 /\ \A i \in 1..m : Cells(data, from, m)[i] = data[from + i - 1]
      BY <3>1, CellsFacts, ZenonT(40)
    <3>2. head \in Nat /\ 0 \in Nat /\ 0 + (n - right) <= size
      BY <2>2
    <3>3. QED
      BY <3>1, <3>2, <2>2
  <2> HIDE DEF a, b
  <2>4. /\ u \in Seq(Cell) /\ Len(u) = n
        /\ \A i \in 1..n : u[i] = IF i <= right THEN a[i] ELSE b[i - right]
    <3>1. /\ a \o b \in Seq(Cell) /\ Len(a \o b) = Len(a) + Len(b)
          /\ \A i \in 1..(Len(a) + Len(b)) :
                (a \o b)[i] = IF i <= Len(a) THEN a[i] ELSE b[i - Len(a)]
      BY <2>3, ConcatProperties, Zenon
    <3> HIDE DEF u, right
    <3>2. right + (n - right) = n
      BY <2>2
    <3>3. QED
      BY <3>1, <3>2, <2>1, <2>3, Zenon
  <2>5. ASSUME NEW i \in 1..n PROVE u[i] = data[Wrap(head + i - 1, size)]
    <3>1. CASE i <= right
      <4>1. i \in 1..right /\ Wrap(head + i - 1, size) = head + i - 1
        BY <3>1 DEF Wrap
      <4>2. QED
        BY <3>1, <4>1, <2>3, <2>4
    <3>2. CASE ~(i <= right)
      <4>1. /\ i - right \in 1..(n - right)
            /\ Wrap(head + i - 1, size) = 0 + (i - right) - 1
        BY <3>2 DEF Wrap
      <4>2. QED
        BY <3>2, <4>1, <2>3, <2>4
    <3>3. QED
      BY <3>1, <3>2
  <2>6. QED
    BY <2>4, <2>5
<1>3. QED
  BY <1>1, <1>2

\* Every nonempty set of naturals has a least element.
LEMMA LeastNat ==
  ASSUME NEW T, T \subseteq Nat, T # {}
  PROVE  \E x \in T : \A y \in T : x <= y
<1> DEFINE R == OpToRel(<, Nat)
<1>1. IsWellFoundedOn(R, Nat)
  BY NatLessThanWellFounded, Zenon
<1>2. \A x, y \in Nat : <<y, x>> \in R <=> y < x
  BY DEF OpToRel
<1> HIDE DEF R
<1>3. PICK x \in T : \A y \in T : ~(<<y, x>> \in R)
  BY <1>1, WFMin, Zenon
<1>4. \A y \in T : ~(y < x)
  BY <1>2, <1>3
<1>5. \A y \in T : x <= y
  BY <1>4
<1>6. QED
  BY <1>5

\* What std::string keeps of a sequence of cells is one.
LEMMA UpToNulType ==
  ASSUME NEW s \in Seq(Cell)
  PROVE  Queue!UpToNul(s) \in Seq(Cell)
<1> DEFINE First(i) == s[i] = Nul /\ \A j \in 1..(i - 1) : s[j] # Nul
           k == CHOOSE i \in 1..Len(s) : First(i)
<1>1. CASE \E i \in 1..Len(s) : s[i] = Nul
  <2>1. \E i \in 1..Len(s) : First(i)
    <3> DEFINE T == {i \in 1..Len(s) : s[i] = Nul}
    <3>1. T \subseteq Nat /\ T # {}
      BY <1>1
    <3>2. PICK i \in T : \A j \in T : i <= j
      BY <3>1, LeastNat
    <3>3. QED
      BY <3>2
  <2>2. k \in 1..Len(s)
    BY <2>1
  <2>3. Queue!UpToNul(s) = SubSeq(s, 1, k - 1)
    BY <1>1 DEF Queue!UpToNul
  <2> HIDE DEF k
  <2>4. \A i \in 1..(k - 1) : s[i] \in Cell
    BY <2>2
  <2>5. SubSeq(s, 1, k - 1) \in Seq(Cell)
    BY <2>2, <2>4, SubSeqProperties
  <2>6. QED
    BY <2>3, <2>5
<1>2. CASE ~\E i \in 1..Len(s) : s[i] = Nul
  BY <1>2 DEF Queue!UpToNul
<1>3. QED
  BY <1>1, <1>2
-----------------------------------------------------------------------------
(***************************************************************************)
(* Types, for every buffer and every order of calls.                       *)
(***************************************************************************)
\* What each phase of a call may rely on.
Phase ==
  /\ pc = "new" => m_size = 0 /\ m_full = FALSE
  /\ pc = "grow" => newsize > m_size
  /\ pc = "store" => m_size > 0
  /\ pc = "new" => made = "none"

TypeInv == TypeOK /\ Phase

\* length() of a buffer.
LEMMA LengthType ==
  ASSUME TypeOK
  PROVE  length \in Nat /\ length <= m_size
  BY DEF TypeOK, Indices, length, LengthOf

\* Cells beyond the storage are Junk, so any reading is a sequence of cells.
LEMMA CellsType ==
  ASSUME NEW k \in Nat, NEW data \in [0..(k - 1) -> Cell],
         NEW from \in Nat, NEW n \in Nat
  PROVE  Cells(data, from, n) \in Seq(Cell) /\ Len(Cells(data, from, n)) = n
<1> DEFINE c == Cells(data, from, n)
<1>1. c \in [1..n -> Cell]
  BY DEF Cells, Cell
<1>2. QED
  <2> HIDE DEF c
  <2>1. c \in Seq(Cell) /\ Len(c) = n
    BY <1>1, SeqDef
  <2> USE DEF c
  <2>2. QED
    BY <2>1

\* What write_to and peek hand over.
LEMMA UnreadType ==
  ASSUME TypeOK, NEW n \in Nat
  PROVE  Unread(n) \in Seq(Cell) /\ Len(Unread(n)) = n
<1>1. PICK k \in 0..m_size : m_data \in [0..(k - 1) -> Cell]
  BY DEF TypeOK, Cell
<1>2. /\ k \in Nat /\ m_head \in Nat /\ 0 \in Nat /\ m_size - m_head \in Nat
  BY <1>1 DEF TypeOK, Indices
<1>3. ASSUME NEW from \in Nat, NEW m \in Nat
      PROVE  Cells(m_data, from, m) \in Seq(Cell) /\ Len(Cells(m_data, from, m)) = m
  BY <1>1, <1>2, CellsType
<1>4. CASE m_head < m_tail \/ n <= m_size - m_head
  <2>1. Unread(n) = Cells(m_data, m_head, n)
    BY <1>4 DEF Unread, UnreadOf
  <2>2. QED
    BY <2>1, <1>2, <1>3
<1>5. CASE ~(m_head < m_tail \/ n <= m_size - m_head)
  <2> DEFINE a == Cells(m_data, m_head, m_size - m_head)
             b == Cells(m_data, 0, n - (m_size - m_head))
  <2>1. Unread(n) = a \o b
    BY <1>5 DEF Unread, UnreadOf
  <2>2. n - (m_size - m_head) \in Nat
    BY <1>5, <1>2
  <2>3. /\ a \in Seq(Cell) /\ Len(a) = m_size - m_head
        /\ b \in Seq(Cell) /\ Len(b) = n - (m_size - m_head)
    BY <1>2, <1>3, <2>2
  <2> HIDE DEF a, b
  <2>4. a \o b \in Seq(Cell) /\ Len(a \o b) = Len(a) + Len(b)
    BY <2>3, ConcatProperties
  <2>5. QED
    BY <1>2, <2>1, <2>3, <2>4
<1>6. QED
  BY <1>4, <1>5

\* Growth moves the bytes to new storage of a larger size.
LEMMA FinishGrowType ==
  ASSUME TypeInv, FinishGrow
  PROVE  TypeInv'
<1> USE DEF TypeInv
<1> DEFINE moved == IF m_head < m_tail
                    THEN Cells(m_data, m_head, m_tail - m_head)
                    ELSE Cells(m_data, m_head, m_size - m_head) \o Cells(m_data, 0, m_tail)
           tail  == LengthOf(0, m_tail, m_size, m_full)
<1>1. /\ tmp \in Nat /\ tmp > m_size /\ m_size \in Nat
      /\ m_head \in Nat /\ m_tail \in Nat /\ 0 \in Nat /\ m_size - m_head \in Nat
  BY DEF TypeOK, Indices, Phase, FinishGrow
<1>2. tail \in 0..m_size
  BY DEF TypeOK, Indices, LengthOf
<1>3. moved \in Seq(Cell)
  <2>1. PICK k \in 0..m_size : m_data \in [0..(k - 1) -> Cell]
    BY DEF TypeOK, Cell
  <2>2. ASSUME NEW from \in Nat, NEW m \in Nat
        PROVE  Cells(m_data, from, m) \in Seq(Cell)
    <3>1. k \in Nat
      BY <2>1, <1>1
    <3>2. QED
      BY <2>1, <3>1, CellsType
  <2>3. CASE m_head < m_tail
    <3>1. m_tail - m_head \in Nat
      BY <2>3, <1>1
    <3>2. QED
      BY <2>2, <2>3, <3>1, <1>1
  <2>4. CASE ~(m_head < m_tail)
    <3> DEFINE a == Cells(m_data, m_head, m_size - m_head)
               b == Cells(m_data, 0, m_tail)
    <3>1. a \in Seq(Cell) /\ b \in Seq(Cell)
      BY <2>2, <1>1
    <3>2. moved = a \o b
      BY <2>4
    <3> HIDE DEF a, b, moved
    <3>3. QED
      BY <3>1, <3>2, ConcatProperties
  <2>5. QED
    BY <2>3, <2>4
<1>4. /\ m_data' = [c \in 0..(tmp - 1) |-> IF c < Len(moved) THEN moved[c + 1] ELSE Junk]
      /\ m_size' = tmp /\ m_head' = 0 /\ m_tail' = tail /\ m_full' = (tail = tmp)
  BY DEF FinishGrow, realloc
<1> HIDE DEF moved, tail
<1>5. m_data' \in [0..(tmp - 1) -> Cell]
  <2>1. \A c \in 0..(tmp - 1) : c < Len(moved) => moved[c + 1] \in Cell
    BY <1>3
  <2>2. Junk \in Cell
    BY DEF Cell
  <2>3. QED
    BY <1>4, <2>1, <2>2
<1>6. /\ m_size' \in Nat /\ m_head' \in Indices' /\ m_tail' \in Indices'
      /\ m_full' = FALSE
  <2>1. tmp # 0 /\ tail \in 0..(tmp - 1) /\ tail # tmp
    BY <1>1, <1>2
  <2>2. m_full' = FALSE
    BY <1>4, <2>1, Zenon
  <2>3. Indices' = 0..(tmp - 1)
    BY <1>4, <2>1 DEF Indices
  <2>4. QED
    BY <1>1, <1>4, <2>1, <2>2, <2>3
<1>7. \E n \in 0..m_size' : m_data' \in [0..(n - 1) -> Bytes \cup {Junk}]
  BY <1>1, <1>4, <1>5 DEF Cell
<1>8. /\ pc' \in {"idle", "store"} /\ newsize' = 0 /\ tmp' = 0
      /\ src' = src /\ out' = out /\ made' = made
  BY DEF FinishGrow
<1>9. TypeOK'
  BY <1>6, <1>7, <1>8 DEF TypeOK
<1>10. Phase'
  BY <1>1, <1>4, <1>8 DEF Phase
<1>11. QED
  BY <1>9, <1>10

\* The copy of append's bytes stays inside the storage.
LEMMA StoreType ==
  ASSUME TypeInv, Store
  PROVE  TypeInv'
<1> USE DEF TypeInv
<1>1. m_size \in Nat /\ m_size > 0 /\ m_tail \in Nat /\ m_head \in Nat
  BY DEF TypeOK, Indices, Phase, Store
<1>2. Len(src) \in Nat /\ \A i \in 1..Len(src) : src[i] \in Cell
  BY DEF TypeOK, Cell
<1>3. PICK k \in 0..m_size : m_data \in [0..(k - 1) -> Cell]
  BY DEF TypeOK, Cell
<1>4. m_data' \in [0..(k - 1) -> Cell]
  <2>1. DOMAIN m_data = 0..(k - 1)
    BY <1>3
  <2>2. \A c \in 0..(k - 1) :
           /\ m_tail <= c /\ c < m_tail + Len(src) => c - m_tail + 1 \in 1..Len(src)
           /\ c < Len(src) - (m_size - m_tail) /\ ~(m_tail <= c /\ c < m_tail + Len(src))
                 => (m_size - m_tail) + c + 1 \in 1..Len(src)
    BY <1>1, <1>2, <1>3 DEF TypeOK, Indices
  <2>3. \A c \in 0..(k - 1) : m_data[c] \in Cell
    BY <1>3
  <2>4. m_data' = [c \in 0..(k - 1) |->
                     IF m_tail <= c /\ c < m_tail + Len(src) THEN src[c - m_tail + 1]
                     ELSE IF m_head <= m_tail /\ c < Len(src) - (m_size - m_tail)
                          THEN src[(m_size - m_tail) + c + 1]
                     ELSE m_data[c]]
    BY <2>1 DEF Store, Filled
  <2>5. QED
    BY <1>2, <2>2, <2>3, <2>4
<1>5. m_tail' \in 0..(m_size - 1) /\ m_size' = m_size /\ m_head' = m_head
  BY <1>1, <1>2 DEF Store
<1>6. /\ m_full' = (m_head = m_tail')
      /\ pc' = "idle" /\ src' = <<>> /\ UNCHANGED <<newsize, tmp, made>>
      /\ out' = Queue!Report("append", Len(src), src)
  BY DEF Store
<1>o. out' \in [by : Queue!Calls, n : Nat, bytes : Seq(Bytes \cup {Junk})]
  <2>1. src \in Seq(Cell)
    BY BytesAreCells DEF TypeOK
  <2>2. out' \in Reports
    BY <1>2, <1>6, <2>1, ReportType, CallNames
  <2>3. QED
    BY <2>2 DEF Reports, Cell
<1>7. \E n \in 0..m_size' : m_data' \in [0..(n - 1) -> Bytes \cup {Junk}]
  BY <1>3, <1>4, <1>5 DEF Cell
<1>8. TypeOK'
  <2>1. m_head' \in Indices' /\ m_tail' \in Indices'
    BY <1>1, <1>5 DEF TypeOK, Indices
  <2>2. m_full' \in BOOLEAN /\ (m_full' => m_head' = m_tail')
    BY <1>5, <1>6, Zenon
  <2>3. m_size' \in Nat /\ m_size' > 0
    BY <1>1, <1>5
  <2>4. /\ pc' \in {"new", "idle", "grow", "store"} /\ src' \in Seq(Bytes)
        /\ newsize' \in Nat /\ tmp' \in Nat /\ made' \in {"none", "size", "text"}
    BY <1>6 DEF TypeOK
  <2>5. QED
    BY <1>7, <1>o, <2>1, <2>2, <2>3, <2>4 DEF TypeOK
<1>9. Phase'
  BY <1>6 DEF Phase
<1>10. QED
  BY <1>8, <1>9

\* Moving m_head past bytes that are there.
LEMMA ConsumeType ==
  ASSUME TypeInv, NEW n \in 1..length, Consume(n),
         UNCHANGED <<call, made>>, out' \in Reports
  PROVE  TypeInv'
<1> USE DEF TypeInv
<1>1. m_size \in Nat /\ m_size > 0 /\ m_head \in Nat
  <2>1. m_size \in Nat /\ m_head \in Nat
    BY DEF TypeOK, Indices
  <2>2. length \in 0..m_size
    BY LengthType
  <2>3. QED
    BY <2>1, <2>2
<1>2. m_head' \in 0..(m_size - 1) /\ m_full' = FALSE
  BY <1>1, LengthType DEF Consume
<1>3. UNCHANGED <<m_data, m_size, m_tail, pc, src, newsize, tmp, made>>
  BY DEF Consume, call
<1>4. TypeOK'
  <2>1. m_head' \in Indices' /\ m_tail' \in Indices'
    BY <1>1, <1>2, <1>3 DEF TypeOK, Indices
  <2>2. \E k \in 0..m_size' : m_data' \in [0..(k - 1) -> Bytes \cup {Junk}]
    BY <1>3 DEF TypeOK
  <2>3. out' \in [by : Queue!Calls, n : Nat, bytes : Seq(Bytes \cup {Junk})]
    BY DEF Cell, Reports
  <2>4. QED
    BY <1>2, <1>3, <2>1, <2>2, <2>3 DEF TypeOK
<1>5. Phase'
  BY <1>2, <1>3 DEF Phase
<1>6. QED
  BY <1>4, <1>5

\* The storage and the positions are as before, and the rest is well typed.
LEMMA SameRingType ==
  ASSUME TypeInv, UNCHANGED ring,
         pc' \in {"new", "idle", "grow", "store"}, src' \in Seq(Bytes),
         newsize' \in Nat, tmp' \in Nat, out' \in Reports,
         made' \in {"none", "size", "text"}
  PROVE  TypeOK'
<1>1. UNCHANGED <<m_data, m_size, m_head, m_tail, m_full>>
  BY DEF ring
<1>2. out' \in [by : Queue!Calls, n : Nat, bytes : Seq(Bytes \cup {Junk})]
  BY DEF Cell, Reports
<1>3. QED
  BY <1>1, <1>2 DEF TypeInv, TypeOK, Indices

\* Starting a growth.
LEMMA StartGrowType ==
  ASSUME TypeInv, NEW n \in Nat, StartGrow(n)
  PROVE  pc' = "grow" /\ newsize' = n /\ tmp' \in Nat
  BY BufferAssumption DEF StartGrow, TypeInv, TypeOK

LEMMA TypeStep ==
  ASSUME TypeInv, [Next]_vars
  PROVE  TypeInv'
<1> USE BufferAssumption
<1>e. <<>> \in Seq(Cell) /\ <<>> \in Seq(Bytes)
  OBVIOUS
<1>t. /\ pc \in {"new", "idle", "grow", "store"} /\ src \in Seq(Bytes)
      /\ newsize \in Nat /\ tmp \in Nat /\ out \in Reports /\ m_size \in Nat
      /\ made \in {"none", "size", "text"}
  BY DEF TypeInv, TypeOK, Cell, Reports
<1>s. src \in Seq(Cell) /\ Len(src) \in Nat
  BY <1>t, BytesAreCells
\* What the methods report.
<1>r. ASSUME NEW by \in Queue!Calls, NEW k \in Nat, NEW bytes \in Seq(Cell),
             out' = Queue!Report(by, k, bytes)
      PROVE  out' \in Reports
  BY <1>r, ReportType
<1>l. length \in Nat /\ length <= m_size
  BY LengthType DEF TypeInv
<1>1. ASSUME NEW n \in InitSizes, Construct(n) PROVE TypeInv'
  <2> DEFINE atLeast == IF n > BUFFER_SIZE_SMALL THEN n ELSE BUFFER_SIZE_SMALL
             clamped == IF atLeast > BUFFER_SIZE_MAX THEN BUFFER_SIZE_MAX ELSE atLeast
  <2>1. clamped \in Nat /\ clamped > 0
    BY BufferAssumption
  <2>2. StartGrow(clamped) /\ pc = "new" /\ made' = "size" /\ UNCHANGED <<ring, src, out>>
    BY <1>1 DEF Construct
  <2> HIDE DEF clamped
  <2>3. pc' = "grow" /\ newsize' = clamped /\ tmp' \in Nat
    BY <2>1, <2>2, StartGrowType
  <2>4. TypeOK'
    BY <1>t, <2>1, <2>2, <2>3, SameRingType
  <2>5. Phase'
    BY <2>1, <2>2, <2>3 DEF TypeInv, Phase, ring
  <2>6. QED
    BY <2>4, <2>5 DEF TypeInv
<1>2. ASSUME NEW s \in Texts, ConstructText(s) PROVE TypeInv'
  <2> DEFINE len  == Len(s)
             size == len + (len \div 2)
  <2>1. len \in Nat /\ size \in Nat /\ len <= size
    BY BufferAssumption
  <2>2. pc' = "idle" /\ UNCHANGED <<src, newsize, tmp, out>> /\ pc = "new" /\ made' = "text"
    BY <1>2 DEF ConstructText
  <2>3. Phase'
    BY <2>2 DEF Phase
  <2>4. CASE len > 0
    <3>1. /\ m_data' = [c \in 0..(len - 1) |-> s[c + 1]]
          /\ m_size' = size /\ m_head' = 0
          /\ m_tail' = (m_tail + len) % size
          /\ m_full' = (m_tail' = m_size')
      BY <1>2, <2>4 DEF ConstructText
    <3>2. s \in Seq(Bytes) /\ m_tail \in Nat
      BY BufferAssumption DEF TypeInv, TypeOK, Indices
    <3>3. m_data' \in [0..(len - 1) -> Bytes \cup {Junk}]
      BY <3>1, <3>2
    <3> HIDE DEF len, size
    <3>4. size > 0
      BY <2>1, <2>4
    <3>5. m_tail' \in 0..(size - 1) /\ m_tail' # m_size'
      BY <2>1, <3>1, <3>2, <3>4
    <3>6. m_full' = FALSE
      BY <3>1, <3>5, Zenon
    <3>7. m_head' \in Indices' /\ m_tail' \in Indices'
      BY <2>1, <3>1, <3>4, <3>5 DEF Indices
    <3>8. \E k \in 0..m_size' : m_data' \in [0..(k - 1) -> Bytes \cup {Junk}]
      <4>1. len \in 0..m_size'
        BY <2>1, <3>1
      <4>2. QED
        BY <3>3, <4>1, Zenon
    <3>9. TypeOK'
      BY <2>1, <2>2, <3>1, <3>6, <3>7, <3>8 DEF TypeInv, TypeOK
    <3>10. QED
      BY <2>3, <3>9 DEF TypeInv
  <2>5. CASE ~(len > 0)
    <3>1. UNCHANGED ring
      BY <1>2, <2>5 DEF ConstructText
    <3>2. TypeOK'
      BY <1>t, <2>2, <3>1, SameRingType
    <3>3. QED
      BY <2>3, <3>2 DEF TypeInv
  <2>6. QED
    BY <2>4, <2>5
<1>3. ASSUME GrowStep PROVE TypeInv'
  <2>1. tmp' \in Nat
    BY <1>3, <1>t, BufferAssumption DEF GrowStep
  <2>2. UNCHANGED <<ring, pc, src, newsize, out, made>>
    BY <1>3 DEF GrowStep
  <2>3. TypeOK'
    BY <1>t, <2>1, <2>2, SameRingType
  <2>4. QED
    BY <2>2, <2>3 DEF TypeInv, Phase, ring
<1>4. ASSUME GrowRefused PROVE TypeInv'
  <2>1. /\ pc' = "idle" /\ src' = <<>> /\ newsize' = 0 /\ tmp' = 0
        /\ UNCHANGED <<ring, made>>
        /\ out' = IF src = <<>> THEN out ELSE Queue!Report("refuse", Len(src), src)
    BY <1>4 DEF GrowRefused
  <2>o. out' \in Reports
    BY <1>t, <1>s, <2>1, ReportType, CallNames
  <2>2. TypeOK'
    BY <1>t, <1>e, <2>1, <2>o, SameRingType
  <2>3. QED
    BY <2>1, <2>2 DEF TypeInv, Phase
<1>5. ASSUME NEW s \in Sources, AppendFits(s) PROVE TypeInv'
  <2>1. /\ pc' = "store" /\ src' = s /\ out' = Queue!Silent /\ UNCHANGED <<ring, newsize, tmp, made>>
        /\ m_size - length >= Len(s)
    BY <1>5 DEF AppendFits, get_free_size
  <2>2. s \in Seq(Bytes) /\ Len(s) \in Nat /\ Len(s) > 0
    BY BufferAssumption, EmptySeq
  <2>3. TypeOK'
    BY <1>t, <2>1, <2>2, SilentType, SameRingType
  <2>4. m_size > 0
    BY <1>l, <1>t, <2>1, <2>2
  <2>5. QED
    BY <2>1, <2>3, <2>4 DEF TypeInv, Phase, ring
<1>6. ASSUME NEW s \in Sources, AppendGrows(s) PROVE TypeInv'
  <2>1. /\ StartGrow(length + Len(s)) /\ src' = s /\ out' = Queue!Silent /\ UNCHANGED <<ring, made>>
        /\ m_size - length < Len(s)
    BY <1>6 DEF AppendGrows, get_free_size
  <2>2. s \in Seq(Bytes) /\ Len(s) \in Nat
    BY BufferAssumption
  <2>3. length + Len(s) \in Nat /\ length + Len(s) > m_size
    BY <1>l, <1>t, <2>1, <2>2
  <2>4. pc' = "grow" /\ newsize' = length + Len(s) /\ tmp' \in Nat
    BY <2>1, <2>3, StartGrowType
  <2>5. TypeOK'
    BY <1>t, <2>1, <2>2, <2>3, <2>4, SilentType, SameRingType
  <2>6. QED
    BY <2>1, <2>3, <2>4, <2>5 DEF TypeInv, Phase, ring
<1>7. ASSUME NEW s \in Sources, AppendRefused(s) PROVE TypeInv'
  <2>1. out' = Queue!Report("refuse", Len(s), s) /\ UNCHANGED <<ring, pc, src, newsize, tmp, made>>
    BY <1>7 DEF AppendRefused, call
  <2>o. s \in Seq(Cell) /\ Len(s) \in Nat
    BY BufferAssumption, BytesAreCells
  <2>p. out' \in Reports
    BY <2>1, <2>o, ReportType, CallNames
  <2>2. TypeOK'
    BY <1>t, <2>1, <2>p, SameRingType
  <2>3. QED
    BY <2>1, <2>2 DEF TypeInv, Phase, ring
\* The calls that leave the ring alone and hand something over.
<1>8. ASSUME UNCHANGED <<ring, call, made>>, out' \in Reports PROVE TypeInv'
  <2>1. UNCHANGED <<ring, pc, src, newsize, tmp, made>>
    BY <1>8 DEF call
  <2>2. TypeOK'
    BY <1>8, <1>t, <2>1, SameRingType
  <2>3. QED
    BY <2>1, <2>2 DEF TypeInv, Phase, ring
<1>9. ASSUME NEW n \in Counts PROVE AtMostLength(n) \in 0..length /\ n \in Nat /\ n > 0
  BY <1>l, BufferAssumption DEF AtMostLength
<1>u. ASSUME NEW n \in Counts
      PROVE  (IF empty THEN <<>> ELSE Unread(AtMostLength(n))) \in Seq(Cell)
  <2>1. AtMostLength(n) \in Nat
    BY <1>9, <1>l
  <2>2. Unread(AtMostLength(n)) \in Seq(Cell)
    BY <2>1, UnreadType DEF TypeInv
  <2>3. QED
    BY <1>e, <2>2
<1>10. ASSUME NEW n \in Counts, write_to(n) PROVE TypeInv'
  <2>o. out' \in Reports
    BY <1>9, <1>10, <1>r, <1>u, CallNames DEF write_to
  <2>1. CASE empty
    BY <1>8, <1>10, <2>o, <2>1 DEF write_to
  <2>2. CASE ~empty
    <3>1. length > 0
      BY <2>2, <1>t, <1>l DEF empty, length, LengthOf, TypeInv, TypeOK, Indices
    <3>2. AtMostLength(n) \in 1..length
      BY <1>9, <1>l, <3>1 DEF AtMostLength
    <3>3. Consume(AtMostLength(n)) /\ UNCHANGED <<call, made>>
      BY <1>10, <2>2 DEF write_to
    <3>4. QED
      BY <2>o, <3>2, <3>3, ConsumeType
  <2>3. QED
    BY <2>1, <2>2
<1>11. ASSUME NEW n \in Counts, peek(n) PROVE TypeInv'
  <2>1. out' \in Reports /\ UNCHANGED <<ring, call, made>>
    BY <1>9, <1>11, <1>r, <1>u, CallNames DEF peek
  <2>2. QED
    BY <2>1, <1>8
<1>12. ASSUME NEW n \in Counts, skip(n) PROVE TypeInv'
  <2>o. out' \in Reports
    BY <1>9, <1>12, <1>r, <1>e, CallNames DEF skip
  <2>1. CASE length < n
    BY <1>12, <2>o, <2>1, <1>8 DEF skip
  <2>2. CASE ~(length < n)
    <3>1. n \in 1..length
      BY <2>2, <1>9, <1>l
    <3>2. Consume(n) /\ UNCHANGED <<call, made>>
      BY <1>12, <2>2 DEF skip
    <3>3. QED
      BY <2>o, <3>1, <3>2, ConsumeType
  <2>3. QED
    BY <2>1, <2>2
<1>13. ASSUME clear PROVE TypeInv'
  <2>o. out' \in Reports
    BY <1>13, <1>r, <1>e, CallNames DEF clear
  <2>1. /\ m_head' = 0 /\ m_tail' = 0 /\ m_full' = FALSE /\ pc = "idle"
        /\ UNCHANGED <<m_data, m_size, pc, src, newsize, tmp, made>>
    BY <1>13 DEF clear, call
  <2>2. m_head' \in Indices' /\ m_tail' \in Indices'
    BY <1>t, <2>1 DEF Indices
  <2>3. /\ \E k \in 0..m_size' : m_data' \in [0..(k - 1) -> Bytes \cup {Junk}]
        /\ out' \in [by : Queue!Calls, n : Nat, bytes : Seq(Bytes \cup {Junk})]
    BY <2>1, <2>o DEF TypeInv, TypeOK, Cell, Reports
  <2>4. TypeOK'
    BY <2>1, <2>2, <2>3 DEF TypeInv, TypeOK
  <2>5. QED
    BY <2>1, <2>4 DEF TypeInv, Phase
<1>14. ASSUME retrieve_all_as_string PROVE TypeInv'
  <2>1. Unread(length) \in Seq(Cell)
    BY <1>l, UnreadType DEF TypeInv
  <2>2. Queue!UpToNul(contents) \in Seq(Cell)
    BY <2>1, UpToNulType DEF contents
  <2>3. (IF empty THEN <<>> ELSE Queue!UpToNul(contents)) \in Seq(Cell)
    BY <1>e, <2>2
  <2>4. out' \in Reports /\ UNCHANGED <<ring, call, made>>
    BY <1>14, <1>r, <2>3, CallNames DEF retrieve_all_as_string
  <2>5. QED
    BY <2>4, <1>8
<1>15. ASSUME UNCHANGED vars PROVE TypeInv'
  BY <1>15, <1>8, <1>t DEF vars
<1>16. QED
  BY <1>1, <1>2, <1>3, <1>4, <1>5, <1>6, <1>7, <1>10, <1>11, <1>12, <1>13, <1>14, <1>15,
     FinishGrowType, StoreType DEF Next, AllButGrowth

\* The constructor's state.
LEMMA InitTyped ==
  ASSUME Init
  PROVE  TypeInv
<1>1. <<>> \in [0..(0 - 1) -> Bytes \cup {Junk}]
  OBVIOUS
<1>2. \E k \in 0..m_size : m_data \in [0..(k - 1) -> Bytes \cup {Junk}]
  <2>1. 0 \in 0..m_size /\ m_data = <<>>
    BY DEF Init
  <2>2. QED
    BY <1>1, <2>1, Zenon
<1>3. /\ src \in Seq(Bytes)
      /\ m_size = 0 /\ m_head = 0 /\ m_tail = 0 /\ m_full = FALSE /\ pc = "new"
      /\ newsize = 0 /\ tmp = 0 /\ made = "none"
  BY DEF Init
<1>o. out \in [by : Queue!Calls, n : Nat, bytes : Seq(Bytes \cup {Junk})]
  BY SilentType DEF Init, Reports, Cell
<1>4. m_head \in Indices /\ m_tail \in Indices
  BY <1>3 DEF Indices
<1>5. TypeOK
  BY <1>2, <1>3, <1>4, <1>o DEF TypeOK
<1>6. QED
  BY <1>3, <1>5 DEF TypeInv, Phase

\* Both positions stay inside the storage and m_full never contradicts them,
\* in every buffer and whatever the order of the calls.
THEOREM BufferTypeCorrect == Spec => []TypeOK
<1>1. Init => TypeInv
  BY InitTyped
<1>2. TypeInv /\ [Next]_vars => TypeInv'
  BY TypeStep
<1>3. TypeInv => TypeOK
  BY DEF TypeInv
<1>4. QED
  BY <1>1, <1>2, <1>3, PTL DEF Spec
-----------------------------------------------------------------------------
(***************************************************************************)
(* Lengths, for every buffer that grows only where realloc is right.       *)
(***************************************************************************)
\* Growth has begun where realloc is right, and asks for room enough.
GrowsWell ==
  pc = "grow" => /\ m_head = 0 \/ m_full
                 /\ newsize >= length + Len(src)

\* There is room for the bytes about to be stored.
StoresWell == pc = "store" => src # <<>> /\ Len(src) <= m_size - length

\* Nothing is to be stored before a buffer is built.
NewIsIdle == pc = "new" => src = <<>>

LengthInv ==
  /\ TypeInv
  /\ GrowsWell
  /\ StoresWell
  /\ NewIsIdle

\* The members and length() in plain terms.
LEMMA PositionFacts ==
  ASSUME TypeOK, m_size > 0
  PROVE  /\ m_size \in Nat
         /\ m_head \in 0..(m_size - 1) /\ m_tail \in 0..(m_size - 1)
         /\ m_full \in BOOLEAN /\ (m_full => m_head = m_tail)
         /\ length \in 0..m_size
         /\ m_tail = Wrap(m_head + length, m_size)
         /\ m_head < m_tail => length = m_tail - m_head
<1>1. /\ m_size \in Nat
      /\ m_head \in 0..(m_size - 1) /\ m_tail \in 0..(m_size - 1)
      /\ m_full \in BOOLEAN /\ (m_full => m_head = m_tail)
  BY DEF TypeOK, Indices
<1>2. QED
  BY <1>1 DEF length, LengthOf, Wrap

\* Storing adds the bytes stored.
LEMMA StoreLength ==
  ASSUME LengthInv, Store
  PROVE  length' = length + Len(src)
<1> DEFINE S == m_size
           h == m_head
           L == length
           n == Len(src)
<1>1. /\ S \in Nat /\ S > 0 /\ h \in 0..(S - 1) /\ L \in 0..S
      /\ m_tail = Wrap(h + L, S) /\ m_tail \in 0..(S - 1)
  BY PositionFacts DEF LengthInv, TypeInv, Phase, Store
<1>2. n \in Nat /\ n > 0 /\ n <= S - L
  BY EmptySeq DEF LengthInv, TypeInv, TypeOK, StoresWell, Store
<1>3. /\ m_tail' = (m_tail + n) % S /\ m_full' = (h = m_tail')
      /\ m_head' = h /\ m_size' = S
  BY DEF Store
<1> HIDE DEF S, h, L, n
<1>4. L + n <= S /\ m_tail + n \in Nat /\ m_tail + n < 2 * S
  BY <1>1, <1>2
<1>5. m_tail' = Wrap(Wrap(h + L, S) + n, S)
  BY <1>1, <1>3, <1>4, ModOnce
<1>6. m_full' \in BOOLEAN /\ (m_full' <=> h = Wrap(Wrap(h + L, S) + n, S))
  BY <1>3, <1>5, Zenon
<1>7. LengthOf(h, m_tail', S, m_full') = L + n
  BY <1>1, <1>2, <1>4, <1>5, <1>6, LengthAfterStore, ZenonT(40)
<1>8. QED
  BY <1>3, <1>7 DEF length, L, n

\* Consuming takes the bytes consumed.
LEMMA ConsumeLength ==
  ASSUME TypeOK, NEW n \in 1..length, Consume(n)
  PROVE  length' = length - n
<1> DEFINE S == m_size
           h == m_head
           L == length
<1>1. S \in Nat /\ S > 0
  <2>1. m_size \in Nat
    BY DEF TypeOK
  <2>2. length \in 0..m_size
    BY LengthType
  <2>3. QED
    BY <2>1, <2>2
<1>2. h \in 0..(S - 1) /\ L \in 0..S /\ m_tail = Wrap(h + L, S) /\ n \in 1..L
  BY <1>1, PositionFacts
<1>3. /\ m_head' = (h + n) % S /\ m_full' = FALSE
      /\ m_tail' = m_tail /\ m_size' = S
  BY DEF Consume
<1> HIDE DEF S, h, L
<1>4. m_head' = Wrap(h + n, S)
  <2>1. h + n \in Nat /\ h + n < 2 * S
    BY <1>1, <1>2
  <2>2. QED
    BY <1>1, <1>3, <2>1, ModOnce
<1>5. LengthOf(m_head', m_tail', S, FALSE) = L - n
  BY <1>1, <1>2, <1>3, <1>4, LengthAfterConsume, ZenonT(40)
<1>6. QED
  BY <1>3, <1>5 DEF length, L

\* Growing where realloc is right changes no length.
LEMMA GrowLength ==
  ASSUME LengthInv, FinishGrow
  PROVE  length' = length /\ m_size' = tmp /\ tmp >= newsize
<1> DEFINE tail == LengthOf(0, m_tail, m_size, m_full)
<1>1. /\ m_head' = 0 /\ m_tail' = tail /\ m_size' = tmp /\ m_full' = (tail = tmp)
      /\ tmp >= newsize
  BY DEF FinishGrow, realloc
<1>2. /\ m_size \in Nat /\ tmp \in Nat /\ tmp > m_size /\ m_tail \in 0..m_size
      /\ m_full \in BOOLEAN /\ (m_full => m_head = m_tail)
      /\ m_head = 0 \/ m_full
  BY DEF LengthInv, TypeInv, TypeOK, Phase, Indices, GrowsWell, FinishGrow
<1>3. tail = length /\ tail \in 0..m_size
  BY <1>2 DEF length, LengthOf
<1> HIDE DEF tail
<1>4. tail # tmp /\ tail \in Nat
  BY <1>2, <1>3
<1>5. m_full' = FALSE
  BY <1>1, <1>4, Zenon
<1>6. length' = tail
  BY <1>1, <1>4, <1>5 DEF length, LengthOf
<1>7. QED
  BY <1>1, <1>3, <1>6

\* A buffer built from a string holds it, unless it is a single character.
LEMMA TextLength ==
  ASSUME TypeInv, NEW s \in Texts, ConstructText(s)
  PROVE  length' = IF Len(s) = 1 THEN 0 ELSE Len(s)
<1> DEFINE len == Len(s)
           size == len + (len \div 2)
<1>1. len \in Nat /\ m_size = 0 /\ m_head = 0 /\ m_tail = 0 /\ m_full = FALSE
  BY BufferAssumption DEF ConstructText, TypeInv, TypeOK, Phase, Indices
<1>2. CASE len = 0
  BY <1>1, <1>2 DEF ConstructText, ring, length, LengthOf
<1>3. CASE len > 0
  <2>1. /\ m_size' = size /\ m_head' = 0 /\ m_tail' = (0 + len) % size
        /\ m_full' = (m_tail' = m_size')
    BY <1>1, <1>3 DEF ConstructText
  <2>2. size \in Nat /\ size > 0 /\ (len = 1 => size = 1) /\ (len > 1 => size > len)
    <3>1. \A k \in Nat : /\ k \div 2 \in Nat
                         /\ k = 1 => k \div 2 = 0
                         /\ k > 1 => k \div 2 > 0
      OBVIOUS
    <3> HIDE DEF len
    <3>2. QED
      BY <1>1, <1>3, <3>1
  <2> HIDE DEF len, size
  <2>3. m_tail' = Wrap(len, size) /\ m_tail' # size
    <3>1. len < 2 * size /\ 0 + len = len
      BY <1>1, <1>3, <2>2
    <3>2. QED
      BY <1>1, <2>1, <2>2, <3>1, ModOnce
  <2>4. m_full' = FALSE
    BY <2>1, <2>3, Zenon
  <2>5. length' = IF len = 1 THEN 0 ELSE len
    BY <1>1, <1>3, <2>1, <2>2, <2>3, <2>4 DEF length, LengthOf, Wrap
  <2>6. QED
    BY <2>5 DEF len
<1>4. QED
  BY <1>1, <1>2, <1>3

\* The invariant of the lengths is inductive.
LEMMA LengthStep ==
  ASSUME LengthInv, [OrderlyNext]_vars
  PROVE  LengthInv'
<1>1. TypeInv' /\ TypeInv
  <2>1. [Next]_vars
    BY DEF OrderlyNext, Next
  <2>2. QED
    BY <2>1, TypeStep DEF LengthInv
<1>2. ASSUME pc' = "idle" PROVE LengthInv'
  BY <1>1, <1>2 DEF LengthInv, GrowsWell, StoresWell, NewIsIdle
<1>3. ASSUME UNCHANGED ring PROVE length' = length /\ m_size' = m_size
                                  /\ m_head' = m_head /\ m_full' = m_full
  BY <1>3 DEF ring, length
<1>4. ASSUME NEW n \in InitSizes, Construct(n) PROVE LengthInv'
  <2>1. pc = "new" /\ pc' = "grow" /\ UNCHANGED <<ring, src>> /\ src = <<>>
    BY <1>4 DEF Construct, StartGrow, LengthInv, NewIsIdle
  <2>2. m_size = 0 /\ m_head = 0 /\ m_tail = 0 /\ m_full = FALSE
    BY <1>1, <2>1 DEF TypeInv, TypeOK, Phase, Indices
  <2>3. length' = 0 /\ m_head' = 0 /\ Len(src') = 0
    BY <2>1, <2>2, EmptySeq DEF ring, length, LengthOf
  <2>4. newsize' \in Nat
    BY <1>1 DEF TypeInv, TypeOK
  <2>5. QED
    BY <1>1, <2>1, <2>3, <2>4 DEF LengthInv, GrowsWell, StoresWell, NewIsIdle
<1>5. ASSUME GrowStep PROVE LengthInv'
  <2>1. pc' = pc /\ src' = src /\ newsize' = newsize /\ UNCHANGED ring
    BY <1>5 DEF GrowStep
  <2>2. QED
    BY <1>1, <1>3, <2>1 DEF LengthInv, GrowsWell, StoresWell, NewIsIdle
<1>6. ASSUME FinishGrow PROVE LengthInv'
  <2>1. CASE src = <<>>
    BY <1>2, <1>6, <2>1 DEF FinishGrow
  <2>2. CASE src # <<>>
    <3>1. pc = "grow" /\ pc' = "store" /\ src' = src
      BY <1>6, <2>2 DEF FinishGrow
    <3>2. length' = length /\ m_size' = tmp /\ tmp >= newsize
      BY <1>6, GrowLength
    <3>3. newsize >= length + Len(src)
      BY <3>1 DEF LengthInv, GrowsWell
    <3>4. tmp \in Nat /\ newsize \in Nat /\ length \in Nat /\ Len(src) \in Nat
      BY <1>1, LengthType, LenProperties DEF TypeInv, TypeOK
    <3>5. Len(src') <= m_size' - length'
      BY <3>1, <3>2, <3>3, <3>4
    <3>6. QED
      BY <1>1, <2>2, <3>1, <3>5 DEF LengthInv, GrowsWell, StoresWell, NewIsIdle
  <2>3. QED
    BY <2>1, <2>2
<1>7. ASSUME NEW s \in Sources, AppendFits(s) PROVE LengthInv'
  <2>1. /\ pc' = "store" /\ src' = s /\ UNCHANGED ring /\ s # <<>>
        /\ m_size - length >= Len(s)
    BY <1>7, BufferAssumption DEF AppendFits, get_free_size
  <2>2. m_size \in Nat /\ length \in Nat /\ Len(s) \in Nat
    <3>1. s \in Seq(Bytes) /\ TypeOK
      BY <1>1, BufferAssumption DEF TypeInv
    <3>2. m_size \in Nat /\ length \in Nat
      BY <3>1, LengthType DEF TypeOK
    <3>3. QED
      BY <3>1, <3>2, LenProperties
  <2>3. Len(src') <= m_size' - length'
    BY <1>3, <2>1, <2>2
  <2>4. QED
    BY <1>1, <2>1, <2>3 DEF LengthInv, GrowsWell, StoresWell, NewIsIdle
<1>8. ASSUME NEW s \in Sources, m_head = 0 \/ m_full, AppendGrows(s)
      PROVE  LengthInv'
  <2>1. /\ pc' = "grow" /\ src' = s /\ UNCHANGED ring
        /\ newsize' = length + Len(s)
    BY <1>8 DEF AppendGrows, StartGrow
  <2>2. length \in Nat /\ Len(s) \in Nat
    BY <1>1, LengthType, BufferAssumption DEF TypeInv
  <2>3. QED
    BY <1>1, <1>3, <1>8, <2>1, <2>2 DEF LengthInv, GrowsWell, StoresWell, NewIsIdle
<1>9. ASSUME pc = "idle", UNCHANGED call PROVE LengthInv'
  BY <1>2, <1>9 DEF call
<1>10. ASSUME UNCHANGED vars PROVE LengthInv'
  <2>1. UNCHANGED <<ring, pc, src, newsize>>
    BY <1>10 DEF vars, call
  <2>2. QED
    BY <1>1, <1>3, <2>1 DEF LengthInv, GrowsWell, StoresWell, NewIsIdle
<1>11. ASSUME \/ \E s \in Texts : ConstructText(s)
              \/ GrowRefused \/ Store
       PROVE  LengthInv'
  BY <1>2, <1>11 DEF ConstructText, GrowRefused, Store
<1>12. ASSUME \/ \E s \in Sources : AppendRefused(s)
              \/ \E n \in Counts : write_to(n) \/ peek(n) \/ skip(n)
              \/ clear \/ retrieve_all_as_string
       PROVE  LengthInv'
  BY <1>9, <1>12
  DEF AppendRefused, write_to, peek, skip, clear, retrieve_all_as_string
<1>13. QED
  BY <1>4, <1>5, <1>6, <1>7, <1>8, <1>10, <1>11, <1>12
  DEF OrderlyNext, AllButGrowth

\* What a call does to length(), as LengthsAddUp asks it.
LengthsStep ==
  /\ \A s \in Texts : ConstructText(s) => length' = IF Len(s) = 1 THEN 0 ELSE Len(s)
  /\ Store => length' = length + Len(src)
  /\ FinishGrow \/ GrowStep => length' = length
  /\ \A n \in Counts : write_to(n) => length' = length - Len(out'.bytes)
  /\ \A n \in Counts : skip(n) => length' \in {length, length - n}

\* Each call does it.
LEMMA LengthsOfSteps == ASSUME LengthInv PROVE LengthsStep
<1>t. TypeInv /\ TypeOK /\ length \in Nat /\ length <= m_size /\ m_size \in Nat
  BY LengthType DEF LengthInv, TypeInv, TypeOK
<1>1. ASSUME NEW s \in Texts, ConstructText(s)
      PROVE  length' = IF Len(s) = 1 THEN 0 ELSE Len(s)
  BY <1>t, <1>1, TextLength
<1>2. ASSUME Store PROVE length' = length + Len(src)
  BY <1>2, StoreLength
<1>3. ASSUME FinishGrow \/ GrowStep PROVE length' = length
  <2>1. CASE FinishGrow
    BY <2>1, GrowLength
  <2>2. CASE GrowStep
    BY <2>2 DEF GrowStep, ring, length
  <2>3. QED
    BY <1>3, <2>1, <2>2
<1>4. ASSUME NEW n \in Counts, write_to(n) PROVE length' = length - Len(out'.bytes)
  <2>1. CASE empty
    <3>1. UNCHANGED ring /\ out'.bytes = <<>>
      BY <1>4, <2>1 DEF write_to, Queue!Report
    <3>2. length' = length /\ Len(out'.bytes) = 0
      BY <3>1, EmptySeq DEF ring, length
    <3>3. QED
      BY <1>t, <3>2
  <2>2. CASE ~empty
    <3> DEFINE k == AtMostLength(n)
    <3>1. length > 0
      BY <1>t, <2>2 DEF empty, length, LengthOf, TypeOK, Indices
    <3>2. k \in 1..length /\ k \in Nat
      BY <1>t, <3>1, BufferAssumption DEF AtMostLength
    <3>3. out'.bytes = Unread(k) /\ Consume(k)
      BY <1>4, <2>2 DEF write_to, Queue!Report
    <3> HIDE DEF k
    <3>4. Len(out'.bytes) = k
      BY <1>t, <3>2, <3>3, UnreadType
    <3>5. length' = length - k
      BY <1>t, <3>2, <3>3, ConsumeLength
    <3>6. QED
      BY <3>4, <3>5
  <2>3. QED
    BY <2>1, <2>2
<1>5. ASSUME NEW n \in Counts, skip(n) PROVE length' \in {length, length - n}
  <2>1. CASE length < n
    BY <1>5, <2>1 DEF skip, ring, length
  <2>2. CASE ~(length < n)
    <3>1. n \in 1..length
      BY <1>t, <2>2, BufferAssumption
    <3>2. QED
      BY <1>t, <1>5, <2>2, <3>1, ConsumeLength DEF skip
  <2>3. QED
    BY <2>1, <2>2
<1>6. QED
  BY <1>1, <1>2, <1>3, <1>4, <1>5 DEF LengthsStep

\* In a buffer that grows only where realloc is right, every call changes
\* length() by exactly what it stored or handed over.
THEOREM LengthsAreExact == OrderlySpec => LengthsAddUp
<1>1. Init => LengthInv
  <2>1. ASSUME Init PROVE LengthInv
    <3>1. TypeInv /\ pc = "new" /\ src = <<>>
      BY <2>1, InitTyped DEF Init
    <3>2. QED
      BY <3>1 DEF LengthInv, GrowsWell, StoresWell, NewIsIdle
  <2>2. QED
    BY <2>1
<1>2. LengthInv /\ [OrderlyNext]_vars => LengthInv'
  BY LengthStep
<1>3. LengthInv /\ [OrderlyNext]_vars => [LengthsStep]_vars
  BY LengthsOfSteps
<1>4. OrderlySpec => [][LengthsStep]_vars
  BY <1>1, <1>2, <1>3, PTL DEF OrderlySpec
<1>5. QED
  BY <1>4 DEF LengthsAddUp, LengthsStep
-----------------------------------------------------------------------------
(***************************************************************************)
(* A buffer built by size, and grown only while realloc is right, is a     *)
(* queue of bytes: OrderlySpec implements ByteQueue for any sizes, bytes   *)
(* and arguments.                                                          *)
(***************************************************************************)

(***************************************************************************)
(* Positions, as plain arithmetic, with the letters of LengthAfterStore.   *)
(***************************************************************************)
\* Storing n bytes at the tail touches no unread cell.
LEMMA StoreMissesUnread ==
  ASSUME NEW S \in Nat, S > 0, NEW h \in 0..(S - 1), NEW L \in 0..S,
         NEW n \in Nat, n > 0, L + n <= S, NEW i \in 1..L,
         NEW t, t = Wrap(h + L, S), NEW c, c = Wrap(h + i - 1, S)
  PROVE  /\ c \in 0..(S - 1)
         /\ ~(t <= c /\ c < t + n)
         /\ ~(h <= t /\ c < n - (S - t))
  BY DEF Wrap

-----------------------------------------------------------------------------
(***************************************************************************)
(* The inductive invariant: the storage is complete, and what a call under *)
(* way will need is already true.                                          *)
(***************************************************************************)
\* While a call is under way it has handed nothing over.
CallsWell ==
  /\ pc = "new" => src = <<>>
  /\ src # <<>> => pc = "idle" \/ src \in Sources
  /\ pc # "idle" => out = Queue!Silent

RingInv ==
  /\ TypeInv
  /\ m_data \in [0..(m_size - 1) -> Cell]
  /\ GrowsWell
  /\ StoresWell
  /\ CallsWell

\* Reading no cells reads nothing.
LEMMA NoCells ==
  ASSUME NEW data, NEW from
  PROVE  Cells(data, from, 0) = <<>>
  BY DEF Cells

\* Members and length() in plain terms.
LEMMA RingFacts ==
  ASSUME RingInv, m_size > 0
  PROVE  /\ m_size \in Nat
         /\ m_head \in 0..(m_size - 1) /\ m_tail \in 0..(m_size - 1)
         /\ m_full \in BOOLEAN /\ (m_full => m_head = m_tail)
         /\ length \in 0..m_size
         /\ m_tail = Wrap(m_head + length, m_size)
         /\ m_head < m_tail => length = m_tail - m_head
  BY PositionFacts DEF RingInv, TypeInv

\* The first n unread bytes, cell by cell.
LEMMA UnreadCells ==
  ASSUME RingInv, m_size > 0, NEW n \in 0..length
  PROVE  /\ Unread(n) \in Seq(Cell)
         /\ Len(Unread(n)) = n
         /\ \A i \in 1..n : Unread(n)[i] = m_data[Wrap(m_head + i - 1, m_size)]
<1>1. m_data \in [0..(m_size - 1) -> Cell]
  BY DEF RingInv
<1>2. /\ n \in Nat /\ n <= m_size /\ (m_head < m_tail => n <= m_tail - m_head)
      /\ m_size \in Nat
      /\ m_head \in 0..(m_size - 1) /\ m_tail \in 0..(m_size - 1)
  BY RingFacts
<1>3. /\ UnreadOf(m_data, m_head, m_tail, m_size, n) \in Seq(Cell)
      /\ Len(UnreadOf(m_data, m_head, m_tail, m_size, n)) = n
      /\ \A i \in 1..n : UnreadOf(m_data, m_head, m_tail, m_size, n)[i]
                           = m_data[Wrap(m_head + i - 1, m_size)]
  BY <1>1, <1>2, UnreadFacts
<1>4. QED
  BY <1>3 DEF Unread

\* A buffer without storage holds nothing.
LEMMA NoStorage ==
  ASSUME RingInv, m_size = 0
  PROVE  length = 0 /\ contents = <<>>
<1>1. m_head = 0 /\ m_tail = 0 /\ m_full = FALSE
  BY DEF RingInv, TypeInv, TypeOK, Indices
<1>2. length = 0
  BY <1>1 DEF length, LengthOf
<1>3. contents = Cells(m_data, 0, 0)
  BY <1>1, <1>2 DEF contents, Unread, UnreadOf
<1>4. QED
  BY <1>2, <1>3, NoCells

\* The abstract queue is a sequence of length() bytes.
LEMMA ContentsFacts ==
  ASSUME RingInv
  PROVE  /\ contents \in Seq(Cell) /\ Len(contents) = length
         /\ length \in Nat /\ length <= m_size
<1>1. length \in Nat /\ length <= m_size
  BY LengthType DEF RingInv, TypeInv
<1>2. CASE m_size = 0
  <2>1. contents = <<>> /\ length = 0
    BY <1>2, NoStorage
  <2>2. QED
    BY <1>1, <2>1
<1>3. CASE m_size # 0
  <2>1. m_size > 0 /\ length \in 0..length
    BY <1>1, <1>3 DEF RingInv, TypeInv, TypeOK
  <2>2. QED
    BY <1>1, <2>1, UnreadCells DEF contents
<1>4. QED
  BY <1>2, <1>3

\* Handing over n bytes hands over the front of the queue.
LEMMA UnreadIsFront ==
  ASSUME RingInv, m_size > 0, NEW n \in 0..length
  PROVE  Unread(n) = SubSeq(contents, 1, n)
<1> DEFINE q == contents
           u == Unread(n)
           f == SubSeq(q, 1, n)
<1>1. /\ u \in Seq(Cell) /\ Len(u) = n
      /\ \A i \in 1..n : u[i] = m_data[Wrap(m_head + i - 1, m_size)]
  BY UnreadCells
<1>2. length \in 0..length /\ length \in Nat
  BY ContentsFacts
<1>3. /\ q \in Seq(Cell) /\ Len(q) = length
      /\ \A i \in 1..length : q[i] = m_data[Wrap(m_head + i - 1, m_size)]
  BY <1>2, UnreadCells DEF contents
<1> HIDE DEF q, u
<1>4. n \in Int /\ 1 \in Int /\ n \in 0..length
  BY <1>2
<1>5. \A i \in 1..n : q[i] \in Cell
  BY <1>2, <1>3, <1>4
<1>6. /\ f \in Seq(Cell) /\ Len(f) = n /\ \A i \in 1..n : f[i] = q[i]
  <2>1. /\ f \in Seq(Cell) /\ Len(f) = (IF 1 <= n THEN n - 1 + 1 ELSE 0)
        /\ \A i \in 1..(n - 1 + 1) : f[i] = q[1 + i - 1]
    BY <1>4, <1>5, SubSeqProperties
  <2>2. QED
    BY <2>1, <1>4
<1> HIDE DEF f
<1>7. \A i \in 1..n : u[i] = f[i]
  BY <1>1, <1>2, <1>3, <1>4, <1>6
<1>8. u = f
  BY <1>1, <1>6, <1>7, SeqEqual
<1>9. QED
  BY <1>8 DEF q, u, f
-----------------------------------------------------------------------------
(***************************************************************************)
(* What the steps do to the queue.                                         *)
(***************************************************************************)
\* Moving the head past n bytes takes them off the front.
LEMMA ConsumeIsDrop ==
  ASSUME RingInv, NEW n \in 1..length, Consume(n)
  PROVE  /\ contents' = SubSeq(contents, n + 1, Len(contents))
         /\ m_data' \in [0..(m_size' - 1) -> Cell]
<1> DEFINE q == contents
           r == contents'
           f == SubSeq(q, n + 1, Len(q))
           L == length
<1>0. m_size > 0 /\ m_size \in Nat /\ L \in Nat /\ L <= m_size
  <2>1. m_size \in Nat
    BY DEF RingInv, TypeInv, TypeOK
  <2>2. QED
    BY <2>1, ContentsFacts
<1>1. /\ m_head \in 0..(m_size - 1) /\ m_tail \in 0..(m_size - 1)
      /\ m_tail = Wrap(m_head + L, m_size)
      /\ m_data \in [0..(m_size - 1) -> Cell]
  BY <1>0, RingFacts DEF RingInv
<1>2. /\ q \in Seq(Cell) /\ Len(q) = L
      /\ \A i \in 1..L : q[i] = m_data[Wrap(m_head + i - 1, m_size)]
  <2>1. L \in 0..L
    BY <1>0
  <2>2. QED
    BY <1>0, <2>1, UnreadCells DEF contents
<1>3. /\ m_head' = Wrap(m_head + n, m_size) /\ m_full' = FALSE
      /\ m_data' = m_data /\ m_size' = m_size /\ m_tail' = m_tail
  <2>1. m_head + n \in Nat /\ m_head + n < 2 * m_size
    BY <1>0, <1>1
  <2>2. (m_head + n) % m_size = Wrap(m_head + n, m_size)
    BY <1>0, <2>1, ModOnce
  <2>3. QED
    BY <2>2 DEF Consume
<1>4. m_head' \in 0..(m_size - 1)
  BY <1>0, <1>1, <1>3 DEF Wrap
<1>5. length' = L - n
  <2>1. length' = LengthOf(m_head', m_tail, m_size, FALSE)
    BY <1>3 DEF length
  <2>2. L \in 0..m_size /\ n \in 1..L
    BY <1>0
  <2> HIDE DEF L
  <2>3. LengthOf(Wrap(m_head + n, m_size), Wrap(m_head + L, m_size), m_size, FALSE) = L - n
    BY <1>0, <1>1, <2>2, LengthAfterConsume
  <2>4. QED
    BY <2>1, <2>3, <1>1, <1>3
<1>6. /\ r \in Seq(Cell) /\ Len(r) = L - n
      /\ \A i \in 1..(L - n) : r[i] = m_data[Wrap(m_head' + i - 1, m_size)]
  <2>1. r = UnreadOf(m_data, m_head', m_tail, m_size, L - n)
    BY <1>3, <1>5 DEF contents, Unread
  <2>2. L - n = LengthOf(m_head', m_tail, m_size, FALSE)
    BY <1>3, <1>5 DEF length
  <2> HIDE DEF r, L
  <2> DEFINE h == m_head'
             k == L - n
  <2>3. h \in 0..(m_size - 1)
    BY <1>4
  <2> HIDE DEF h, k
  <2>4. /\ UnreadOf(m_data, h, m_tail, m_size, k) \in Seq(Cell)
        /\ Len(UnreadOf(m_data, h, m_tail, m_size, k)) = k
        /\ \A i \in 1..k : UnreadOf(m_data, h, m_tail, m_size, k)[i]
                             = m_data[Wrap(h + i - 1, m_size)]
    <3>1. k = LengthOf(h, m_tail, m_size, FALSE)
      BY <2>2 DEF h, k
    <3>2. k \in Nat /\ k <= m_size /\ (h < m_tail => k <= m_tail - h)
      BY <3>1, <2>3, <1>0, <1>1 DEF LengthOf
    <3>3. QED
      BY <3>2, <2>3, <1>0, <1>1, UnreadFacts, ZenonT(40)
  <2>5. QED
    BY <2>1, <2>4 DEF h, k
<1> HIDE DEF q, r, L
<1>7. n \in 1..L
  BY DEF L
<1>8. /\ f \in Seq(Cell) /\ Len(f) = L - n
      /\ \A i \in 1..(L - n) : f[i] = q[n + i]
  <2>1. \A i \in (n + 1)..L : q[i] \in Cell
    BY <1>0, <1>2, <1>7
  <2>2. n + 1 \in Int /\ L \in Int
    BY <1>0, <1>7
  <2>3. /\ f \in Seq(Cell)
        /\ Len(f) = (IF n + 1 <= L THEN L - (n + 1) + 1 ELSE 0)
        /\ \A i \in 1..(L - (n + 1) + 1) : f[i] = q[(n + 1) + i - 1]
    BY <1>2, <2>1, <2>2, SubSeqProperties
  <2>4. QED
    BY <2>3, <1>0, <1>7
<1> HIDE DEF f
<1>9. ASSUME NEW i \in 1..(L - n) PROVE r[i] = f[i]
  <2>1. Wrap(m_head' + i - 1, m_size) = Wrap(m_head + (n + i) - 1, m_size)
    BY <1>0, <1>1, <1>3, <1>7 DEF Wrap
  <2>2. n + i \in 1..L
    BY <1>0, <1>7
  <2>3. QED
    BY <2>1, <2>2, <1>2, <1>6, <1>8
<1>10. r = f
  BY <1>6, <1>8, <1>9, SeqEqual
<1>11. QED
  BY <1>1, <1>3, <1>10 DEF q, r, f

\* append's copy puts its bytes behind the unread ones.
LEMMA StoreIsPut ==
  ASSUME RingInv, Store
  PROVE  /\ contents' = contents \o src
         /\ m_data' \in [0..(m_size' - 1) -> Cell]
<1> DEFINE S == m_size
           h == m_head
           t == m_tail
           L == length
           n == Len(src)
           q == contents
           r == contents'
           d == m_data'
           u == m_tail'
           full == m_full'
<1>1. pc = "store" /\ src # <<>> /\ n <= S - L /\ S \in Nat /\ S > 0
  BY DEF RingInv, TypeInv, TypeOK, Phase, StoresWell, Store
<1>2. /\ src \in Seq(Bytes) /\ n \in Nat /\ n > 0
      /\ \A j \in 1..n : src[j] \in Cell
  <2>1. src \in Seq(Bytes)
    BY DEF RingInv, TypeInv, TypeOK
  <2>2. n \in Nat /\ n > 0
    BY <1>1, <2>1, EmptySeq
  <2>3. QED
    BY <2>1, <2>2 DEF Cell
<1>3. /\ h \in 0..(S - 1) /\ t \in 0..(S - 1) /\ L \in 0..S
      /\ t = Wrap(h + L, S) /\ L + n <= S
      /\ m_data \in [0..(S - 1) -> Cell]
  BY <1>1, <1>2, RingFacts DEF RingInv
<1>4. /\ q \in Seq(Cell) /\ Len(q) = L
      /\ \A i \in 1..L : q[i] = m_data[Wrap(h + i - 1, S)]
  <2>1. L \in 0..L
    BY <1>3
  <2>2. QED
    BY <1>1, <2>1, UnreadCells DEF contents
<1>5. /\ d = [c \in 0..(S - 1) |->
                IF t <= c /\ c < t + n THEN src[c - t + 1]
                ELSE IF h <= t /\ c < n - (S - t) THEN src[(S - t) + c + 1]
                ELSE m_data[c]]
      /\ u = Wrap(t + n, S) /\ full = (h = u) /\ m_head' = h /\ m_size' = S
  <2>1. DOMAIN m_data = 0..(S - 1)
    BY <1>3
  <2>2. t + n \in Nat /\ t + n < 2 * S
    BY <1>1, <1>2, <1>3
  <2>3. (t + n) % S = Wrap(t + n, S)
    BY <1>1, <2>2, ModOnce
  <2>4. QED
    BY <2>1, <2>3 DEF Store, Filled
<1>6. u \in 0..(S - 1) /\ full \in BOOLEAN /\ (full <=> h = u)
  <2>1. u \in 0..(S - 1)
    BY <1>1, <1>2, <1>3, <1>5 DEF Wrap
  <2>2. full \in BOOLEAN /\ (full <=> h = u)
    BY <1>5, Zenon
  <2>3. QED
    BY <2>1, <2>2
<1>7. length' = LengthOf(h, u, S, full) /\ r = UnreadOf(d, h, u, S, length')
  BY <1>5 DEF length, contents, Unread
<1> HIDE DEF S, h, t, L, n, q, r, d, u, full
<1>8. LengthOf(h, u, S, full) = L + n
  BY <1>1, <1>2, <1>3, <1>5, <1>6, LengthAfterStore, ZenonT(40)
<1>9. \A i \in 1..L : d[Wrap(h + i - 1, S)] = m_data[Wrap(h + i - 1, S)]
  <2> SUFFICES ASSUME NEW i \in 1..L
               PROVE  d[Wrap(h + i - 1, S)] = m_data[Wrap(h + i - 1, S)]
    OBVIOUS
  <2> DEFINE c == Wrap(h + i - 1, S)
  <2>1. /\ c \in 0..(S - 1)
        /\ ~(t <= c /\ c < t + n)
        /\ ~(h <= t /\ c < n - (S - t))
    BY <1>1, <1>2, <1>3, StoreMissesUnread
  <2> HIDE DEF c
  <2>2. d[c] = m_data[c]
    BY <1>5, <2>1
  <2>3. QED
    BY <2>2 DEF c
\* The j-th byte lands behind the L unread ones and j - 1 others, by the
\* first piece of the copy or by the second.
<1>10. \A j \in 1..n : d[Wrap(h + (L + j) - 1, S)] = src[j]
  <2> SUFFICES ASSUME NEW j \in 1..n
               PROVE  d[Wrap(h + (L + j) - 1, S)] = src[j]
    OBVIOUS
  <2> DEFINE c == Wrap(h + (L + j) - 1, S)
  <2>1. /\ c \in 0..(S - 1)
        /\ \/ t <= c /\ c < t + n /\ c - t + 1 = j
           \/ /\ ~(t <= c /\ c < t + n)
              /\ h <= t /\ c < n - (S - t) /\ (S - t) + c + 1 = j
    <3>1. c = Wrap(h + (L + j) - 1, S)
      OBVIOUS
    <3> HIDE DEF c
    <3>2. QED
      BY <3>1, <1>1, <1>2, <1>3 DEF Wrap
  <2> HIDE DEF c
  <2>2. d[c] = src[j]
    BY <1>5, <2>1
  <2>3. QED
    BY <2>2 DEF c
<1>11. d \in [0..(S - 1) -> Cell]
  <2>1. t \in Nat /\ t < S /\ S \in Nat /\ n \in Nat
    BY <1>1, <1>2, <1>3
  <2>2. \A c \in 0..(S - 1) :
           /\ t <= c /\ c < t + n => c - t + 1 \in 1..n
           /\ c < n - (S - t) => (S - t) + c + 1 \in 1..n
    <3> HIDE DEF S, t, n
    <3>1. QED
      BY <2>1
  <2>3. \A c \in 0..(S - 1) : m_data[c] \in Cell
    BY <1>1, <1>2, <1>3
  <2>4. QED
    BY <1>2, <1>5, <2>2, <2>3, SMTT(40)
<1>12. /\ r \in Seq(Cell) /\ Len(r) = L + n
       /\ \A i \in 1..(L + n) : r[i] = d[Wrap(h + i - 1, S)]
  <2> DEFINE k == L + n
  <2>1. /\ k \in Nat /\ k <= S /\ (h < u => k <= u - h)
    BY <1>1, <1>2, <1>3, <1>6, <1>8 DEF LengthOf
  <2> HIDE DEF k
  <2>2. /\ UnreadOf(d, h, u, S, k) \in Seq(Cell) /\ Len(UnreadOf(d, h, u, S, k)) = k
        /\ \A i \in 1..k : UnreadOf(d, h, u, S, k)[i] = d[Wrap(h + i - 1, S)]
    BY <2>1, <1>1, <1>3, <1>6, <1>11, UnreadFacts, ZenonT(40)
  <2>3. QED
    BY <2>2, <1>7, <1>8 DEF k
<1>13. /\ q \o src \in Seq(Cell) /\ Len(q \o src) = L + n
       /\ \A i \in 1..(L + n) : (q \o src)[i] = IF i <= L THEN q[i] ELSE src[i - L]
  <2>1. src \in Seq(Cell)
    BY <1>2, SeqMonotonic DEF Cell
  <2>2. QED
    BY <1>4, <2>1, ConcatProperties DEF n
<1> DEFINE p == q \o src
<1> HIDE DEF p
<1>14. ASSUME NEW i \in 1..(L + n) PROVE r[i] = p[i]
  <2>1. CASE i <= L
    <3>1. i \in 1..L
      BY <2>1, <1>2, <1>3
    <3>2. QED
      BY <2>1, <3>1, <1>4, <1>9, <1>12, <1>13 DEF p
  <2>2. CASE ~(i <= L)
    <3>1. i - L \in 1..n /\ i = L + (i - L)
      BY <2>2, <1>2, <1>3
    <3>2. d[Wrap(h + i - 1, S)] = src[i - L]
      BY <3>1, <1>10
    <3>3. QED
      BY <2>2, <3>2, <1>12, <1>13 DEF p
  <2>3. QED
    BY <2>1, <2>2
<1>15. r = p
  BY <1>12, <1>13, <1>14, SeqEqual DEF p
<1>16. QED
  BY <1>5, <1>11, <1>15 DEF p, q, r, d, S

\* realloc keeps the queue when the unread bytes start at cell 0 or fill the
\* storage: then length() is right although m_head has already moved.
LEMMA GrowKeeps ==
  ASSUME RingInv, FinishGrow
  PROVE  /\ contents' = contents /\ length' = length
         /\ m_data' \in [0..(m_size' - 1) -> Cell]
         /\ m_size' = tmp /\ m_size' >= newsize
<1> DEFINE S == m_size
           h == m_head
           t == m_tail
           N == tmp
           L == length
           q == contents
           r == contents'
           d == m_data'
           moved == IF h < t
                    THEN Cells(m_data, h, t - h)
                    ELSE Cells(m_data, h, S - h) \o Cells(m_data, 0, t)
           tail == LengthOf(0, t, S, m_full)
<1>1. /\ pc = "grow" /\ (h = 0 \/ m_full) /\ N \in Nat /\ newsize \in Nat /\ N >= newsize
      /\ newsize > S /\ S \in Nat
  BY DEF RingInv, TypeInv, TypeOK, Phase, GrowsWell, FinishGrow
<1>2. /\ d = [c \in 0..(N - 1) |-> IF c < Len(moved) THEN moved[c + 1] ELSE Junk]
      /\ m_size' = N /\ m_head' = 0 /\ m_tail' = tail /\ m_full' = (tail = N)
  BY DEF FinishGrow, realloc
<1>3. /\ S = 0 => h = 0 /\ t = 0 /\ m_full = FALSE
      /\ S # 0 => h \in 0..(S - 1) /\ t \in 0..(S - 1)
      /\ h \in Nat /\ t \in Nat /\ S - h \in Nat
      /\ m_full \in BOOLEAN /\ (m_full => h = t)
      /\ m_data \in [0..(S - 1) -> Cell]
  BY DEF RingInv, TypeInv, TypeOK, Indices
<1>4. /\ q \in Seq(Cell) /\ Len(q) = L /\ L \in Nat /\ L <= S
  BY ContentsFacts
<1>5. tail = L
  BY <1>1, <1>3 DEF length, LengthOf
<1>6. moved \in Seq(Cell)
  <2>1. ASSUME NEW from \in Nat, NEW m \in Nat
        PROVE  Cells(m_data, from, m) \in Seq(Cell)
    BY <1>1, <1>3, CellsType
  <2>2. CASE h < t
    <3>1. t - h \in Nat
      BY <2>2, <1>3
    <3>2. QED
      BY <2>1, <2>2, <3>1, <1>3
  <2>3. CASE ~(h < t)
    <3> DEFINE a == Cells(m_data, h, S - h)
               b == Cells(m_data, 0, t)
    <3>1. a \in Seq(Cell) /\ b \in Seq(Cell)
      BY <2>1, <1>3
    <3>2. moved = a \o b
      BY <2>3
    <3> HIDE DEF a, b, moved
    <3>3. QED
      BY <3>1, <3>2, ConcatProperties
  <2>4. QED
    BY <2>2, <2>3
<1>7. L # 0 => q = moved
  <2> SUFFICES ASSUME L # 0 PROVE q = moved
    OBVIOUS
  <2>1. CASE h < t
    <3>1. L = t - h
      BY <2>1, <1>3 DEF length, LengthOf
    <3>2. q = Cells(m_data, h, L)
      BY <2>1 DEF contents, Unread, UnreadOf
    <3>3. QED
      BY <2>1, <3>1, <3>2
  <2>2. CASE ~(h < t)
    <3>1. m_full /\ h = t /\ L = S
      BY <2>2, <1>1, <1>3 DEF length, LengthOf
    <3> DEFINE a == Cells(m_data, h, S - h)
    <3>2. moved = a \o Cells(m_data, 0, h)
      BY <2>2, <3>1
    <3>3. CASE h = 0
      <4>1. q = Cells(m_data, 0, S) /\ a = Cells(m_data, 0, S)
        BY <3>1, <3>3, <1>1 DEF contents, Unread, UnreadOf
      <4>2. moved = a \o <<>>
        BY <3>2, <3>3, NoCells
      <4>3. a \in Seq(Cell)
        BY <4>1, <1>4
      <4> HIDE DEF a
      <4>4. a \o <<>> = a
        BY <4>3, ConcatEmptySeq
      <4>5. QED
        BY <4>1, <4>2, <4>4
    <3>4. CASE h # 0
      <4>1. ~(S <= S - h) /\ S - (S - h) = h
        BY <3>4, <1>1, <1>3
      <4>2. q = a \o Cells(m_data, 0, S - (S - h))
        BY <2>2, <3>1, <4>1 DEF contents, Unread, UnreadOf
      <4>3. QED
        BY <3>2, <4>1, <4>2
    <3>5. QED
      BY <3>3, <3>4
  <2>3. QED
    BY <2>1, <2>2
<1>8. m_full' = FALSE
  <2>1. tail # N
    BY <1>1, <1>4, <1>5
  <2>2. QED
    BY <1>2, <2>1, Zenon
<1>9. length' = L /\ r = UnreadOf(d, 0, L, N, L)
  <2>1. length' = LengthOf(0, L, N, FALSE)
    BY <1>2, <1>5, <1>8 DEF length
  <2> HIDE DEF L
  <2>2. LengthOf(0, L, N, FALSE) = L
    BY <1>4 DEF LengthOf
  <2>3. r = UnreadOf(d, 0, L, N, length')
    BY <1>2, <1>5 DEF contents, Unread
  <2>4. QED
    BY <2>1, <2>2, <2>3
<1> HIDE DEF S, h, t, N, L, q, r, d, moved, tail
<1>10. d \in [0..(N - 1) -> Cell]
  <2>1. \A c \in 0..(N - 1) : c < Len(moved) => moved[c + 1] \in Cell
    BY <1>6
  <2>2. Junk \in Cell
    BY DEF Cell
  <2>3. QED
    BY <1>2, <2>1, <2>2
<1>11. /\ r \in Seq(Cell) /\ Len(r) = L
       /\ \A i \in 1..L : r[i] = d[Wrap(0 + i - 1, N)]
  <2>1. /\ N > 0 /\ 0 \in 0..(N - 1) /\ L \in 0..(N - 1) /\ L <= N /\ (0 < L => L <= L - 0)
    BY <1>1, <1>4
  <2> DEFINE z == 0
  <2>2. /\ z \in 0..(N - 1) /\ (z < L => L <= L - z) /\ z = 0
        /\ N \in Nat /\ L \in Nat
    BY <2>1, <1>1, <1>4
  <2> HIDE DEF z
  <2>3. /\ UnreadOf(d, z, L, N, L) \in Seq(Cell) /\ Len(UnreadOf(d, z, L, N, L)) = L
        /\ \A i \in 1..L : UnreadOf(d, z, L, N, L)[i] = d[Wrap(z + i - 1, N)]
    BY <2>1, <2>2, <1>10, UnreadFacts
  <2>4. QED
    BY <2>2, <2>3, <1>9
<1>12. ASSUME NEW i \in 1..L PROVE r[i] = q[i]
  <2>1. q = moved /\ Len(moved) = L
    BY <1>4, <1>7
  <2>2. Wrap(0 + i - 1, N) = i - 1 /\ i - 1 \in 0..(N - 1) /\ i - 1 < Len(moved)
    BY <1>1, <1>4, <2>1 DEF Wrap
  <2>3. d[i - 1] = moved[(i - 1) + 1] /\ (i - 1) + 1 = i
    BY <1>2, <2>2
  <2>4. QED
    BY <1>11, <2>1, <2>2, <2>3
<1>13. r = q
  BY <1>4, <1>11, <1>12, SeqEqual
<1>14. QED
  BY <1>1, <1>2, <1>9, <1>10, <1>13 DEF S, N, L, q, r, d
-----------------------------------------------------------------------------
(***************************************************************************)
(* Every step keeps the invariant and is a step of the queue or none.      *)
(***************************************************************************)
QueueStep == Queue!QueueNext \/ UNCHANGED vars

\* A call goes on and the unread bytes are what they were.
LEMMA Goes ==
  ASSUME contents' = contents, out = Queue!Silent, out' = out
  PROVE  Queue!QueueNext
  BY DEF Queue!Begin, Queue!QueueNext

\* The ring is untouched, and so is the queue.
LEMMA SameRing ==
  ASSUME RingInv, UNCHANGED ring
  PROVE  /\ contents' = contents /\ length' = length
         /\ m_data' \in [0..(m_size' - 1) -> Cell]
         /\ UNCHANGED <<m_size, m_head, m_full>>
<1>1. UNCHANGED <<m_data, m_size, m_head, m_tail, m_full>>
  BY DEF ring
<1>2. QED
  BY <1>1 DEF RingInv, contents, Unread, length

\* After a call nothing more is asked.
LEMMA IdleWell ==
  ASSUME pc' = "idle"
  PROVE  GrowsWell' /\ StoresWell' /\ CallsWell'
  BY DEF GrowsWell, StoresWell, CallsWell

\* Growing changes nothing; it may end in a refusal.
LEMMA GrowSteps ==
  ASSUME RingInv, TypeInv', GrowStep \/ FinishGrow \/ GrowRefused
  PROVE  RingInv' /\ Queue!QueueNext
<1>1. CASE GrowStep
  <2>1. pc = "grow" /\ UNCHANGED <<ring, pc, src, newsize, out>>
    BY <1>1 DEF GrowStep
  <2>2. RingInv' /\ contents' = contents
    BY <2>1, SameRing DEF RingInv, GrowsWell, StoresWell, CallsWell
  <2>3. out = Queue!Silent
    BY <2>1 DEF RingInv, CallsWell
  <2>4. QED
    BY <2>1, <2>2, <2>3, Goes
<1>2. CASE FinishGrow
  <2>1. /\ contents' = contents /\ length' = length
        /\ m_data' \in [0..(m_size' - 1) -> Cell]
        /\ m_size' = tmp /\ m_size' >= newsize
    BY <1>2, GrowKeeps
  <2>2. /\ pc = "grow" /\ pc' = (IF src = <<>> THEN "idle" ELSE "store")
        /\ src' = src /\ out' = out
    BY <1>2 DEF FinishGrow
  <2>3. /\ newsize >= length + Len(src) /\ (src # <<>> => src \in Sources) /\ out = Queue!Silent
        /\ newsize \in Nat /\ tmp \in Nat /\ Len(src) \in Nat /\ length \in Nat
    <3>1. /\ newsize >= length + Len(src) /\ (src # <<>> => src \in Sources)
          /\ out = Queue!Silent
      BY <2>2 DEF RingInv, GrowsWell, CallsWell
    <3>2. newsize \in Nat /\ tmp \in Nat /\ Len(src) \in Nat
      BY DEF RingInv, TypeInv, TypeOK
    <3>3. length \in Nat
      BY ContentsFacts
    <3>4. QED
      BY <3>1, <3>2, <3>3
  <2>4. StoresWell'
    BY <2>1, <2>2, <2>3 DEF StoresWell
  <2>5. GrowsWell' /\ CallsWell'
    BY <2>2, <2>3 DEF GrowsWell, CallsWell
  <2>6. QED
    BY <2>1, <2>2, <2>3, <2>4, <2>5, Goes DEF RingInv
<1>3. CASE GrowRefused
  <2>1. /\ pc = "grow" /\ pc' = "idle" /\ UNCHANGED ring
        /\ out' = IF src = <<>> THEN out ELSE Queue!Report("refuse", Len(src), src)
    BY <1>3 DEF GrowRefused
  <2>2. RingInv' /\ contents' = contents
    BY <2>1, SameRing, IdleWell DEF RingInv
  <2>3. CASE src = <<>>
    <3>1. out = Queue!Silent /\ out' = out
      BY <2>1, <2>3 DEF RingInv, CallsWell
    <3>2. QED
      BY <2>2, <3>1, Goes
  <2>4. CASE src # <<>>
    <3>1. src \in Sources
      BY <2>1, <2>4 DEF RingInv, CallsWell
    <3>2. Queue!Refuse(src)
      BY <2>1, <2>2, <2>4 DEF Queue!Refuse
    <3>3. QED
      BY <2>2, <3>1, <3>2 DEF Queue!QueueNext
  <2>5. QED
    BY <2>3, <2>4
<1>4. QED
  BY <1>1, <1>2, <1>3

\* Constructing by size: the queue stays empty.
LEMMA ConstructSteps ==
  ASSUME RingInv, TypeInv', NEW n \in InitSizes, Construct(n)
  PROVE  RingInv' /\ Queue!QueueNext
<1>1. pc = "new" /\ pc' = "grow" /\ UNCHANGED <<ring, src, out>>
  BY DEF Construct, StartGrow
<1>2. m_size = 0 /\ src = <<>> /\ out = Queue!Silent
  BY <1>1 DEF RingInv, TypeInv, Phase, CallsWell
<1>3. m_head = 0 /\ length = 0
  BY <1>2, NoStorage DEF RingInv, TypeInv, TypeOK, Indices
<1>4. m_head' = 0 /\ length' = 0 /\ Len(src') = 0 /\ newsize' \in Nat
  BY <1>1, <1>2, <1>3, SameRing DEF TypeInv, TypeOK
<1>5. GrowsWell' /\ StoresWell' /\ CallsWell'
  BY <1>1, <1>2, <1>4 DEF GrowsWell, StoresWell, CallsWell
<1>6. QED
  BY <1>1, <1>2, <1>5, SameRing, Goes DEF RingInv

\* append: the queue keeps what it has, until the bytes are stored.
LEMMA AppendSteps ==
  ASSUME RingInv, TypeInv', NEW s \in Sources,
         \/ AppendFits(s)
         \/ (m_head = 0 \/ m_full) /\ AppendGrows(s)
         \/ AppendRefused(s)
  PROVE  RingInv' /\ Queue!QueueNext
<1>1. UNCHANGED ring
  BY DEF AppendFits, AppendGrows, AppendRefused
<1>2. ASSUME out' = Queue!Silent PROVE Queue!QueueNext
  BY <1>1, <1>2, SameRing DEF Queue!Begin, Queue!QueueNext
<1>3. /\ s \in Seq(Bytes) /\ Len(s) \in Nat /\ s # <<>>
      /\ length \in Nat /\ m_size \in Nat
  <2>1. s \in Seq(Bytes) /\ Len(s) \in Nat /\ s # <<>>
    BY BufferAssumption
  <2>2. length \in Nat
    BY ContentsFacts
  <2>3. m_size \in Nat
    BY DEF RingInv, TypeInv, TypeOK
  <2>4. QED
    BY <2>1, <2>2, <2>3
<1>4. /\ length' = length /\ UNCHANGED <<m_size, m_head, m_full>>
      /\ m_data' \in [0..(m_size' - 1) -> Cell]
  BY <1>1, SameRing
<1>5. CASE AppendFits(s)
  <2>1. pc' = "store" /\ src' = s /\ m_size - length >= Len(s) /\ out' = Queue!Silent
    BY <1>5 DEF AppendFits, get_free_size
  <2>2. GrowsWell' /\ StoresWell' /\ CallsWell'
    BY <2>1, <1>1, <1>3, <1>4 DEF GrowsWell, StoresWell, CallsWell
  <2>3. QED
    BY <2>1, <2>2, <1>2, <1>4 DEF RingInv
<1>6. CASE (m_head = 0 \/ m_full) /\ AppendGrows(s)
  <2>1. pc' = "grow" /\ src' = s /\ newsize' = length + Len(s) /\ (m_head = 0 \/ m_full)
        /\ out' = Queue!Silent
    BY <1>6 DEF AppendGrows, StartGrow
  <2>2. newsize' >= length' + Len(src') /\ (m_head' = 0 \/ m_full')
    BY <2>1, <1>3, <1>4
  <2>3. GrowsWell' /\ StoresWell' /\ CallsWell'
    BY <2>1, <2>2, <1>1, <1>3 DEF GrowsWell, StoresWell, CallsWell
  <2>4. QED
    BY <2>1, <2>3, <1>2, <1>4 DEF RingInv
<1>7. CASE AppendRefused(s)
  <2>1. pc' = "idle" /\ out' = Queue!Report("refuse", Len(s), s)
    BY <1>7 DEF AppendRefused, call
  <2>2. Queue!Refuse(s)
    BY <1>1, <2>1, SameRing DEF Queue!Refuse
  <2>3. QED
    BY <2>1, <2>2, <1>4, IdleWell DEF RingInv, Queue!QueueNext
<1>8. QED
  BY <1>5, <1>6, <1>7

\* The second half of append.
LEMMA StoreSteps ==
  ASSUME RingInv, TypeInv', Store
  PROVE  RingInv' /\ \E s \in Sources : Queue!Accept(s)
<1>1. pc = "store" /\ pc' = "idle" /\ out' = Queue!Report("append", Len(src), src)
  BY DEF Store
<1>2. src \in Sources
  BY <1>1 DEF RingInv, StoresWell, CallsWell
<1>3. contents' = contents \o src /\ m_data' \in [0..(m_size' - 1) -> Cell]
  BY StoreIsPut
<1>4. Queue!Accept(src)
  BY <1>1, <1>3 DEF Queue!Accept
<1>5. RingInv'
  BY <1>1, <1>3, IdleWell DEF RingInv
<1>6. QED
  BY <1>2, <1>4, <1>5

\* A buffer that is not empty has storage and bytes.
LEMMA NotEmpty ==
  ASSUME RingInv
  PROVE  /\ empty <=> length = 0
         /\ length > 0 => m_size > 0
<1>1. /\ m_size \in Nat /\ m_head \in Nat /\ m_tail \in Nat
      /\ m_full \in BOOLEAN /\ (m_full => m_head = m_tail /\ m_size > 0)
      /\ m_head <= m_size /\ m_tail <= m_size
      /\ (m_size > 0 => m_head < m_size)
  BY DEF RingInv, TypeInv, TypeOK, Indices
<1>2. empty <=> length = 0
  BY <1>1 DEF empty, length, LengthOf
<1>3. length > 0 => m_size > 0
  BY <1>1, ContentsFacts
<1>4. QED
  BY <1>2, <1>3

\* write_to, peek and skip take, look at and drop what is there.
LEMMA ReadSteps ==
  ASSUME RingInv, TypeInv', NEW n \in Counts, write_to(n) \/ peek(n) \/ skip(n)
  PROVE  RingInv' /\ Queue!QueueNext
<1> DEFINE k == AtMostLength(n)
           front == IF empty THEN <<>> ELSE Unread(k)
<1>1. /\ length \in Nat /\ n \in Nat /\ n > 0 /\ k \in 0..length
      /\ (length > 0 => k \in 1..length)
      /\ contents \in Seq(Cell) /\ Len(contents) = length
  <2>1. length \in Nat /\ contents \in Seq(Cell) /\ Len(contents) = length
    BY ContentsFacts
  <2>2. n \in Nat /\ n > 0
    BY BufferAssumption
  <2>3. QED
    BY <2>1, <2>2 DEF AtMostLength
<1>2. pc' = "idle"
  BY DEF write_to, peek, skip, call
<1>3. Queue!AtMost(n) = k
  BY <1>1 DEF Queue!AtMost, AtMostLength
<1> HIDE DEF k
<1>4. front = Queue!Front(k)
  <2>1. CASE empty
    <3>1. length = 0 /\ k = 0
      BY <2>1, <1>1, NotEmpty
    <3>2. SubSeq(contents, 1, 0) = <<>>
      BY <1>1
    <3>3. QED
      BY <2>1, <3>1, <3>2 DEF Queue!Front
  <2>2. CASE ~empty
    <3>1. length > 0 /\ m_size > 0 /\ k \in 1..length
      BY <2>2, <1>1, NotEmpty
    <3>2. Unread(k) = SubSeq(contents, 1, k)
      BY <3>1, <1>1, UnreadIsFront
    <3>3. front = Unread(k)
      BY <2>2
    <3>4. QED
      BY <3>2, <3>3 DEF Queue!Front
  <2>3. QED
    BY <2>1, <2>2
<1> HIDE DEF front
<1>5. ASSUME UNCHANGED ring PROVE RingInv' /\ contents' = contents
  BY <1>2, <1>5, SameRing, IdleWell DEF RingInv
<1>6. ASSUME NEW j \in 1..length, Consume(j)
      PROVE  RingInv' /\ contents' = Queue!WithoutFront(j)
  <2>1. /\ contents' = SubSeq(contents, j + 1, Len(contents))
        /\ m_data' \in [0..(m_size' - 1) -> Cell]
    BY <1>6, ConsumeIsDrop
  <2>2. QED
    BY <2>1, <1>2, IdleWell DEF RingInv, Queue!WithoutFront
<1>7. CASE write_to(n)
  <2>1. out' = Queue!Report("write_to", n, front)
    BY <1>7 DEF write_to, front, k
  <2>2. RingInv' /\ contents' = Queue!WithoutFront(k)
    <3>1. CASE empty
      <4>1. k = 0 /\ length = 0
        BY <3>1, <1>1, NotEmpty
      <4>2. contents = <<>> /\ SubSeq(<<>>, 0 + 1, Len(<<>>)) = <<>>
        BY <4>1, <1>1
      <4>3. contents' = contents /\ RingInv'
        BY <1>5, <1>7, <3>1 DEF write_to
      <4>4. QED
        BY <4>1, <4>2, <4>3 DEF Queue!WithoutFront
    <3>2. CASE ~empty
      <4>1. k \in 1..length
        BY <3>2, <1>1, NotEmpty
      <4>2. Consume(k)
        BY <1>7, <3>2 DEF write_to, k
      <4>3. QED
        BY <4>1, <4>2, <1>6
    <3>3. QED
      BY <3>1, <3>2
  <2>3. Queue!Take(n)
    BY <2>1, <2>2, <1>3, <1>4 DEF Queue!Take
  <2>4. QED
    BY <2>2, <2>3 DEF Queue!QueueNext
<1>8. CASE peek(n)
  <2>1. out' = Queue!Report("peek", n, front) /\ UNCHANGED ring
    BY <1>8 DEF peek, front, k
  <2>2. RingInv' /\ contents' = contents
    BY <1>5, <2>1
  <2>3. Queue!Look(n)
    BY <2>1, <2>2, <1>3, <1>4 DEF Queue!Look
  <2>4. QED
    BY <2>2, <2>3 DEF Queue!QueueNext
<1>9. CASE skip(n)
  <2>1. out' = Queue!Report("skip", n, <<>>)
    BY <1>9 DEF skip
  <2>2. /\ RingInv'
        /\ contents' = IF Len(contents) < n THEN contents ELSE Queue!WithoutFront(n)
    <3>1. CASE length < n
      BY <1>1, <1>5, <1>9, <3>1 DEF skip
    <3>2. CASE ~(length < n)
      <4>1. n \in 1..length /\ Consume(n)
        BY <1>1, <1>9, <3>2 DEF skip
      <4>2. QED
        BY <1>1, <1>6, <3>2, <4>1
    <3>3. QED
      BY <3>1, <3>2
  <2>3. Queue!Drop(n)
    BY <2>1, <2>2 DEF Queue!Drop
  <2>4. QED
    BY <2>2, <2>3 DEF Queue!QueueNext
<1>10. QED
  BY <1>7, <1>8, <1>9

\* clear and retrieve_all_as_string.
LEMMA WholeSteps ==
  ASSUME RingInv, TypeInv', clear \/ retrieve_all_as_string
  PROVE  RingInv' /\ Queue!QueueNext
<1>1. CASE clear
  <2>1. /\ m_head' = 0 /\ m_tail' = 0 /\ m_full' = FALSE /\ pc' = "idle"
        /\ out' = Queue!Report("clear", 0, <<>>)
        /\ m_data' = m_data /\ m_size' = m_size
    BY <1>1 DEF clear, call
  <2>2. length' = 0
    BY <2>1 DEF length, LengthOf
  <2>3. contents' = Cells(m_data, 0, 0)
    <3>1. contents' = UnreadOf(m_data, 0, 0, m_size, 0)
      BY <2>1, <2>2 DEF contents, Unread
    <3>2. 0 <= m_size - 0
      BY DEF RingInv, TypeInv, TypeOK
    <3>3. QED
      BY <3>1, <3>2 DEF UnreadOf
  <2>4. Queue!Empty
    BY <2>1, <2>3, NoCells DEF Queue!Empty
  <2>5. RingInv'
    BY <2>1, IdleWell DEF RingInv
  <2>6. QED
    BY <2>4, <2>5 DEF Queue!QueueNext
<1>2. CASE retrieve_all_as_string
  <2>1. /\ pc' = "idle" /\ UNCHANGED ring
        /\ out' = Queue!Report("retrieve", 0, IF empty THEN <<>> ELSE Queue!UpToNul(contents))
    BY <1>2 DEF retrieve_all_as_string, call
  <2>2. RingInv' /\ contents' = contents
    BY <2>1, SameRing, IdleWell DEF RingInv
  <2>3. ASSUME empty PROVE Queue!UpToNul(contents) = <<>>
    <3>1. contents \in Seq(Cell) /\ Len(contents) = 0
      BY <2>3, NotEmpty, ContentsFacts
    <3>2. contents = <<>>
      BY <3>1
    <3>3. QED
      BY <3>1, <3>2 DEF Queue!UpToNul
  <2>4. out' = Queue!Report("retrieve", 0, Queue!UpToNul(contents))
    BY <2>1, <2>3
  <2>5. QED
    BY <2>2, <2>4 DEF Queue!QueueNext, Queue!LookText
<1>3. QED
  BY <1>1, <1>2

LEMMA RingStep ==
  ASSUME RingInv, [OrderlyNext]_vars, made' # "text"
  PROVE  RingInv' /\ QueueStep
<1>1. TypeInv'
  <2>1. [Next]_vars
    BY DEF OrderlyNext, Next
  <2>2. QED
    BY <2>1, TypeStep DEF RingInv
<1>2. ASSUME NEW n \in InitSizes, Construct(n) PROVE RingInv' /\ QueueStep
  BY <1>1, <1>2, ConstructSteps DEF QueueStep
<1>3. ASSUME GrowStep \/ FinishGrow \/ GrowRefused PROVE RingInv' /\ QueueStep
  BY <1>1, <1>3, GrowSteps DEF QueueStep
<1>4. ASSUME NEW s \in Sources,
             \/ AppendFits(s)
             \/ (m_head = 0 \/ m_full) /\ AppendGrows(s)
             \/ AppendRefused(s)
      PROVE  RingInv' /\ QueueStep
  BY <1>1, <1>4, AppendSteps DEF QueueStep
<1>5. ASSUME Store PROVE RingInv' /\ QueueStep
  BY <1>1, <1>5, StoreSteps DEF QueueStep, Queue!QueueNext
<1>6. ASSUME NEW n \in Counts, write_to(n) \/ peek(n) \/ skip(n)
      PROVE  RingInv' /\ QueueStep
  BY <1>1, <1>6, ReadSteps DEF QueueStep
<1>7. ASSUME clear \/ retrieve_all_as_string PROVE RingInv' /\ QueueStep
  BY <1>1, <1>7, WholeSteps DEF QueueStep
<1>8. ASSUME UNCHANGED vars PROVE RingInv' /\ QueueStep
  <2>1. UNCHANGED <<ring, pc, src, newsize, tmp, out>>
    BY <1>8 DEF vars, call
  <2>2. contents' = contents
    BY <2>1, SameRing
  <2>3. RingInv'
    BY <1>1, <2>1, SameRing DEF RingInv, GrowsWell, StoresWell, CallsWell
  <2>4. QED
    BY <1>8, <2>3 DEF QueueStep
<1>9. ASSUME NEW s \in Texts, ConstructText(s) PROVE FALSE
  BY <1>9 DEF ConstructText
<1>10. QED
  BY <1>2, <1>3, <1>4, <1>5, <1>6, <1>7, <1>8, <1>9 DEF OrderlyNext, AllButGrowth

\* Only the constructors say how a buffer is made, and they come first.
LEMMA MadeOnce ==
  ASSUME TypeInv, [Next]_vars
  PROVE  made = "text" => made' = "text"
<1> SUFFICES ASSUME made = "text" PROVE made' = "text"
  OBVIOUS
<1>1. pc # "new"
  BY DEF TypeInv, Phase
<1>2. ASSUME NEW s \in Texts, ConstructText(s) PROVE FALSE
  BY <1>1, <1>2 DEF ConstructText
<1>3. ASSUME NEW n \in InitSizes, Construct(n) PROVE FALSE
  BY <1>1, <1>3 DEF Construct
<1>4. ASSUME \/ GrowStep \/ FinishGrow \/ GrowRefused \/ Store
             \/ \E s \in Sources : AppendFits(s) \/ AppendRefused(s) \/ AppendGrows(s)
             \/ \E n \in Counts : write_to(n) \/ peek(n) \/ skip(n)
             \/ clear \/ retrieve_all_as_string
             \/ UNCHANGED vars
      PROVE  made' = made
  BY <1>4 DEF GrowStep, FinishGrow, GrowRefused, Store, AppendFits, AppendRefused, AppendGrows,
              write_to, peek, skip, clear, retrieve_all_as_string, vars
<1>5. QED
  BY <1>2, <1>3, <1>4 DEF Next, AllButGrowth

\* What every buffer keeps to, however it is made.
BufferInv == TypeInv /\ (made = "text" \/ RingInv)

LEMMA BufferStep ==
  ASSUME BufferInv, [OrderlyNext]_vars
  PROVE  BufferInv' /\ (made' = "text" \/ QueueStep)
<1>1. [Next]_vars
  BY DEF OrderlyNext, Next
<1>2. TypeInv'
  BY <1>1, TypeStep DEF BufferInv
<1>3. ASSUME made' # "text" PROVE RingInv' /\ QueueStep
  <2>1. RingInv
    BY <1>1, <1>3, MadeOnce DEF BufferInv
  <2>2. QED
    BY <1>3, <2>1, RingStep
<1>4. QED
  BY <1>2, <1>3 DEF BufferInv

\* A buffer built by size is a queue of bytes: whatever the sizes, the bytes
\* and the order of the calls, an append adds exactly its bytes or is refused
\* and adds none, growing changes nothing, and only write_to, skip and clear
\* take bytes away, exactly those they are asked for.  So wrapping around,
\* the full flag and growing lose, repeat and reorder nothing, as long as
\* append grows only a buffer whose unread bytes start at cell 0 or fill the
\* storage.
THEOREM BufferRefinesQueue == OrderlySpec => ImplementsByteQueue
<1>1. Init => BufferInv /\ Queue!QueueInit
  <2> SUFFICES ASSUME Init PROVE BufferInv /\ Queue!QueueInit
    OBVIOUS
  <2>1. TypeInv
    BY InitTyped
  <2>2. /\ pc = "new" /\ src = <<>> /\ out = Queue!Silent /\ m_size = 0 /\ m_data = <<>>
    BY DEF Init
  <2>3. GrowsWell /\ StoresWell /\ CallsWell
    BY <2>2 DEF GrowsWell, StoresWell, CallsWell
  <2>4. m_data \in [0..(m_size - 1) -> Cell]
    BY <2>2
  <2>5. RingInv
    BY <2>1, <2>3, <2>4 DEF RingInv
  <2>6. QED
    BY <2>1, <2>2, <2>5, NoStorage DEF BufferInv, Queue!QueueInit
<1>2. BufferInv /\ [OrderlyNext]_vars
         => BufferInv' /\ [made' = "size" => Queue!QueueNext]_vars
  BY BufferStep DEF QueueStep
<1>3. QED
  BY <1>1, <1>2, PTL DEF OrderlySpec, ImplementsByteQueue
-----------------------------------------------------------------------------
(***************************************************************************)
(* Growth and the maximum.                                                 *)
(***************************************************************************)
\* The sizes that the growth loop goes through lead up to BUFFER_SIZE_MAX.
LineUp(sizes) ==
  /\ sizes \subseteq 1..BUFFER_SIZE_MAX
  /\ BUFFER_SIZE_SMALL \in sizes
  /\ \A s \in sizes : s < BUFFER_SIZE_MAX =>
        (IF s < BUFFER_SIZE_RAW THEN s * 2 ELSE s + BUFFER_SIZE_RAW) \in sizes

SizesInv(sizes) ==
  /\ m_size \in sizes \cup {0}
  /\ pc = "grow" => newsize \in 1..BUFFER_SIZE_MAX /\ tmp \in sizes \cup {0}

LEMMA SizesStep ==
  ASSUME NEW sizes, LineUp(sizes), made' # "text", TypeOK, SizesInv(sizes), [Next]_vars
  PROVE  SizesInv(sizes)'
<1>1. /\ m_size \in Nat /\ m_head \in Nat /\ m_tail \in Nat /\ m_full \in BOOLEAN
      /\ newsize \in Nat /\ tmp \in Nat
  BY DEF TypeOK, Indices
<1>2. length \in Int
  BY <1>1 DEF length, LengthOf
<1>3. ASSUME NEW n \in Int, n > 0, n <= BUFFER_SIZE_MAX, StartGrow(n), m_size' = m_size
      PROVE  SizesInv(sizes)'
  BY <1>3, BufferAssumption DEF StartGrow, SizesInv, LineUp
<1>4. ASSUME NEW n \in InitSizes, Construct(n) PROVE SizesInv(sizes)'
  <2> DEFINE atLeast == IF n > BUFFER_SIZE_SMALL THEN n ELSE BUFFER_SIZE_SMALL
             clamped == IF atLeast > BUFFER_SIZE_MAX THEN BUFFER_SIZE_MAX ELSE atLeast
  <2>1. StartGrow(clamped) /\ m_size' = m_size
    BY <1>4 DEF Construct, ring
  <2>2. n \in Int
    BY <1>4, BufferAssumption
  <2>3. clamped \in Int /\ clamped > 0 /\ clamped <= BUFFER_SIZE_MAX
    BY <2>2, BufferAssumption
  <2> HIDE DEF clamped
  <2>4. QED
    BY <1>3, <2>1, <2>3
<1>5. ASSUME NEW s \in Sources, AppendGrows(s) PROVE SizesInv(sizes)'
  <2>1. length + Len(s) \in Int
    BY <1>2, BufferAssumption
  <2>2. /\ length + Len(s) > 0 /\ length + Len(s) <= BUFFER_SIZE_MAX
        /\ StartGrow(length + Len(s)) /\ m_size' = m_size
    BY <1>5 DEF AppendGrows, is_valid_size, ring
  <2>3. QED
    BY <1>3, <2>1, <2>2
<1>6. CASE GrowStep
  <2>1. pc' = pc /\ newsize' = newsize /\ m_size' = m_size
    BY <1>6 DEF GrowStep, ring
  <2>2. newsize \in 1..BUFFER_SIZE_MAX /\ tmp \in sizes \cup {0} /\ tmp < newsize
    BY <1>6 DEF GrowStep, SizesInv
  <2>3. tmp < BUFFER_SIZE_MAX
    BY <1>1, <2>2, BufferAssumption
  <2>4. tmp' \in sizes \cup {0}
    <3>1. CASE tmp = 0
      BY <1>6, <3>1, BufferAssumption DEF GrowStep
    <3>2. CASE tmp \in sizes
      BY <1>6, <2>3, <3>2 DEF GrowStep, LineUp
    <3>3. QED
      BY <2>2, <3>1, <3>2
  <2>5. QED
    BY <2>1, <2>2, <2>4 DEF SizesInv
<1>7. CASE FinishGrow
  <2>1. pc' # "grow" /\ m_size' = tmp /\ tmp \in sizes \cup {0}
    BY <1>7 DEF FinishGrow, realloc, SizesInv
  <2>2. QED
    BY <2>1 DEF SizesInv
<1>8. ASSUME pc' # "grow", m_size' = m_size PROVE SizesInv(sizes)'
  BY <1>8 DEF SizesInv
<1>9. ASSUME \/ GrowRefused \/ Store \/ clear \/ retrieve_all_as_string
             \/ \E s \in Sources : AppendFits(s) \/ AppendRefused(s)
             \/ \E n \in Counts : write_to(n) \/ peek(n) \/ skip(n)
      PROVE  SizesInv(sizes)'
  <2>1. pc' # "grow" /\ m_size' = m_size
    BY <1>9 DEF GrowRefused, Store, clear, retrieve_all_as_string, AppendFits, AppendRefused,
                write_to, peek, skip, Consume, ring, call
  <2>2. QED
    BY <1>8, <2>1
<1>10. CASE UNCHANGED vars
  BY <1>10 DEF vars, ring, call, SizesInv
<1>11. ASSUME NEW s \in Texts, ConstructText(s) PROVE FALSE
  BY <1>11 DEF ConstructText
<1>12. QED
  BY <1>4, <1>5, <1>6, <1>7, <1>9, <1>10, <1>11 DEF Next, AllButGrowth

\* The sizes of a buffer built by size.
MadeSizes(sizes) == TypeInv /\ (made = "text" \/ SizesInv(sizes))

\* Where sizes line up, a growth loop that has reached newsize has a size
\* that is_valid_size accepts, in a buffer built by size.
THEOREM RefusesNothingThatFits ==
  ASSUME NEW sizes, LineUp(sizes)
  PROVE  Spec => RefusesOnlyBeyondMax
<1>1. Init => MadeSizes(sizes)
  BY InitTyped DEF MadeSizes, Init, SizesInv
<1>2. MadeSizes(sizes) /\ [Next]_vars => MadeSizes(sizes)'
  <2>1. SUFFICES ASSUME MadeSizes(sizes), [Next]_vars PROVE MadeSizes(sizes)'
    OBVIOUS
  <2>2. TypeInv /\ TypeInv' /\ TypeOK
    BY <2>1, TypeStep DEF MadeSizes, TypeInv
  <2>3. ASSUME made' # "text" PROVE SizesInv(sizes)'
    <3>1. SizesInv(sizes)
      BY <2>1, <2>2, <2>3, MadeOnce DEF MadeSizes
    <3>2. QED
      BY <2>1, <2>2, <2>3, <3>1, SizesStep
  <2>4. QED
    BY <2>2, <2>3 DEF MadeSizes
<1>3. MadeSizes(sizes) => [made = "size" => ~GrowRefused]_vars
  <2>1. SUFFICES ASSUME MadeSizes(sizes), made = "size", GrowRefused PROVE FALSE
    OBVIOUS
  <2>2. TypeOK /\ SizesInv(sizes)
    BY <2>1 DEF MadeSizes, TypeInv
  <2>3. /\ newsize \in 1..BUFFER_SIZE_MAX /\ tmp \in sizes \cup {0}
        /\ tmp \in Nat /\ tmp >= newsize /\ ~is_valid_size(tmp)
    BY <2>1, <2>2 DEF GrowRefused, SizesInv, TypeOK
  <2>4. tmp \in 1..BUFFER_SIZE_MAX
    BY <2>3, BufferAssumption DEF LineUp
  <2>5. QED
    BY <2>3, <2>4, BufferAssumption DEF is_valid_size
<1>4. QED
  BY <1>1, <1>2, <1>3, PTL DEF Spec, RefusesOnlyBeyondMax

\* 64 doubles to 1 KB, and steps of 1 KB lead to 1 MB.
SmallSizes == {64, 128, 256, 512}
LargeSizes == {1024 * k : k \in 1..1024}

LEMMA DoublesToRaw ==
  ASSUME NEW s \in SmallSizes
  PROVE  s \in Nat /\ 0 < s /\ s < 1024 /\ (s * 2 \in SmallSizes \/ s * 2 = 1024)
<1>1. s = 64 \/ s = 128 \/ s = 256 \/ s = 512
  BY SMT DEF SmallSizes
<1>2. s \in Nat /\ 0 < s /\ s < 1024
  BY SMT, <1>1
<1>3. s * 2 = 128 \/ s * 2 = 256 \/ s * 2 = 512 \/ s * 2 = 1024
  BY SMT, <1>1
<1>4. QED
  BY SMT, <1>2, <1>3 DEF SmallSizes

LEMMA StepsToMax ==
  ASSUME NEW s \in LargeSizes
  PROVE  /\ s \in Nat /\ 1024 <= s /\ s <= 1048576
         /\ (s < 1048576 => s + 1024 \in LargeSizes)
<1>1. PICK k \in 1..1024 : s = 1024 * k
  BY SMT DEF LargeSizes
<1>2. s \in Nat /\ 1024 <= s /\ s <= 1048576
  BY SMT, <1>1
<1>3. ASSUME s < 1048576 PROVE s + 1024 \in LargeSizes
  <2>1. k \in Nat /\ 1 <= k /\ k <= 1024 /\ s = 1024 * k
    BY SMT, <1>1
  <2>2. k < 1024
    BY SMT, <1>3, <2>1
  <2>3. s + 1024 = 1024 * (k + 1)
    BY SMT, <2>1
  <2>4. k + 1 \in 1..1024
    BY SMT, <2>1, <2>2
  <2>5. QED
    BY SMT, <2>3, <2>4 DEF LargeSizes
<1>4. QED
  BY SMT, <1>2, <1>3

LEMMA CodeLinesUp ==
  ASSUME BUFFER_SIZE_SMALL = 64, BUFFER_SIZE_RAW = 1024,
         BUFFER_SIZE_MAX <= 1048576, 1048576 <= BUFFER_SIZE_MAX
  PROVE  LineUp(SmallSizes \cup LargeSizes)
<1>1. 64 \in SmallSizes
  BY SMT DEF SmallSizes
<1>2. 1024 \in LargeSizes
  <2>1. 1 \in 1..1024 /\ 1024 * 1 = 1024
    BY SMT
  <2>2. QED
    BY SMT, <2>1 DEF LargeSizes
<1>3. ASSUME NEW s \in SmallSizes \cup LargeSizes, s < BUFFER_SIZE_MAX
      PROVE  (IF s < 1024 THEN s * 2 ELSE s + 1024) \in SmallSizes \cup LargeSizes
  <2>1. CASE s \in SmallSizes
    BY SMT, <1>2, <2>1, DoublesToRaw
  <2>2. CASE s \in LargeSizes
    BY SMT, <1>3, <2>2, StepsToMax, BufferAssumption
  <2>3. QED
    BY SMT, <1>3, <2>1, <2>2
<1>4. SmallSizes \cup LargeSizes \subseteq 1..BUFFER_SIZE_MAX
  <2>1. \A s \in SmallSizes \cup LargeSizes : s \in Nat /\ 0 < s /\ s <= 1048576
    BY SMT, DoublesToRaw, StepsToMax
  <2>2. QED
    BY SMT, <2>1, BufferAssumption
<1>5. QED
  BY SMT, <1>1, <1>3, <1>4 DEF LineUp

\* With the sizes of buffer.hpp, 64 bytes, 1 KB and 1 MB, no buffer built by
\* size refuses an append that its maximum has room for.
THEOREM CodeRefusesNothingThatFits ==
  ASSUME BUFFER_SIZE_SMALL = 64, BUFFER_SIZE_RAW = 1024,
         BUFFER_SIZE_MAX = BUFFER_SIZE_RAW * BUFFER_SIZE_RAW
  PROVE  Spec => RefusesOnlyBeyondMax
<1>1. BUFFER_SIZE_MAX <= 1048576 /\ 1048576 <= BUFFER_SIZE_MAX
  BY SMT
<1>2. LineUp(SmallSizes \cup LargeSizes)
  BY SMT, <1>1, CodeLinesUp
<1>3. QED
  BY <1>2, RefusesNothingThatFits
=============================================================================
