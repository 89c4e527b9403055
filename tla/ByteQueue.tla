----------------------------- MODULE ByteQueue -----------------------------
(***************************************************************************)
(* What a buffer promises its users: a queue of bytes.  q is what has been *)
(* appended and not yet consumed.  out names the call that returned last,  *)
(* the size it asked for and the bytes it took or handed over, so that     *)
(* each call does its own thing to the queue and no other; it is Silent    *)
(* while a call is under way, and nothing happens to the queue meanwhile.  *)
(***************************************************************************)
EXTENDS Integers, Sequences

CONSTANTS
  Sources,   \* the byte sequences callers append
  Counts,    \* the sizes callers ask for
  Nul        \* the byte that ends a C string

VARIABLES q, out

Calls == {"none", "append", "refuse", "write_to", "peek", "skip", "clear", "retrieve"}

Report(by, n, bytes) == [by |-> by, n |-> n, bytes |-> bytes]

Silent == Report("none", 0, <<>>)

Front(n) == SubSeq(q, 1, n)
WithoutFront(n) == SubSeq(q, n + 1, Len(q))
AtMost(n) == IF Len(q) < n THEN Len(q) ELSE n

\* What std::string(const char*) keeps: everything before the first Nul.
UpToNul(s) ==
  IF \E i \in 1..Len(s) : s[i] = Nul
  THEN SubSeq(s, 1, (CHOOSE i \in 1..Len(s) :
                        s[i] = Nul /\ \A j \in 1..(i - 1) : s[j] # Nul) - 1)
  ELSE s

QueueInit == q = <<>> /\ out = Silent

\* An append begins.
Begin == out' = Silent /\ q' = q

Accept(s) == out' = Report("append", Len(s), s) /\ q' = q \o s

Refuse(s) == out' = Report("refuse", Len(s), s) /\ q' = q

Look(n) == q' = q /\ out' = Report("peek", n, Front(AtMost(n)))

Take(n) ==
  /\ q' = WithoutFront(AtMost(n))
  /\ out' = Report("write_to", n, Front(AtMost(n)))

\* Skipping is all or nothing.
Drop(n) ==
  /\ out' = Report("skip", n, <<>>)
  /\ q' = IF Len(q) < n THEN q ELSE WithoutFront(n)

LookText == q' = q /\ out' = Report("retrieve", 0, UpToNul(q))

Empty == out' = Report("clear", 0, <<>>) /\ q' = <<>>

QueueNext ==
  \/ Begin
  \/ \E s \in Sources : Accept(s) \/ Refuse(s)
  \/ \E n \in Counts : Look(n) \/ Take(n) \/ Drop(n)
  \/ LookText
  \/ Empty
=============================================================================
