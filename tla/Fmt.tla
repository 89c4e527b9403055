-------------------------------- MODULE Fmt --------------------------------
(***************************************************************************)
(* The formatter (fmt.hpp): a % of the format takes the next argument, a   *)
(* doubled one is meant for a plain %, and the result is cut to the        *)
(* buffer.  Texts are sequences of characters; v2s, which turns a value    *)
(* into text, is taken as done, so an argument is a text.                  *)
(***************************************************************************)
EXTENDS Integers, Sequences, SequencesExt

CONSTANT Percent     \* the character %

\* What a call leaves behind: the text in the buffer, or an exception.
Result(text, throws) == [text |-> text, throws |-> throws]

\* s, cut to what is left of a buffer of size bytes behind buf.
Cut(buf, size, s) == SubSeq(s, 1, Min({Len(s), size - 1 - Len(buf)}))

\* "Missing arguments": a % not followed by another, looked for character by
\* character, so that the second half of a pair may count as well.
MissingArgument(format) ==
  \E i \in DOMAIN format :
     format[i] = Percent /\ (i = Len(format) \/ format[i + 1] # Percent)

RECURSIVE fmt(_, _, _, _)

\* Mutant: the % of a placeholder is left in the format.
FmtStays(buf, size, format, args) ==
  IF args = <<>>
  THEN Result(buf \o Cut(buf, size, format), FALSE)
  ELSE IF format = <<>> \/ Len(buf) = size - 1 THEN Result(buf, FALSE)
  ELSE IF Head(format) # Percent
  THEN fmt(Append(buf, Head(format)), size, Tail(format), args)
  ELSE fmt(buf \o Cut(buf, size, Head(args)), size, format, Tail(args))

\* Both templates: buf is what earlier calls of the recursion have written of
\* the size bytes.  For a pair the code stores a % and does not step over it:
\* the next character takes its place, and it stays only at the end.
fmt(buf, size, format, args) ==
  CASE args = <<>> ->
         Result(buf \o Cut(buf, size, format), MissingArgument(format))
    [] args # <<>> /\ (format = <<>> \/ Len(buf) = size - 1) ->
         Result(buf, FALSE)
    [] OTHER ->
         IF Head(format) # Percent
         THEN fmt(Append(buf, Head(format)), size, Tail(format), args)
         ELSE IF Len(format) > 1 /\ format[2] = Percent
         THEN IF Len(format) = 2 THEN Result(Append(buf, Percent), FALSE)
              ELSE fmt(buf, size, SubSeq(format, 3, Len(format)), args)
         ELSE fmt(buf \o Cut(buf, size, Head(args)), size, Tail(format), Tail(args))
-----------------------------------------------------------------------------
(***************************************************************************)
(* Reference.                                                              *)
(***************************************************************************)
Placeholders(format, i) == {k \in 1..i : format[k] = Percent}

\* What format and args ask for; a placeholder without an argument is empty.
Substituted(format, args) ==
  FlattenSeq([i \in 1..Len(format) |->
    IF format[i] # Percent THEN <<format[i]>>
    ELSE IF Cardinality(Placeholders(format, i)) <= Len(args)
         THEN args[Cardinality(Placeholders(format, i))] ELSE <<>>])

Doubled(format) ==
  \E i \in 1..(Len(format) - 1) : format[i] = Percent /\ format[i + 1] = Percent

\* The part of the format up to its n-th placeholder (all of it if there are
\* fewer).
UpTo(format, n) ==
  SelectSeq([i \in 1..Len(format) |-> i],
            LAMBDA i : Cardinality(Placeholders(format, i)) <= n
                       /\ (n > 0 => Cardinality(Placeholders(format, i - 1)) < n))

\* A format without doubled % gives what it asks for, cut to the buffer, and
\* throws exactly when it runs out of arguments before the buffer is full.
FmtCorrect(format, args, size) ==
  LET r == fmt(<<>>, size, format, args)
      n == Cardinality(Placeholders(format, Len(format)))
      wanted == Substituted(format, args)
      \* what stands before the placeholder that takes the last argument
      before == Substituted(SubSeq(format, 1, Len(UpTo(format, Len(args))) - 1), args)
  IN
  ~Doubled(format) =>
     /\ r.throws <=> n > Len(args) /\ (args = <<>> \/ Len(before) < size - 1)
     /\ ~r.throws => r.text = SubSeq(wanted, 1, Min({Len(wanted), size - 1}))
=============================================================================
