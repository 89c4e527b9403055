------------------------------ MODULE MCLogger ------------------------------
(***************************************************************************)
(* Two loggers in different files, or two of one name, and two threads.    *)
(* The sizes of the lines are those of what xsix::log makes of a few       *)
(* formats, and the formatter is compared with its reference.              *)
(***************************************************************************)
EXTENDS Logger, Fmt, TLC

CONSTANTS l1, l2, FmtSize

MCNamesOf == (l1 :> {1}) @@ (l2 :> {1, 2})

Formats == UNION {[1..n -> {Percent, "a"}] : n \in 0..4}
Args == UNION {[1..n -> {<<>>, <<"x">>, <<"y", "z">>}] : n \in 0..2}

MCLineSizes ==
  {Len(fmt(<<>>, FmtSize, f, a).text) : f \in {<<"a">>, <<Percent, "a">>}, a \in {<<<<"y", "z">>>>}}

\* fmt gives what the format and the arguments ask for, cut to the buffer,
\* for every format without a doubled %, every number of arguments and every
\* size of the buffer.  (No state changes fmt: the first ones suffice.)
FmtSubstitutes ==
  phase = "init" =>
     \A f \in Formats, a \in Args, size \in 1..FmtSize : FmtCorrect(f, a, size)
=============================================================================
