------------------------------ MODULE MCBuffer ------------------------------
(***************************************************************************)
(* Instances of Buffer for TLC: SMALL, RAW and MAX scaled down, RAW * RAW  *)
(* at least MAX as in the code, and every argument up to a small length.   *)
(***************************************************************************)
EXTENDS Buffer, SequencesExt

CONSTANTS
  MaxSource,   \* bound: bytes of one append
  MaxText      \* bound: bytes of a string a buffer is built from

MCSources == BoundedSeq(Bytes, MaxSource) \ {<<>>}
MCTexts == BoundedSeq(Bytes, MaxText)
MCCounts == {1, 3}
=============================================================================
