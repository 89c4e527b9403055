------------------------------ MODULE Channel ------------------------------
(***************************************************************************)
(* What a blocking queue promises: every element put is taken at most      *)
(* once, in the order of the puts.                                         *)
(***************************************************************************)
EXTENDS Sequences

CONSTANT Elems

VARIABLES
  sent,    \* put and not yet taken, oldest first
  taken    \* what the takes have returned so far, in order

Send(e) == sent' = Append(sent, e) /\ taken' = taken

Receive ==
  /\ sent # <<>>
  /\ taken' = Append(taken, Head(sent))
  /\ sent' = Tail(sent)

ChannelInit == sent = <<>> /\ taken = <<>>

ChannelNext == Receive \/ \E e \in Elems : Send(e)

ChannelSpec == ChannelInit /\ [][ChannelNext]_<<sent, taken>>
=============================================================================
