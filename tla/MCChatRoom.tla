----------------------------- MODULE MCChatRoom -----------------------------
(***************************************************************************)
(* Instances of ChatRoom for TLC.  Connections are interchangeable: they   *)
(* are told apart by their ids, which the server gives out.                *)
(***************************************************************************)
EXTENDS ChatRoom, TLC

ConnSymmetry == Permutations(Conns)
=============================================================================
