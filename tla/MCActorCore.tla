---------------------------- MODULE MCActorCore ----------------------------
(***************************************************************************)
(* Instances of ActorCore for TLC.                                         *)
(***************************************************************************)
EXTENDS ActorCore, TLC

CONSTANTS a1, a2, w1, w2

MCActors == {a1, a2}
MCWorkers == {w1, w2}
MCInterval == (a1 :> 1) @@ (a2 :> 2)
MCMaxMsgs == (a1 :> 2) @@ (a2 :> 0)
=============================================================================
