----------------------- MODULE MCContinuousEvolution -----------------------
(***************************************************************************)
(* An instance of ContinuousEvolution: a campaign and a benchmark of one   *)
(* target.                                                                 *)
(***************************************************************************)
EXTENDS ContinuousEvolution, TLC

CONSTANTS j1, b1, t1

MCTargetOf == (j1 :> t1) @@ (b1 :> t1)
=============================================================================
