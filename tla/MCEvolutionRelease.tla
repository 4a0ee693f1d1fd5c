------------------------ MODULE MCEvolutionRelease ------------------------
(***************************************************************************)
(* EvolutionRelease for TLC: three proposals on two targets.               *)
(***************************************************************************)
EXTENDS EvolutionRelease, TLC

CONSTANTS p1, p2, p3, t1, t2

\* Commands differ only by name.
Symmetry == Permutations(Commands)

\* p1 and p2 follow each other on one target, p3 is on another.
MCTargetOf == (p1 :> t1) @@ (p2 :> t1) @@ (p3 :> t2)
MCBaseOf == (p1 :> Original) @@ (p2 :> p1) @@ (p3 :> Original)
=============================================================================
