-------------------------- MODULE EvolutionStates --------------------------
(***************************************************************************)
(* The state table of an evolution run and the one check every change of  *)
(* state goes through, src/learning/evolution/state.ts.  It has no state   *)
(* of its own: the orchestrator (EvolutionRun) and the release transaction *)
(* (EvolutionRelease) both move runs through it.                           *)
(***************************************************************************)

TerminalStates ==
  {"rejected", "stale", "cancelled", "budget-exhausted", "failed",
   "rolled-back"}

RunStates ==
  TerminalStates \cup
  {"detected", "scoped", "dataset-ready", "optimizing", "shortlisted",
   "evaluated", "proposal-authored", "awaiting-review", "canary", "promoted"}

\* Where a run may go from each state; a terminal state leads nowhere.
TransitionTargets(from) ==
  CASE from = "detected"      -> {"scoped", "cancelled", "failed"}
    [] from = "scoped"        -> {"dataset-ready", "stale", "cancelled",
                                  "failed"}
    [] from = "dataset-ready" -> {"optimizing", "stale", "cancelled",
                                  "failed"}
    [] from = "optimizing"    -> {"shortlisted", "optimizing", "rejected",
                                  "budget-exhausted", "cancelled", "failed",
                                  "stale"}
    [] from = "shortlisted"   -> {"evaluated", "rejected", "stale", "failed"}
    [] from = "evaluated"     -> {"proposal-authored", "rejected", "stale",
                                  "failed"}
    [] from = "proposal-authored" -> {"awaiting-review", "rejected", "stale",
                                      "failed"}
    [] from = "awaiting-review"   -> {"canary", "rejected", "stale",
                                      "failed"}
    [] from = "canary"        -> {"promoted", "rolled-back", "failed"}
    [] from = "promoted"      -> {"rolled-back"}
    [] OTHER                  -> {}

\* The capabilities a move needs: the release states need an authority of
\* their own.
ReleaseCapability(to) ==
  CASE to \in {"canary", "promoted"} -> {"release.promote"}
    [] to = "rolled-back"            -> {"release.rollback"}
    [] OTHER                         -> {}

\* The principal that owns a run moves it until review; the release states
\* are reached only by a principal that is not the owner.
Authorized(owner, principal, capabilities, to) ==
  IF ReleaseCapability(to) = {}
    THEN principal = owner
    ELSE /\ principal # owner
         /\ ReleaseCapability(to) \subseteq capabilities

\* What transitionEvolutionRun lets through: fresh says the active digest of
\* the target is still the baseline, within that no budget is exceeded.
CanTransition(from, to, authorized, fresh, within) ==
  /\ from \notin TerminalStates
  /\ authorized
  /\ to \in {"promoted", "rolled-back"} \/ fresh
  /\ to = "budget-exhausted" \/ within
  /\ to \in TransitionTargets(from)

\* The orchestrator's own moves: made as the owner, with no usage except at
\* the end of an optimization, and with the run's own baseline as the active
\* digest, so the freshness check passes by construction.
OwnerMove(from, to) == CanTransition(from, to, TRUE, TRUE, TRUE)
=============================================================================
