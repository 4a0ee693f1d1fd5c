-------------------------- MODULE EvolutionRelease --------------------------
(***************************************************************************)
(* Promotion and rollback of an approved evolution proposal: the release   *)
(* transaction of src/learning/evolution/release over the revision store   *)
(* (runtime.ts), the activation manager (config/activation) and the run    *)
(* and release stores.                                                     *)
(*                                                                         *)
(* A revision is an immutable set of target contents with a parent; one    *)
(* revision is active, in active.json and in memory.  The activation       *)
(* manager keeps a copy that follows in the same turn of the event loop,   *)
(* so one variable stands for both.  Releases are written once; the run's  *)
(* file is replaced without a comparison.                                  *)
(*                                                                         *)
(* Every hook is awaited (a record, the canary, the activation checks), so *)
(* commands overlap, and any of them may end early: a refused record, a    *)
(* failed write, an epoch bump that throws, or a crash.                    *)
(***************************************************************************)
EXTENDS Naturals, Sequences, FiniteSets, EvolutionStates

CONSTANTS
  Commands,     \* the promote and rollback commands in progress at once
  Targets,      \* evolution targets
  Approved,     \* approved proposals, each with its run and its candidate
  TargetOf,     \* a proposal's target
  BaseOf,       \* the content its run was scoped on
  Original,     \* a target's content when no revision holds any
  Releasers,    \* who may command
  Owner,        \* the principal that owns the runs and authored
  Approvers,    \* those who approved
  MaxReleases,  \* bound: releases ever written
  MaxRevisions  \* bound: revisions ever staged

ASSUME ReleaseAssumption ==
  /\ TargetOf \in [Approved -> Targets]
  /\ BaseOf \in [Approved -> Approved \cup {Original}]
  /\ Original \notin Approved
  /\ Owner \in Releasers
  /\ Approvers \subseteq Releasers \ {Owner}
  /\ MaxReleases \in Nat
  /\ MaxRevisions \in Nat \ {0}

VARIABLES
  revisions,       \* the staged revisions, in order
  activeRevision,  \* the active one
  releases,        \* the release store, in order
  runs,            \* the file of each proposal's run
  pc,              \* where each command is
  proposal,        \* the proposal it promotes, or whose release it undoes
  by,              \* its principal
  revision,        \* the revision it prepared or returns to
  release          \* the release it wrote last, or undoes

store == <<revisions, activeRevision, releases, runs>>
frame == <<proposal, by, revision, release>>
releaseVars == <<store, pc, frame>>

Contents == Approved \cup {Original}
Revision == [parent : 0..MaxRevisions, targets : [Targets -> Contents]]
Release == [proposal : Approved, status : {"canary", "failed", "active"},
            revision : 1..MaxRevisions, previous : 1..MaxRevisions,
            target : Contents, previousTarget : Contents,
            canary : 0..MaxReleases]
ReleaseRun == [state : {"scoped", "awaiting-review", "canary", "promoted",
                        "failed", "rolled-back"},
               release : 0..MaxReleases]

\* "intent": the intent is being recorded.  "prepared": the candidate is
\* staged.  "saved": its canary release is written.  "canary": its run says
\* canary.  "passed", "refused": the canary answered.  "failing": the failed
\* release is written.  "activating": the activation checks run.
\* "activated": the candidate is active.  "released": its active release is
\* written.  "undo": a rollback's intent is being recorded.  "undoing": its
\* checks run.  "undone": the previous revision is active.  "recorded": the
\* rollback's release is written.
Steps == {"idle", "intent", "prepared", "saved", "canary", "passed",
          "refused", "failing", "activating", "activated", "released",
          "undo", "undoing", "undone", "recorded"}

ReleaseTypeOK ==
  /\ revisions \in Seq(Revision)
  /\ Len(revisions) <= MaxRevisions
  /\ activeRevision \in 1..Len(revisions)
  /\ releases \in Seq(Release)
  /\ Len(releases) <= MaxReleases
  /\ runs \in [Approved -> ReleaseRun]
  /\ pc \in [Commands -> Steps]
  /\ proposal \in [Commands -> Approved]
  /\ by \in [Commands -> Releasers]
  /\ revision \in [Commands -> 0..Len(revisions)]
  /\ release \in [Commands -> 0..Len(releases)]

\* What a command that is not in progress holds.
NoProposal == CHOOSE p \in Approved : TRUE

\* A store without active.json starts with an empty revision of its own.
ReleaseInit ==
  /\ revisions = <<[parent |-> 0, targets |-> [t \in Targets |-> Original]]>>
  /\ activeRevision = 1
  /\ releases = <<>>
  /\ runs = [p \in Approved |-> [state |-> "scoped", release |-> 0]]
  /\ pc = [c \in Commands |-> "idle"]
  /\ proposal = [c \in Commands |-> NoProposal]
  /\ by = [c \in Commands |-> Owner]
  /\ revision = [c \in Commands |-> 0]
  /\ release = [c \in Commands |-> 0]

At(c, step) == pc[c] = step
Goto(c, step) == pc' = [pc EXCEPT ![c] = step]
\* It forgets what it held.
Return(c) ==
  /\ Goto(c, "idle")
  /\ proposal' = [proposal EXCEPT ![c] = NoProposal]
  /\ by' = [by EXCEPT ![c] = Owner]
  /\ revision' = [revision EXCEPT ![c] = 0]
  /\ release' = [release EXCEPT ![c] = 0]

SaveRun(p, state, r) ==
  runs' = [runs EXCEPT ![p] = [state |-> state, release |-> r]]
\* releases.save: a new immutable file with an id of its own.
SaveRelease(c, r) ==
  /\ Len(releases) < MaxReleases
  /\ releases' = Append(releases, r)
  /\ release' = [release EXCEPT ![c] = Len(releases) + 1]

\* contentForTarget
Content(t) == revisions[activeRevision].targets[t]
\* A target no revision holds counts as being at whatever is expected.
Matches(t, expected) == Content(t) \in {Original, expected}

\* The run of p is scoped on the active content of its target and reaches
\* review with its proposal approved; see EvolutionRun.
ReachReview(p) ==
  /\ runs[p].state = "scoped"
  /\ Content(TargetOf[p]) = BaseOf[p]
  /\ SaveRun(p, "awaiting-review", 0)
  /\ UNCHANGED <<revisions, activeRevision, releases, pc, frame>>

(***************************************************************************)
(* promote                                                                 *)
(***************************************************************************)
\* assertPromotionEligible; evidence completeness is a precondition of
\* reaching review here.
PromotionEligible(p, who) ==
  /\ runs[p].state = "awaiting-review"
  /\ who \notin {Owner} \cup Approvers
  /\ Matches(TargetOf[p], BaseOf[p])

BeginPromote(c) ==
  /\ At(c, "idle")
  /\ \E p \in Approved, who \in Releasers :
       /\ PromotionEligible(p, who)
       /\ proposal' = [proposal EXCEPT ![c] = p]
       /\ by' = [by EXCEPT ![c] = who]
  /\ Goto(c, "intent")
  /\ UNCHANGED <<store, revision, release>>

\* The revision that puts p's candidate over the active one.
Staged(p) ==
  [parent |-> activeRevision,
   targets |-> [revisions[activeRevision].targets EXCEPT ![TargetOf[p]] = p]]
\* RuntimeRevisionStore.stage: the same revision is staged once.
Stage(r) ==
  IF \E i \in 1..Len(revisions) : revisions[i] = r
    THEN UNCHANGED revisions
    ELSE /\ Len(revisions) < MaxRevisions
         /\ revisions' = Append(revisions, r)

Prepare(c) ==
  /\ At(c, "intent")
  /\ Stage(Staged(proposal[c]))
  /\ \E i \in 1..Len(revisions') :
       /\ revisions'[i] = Staged(proposal[c])
       /\ revision' = [revision EXCEPT ![c] = i]
  /\ Goto(c, "prepared")
  /\ UNCHANGED <<activeRevision, releases, runs, proposal, by, release>>

\* releaseFromActivation
CanaryRelease(c) ==
  [proposal |-> proposal[c], status |-> "canary", revision |-> revision[c],
   previous |-> revisions[revision[c]].parent, target |-> proposal[c],
   previousTarget |-> BaseOf[proposal[c]], canary |-> 0]

SaveCanaryRelease(c) ==
  /\ At(c, "prepared")
  /\ SaveRelease(c, CanaryRelease(c))
  /\ Goto(c, "saved")
  /\ UNCHANGED <<revisions, activeRevision, runs, proposal, by, revision>>

\* The transition is checked on the run as read before the promotion.
SaveCanaryRun(c) ==
  /\ At(c, "saved")
  /\ CanTransition("awaiting-review", "canary",
                   Authorized(Owner, by[c], {"release.promote"}, "canary"),
                   TRUE, TRUE)
  /\ SaveRun(proposal[c], "canary", release[c])
  /\ Goto(c, "canary")
  /\ UNCHANGED <<revisions, activeRevision, releases, frame>>

RunCanary(c) ==
  /\ At(c, "canary")
  /\ \E passed \in BOOLEAN : Goto(c, IF passed THEN "passed" ELSE "refused")
  /\ UNCHANGED <<store, frame>>

\* Mutant: a failed canary does not end the promotion.
SaveFailedRelease_GoesOn(c) ==
  /\ At(c, "refused")
  /\ SaveRelease(c, [releases[release[c]] EXCEPT !.status = "failed",
                                                 !.canary = release[c]])
  /\ Goto(c, "passed")
  /\ UNCHANGED <<revisions, activeRevision, runs, proposal, by, revision>>

SaveFailedRelease(c) ==
  /\ At(c, "refused")
  /\ SaveRelease(c, [releases[release[c]] EXCEPT !.status = "failed",
                                                 !.canary = release[c]])
  /\ Goto(c, "failing")
  /\ UNCHANGED <<revisions, activeRevision, runs, proposal, by, revision>>

\* The run is read again; the move is made in its owner's name.
SaveFailedRun(c) ==
  /\ At(c, "failing")
  /\ CanTransition(runs[proposal[c]].state, "failed", TRUE, TRUE, TRUE)
  /\ SaveRun(proposal[c], "failed", 0)
  /\ Return(c)
  /\ UNCHANGED <<revisions, activeRevision, releases>>

\* activateCandidate stages again: the active revision must still be the
\* parent of what was prepared.
StartActivation(c) ==
  /\ At(c, "passed")
  /\ revisions[revision[c]] = Staged(proposal[c])
  /\ Goto(c, "activating")
  /\ UNCHANGED <<store, frame>>

\* It is not: the promotion fails, and leaves the revision it staged.
ActivationRefused(c) ==
  /\ At(c, "passed")
  /\ revisions[revision[c]] # Staged(proposal[c])
  /\ Stage(Staged(proposal[c]))
  /\ Return(c)
  /\ UNCHANGED <<activeRevision, releases, runs>>

\* Past its hooks the manager commits without looking at the parent again.
Commit(c) ==
  /\ At(c, "activating")
  /\ activeRevision' = revision[c]
  /\ Goto(c, "activated")
  /\ UNCHANGED <<revisions, releases, runs, frame>>

\* Mutant: the active release is written but the canary one is referred to.
SaveActiveRelease_Forgotten(c) ==
  /\ At(c, "activated")
  /\ Len(releases) < MaxReleases
  /\ releases' = Append(releases, [releases[release[c]] EXCEPT
                                     !.status = "active",
                                     !.canary = release[c]])
  /\ Goto(c, "released")
  /\ UNCHANGED <<revisions, activeRevision, runs, frame>>

\* After the epoch bump and the cross-link.
SaveActiveRelease(c) ==
  /\ At(c, "activated")
  /\ SaveRelease(c, [releases[release[c]] EXCEPT !.status = "active",
                                                 !.canary = release[c]])
  /\ Goto(c, "released")
  /\ UNCHANGED <<revisions, activeRevision, runs, proposal, by, revision>>

SavePromotedRun(c) ==
  /\ At(c, "released")
  /\ CanTransition(runs[proposal[c]].state, "promoted",
                   Authorized(Owner, by[c], {"release.promote"}, "promoted"),
                   TRUE, TRUE)
  /\ SaveRun(proposal[c], "promoted", release[c])
  /\ Return(c)
  /\ UNCHANGED <<revisions, activeRevision, releases>>

(***************************************************************************)
(* rollback                                                                *)
(***************************************************************************)
\* Any stored release may be named: what is checked is the target's active
\* content.
BeginRollback(c) ==
  /\ At(c, "idle")
  /\ \E r \in 1..Len(releases), who \in Releasers :
       /\ Matches(TargetOf[releases[r].proposal], releases[r].target)
       /\ proposal' = [proposal EXCEPT ![c] = releases[r].proposal]
       /\ by' = [by EXCEPT ![c] = who]
       /\ release' = [release EXCEPT ![c] = r]
       /\ revision' = [revision EXCEPT ![c] = releases[r].previous]
  /\ Goto(c, "undo")
  /\ UNCHANGED store

\* Mutant: any revision may be returned to.
StartRollback_Anywhere(c) ==
  /\ At(c, "undo")
  /\ Goto(c, "undoing")
  /\ UNCHANGED <<store, frame>>

\* The manager goes back only to the parent of the active revision.
StartRollback(c) ==
  /\ At(c, "undo")
  /\ revisions[activeRevision].parent = revision[c]
  /\ Goto(c, "undoing")
  /\ UNCHANGED <<store, frame>>

CommitRollback(c) ==
  /\ At(c, "undoing")
  /\ activeRevision' = revision[c]
  /\ Goto(c, "undone")
  /\ UNCHANGED <<revisions, releases, runs, frame>>

\* rollbackReleaseFrom
RollbackRelease(r, to) ==
  [r EXCEPT !.status = "active", !.revision = to, !.previous = r.revision,
            !.target = r.previousTarget, !.previousTarget = r.target]

SaveRollbackRelease(c) ==
  /\ At(c, "undone")
  /\ SaveRelease(c, RollbackRelease(releases[release[c]], revision[c]))
  /\ Goto(c, "recorded")
  /\ UNCHANGED <<revisions, activeRevision, runs, proposal, by, revision>>

\* Mutant: the rolled-back state is saved without the transition check.
SaveRolledBackRun_Unchecked(c) ==
  /\ At(c, "recorded")
  /\ SaveRun(proposal[c], "rolled-back", release[c])
  /\ Return(c)
  /\ UNCHANGED <<revisions, activeRevision, releases>>

\* Only here is the principal compared with the run's owner.
SaveRolledBackRun(c) ==
  /\ At(c, "recorded")
  /\ CanTransition(runs[proposal[c]].state, "rolled-back",
                   Authorized(Owner, by[c], {"release.rollback"},
                              "rolled-back"), TRUE, TRUE)
  /\ SaveRun(proposal[c], "rolled-back", release[c])
  /\ Return(c)
  /\ UNCHANGED <<revisions, activeRevision, releases>>

\* A refused check, a hook that fails, a failed write or a crash.
Abandon(c) ==
  /\ ~At(c, "idle")
  /\ Return(c)
  /\ UNCHANGED store

Command(c) ==
  \/ BeginPromote(c) \/ Prepare(c) \/ SaveCanaryRelease(c)
  \/ SaveCanaryRun(c) \/ RunCanary(c) \/ SaveFailedRelease(c)
  \/ SaveFailedRun(c) \/ StartActivation(c) \/ ActivationRefused(c)
  \/ Commit(c) \/ SaveActiveRelease(c) \/ SavePromotedRun(c)
  \/ BeginRollback(c) \/ StartRollback(c) \/ CommitRollback(c)
  \/ SaveRollbackRelease(c) \/ SaveRolledBackRun(c) \/ Abandon(c)

ReleaseNext ==
  \/ \E p \in Approved : ReachReview(p)
  \/ \E c \in Commands : Command(c)

ReleaseSpec == ReleaseInit /\ [][ReleaseNext]_releaseVars

----------------------------------------------------------------------------
(***************************************************************************)
(* Commands that run alone: a history variable, for what is promised to an *)
(* operator who gives one command at a time.                               *)
(***************************************************************************)
VARIABLE
  alone  \* the command in progress, if no other one overlapped it so far

Busy == {c \in Commands : ~At(c, "idle")}

LoneInit == ReleaseInit /\ alone = {}

LoneNext ==
  /\ ReleaseNext
  /\ alone' = {c \in Busy' : Busy' = {c} /\ (c \in alone \/ c \notin Busy)}

LoneSpec == LoneInit /\ [][LoneNext]_<<releaseVars, alone>>

----------------------------------------------------------------------------
(***************************************************************************)
(* Properties                                                              *)
(***************************************************************************)
IsRelease(r, p, status) ==
  r \in 1..Len(releases) /\ releases[r].proposal = p
                         /\ releases[r].status = status

\* Whatever a run's file says of its release is in the release store, over
\* every overlap and early end: a canary run has its canary release; a
\* promoted run an active release of its own candidate, made after a stored
\* canary; a failed run a failed release, a rolled-back run the release that
\* undid it.
ReleaseBehindRun ==
  \A p \in Approved :
    LET r == runs[p].release IN
      /\ runs[p].state = "canary" => IsRelease(r, p, "canary")
      /\ runs[p].state = "promoted" =>
           /\ IsRelease(r, p, "active")
           /\ releases[r].target = p
           /\ revisions[releases[r].revision].targets[TargetOf[p]] = p
           /\ IsRelease(releases[r].canary, p, "canary")
      /\ runs[p].state = "failed" =>
           \E f \in 1..Len(releases) : IsRelease(f, p, "failed")
      /\ runs[p].state = "rolled-back" => IsRelease(r, p, "active")

\* A candidate is in the active revision only if a canary of it was started
\* and did not fail, although the same candidate may be promoted by several
\* commands with different outcomes.
CanariedBeforeActive ==
  \A t \in Targets : Content(t) # Original =>
    \E r \in 1..Len(releases) :
      /\ IsRelease(r, Content(t), "canary")
      /\ \A f \in 1..Len(releases) :
           releases[f].status = "failed" => releases[f].canary # r

\* A rollback takes the active revision back from the release it names, not
\* from another one.
RollbackUndoesItsRelease ==
  [][\A c \in Commands :
       At(c, "undoing") /\ pc'[c] = "undone" =>
         activeRevision = releases[release[c]].revision]_releaseVars

\* A command that runs alone replaces the active revision only by a child of
\* it or by its parent, whatever earlier commands left behind: it discards
\* no activation that it was not staged over.
ChainedActivations ==
  [][activeRevision' # activeRevision /\ (\E c \in alone : pc'[c] # pc[c]) =>
       \/ revisions[activeRevision'].parent = activeRevision
       \/ revisions[activeRevision].parent = activeRevision']_releaseVars

\* Every save of a command that runs alone moves its run along the
\* transition table.
LegalReleaseMoves ==
  [][\A c \in alone :
       LET p == proposal[c] IN
         runs'[p].state # runs[p].state /\ runs[p].state # "scoped" =>
           runs'[p].state \in TransitionTargets(runs[p].state)]_releaseVars
=============================================================================
