---------------------------- MODULE EvolutionRun ----------------------------
(***************************************************************************)
(* One evolution run under the operator's control plane: the orchestrator  *)
(* (src/learning/evolution/orchestrator), the operator commands in front   *)
(* of it (application/index.ts) and the file stores behind it.             *)
(*                                                                         *)
(* Every command reads the run, waits for an engine, an evaluator or a     *)
(* store, and saves a run computed from what it read: runs.save replaces   *)
(* the file whatever it holds by then.  Commands are served concurrently   *)
(* and any of them may end early, at a failed write or a process crash.    *)
(* Candidates, reports and proposals are written once and kept.            *)
(*                                                                         *)
(* The optimizer answers an optimize or a resume when its time slice ends  *)
(* or its worker exits, and serves pause and cancel of a job only between  *)
(* slices, as the job controller in darwin/optimizers/jobs does.           *)
(***************************************************************************)
EXTENDS Naturals, Sequences, FiniteSets, EvolutionStates

CONSTANTS
  Calls,          \* the commands that may be in progress at once
  Candidates,     \* candidates the optimizer may return
  Eligible,       \* those with constraints, all of them passing
  Dominates,      \* pairs <<c, d>>: c dominates d (paretoDominators)
  Datasets,       \* sealed datasets
  MaxCandidates,  \* budgets.maximumCandidates
  MaxProposals,   \* bound: proposals authored for the run
  Nil             \* no dataset, no report, no candidate

ASSUME ConstantsAssumption ==
  /\ Eligible \subseteq Candidates
  /\ Dominates \subseteq Candidates \X Candidates
  /\ MaxCandidates \in Nat
  /\ MaxProposals \in Nat
  /\ Nil \notin Candidates \cup Datasets

Reports == [candidate : Candidates, dataset : Datasets, passed : BOOLEAN]
ASSUME NilAssumption == Nil \notin Reports

VARIABLES
  stored,      \* the run's file
  candidates,  \* the candidate store
  reports,     \* the evaluation report store
  proposals,   \* the proposals authored, in order
  job,         \* the optimizer's job for this run
  pc,          \* where each command is
  run,         \* the run each command read or is about to save
  batch,       \* the candidates each command works on
  paused,      \* whether the optimizer's answer says paused
  report       \* the report each command works on

stores == <<candidates, reports, proposals>>
vars == <<stored, stores, job, pc, run, batch, paused, report>>

Run == [state : RunStates \cup {"none"}, dataset : Datasets \cup {Nil},
        resumable : BOOLEAN, shortlist : SUBSET Candidates,
        report : Reports \cup {Nil}, proposal : 0..MaxProposals]
\* A run in one state carries that state's fields and its dataset only.
Plain(state, dataset) ==
  [state |-> state, dataset |-> dataset, resumable |-> FALSE,
   shortlist |-> {}, report |-> Nil, proposal |-> 0]
Optimizing(dataset, resumable) ==
  [state |-> "optimizing", dataset |-> dataset, resumable |-> resumable,
   shortlist |-> {}, report |-> Nil, proposal |-> 0]
Shortlisted(dataset, shortlist) ==
  [state |-> "shortlisted", dataset |-> dataset, resumable |-> FALSE,
   shortlist |-> shortlist, report |-> Nil, proposal |-> 0]
Evaluated(dataset, r) ==
  [state |-> "evaluated", dataset |-> dataset, resumable |-> FALSE,
   shortlist |-> {}, report |-> r, proposal |-> 0]
AwaitingReview(dataset, n) ==
  [state |-> "awaiting-review", dataset |-> dataset, resumable |-> FALSE,
   shortlist |-> {}, report |-> Nil, proposal |-> n]

Proposal == [candidate : Candidates, report : Reports]

\* "scope": detected is saved.  "attach": the dataset is being sealed.
\* "start": about to save optimizing.  "optimize", "resume": waiting for the
\* engine.  "expire": the duration budget ran out and the engine is told to
\* cancel; "expired": it answered.  "answered": candidates to store.
\* "listed": about to save the outcome.  "pause": about to ask the engine;
\* "pausing", "cancel": waiting for it; "paused", "cancelled": it agreed.
\* "compare": waiting for
\* the evaluator.  "judged": its report is here.  "reported": the report is
\* stored.  "propose": evidence read.  "author": run read again.
\* "authored": the proposal is stored.
Steps == {"idle", "scope", "attach", "start", "optimize", "resume",
          "expire", "expired", "answered", "listed", "pause", "pausing",
          "paused", "cancel", "cancelled", "compare", "judged", "reported",
          "propose", "author", "authored"}

TypeOK ==
  /\ stored \in Run
  /\ candidates \subseteq Candidates
  /\ reports \subseteq Reports
  /\ proposals \in Seq(Proposal)
  /\ Len(proposals) <= MaxProposals
  /\ job \in {"none", "running", "paused", "stopped"}
  /\ pc \in [Calls -> Steps]
  /\ run \in [Calls -> Run]
  /\ batch \in [Calls -> SUBSET Candidates]
  /\ paused \in [Calls -> BOOLEAN]
  /\ report \in [Calls -> Reports \cup {Nil}]

Init ==
  /\ stored = Plain("none", Nil)
  /\ candidates = {}
  /\ reports = {}
  /\ proposals = <<>>
  /\ job = "none"
  /\ pc = [c \in Calls |-> "idle"]
  /\ run = [c \in Calls |-> Plain("none", Nil)]
  /\ batch = [c \in Calls |-> {}]
  /\ paused = [c \in Calls |-> FALSE]
  /\ report = [c \in Calls |-> Nil]

\* The command's frame: its program counter, and what it holds.
At(c, step) == pc[c] = step
Goto(c, step) == pc' = [pc EXCEPT ![c] = step]
Hold(c, r) == run' = [run EXCEPT ![c] = r]
Results == <<batch, paused, report>>

\* runs.get: the file as it is now.
Get(c, step) ==
  /\ At(c, "idle")
  /\ Goto(c, step)
  /\ Hold(c, stored)

\* Forget everything the command held; it has returned or failed.
Return(c) ==
  /\ Goto(c, "idle")
  /\ Hold(c, Plain("none", Nil))
  /\ batch' = [batch EXCEPT ![c] = {}]
  /\ paused' = [paused EXCEPT ![c] = FALSE]
  /\ report' = [report EXCEPT ![c] = Nil]

\* runs.save: writeTextAtomic replaces the file, it compares nothing.
Save(r) == stored' = r
SaveAndReturn(c, r) ==
  /\ Save(r)
  /\ Return(c)
  /\ UNCHANGED <<stores, job>>

(***************************************************************************)
(* scope, attachDataset                                                    *)
(***************************************************************************)
Scope(c) ==
  /\ At(c, "idle")
  /\ stored.state = "none"
  /\ Save(Plain("detected", Nil))
  /\ Hold(c, Plain("detected", Nil))
  /\ Goto(c, "scope")
  /\ UNCHANGED <<stores, job, Results>>

SaveScoped(c) ==
  /\ At(c, "scope")
  /\ SaveAndReturn(c, Plain("scoped", Nil))

\* The run's id is new and random; it is known to others once scope has
\* returned or died.
Announced ==
  /\ stored.state # "none"
  /\ \A c \in Calls : ~At(c, "scope")

Attach(c) ==
  /\ Announced
  /\ Get(c, "attach")
  /\ UNCHANGED <<stored, stores, job, Results>>

\* Only the legality of the move is checked, and only on the run as read.
SaveDataset(c) ==
  /\ At(c, "attach")
  /\ OwnerMove(run[c].state, "dataset-ready")
  /\ \E d \in Datasets : SaveAndReturn(c, Plain("dataset-ready", d))

(***************************************************************************)
(* optimize, resume and what follows the engine's answer                   *)
(***************************************************************************)
Optimize(c) ==
  /\ stored.state = "dataset-ready"
  /\ Get(c, "start")
  /\ UNCHANGED <<stored, stores, job, Results>>

BeginOptimization(c) ==
  /\ At(c, "start")
  /\ OwnerMove(run[c].state, "optimizing")
  /\ Save(Optimizing(run[c].dataset, FALSE))
  /\ Hold(c, Optimizing(run[c].dataset, FALSE))
  /\ Goto(c, "optimize")
  /\ job' = "running"
  /\ UNCHANGED <<stores, Results>>


\* The request outlives maximumDurationMilliseconds.
Expire(c) ==
  /\ At(c, "optimize")
  /\ Goto(c, "expire")
  /\ UNCHANGED <<stored, stores, job, run, Results>>

\* A cancel is served between slices and kills the worker.
Killed == IF job = "none" THEN "none" ELSE "stopped"

\* The engine answers the cancel, which was sent without a time limit;
\* whether it cancelled anything is ignored.
CancelExpired(c) ==
  /\ At(c, "expire")
  /\ \/ job # "running" /\ job' = Killed
     \/ UNCHANGED job
  /\ Goto(c, "expired")
  /\ UNCHANGED <<stored, stores, run, Results>>

SaveExpired(c) ==
  /\ At(c, "expired")
  /\ OwnerMove(run[c].state, "budget-exhausted")
  /\ SaveAndReturn(c, Plain("budget-exhausted", run[c].dataset))

Resume(c) ==
  /\ stored.state = "optimizing"
  /\ stored.resumable
  /\ job = "paused"
  /\ Get(c, "resume")
  /\ job' = "running"
  /\ UNCHANGED <<stored, stores, Results>>

\* The optimizer answers: with everything it found once its worker exited,
\* or paused with what it has at the end of a slice.
Answer(c) ==
  /\ pc[c] \in {"optimize", "resume"}
  /\ job = "running"
  /\ \E exited \in BOOLEAN :
       /\ job' = IF exited THEN "stopped" ELSE "paused"
       /\ paused' = [paused EXCEPT ![c] = ~exited]
  /\ \E found \in SUBSET Candidates : batch' = [batch EXCEPT ![c] = found]
  /\ Goto(c, "answered")
  /\ UNCHANGED <<stored, stores, run, report>>

\* The slice ends although the command that waited for it is gone.
SliceEnds ==
  /\ job = "running"
  /\ \A c \in Calls : pc[c] \notin {"optimize", "resume"}
  /\ job' \in {"paused", "stopped"}
  /\ UNCHANGED <<stored, stores, pc, run, Results>>

\* Mutant: the outcome is judged on the last answer alone.
StoreCandidates_LastAnswer(c) ==
  /\ At(c, "answered")
  /\ candidates' = candidates \cup batch[c]
  /\ Goto(c, "listed")
  /\ UNCHANGED <<stored, reports, proposals, job, run, Results>>

\* saveValidCandidates, then listForRun: the outcome is judged on every
\* candidate stored for the run, those of earlier answers included.
StoreCandidates(c) ==
  /\ At(c, "answered")
  /\ candidates' = candidates \cup batch[c]
  /\ batch' = [batch EXCEPT ![c] = candidates']
  /\ Goto(c, "listed")
  /\ UNCHANGED <<stored, reports, proposals, job, run, paused, report>>

\* A write failed after some of them.
StoreSomeAndFail(c) ==
  /\ At(c, "answered")
  /\ \E some \in SUBSET batch[c] : candidates' = candidates \cup some
  /\ Return(c)
  /\ UNCHANGED <<stored, reports, proposals, job>>

\* The paused outcome is saved without a transition check, with the token
\* the answer may carry.
SavePausedAnswer(c) ==
  /\ At(c, "listed")
  /\ paused[c]
  /\ \E token \in BOOLEAN :
       SaveAndReturn(c, Optimizing(run[c].dataset, token))

\* paretoEvolutionShortlist: the eligible candidates no other one dominates.
Shortlist(cs) ==
  {c \in cs \cap Eligible :
     \A d \in cs \cap Eligible : <<d, c>> \notin Dominates}

\* optimizationNextState
Outcome(dataset, cs) ==
  IF Cardinality(cs) > MaxCandidates
    THEN Plain("budget-exhausted", dataset)
    ELSE IF Shortlist(cs) = {}
      THEN Plain("rejected", dataset)
      ELSE Shortlisted(dataset, Shortlist(cs))

SaveOutcome(c) ==
  /\ At(c, "listed")
  /\ ~paused[c]
  /\ LET next == Outcome(run[c].dataset, batch[c]) IN
       /\ CanTransition(run[c].state, next.state, TRUE, TRUE,
                        Cardinality(batch[c]) <= MaxCandidates)
       /\ SaveAndReturn(c, next)

(***************************************************************************)
(* pause, cancel                                                           *)
(***************************************************************************)
Pause(c) ==
  /\ stored.state = "optimizing"
  /\ Get(c, "pause")
  /\ UNCHANGED <<stored, stores, job, Results>>

AskPause(c) ==
  /\ At(c, "pause")
  /\ job \in {"running", "paused"}
  /\ Goto(c, "pausing")
  /\ UNCHANGED <<stored, stores, job, run, Results>>

\* Served between slices: by then the job may have ended, and the token the
\* engine still returns is of no use.
EnginePaused(c) ==
  /\ At(c, "pausing")
  /\ job # "running"
  /\ Goto(c, "paused")
  /\ UNCHANGED <<stored, stores, job, run, Results>>

SavePaused(c) ==
  /\ At(c, "paused")
  /\ OwnerMove(run[c].state, "optimizing")
  /\ SaveAndReturn(c, Optimizing(run[c].dataset, TRUE))

Cancel(c) ==
  /\ Announced
  /\ Get(c, "cancel")
  /\ UNCHANGED <<stored, stores, job, Results>>

EngineCancelled(c) ==
  /\ At(c, "cancel")
  /\ job # "running"
  /\ job' = Killed
  /\ Goto(c, "cancelled")
  /\ UNCHANGED <<stored, stores, run, Results>>

\* Mutant: a cancel is saved without the transition check.
SaveCancelled_Unchecked(c) ==
  /\ At(c, "cancelled")
  /\ SaveAndReturn(c, Plain("cancelled", run[c].dataset))

SaveCancelled(c) ==
  /\ At(c, "cancelled")
  /\ OwnerMove(run[c].state, "cancelled")
  /\ SaveAndReturn(c, Plain("cancelled", run[c].dataset))

(***************************************************************************)
(* compare, and recordEvaluation                                           *)
(***************************************************************************)
\* The command picks any stored candidate; the evaluator takes its time.
Compare(c) ==
  /\ stored.state = "shortlisted"
  /\ candidates # {}
  /\ Get(c, "compare")
  /\ UNCHANGED <<stored, stores, job, Results>>

\* The report is about the run as it was read before the evaluation.
Judge(c) ==
  /\ At(c, "compare")
  /\ \E chosen \in candidates, passed \in BOOLEAN :
       /\ run[c].dataset \in Datasets
       /\ report' = [report EXCEPT ![c] =
                       [candidate |-> chosen, dataset |-> run[c].dataset,
                        passed |-> passed]]
  /\ Goto(c, "judged")
  /\ UNCHANGED <<stored, stores, job, run, batch, paused>>

\* Mutant: any stored candidate may be reported on.
Binds_AnyCandidate(r, on) ==
  /\ on.state = "shortlisted"
  /\ r.dataset = on.dataset

\* What a report must match in the run it is recorded on.
Binds(r, on) ==
  /\ on.state = "shortlisted"
  /\ r.candidate \in on.shortlist
  /\ r.dataset = on.dataset

\* recordEvolutionReport reads the run again; the report is stored first.
StoreReport(c) ==
  /\ At(c, "judged")
  /\ Binds(report[c], stored)
  /\ Hold(c, stored)
  /\ reports' = reports \cup {report[c]}
  /\ Goto(c, "reported")
  /\ UNCHANGED <<stored, candidates, proposals, job, Results>>

SaveEvaluated(c) ==
  /\ At(c, "reported")
  /\ OwnerMove(run[c].state, "evaluated")
  /\ SaveAndReturn(c, Evaluated(run[c].dataset, report[c]))

(***************************************************************************)
(* propose                                                                 *)
(***************************************************************************)
\* The command reads a passing evaluation, its report and the candidate the
\* operator names.
Propose(c) ==
  /\ stored.state = "evaluated"
  /\ stored.report \in reports
  /\ stored.report.passed
  /\ Get(c, "propose")
  /\ \E named \in candidates : batch' = [batch EXCEPT ![c] = {named}]
  /\ report' = [report EXCEPT ![c] = stored.report]
  /\ UNCHANGED <<stored, stores, job, paused>>

\* proposeRun reads the run, the candidate and the report again.
ReadForProposal(c) ==
  /\ At(c, "propose")
  /\ Hold(c, stored)
  /\ Goto(c, "author")
  /\ UNCHANGED <<stored, stores, job, Results>>

\* Mutant: the report need not be about the candidate the operator names.
Supports_AnyReport(r, named, on) ==
  /\ on.state = "evaluated"
  /\ on.report \in Reports
  /\ on.report.passed
  /\ r.passed
  /\ r.dataset = on.dataset

\* assertProposalEvidence, on the run as read
Supports(r, named, on) ==
  /\ on.state = "evaluated"
  /\ on.report \in Reports
  /\ on.report.passed
  /\ r.passed
  /\ r.candidate = named
  /\ r.dataset = on.dataset

Author(c) ==
  /\ At(c, "author")
  /\ Len(proposals) < MaxProposals
  /\ \E named \in batch[c] :
       /\ Supports(report[c], named, run[c])
       /\ proposals' = Append(proposals, [candidate |-> named,
                                          report |-> report[c]])
  /\ Hold(c, AwaitingReview(run[c].dataset, Len(proposals) + 1))
  /\ Goto(c, "authored")
  /\ UNCHANGED <<stored, candidates, reports, job, Results>>

\* evaluated, proposal-authored and awaiting-review follow in one save.
SaveAwaitingReview(c) ==
  /\ At(c, "authored")
  /\ SaveAndReturn(c, run[c])

\* The command ends where it is: a refused check, an error from the engine
\* or a failed write; a crash ends every command this way.
Abandon(c) ==
  /\ ~At(c, "idle")
  /\ Return(c)
  /\ UNCHANGED <<stored, stores, job>>

Command(c) ==
  \/ Scope(c) \/ SaveScoped(c) \/ Attach(c) \/ SaveDataset(c)
  \/ Optimize(c) \/ BeginOptimization(c)
  \/ Expire(c) \/ CancelExpired(c) \/ SaveExpired(c)
  \/ Resume(c) \/ Answer(c) \/ StoreCandidates(c) \/ StoreSomeAndFail(c)
  \/ SavePausedAnswer(c) \/ SaveOutcome(c)
  \/ Pause(c) \/ AskPause(c) \/ EnginePaused(c) \/ SavePaused(c)
  \/ Cancel(c) \/ EngineCancelled(c) \/ SaveCancelled(c)
  \/ Compare(c) \/ Judge(c) \/ StoreReport(c) \/ SaveEvaluated(c)
  \/ Propose(c) \/ ReadForProposal(c) \/ Author(c) \/ SaveAwaitingReview(c)
  \/ Abandon(c)

Next ==
  \/ \E c \in Calls : Command(c)
  \/ SliceEnds

Spec == Init /\ [][Next]_vars

\* The process runs on: an optimization takes the step after each await, and
\* its timer fires.  The engine need not ever answer anything.
OptimizeStep(c) ==
  \/ Expire(c) \/ SaveExpired(c) \/ StoreCandidates(c)
  \/ SavePausedAnswer(c) \/ SaveOutcome(c)
Fairness == \A c \in Calls : WF_vars(OptimizeStep(c))

----------------------------------------------------------------------------
(***************************************************************************)
(* Commands that run alone: a history variable, for what is promised to an *)
(* operator who gives one command at a time.                               *)
(***************************************************************************)
VARIABLE
  alone  \* the command in progress, if no other one overlapped it so far

Busy == {c \in Calls : ~At(c, "idle")}

LoneInit == Init /\ alone = {}

LoneNext ==
  /\ Next
  /\ alone' = {c \in Busy' : Busy' = {c} /\ (c \in alone \/ c \notin Busy)}

LoneSpec == LoneInit /\ [][LoneNext]_<<vars, alone>> /\ Fairness

----------------------------------------------------------------------------
(***************************************************************************)
(* Properties                                                              *)
(***************************************************************************)
\* Whatever the file says happened has its evidence on disk, whatever
\* commands overlapped and wherever they stopped: a run shown as evaluated
\* has its stored report, on the run's own dataset and on a stored candidate
\* that met every constraint; a run awaiting review has its proposal.
EvidenceBehindState ==
  /\ stored.state = "shortlisted" =>
       stored.shortlist \subseteq candidates \cap Eligible
  /\ stored.state = "evaluated" =>
       /\ stored.report \in reports
       /\ stored.report.candidate \in candidates \cap Eligible
       /\ stored.report.dataset = stored.dataset
  /\ stored.state = "awaiting-review" =>
       stored.proposal \in 1..Len(proposals)

\* No proposal rests on a failed, missing or foreign evaluation: its report
\* is stored, passed, is about the proposal's own candidate, and that
\* candidate met every constraint, although the operator may name any stored
\* candidate and the run may change between the reads.
ProposalsRestOnEvidence ==
  \A n \in 1..Len(proposals) :
    LET p == proposals[n] IN
      /\ p.report \in reports
      /\ p.report.passed
      /\ p.report.candidate = p.candidate
      /\ p.candidate \in candidates \cap Eligible

\* Every save of a command that runs alone moves the file along the
\* transition table, whatever earlier commands left behind.
AloneMovesLegally ==
  [][stored'.state # stored.state /\ (\E c \in alone : pc'[c] # pc[c]) =>
       \/ stored'.state \in TransitionTargets(stored.state)
       \/ stored.state = "none" /\ stored'.state = "detected"
       \/ stored.state = "evaluated" /\ stored'.state = "awaiting-review"]_vars

\* A request that runs alone seals a shortlist only while all the candidates
\* stored for the run, over every pause and resume, are within the budget.
SealedWithinBudget ==
  [][\A c \in alone :
       At(c, "listed") /\ stored'.state = "shortlisted" /\ stored' # stored =>
         Cardinality(candidates) <= MaxCandidates]_vars

\* Every save moves the file along the transition table, overlapping
\* commands or not: no run checks it, because it does not hold.
LegalMoves ==
  [][stored'.state # stored.state =>
       \/ stored'.state \in TransitionTargets(stored.state)
       \/ stored.state = "none" /\ stored'.state = "detected"
       \/ stored.state = "evaluated" /\ stored'.state = "awaiting-review"]_vars

\* An optimization request returns, though the engine may never answer it: the
\* duration budget ends it.  What that needs of the engine is an answer to the
\* cancel it is sent then, a request the code does not bound in time; until
\* that answer, and only there, the command waits.
CancelsAnswered == \A c \in Calls : WF_vars(CancelExpired(c))
=============================================================================
