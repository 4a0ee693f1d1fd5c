-------------------------- MODULE CandidateEvidence --------------------------
(***************************************************************************)
(* What a promotion rests on: the sealed dataset, the constraints the      *)
(* validator computes for each candidate, and the report of an independent *)
(* evaluator, which travels through a cache, two commands and a restart    *)
(* before the eligibility check reads it (src/learning/evolution:          *)
(* application, datasets, targets, evaluation, benchmarks, release; the    *)
(* evaluator is darwin/evaluators/agent-benchmarks).                       *)
(*                                                                         *)
(* Bytes are abstracted to the set of checks they truly fail (flaw).       *)
(* Candidates are named by the digest of what the engine sent, and runs    *)
(* share that name space: two runs that receive the same bytes have a      *)
(* candidate of the same name each, and a lookup by name finds the one in  *)
(* the first directory.                                                    *)
(***************************************************************************)
EXTENDS Naturals, Sequences, FiniteSets

CONSTANTS
  Runs, Bytes,    \* runs of one target; what the engine may send
  Compares,       \* compare commands under way at once
  RunOrder,       \* the directories of the runs, in the order they are read
  Files,          \* versions of the file the target is read from
  Flaws,          \* flaws enumerated for the bytes an engine sends
  Sources,        \* dataset sources: group -> fingerprint of its input
  Seeds,          \* splits a seed may give: group -> split
  Weak,           \* what bytes may do badly at: sets of measures
  MaxReports      \* bound: reports the evaluator makes

ASSUME OrderAssumption ==
  /\ RunOrder \in [1..Cardinality(Runs) -> Runs]
  /\ {RunOrder[i] : i \in DOMAIN RunOrder} = Runs

None == "none"
Classes == {"skill", "tool-description", "prompt-segment", "code"}

---------------------------------------------------------------------------
(* Constraints of a candidate                                              *)

PathChecks == {"path-containment", "frozen-paths"}
CommonChecks == PathChecks \union
  {"candidate-content-digest", "baseline-content-digest",
   "authority-frontmatter", "candidate-footprint"}
SkillChecks == {"skill-identity", "skill-frontmatter", "skill-authority-overlay",
                "skill-footprint", "skill-injection-static"}
ToolChecks == {"tool-description-keys", "tool-description-footprint"}
PromptChecks == {"prompt-footprint"}
AuthorityChecks == {"prompt-authority-static"}
StaticChecks == {"code-static-safety", "code-security-markers",
                 "code-public-exports", "code-network-destinations"}
ExecutedChecks == {"code-focused-test", "code-full-check", "code-frozen-surface"}

AdapterChecks(c) ==
  CASE c = "skill" -> SkillChecks
    [] c = "tool-description" -> ToolChecks
    [] c = "prompt-segment" -> PromptChecks
    [] OTHER -> {}

SpecificChecks(c) ==
  CASE c = "code" -> StaticChecks \union ExecutedChecks
    [] c = "prompt-segment" -> AdapterChecks(c) \union AuthorityChecks
    [] OTHER -> AdapterChecks(c)

Checks(c) == CommonChecks \union SpecificChecks(c)

\* A skill keeps the frontmatter of its baseline: what the engine changed
\* there is replaced before anything is checked.
Rendered(c, flaws) ==
  IF c = "skill" /\ "candidate-content-digest" \notin flaws
  THEN flaws \ {"authority-frontmatter", "skill-frontmatter",
                "skill-identity", "skill-authority-overlay"}
  ELSE flaws

\* Without the trusted checker the engine's own word on the executed checks
\* is kept; what it does not mention has failed.
Executed(flaws, checker, claims) ==
  IF checker THEN flaws \intersect ExecutedChecks ELSE ExecutedChecks \ claims

\* EvolutionCandidateValidator.validate: the constraints that failed.
Failed(c, flaws, checker, claims) ==
  LET left == Rendered(c, flaws)
      computed == IF c = "code" THEN Checks(c) \ ExecutedChecks ELSE Checks(c)
  IN (left \intersect computed)
       \union (IF c = "code" THEN Executed(left, checker, claims) ELSE {})

---------------------------------------------------------------------------
(* Datasets                                                                *)

Splits == {"train", "validation", "holdout"}
Groups(d) == DOMAIN d.print
Prints(d, s) == {d.print[g] : g \in {h \in Groups(d) : d.split[h] = s}}

\* Mutant of LeakFree: equal inputs of different groups may be split.
SplitInputs(d) == DOMAIN d.print = DOMAIN d.split

\* validateDatasetLeakage: a group has one split by construction of the
\* split, an input may not appear in two.
LeakFree(d) ==
  \A g, h \in Groups(d) : d.print[g] = d.print[h] => d.split[g] = d.split[h]

BuildDataset == {d \in [print : Sources, split : Seeds] : LeakFree(d)}

\* What an engine receives: the holdout stays sealed.
OptimizerView(d) == Prints(d, "train") \union Prints(d, "validation")

\* The evaluator refuses a dataset that has no case in one of the splits.
EvaluatorAccepts(d) == \A s \in Splits : Prints(d, s) # {}

---------------------------------------------------------------------------
(* The benchmark ladder and the report                                     *)

\* The gates, in order; the first two stand for the eleven of every class.
Ladder == <<"static", "holdout-benchmark", "yc-bench", "terminalbench2">>
Gates == {Ladder[i] : i \in DOMAIN Ladder}
Applicable(c) ==
  {"static", "holdout-benchmark"}
    \union (IF c \in {"prompt-segment", "code"} THEN {"yc-bench"} ELSE {})
    \union (IF c = "code" THEN {"terminalbench2"} ELSE {})

\* Comparison, holdout metric and footprints are measured beside the gates.
Evidence == {"comparison", "holdout-metric", "footprints"}
Measures(c) == Applicable(c) \union Evidence

\* A gate that does not apply passes, one behind a failed gate is skipped.
LadderPassed(c, good) ==
  {Ladder[i] : i \in {j \in DOMAIN Ladder :
     \/ Ladder[j] \notin Applicable(c)
     \/ \A k \in 1..j : Ladder[k] \in Applicable(c) => Ladder[k] \in good}}

\* What the report says of a candidate that does well at "good".
Passing(c, good) == LadderPassed(c, good) \union (good \intersect Evidence)
OwnVerdict(c, good) == Passing(c, good) = Gates \union Evidence

VARIABLES
  class,          \* the class of the target
  checker,        \* a trusted code checker is configured
  flaw,           \* the checks that bytes truly fail
  active,         \* the content in force: a file version, or released bytes
  run,            \* runs on file
  stored,         \* candidates on file
  compare,           \* compare commands
  cache,          \* evaluation-cache
  reports,        \* reports on file
  made,           \* reports the evaluator made
  seen            \* history: dataset inputs the engine of a run received

evidenceVars == <<class, checker, flaw, active, run, stored, compare, cache,
          reports, made, seen>>
fixed == <<class, checker, flaw>>

NotStarted == [state |-> None]
NotComparing == [step |-> None]

EvidenceInit ==
  /\ class \in Classes /\ checker \in BOOLEAN
  /\ class # "code" => checker
  /\ flaw \in [Bytes -> {f \in Flaws : f \subseteq Checks(class)}]
  /\ active \in Files
  /\ run = [r \in Runs |-> NotStarted]
  /\ stored = {} /\ cache = {} /\ reports = {} /\ made = {}
  /\ compare = [k \in Compares |-> NotComparing]
  /\ seen = [r \in Runs |-> {}]

\* EvolutionCandidateStore.get: the first directory that has the name.
Lookup(b) ==
  LET has == {i \in DOMAIN RunOrder :
                \E c \in stored : c.run = RunOrder[i] /\ c.name = b}
      first == CHOOSE i \in has : \A j \in has : i <= j
  IN IF has = {} THEN {}
     ELSE {c \in stored : c.run = RunOrder[first] /\ c.name = b}

\* startRun up to its sealed dataset: the run pins the content it read.
Start(r) ==
  /\ run[r].state = None
  /\ \E d \in BuildDataset :
       run' = [run EXCEPT ![r] =
                 [state |-> "dataset-ready", base |-> active, data |-> d]]
  /\ UNCHANGED <<fixed, active, stored, compare, cache, reports, made, seen>>

\* The baseline is measured on the sealed dataset before the engine runs;
\* a run whose baseline is refused goes no further.
Measure(r) ==
  /\ run[r].state = "dataset-ready"
  /\ EvaluatorAccepts(run[r].data)
  /\ run' = [run EXCEPT ![r].state = "measured"]
  /\ UNCHANGED <<fixed, active, stored, compare, cache, reports, made, seen>>

\* The engine answers: each candidate is validated and stored, and the run
\* seals those without a failed constraint.
Optimize(r) ==
  /\ run[r].state = "measured"
  /\ \E sent \in SUBSET Bytes, claims \in (IF checker THEN {{}} ELSE {{}, ExecutedChecks}) :
       LET new == {[run |-> r, name |-> b, base |-> run[r].base,
                    failed |-> Failed(class, flaw[b], checker, claims)] : b \in sent}
           good == {c \in new : c.failed = {}}
           list == {c.name : c \in good}
       IN /\ stored' = stored \union new
          /\ run' = [run EXCEPT ![r] =
               [state |-> IF list = {} THEN "rejected" ELSE "shortlisted",
                base |-> run[r].base, data |-> run[r].data, list |-> list]]
  /\ seen' = [seen EXCEPT ![r] = OptimizerView(run[r].data)]
  /\ UNCHANGED <<fixed, active, compare, cache, reports, made>>

---------------------------------------------------------------------------
(* evolution compare                                                       *)

\* The plan and its digest: all of the request; a Snapshot of the candidate
\* is created once for the run, the candidate and its bytes.
Request(r, c) ==
  [run |-> r, name |-> c.name, base |-> run[r].base, data |-> run[r].data,
   list |-> run[r].list, class |-> class]

RequestBinds(r, c) == active = run[r].base /\ c.run = r

\* Mutant of Bound: any candidate of the run.
BoundToRun(q, p) == p.plan.run = q.run

\* The cache answers when its entry is bound to this very request.
Bound(q, p) == p.plan = q
Hit(q) == {e.report : e \in {f \in cache : f.key = q /\ Bound(q, f.report)}}

Compare(k) ==
  /\ compare[k] = NotComparing
  /\ \E r \in Runs : \E b \in Bytes : \E c \in Lookup(b) :
       /\ run[r].state = "shortlisted" /\ b \in run[r].list
       /\ RequestBinds(r, c)
       /\ LET q == Request(r, c) IN
          IF Hit(q) = {}
          THEN compare' = [compare EXCEPT ![k] = [step |-> "asked", plan |-> q]]
          ELSE \E p \in Hit(q) :
                 compare' = [compare EXCEPT ![k] =
                            [step |-> "answered", plan |-> q, report |-> p]]
  /\ UNCHANGED <<fixed, active, run, stored, cache, reports, made, seen>>

\* The evaluator measures what the request names.  The verdict of the
\* repository's own is the conjunction of all it measured; one behind another
\* endpoint may say yes to anything.
Evaluate(k) ==
  /\ compare[k].step = "asked"
  /\ Cardinality(made) < MaxReports
  /\ EvaluatorAccepts(compare[k].plan.data)
  /\ \E weak \in Weak : \E verdict \in {OwnVerdict(class, Measures(class) \ weak), TRUE} :
       LET good == Measures(class) \ weak IN
          made' = made \union
            {[id |-> Cardinality(made) + 1, plan |-> compare[k].plan,
              passing |-> Passing(class, good), passed |-> verdict]}
  /\ UNCHANGED <<fixed, active, run, stored, compare, cache, reports, seen>>

\* An answer arrives, which a front of several evaluators may have mixed up:
\* one that is not bound to the request fails the command, one that is goes
\* into the cache.
Answer(k) ==
  /\ compare[k].step = "asked"
  /\ \E p \in made :
       IF Bound(compare[k].plan, p)
       THEN /\ cache' = {e \in cache : e.key # compare[k].plan}
                          \union {[key |-> compare[k].plan, report |-> p]}
            /\ compare' = [compare EXCEPT ![k] =
                 [step |-> "answered", plan |-> compare[k].plan, report |-> p]]
       ELSE compare' = [compare EXCEPT ![k] = NotComparing] /\ UNCHANGED cache
  /\ UNCHANGED <<fixed, active, run, stored, reports, made, seen>>

\* recordEvolutionReport: the run is read again, by the name in the report.
Recordable(p) ==
  LET r == p.plan.run IN
  /\ run[r].state = "shortlisted" /\ p.plan.name \in run[r].list
  /\ p.plan.data = run[r].data /\ p.plan.base = run[r].base

Check(k) ==
  /\ compare[k].step = "answered"
  /\ IF Recordable(compare[k].report)
     THEN compare' = [compare EXCEPT ![k].step = "saving"]
     ELSE compare' = [compare EXCEPT ![k] = NotComparing]
  /\ UNCHANGED <<fixed, active, run, stored, cache, reports, made, seen>>

\* The run was read before the report was saved: what another command saved
\* in between is overwritten.
Record(k) ==
  /\ compare[k].step = "saving"
  /\ LET p == compare[k].report IN
     /\ reports' = reports \union {p}
     /\ run' = [run EXCEPT ![p.plan.run] =
          [state |-> "evaluated", base |-> p.plan.base, data |-> p.plan.data,
           list |-> p.plan.list, report |-> p.id, passed |-> p.passed]]
  /\ compare' = [compare EXCEPT ![k] = NotComparing]
  /\ UNCHANGED <<fixed, active, stored, cache, made, seen>>

---------------------------------------------------------------------------
(* Proposal and promotion                                                  *)

ReportOf(r) == {p \in reports : p.id = run[r].report}

ProposalBinds(r, c, p) ==
  /\ run[r].state = "evaluated" /\ run[r].passed /\ p.passed
  /\ p.plan.run = r /\ p.plan.name = c.name /\ c.run = r
  /\ c.base = run[r].base /\ p.plan.data = run[r].data
  /\ active = run[r].base

Propose(r) ==
  /\ run[r].state = "evaluated"
  /\ \E b \in Bytes : \E c \in Lookup(b), p \in ReportOf(r) :
       /\ ProposalBinds(r, c, p)
       /\ run' = [run EXCEPT ![r] =
            [state |-> "awaiting-review", base |-> run[r].base, data |-> run[r].data,
             name |-> b, report |-> p.id, from |-> p.plan.run]]
  /\ UNCHANGED <<fixed, active, stored, compare, cache, reports, made, seen>>

\* Mutant of CompleteBenchmarkEvidence: the first gate is enough.
AnyBenchmarkEvidence(p) == Gates \intersect p.passing # {}

CompleteBenchmarkEvidence(p) == Gates \subseteq p.passing
CompleteFootprintEvidence(p) == "footprints" \in p.passing
CompleteHoldoutEvidence(p) ==
  "holdout-metric" \in p.passing /\ Prints(p.plan.data, "holdout") # {}
CompleteConstraintEvidence(c) == c.failed = {}

\* The digest a promotion compares with the baseline.  While no release governs
\* the target it is the run's own, whatever the file has become.
ActiveTargetDigest(r) == IF active \in Files THEN run[r].base ELSE active

\* promotionEvidenceFailure finds nothing, and no other release governs the
\* target since the run began.
Eligible(r, c, p) ==
  /\ p.passed /\ p.plan.run = r /\ p.plan.name = c.name
  /\ p.plan.data = run[r].data /\ c.run = r /\ c.base = run[r].base
  /\ "comparison" \in p.passing
  /\ CompleteHoldoutEvidence(p)
  /\ CompleteBenchmarkEvidence(p)
  /\ CompleteFootprintEvidence(p)
  /\ CompleteConstraintEvidence(c)
  /\ ActiveTargetDigest(r) = run[r].base

\* The candidate a promotion is about is searched among the run's own, by its
\* digest.  (Of two that render alike it may be the one the report is not
\* about; then the promotion is refused.)
OfRun(r, b) == {c \in stored : c.run = r /\ c.name = b}

\* Promotion of an approved proposal; approval, canary and activation are
\* the subject of other modules.
PromoteRun(r) ==
  /\ run[r].state = "awaiting-review"
  /\ \E c \in OfRun(r, run[r].name), p \in ReportOf(r) :
       /\ Eligible(r, c, p)
       /\ active' = c.name
       /\ run' = [run EXCEPT ![r].state = "promoted"]
  /\ UNCHANGED <<fixed, stored, compare, cache, reports, made, seen>>

\* A rollback puts back what an earlier revision held for the target: the bytes
\* of a release or nothing, and then the file is in force.
RollbackRun(r) ==
  /\ run[r].state = "promoted"
  /\ run' = [run EXCEPT ![r].state = "rolled-back"]
  /\ active' \in Files \union
       {run'[q].name : q \in {p \in Runs : run'[p].state \in {"promoted", "rolled-back"}}}
  /\ UNCHANGED <<fixed, stored, compare, cache, reports, made, seen>>

\* The file changes while no release governs the target.
Edit ==
  /\ active \in Files
  /\ active' \in Files \ {active}
  /\ UNCHANGED <<fixed, run, stored, compare, cache, reports, made, seen>>

\* A restart, or the loss of an answer, ends a command; what is on file stays.
Lose(k) ==
  /\ compare[k] # NotComparing
  /\ compare' = [compare EXCEPT ![k] = NotComparing]
  /\ UNCHANGED <<fixed, active, run, stored, cache, reports, made, seen>>

EvidenceNext ==
  \/ \E r \in Runs : Start(r) \/ Measure(r) \/ Optimize(r) \/ Propose(r)
                    \/ PromoteRun(r) \/ RollbackRun(r)
  \/ \E k \in Compares : Compare(k) \/ Evaluate(k) \/ Answer(k) \/ Check(k)
                        \/ Record(k) \/ Lose(k)
  \/ Edit

EvidenceSpec == EvidenceInit /\ [][EvidenceNext]_evidenceVars
---------------------------------------------------------------------------
(* Properties                                                              *)

\* Whatever the engine claimed, whoever answered the evaluator's endpoint and
\* whatever the cache held: the bytes of a promoted run truly fail no check of
\* their class (what only a code checker can tell, when there is one), and
\* the report it was promoted on measured those bytes, for that run, on its
\* dataset, as good at every applicable gate and by every other measure.
PromotedIsProven ==
  \A r \in Runs : run[r].state = "promoted" =>
    /\ Rendered(class, flaw[run[r].name]) \intersect
         (IF checker THEN Checks(class) ELSE Checks(class) \ ExecutedChecks) = {}
    /\ \E p \in made :
         /\ p.id = run[r].report
         /\ p.plan.run = r /\ p.plan.name = run[r].name /\ p.plan.data = run[r].data
         /\ Gates \union Evidence \subseteq p.passing

\* The engine of a promoted run received no input of the holdout its report
\* was measured on, and that holdout is not empty: cases of one group, and
\* equal inputs in different groups, stay in one split through build, view
\* and evaluation.
HoldoutUnseen ==
  \A r \in Runs : run[r].state = "promoted" =>
    /\ Prints(run[r].data, "holdout") # {}
    /\ seen[r] \intersect Prints(run[r].data, "holdout") = {}

\* A compare command goes on with a report on its own request only, although
\* answers get mixed up, commands end halfway and the cache outlives both;
\* and the run a command evaluates is the one it was given.
AnswersTheRequest ==
  /\ \A k \in Compares : compare[k].step \in {"answered", "saving"} =>
       compare[k].report.plan = compare[k].plan
  /\ \A e \in cache : e.report.plan = e.key
  /\ \A p \in reports : p.plan.name \in p.plan.list
==============================================================================
