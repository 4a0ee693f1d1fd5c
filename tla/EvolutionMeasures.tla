-------------------------- MODULE EvolutionMeasures --------------------------
(***************************************************************************)
(* How the learning system measures: the ladder of benchmark gates, the    *)
(* in-process evaluation harness, the recurring benchmark of what is       *)
(* active, and the monitor that compares it with the evidence the active   *)
(* release was made on (src/learning/evolution: benchmarks, evaluation,    *)
(* continuous/benchmark.ts, release/monitor.ts).                           *)
(*                                                                         *)
(* Scores and costs are naturals; an average is a pair of a sum and the    *)
(* number it is divided by, and ratios are compared without dividing.      *)
(***************************************************************************)
EXTENDS Integers, Sequences, FiniteSets, SequencesExt

---------------------------------------------------------------------------
(* The ladder                                                              *)

\* A stage is what the plan says (ref, applicable) and what its run will
\* answer: the ref of the answer, its status and its figures.
Blocked(stages, i) ==
  \E j \in 1..(i - 1) : stages[j].applicable /\ ~ stages[j].answer.passed

Reached(stages) == {i \in DOMAIN stages : stages[i].applicable /\ ~ Blocked(stages, i)}

Unreached(status) ==
  [status |-> status, passed |-> status = "not-applicable", baseline |-> 0, candidate |-> 0,
   cost |-> 0]

\* runBenchmarkLadder: one result per stage, unless the answer of a stage is
\* another benchmark's, or a stage could not be asked.
LadderFails(stages) == \E i \in Reached(stages) : stages[i].answer.ref # stages[i].ref
LadderResults(stages) ==
  [i \in DOMAIN stages |->
     IF i \in Reached(stages)
     THEN LET a == stages[i].answer IN
          [status |-> a.status, passed |-> a.passed, baseline |-> a.baseline,
           candidate |-> a.candidate, cost |-> a.cost]
     ELSE Unreached(IF stages[i].applicable THEN "skipped" ELSE "not-applicable")]

\* The native gate in front: it reads the text and asks nobody.
InjectionStage(content) ==
  LET status == IF content = "absent" THEN "not-applicable"
                ELSE IF content = "clean" THEN "passed" ELSE "failed"
  IN  [ref |-> "prompt-injection", applicable |-> TRUE,
       answer |-> [ref |-> "prompt-injection", status |-> status, passed |-> status # "failed",
                   baseline |-> 1, candidate |-> IF status = "failed" THEN 0 ELSE 1, cost |-> 0]]

---------------------------------------------------------------------------
(* The harness                                                             *)

EvaluationSplits == {"train", "validation", "holdout"}

PlanBound(p) ==
  /\ p.run.state = "shortlisted" /\ p.candidate.id \in p.run.shortlist
  /\ p.candidate.run = p.run.id /\ p.candidate.base = p.run.base
  /\ p.dataset.id = p.run.dataset /\ p.dataset.digest = p.run.datasetDigest
  /\ p.dataset.base = p.run.base /\ p.dataset.holdoutSealed
  /\ p.baseline = p.run.snapshot /\ p.snapshot # p.baseline

\* The cases of the dataset, as an executor answered them for a snapshot.
CasesHold(p, snapshot, answers) ==
  \A i \in DOMAIN p.dataset.cases :
    /\ answers[i].snapshot = snapshot
    /\ answers[i].id = p.dataset.cases[i].id
    /\ answers[i].split = p.dataset.cases[i].split

Values(answers, split, metric) ==
  {i \in DOMAIN answers : answers[i].split = split /\ metric \in DOMAIN answers[i].values}
Total(answers, at, metric) ==
  FoldFunctionOnSet(LAMBDA a, n : a.values[metric] + n, 0, answers, at)

\* A metric holds on a split only when both sides have a value there, and
\* the candidate is not below the baseline by more than the floor allows.
MetricPasses(m, split, before, after) ==
  LET b == Values(before, split, m.name)
      a == Values(after, split, m.name)
      gain == Total(after, a, m.name) * Cardinality(b) - Total(before, b, m.name) * Cardinality(a)
  IN  /\ a # {} /\ b # {}
      /\ (IF m.maximize THEN gain ELSE - gain) >= m.floor * Cardinality(a) * Cardinality(b)

FitnessPasses(metrics, before, after) ==
  \A i \in DOMAIN metrics : \A split \in EvaluationSplits :
    MetricPasses(metrics[i], split, before, after)

\* The comparison is paired by position: it cannot be made on samples of
\* unequal number.  Which of the others it accepts is the plan's statistic.
Comparable(p, before, after) ==
  LET metric == p.metrics[1].name
      b == Values(before, "holdout", metric)
      a == Values(after, "holdout", metric)
  IN  b # {} /\ Cardinality(a) = Cardinality(b)

Footprints == {"prompt", "inference", "runtime"}

\* makeEvaluationHarness: the first check that fails stops the evaluation.
Evaluate(p, before, after, significant) ==
  CASE ~ PlanBound(p) -> "evaluation-plan-binding"
    [] p.author = p.judge -> "judge-authored-candidate"
    [] ~ (\A c \in p.required : c \in p.candidate.passed) -> "constraints"
    [] ~ (Footprints \subseteq DOMAIN p.footprints) -> "footprint-gate"
    [] ~ (CasesHold(p, p.baseline, before) /\ CasesHold(p, p.snapshot, after)) -> "snapshot-isolation"
    [] p.metrics = <<>> -> "compare"
    [] ~ Comparable(p, before, after) -> "compare"
    [] LadderFails(p.stages) -> "benchmark-result-binding"
    [] OTHER ->
         LET results == LadderResults(p.stages) IN
         IF /\ FitnessPasses(p.metrics, before, after) /\ significant
            /\ \A i \in DOMAIN results : results[i].passed
            /\ \A f \in DOMAIN p.footprints : p.footprints[f]
         THEN "passed" ELSE "failed"

---------------------------------------------------------------------------
(* The recurring benchmark                                                 *)

Sum(results, At(_)) == FoldSeq(LAMBDA r, n : At(r) + n, 0, results)
Counted(results) == SelectSeq(results, LAMBDA r : r.status # "not-applicable")

\* projectionFromResults: a gate that was skipped counts, with nothing.
ProjectionOf(results, previous) ==
  LET counted == Counted(results) IN
  [passed |-> Len(SelectSeq(counted, LAMBDA r : r.passed)),
   score |-> Sum(counted, LAMBDA r : r.candidate),
   cost |-> Sum(counted, LAMBDA r : r.cost),
   samples |-> Len(counted), corrections |-> previous.corrections]

\* runRecurringEvolutionBenchmark: what is active climbs the ladder against
\* itself; the projection is kept only after the result is on record.
RecurringBenchmark(stages, kept, failing) ==
  LET results == LadderResults(stages) IN
  IF LadderFails(stages) \/ failing \in {"recorded", "saved"} THEN [told |-> "fails", kept |-> kept]
  ELSE [told |-> IF \A i \in DOMAIN results : results[i].passed THEN "passed" ELSE "failed",
        kept |-> ProjectionOf(results, kept)]

---------------------------------------------------------------------------
(* The monitor                                                             *)

Over(sum, n) == [sum |-> sum, n |-> n]

\* regressionRatio compared with a limit in percent; from a baseline of zero
\* any step in the wrong direction is past every limit.
WithinLimit(baseline, observed, maximize, limit) ==
  LET lost == IF maximize THEN baseline.sum * observed.n - observed.sum * baseline.n
                          ELSE observed.sum * baseline.n - baseline.sum * observed.n
  IN  IF baseline.sum = 0 THEN lost <= 0
      ELSE lost * 100 <= limit * baseline.sum * observed.n

SuccessOf(b) == IF b.cases = 0 THEN Over(0, 1) ELSE Over(b.passed, b.cases)

\* The observed averages of a benchmark without a counted gate are zero.
Observed(sum, projection) ==
  IF projection.samples = 0 THEN Over(0, 1) ELSE Over(sum, projection.samples)

Metrics(b, comparison, projection) ==
  LET counted == Counted(comparison)
      benchmark == IF counted = <<>> THEN SuccessOf(b)
                   ELSE Over(Sum(counted, LAMBDA r : r.baseline), Len(counted))
  IN  [success |-> WithinLimit(SuccessOf(b), Observed(projection.passed, projection), TRUE, 0),
       benchmark |-> WithinLimit(benchmark, Observed(projection.score, projection), TRUE, 2),
       cost |-> WithinLimit(Over(b.cost, IF b.cases = 0 THEN 1 ELSE b.cases),
                            Observed(projection.cost, projection), FALSE, 20)]

MonitorBound(release, b, comparison, projection) ==
  /\ release.status = "active" /\ b.run = release.run
  /\ comparison.run = release.run /\ comparison.candidate = release.candidate
  /\ b.snapshot = comparison.baseline /\ b.dataset = comparison.dataset
  /\ projection.target = release.target /\ projection.digest = release.digest

MinimumSamples == 1
MonitorStatus(b, comparison, projection) ==
  LET m == Metrics(b, comparison, projection) IN
  IF projection.samples < MinimumSamples THEN "insufficient-evidence"
  ELSE IF m.success /\ m.benchmark /\ m.cost THEN "healthy" ELSE "regression"

\* The report is stored, then recorded, then the operator is told; a step
\* that fails ends it, and its failure is the failure of the benchmark job.
Steps(status) ==
  <<"saved", "recorded">>
  \o (IF status = "regression" THEN <<"regression-recorded", "told">> ELSE <<>>)
DoneBefore(status, failing) ==
  LET at == {i \in DOMAIN Steps(status) : Steps(status)[i] = failing} IN
  {Steps(status)[i] : i \in {j \in DOMAIN Steps(status) : \A k \in at : j < k}}

\* monitorActiveRelease: nothing happens for a target that has no release, or
\* whose release is not what the benchmark measured; one whose evidence is
\* gone fails the benchmark job.
Monitored(active, digest, stored) ==
  IF active # digest THEN "quiet"
  ELSE IF {"proposal", "baseline", "comparison"} \subseteq stored THEN "monitored" ELSE "fails"
=============================================================================
