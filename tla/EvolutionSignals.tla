--------------------------- MODULE EvolutionSignals ---------------------------
(***************************************************************************)
(* What the sessions tell the learning system: the evidence tables, the    *)
(* signals made of them, and the datasets a campaign starts from           *)
(* (src/memory/session-store/evolution.ts, src/runtime/evolution-signals   *)
(* .ts, src/learning/evolution: continuous/signals.ts, targets/datasets.ts *)
(* and application/dataset-sources.ts).                                    *)
(***************************************************************************)
EXTENDS Integers, Sequences, FiniteSets, FiniteSetsExt

NoTool == "-"
NoError == "-"

---------------------------------------------------------------------------
(* The evidence of tool calls                                              *)

\* A call is joined with every use the same run made of the operation.
Operation(call) == IF call.selected # NoTool THEN call.selected ELSE call.requested
Joined(call, uses, ref, digest) ==
  {u \in uses : u.run = call.run /\ u.operation = Operation(call) /\ u.ref = ref /\ u.digest = digest}

Misrouted(call) == call.requested # NoTool /\ call.selected # call.requested

\* toolFailureSummaryForTarget
CallsOf(calls, uses, ref, digest) == {c \in calls : Joined(c, uses, ref, digest) # {}}
FailuresOf(calls, uses, ref, digest) ==
  {c \in CallsOf(calls, uses, ref, digest) :
     \/ c.error # NoError \/ Misrouted(c)
     \/ \E u \in Joined(c, uses, ref, digest) : u.outcome = "failure"}

FeedbackOf(feedback, ref) == {f \in feedback : f.ref = ref}

---------------------------------------------------------------------------
(* Signals: a weight in percent for strength, impact and confidence        *)

Clamp(percent) == Max({0, Min({100, percent})})
Signal(target, source, strength, usage, impact, confidence) ==
  [ref |-> target.ref, risk |-> target.risk, source |-> source, strength |-> strength,
   usage |-> Max({1, usage}), impact |-> impact, confidence |-> confidence]

\* Only a projection of the very text that is active now weighs.
ProjectionSignals(target, projection) ==
  LET weakness == Max({Clamp(100 - projection.success), Clamp(projection.corrections),
                       Clamp(100 - projection.score)})
  IN  IF projection.ref # target.ref \/ projection.digest # target.digest \/ weakness = 0 THEN {}
      ELSE {Signal(target, "benchmark", weakness, projection.samples, weakness,
                   Clamp(10 * projection.samples))}

Complaints(feedback) == {f \in feedback : f.kind \in {"confirmed-failure", "explicit-correction"}}

FeedbackSignals(target, feedback) ==
  LET mine == FeedbackOf(feedback, target.ref) IN
  {Signal(target, "explicit-feedback", IF f.kind = "explicit-correction" THEN 100 ELSE 80,
          Cardinality(mine), (100 * Cardinality(Complaints(mine))) \div Cardinality(mine), 100) :
     f \in Complaints(mine)}

ToolFailureSignals(target, calls, uses) ==
  LET all == CallsOf(calls, uses, target.ref, target.digest)
      failures == FailuresOf(calls, uses, target.ref, target.digest)
  IN  IF target.class # "tool-description" THEN {}
      ELSE {Signal(target, "tool-failure", IF c.error # NoError THEN 100 ELSE 50,
                   Cardinality(all), (100 * Cardinality(failures)) \div Cardinality(all), 90) :
              c \in failures}

\* selectRuntimeEvolutionSignal: what triage chooses from.
Signals(targets, projections, feedback, calls, uses) ==
  UNION {UNION {ProjectionSignals(t, p) : p \in projections}
         \union FeedbackSignals(t, feedback) \union ToolFailureSignals(t, calls, uses) : t \in targets}

---------------------------------------------------------------------------
(* Datasets of a campaign                                                  *)

Ambiguous == 10
WithoutTool == 10
PositivesPerTool == 10
PromptScenarios == 60    \* the scenarios of targets/prompt-scenarios.ts

BootstrapCount(class) ==
  CASE class = "skill" -> 20
    [] class = "tool-description" -> 200
    [] class = "prompt-segment" -> 60
    [] OTHER -> 3

\* sizedToolEntries: the positive cases of the tools, in the order of their
\* names; the tools past the number that can have enough get none.
PositiveCases(tools, count) ==
  LET positives == Max({0, count - Ambiguous - WithoutTool})
      major == Min({tools, positives \div PositivesPerTool})
  IN  [i \in 1..tools |->
         IF i > major THEN 0
         ELSE positives \div major + (IF i <= positives % major THEN 1 ELSE 0)]

\* A dataset is how many cases it has of each kind; positives by tool.
ToolCases(tools, count) ==
  IF tools = 0
  THEN [positive |-> <<Max({0, count - Ambiguous - WithoutTool})>>,
        ambiguous |-> Min({Ambiguous, Max({0, count - WithoutTool})}),
        none |-> Min({count, WithoutTool}), other |-> 0]
  ELSE [positive |-> PositiveCases(tools, count),
        ambiguous |-> IF tools < 2 THEN 0 ELSE Ambiguous, none |-> WithoutTool, other |-> 0]

OtherCases(n) == [positive |-> <<>>, ambiguous |-> 0, none |-> 0, other |-> n]

\* makeDeterministicEvolutionSyntheticGenerator
Synthetic(class, tools, count) ==
  CASE class = "tool-description" -> ToolCases(tools, count)
    [] class = "prompt-segment" -> OtherCases(Min({count, PromptScenarios}))
    [] OTHER -> OtherCases(count)

Size(d) == SumFunction(d.positive) + d.ambiguous + d.none + d.other

ValidToolVolume(d) ==
  /\ Size(d) \in 200..400
  /\ \E i \in DOMAIN d.positive : d.positive[i] > 0
  /\ \A i \in DOMAIN d.positive : d.positive[i] = 0 \/ d.positive[i] >= PositivesPerTool
  /\ d.ambiguous >= Ambiguous /\ d.none >= WithoutTool

\* validateInitialDatasetVolume
ValidVolume(class, d) ==
  CASE class = "skill" -> Size(d) \in 15..30
    [] class = "tool-description" -> ValidToolVolume(d)
    [] class = "prompt-segment" -> Size(d) \in 60..80
    [] OTHER -> Size(d) > 0

\* One case per piece of feedback of the target, grouped by its run.
SessionCases(ref, feedback) ==
  {[id |-> f.id, group |-> f.run, expected |-> f.kind] : f \in FeedbackOf(feedback, ref)}

BenchmarkTasks(tasks) == IF tasks = {} THEN {"bootstrap"} ELSE tasks

\* resolveEvolutionDatasetSource: the cases of a source, or its failure.
NoSource == OtherCases(0)
ResolveSource(target, source, world) ==
  CASE source.kind = "synthetic" ->
         IF source.count = "bootstrap"
         THEN [ok |-> TRUE, cases |-> Synthetic(target.class, world.tools, BootstrapCount(target.class))]
         ELSE IF source.number <= 0 THEN [ok |-> FALSE, cases |-> NoSource]
         ELSE [ok |-> TRUE, cases |-> Synthetic(target.class, world.tools, source.number)]
    [] source.kind = "session" ->
         IF ~ world.sessions THEN [ok |-> FALSE, cases |-> NoSource]
         ELSE [ok |-> TRUE, cases |-> OtherCases(Cardinality(SessionCases(target.ref, world.feedback)))]
    [] source.kind = "benchmark" ->
         IF source.of = "" THEN [ok |-> FALSE, cases |-> NoSource]
         ELSE [ok |-> TRUE, cases |-> OtherCases(Cardinality(BenchmarkTasks(source.tasks)))]
    [] OTHER ->
         IF source.path \notin DOMAIN world.files THEN [ok |-> FALSE, cases |-> NoSource]
         ELSE [ok |-> TRUE, cases |-> OtherCases(world.files[source.path])]
=============================================================================
