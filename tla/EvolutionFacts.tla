--------------------------- MODULE EvolutionFacts ---------------------------
(***************************************************************************)
(* What the pure parts of the learning system promise, checked over inputs *)
(* chosen around the cases the promises are about.                         *)
(***************************************************************************)
EXTENDS Integers, Sequences, FiniteSets, TLC

A == INSTANCE EvolutionAcceptance
M == INSTANCE EvolutionMeasures
T == INSTANCE EvolutionTargets
S == INSTANCE EvolutionSignals
C == INSTANCE EvolutionControl

---------------------------------------------------------------------------
(* The acceptance audit                                                    *)

\* The artifacts of a release of class c that was evaluated, approved,
\* canaried, activated and rolled back as the protocol asks.
Story(c) ==
  LET release(id, status) ==
        [id |-> id, status |-> status, runId |-> "run", proposalId |-> "proposal",
         candidateId |-> "candidate", targetRef |-> c, targetDigest |-> "new",
         revisionDigest |-> "revision", snapshotId |-> "released", auditCrossLinkDigest |-> "link",
         canaryReleaseId |-> "canary", previousReleaseId |-> "", previousTargetDigest |-> "old"]
      snapshot(id, previous) ==
        [id |-> id, previous |-> previous, revisionDigest |-> "revision", targets |-> c :> "new"]
  IN
  [release |-> release("release", "active"),
   canaryRelease |-> release("canary", "canary"),
   rollbackRelease |->
     [release("rollback", "active") EXCEPT
        !.previousReleaseId = "release", !.targetDigest = "old", !.auditCrossLinkDigest = "back",
        !.snapshotId = "restored"],
   run |-> [id |-> "run", targetClass |-> c, riskClass |-> "C3", targetRef |-> c,
            baselineDigest |-> "old", datasetId |-> "dataset", datasetDigest |-> "sealed",
            baselineSnapshotId |-> "baseline", optimizationSeed |-> "seed",
            state |-> "rolled-back", releaseId |-> "release", rollbackReleaseId |-> "rollback"],
   candidate |-> [id |-> "candidate", runId |-> "run", targetDigest |-> "old",
                  candidateDigest |-> "new", patch |-> "new",
                  constraints |-> {[name |-> "frozen-paths", passed |-> TRUE]}],
   dataset |-> [id |-> "dataset", digest |-> "sealed", targetDigest |-> "old",
                holdoutDigest |-> "holdout", flags |-> {"intact"}],
   report |-> [id |-> "report", runId |-> "run", candidateId |-> "candidate",
               datasetDigest |-> "sealed", baselineSnapshotId |-> "baseline",
               holdoutDigest |-> "holdout", candidateSnapshotId |-> "evaluation",
               authoringRoute |-> "author", evaluationRoute |-> "judge", seed |-> "seed",
               passed |-> {"report", "comparison"}, samples |-> 9,
               passedMetricSplits |-> {"holdout"}, passedBenchmarks |-> A!RequiredGates(c),
               passedFootprints |-> {"prompt", "inference", "runtime"}],
   proposal |-> [id |-> "proposal", status |-> "approved", targetRef |-> c,
                 baselineDigest |-> "old", author |-> "engine", approvers |-> {"ann", "bob"},
                 runId |-> "run", targetClass |-> c, riskClass |-> "C3",
                 baselineSnapshotId |-> "baseline", evaluationReportId |-> "report",
                 datasetDigest |-> "sealed", candidateDigest |-> "new",
                 candidateSnapshotId |-> "evaluation"],
   baselineSnapshot |-> snapshot("baseline", ""),
   evaluationSnapshot |-> snapshot("evaluation", "baseline"),
   releaseSnapshot |-> snapshot("released", "baseline"),
   rollbackSnapshot |-> snapshot("restored", "released")]

ClaimOf(c, artifacts) ==
  [targetClass |-> c, riskClass |-> "C3", releaseId |-> "release", canaryReleaseId |-> "canary",
   rollbackReleaseId |-> "rollback", runId |-> "run", proposalId |-> "proposal",
   candidateId |-> "candidate", datasetId |-> "dataset", evaluationReportId |-> "report",
   targetRef |-> c, targetDigest |-> "new", datasetDigest |-> "sealed",
   revisionDigest |-> "revision", baselineSnapshotId |-> "baseline",
   evaluationSnapshotId |-> "evaluation", snapshotId |-> "released",
   auditCrossLinkDigest |-> "link", rollbackAuditCrossLinkDigest |-> "back",
   lineageDigest |-> artifacts, reviewRecords |-> 2, improvement |-> 10, broadRegression |-> 0,
   flags |-> A!GateFlags \union {"knownDefectHoldoutPassed", "independentStyleIdentityPassed"}]

\* Each class has stores of its own here, so that a name stands for one thing.
Stores(a) ==
  [releases |-> "release" :> a.release @@ "canary" :> a.canaryRelease
                @@ "rollback" :> a.rollbackRelease,
   runs |-> "run" :> a.run, candidates |-> "candidate" :> a.candidate,
   datasets |-> "dataset" :> a.dataset, reports |-> "report" :> a.report,
   proposals |-> "proposal" :> a.proposal,
   snapshots |-> "baseline" :> a.baselineSnapshot @@ "evaluation" :> a.evaluationSnapshot
                 @@ "released" :> a.releaseSnapshot @@ "restored" :> a.rollbackSnapshot]

TheManifest ==
  [companions |-> {[engineKind |-> k, imageRef |-> k, imageDigest |-> k, platforms |-> {"amd64"},
                    flags |-> A!CompanionFlags] : k \in A!CompanionKinds},
   executors |-> {[executorKind |-> k, flags |-> {"deployed", "loopbackOnly"}] :
                    k \in A!ExecutorKinds},
   legal |-> {"distributionApproved"},
   routes |-> [authoring |-> "author", evaluation |-> "judge",
               authorized |-> {"authoring", "evaluation"}],
   ci |-> {"repositoryGate", "g01ThroughG25", "se01ThroughSe15"},
   scheduler |-> {"unattended"},
   codeCampaigns |-> [k \in {"C1", "C2"} |-> {"campaign", "knownDefectHoldout"}],
   releases |-> [i \in 1..4 |->
     ClaimOf(<<"skill", "tool-description", "prompt-segment", "code">>[i], <<>>)]]

\* The findings on one release whose artifacts are a, in a manifest whose
\* digest of them is right.
OnRelease(c, a) ==
  A!AuditLineage(TheManifest, Stores(a), ClaimOf(c, a))

\* The links of the artifacts: what ties each of them to the others.
LineageLinks ==
  {<<"release", f>> : f \in {"id", "status", "runId", "proposalId", "candidateId", "targetRef",
     "targetDigest", "revisionDigest", "snapshotId", "auditCrossLinkDigest", "canaryReleaseId",
     "previousTargetDigest"}}
  \union {<<"canaryRelease", f>> : f \in {"id", "status", "runId", "proposalId", "candidateId"}}
  \union {<<"rollbackRelease", f>> : f \in {"id", "status", "runId", "proposalId", "candidateId",
     "targetDigest", "previousReleaseId", "auditCrossLinkDigest"}}
  \union {<<"run", f>> : f \in {"id", "targetClass", "riskClass", "targetRef", "baselineDigest",
     "datasetId", "datasetDigest", "baselineSnapshotId", "optimizationSeed", "state", "releaseId",
     "rollbackReleaseId"}}
  \union {<<"candidate", f>> : f \in {"id", "runId", "targetDigest", "candidateDigest", "patch"}}
  \union {<<"dataset", f>> : f \in {"id", "digest", "targetDigest", "holdoutDigest"}}
  \union {<<"report", f>> : f \in {"id", "runId", "candidateId", "datasetDigest",
     "baselineSnapshotId", "holdoutDigest", "candidateSnapshotId", "authoringRoute",
     "evaluationRoute", "seed"}}
  \union {<<"proposal", f>> : f \in {"id", "status", "targetRef", "baselineDigest", "runId",
     "targetClass", "riskClass", "baselineSnapshotId", "evaluationReportId", "datasetDigest",
     "candidateDigest", "candidateSnapshotId"}}
  \union {<<k, "id">> : k \in {"baselineSnapshot", "evaluationSnapshot", "releaseSnapshot",
     "rollbackSnapshot"}}
  \union {<<k, "previous">> : k \in {"evaluationSnapshot", "releaseSnapshot", "rollbackSnapshot"}}
  \union {<<"releaseSnapshot", "revisionDigest">>}

\* A story told right is accepted, each of its artifacts is needed, and none
\* of the links between two artifacts can be another one, even when the
\* manifest carries the digest of the artifacts as they are (acceptance/
\* lineage-checks.ts).
ASSUME NoLinkStandsAlone ==
  \A c \in A!ReleaseClasses :
    LET a == Story(c) IN
    /\ OnRelease(c, a) = {}
    /\ \A k \in DOMAIN a : OnRelease(c, [a EXCEPT ![k] = A!None]) # {}
    /\ \A link \in LineageLinks : OnRelease(c, [a EXCEPT ![link[1]][link[2]] = "another"]) # {}

\* What evaluated the candidate, and who approved it, is not what wrote it:
\* a report over the author's own route, an approval by the author, and one
\* approval where the risk asks for two are found (lineage-checks.ts).
ASSUME JudgedByOthers ==
  \A c \in A!ReleaseClasses :
    LET a == Story(c) IN
    /\ A!AuditGlobal([TheManifest EXCEPT !.routes.evaluation = "author"]) # {}
    /\ \A approvers \in SUBSET {"ann", "bob", "engine"} :
         OnRelease(c, [a EXCEPT !.proposal.approvers = approvers]) = {}
           <=> approvers = {"ann", "bob"}

\* A whole manifest is accepted when every class has one release of its own
\* and nothing is missing; a class with none or with two is not
\* (acceptance/audit.ts).
ASSUME OneReleaseOfEach ==
  LET local == [TheManifest EXCEPT !.releases = <<>>] IN
  /\ A!AuditCompanions(local) \union A!AuditExecutors(local) \union A!AuditGlobal(local)
       \union A!AuditCodeCampaigns(local) = {}
  /\ A!AuditReleases(TheManifest) = {}
  /\ \A i, j \in 1..4 :
       i # j => A!AuditReleases([TheManifest EXCEPT !.releases[i] = TheManifest.releases[j]]) # {}
  /\ ~ A!Accepted(local, Stores(Story("code")))

---------------------------------------------------------------------------
(* Measures                                                                *)

\* A stage that passes, one that fails, one the plan leaves out, and one
\* that another benchmark answers.
LadderStages ==
  {[ref |-> "gate", applicable |-> applicable,
    answer |-> [ref |-> ref, status |-> IF passed THEN "passed" ELSE "failed", passed |-> passed,
                baseline |-> 1, candidate |-> IF passed THEN 1 ELSE 0, cost |-> 1]] :
     applicable, passed \in BOOLEAN, ref \in {"gate", "other"}}
Ladders == UNION {[1..n -> LadderStages] : n \in 1..3}

\* Once a gate has failed no later one is asked: what it would have answered,
\* a wrong name included, changes nothing, and none of the later applicable
\* gates is taken for passed (benchmarks/ladder.ts).
ASSUME OneFailureStopsTheLadder ==
  \A stages \in Ladders : \A i \in M!Reached(stages) :
    LET others == {[stages EXCEPT ![j].answer = s.answer] :
                     j \in {k \in DOMAIN stages : k > i}, s \in LadderStages}
        results == M!LadderResults(stages)
    IN  ~ stages[i].answer.passed =>
          /\ \A other \in others :
               M!LadderFails(other) = M!LadderFails(stages) /\ M!LadderResults(other) = results
          /\ \A j \in DOMAIN stages : j > i /\ stages[j].applicable => ~ results[j].passed

\* The native gate in front of the others: of a text with an injection nobody
\* else is asked, and to every other text the ladder answers as without it
\* (benchmarks/prompt-injection.ts).
ASSUME InjectedTextAsksNobody ==
  \A stages \in Ladders :
    /\ M!Reached(<<M!InjectionStage("injected")>> \o stages) = {1}
    /\ \A content \in {"absent", "clean"} :
         LET guarded == <<M!InjectionStage(content)>> \o stages IN
         /\ \A i \in DOMAIN stages : M!LadderResults(guarded)[i + 1] = M!LadderResults(stages)[i]
         /\ M!LadderFails(guarded) = M!LadderFails(stages)

\* Gate results of a benchmark, before and after.
GateResults ==
  {[status |-> "passed", passed |-> TRUE, baseline |-> 2, candidate |-> 2, cost |-> 1],
   [status |-> "failed", passed |-> FALSE, baseline |-> 2, candidate |-> 2, cost |-> 1],
   [status |-> "skipped", passed |-> FALSE, baseline |-> 0, candidate |-> 0, cost |-> 0],
   [status |-> "not-applicable", passed |-> TRUE, baseline |-> 0, candidate |-> 0, cost |-> 0]}
GateRuns == UNION {[1..n -> GateResults] : n \in 0..3}
FullBaseline(cost) == [cases |-> 4, passed |-> 4, cost |-> cost]
Unprojected == [corrections |-> 0]

\* A release whose baseline passed every case is never called healthy when a
\* gate that counts did not pass, a skipped one included; and when none
\* counts nothing is said of it (release/monitor.ts, continuous/benchmark.ts).
ASSUME FailingGateIsARegression ==
  \A comparison, results \in GateRuns :
    LET counted == M!Counted(results)
        status == M!MonitorStatus(FullBaseline(100), comparison, M!ProjectionOf(results, Unprojected))
    IN  /\ (status = "insufficient-evidence") <=> (counted = <<>>)
        /\ (\E i \in DOMAIN counted : ~ counted[i].passed) => status = "regression"

\* A benchmark that passed asked every gate that applies, and each passed; one
\* that could not be kept on record leaves the last projection.  Passed it is
\* also when no gate applies, and then its projection says that nothing
\* succeeded, which is as weak as a target can be (continuous/benchmark.ts).
ASSUME PassedAsksEveryGate ==
  \A stages \in Ladders : \A failing \in {"nothing", "recorded", "saved"} :
    LET b == M!RecurringBenchmark(stages, Unprojected, failing)
        applicable == {i \in DOMAIN stages : stages[i].applicable}
    IN  /\ b.told = "passed" => applicable \subseteq M!Reached(stages) /\ \A i \in applicable : stages[i].answer.passed
        /\ b.told = "fails" <=> failing # "nothing" \/ \E i \in M!Reached(stages) : stages[i].answer.ref = "other"
        /\ b.told = "fails" => b.kept = Unprojected
        /\ b.told = "passed" => (b.kept.passed = 0 <=> applicable = {})

\* The cost of a case and the cost of a gate are compared as they are: where
\* the baseline measured no cost, any gate that costs something makes the
\* release a regression, although every gate does as it did.
ASSUME CostsAreNotComparable ==
  \A results \in GateRuns :
    LET counted == M!Counted(results)
        projection == M!ProjectionOf(results, Unprojected)
    IN  (counted # <<>> /\ \A i \in DOMAIN counted : counted[i].passed) =>
          /\ M!MonitorStatus(FullBaseline(0), results, projection) = "regression"
          /\ M!MonitorStatus(FullBaseline(100), results, projection) = "healthy"

\* The operator is told of a regression only once the report is stored and
\* both audit records of it are written; a step that fails leaves the later
\* ones undone (store/monitor-report.ts, release/monitor.ts).
ASSUME ToldIsOnRecord ==
  \A status \in {"healthy", "regression", "insufficient-evidence"} :
  \A failing \in {"nothing", "saved", "recorded", "regression-recorded", "told"} :
    LET done == M!DoneBefore(status, failing) IN
    /\ "told" \in done => {"saved", "recorded", "regression-recorded"} \subseteq done
    /\ status # "regression" => done \intersect {"regression-recorded", "told"} = {}
    /\ failing = "nothing" /\ status = "regression" => "told" \in done

\* The answers of an executor for two cases: of which snapshot, and with
\* which score of the one metric, if any.
AnswersOf(snapshot, values) ==
  [i \in 1..3 |-> [snapshot |-> snapshot, id |-> i,
                   split |-> <<"train", "validation", "holdout">>[i], values |-> values[i]]]
Valued == {<<>>, [score |-> 1], [score |-> 2]}
ThePlan ==
  [run |-> [id |-> "run", state |-> "shortlisted", shortlist |-> {"candidate"}, base |-> "old",
            dataset |-> "dataset", datasetDigest |-> "sealed", snapshot |-> "baseline"],
   candidate |-> [id |-> "candidate", run |-> "run", base |-> "old", passed |-> {"frozen"}],
   dataset |-> [id |-> "dataset", digest |-> "sealed", base |-> "old", holdoutSealed |-> TRUE,
                cases |-> [i \in 1..3 |->
                  [id |-> i, split |-> <<"train", "validation", "holdout">>[i]]]],
   baseline |-> "baseline", snapshot |-> "changed", author |-> "author", judge |-> "judge",
   required |-> {"frozen"}, footprints |-> [f \in M!Footprints |-> TRUE],
   metrics |-> <<[name |-> "score", maximize |-> TRUE, floor |-> 0]>>,
   stages |-> <<[ref |-> "gate", applicable |-> TRUE,
                 answer |-> [ref |-> "gate", status |-> "passed", passed |-> TRUE, baseline |-> 1,
                             candidate |-> 1, cost |-> 0]]>>]

\* A report that passed saw both snapshots, each answered for by itself, and
\* both sides have a value of the metric on every split, the holdout
\* included, where the candidate is no worse (evaluation/harness.ts).
ASSUME PassedIsMeasured ==
  \A old, new \in {"baseline", "changed"} : \A v, w \in [1..3 -> Valued] :
    LET before == AnswersOf(old, v)
        after == AnswersOf(new, w)
    IN  M!Evaluate(ThePlan, before, after, TRUE) = "passed" =>
          /\ old = "baseline" /\ new = "changed"
          /\ \A i \in 1..3 : v[i] # <<>> /\ w[i] # <<>> /\ w[i].score >= v[i].score

---------------------------------------------------------------------------
(* Targets                                                                 *)

TheTools == [t1 |-> "one", t2 |-> "two"]
Definition(ref, class, path, name, names) ==
  [ref |-> ref, class |-> class, path |-> path, toolName |-> name, toolNames |-> names,
   checkout |-> {}, targetFiles |-> {}, contractValid |-> TRUE]
Definitions ==
  {Definition("prompt", "prompt-segment", "prompt.md", T!NoName, {}),
   Definition("skill", "skill", "skill.md", T!NoName, {}),
   Definition("tool", "tool-description", "tool.md", "t1", {}),
   Definition("tool2", "tool-description", "tool.md", "t1", {}),
   Definition("catalog", "tool-description", "tools.md", T!NoName, {"t2"}),
   Definition("all", "tool-description", "tools.md", T!NoName, {"*"}),
   Definition("gone", "tool-description", "tools.md", T!NoName, {"t2", "t3"})}
ActiveOnes ==
  {<<>>, "tool" :> T!Text("better"), "prompt" :> T!Text("better"),
   "catalog" :> T!Catalog([t2 |-> "better"]), "catalog" :> T!Catalog([t1 |-> "better"]),
   "all" :> T!Catalog([t1 |-> "better", t2 |-> "best"])}
Workspaces ==
  {[files |-> [f \in {"prompt.md", "skill.md", "tool.md", "tools.md"} |-> T!Text(f)],
    outside |-> {}, tools |-> TheTools, active |-> active, definitions |-> <<d, e>>] :
     active \in ActiveOnes, d, e \in Definitions}
WellFormed(w) ==
  /\ w.definitions[1].ref # w.definitions[2].ref
  /\ \A tool \in DOMAIN w.tools : Cardinality(T!Describing(w, tool)) <= 1
  /\ Cardinality({i \in 1..2 : w.definitions[i].toolName = "t1"}) <= 1

\* What is recorded of a tool call is what the model read: where the shown
\* description comes from a definition, the digest recorded for it is of the
\* shown text or of the catalog that holds it, and it is the digest the
\* target resolves to when an operator starts a run on it
\* (application/files.ts).
ASSUME UsedIsShown ==
  \A w \in {x \in Workspaces : WellFormed(x)} : \A tool \in DOMAIN w.tools :
    LET shown == T!ShownTool(w, tool) IN
    shown # T!Failed =>
      \A use \in T!ToolUses(w, tool) :
        LET target == T!Resolve(w, use.ref) IN
        /\ \/ use.digest = shown
           \/ use.digest.kind = "catalog" /\ T!Text(use.digest.of[tool]) = shown
        /\ target # T!Failed => target.digest = use.digest

\* The same for the skills and the prompt segments, which every turn uses.
ASSUME TurnsUseWhatIsResolved ==
  \A w \in {x \in Workspaces : WellFormed(x)} : \A use \in T!TurnUses(w) :
    LET d == w.definitions[CHOOSE i \in 1..2 : w.definitions[i].ref = use.ref] IN
    use.digest = T!ShownText(w, d) /\ use.digest = T!Resolve(w, use.ref).digest

\* Two definitions of one tool's description are accepted: the model reads
\* the later one, and the call is recorded as a use of both.
ASSUME SharedToolIsRecordedTwice ==
  \E w \in Workspaces :
    /\ w.definitions[1].ref # w.definitions[2].ref
    /\ Cardinality(T!ToolUses(w, "t1")) = 2
    /\ T!ShownTool(w, "t1") # T!Failed
    /\ \E use \in T!ToolUses(w, "t1") :
         use.digest.kind = "text" /\ use.digest # T!ShownTool(w, "t1")

\* The code an operator works on is exactly the target files, whatever the
\* active revision holds, and an active revision of other files is refused.
ASSUME CodeIsItsTargetFiles ==
  \A files \in SUBSET {"a", "b", "c"} : \A targets \in SUBSET {"a", "b"} :
    LET d == [Definition("code", "code", "a", T!NoName, {}) EXCEPT
                !.checkout = {"a", "b"}, !.targetFiles = targets]
        active == [kind |-> "code", files |-> [f \in files |-> "new"], layout |-> "other"]
        w == [files |-> [f \in {"a", "b"} |-> T!Text(f)], outside |-> {}, tools |-> TheTools,
              active |-> "code" :> active, definitions |-> <<d>>]
        target == T!Resolve(w, "code")
    IN  /\ (target = T!Failed) <=> (files # targets \/ targets = {})
        /\ target # T!Failed => DOMAIN target.content.files = targets

---------------------------------------------------------------------------
(* Signals and datasets                                                    *)

\* The dataset an unattended campaign starts from meets the policy it is
\* checked against, for every class and every number of tools but one: a
\* runtime with exactly one tool has no ambiguous cases
\* (application/dataset-sources.ts, targets/datasets.ts).
ASSUME BootstrapMeetsPolicy ==
  \A class \in A!ReleaseClasses : \A tools \in 0..40 :
    S!ValidVolume(class, S!Synthetic(class, tools, S!BootstrapCount(class)))
      <=> (class = "tool-description" => tools # 1)

\* What a source is asked for and what it gives: a session without feedback
\* and an empty file resolve to no case at all, and who asks for fewer than
\* thirty cases of a tool description gets twenty, none of which has the tool
\* called (application/dataset-sources.ts; the size is checked only later).
ASSUME SourcesGiveWhatTheyHave ==
  LET tool == [class |-> "tool-description", ref |-> "t1"]
      world(tools, feedback) ==
        [tools |-> tools, sessions |-> TRUE, feedback |-> feedback, files |-> "f" :> 0]
      asked(n) == [kind |-> "synthetic", count |-> "given", number |-> n]
      some == {[id |-> 1, ref |-> "t1", run |-> "r", kind |-> "explicit-correction"]}
  IN  /\ \A n \in 0..40 : \A tools \in 2..4 :
           LET r == S!ResolveSource(tool, asked(n), world(tools, {})) IN
           /\ r.ok <=> n > 0
           /\ r.ok => S!Size(r.cases) = IF n < 30 THEN 20 ELSE n
      /\ \A feedback \in {{}, some} :
           LET r == S!ResolveSource(tool, [kind |-> "session"], world(2, feedback)) IN
           r.ok /\ (S!Size(r.cases) = 0 <=> feedback = {})
      /\ LET r == S!ResolveSource(tool, [kind |-> "golden", path |-> "f"], world(2, {})) IN
         r.ok /\ S!Size(r.cases) = 0
      /\ S!Size(S!ResolveSource(tool, [kind |-> "benchmark", of |-> "b", tasks |-> {}], world(2, {})).cases) = 1

\* A tool past the eighteenth by name has no positive case: a campaign on its
\* own description cannot tell a better one from a worse one.
ASSUME ToolsPastTheEighteenth ==
  \A tools \in 0..40 : LET d == S!Synthetic("tool-description", tools, S!BootstrapCount("tool-description")) IN
    Cardinality({i \in DOMAIN d.positive : d.positive[i] > 0}) =
      (IF tools = 0 THEN 1 ELSE IF tools < 18 THEN tools ELSE 18)

\* Calls and uses of two runs, two digests of one target.
TheCalls ==
  {[id |-> <<run, error, selected>>, run |-> run, requested |-> "t1", selected |-> selected,
    error |-> error] :
     run \in {"r1", "r2"}, error \in {S!NoError, "Timeout"}, selected \in {"t1", "t2"}}
TheUses ==
  {[run |-> run, operation |-> "t1", ref |-> "tool", digest |-> digest, outcome |-> outcome] :
     run \in {"r1", "r2"}, digest \in {"old", "new"}, outcome \in {"success", "failure"}}

\* The failures of a text are failures of runs that used that very text, and
\* of calls that ended up with the tool; whatever happened in other runs
\* changes nothing (session-store/evolution.ts).
ASSUME FailureStaysWithItsRun ==
  \A uses \in SUBSET TheUses :
    LET failures == S!FailuresOf(TheCalls, uses, "tool", "new")
        users == {u.run : u \in {v \in uses : v.digest = "new"}}
    IN  /\ \A c \in failures : c.run \in users /\ S!Operation(c) = "t1"
        /\ \A run \in {"r1", "r2"} :
             {c \in failures : c.run = run} =
               S!FailuresOf({c \in TheCalls : c.run = run}, {u \in uses : u.run = run},
                            "tool", "new")

\* One failing use of a run makes every call of the tool in that run a
\* failure, the ones that went well included.
ASSUME OneFailingUseTaintsItsRun ==
  \A run \in {"r1", "r2"} :
    LET uses == {[run |-> run, operation |-> "t1", ref |-> "tool", digest |-> "new",
                  outcome |-> outcome] : outcome \in {"success", "failure"}}
    IN  S!FailuresOf(TheCalls, uses, "tool", "new") =
          {c \in TheCalls : c.run = run /\ c.selected = "t1"}

\* Signals are made of bounded weights, and without a complaint, a failure or
\* a projection of the active text there are none (continuous/signals.ts,
\* runtime/evolution-signals.ts).
ASSUME SignalsHaveACause ==
  \A digest \in {"old", "new"} : \A success, score, corrections \in {0, 50, 100, 140} :
  \A kinds \in SUBSET {"confirmed-failure", "explicit-correction", "explicit-approval"} :
    LET target == [ref |-> "tool", risk |-> "C1", class |-> "tool-description", digest |-> "new"]
        projection == [ref |-> "tool", digest |-> digest, success |-> success, score |-> score,
                       corrections |-> corrections, samples |-> 3]
        feedback == {[id |-> k, run |-> k, ref |-> "tool", kind |-> k] : k \in kinds}
        signals == S!Signals({target}, {projection}, feedback, {}, {})
    IN  /\ \A s \in signals : s.strength \in 1..100 /\ s.impact \in 0..100 /\ s.confidence \in 0..100
        /\ (signals = {}) <=>
             /\ kinds \subseteq {"explicit-approval"}
             /\ digest = "old" \/ (success >= 100 /\ score >= 100 /\ corrections = 0)

---------------------------------------------------------------------------
(* Authority                                                               *)

SomeCapabilities ==
  {"evolution.engine.invoke", "proposal.author", "proposal.approve", "release.promote",
   "release.rollback"}

AWorld ==
  [snapshot |-> "s", controlToken |-> "token", operatorPrincipal |-> "operator",
   operatorCapabilities |-> SomeCapabilities, agentCapabilities |-> SomeCapabilities,
   continuous |-> TRUE, schedulerPrincipal |-> "scheduler", schedulerCapabilities |-> {},
   liveCapabilities |-> [kind |-> "unset"]]

SchedulerWorlds ==
  {[AWorld EXCEPT !.snapshot = snapshot, !.schedulerPrincipal = principal,
                  !.schedulerCapabilities = configured, !.liveCapabilities = live] :
     snapshot \in {"s", C!None}, principal \in {"scheduler", "operator"},
     configured \in SUBSET SomeCapabilities,
     live \in {[kind |-> "unset"]} \union {[kind |-> "set", of |-> s] : s \in SUBSET SomeCapabilities}}

DecidingOperations == {"approve", "reject", "promote", "rollback"}

\* Nobody decides about a Proposal or a release but the operator: whatever
\* capabilities the settings and the environment hand to the agent and to the
\* scheduler, and whatever a job asks for (runtime/evolution.ts,
\* runtime/evolution-scheduler.ts, continuous/operator.ts).
ASSUME OnlyTheOperatorDecides ==
  \A operation \in DecidingOperations :
    /\ \A w \in SchedulerWorlds : \A requested \in SUBSET SomeCapabilities :
         ~ C!ScheduledMay(w, requested, operation)
    /\ \A capabilities \in SUBSET SomeCapabilities :
         ~ C!AgentMay([AWorld EXCEPT !.agentCapabilities = capabilities], operation)

\* The environment read when a job fires only takes away: a capability it
\* adds to those of the boot does not let the job do more, and one it drops
\* keeps every job that asks for it from firing.
ASSUME EnvironmentOnlyTakesAway ==
  \A w \in SchedulerWorlds : \A requested \in SUBSET SomeCapabilities :
  \A operation \in C!Operations :
    LET plain == [w EXCEPT !.liveCapabilities = [kind |-> "unset"]] IN
    C!ScheduledMay(w, requested, operation) =>
      /\ C!ScheduledMay(plain, requested \intersect w.schedulerCapabilities, operation)
      /\ requested \subseteq C!CapabilitiesAtFire(w)

\* Success is answered only for what was carried out, and what was not
\* carried out is refused; but a refusal may also follow an operation that
\* began and then failed (cli/control-plane.ts).
ASSUME SuccessWasCarriedOut ==
  LET requests ==
        [method : {"POST", "GET"}, operation : C!Operations \union {"other"},
         token : {"token", "wrong"}, outcome : {"done", "authority-error", "type-error", "failed"}]
      answers == {C!ControlAnswer(AWorld, r) : r \in {q \in requests : C!CarriedOut(AWorld, q)}}
  IN  /\ \A r \in requests :
           LET answer == C!ControlAnswer(AWorld, r) IN
           /\ answer = 200 => C!CarriedOut(AWorld, r) /\ r.outcome = "done"
           /\ ~ C!CarriedOut(AWorld, r) => answer \in {400, 401, 405}
      /\ {400, 401} \subseteq answers

\* Every operation has exactly one command line (cli/index.ts).
ASSUME OneCommandEach ==
  LET words == {"evolve", "proposal", "release", "dataset", "build", "-"} \union C!Operations IN
  \A operation \in C!Operations :
    Cardinality({c \in words \X words \X {"build", "-"} :
      C!CommandOf(c) = operation /\ (operation # "dataset" => c[3] = "-")}) = 1

---------------------------------------------------------------------------
(* Engines and options                                                     *)

\* A paused run is resumed by the engine that paused it, with the very token
\* that engine gave, even when the token looks like a routed one.
ASSUME TokenReturnsToItsEngine ==
  \A class \in {"skill", "tool-description", "prompt-segment", "code"} :
  \A token \in {<<"x">>, <<"text", "x">>, <<"code", "x">>, <<"text">>} :
    C!ParseToken(C!Routed(C!Route(class), token)) = [route |-> C!Route(class), token |-> token]

\* The name an operator gives for an engine chooses nothing: any name is
\* recorded and served by the one endpoint of its class, a name nobody
\* configured as the primary kind; and a fallback that is called as the primary
\* has every run recorded as its own (application/index.ts).
ASSUME EngineNamesAreOnlyNames ==
  LET worlds == [textEngine : {"gepa-1", "shared"}, textFallback : {C!None, "mipro-1", "shared"},
                 codeEngine : {"code-1"}]
      names == {C!None, "gepa-1", "mipro-1", "shared", "unknown"}
  IN  \A w \in worlds :
        /\ \A name \in names : C!EngineFor(w, "code", name).kind = "darwinian"
        /\ C!EngineFor(w, "skill", "unknown") = [ref |-> "unknown", kind |-> "gepa"]
        /\ C!EngineFor(w, "skill", C!None).kind = "miprov2" <=> w.textFallback = w.textEngine

\* No option of a run raises a budget above what is configured.
ASSUME NoOptionRaisesABudget ==
  \A values \in {<<>>} \union (((-2)..9) \X ((-2)..9)) : \A maximum \in 1..4 :
    /\ C!Bounded(values, maximum) \in 0..maximum
    /\ (C!Bounded(values, maximum) = 0) <=> (values # <<>> /\ values[1] <= 0)

---------------------------------------------------------------------------
(* Targets that may evolve                                                 *)

Words == {"a", "b"}
Refs == UNION {[1..n -> Words] : n \in 0..3}
Patterns == UNION {[1..n -> Words \union {"*"}] : n \in 1..4}

\* What a pattern says: every star stands for some segments.
RECURSIVE Says(_, _)
Says(pattern, ref) ==
  IF pattern = <<>> THEN ref = <<>>
  ELSE IF pattern[1] = "*"
       THEN \E n \in 0..Len(ref) : Says(Tail(pattern), SubSeq(ref, n + 1, Len(ref)))
       ELSE ref # <<>> /\ ref[1] = pattern[1] /\ Says(Tail(pattern), Tail(ref))

\* A pattern with at most one star means what it says for every reference at
\* least as long as its fixed part; with a second star, what follows it is
\* not read, so that a denied reference is let through
\* (learning/evolution/config.ts).
ASSUME OneStarIsRead ==
  /\ \A pattern \in Patterns : Cardinality(C!StarsOf(pattern)) <= 1 =>
       \A ref \in Refs : Len(ref) >= Len(pattern) - 1 =>
         (C!Matches(pattern, ref) <=> Says(pattern, ref))
  /\ \E pattern \in Patterns : \E ref \in Refs :
       LET w == [allow |-> {<<"*">>}, deny |-> {pattern}] IN
       Says(pattern, ref) /\ C!Allowed(w, ref)

---------------------------------------------------------------------------
(* Code                                                                    *)

SomeFiles ==
  {[path |-> p, content |-> "c", digest |-> d] : p \in {"a", "b", "../outside"}, d \in {"c", "d"}}
Contracts ==
  [checkout : {"candidate", "tree"}, files : UNION {[1..n -> SomeFiles] : n \in 0..2},
   targets : SUBSET {"a", "b"}, commands : {{}, {"bun"}, {"bun", "sh"}},
   limits : {[cpu |-> 1, memory |-> 1], [cpu |-> 0, memory |-> 1]},
   exposed : {{}, {"network"}, {"runtime-socket"}}]

\* A contract that is accepted shows the candidate nothing of the host, and
\* each of its target files is one file of the checkout whose digest is right.
ASSUME AcceptedSandboxIsSealed ==
  \A c \in Contracts :
    C!SandboxViolation(c) = C!None =>
      /\ c.exposed = {} /\ c.commands = {"bun"} /\ c.checkout = "candidate"
      /\ \A path \in c.targets :
           \E i \in DOMAIN c.files :
             /\ c.files[i].path = path /\ c.files[i].digest = c.files[i].content
             /\ \A j \in DOMAIN c.files : c.files[j].path = path => j = i

CodeChecks ==
  [class : {"code"}, risk : {"C1", "C2", "C3", "C4"}, scheduled : BOOLEAN, unsafePatch : {FALSE},
   coverageBefore : 1..3, coverageAfter : 1..3, focusedTestPassed : {TRUE}, fullCheckPassed : {TRUE},
   before : [C!FrozenParts \union C!SecurityParts -> {1}],
   after : [C!FrozenParts \union C!SecurityParts -> {1, 2}]]

\* The limit of the scheduler and the limit of the code check agree only while
\* the configured maximum is below C3: with a higher one a job takes up code
\* targets whose every candidate the check refuses (runtime/evolution-scheduler
\* .ts, targets/code.ts).
ASSUME ScheduledCodeMayBeHopeless ==
  \A maximum \in DOMAIN C!RiskRank :
    LET taken == {c \in CodeChecks : c.scheduled /\ C!PermitsScheduling(c.risk, maximum)} IN
    (\E c \in taken : "code-risk-scheduling" \in C!CodeViolations(c)) <=> maximum \in {"C3", "C4"}

\* Candidates that are each accepted on top of the one before leave the frozen
\* and the security surface as it was at the beginning, and never lower the
\* coverage, since each is compared with what it replaces.
ASSUME AcceptedChainsKeepTheSurface ==
  LET accepted == {c \in CodeChecks : ~ c.scheduled /\ c.risk = "C3" /\ C!CodeViolations(c) = {}} IN
  \A one, next \in accepted :
    next.before = one.after /\ next.coverageBefore = one.coverageAfter
      => next.after = one.before /\ next.coverageAfter >= one.coverageBefore

---------------------------------------------------------------------------
(* Proposals as branches                                                   *)

AProposal ==
  [id |-> "p", idSafe |-> TRUE, branch |-> "p", rootContained |-> TRUE, base |-> <<"base">>,
   artifacts |-> {"file", "directory"}]
Remotes == {[main |-> <<"base">>]}
  \union {("main" :> <<"base">>) @@ ("p" :> history) :
            history \in {<<"base">>, <<"base", "p">>, <<"base", "other">>}}

\* A projection adds one branch or nothing: no other branch changes, a branch
\* it saw is left alone whatever step fails, and of one that appeared while it
\* worked no commit is lost, though the branch of somebody else is advanced
\* when it stands where the projection began (release/git-cli-projection.ts).
ASSUME ProjectionAddsOneBranch ==
  \A remote, meanwhile \in Remotes :
  \A failing \in {C!None} \union {C!GitSteps[i] : i \in DOMAIN C!GitSteps} :
  \A p \in {AProposal, [AProposal EXCEPT !.artifacts = {"file", "link"}],
            [AProposal EXCEPT !.branch = "main"], [AProposal EXCEPT !.rootContained = FALSE]} :
    LET after == C!Publish(p, remote, meanwhile, failing) IN
    /\ ~ after.temporary
    /\ after.remote["main"] = meanwhile["main"]
    /\ ~ after.done => after.remote = meanwhile
    /\ after.done => /\ "p" \notin DOMAIN remote /\ p = AProposal /\ failing = C!None
                     /\ after.remote["p"] = <<"base", "p">>
    /\ "p" \in DOMAIN meanwhile =>
         \E n \in 0..Len(after.remote["p"]) : SubSeq(after.remote["p"], 1, n) = meanwhile["p"]

\* A branch of the Proposal's name that appeared while the projection worked,
\* at the commit where it began, is pushed on though it is somebody else's.
ASSUME AdvancesAnotherBranch ==
  \E remote, meanwhile \in Remotes :
    /\ "p" \in DOMAIN meanwhile
    /\ C!Publish(AProposal, remote, meanwhile, C!None).remote["p"] # meanwhile["p"]
=============================================================================
