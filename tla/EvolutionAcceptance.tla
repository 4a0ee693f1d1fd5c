------------------------- MODULE EvolutionAcceptance -------------------------
(***************************************************************************)
(* The audit an organization runs before it calls the learning system      *)
(* fit for production (src/learning/evolution/acceptance): a manifest       *)
(* claims what was deployed, drilled and released, and the audit follows   *)
(* each claimed release through the stored artifacts.                      *)
(*                                                                         *)
(* A digest is the value it is taken of.  The flags of a record are the    *)
(* set of those that hold; ratios are in percent.                          *)
(***************************************************************************)
EXTENDS Naturals, Sequences, FiniteSets

None == <<>>
Unless(holds, finding) == IF holds THEN {} ELSE {finding}

\* Two records say the same under the given names.
Agree(left, right, fields) == \A f \in fields : left[f] = right[f]

---------------------------------------------------------------------------
(* What is deployed                                                        *)

CompanionKinds == {"gepa", "miprov2", "darwinian"}
CompanionFlags == {"registryPublished", "vulnerabilityScanPassed", "deploymentVerified"}

AuditCompanion(c) ==
  Unless(c.imageRef = c.imageDigest, <<"companion", c.engineKind, "digest">>)
  \union Unless(c.platforms # {}, <<"companion", c.engineKind, "platform">>)
  \union Unless(CompanionFlags \subseteq c.flags, <<"companion", c.engineKind, "deployment">>)

AuditCompanions(m) ==
  UNION {AuditCompanion(c) : c \in m.companions}
  \union {<<"companion", k, "present">> :
            k \in CompanionKinds \ {c.engineKind : c \in m.companions}}

ExecutorKinds == {"candidate-check", "evaluation-case", "broad-benchmark", "canary"}

AuditExecutors(m) ==
  {<<"executor", x.executorKind, "deployment">> :
     x \in {y \in m.executors : ~ {"deployed", "loopbackOnly"} \subseteq y.flags}}
  \union {<<"executor", k, "present">> :
            k \in ExecutorKinds \ {x.executorKind : x \in m.executors}}

\* The author of a candidate and its judge are asked over different routes,
\* and the scheduler may neither approve nor promote.
AuditGlobal(m) ==
  Unless("distributionApproved" \in m.legal, <<"darwinian", "legal">>)
  \union Unless(/\ m.routes.authoring # m.routes.evaluation
                /\ m.routes.authorized = {"authoring", "evaluation"}, <<"routes", "separation">>)
  \union Unless({"repositoryGate", "g01ThroughG25", "se01ThroughSe15"} \subseteq m.ci,
                <<"ci", "gates">>)
  \union Unless("unattended" \in m.scheduler /\ m.scheduler \intersect {"canApprove", "canPromote"} = {},
                <<"scheduler", "authority">>)

AuditCodeCampaigns(m) ==
  {<<"code-campaign", risk>> :
     risk \in {k \in {"C1", "C2"} :
                 ~ {"campaign", "knownDefectHoldout"} \subseteq m.codeCampaigns[k]}}

---------------------------------------------------------------------------
(* What a release claims of itself                                         *)

ReleaseClasses == {"skill", "tool-description", "prompt-segment", "code"}

MinimumImprovement(class) ==
  CASE class \in {"skill", "prompt-segment"} -> 10
    [] class = "tool-description" -> 5
    [] OTHER -> 0
BroadRegressionLimit(class) == IF class = "prompt-segment" THEN 0 ELSE 2

GateFlags == {"humanApproved", "phaseGatePassed", "fullChecksPassed", "canaryPassed",
              "protectedMetricsPassed", "frozenSurfacesPassed", "lineageRetained"}

AuditRelease(e) ==
  LET c == e.targetClass IN
  Unless(GateFlags \subseteq e.flags /\ e.reviewRecords > 0, <<"release", c, "gates">>)
  \union Unless(e.improvement >= MinimumImprovement(c), <<"release", c, "improvement">>)
  \union Unless(e.broadRegression <= BroadRegressionLimit(c), <<"release", c, "broad-regression">>)
  \union Unless(c # "code" \/ "knownDefectHoldoutPassed" \in e.flags,
                <<"release", c, "known-defect">>)
  \union Unless(c # "prompt-segment" \/ "independentStyleIdentityPassed" \in e.flags,
                <<"release", c, "independent-judge">>)

AuditReleases(m) ==
  UNION {AuditRelease(m.releases[i]) : i \in DOMAIN m.releases}
  \union {<<"release", c, "count">> :
            c \in {d \in ReleaseClasses :
                     Cardinality({i \in DOMAIN m.releases : m.releases[i].targetClass = d}) # 1}}

---------------------------------------------------------------------------
(* What the stores know of it                                              *)

\* An artifact that is missing, or that does not decode, is None.
Read(store, id) == IF id \in DOMAIN store THEN store[id] ELSE None

Artifacts(reader, e) ==
  LET rollback == Read(reader.releases, e.rollbackReleaseId) IN
  [release |-> Read(reader.releases, e.releaseId),
   canaryRelease |-> Read(reader.releases, e.canaryReleaseId),
   rollbackRelease |-> rollback,
   run |-> Read(reader.runs, e.runId),
   candidate |-> Read(reader.candidates, e.candidateId),
   dataset |-> Read(reader.datasets, e.datasetId),
   report |-> Read(reader.reports, e.evaluationReportId),
   proposal |-> Read(reader.proposals, e.proposalId),
   baselineSnapshot |-> Read(reader.snapshots, e.baselineSnapshotId),
   evaluationSnapshot |-> Read(reader.snapshots, e.evaluationSnapshotId),
   releaseSnapshot |-> Read(reader.snapshots, e.snapshotId),
   rollbackSnapshot |-> IF rollback = None THEN None
                        ELSE Read(reader.snapshots, rollback.snapshotId)]

ReleasesMatch(e, a) ==
  /\ a.release.id = e.releaseId /\ a.release.status = "active"
  /\ Agree(a.release, e, {"canaryReleaseId", "runId", "proposalId", "candidateId", "targetRef",
                          "targetDigest", "revisionDigest", "snapshotId", "auditCrossLinkDigest"})
  /\ a.canaryRelease.id = e.canaryReleaseId /\ a.canaryRelease.status = "canary"
  /\ Agree(a.canaryRelease, e, {"runId", "proposalId", "candidateId"})

\* The release was taken back: what was there before it is there again.
RollbackMatches(e, a) ==
  LET r == a.rollbackRelease IN
  /\ r.id = e.rollbackReleaseId /\ r.status = "active"
  /\ r.previousReleaseId = e.releaseId
  /\ Agree(r, e, {"runId", "proposalId", "candidateId"})
  /\ r.auditCrossLinkDigest = e.rollbackAuditCrossLinkDigest
  /\ r.targetDigest = a.release.previousTargetDigest
  /\ a.run.state = "rolled-back"
  /\ Agree(a.run, e, {"releaseId", "rollbackReleaseId"})

\* A candidate without materialized content is its patch.
Materialized(c) ==
  IF "materializedContent" \in DOMAIN c THEN c.materializedContent ELSE c.patch

RunAndCandidateMatch(e, a) ==
  /\ a.run.id = e.runId
  /\ Agree(a.run, e, {"targetClass", "riskClass", "targetRef", "datasetId", "datasetDigest",
                      "baselineSnapshotId"})
  /\ a.candidate.id = e.candidateId /\ a.candidate.runId = e.runId
  /\ a.candidate.targetDigest = a.run.baselineDigest
  /\ a.candidate.candidateDigest = e.targetDigest
  /\ Materialized(a.candidate) = a.candidate.candidateDigest
  /\ a.candidate.constraints # {}
  /\ \A c \in a.candidate.constraints : c.passed

RequiredReviews(risk) == IF risk \in {"C3", "C4"} THEN 2 ELSE 1

ProposalMatches(e, a) ==
  LET p == a.proposal IN
  /\ p.id = e.proposalId /\ p.status = "approved"
  /\ p.targetRef = e.targetRef /\ p.baselineDigest = a.run.baselineDigest
  /\ Cardinality(p.approvers) \in RequiredReviews(p.riskClass) .. e.reviewRecords
  /\ p.author \notin p.approvers
  /\ Agree(p, e, {"runId", "targetClass", "riskClass", "baselineSnapshotId", "evaluationReportId",
                  "datasetDigest"})
  /\ p.candidateDigest = e.targetDigest /\ p.candidateSnapshotId = e.evaluationSnapshotId

RequiredGates(class) ==
  {"target-syntax", "immutable-field-check", "permission-and-containment", "static-security",
   "focused-contract-tests", "elliott-check", "tblite-fast", "task-specific-subset",
   "task-specific-validation", "independent-holdout", "tblite-full"}
  \union (IF class \in {"prompt-segment", "code"} THEN {"yc-bench"} ELSE {})
  \union (IF class = "code" THEN {"terminalbench2"} ELSE {})

ReportMatches(m, e, a) ==
  LET p == a.report IN
  /\ p.id = e.evaluationReportId
  /\ Agree(p, e, {"runId", "candidateId", "datasetDigest", "baselineSnapshotId"})
  /\ p.holdoutDigest = a.dataset.holdoutDigest
  /\ p.candidateSnapshotId = e.evaluationSnapshotId
  /\ p.authoringRoute = m.routes.authoring /\ p.evaluationRoute = m.routes.evaluation
  /\ p.seed = a.run.optimizationSeed
  /\ {"report", "comparison"} \subseteq p.passed /\ p.samples > 0
  /\ "holdout" \in p.passedMetricSplits
  /\ RequiredGates(e.targetClass) \subseteq p.passedBenchmarks
  /\ {"prompt", "inference", "runtime"} \subseteq p.passedFootprints

SnapshotsMatch(e, a) ==
  /\ a.baselineSnapshot.id = e.baselineSnapshotId
  /\ a.evaluationSnapshot.id = e.evaluationSnapshotId
  /\ a.evaluationSnapshot.previous = e.baselineSnapshotId
  /\ a.releaseSnapshot.id = e.snapshotId
  /\ a.releaseSnapshot.previous = e.baselineSnapshotId
  /\ a.releaseSnapshot.revisionDigest = e.revisionDigest
  /\ e.targetRef \in DOMAIN a.releaseSnapshot.targets
  /\ a.releaseSnapshot.targets[e.targetRef] = e.targetDigest
  /\ a.rollbackSnapshot.id = a.rollbackRelease.snapshotId
  /\ a.rollbackSnapshot.previous = e.snapshotId

DatasetMatches(e, a) ==
  /\ "intact" \in a.dataset.flags
  /\ a.dataset.id = e.datasetId /\ a.dataset.digest = e.datasetDigest
  /\ a.dataset.targetDigest = a.run.baselineDigest

LineageFindings(m, e, a) ==
  LET of(what) == <<"release", e.targetClass, what>> IN
  Unless(ReleasesMatch(e, a), of("lineage"))
  \union Unless(RollbackMatches(e, a), of("rollback"))
  \union Unless(RunAndCandidateMatch(e, a), of("run-candidate"))
  \union Unless(ProposalMatches(e, a), of("proposal"))
  \union Unless(ReportMatches(m, e, a), of("evaluation"))
  \union Unless(SnapshotsMatch(e, a), of("snapshots"))
  \union Unless(DatasetMatches(e, a), of("dataset"))
  \union Unless(e.lineageDigest = a, of("lineage-digest"))

AuditLineage(m, reader, e) ==
  LET a == Artifacts(reader, e)
      missing == {k \in DOMAIN a : a[k] = None}
  IN  IF missing # {} THEN {<<"release", e.targetClass, k>> : k \in missing}
      ELSE LineageFindings(m, e, a)

\* auditEvolutionProductionAcceptance: the requirements that are not met.
Findings(m, reader) ==
  AuditCompanions(m) \union AuditExecutors(m) \union AuditGlobal(m)
  \union AuditCodeCampaigns(m) \union AuditReleases(m)
  \union UNION {AuditLineage(m, reader, m.releases[i]) : i \in DOMAIN m.releases}

Accepted(m, reader) == Findings(m, reader) = {}
=============================================================================
