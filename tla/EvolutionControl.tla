--------------------------- MODULE EvolutionControl ---------------------------
(***************************************************************************)
(* Who may ask the learning system for what, and what an answer stands on   *)
(* when a service behind it is not there: the control plane, the agent's   *)
(* tools, the unattended scheduler, the engine router, the options of a    *)
(* run, the sandbox contract, and the projection of a Proposal into a      *)
(* repository (src/runtime/evolution.ts, src/runtime/evolution-scheduler   *)
(* .ts, src/learning/evolution: cli, agent-operations, application,        *)
(* engine/isolation.ts, targets/code.ts, release/git-cli-projection.ts).   *)
(*                                                                         *)
(* A world w is the settings and the moment; None is what is not there.    *)
(***************************************************************************)
EXTENDS Integers, Sequences, FiniteSets, FiniteSetsExt, SequencesExt

None == "none"

---------------------------------------------------------------------------
(* Operations and the capability each of them asks for                     *)

CapabilityOf ==
  [inspect |-> "evolution.target.read", dataset |-> "evolution.dataset.build",
   run |-> "evolution.engine.invoke", status |-> "evolution.run.read",
   pause |-> "evolution.run.cancel", resume |-> "evolution.engine.invoke",
   cancel |-> "evolution.run.cancel", compare |-> "evaluation.run",
   propose |-> "proposal.author", review |-> "proposal.read",
   approve |-> "proposal.approve", reject |-> "proposal.approve",
   promote |-> "release.promote", rollback |-> "release.rollback"]
Operations == DOMAIN CapabilityOf

\* The words of a command line; what they leave must not be empty.
CommandOf(words) ==
  LET simple == {"run", "status", "pause", "resume", "cancel", "compare", "propose"} IN
  CASE words[1] = "evolve" /\ words[2] = "inspect" -> "inspect"
    [] words[1] = "evolve" /\ words[2] = "dataset" /\ words[3] = "build" -> "dataset"
    [] words[1] = "evolve" /\ words[2] \in simple -> words[2]
    [] words[1] = "proposal" /\ words[2] \in {"review", "approve", "reject"} -> words[2]
    [] words[1] = "release" /\ words[2] \in {"promote", "rollback"} -> words[2]
    [] OTHER -> None

---------------------------------------------------------------------------
(* The operator, over HTTP                                                 *)

\* The bearer is the operator only while a Snapshot is active.
Resolved(w, request) == request.token = w.controlToken /\ w.snapshot # None

\* makeEvolutionControlPlane: the status of the answer.  request.outcome is
\* what the operation does when it is carried out.
ControlAnswer(w, request) ==
  CASE request.method # "POST" -> 405
    [] request.operation \notin Operations -> 400
    [] ~ Resolved(w, request) -> 401
    [] CapabilityOf[request.operation] \notin w.operatorCapabilities -> 401
    [] request.outcome = "done" -> 200
    [] request.outcome = "authority-error" -> 401
    [] request.outcome = "type-error" -> 400
    [] OTHER -> 500

CarriedOut(w, request) ==
  /\ request.method = "POST" /\ request.operation \in Operations /\ Resolved(w, request)
  /\ CapabilityOf[request.operation] \in w.operatorCapabilities

---------------------------------------------------------------------------
(* The agent, by its tools                                                 *)

AgentTools == {"inspect", "run", "status", "propose"}

AgentMay(w, operation) ==
  /\ operation \in AgentTools /\ w.snapshot # None
  /\ CapabilityOf[operation] \in w.agentCapabilities

---------------------------------------------------------------------------
(* The scheduler, unattended                                               *)

Forbidden == {"proposal.approve", "release.promote", "release.rollback"}
ScheduledOperations == {"inspect", "run", "resume", "compare", "propose"}

\* makeRuntimeContinuousEvolutionService: off, refused at boot, or running.
SchedulerState(w) ==
  IF ~ w.continuous THEN "off"
  ELSE IF \/ w.schedulerPrincipal \in {None, w.operatorPrincipal}
          \/ w.schedulerCapabilities = {}
          \/ w.schedulerCapabilities \intersect Forbidden # {}
       THEN "refused"
  ELSE "running"

\* What the environment says when the job fires takes the place of what was
\* configured at boot.
CapabilitiesAtFire(w) ==
  IF w.liveCapabilities.kind = "set" THEN w.liveCapabilities.of ELSE w.schedulerCapabilities

JobFires(w, requested) ==
  /\ SchedulerState(w) = "running"
  /\ requested \subseteq CapabilitiesAtFire(w) \ Forbidden

\* The operator behind it checks again, against the boot configuration.
ScheduledMay(w, requested, operation) ==
  /\ JobFires(w, requested) /\ w.snapshot # None
  /\ operation \in ScheduledOperations
  /\ CapabilityOf[operation] \in w.schedulerCapabilities \intersect requested

RiskRank == [C1 |-> 1, C2 |-> 2, C3 |-> 3, C4 |-> 4]
PermitsScheduling(risk, maximum) == RiskRank[risk] <= RiskRank[maximum]

---------------------------------------------------------------------------
(* Engines                                                                 *)

Route(class) == IF class = "code" THEN "code" ELSE "text"

\* A token is a sequence of words; the router puts its route in front and
\* takes the first word off again.
Routed(route, token) == IF token = <<>> THEN <<>> ELSE <<route>> \o token
ParseToken(token) ==
  IF Len(token) < 2 \/ token[1] \notin {"text", "code"} THEN [route |-> None, token |-> <<>>]
  ELSE [route |-> token[1], token |-> Tail(token)]

Endpoint(w, route) == IF route = "code" THEN w.darwinian ELSE w.dspy
EngineAvailable(w, class) == Endpoint(w, Route(class)) # None

\* The kind recorded for a run; every text engine is the same endpoint.
EngineFor(w, class, selected) ==
  LET primary == IF class = "code" THEN w.codeEngine ELSE w.textEngine
      ref == IF selected = None THEN primary ELSE selected
  IN  [ref |-> ref,
       kind |-> IF class = "code" THEN "darwinian"
                ELSE IF w.textFallback # None /\ ref = w.textFallback THEN "miprov2" ELSE "gepa"]

\* boundedPositiveIntegerOption: of the values given for an option the first
\* one counts; zero stands for an error.
Bounded(values, maximum) ==
  IF values = <<>> THEN maximum ELSE IF values[1] <= 0 THEN 0 ELSE Min({values[1], maximum})

\* What a service that is not configured leaves possible.
EvaluationPossible(w) == w.evaluator # None
CheckedBy(w) == IF w.checker = None THEN "the engine's own claims" ELSE "the trusted checker"
CanaryPassed(w, released, answer) ==
  w.canary # None /\ answer.ok /\ answer.passed /\ answer.snapshot = released

---------------------------------------------------------------------------
(* Targets that may evolve                                                 *)

\* A reference and a pattern are sequences of segments; of a pattern with
\* stars only what is before the first and up to the second one is read.
StarsOf(pattern) == {i \in DOMAIN pattern : pattern[i] = "*"}
Matches(pattern, ref) ==
  IF StarsOf(pattern) = {} THEN pattern = ref
  ELSE LET first == Min(StarsOf(pattern))
           rest == StarsOf(pattern) \ {first}
           last == IF rest = {} THEN Len(pattern) ELSE Min(rest) - 1
       IN  /\ IsPrefix(SubSeq(pattern, 1, first - 1), ref)
           /\ IsSuffix(SubSeq(pattern, first + 1, last), ref)

Allowed(w, ref) ==
  /\ \E p \in w.allow : Matches(p, ref)
  /\ \A p \in w.deny : ~ Matches(p, ref)

---------------------------------------------------------------------------
(* The sandbox of a code candidate                                         *)

Shells == {"bash", "sh", "zsh", "git", "curl", "docker", "sudo", "env"}
Exposures == {"network", "credentials", "remote", "active-tree", "runtime-socket"}
PathInvalid(path) == path \in {"", "/absolute", "../outside", ".", ".."}

\* SANDBOX_VALIDATIONS, in their order: the first that fails is the answer.
SandboxChecks(c) ==
  <<[of |-> "checkout", holds |-> c.checkout = "candidate"],
    [of |-> "checkout-files",
     holds |-> /\ c.files # <<>>
               /\ \A i \in DOMAIN c.files :
                    /\ ~ PathInvalid(c.files[i].path) /\ c.files[i].digest = c.files[i].content
                    /\ \A j \in DOMAIN c.files : c.files[i].path = c.files[j].path => i = j],
    [of |-> "target-files",
     holds |-> /\ c.targets # {} /\ \A path \in c.targets : ~ PathInvalid(path)
               /\ c.targets \subseteq {c.files[i].path : i \in DOMAIN c.files}],
    [of |-> "commands",
     holds |-> c.commands # {} /\ \A x \in c.commands : x # "" /\ x \notin Shells],
    [of |-> "limits", holds |-> \A r \in DOMAIN c.limits : c.limits[r] > 0],
    [of |-> "exposure", holds |-> c.exposed \intersect Exposures = {}]>>

SandboxViolation(c) ==
  LET failed == {i \in DOMAIN SandboxChecks(c) : ~ SandboxChecks(c)[i].holds} IN
  IF failed = {} THEN None ELSE SandboxChecks(c)[Min(failed)].of

\* validateEngineIsolation
EngineIsolated(e) ==
  /\ e.isolation \in {"container", "remote"} /\ e.imageByDigest
  /\ e.has \intersect {"credentials", "active-tree", "runtime-socket", "holdout"} = {}

---------------------------------------------------------------------------
(* A code candidate, before and after                                      *)

FrozenParts == {"manifest", "isolation", "signatures", "protocols", "capabilities", "fixtures"}
SecurityParts == {"markers", "destinations"}

\* validateCodeCandidate: the constraints that do not hold.  before and after
\* give every part of the surface.
CodeViolations(c) ==
  {k \in {"code-target-class", "code-risk-scheduling", "code-static-safety",
          "code-security-surface", "code-frozen-surface", "code-error-path-coverage",
          "code-focused-test", "code-full-check"} :
     CASE k = "code-target-class" -> c.class # "code"
       [] k = "code-risk-scheduling" -> c.scheduled /\ c.risk \notin {"C1", "C2"}
       [] k = "code-static-safety" -> c.unsafePatch
       [] k = "code-security-surface" -> \E p \in SecurityParts : c.before[p] # c.after[p]
       [] k = "code-frozen-surface" -> \E p \in FrozenParts : c.before[p] # c.after[p]
       [] k = "code-error-path-coverage" -> c.coverageAfter < c.coverageBefore
       [] k = "code-focused-test" -> ~ c.focusedTestPassed
       [] OTHER -> ~ c.fullCheckPassed}

---------------------------------------------------------------------------
(* A Proposal as a branch of a repository                                  *)

GitSteps == <<"clone", "switch-base", "assert-absent", "switch-branch", "configure", "copy",
              "add", "commit", "push">>

SafeProjection(p) == p.idSafe /\ p.branch = p.id /\ p.rootContained

\* The bundle is copied whole, or not at all when something of it is neither
\* a file nor a directory.
Copyable(p) == p.artifacts \subseteq {"file", "directory"}

\* The step at which the projection stops: one that fails, an existing
\* branch, a bundle that may not be copied, or a push that is not a fast
\* forward of what is there by then.  failing is a step or None.
StopsAt(p, remote, meanwhile, failing) ==
  LET stops(step) ==
        \/ step = failing
        \/ step = "assert-absent" /\ p.branch \in DOMAIN remote
        \/ step = "copy" /\ ~ Copyable(p)
        \/ step = "push" /\ p.branch \in DOMAIN meanwhile
                         /\ ~ IsPrefix(meanwhile[p.branch], Append(p.base, p.id))
  IN  {i \in DOMAIN GitSteps : stops(GitSteps[i])}

\* publishFromTemporaryClone: remote is what the clone saw, meanwhile what is
\* there when it pushes; a branch is its sequence of commits.
Publish(p, remote, meanwhile, failing) ==
  IF ~ SafeProjection(p) THEN [done |-> FALSE, remote |-> meanwhile, temporary |-> FALSE]
  ELSE IF StopsAt(p, remote, meanwhile, failing) # {}
  THEN [done |-> FALSE, remote |-> meanwhile, temporary |-> FALSE]
  ELSE [done |-> TRUE, temporary |-> FALSE,
        remote |-> [b \in DOMAIN meanwhile \union {p.branch} |->
                      IF b = p.branch THEN Append(p.base, p.id) ELSE meanwhile[b]]]
=============================================================================
