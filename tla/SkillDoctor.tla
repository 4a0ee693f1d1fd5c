----------------------------- MODULE SkillDoctor -----------------------------
(***************************************************************************)
(* The command "elliott doctor" (src/runtime/doctor): what it takes from    *)
(* the environment, how it classifies the packages it boots, the guard     *)
(* around every request made meanwhile, the one live model call, and what  *)
(* of all that reaches the printed report; and the checks a skill's own    *)
(* requests go through (src/runtime/skills/http.ts, ip-guard.ts).          *)
(*                                                                         *)
(* A text is a sequence of marks.  A text of a report is a record saying   *)
(* who wrote it, and Nothing is what is not there.                          *)
(***************************************************************************)
EXTENDS Integers, Sequences, FiniteSets, SequencesExt

Nothing == "none"

---------------------------------------------------------------------------
(* The environment                                                         *)

\* A variable that is missing or blank is not there.
Present(value) == value \notin {Nothing, "blank"}
First(values) ==
  IF \E i \in DOMAIN values : Present(values[i])
  THEN values[CHOOSE i \in DOMAIN values :
                Present(values[i]) /\ \A j \in 1..(i - 1) : ~ Present(values[j])]
  ELSE Nothing

Vendors == {"anthropic", "openai"}
Trio == {"provider", "key", "model"}
InferProvider(env) ==
  IF Present(env.anthropic) THEN "anthropic" ELSE IF Present(env.openai) THEN "openai" ELSE Nothing
VendorKeyFor(provider, env) == IF provider \in Vendors THEN First(<<env[provider]>>) ELSE Nothing
DefaultModelFor(provider) == IF provider \in Vendors THEN "smallest " \o provider ELSE Nothing

\* doctorEnvOverlay: the whole trio or nothing.
NoOverlay == [kind |-> "none"]
Overlay(env) ==
  LET provider == First(<<env.provider, InferProvider(env)>>)
      key      == First(<<env.key, VendorKeyFor(provider, env)>>)
      model    == First(<<env.model, DefaultModelFor(provider)>>)
  IN  IF \/ Nothing \in {provider, key, model}
         \/ Present(env.provider) /\ ~ Present(env.model)
      THEN NoOverlay
      ELSE [kind |-> "trio", provider |-> provider, key |-> key, model |-> model,
            defaulted |-> ~ Present(env.model)]

\* overlayResolver: what a reference to a variable resolves to.
Resolve(env, name) ==
  LET o == Overlay(env) IN
  First(<<IF o # NoOverlay /\ name \in Trio THEN o[name] ELSE env[name]>>)

\* loadRuntimeSettings under that resolver, for the shipped configuration.
Loads(env) == \A name \in Trio : Resolve(env, name) # Nothing
ShowsHint(env) == ~ Loads(env) /\ Overlay(env) = NoOverlay

\* withoutControlPlaneSecrets: the settings a skill is given.
SkillSettings(settings) ==
  (settings \ {"evolutionRuntime", "governance.killSwitchToken"})

---------------------------------------------------------------------------
(* Texts shown to the operator                                             *)

Spaces == {"newline", "space", "control"}

RECURSIVE Scrub(_, _, _)
Scrub(text, part, by) ==
  CASE Len(text) < Len(part) -> text
    [] SubSeq(text, 1, Len(part)) = part ->
         by \o Scrub(SubSeq(text, Len(part) + 1, Len(text)), part, by)
    [] OTHER -> <<text[1]>> \o Scrub(Tail(text), part, by)

\* Every recorded secret that is not blank, the longest first.
RedactSecrets(text, secrets) ==
  LET redactable == {s \in secrets : \E i \in DOMAIN s : s[i] \notin Spaces}
      ordered == SetToSortSeq(redactable, LAMBDA s, t : Len(s) > Len(t))
  IN  FoldLeft(LAMBDA out, s : Scrub(out, s, <<"redacted">>), text, ordered)

\* What follows the first blank line.
DropCodeFrame(text) ==
  LET blanks == {i \in 1..(Len(text) - 1) :
        /\ text[i] = "newline"
        /\ \E j \in (i + 1)..Len(text) :
             text[j] = "newline" /\ \A k \in (i + 1)..(j - 1) : text[k] = "space"}
  IN  IF blanks = {} THEN text
      ELSE SubSeq(text, 1, (CHOOSE i \in blanks : \A j \in blanks : i <= j) - 1)

\* From "://" to the last "@" before the end of the authority.
StripUrlUserinfo(text) ==
  LET dropped == {k \in DOMAIN text : \E i, j \in DOMAIN text :
        /\ text[i] = "://" /\ text[j] = "@" /\ i < k /\ k <= j
        /\ \A m \in (i + 1)..j : text[m] \notin Spaces \union {"/"}}
  IN  [n \in 1..(Len(text) - Cardinality(dropped)) |->
         text[CHOOSE k \in DOMAIN text \ dropped :
                Cardinality({m \in 1..k : m \notin dropped}) = n]]

FlattenLine(text) == [i \in DOMAIN text |-> IF text[i] \in Spaces THEN "space" ELSE text[i]]
OneLine(text) ==
  LET flat == FlattenLine(text)
      kept == {i \in DOMAIN flat : \/ flat[i] # "space"
                                   \/ /\ i > 1 /\ flat[i - 1] # "space"
                                      /\ \E j \in (i + 1)..Len(flat) : flat[j] # "space"}
  IN  [n \in 1..Cardinality(kept) |->
         flat[CHOOSE k \in kept : Cardinality({m \in kept : m <= k}) = n]]

ConfigErrorLine(text, secrets) ==
  OneLine(StripUrlUserinfo(DropCodeFrame(RedactSecrets(text, secrets))))
SanitizeForDisplay(text, secrets) == OneLine(StripUrlUserinfo(RedactSecrets(text, secrets)))

---------------------------------------------------------------------------
(* Packages.  A package p has a name and a gate its manifest chose, the    *)
(* directory the loader found it in, the references it declares, and what  *)
(* its entrypoint does: "none", "throws", or how many bindings it makes.   *)

IsBundled(p) == p.directory.root # "agent"
Registered(p) == p.entrypoint \notin {"none", "throws"}
Bindings(p) == IF p.entrypoint = "binds" THEN 1 ELSE 0

\* The mechanisms the loader and the skills report under: names, not places.
Reports(packages) ==
  {[of |-> p.directory, mechanism |-> p.name] : p \in {q \in packages : q.entrypoint = "throws"}}
  \union {[of |-> p.directory, mechanism |-> p.name] : p \in {q \in packages : q.reports}}
ReportedError(name, reports) == \E r \in reports : r.mechanism = name

\* parseGate: of a shape it does not know it makes a condition.
GateKind(gate) ==
  CASE gate.prefix \in {"always", Nothing} -> "always"
    [] gate.prefix = "secret" -> "secret"
    [] OTHER -> "config"
Says(what) == [by |-> "doctor", what |-> what]
GateIdentifier(gate) ==
  IF gate.prefix \in {"always", Nothing, "config alone"} THEN Says(Nothing) ELSE gate.text

\* readManifestSecretRefs: only what is shaped like a reference.
SecretRefs(p) ==
  IF p.manifest = "read" THEN {r \in p.resources : r.shape = "reference"} ELSE {}

\* classifyOutcome
Outcome(p, reports) ==
  LET trusted == IsBundled(p)
      kind    == GateKind(p.gate)
      refs    == SecretRefs(p)
      status  == IF ~ Registered(p) THEN "error"
                 ELSE IF Bindings(p) > 0 THEN "ran" ELSE "skipped"
  IN  [name |-> IF trusted THEN p.name ELSE p.directory.base,
       status |-> status, gateKind |-> kind,
       gateText |-> IF trusted THEN p.gate.text ELSE Says(kind),
       gateIdentifier |-> IF trusted THEN GateIdentifier(p.gate) ELSE Says(Nothing),
       refs |-> IF trusted THEN refs ELSE {},
       needsVendorKey |-> status = "skipped" /\ (kind = "secret" \/ refs # {}),
       error |-> IF ReportedError(p.name, reports) THEN Says("register failed")
                 ELSE Says("did not load")]

\* warningsFrom: how many reports are not of a package in error.
Notices(reports, outcomes) ==
  Cardinality({r \in reports : ~ \E o \in outcomes : o.status = "error" /\ o.name = r.mechanism})

---------------------------------------------------------------------------
(* The guard around fetch.  A URL has an origin and a path; a network maps *)
(* URLs to answers, an answer being a status and a location.               *)

NoLocation == [origin |-> Nothing, host |-> Nothing, path |-> Nothing]
RedirectStatuses == {301, 302, 303, 307, 308}
MaxRedirects == 5
DemotesToGet(status, method) == status = 303 \/ (status \in {301, 302} /\ method = "POST")
Advance(hop, answer) ==
  IF DemotesToGet(answer.status, hop.method)
  THEN [url |-> answer.location, method |-> "GET", body |-> FALSE]
  ELSE [hop EXCEPT !.url = answer.location]

\* followGuarded, from a hop that is about to be checked: the requests it
\* makes, the hosts it records, and how it ends.
RECURSIVE Follow(_, _, _, _)
Follow(network, allowed, hop, sent) ==
  IF hop.url.origin # allowed
  THEN [sent |-> sent, violations |-> {hop.url.host}, ends |-> "blocked"]
  ELSE LET answer == network[hop.url]
           made   == Append(sent, hop)
       IN  CASE answer.status \notin RedirectStatuses \/ answer.location = NoLocation ->
                  [sent |-> made, violations |-> {}, ends |-> "answered"]
             [] Len(made) > MaxRedirects -> [sent |-> made, violations |-> {}, ends |-> "too many"]
             [] OTHER -> Follow(network, allowed, Advance(hop, answer), made)

---------------------------------------------------------------------------
(* The live call and the report                                            *)

ClassifyStatus(status) ==
  CASE status \in {401, 403} -> "authentication rejected"
    [] status = 404 -> "not found"
    [] status = 408 -> "timed out"
    [] status = 429 -> "rate limited"
    [] status >= 500 -> "server error"
    [] status >= 400 -> "request rejected"
    [] OTHER -> "unexpected response"

\* probeLlm: what the call gives is a completion, a status, garbage or nothing.
Probe(call) ==
  CASE call.kind = "completion" ->
         [ok |-> ~ call.blank, phrase |-> IF call.blank THEN "empty completion" ELSE "received"]
    [] call.kind = "status" -> [ok |-> FALSE, phrase |-> ClassifyStatus(call.status)]
    [] call.kind = "decode" -> [ok |-> FALSE, phrase |-> "unreadable"]
    [] OTHER -> [ok |-> FALSE, phrase |-> "unreachable"]

\* runDoctor.  A run has packages, the requests they make while they are
\* loaded (each with its origin), and the live call.
Report(run) ==
  IF run.endpoint = "unparseable"
  THEN [ok |-> FALSE, skills |-> {}, llm |-> [ok |-> FALSE, phrase |-> "not a valid URL"],
        violations |-> {}, notices |-> 0]
  ELSE LET reports  == Reports(run.packages)
           outcomes == {Outcome(p, reports) : p \in run.packages}
           walks    == {Follow(run.network, run.endpoint, hop, <<>>) : hop \in run.requests}
           breaches == UNION {w.violations : w \in walks}
           llm      == Probe(run.call)
       IN  [ok |-> llm.ok /\ breaches = {} /\ \A o \in outcomes : o.status # "error",
            skills |-> outcomes, llm |-> llm, violations |-> breaches,
            notices |-> Notices(reports, outcomes)]

\* formatReport: the texts its lines show, the hosts only by their number.
Shown(report) ==
  LET detail(o) ==
        CASE o.status = "ran" -> {o.name}
          [] o.status = "error" -> {o.name, o.error}
          [] OTHER ->
             {o.name}
             \union (IF o.gateKind = "secret" THEN {o.gateText} ELSE {})
             \union (IF o.gateKind = "config" THEN {o.gateIdentifier} ELSE {})
             \union (IF ~ o.needsVendorKey THEN {}
                     ELSE {o.gateText} \union
                          (IF o.refs # {} THEN {r.text : r \in o.refs} ELSE {o.gateIdentifier}))
  IN  {Says(report.llm.phrase), Says("hosts blocked"), Says("notices")}
      \union UNION {detail(o) : o \in report.skills}

\* runDoctorCli: what the command leaves as its exit code.
ExitCode(env, run) ==
  IF ~ Loads(env) \/ ~ run.packagesLoad \/ ~ Report(run).ok THEN 1 ELSE 0

---------------------------------------------------------------------------
(* The requests of a skill                                                 *)

\* The reserved blocks, as octets and how many bits of them count.
Reserved ==
  {[base |-> <<0, 0, 0, 0>>, bits |-> 8], [base |-> <<10, 0, 0, 0>>, bits |-> 8],
   [base |-> <<100, 64, 0, 0>>, bits |-> 10], [base |-> <<127, 0, 0, 0>>, bits |-> 8],
   [base |-> <<169, 254, 0, 0>>, bits |-> 16], [base |-> <<172, 16, 0, 0>>, bits |-> 12],
   [base |-> <<192, 0, 0, 0>>, bits |-> 24], [base |-> <<192, 0, 2, 0>>, bits |-> 24],
   [base |-> <<192, 88, 99, 0>>, bits |-> 24], [base |-> <<192, 168, 0, 0>>, bits |-> 16],
   [base |-> <<198, 18, 0, 0>>, bits |-> 15], [base |-> <<198, 51, 100, 0>>, bits |-> 24],
   [base |-> <<203, 0, 113, 0>>, bits |-> 24], [base |-> <<224, 0, 0, 0>>, bits |-> 4],
   [base |-> <<240, 0, 0, 0>>, bits |-> 4]}
InRange(address, range) ==
  LET whole == range.bits \div 8
      unit  == 2 ^ (8 - (range.bits % 8))
  IN  /\ \A i \in 1..whole : address[i] = range.base[i]
      /\ whole < 4 => address[whole + 1] \div unit = range.base[whole + 1] \div unit
                      \/ (range.bits % 8) = 0
PrivateIpv4(address) == \E range \in Reserved : InRange(address, range)

\* validatedDestination, the name's answers being those of this lookup; <<>>
\* for a refusal.
Destination(target, answers) ==
  IF \/ target.protocol \notin {"http", "https"} \/ target.userinfo \/ target.localName
     \/ answers = <<>> \/ \E i \in DOMAIN answers : PrivateIpv4(answers[i])
  THEN <<>>
  ELSE answers[1]

\* fetchPublicUrl connects to the address of its one lookup and follows no
\* redirect; publicUrl answers whether the name may be used, and whoever
\* fetches it later looks it up again.
ConnectsTo(target, lookups) == Destination(target, lookups[1])

\* optionalInteger, in tenths, so that a number need not be whole.
OptionalInteger(tenths, bounds) ==
  IF tenths = <<>> THEN bounds.fallback
  ELSE LET whole == tenths[1] \div 10
           most == IF whole < bounds.max THEN whole ELSE bounds.max
       IN  IF most > bounds.min THEN most ELSE bounds.min
=============================================================================
