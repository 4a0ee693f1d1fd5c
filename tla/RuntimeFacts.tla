----------------------------- MODULE RuntimeFacts -----------------------------
(***************************************************************************)
(* What the parts of the runtime without a state of their own promise,     *)
(* over every input of small worlds: SkillDoctor, KernelComponents, ChatGateways.  *)
(***************************************************************************)
EXTENDS Integers, Sequences, FiniteSets, TLC

D == INSTANCE SkillDoctor
K == INSTANCE KernelComponents
G == INSTANCE ChatGateways

---------------------------------------------------------------------------
(* The doctor's credentials                                                *)

Environments ==
  [provider : {D!Nothing, "blank", "anthropic", "openai", "other"}, key : {D!Nothing, "blank", "key"},
   model : {D!Nothing, "blank", "model"}, anthropic : {D!Nothing, "blank", "a-key"},
   openai : {D!Nothing, "o-key"}]

\* The doctor runs on a complete trio or not at all; the provider is the one
\* the operator named, the key an explicit one or that vendor's own, never the
\* other vendor's, and a model is chosen for nobody who named a provider.
ASSUME CredentialsAreOnesOwn ==
  \A env \in Environments :
    D!Loads(env) =>
      LET provider == D!Resolve(env, "provider")
          key      == D!Resolve(env, "key")
      IN  /\ D!Present(env.provider) => provider = env.provider
          /\ key \in {"key", IF provider = "anthropic" THEN "a-key" ELSE "o-key"}
          /\ D!Resolve(env, "model") # "model" => ~ D!Present(env.provider)

\* A blank variable is one that is not set: neither what runs nor the hint to
\* set the keys tells them apart (doctor/cli.ts).
ASSUME BlankIsAbsent ==
  \A env \in Environments :
    LET bare == [n \in DOMAIN env |-> IF env[n] = "blank" THEN D!Nothing ELSE env[n]] IN
    /\ \A name \in D!Trio : D!Resolve(env, name) = D!Resolve(bare, name)
    /\ D!ShowsHint(env) = D!ShowsHint(bare)

---------------------------------------------------------------------------
(* What the doctor prints                                                  *)

Secrets == {<<"s">>, <<"s", "t">>, <<"u", "newline", "newline", "v">>}
Pieces == Secrets \union {<<"p">>, <<"newline">>, <<"newline", "newline">>, <<"control">>}
SecretTexts == {a \o b \o c : a, b, c \in Pieces}
UrlPieces == {<<"://">>, <<"w">>, <<"w", "@">>, <<"/">>, <<"space">>, <<"newline", "newline">>}
UrlTexts == {a \o b \o c \o d : a, b, c, d \in UrlPieces}

\* No part of a recorded secret is left of a configuration error, a secret of
\* several lines or one that begins another secret included, and the error
\* stays on one line (doctor/message.ts, doctor/cli.ts: the order matters).
ASSUME ErrorKeepsNoSecret ==
  \A text \in SecretTexts :
    \A line \in {D!ConfigErrorLine(text, Secrets), D!SanitizeForDisplay(text, Secrets)} :
      \A i \in DOMAIN line : line[i] \notin {"s", "t", "u", "v", "newline", "control"}

\* Of a URL in it nothing stays that stood before the last "@" of its
\* authority.
ASSUME ErrorKeepsNoUserinfo ==
  \A text \in UrlTexts :
    LET line == D!ConfigErrorLine(text, {}) IN
    \A i, j \in DOMAIN line :
      i < j /\ line[i] = "://" /\ line[j] = "@" =>
        \E k \in (i + 1)..j : line[k] \in {"/", "space"}

By(who, what) == [by |-> who, what |-> what]
PackagesOf(root, author, base) ==
  [name : {By(author, "x"), By("loader", base)}, directory : {[root |-> root, base |-> By("loader", base)]},
   gate : {[prefix |-> p, text |-> By(author, "gate")] : p \in {D!Nothing, "secret", "config", "config alone"}},
   manifest : {"read"}, resources : {{}, {[shape |-> "reference", text |-> By(author, "ref")]}},
   entrypoint : {"none", "throws", "binds", "empty"}, reports : {FALSE}]
BundledPackages == PackagesOf("framework", "bundle", "b")
LocalPackages == PackagesOf("agent", "agent", "l")

Llm == [origin |-> "https://llm", host |-> "llm", path |-> "/"]
Urls == {Llm, [Llm EXCEPT !.path = "/v1"], [Llm EXCEPT !.origin = "http://llm"],
         [Llm EXCEPT !.origin = "https://other", !.host = "other"]}
Received == [kind |-> "completion", blank |-> FALSE]
ARun ==
  [endpoint |-> Llm.origin, packages |-> {}, packagesLoad |-> TRUE, call |-> Received,
   requests |-> {}, network |-> [u \in Urls |-> [status |-> 200, location |-> D!NoLocation]]]
RunsOfTwo == {[ARun EXCEPT !.packages = {b, l}] : b \in BundledPackages, l \in LocalPackages}

\* No text an agent-local manifest chose is printed, whatever its package does
\* and whatever name it takes (doctor/gate.ts, doctor/format.ts).
ASSUME UntrustedTextIsNotShown ==
  \A run \in RunsOfTwo : \A text \in D!Shown(D!Report(run)) : text.by # "agent"

\* What a row says of a package is of that package: another one of the same
\* name changes neither its status nor what must be supplied, and the run
\* fails when a package did not load (doctor/harness.ts, skills/loader.ts).
ASSUME RowsAreTheirOwn ==
  \A run \in RunsOfTwo :
    LET report == D!Report(run) IN
    /\ \A p \in run.packages : LET alone == D!Outcome(p, D!Reports({p})) IN
         \E o \in report.skills : [o EXCEPT !.error = alone.error] = alone
    /\ report.ok <=> \A p \in run.packages : p.entrypoint \in {"binds", "empty"}

\* The reports are told apart by name: a package whose manifest gives it the
\* name of another takes part in that one's row, and of an agent-local package
\* that failed under a name other than its directory's the failure is counted
\* a second time, as something that is not fatal.
ASSUME ReportsGoByName ==
  LET b == [name |-> By("bundle", "x"), directory |-> [root |-> "framework", base |-> By("loader", "b")],
            gate |-> [prefix |-> "secret", text |-> By("bundle", "gate")], manifest |-> "read",
            resources |-> {}, entrypoint |-> "none", reports |-> FALSE]
      l == [b EXCEPT !.directory = [root |-> "agent", base |-> By("loader", "l")], !.entrypoint = "throws"]
      report == D!Report([ARun EXCEPT !.packages = {b, l}])
      local  == D!Report([ARun EXCEPT !.packages = {l}])
  IN  /\ \A o \in report.skills : o.error = D!Says("register failed")
      /\ local.notices = 1 /\ \A o \in local.skills : o.status = "error"

---------------------------------------------------------------------------
(* The requests made while the doctor runs                                 *)

Answers ==
  {[status |-> 200, location |-> D!NoLocation], [status |-> 302, location |-> D!NoLocation]}
  \union [status : {301, 303, 307}, location : Urls]
Networks ==
  {[u \in Urls |-> IF u.origin = Llm.origin THEN f[u] ELSE [status |-> 200, location |-> D!NoLocation]] :
     f \in [{u \in Urls : u.origin = Llm.origin} -> Answers]}
Hops == {[url |-> u, method |-> m, body |-> m = "POST"] : u \in Urls, m \in {"GET", "POST"}}

\* Of no request, and of no redirect it is answered with, a hop reaches
\* another origin, the same host over another scheme included; what tried to
\* fails the run even when the skill keeps the error to itself; and the body
\* of a request is sent on only with its method (doctor/egress.ts).
ASSUME NoHopLeavesTheOrigin ==
  \A network \in Networks : \A hop \in Hops :
    LET walk == D!Follow(network, Llm.origin, hop, <<>>) IN
    /\ \A i \in DOMAIN walk.sent : LET h == walk.sent[i] IN
         h.url.origin = Llm.origin /\ h.body = (h.method = "POST")
    /\ Len(walk.sent) <= D!MaxRedirects + 1
    /\ walk.ends = "blocked" =>
         ~ D!Report([ARun EXCEPT !.network = network, !.requests = {hop}]).ok

\* A completion with text in it is the one thing that passes, and what the
\* endpoint answered is told by a phrase of the doctor's own (doctor/probe.ts).
ASSUME OnlyACompletionPasses ==
  LET phrases == {"authentication rejected", "not found", "timed out", "rate limited",
                  "server error", "request rejected", "unexpected response"} IN
  /\ \A status \in 100..599 :
       LET probe == D!Probe([kind |-> "status", status |-> status]) IN
       ~ probe.ok /\ probe.phrase \in phrases
  /\ \A kind \in {"decode", "thrown"} : ~ D!Probe([kind |-> kind]).ok
  /\ ~ D!Probe([kind |-> "completion", blank |-> TRUE]).ok

---------------------------------------------------------------------------
(* The requests of a skill                                                 *)

Octets == {0, 10, 63, 64, 88, 99, 100, 127, 128, 168, 172, 192, 198, 223, 224, 240, 255}
Addresses == Octets \X Octets \X {0, 2, 99} \X {1}

\* The reserved blocks do not overlap: an address is public or in one block.
ASSUME BlocksAreApart ==
  \A a \in Addresses : Cardinality({r \in D!Reserved : D!InRange(a, r)}) <= 1

\* A request is connected to an address its own lookup gave, which is public
\* as all the others of that lookup are, whatever the name answers afterwards
\* (skills/http.ts).
ASSUME ConnectsWhereItChecked ==
  LET public == <<8, 8, 8, 8>>
      private == <<10, 0, 0, 1>>
      lookups == {<<>>, <<public>>, <<private>>, <<public, private>>, <<private, public>>}
  IN  \A first, later \in lookups : \A protocol \in {"http", "https", "file"} :
      \A userinfo, localName \in BOOLEAN :
        LET target == [protocol |-> protocol, userinfo |-> userinfo, localName |-> localName]
            to == D!ConnectsTo(target, <<first, later>>)
        IN  to # <<>> => to = public /\ first = <<public>> /\ ~ userinfo /\ ~ localName

\* A number a model gave is brought within its bounds, and a whole number.
ASSUME IntegersAreBounded ==
  \A n \in {<<>>} \union {<<k>> : k \in (-50)..150} : \A lo \in 0..3 : \A hi \in lo..9 :
    D!OptionalInteger(n, [min |-> lo, max |-> hi, fallback |-> hi]) \in lo..hi

---------------------------------------------------------------------------
(* The registry of components                                              *)

Entries ==
  {[scope |-> [level |-> l, id |-> n], pinned |-> p, kind |-> k, availability |-> "available",
    protocols |-> {"run"}] :
     l \in {"session", "workspace", "organization", "builtin"}, n \in {1, 2}, p \in BOOLEAN,
     k \in {"tool", "policy"}}
EntryLists == {<<>>} \union {<<a>> : a \in Entries} \union {<<a, b>> : a, b \in Entries}

\* A component the organization pinned, or one that decides about security, is
\* never replaced by one of a narrower scope: what was selected stays selected
\* or the name is refused (core/registry/registry.ts).
ASSUME PinnedIsNotReplaced ==
  \A list \in EntryLists : \A e \in Entries :
    LET before == K!Resolve(list)
        after  == K!Resolve(Append(list, e))
    IN  before.kind = "selected" /\ K!IsPinned(list) /\ ~ K!Wide(e)
          => after.kind = "shadowed"

\* What is not pinned is resolved to the narrowest scope, whatever the order of
\* registration; only between two of one level does the order decide.
ASSUME NarrowestIsSelected ==
  /\ \A a, b \in Entries :
       LET one == K!Resolve(<<a, b>>)  other == K!Resolve(<<b, a>>) IN
       /\ a.scope.level # b.scope.level => one = other
       /\ a.scope.level = "session" /\ b.scope.level # "session" /\ ~ K!IsPinned(<<a, b>>) => one.entry = a
       /\ a.scope.level = "organization" /\ b.scope.level = "builtin" => one.entry = a
  /\ \A a, b \in Entries :
       K!Accepts(<<a>>, b) /\ a.scope.level = b.scope.level /\ ~ K!IsPinned(<<a, b>>) =>
         K!Resolve(<<a, b>>).entry = a

\* A call is prepared from the entry that is selected and from no other: a
\* narrower entry that speaks another protocol takes the name out of service
\* for the protocol of the wider one (core/registry/discovery.ts).
ASSUME NarrowerEntriesTakeOver ==
  \A a, b \in Entries :
    LET other == [b EXCEPT !.protocols = {"stream"}] IN
    K!Accepts(<<a>>, b) /\ ~ K!IsPinned(<<a, b>>) =>
      (K!Prepares(<<a, other>>, "run") <=> ~ K!Prepares(<<a, other>>, "stream"))
      /\ (K!RankOf(b) < K!RankOf(a) => ~ K!Prepares(<<a, other>>, "run"))

\* One name that is shadowed fails every search, also for all others
\* (core/registry/discovery.ts: #resolvedEntries resolves them all).
ASSUME OneShadowFailsTheSearch ==
  \A a, b \in Entries :
    LET registry == [x |-> <<a>>, y |-> <<a, b>>] IN
    K!Search(registry).kind = "fails" <=>
      \/ K!IsPinned(<<a>>) /\ ~ K!Wide(a)
      \/ K!IsPinned(<<a, b>>) /\ ~ (K!Wide(a) /\ K!Wide(b))

---------------------------------------------------------------------------
(* Discovery                                                               *)

Descriptors ==
  {[ref |-> r, package |-> p, schemas |-> <<"s">>, root |-> t, contract |-> "c", isolation |-> 2, floor |-> 2] :
     r \in {"x", "y"}, p \in {"p", "q"}, t \in {"t", "u"}}
Scanned(s, steps, truth) ==
  LET RECURSIVE After(_, _)
      After(state, rest) ==
        IF rest = <<>> THEN state
        ELSE After(K!Scan(state, rest[1].of, rest[1].logic, truth, TRUE), Tail(rest))
  IN  After(s, steps)
ScanSteps == [of : Descriptors, logic : {1, 2}]

\* The cache changes no verdict: after any scans of packages under changing
\* trust roots and validation logic a name is available exactly when the
\* package scanned last under it passes (core/discovery).
ASSUME CacheChangesNoVerdict ==
  \A truth \in SUBSET {<<d.package, d.schemas, d.root, l>> : d \in {f \in Descriptors : f.ref = "x" /\ f.package = "p"}, l \in {1, 2}} :
  \A a, b, c \in {s \in ScanSteps : s.of.ref = "x" \/ s.of.package = "p"} :
    LET s == Scanned(K!NoneFound, <<a, b, c>>, truth) IN
    K!Found(s, c.of.ref) = "available" <=> K!Passes(c.of, c.logic, truth)

\* But a verdict outlives what it did not depend on: a package scanned again
\* under a lower isolation keeps its verdict, one whose contract once did not
\* match stays quarantined when its descriptor declares the right one, and a
\* name whose quarantine could not be recorded stays available.
ASSUME VerdictsOutlive ==
  LET d     == CHOOSE f \in Descriptors : f.ref = "x" /\ f.package = "p" /\ f.root = "t"
      truth == {<<"p", d.schemas, "t", 1>>}
      one   == K!Scan(K!NoneFound, d, 1, truth, TRUE)
      low   == [d EXCEPT !.isolation = 1]
      wrong == K!Instantiate(one, d, 1, "other", TRUE)
      right == [d EXCEPT !.contract = "other"]
      lost  == K!Scan(one, [d EXCEPT !.package = "q"], 1, truth, FALSE)
  IN  /\ ~ K!Passes(low, 1, truth) /\ K!Found(K!Scan(one, low, 1, truth, TRUE), "x") = "available"
      /\ ~ K!Runs(one, d, "other") /\ K!Found(wrong, "x") = "unavailable"
      /\ K!Passes(right, 1, truth) /\ K!Found(K!Scan(wrong, right, 1, truth, TRUE), "x") = "unavailable"
      /\ K!Found(lost, "x") = "available"

---------------------------------------------------------------------------
(* Operations that overlap                                                 *)

\* Every state of an instance that can be reached, with two closes at most.
RECURSIVE InstancesFrom(_, _)
InstancesFrom(seen, frontier) ==
  IF frontier = {} THEN seen
  ELSE LET next == {t \in UNION {K!InstanceSteps(s) : s \in frontier} : t.closing <= 2} \ seen IN
       InstancesFrom(seen \union next, next)
InstanceStates == InstancesFrom({K!Created}, {K!Created})

\* The grant of an instance is given back once, and when it is closed or
\* failed it was, whatever overlaps (core/component/component.ts).
ASSUME GrantIsGivenBackOnce ==
  \A s \in InstanceStates :
    s.given <= 1 /\ (s.at \in {"closed", "failed"} => s.given = 1)

\* Failed is not final, though no transition leaves it: a failure while the
\* hook of opening runs is overtaken by it, and the instance is open without
\* its grant; likewise a second close can fail what the first one closed.
ASSUME FailedIsOvertaken ==
  /\ \A s \in InstanceStates :
       s.at = "open" /\ s.released => \E t \in InstanceStates :
         t.at = "failed" /\ t.opening = 1 /\ s \in K!OpenEnds(t)
  /\ \E s \in InstanceStates : s.at = "open" /\ s.released
  /\ \E s \in InstanceStates : s.at = "closed" /\ \E t \in K!CloseEnds(s) : t.at = "failed"

\* A Snapshot that was handed out is there after every restart, and nothing
\* else is; one whose file could not be written stays in the list until then,
\* though its create threw (core/snapshot/snapshot.ts).
RECURSIVE SnapshotsAfter(_, _)
SnapshotsAfter(s, steps) ==
  IF steps = <<>> THEN s
  ELSE LET e == Head(steps) IN
       SnapshotsAfter(IF e.end = "reopen" THEN K!Reopen(s, {}) ELSE K!Create(s, e.input, e.now, e.end), Tail(steps))
SnapshotSteps == [input : {"a", "b"}, now : {1}, end : {"written", "fails", "stops", "reopen"}]
ASSUME SnapshotsSurvive ==
  \A steps \in [1..3 -> SnapshotSteps] :
    LET s == SnapshotsAfter(K!NoSnapshots, steps) IN
    /\ s.told = s.file /\ K!Reopen(s, {}).memory = s.told
    /\ s.up => \A id \in s.memory \ s.file : \E n \in 1..3 : steps[n].end = "fails" /\ K!SnapshotId(steps[n].input, 1) = id
    /\ steps[3].end = "fails" /\ s.up => K!SnapshotId(steps[3].input, 1) \in s.memory
    /\ \A id \in s.file : ~ K!Reopen(s, {id}).up

RECURSIVE KernelsFrom(_, _)
KernelsFrom(seen, frontier) ==
  IF frontier = {} THEN seen
  ELSE LET next == {k \in UNION {K!KernelSteps(j) : j \in frontier} :
                      k.starting + k.stopping <= 2 /\ k.starts <= 2 /\ k.stops <= 2} \ seen IN
       KernelsFrom(seen \union next, next)

\* Starts and stops on record tell how often the kernel was started and stopped
\* only while none of them overlap: two starts that do are both recorded, and
\* none is told that the kernel was started already (kernel.ts).
ASSUME StartsAlternateWhenAlone ==
  LET kernels == KernelsFrom({K!NewKernel}, {K!NewKernel})
      alone   == {k \in kernels : k.starting + k.stopping <= 1}
      quiet   == LET RECURSIVE Reached(_)
                     Reached(seen) ==
                       LET next == (UNION {K!KernelSteps(k) : k \in seen} \intersect alone) \ seen IN
                       IF next = {} THEN seen ELSE Reached(seen \union next)
                 IN  Reached({K!NewKernel})
  IN  /\ \A k \in quiet : k.starts - k.stops = IF k.started THEN 1 ELSE 0
      /\ \E k \in kernels : k.starts = 2 /\ k.stops = 0
      /\ \E k \in kernels : k.started /\ k.starts = k.stops

Deliveries ==
  [key : {"k"}, routed : {TRUE}, verified : BOOLEAN, principal : {"p", K!Nothing}, authorized : BOOLEAN]
RECURSIVE InboundFrom(_, _)
InboundFrom(seen, frontier) ==
  IF frontier = {} THEN seen
  ELSE LET next == UNION {K!InboundSteps(s) : s \in frontier} \ seen IN
       InboundFrom(seen \union next, next)
InboundStates(a, b) ==
  LET start == [at |-> <<"new", "new">>, of |-> <<a, b>>, seen |-> {}] IN
  InboundFrom({start}, {start})

\* What the pipeline accepts passed every check, and a delivery that comes
\* after another of its key was accepted is a duplicate; but two that overlap
\* are both accepted, and one whose attachments could not be stored makes a
\* duplicate of its own retry (gateway/index.ts: the key is seen before the
\* quarantine, and looked up before the checks).
ASSUME AcceptedWasChecked ==
  \A a, b \in Deliveries : \A s \in InboundStates(a, b) :
    /\ \A i \in {1, 2} : s.at[i] = "accepted" => K!Verdict(s.of[i]) = "accepted"
    /\ s.at[1] = "accepted" /\ s.at[2] = "new" =>
         \A t \in InboundFrom({s}, {s}) : t.at[2] # "accepted"
ASSUME OverlappingDuplicates ==
  LET good == [key |-> "k", routed |-> TRUE, verified |-> TRUE, principal |-> "p", authorized |-> TRUE]
      states == InboundStates(good, good)
  IN  /\ \E s \in states : s.at = <<"accepted", "accepted">>
      /\ \E s \in states : s.at = <<"failed", "duplicate">>

\* Nothing is delivered without its intent on record; a delivery whose receipt
\* could not be recorded is told as a failure though it took place.
ASSUME IntentBeforeDelivery ==
  \A routed \in BOOLEAN : \A failing \in {K!Nothing} \union {K!OutboundSteps[n] : n \in 1..4} :
    LET o == K!Outbound(routed, failing) IN
    /\ "deliver" \in o.done => "intent" \in o.done /\ routed
    /\ o.told => "deliver" \in o.done
    /\ ~ o.told /\ "deliver" \in o.done <=> routed /\ failing = "receipt"

---------------------------------------------------------------------------
(* Turns and agents                                                        *)

\* The cached part of a prompt is the same whatever is remembered or found, and
\* every segment is there once, classified by the highest of all; the order in
\* which segments of different purposes are given makes no difference.
Segments == [purpose : {"runtime", "task", "memory", "evidence"}, class : {0, 2}, tags : {{}, {1}}]
ASSUME MemoryKeepsThePrefix ==
  \A a, b, c \in Segments :
    LET p == K!AssemblePrompt(<<a, b, c>>)
        quiet == SelectSeq(<<a, b, c>>, LAMBDA s : ~ K!Volatile(s))
    IN  /\ p.stable = K!AssemblePrompt(quiet).stable
        /\ \A i \in DOMAIN p.volatile : K!Volatile(p.volatile[i])
        /\ \A i \in DOMAIN p.stable : p.stable[i].purpose \notin {"memory", "evidence"}
        /\ Len(p.stable) + Len(p.volatile) = 3
        /\ \A s \in {a, b, c} : p.class >= s.class /\ \A t \in s.tags : p.class >= t
        /\ a.purpose # b.purpose => K!AssemblePrompt(<<b, a, c>>) = p

Mutations ==
  [action : {"add", "remove", "replace"}, document : {"MEMORY.md"}, words : {{"x"}, {"x", "y"}},
   class : {"public"}, match : {"y", K!Nothing}]
  \union [action : {"add"}, document : {"USER.md"}, words : {{"x", "y"}}, class : {"public"}, match : {K!Nothing}]
Budget == [d \in {"MEMORY.md", "USER.md"} |-> IF d = "USER.md" THEN 2 ELSE 3]
Blank == [entries |-> <<>>, stored |-> <<>>, told |-> TRUE]
RECURSIVE Curated(_, _, _)
Curated(s, steps, posture) ==
  IF steps = <<>> THEN s
  ELSE Curated(K!Mutate(s, Head(steps).of, posture, Budget, Head(steps).saves), Tail(steps), posture)

\* No document outgrows its budget, a mutation of one leaves the other as it
\* was, and what was told as kept is stored; what could not be saved is in
\* force all the same, until a restart (memory/curated/index.ts: mutate).
ASSUME DocumentsKeepTheirBudget ==
  \A a, b, c \in Mutations : \A posture \in {"standard", "hardened"} : \A saves \in BOOLEAN :
    LET before == Curated(Blank, <<[of |-> a, saves |-> TRUE], [of |-> b, saves |-> saves]>>, posture)
        after  == K!Mutate(before, c, posture, Budget, TRUE)
        other(s) == SelectSeq(s.entries, LAMBDA e : e.document # c.document)
    IN  /\ \A d \in DOMAIN Budget : K!RenderedLength(after.entries, d) <= Budget[d]
        /\ other(after) = other(before)
        /\ after.told => after.stored = after.entries
        /\ ~ after.told => after = [before EXCEPT !.told = FALSE]
        /\ before.entries = Curated(Blank, <<[of |-> a, saves |-> TRUE], [of |-> b, saves |-> TRUE]>>, posture).entries
        /\ before.stored # before.entries => ~ saves
        /\ \A i \in DOMAIN after.entries : after.entries[i].stamp.classification = "public" <=> posture # "standard"

\* A document that is over a budget lowered since cannot be brought back under
\* it by taking out less than the excess: the removal itself is refused.
ASSUME OverfullRefusesRemoval ==
  LET kept  == K!CuratedEntry([document |-> "MEMORY.md", words |-> {"x", "y"}, class |-> "public"], "standard")
      over  == [entries |-> <<kept, kept, kept>>, stored |-> <<kept, kept, kept>>, told |-> TRUE]
      taken == [action |-> "remove", document |-> "MEMORY.md", words |-> {}, class |-> "public", match |-> "y"]
  IN  K!Mutate(over, taken, "standard", Budget, TRUE) = [over EXCEPT !.told = FALSE]

\* A turn answers only when every tool it asked for was executed; blocked for
\* want of a route it may be after some tools were (loop/index.ts).
ASSUME AnswersAfterItsTools ==
  LET ends == {"done", "no-route", "throws"}
      tools == {<<>>} \union {<<a>> : a \in ends} \union {<<a, b>> : a, b \in ends}
  IN  /\ \A inference \in ends : \A t \in tools : \A text \in BOOLEAN :
           LET turn == K!Turn(inference, t, text) IN
           turn.disposition \in {"respond", "silent"} <=> inference = "done" /\ turn.executed = Len(t)
      /\ \E t \in tools : LET turn == K!Turn("done", t, TRUE) IN
           turn.disposition = "blocked-no-route" /\ turn.executed > 0

\* Compaction keeps the class of a conversation and the blocks it retains.
ASSUME CompactionKeepsTheClass ==
  \A n \in 0..4 : \A blocks \in [1..n -> K!Classes] : \A retain \in 0..4 :
    LET after == K!Compact(blocks, retain) IN
    /\ K!MaximumClass({after[i] : i \in DOMAIN after}) = K!MaximumClass({blocks[i] : i \in DOMAIN blocks})
    /\ \A k \in 0..(retain - 1) : k < n => after[Len(after) - k] = blocks[n - k]
    /\ Len(after) <= retain + 1

\* A child of an agent is left no resource its ceiling does not name, and
\* nothing of a capability the ceiling does not mention (agent/index.ts).
ASSUME ChildrenStayUnderTheCeiling ==
  LET requests == [capability : {"a", "b"}, resources : SUBSET {1, 2}] IN
  \A ceiling \in SUBSET {<<"a">>, <<"a", 1>>, <<"b", 1>>, <<"b", 2>>} : \A some \in SUBSET requests :
    Cardinality(some) <= 2 =>
      LET left == K!Effective([ceiling |-> ceiling], [requests |-> some]) IN
      \A e \in left :
        /\ \E q \in some : q.capability = e.capability /\ e.resources \subseteq q.resources
        /\ \/ <<e.capability>> \in ceiling
           \/ e.resources # {} /\ \A r \in e.resources : <<e.capability, r>> \in ceiling

---------------------------------------------------------------------------
(* Mailboxes that push                                                     *)

RECURSIVE MailFrom(_, _, _, _)
MailFrom(seen, frontier, page, failing) ==
  IF frontier = {} THEN seen
  ELSE LET next == UNION {G!GmailSteps(s, page, 3, failing) : s \in frontier} \ seen IN
       MailFrom(seen \union next, next, page, failing)
MailStates(page, failing) == MailFrom({G!NoMail(3)}, {G!NoMail(3)}, page, failing)
Quiet(s) == s.work.at = "idle" /\ s.queue = <<>>
Behind(s) == {m \in DOMAIN s.told : s.first < m /\ m <= G!Loaded(s) /\ s.told[m] = 0}

\* While nothing fails every mail after the first anchor is told of once the
\* anchor passed it, and the anchor never goes back, however late and often
\* the pushes come (gateway-gmail webhook.ts, reconcile).
ASSUME ReconciledIsTold ==
  \A s \in MailStates(3, FALSE) :
    /\ Quiet(s) => Behind(s) = {}
    /\ \A t \in G!GmailSteps(s, 3, 3, FALSE) :
         G!Loaded(s) <= G!Loaded(t) /\ (s.first # 0 => t.first = s.first)

\* A mail is told of twice when it arrives before an earlier push is
\* reconciled: the history that push asks for holds it, and its own push
\* finds it again.  The queue that keeps two reconciliations apart
\* (webhook.ts: "both diff from the same anchor and double-notify") does not
\* keep this from happening; one mail at a time does.
ASSUME TellsAgain ==
  /\ \E s \in MailStates(3, FALSE) : \E m \in DOMAIN s.told : s.told[m] = 2
  /\ LET RECURSIVE From(_, _)
         From(seen, frontier) ==
           IF frontier = {} THEN seen
           ELSE LET next == UNION {{t \in G!GmailSteps(s, 3, 3, FALSE) :
                                      t.mail > s.mail => Quiet(s) /\ G!Loaded(s) = s.mail} :
                                     s \in frontier} \ seen IN From(seen \union next, next)
     IN  \A s \in From({G!NoMail(3)}, {G!NoMail(3)}) : \A m \in DOMAIN s.told : s.told[m] <= 1

\* A mail is never told of when the process stops, or a call fails, after the
\* anchor moved, or when a page does not hold it: the anchor is ahead of what
\* was told (types.ts: "does not replay or drop notifications").
ASSUME DropsWhatItPassed ==
  /\ \E s \in MailStates(3, TRUE) : Quiet(s) /\ s.file = G!Loaded(s) /\ Behind(s) # {}
  /\ \E s \in MailStates(1, FALSE) : Quiet(s) /\ Behind(s) # {}

\* Nothing that was not verified becomes a turn or is read further than its
\* size, at any of the three entrances.
ASSUME UnverifiedIsNoTurn ==
  \A gateway \in {"gmail", "bluebubbles", "webhook"} :
  \A r \in [verified : BOOLEAN, large : BOOLEAN, parses : BOOLEAN, accepted : BOOLEAN] :
    LET answer == G!Ingress(gateway, r) IN
    /\ answer.turn => r.verified /\ ~ r.large /\ r.parses
    /\ ~ r.verified => answer.status \in {"401"} \union (IF gateway = "webhook" THEN {"413"} ELSE {})
    /\ answer.status = "202" /\ ~ answer.turn <=> r.verified /\ ~ r.large /\ r.parses /\ ~ r.accepted

---------------------------------------------------------------------------
(* Slack and iMessage                                                      *)

Ten == <<3, 4, 7, 4, 0, 6, 2, 0, 2, 5>>
Numbers == {<<>>, Ten, <<1>> \o Ten, SubSeq(Ten, 4, 10), <<2, 1, 2>> \o SubSeq(Ten, 4, 10), <<2, 0, 2, 5>>}

\* Identifiers that match do so both ways, and one with its country code or
\* without is the same; but a short local number matches numbers of two areas
\* that do not match each other (gateway-bluebubbles client.ts).
ASSUME MatchingIdentifiers ==
  /\ \A a, b \in Numbers : G!IdentifiersMatch(a, b) <=> G!IdentifiersMatch(b, a)
  /\ \A a \in Numbers : G!IdentifiersMatch(a, a) <=> a # <<>>
  /\ G!IdentifiersMatch(Ten, <<1>> \o Ten) /\ ~ G!IdentifiersMatch(Ten, <<2, 0, 2, 5>>)
  /\ \E a, b, c \in Numbers :
       G!IdentifiersMatch(a, b) /\ G!IdentifiersMatch(b, c) /\ ~ G!IdentifiersMatch(a, c)

\* Who is answered is on the list as some number, and is not necessarily one
\* the tool may write to: the tool compares the texts.
ASSUME AnsweredOrWritten ==
  LET messages == [fromMe : BOOLEAN, tapback : {FALSE}, empty : {FALSE}, sender : Numbers,
                   chat : {"direct", "group", G!Nothing}] IN
  /\ \A m \in messages : \A allowed \in SUBSET Numbers :
       G!Inbound(m, allowed) => \E a \in allowed : a # <<>> /\ m.chat # "group" /\ ~ m.fromMe
  /\ \E m \in messages : G!Inbound(m, {Ten}) /\ ~ G!MaySend(m.sender, {Ten})

\* A conversation is read from the target's own chat before one it is only a
\* participant of (readConversation, scanForChat).
ASSUME OwnChatFirst ==
  LET chats(id) == [id : {id}, direct : BOOLEAN, member : BOOLEAN] IN
  \A a \in chats("a"), b \in chats("b") : \A c \in [id : {"own"}, messages : BOOLEAN] :
      LET read == G!ReadFrom(<<c>>, <<a, b>>) IN
      /\ c.messages <=> read = "own"
      /\ ~ c.messages /\ (a.direct \/ b.direct) => \E x \in {a, b} : x.direct /\ x.id = read

\* A request to Slack is repeated only when it was told to wait: one that may
\* have been carried out is not sent again (gateway-slack client.ts).
ASSUME RepeatsOnlyTheLimited ==
  \A answers \in [1..3 -> {"ok", "limited", "refused", "unknown"}] :
    /\ \A n \in 1..(G!Attempts(answers) - 1) : answers[n] = "limited"
    /\ G!Request(answers) <=> \E n \in 1..3 : answers[n] = "ok" /\ \A m \in 1..(n - 1) : answers[m] = "limited"

\* A text of several parts told as not sent may be there in part, in order.
ASSUME PartsInOrder ==
  \A chunks \in 1..3 : \A posts \in [1..3 -> BOOLEAN] : \A direct, titled \in BOOLEAN :
    LET sent == G!Sent(chunks, posts, direct, titled) IN
    /\ \A n \in 1..sent.posted : posts[n]
    /\ sent.told <=> sent.posted = chunks /\ (direct => titled)
    /\ direct /\ ~ titled => sent.posted <= 1

\* Only the owner's messages, clicks and reactions reach the runtime, and the
\* bot does not answer itself; what the context is can be changed by anyone, and
\* goes with the next message that has none of its own, wherever it is written.
Frames ==
  [type : {"context", "home", "reaction", "message", "other"}, user : {"owner", "bot", "x"},
   item : {"bot", "x"}, plain : BOOLEAN, channel : {"c", G!Nothing}, ts : {"1", "2", G!Nothing},
   text : {"t"}, value : {"+1", "-1", "eyes"}, thread : {"0", G!Nothing}, context : {{}, {"own"}}]
ASSUME OnlyTheOwnerIsHeard ==
  LET clicks == [blockActions : BOOLEAN, user : {"owner", "x"}, action : {"choice", "delete", "feedback", "y"},
                 value : {"positive", "y", G!Nothing}, url : {"slack", "x", G!Nothing},
                 channel : {"c", G!Nothing}, ts : {"1", G!Nothing},
                 within : [channel : {"d", G!Nothing}, ts : {"2", G!Nothing}]]
  IN  /\ \A e \in Frames : \A self \in {"bot", G!Nothing} :
           LET what == G!Event(e, "owner", self) IN
           /\ what \in {"home", "feedback", "message"} => e.user = "owner"
           /\ what = "feedback" => self = e.item /\ e.value # "eyes"
      /\ \A p \in clicks : LET what == G!Interaction(p, "owner") IN
           /\ what # "nothing" => p.user = "owner" /\ (what = "acknowledged" => p.url = "slack")
           /\ what \in {"delete", "feedback"} => \A c \in G!ClicksOf(p, "owner") :
                c.channel \in {"c", "d"} /\ c.message \in {"1", "2"} /\ (p.ts = "1" => c.message = "1")
      /\ \E e \in Frames : e.user = "x" /\ G!Event(e, "owner", "bot") = "context"
      /\ \A e \in Frames : \A m \in G!MessagesOf(e, {"another's"}) : (m.context = {"another's"}) <=> e.context = {}

\* What is written under a message is of its conversation, and no two of them
\* begin it.
ASSUME RepliesFollowTheirRoot ==
  \A a, b \in {e \in Frames : e.type = "message" /\ e.user = "owner" /\ e.plain /\ e.item = "x" /\ e.value = "+1"} :
    \A m \in G!MessagesOf(a, {}) :
    LET reply == [b EXCEPT !.thread = a.ts] IN
    \A n \in G!MessagesOf(reply, {}) : ~ n.root /\ (m.root => n.thread = m.thread)

\* The history of a thread is its end without the message itself, when one page
\* holds it; of a longer one the last of the first page, so that the model is
\* shown what was said long ago and not what was said last (gateway-slack
\* history.ts: limit 100 and no cursor).
ASSUME LongThreadsForgetTheirEnd ==
  \A n \in 1..5 : \A texts \in [1..n -> BOOLEAN] : \A own \in 1..n : \A page \in 1..4 :
    LET thread == [i \in 1..n |-> [ts |-> i, text |-> texts[i]]]
        told   == {i \in 1..n : i # own /\ texts[i]}
        shown  == G!ThreadHistory(thread, own, page, 2)
        ids    == {shown[i].ts : i \in DOMAIN shown}
    IN  /\ ids \subseteq told /\ Len(shown) <= 2
        /\ \A i, j \in DOMAIN shown : i < j => shown[i].ts < shown[j].ts
        /\ n <= page => \A i \in told \ ids : Len(shown) = 2 /\ \A j \in ids : i < j
        /\ page < n => \A i \in ids : i <= page

RECURSIVE GatewayFrom(_, _)
GatewayFrom(seen, frontier) ==
  IF frontier = {} THEN seen
  ELSE LET next == UNION {G!GatewaySteps(g) : g \in frontier} \ seen IN
       GatewayFrom(seen \union next, next)

\* After a stop the connection stays closed for good, unless the stop came
\* while a socket was being opened: that one opens and
\* goes on delivering until the other side closes it.
ASSUME StopsButForTheOpening ==
  LET running == GatewayFrom({G!NewGateway}, {G!NewGateway}) IN
  \A g \in running \ {G!NewGateway} :
    LET after == GatewayFrom({G!StopGateway(g)}, {G!StopGateway(g)}) IN
    /\ (\E t \in after : t.socket) <=> g.at = "opening"
    /\ \E t \in after : t.at = "ended" /\ ~ t.connected

\* Text streamed in fragments is shown whole, once, when the appends that fail
\* are the last ones, and an emoji is cut in two only when a letter follows it
\* at once or the colon it begins with ended another (gateway-slack response.ts, emoji.ts).
Characters == {":", "a", "."}
ASSUME StreamedOnce ==
  \A n \in 1..3 : \A f, g \in [1..n -> Characters] :
    LET pieces == G!Pieces(<<>>, <<f, g>>)
        text   == f \o g
    IN  /\ \A started \in BOOLEAN : \A last \in 0..3 :
             G!Completed(text, pieces, started, [i \in 1..3 |-> i <= last], TRUE) = <<text>>
        /\ \A some \in [1..3 -> BOOLEAN] : G!Last(G!Completed(text, pieces, TRUE, some, FALSE)) = text
        /\ \A from \in 1..(2 * n) : \A to \in from..(2 * n) : \A cut \in 1..2 :
             LET name == SubSeq(text, from, to)
                 end  == Len(G!FlattenSeq(SubSeq(pieces, 1, cut)))
             IN  G!IsFull(name) /\ from <= end /\ end < to =>
                   \/ to < Len(text) /\ text[to + 1] = "a"
                   \/ \E early \in 1..(from - 1) : G!IsFull(SubSeq(text, early, from))

\* When an append fails and a later one does not, the text is shown with a part
\* missing and another one twice: what is left is counted from its length.
ASSUME LateAppendShifts ==
  \E f, g \in [1..2 -> Characters] :
    LET shown == G!Completed(f \o g, G!Pieces(<<>>, <<f, g>>), TRUE, <<FALSE, TRUE, TRUE>>, TRUE) IN
    shown # <<f \o g>>

\* An answer leaves the thread it was asked in only when it was asked outside
\* of any, in a channel, and the settings say so.
ASSUME StaysInItsThread ==
  \A direct, root, reply \in BOOLEAN :
    G!AnswerThread(direct, root, reply) = G!Nothing => root /\ ~ direct /\ ~ reply

---------------------------------------------------------------------------
(* Mail, tools of others and traces                                        *)

\* What is told as sent was accepted; what was accepted may be told as failed,
\* when the end of the conversation was not read (gateway-email smtp.ts).
ASSUME SentWasAccepted ==
  \A failing \in {G!Nothing} \union {G!SmtpSteps[n] : n \in 1..8} : \A lost \in BOOLEAN :
    LET mail == G!SendMail(failing, lost) IN
    /\ mail.told => mail.accepted
    /\ mail.accepted /\ ~ mail.told => failing \in {"mail", "quit"}
    /\ G!SendMail("quit", lost).accepted

\* Every line of the server belongs to one reply, but those of one that has
\* not ended.
ASSUME EveryLineOnce ==
  \A n \in 0..4 : \A ends \in [1..n -> BOOLEAN] :
    LET lines == [i \in 1..n |-> [at |-> i, last |-> ends[i]]]
        read  == G!Replies(lines)
        ended == {i \in 1..n : \E j \in i..n : ends[j]}
    IN  /\ \A i \in ended : Cardinality({r \in read : \E k \in DOMAIN r : r[k] = lines[i]}) = 1
        /\ \A r \in read : \A k \in DOMAIN r : r[k].last <=> k = Len(r)

RECURSIVE CallsFrom(_, _)
CallsFrom(seen, frontier) ==
  IF frontier = {} THEN seen
  ELSE LET next == UNION {G!CallSteps(c) : c \in frontier} \ seen IN
       CallsFrom(seen \union next, next)

\* A call of a tool over a stream of events ends, by its answer, its timeout
\* or the end of the stream, but for one that is answered with an error: it is
\* taken off the list of those that wait and never settled, so its turn waits
\* for ever (mcp-client sse.ts, settlePending: unwrapRpc throws, the catch drops it).
ASSUME ErrorsAreNotAnswered ==
  \A c \in CallsFrom({G!NewCall}, {G!NewCall}) :
    c.at = "waiting" /\ c.settled = G!Nothing /\ ~ c.pending <=> c.at = "waiting" /\ c.answered = "error"

\* A call whose request could not be posted is told so, and stays on the list:
\* its timeout or the end of the stream then fails what nobody awaits.
ASSUME UnpostedStaysListed ==
  LET calls == CallsFrom({G!NewCall}, {G!NewCall}) IN
  /\ \E c \in calls : c.at = "failed" /\ c.pending
  /\ \E c \in calls : c.at = "failed" /\ c.settled = "timeout"

\* A connection that fails after its stream was opened leaves it open, and no
\* binding to close it by (mcp-client client.ts, index.ts).
ASSUME FailedConnectionStaysOpen ==
  \A sse \in BOOLEAN : \A failing \in {G!Nothing} \union {G!ConnectSteps[n] : n \in 1..4} :
    LET c == G!ConnectMcp(sse, failing) IN
    c.open /\ ~ c.connected <=> sse /\ failing \notin {G!Nothing, "start"}

Traced == [n : 1..2, run : {"r", "s", G!Nothing}]
RECURSIVE Ingested(_, _, _)
Ingested(a, events, runs) ==
  IF events = <<>> THEN a ELSE Ingested(G!Ingest(a, Head(events), 2, runs), Tail(events), runs)

\* The map shows the last events and the last runs, each run once, and a run
\* with the events since it was last taken up: one that was dropped and comes
\* back has lost its beginning (deep-trace aggregator.ts).
ASSUME WindowsSlide ==
  /\ \A e \in [1..3 -> Traced] : \A runs \in 1..2 :
       LET a == Ingested(G!NoTrace, e, runs) IN
       /\ a.events = <<e[2], e[3]>>
       /\ Len(a.order) <= runs /\ Cardinality(DOMAIN a.runs) = Len(a.order) /\ DOMAIN a.runs = {a.order[i] : i \in DOMAIN a.order}
       /\ \A r \in DOMAIN a.runs : \A i \in DOMAIN a.runs[r] : a.runs[r][i].run = r
       /\ e[3].run # G!Nothing => e[3] \in {a.runs[e[3].run][i] : i \in DOMAIN a.runs[e[3].run]}
  /\ \E e \in [1..3 -> Traced] :
       e[1].run = e[3].run /\ e[1].run # G!Nothing /\ Len(Ingested(G!NoTrace, e, 1).runs[e[1].run]) = 1
=============================================================================
