--------------------------- MODULE GrantResolution ---------------------------
(***************************************************************************)
(* What a grant allows: how GrantManager makes the grant of a handle out   *)
(* of its sources (src/security/grants/resolution.ts), what the broker     *)
(* finds in it, and what a resource limit lets through.  EpochGrants says  *)
(* when a grant is resolved; its constants GrantedBy and DeferredBy are    *)
(* the result of these functions, for one resource of each capability.     *)
(*                                                                         *)
(* A resource is the sequence of what stands between its slashes: the      *)
(* pattern fs/a/** is <<"fs", "a", "**">>.  A source is a name and the     *)
(* capabilities it lists, in order; the order of a result is left out.     *)
(***************************************************************************)
EXTENDS Integers, Sequences

-----------------------------------------------------------------------------
(* Resources.                                                                *)

\* A pattern ends with "/**", so two stars alone are a plain resource.
IsWildcard(r) == Len(r) >= 2 /\ r[Len(r)] = "**"

\* r begins with what the pattern p has before its stars, the slash included.
StartsWith(r, p) == Len(r) >= Len(p) /\ \A i \in 1..(Len(p) - 1) : r[i] = p[i]

\* resourceAllowed.
Covers(allowed, r) == allowed = r \/ (IsWildcard(allowed) /\ StartsWith(r, allowed))

\* Of two resources, the one that the other covers, if any.
IntersectResource(left, right) ==
  CASE Covers(left, right) -> {right}
    [] ~Covers(left, right) /\ Covers(right, left) -> {left}
    [] OTHER -> {}

IntersectResources(left, right) ==
  UNION {IntersectResource(first, second) : first \in left, second \in right}

-----------------------------------------------------------------------------
(* Capabilities.                                                             *)

Minimum(values) == CHOOSE v \in values : \A w \in values : v <= w

Entries(source, c) ==
  {i \in DOMAIN source.capabilities : source.capabilities[i].capability = c}

\* The first entry counts.
SourceCapability(source, c) == source.capabilities[Minimum(Entries(source, c))]

\* What a source offers of c: nothing, where it does not list c.
Offered(source, c) ==
  IF Entries(source, c) = {} THEN {} ELSE SourceCapability(source, c).resources

IsRequest(source) == source.name = "request"

Others(sources) == {i \in DOMAIN sources : ~IsRequest(sources[i])}

\* What is left of the resources asked for once every other source was asked.
Kept(sources, c, asked) ==
  LET kept[i \in 0..Len(sources)] ==
        IF i = 0 THEN asked
        ELSE IF IsRequest(sources[i]) THEN kept[i - 1]
        ELSE IntersectResources(kept[i - 1], Offered(sources[i], c))
  IN  kept[Len(sources)]

Requests(sources) == {i \in DOMAIN sources : IsRequest(sources[i])}

\* The entries of the first source called request.
Requested(sources) ==
  IF Requests(sources) = {} THEN {}
  ELSE LET listed == sources[Minimum(Requests(sources))].capabilities
       IN  {listed[i] : i \in DOMAIN listed}

\* A deferred capability waits for its activation.
Waits(entry, active) == entry.deferred /\ entry.capability \notin active

ResolveGrantSet(sources, active) ==
  {grant \in
     {[capability |-> e.capability, resources |-> Kept(sources, e.capability, e.resources)] :
        e \in {x \in Requested(sources) : ~Waits(x, active)}} :
     Others(sources) = {} \/ grant.resources # {}}

\* findGrantedCapability: whether the broker lets a call through.
FindGrantedCapability(grants, c, r) ==
  \E grant \in grants : grant.capability = c /\ \E allowed \in grant.resources : Covers(allowed, r)

\* explainGrant: the first source without c, or whose entry waits.
ExplainGrant(sources, c, active) ==
  LET lacks(i) == Entries(sources[i], c) = {}
      removing == {i \in DOMAIN sources :
                     lacks(i) \/ Waits(SourceCapability(sources[i], c), active)}
  IN  CASE removing = {} -> "none"
        [] removing # {} /\ lacks(Minimum(removing)) -> sources[Minimum(removing)].name
        [] OTHER -> "deferred-approval"

\* buildGrantIssue: the gate of a tool asks for its allowlist, and nobody else
\* is asked.
BuildGrantIssue(c, allowlist) ==
  << [name |-> "request",
      capabilities |-> << [capability |-> c, resources |-> allowlist, deferred |-> FALSE] >>] >>

-----------------------------------------------------------------------------
(* Limits: of each kind the least that a source sets.                        *)

LimitKinds == {"maxConcurrency", "cpuQuota", "memoryMb", "pids", "ioBytesPerSecond",
               "maxCostUsd", "maxTokens"}

\* The kinds that a grant consumes.
Consumable == {"maxConcurrency", "maxCostUsd", "maxTokens"}

LimitsOn(kind, limitSources) ==
  {limitSources[i].limits[kind] :
     i \in {j \in DOMAIN limitSources : kind \in DOMAIN limitSources[j].limits}}

Limits(limitSources) ==
  [kind \in {k \in LimitKinds : LimitsOn(k, limitSources) # {}} |->
     Minimum(LimitsOn(kind, limitSources))]

NextConsumption(current, delta) == [kind \in Consumable |-> current[kind] + delta[kind]]

Exceeded(next, limits) ==
  \E kind \in Consumable \intersect DOMAIN limits : next[kind] > limits[kind]

\* consume: what would pass a limit is refused and not counted.
Consume(current, delta, limitSources) ==
  LET next == NextConsumption(current, delta)
  IN  IF Exceeded(next, Limits(limitSources)) THEN current ELSE next

-----------------------------------------------------------------------------
(* The same, over small sources.  EpochGrants_proofs has it for all.         *)

Words == {"a", "b", "**"}
Paths == UNION {[1..n -> Words] : n \in 1..3}

\* Two resources have in common what both cover, no more and no less
\* (intersectResource).
ASSUME IntersectionIsExact ==
  \A left, right \in Paths, r \in Paths :
    (\E kept \in IntersectResource(left, right) : Covers(kept, r))
      <=> Covers(left, r) /\ Covers(right, r)

SomeEntries ==
  [capability : {"c"}, resources : {{<<"a">>}, {<<"a", "**">>}, {<<"a", "b">>, <<"b">>}},
   deferred : BOOLEAN]
SomeLists == {<<>>} \union {<<e>> : e \in SomeEntries} \union {<<e, f>> : e, f \in SomeEntries}
SomeSources ==
  LET of(name) == {[name |-> name, capabilities |-> l] : l \in SomeLists}
      plain == {s \in of("agent") : Len(s.capabilities) < 2}
  IN  {<<s>> : s \in of("request")} \union {<<s, t>> : s \in plain, t \in of("request")}
      \union {<<s, t, s>> : s \in of("request"), t \in plain}

\* The broker lets a call through exactly if an entry of the request that does
\* not wait covers its resource and every other source does (resolveGrantSet).
ASSUME AuthorityIsCommon ==
  \A sources \in SomeSources, active \in SUBSET {"c"}, r \in {<<"a">>, <<"a", "b">>, <<"b">>} :
    FindGrantedCapability(ResolveGrantSet(sources, active), "c", r)
      <=> /\ \E e \in Requested(sources) :
               /\ e.capability = "c" /\ ~Waits(e, active)
               /\ \E allowed \in e.resources : Covers(allowed, r)
          /\ \A i \in Others(sources) :
               \E allowed \in Offered(sources[i], "c") : Covers(allowed, r)

SomeLimits ==
  LET limits == {[k \in K |-> n] : K \in SUBSET {"maxTokens", "pids"}, n \in 0..2}
  IN  {<<[limits |-> l], [limits |-> m]>> : l, m \in limits}

\* What is counted passes the limit of no source (limits, nextConsumption).
ASSUME ConsumptionIsLimited ==
  \A sources \in SomeLimits, delta \in [Consumable -> -1..2] :
    LET none == [kind \in Consumable |-> 0]
        after == Consume(none, delta, sources)
    IN  after # none =>
          \A i \in DOMAIN sources : \A kind \in Consumable \intersect DOMAIN sources[i].limits :
            after[kind] <= sources[i].limits[kind]
=============================================================================
