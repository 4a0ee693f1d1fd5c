---------------------------- MODULE ModelRouting ----------------------------
(***************************************************************************)
(* The kernel's model routing: the registry of provider states, the        *)
(* registry of residency grants, the cached route tables and the           *)
(* dispatcher that picks a route inside a cost budget.                     *)
(*                                                                         *)
(* Every change of a provider has two halves with the wait for its audit   *)
(* record between them.  A health report writes the state first and        *)
(* invalidates the route tables afterwards; a catalog update and a         *)
(* residency revocation wait first.  Requests resolve in the meantime, a   *)
(* record may be refused, and an update writes back the state it read      *)
(* before its wait.                                                        *)
(*                                                                         *)
(* Abstractions: a route table keeps its candidates as a set, whose order  *)
(* (priority, cost, position: the stable sort) is Before; the digests and  *)
(* epochs a caller stamps a request with are one value.  The code leaves   *)
(* to the caller which digests those are, and which list of providers a    *)
(* table is built from: a list it read from the registry some time before, *)
(* say.  Both are any value here.                                          *)
(***************************************************************************)
EXTENDS Naturals

CONSTANTS
  Providers,      \* model providers
  Catalogs,       \* what a provider may offer: sets of entries, one per model
  Grants,         \* residency grants: [max, external], one per registration
  Keys,           \* [profile, class, requires]: what a table is built for
  Contexts,       \* [ceiling, routes, standard, stamps, providers]: a request's build input
  Usages,         \* [prompt, output]: tokens a request is estimated at
  Budgets,        \* maximumCostUsd of a task
  Scopes,         \* what a selection is sticky in
  Callers,        \* concurrent callers of the registries
  Cadence,        \* how long a health report holds
  None            \* no state, no table, no budget, no rate, no route

VARIABLES
  provider,       \* ProviderStateRegistry.#providers
  grant,          \* ResidencyRegistry.#grants, by provider
  tables,         \* RouteTableStore.#tables
  providerKeys,   \* RouteTableStore.#providerKeys
  sticky,         \* ModelDispatcher.#sticky
  epoch,          \* the organization's epoch of model providers
  call,           \* what each caller waits for
  millis,         \* milliseconds, in units of which Cadence is a multiple
  unannounced,    \* providers whose health changed and whose tables were not told
  decision        \* the last selection: what was asked and what was answered

routingVars == <<provider, grant, tables, providerKeys, sticky, epoch, call, millis,
          unannounced, decision>>

Idle == [op |-> "idle"]

-----------------------------------------------------------------------------
(* Profiles and escalation: 0 fast, 1 balanced, 2 deep. *)

Reserved == 0..2

ProfileWithinCeiling(requested, maximum) == requested <= maximum

NarrowProfileCeiling(parent, child) == IF parent <= child THEN parent ELSE child

\* A profile nobody bound may only be declared unavailable.
Complete(bindings) ==
  \A p \in Reserved : bindings[p] # None /\ (bindings[p].routes # {} \/ bindings[p].unavailable)

\* Where an activity ends up that asks to escalate: its chain, the ceiling and,
\* for the deep profile, a grant decide.
EvaluateEscalation(chains, request) ==
  IF /\ request.to \in chains[request.from]
     /\ ProfileWithinCeiling(request.to, request.ceiling)
     /\ request.to = 2 => request.deepGrant
  THEN request.to
  ELSE request.from

-----------------------------------------------------------------------------
(* The live filter. *)

\* Whether a provider with this grant may see data of the class.
ResidencySatisfies(g, class) == ~g.revoked /\ class <= g.max

\* A catalog that claims to run locally needs a grant without egress.
CatalogConsistent(catalog, g) == (\E e \in catalog : e.local) => ~g.external

EntryOf(states, r) ==
  IF states[r.provider] = None THEN {}
  ELSE {e \in states[r.provider].catalog : e.model = r.model}

\* A route of the binding with the catalog entry and residency it resolves to.
Resolved(states, r) ==
  {[route |-> r, entry |-> e, residency |-> states[r.provider].residency] :
     e \in EntryOf(states, r)}

Healthy(states, c) == states[c.route.provider].healthy /\ c.entry.available

LiveRouteFilter(key, context) ==
  LET bound == context.routes[key.profile]
      states == context.providers
  IN  IF ~ProfileWithinCeiling(key.profile, context.ceiling) \/ bound = None THEN {}
      ELSE {c \in UNION {Resolved(states, r) : r \in bound} :
              /\ Healthy(states, c)
              /\ key.requires \subseteq c.entry.capabilities
              /\ context.standard \/ ResidencySatisfies(c.residency, key.class)}

-----------------------------------------------------------------------------
(* Selection. *)

\* The order of a table: the stable sort by priority, then cost.
Before(c, d) ==
  \/ c.route.priority < d.route.priority
  \/ /\ c.route.priority = d.route.priority
     /\ \/ c.route.cost < d.route.cost
        \/ c.route.cost = d.route.cost /\ c.route.position < d.route.position

First(S) == CHOOSE c \in S : \A d \in S : c = d \/ Before(c, d)

Tied(c, d) == c.route.priority = d.route.priority /\ c.route.cost = d.route.cost

\* Rates are per thousand tokens; an unknown rate costs more than any budget.
WithinBudget(c, usage, budget) ==
  budget # None =>
    /\ c.entry.inputRate # None /\ c.entry.outputRate # None
    /\ usage.prompt * c.entry.inputRate + usage.output * c.entry.outputRate
         <= 1000 * budget

NameOf(c) == <<c.route.provider, c.route.model>>

\* The route of the previous selection, while it ties with the front-runner.
SelectBudgetedRoute(budgeted, previous) ==
  LET first == First(budgeted)
      kept == {c \in budgeted : NameOf(c) = previous /\ Tied(c, first)}
  IN  IF kept = {} THEN first ELSE First(kept)

-----------------------------------------------------------------------------
(* The cached tables. *)

StampsMatch(table, context, e) == table.stamps = context.stamps /\ table.epoch = e

\* Providers that a list shows healthy and the registry, by now, does not.
Shows(states, p) == states[p] # None /\ states[p].healthy
Outdated(states) == {p \in Providers : Shows(states, p) /\ ~Shows(provider, p)}

\* "outdated" is kept for the properties.
Fresh(key, context, e) ==
  [candidates |-> LiveRouteFilter(key, context), stamps |-> context.stamps, epoch |-> e,
   context |-> context, outdated |-> Outdated(context.providers)]

\* What resolve() answers with, and whether it builds: only a build reads the
\* ceiling, the binding, the posture and the caller's list of providers.
Cached(key, context, e) == tables[key] # None /\ StampsMatch(tables[key], context, e)

TableFor(key, context, e) ==
  IF Cached(key, context, e) THEN tables[key] ELSE Fresh(key, context, e)

\* The keys the index holds for the provider; another provider keeps those keys.
InvalidateProvider(p) ==
  /\ tables' = [k \in Keys |-> IF k \in providerKeys[p] THEN None ELSE tables[k]]
  /\ providerKeys' = [providerKeys EXCEPT ![p] = {}]

-----------------------------------------------------------------------------
RoutingInit ==
  /\ provider = [p \in Providers |-> None]
  /\ grant = [p \in Providers |-> None]
  /\ tables = [k \in Keys |-> None]
  /\ providerKeys = [p \in Providers |-> {}]
  /\ sticky = [s \in Scopes |-> None]
  /\ epoch = 0
  /\ call = [i \in Callers |-> Idle]
  /\ millis = 0
  /\ unannounced = {}
  /\ decision = None

\* register(): the state of a provider, with a copy of its residency grant; a
\* registration over another one tells nobody.
Register(p, catalog, g, healthy) ==
  /\ CatalogConsistent(catalog, g)
  /\ provider' = [provider EXCEPT ![p] =
       [catalog |-> catalog, residency |-> g, healthy |-> healthy, reported |-> millis]]
  /\ unannounced' = IF provider[p] = None THEN unannounced ELSE unannounced \union {p}
  /\ UNCHANGED <<grant, tables, providerKeys, sticky, epoch, call, millis, decision>>

\* reportHealth(): the state changes at once; a change waits for its record.
Report(i, p, healthy, sweep) ==
  /\ provider' = [provider EXCEPT ![p].healthy = healthy, ![p].reported = millis]
  /\ call' = [call EXCEPT ![i] =
       IF provider[p].healthy # healthy THEN [op |-> "health", provider |-> p, sweep |-> sweep]
       ELSE Idle]
  /\ UNCHANGED <<grant, tables, providerKeys, sticky, epoch, millis, unannounced, decision>>

\* A report of a monitor, or the answer to a poll, which may be an old one.
ReportHealth(i, p, healthy) ==
  /\ call[i] = Idle
  /\ provider[p] # None
  /\ Report(i, p, healthy, {})

\* markLapsed() goes through the providers one by one, each as it is by then.
Lapsed(p) == provider[p] # None /\ millis > provider[p].reported + Cadence /\ provider[p].healthy

BeginSweep(i) ==
  /\ call[i] = Idle
  /\ call' = [call EXCEPT ![i] = [op |-> "sweep", sweep |-> Providers]]
  /\ UNCHANGED <<provider, grant, tables, providerKeys, sticky, epoch, millis, unannounced, decision>>

SweepNext(i, p) ==
  /\ call[i].op = "sweep"
  /\ p \in call[i].sweep
  /\ IF Lapsed(p) THEN Report(i, p, FALSE, call[i].sweep \ {p})
     ELSE /\ call' = [call EXCEPT ![i].sweep = call[i].sweep \ {p}]
          /\ UNCHANGED <<provider, grant, tables, providerKeys, sticky, epoch, millis,
                         unannounced, decision>>

SweepEnds(i) ==
  /\ call[i].op = "sweep"
  /\ call[i].sweep = {}
  /\ call' = [call EXCEPT ![i] = Idle]
  /\ UNCHANGED <<provider, grant, tables, providerKeys, sticky, epoch, millis, unannounced, decision>>

\* The record of a health change is written: its tables and every selection go.
HealthRecorded(i) ==
  /\ call[i].op = "health"
  /\ InvalidateProvider(call[i].provider)
  /\ sticky' = [s \in Scopes |-> None]
  /\ call' = [call EXCEPT ![i] = [op |-> "sweep", sweep |-> call[i].sweep]]
  /\ UNCHANGED <<provider, grant, epoch, millis, unannounced, decision>>

\* The record is refused: the report throws, and so does the sweep it is part of.
HealthRefused(i) ==
  /\ call[i].op = "health"
  /\ unannounced' = unannounced \union {call[i].provider}
  /\ call' = [call EXCEPT ![i] = Idle]
  /\ UNCHANGED <<provider, grant, tables, providerKeys, sticky, epoch, millis, decision>>

\* updateCatalog() reads the state, then waits for an effect-gating record.
UpdateCatalog(i, p, catalog) ==
  /\ call[i] = Idle
  /\ provider[p] # None
  /\ catalog # provider[p].catalog
  /\ CatalogConsistent(catalog, provider[p].residency)
  /\ call' = [call EXCEPT ![i] =
       [op |-> "catalog", provider |-> p, state |-> [provider[p] EXCEPT !.catalog = catalog]]]
  /\ UNCHANGED <<provider, grant, tables, providerKeys, sticky, epoch, millis, unannounced, decision>>

\* It writes back what it read, health and residency of before its wait included.
CatalogRecorded(i) ==
  /\ call[i].op = "catalog"
  /\ provider' = [provider EXCEPT ![call[i].provider] = call[i].state]
  /\ InvalidateProvider(call[i].provider)
  /\ call' = [call EXCEPT ![i] = [op |-> "bump"]]
  /\ UNCHANGED <<grant, sticky, epoch, millis, unannounced, decision>>

\* ResidencyRegistry.register(): a probe that diverges never gets this far.
RegisterGrant(i, p, g, catalog) ==
  /\ call[i] = Idle
  /\ CatalogConsistent(catalog, g)
  /\ call' = [call EXCEPT ![i] = [op |-> "grant", provider |-> p, grant |-> g]]
  /\ UNCHANGED <<provider, grant, tables, providerKeys, sticky, epoch, millis, unannounced, decision>>

GrantRecorded(i) ==
  /\ call[i].op = "grant"
  /\ grant' = [grant EXCEPT ![call[i].provider] = call[i].grant]
  /\ call' = [call EXCEPT ![i] = Idle]
  /\ UNCHANGED <<provider, tables, providerKeys, sticky, epoch, millis, unannounced, decision>>

\* applyProbe() of a grant whose topology changed or whose canary got out.
ProbeFails(i, p) ==
  /\ call[i] = Idle
  /\ grant[p] # None
  /\ call' = [call EXCEPT ![i] = [op |-> "revoke", provider |-> p, grant |-> grant[p]]]
  /\ UNCHANGED <<provider, grant, tables, providerKeys, sticky, epoch, millis, unannounced, decision>>

\* The registry's grant is revoked; the copy in the provider's state is not.
GrantRevoked(i) ==
  /\ call[i].op = "revoke"
  /\ grant' = [grant EXCEPT ![call[i].provider] = [call[i].grant EXCEPT !.revoked = TRUE]]
  /\ InvalidateProvider(call[i].provider)
  /\ call' = [call EXCEPT ![i] = [op |-> "bump"]]
  /\ UNCHANGED <<provider, sticky, epoch, millis, unannounced, decision>>

Bumped(i) ==
  /\ call[i].op = "bump"
  /\ epoch' = epoch + 1
  /\ call' = [call EXCEPT ![i] = Idle]
  /\ UNCHANGED <<provider, grant, tables, providerKeys, sticky, millis, unannounced, decision>>

\* An effect-gating record or a bump is refused: nothing of the change is done,
\* or all of it but the new epoch.
NotRouted(i) ==
  /\ call[i].op \in {"catalog", "grant", "revoke", "bump"}
  /\ call' = [call EXCEPT ![i] = Idle]
  /\ UNCHANGED <<provider, grant, tables, providerKeys, sticky, epoch, millis, unannounced, decision>>

\* select(): one synchronous step up to its observational record.  The caller
\* read the epoch e some time before.
Select(s, key, context, e, usage, budget) ==
  LET table == TableFor(key, context, e)
      budgeted == {c \in table.candidates : WithinBudget(c, usage, budget)}
      selected == SelectBudgetedRoute(budgeted, sticky[s])
  IN  /\ table.candidates # {}
      /\ tables' = [tables EXCEPT ![key] = table]
      /\ providerKeys' = [p \in Providers |->
           IF ~Cached(key, context, e) /\ (\E c \in table.candidates : c.route.provider = p)
           THEN providerKeys[p] \union {key} ELSE providerKeys[p]]
      /\ IF budgeted = {} THEN UNCHANGED <<sticky, decision>>
         ELSE /\ sticky' = [sticky EXCEPT ![s] = NameOf(selected)]
              /\ decision' = [key |-> key, context |-> context, built |-> table.context,
                              usage |-> usage, budget |-> budget, selected |-> selected]
      /\ UNCHANGED <<provider, grant, epoch, call, millis, unannounced>>

Tick ==
  /\ millis' = millis + 1
  /\ UNCHANGED <<provider, grant, tables, providerKeys, sticky, epoch, call, unannounced, decision>>

RoutingNext ==
  \/ \E p \in Providers, catalog \in Catalogs, g \in Grants, healthy \in BOOLEAN :
       Register(p, catalog, g, healthy)
  \/ \E i \in Callers :
       \/ \E p \in Providers, healthy \in BOOLEAN : ReportHealth(i, p, healthy)
       \/ BeginSweep(i)
       \/ \E p \in Providers : SweepNext(i, p)
       \/ SweepEnds(i)
       \/ HealthRecorded(i)
       \/ HealthRefused(i)
       \/ \E p \in Providers, catalog \in Catalogs : UpdateCatalog(i, p, catalog)
       \/ CatalogRecorded(i)
       \/ \E p \in Providers, g \in Grants, catalog \in Catalogs : RegisterGrant(i, p, g, catalog)
       \/ GrantRecorded(i)
       \/ \E p \in Providers : ProbeFails(i, p)
       \/ GrantRevoked(i)
       \/ Bumped(i)
       \/ NotRouted(i)
  \/ \E s \in Scopes, key \in Keys, context \in Contexts, e \in 0..epoch, usage \in Usages,
        budget \in Budgets \union {None} : Select(s, key, context, e, usage, budget)
  \/ Tick

RoutingSpec == RoutingInit /\ [][RoutingNext]_routingVars
=============================================================================
