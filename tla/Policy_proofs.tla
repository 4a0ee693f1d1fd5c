---------------------------- MODULE Policy_proofs ----------------------------
(***************************************************************************)
(* What decides before something is sent, merged, done or run: the router, *)
(* the context frames, the approval service and the placement manager; and *)
(* at the end, for every input, what a boot and the control of the         *)
(* learning system let through.                                            *)
(***************************************************************************)
EXTENDS Integers, ModelRouting, InformationFlow, Approvals, Placement,
        FiniteSetTheorems, TLAPS, WellFoundedInduction

(***************************************************************************)
(* Routing.  For every set of providers, catalogs, contexts and callers: a *)
(* cached table offers a provider that is not healthy only while the       *)
(* report of it waits for its record, when nobody was told, or when the    *)
(* caller built the table from a list that was out of date (SickOffered),  *)
(* and every selection obeys the filter its table was built with           *)
(* (DecisionsHold).                                                        *)
(*                                                                         *)
(* Neither is inductive.  A provider's tables are found through an index   *)
(* of keys, so RoutingInv says that the index covers every table           *)
(* (IndexCovers): invalidation forgets the index, and other providers keep *)
(* keys whose tables are gone.  Selections come from tables built in the   *)
(* past, so RoutingInv says that every table still is what its context     *)
(* allowed.                                                                *)
(***************************************************************************)

Candidate(c) ==
  /\ c.route.provider \in Providers
  /\ c.route.priority \in Nat /\ c.route.cost \in Nat /\ c.route.position \in Nat

ProviderState == [catalog : Catalogs, residency : Grants, healthy : BOOLEAN, reported : Nat]

\* What a binding is: finitely many routes, each at a position of its own; and
\* a catalog: finitely many models, each once.
RoutingValues ==
  /\ \A context \in Contexts, p \in Reserved :
       LET bound == context.routes[p]
       IN  bound # None =>
             /\ IsFiniteSet(bound)
             /\ \A r \in bound : /\ r.provider \in Providers
                                 /\ r.priority \in Nat /\ r.cost \in Nat /\ r.position \in Nat
             /\ \A r, q \in bound : r.position = q.position => r = q
  /\ \A catalog \in Catalogs :
       /\ IsFiniteSet(catalog)
       /\ \A e, f \in catalog : e.model = f.model => e = f
  /\ \A context \in Contexts : context.providers \in [Providers -> ProviderState \union {None}]
  /\ \A key \in Keys : key.profile \in Reserved
  /\ None \notin ProviderState

CallType(o) ==
  \/ o = Idle
  \/ o.op = "sweep" /\ o.sweep \subseteq Providers
  \/ o.op = "health" /\ o.provider \in Providers /\ o.sweep \subseteq Providers
  \/ o.op = "catalog" /\ o.provider \in Providers /\ o.state \in ProviderState
  \/ o.op \in {"grant", "revoke"} /\ o.provider \in Providers
  \/ o.op = "bump"

RoutingTypes ==
  /\ provider \in [Providers -> ProviderState \union {None}]
  /\ DOMAIN tables = Keys
  /\ providerKeys \in [Providers -> SUBSET Keys]
  /\ DOMAIN sticky = Scopes
  /\ DOMAIN call = Callers
  /\ millis \in Nat
  /\ \A i \in Callers : CallType(call[i])

\* A health report of p waits for its record.
Waiting(p) == \E i \in Callers : call[i].op = "health" /\ call[i].provider = p

\* A table is found under every provider it offers.
IndexCovers ==
  \A k \in Keys : tables[k] # None =>
    \A c \in tables[k].candidates : k \in providerKeys[c.route.provider]

\* No cached table offers a provider that the registry knows to be sick, except
\* between the report and its record, when the record was refused or a
\* registration told nobody, or when the table was built after the report from
\* a list the caller had read before it (provider.ts reportHealth, routetable.ts
\* resolve and invalidateProvider).
SickOffered ==
  \A k \in Keys : tables[k] # None =>
    \A c \in tables[k].candidates :
      LET p == c.route.provider
      IN  Shows(provider, p) \/ Waiting(p) \/ p \in unannounced \/ p \in tables[k].outdated

\* What a context allows for a key, whatever the providers are.
Allowed(key, context, c) ==
  /\ ProfileWithinCeiling(key.profile, context.ceiling)
  /\ c.route \in context.routes[key.profile]
  /\ key.requires \subseteq c.entry.capabilities
  /\ c.entry.available
  /\ context.standard \/ ResidencySatisfies(c.residency, key.class)

\* The order of a table is total on its candidates.
Ordered(S) ==
  /\ IsFiniteSet(S)
  /\ \A c \in S : Candidate(c)
  /\ \A c, d \in S : c.route.position = d.route.position => c = d

TableOf(k, table) ==
  /\ table.stamps = table.context.stamps
  /\ Ordered(table.candidates)
  /\ \A c \in table.candidates : Allowed(k, table.context, c)

TableInv == \A k \in Keys : tables[k] # None => TableOf(k, tables[k])

\* The selected route is one the live filter allows for the key in the context
\* its table was built with, that context has the stamps of the request, and the
\* route fits the task's budget (resolver.ts select, selectBudgetedRoute).
DecisionsHold ==
  decision # None =>
    /\ Allowed(decision.key, decision.built, decision.selected)
    /\ decision.built.stamps = decision.context.stamps
    /\ WithinBudget(decision.selected, decision.usage, decision.budget)

RoutingInv == RoutingTypes /\ IndexCovers /\ SickOffered /\ TableInv /\ DecisionsHold

-----------------------------------------------------------------------------
\* The front-runner of a nonempty set of candidates is one of them.
LEMMA FirstIsMember ==
  ASSUME NEW S, S # {}, Ordered(S)
  PROVE  First(S) \in S
<1> DEFINE Ahead(c) == {d \in S : Before(d, c)}
           R == StrictSubsetOrdering(S)
           T == {Ahead(c) : c \in S}
<1>1. IsWellFoundedOn(R, SUBSET S)
  <2>1. FiniteSubsetsOf(S) = SUBSET S
    BY FS_FiniteSubsetsOfFinite DEF Ordered
  <2>2. IsWellFoundedOn(R, FiniteSubsetsOf(S))
    BY FS_StrictSubsetOrderingWellFounded
  <2> QED BY <2>1, <2>2
<1>2. PICK c \in S : \A d \in S : <<Ahead(d), Ahead(c)>> \notin R
  <2>1. T \subseteq SUBSET S /\ T # {}
    OBVIOUS
  <2> HIDE DEF R, T
  <2>2. \E x \in T : \A y \in T : <<y, x>> \notin R
    BY <1>1, <2>1, WFMin
  <2> QED BY <2>2 DEF T
<1>3. \A d \in S : ~Before(d, c)
  <2> SUFFICES ASSUME NEW d \in S, Before(d, c) PROVE FALSE
    OBVIOUS
  <2>1. ~Before(d, d)
    BY DEF Ordered, Candidate, Before
  <2>2. \A e \in S : Before(e, d) => Before(e, c)
    BY DEF Ordered, Candidate, Before
  <2>3. Ahead(d) \subseteq Ahead(c) /\ d \in Ahead(c) /\ d \notin Ahead(d)
    BY <2>1, <2>2
  <2>4. <<Ahead(d), Ahead(c)>> \in R
    BY <2>3 DEF StrictSubsetOrdering
  <2> QED BY <1>2, <2>4
<1>4. \A d \in S : c = d \/ Before(c, d)
  BY <1>3 DEF Ordered, Candidate, Before
<1> QED BY <1>4 DEF First

\* The filter's candidates are in order and allowed.
LEMMA FilterAllows ==
  ASSUME RoutingValues, RoutingTypes, NEW key \in Keys, NEW context \in Contexts
  PROVE  LET S == LiveRouteFilter(key, context)
         IN  /\ Ordered(S)
             /\ \A c \in S : /\ Allowed(key, context, c)
                             /\ Shows(context.providers, c.route.provider)
<1> DEFINE S == LiveRouteFilter(key, context)
           states == context.providers
           bound == context.routes[key.profile]
<1>1. CASE ~ProfileWithinCeiling(key.profile, context.ceiling) \/ bound = None
  <2>1. S = {}
    BY <1>1 DEF LiveRouteFilter
  <2> QED BY <2>1, FS_EmptySet DEF Ordered
<1>2. CASE ProfileWithinCeiling(key.profile, context.ceiling) /\ bound # None
  <2>1. IsFiniteSet(bound) /\ \A r \in bound : r.provider \in Providers
                                /\ r.priority \in Nat /\ r.cost \in Nat /\ r.position \in Nat
    BY <1>2 DEF RoutingValues
  <2>2. \A c \in S : \E r \in bound : c \in Resolved(states, r)
    BY <1>2 DEF LiveRouteFilter
  <2>3. \A c \in S : /\ c.route \in bound
                     /\ states[c.route.provider] # None
                     /\ c.entry \in states[c.route.provider].catalog
                     /\ c.entry.model = c.route.model
                     /\ c = [route |-> c.route, entry |-> c.entry,
                             residency |-> states[c.route.provider].residency]
    BY <2>2 DEF Resolved, EntryOf
  <2>4. \A c, d \in S : c.route = d.route => c = d
    <3> SUFFICES ASSUME NEW c \in S, NEW d \in S, c.route = d.route PROVE c = d
      OBVIOUS
    <3>1. states[c.route.provider].catalog \in Catalogs
      BY <2>1, <2>3 DEF RoutingValues, ProviderState
    <3>2. c.entry = d.entry
      BY <2>3, <3>1 DEF RoutingValues
    <3> QED BY <2>3, <3>2
  <2>5. IsFiniteSet(S)
    <3> DEFINE f == [c \in S |-> c.route]
    <3>1. f \in Injection(S, bound)
      BY <2>3, <2>4 DEF Injection, IsInjective
    <3> QED BY <2>1, <3>1, FS_Injection
  <2>6. \A c, d \in S : c.route.position = d.route.position => c = d
    BY <1>2, <2>3, <2>4 DEF RoutingValues
  <2>7. Ordered(S)
    BY <2>1, <2>3, <2>5, <2>6 DEF Ordered, Candidate
  <2>8. \A c \in S : Allowed(key, context, c) /\ Shows(states, c.route.provider)
    BY <1>2, <2>3 DEF LiveRouteFilter, Allowed, Healthy, Shows
  <2> QED BY <2>3, <2>7, <2>8
<1> QED BY <1>1, <1>2

\* A nonempty set of affordable candidates of a table yields one of them.
LEMMA SelectedIsBudgeted ==
  ASSUME NEW S, Ordered(S), NEW budgeted \in SUBSET S, budgeted # {}, NEW previous
  PROVE  SelectBudgetedRoute(budgeted, previous) \in budgeted
<1> DEFINE kept == {c \in budgeted : NameOf(c) = previous /\ Tied(c, First(budgeted))}
<1>1. Ordered(budgeted) /\ Ordered(kept)
  BY FS_Subset DEF Ordered
<1>2. First(budgeted) \in budgeted /\ (kept # {} => First(kept) \in kept)
  BY <1>1, FirstIsMember
<1> QED BY <1>2 DEF SelectBudgetedRoute

-----------------------------------------------------------------------------
\* What every step but a selection leaves of the invariant follows from these.
LEMMA InvalidationKeeps ==
  ASSUME RoutingInv, NEW p \in Providers, InvalidateProvider(p)
  PROVE  /\ DOMAIN tables' = Keys /\ providerKeys' \in [Providers -> SUBSET Keys]
         /\ \A k \in Keys : tables'[k] # None =>
              /\ tables'[k] = tables[k]
              /\ \A c \in tables[k].candidates : c.route.provider # p
         /\ IndexCovers'
<1>1. DOMAIN tables' = Keys /\ providerKeys' \in [Providers -> SUBSET Keys]
  BY DEF RoutingInv, RoutingTypes, InvalidateProvider
<1>2. \A k \in Keys : tables'[k] # None => tables'[k] = tables[k] /\ k \notin providerKeys[p]
  BY DEF InvalidateProvider
<1>3. \A k \in Keys : tables'[k] # None =>
        \A c \in tables[k].candidates : c.route.provider # p
  BY <1>2 DEF RoutingInv, IndexCovers
<1>4. \A q \in Providers : q # p => providerKeys'[q] = providerKeys[q]
  BY DEF RoutingInv, RoutingTypes, InvalidateProvider
<1>5. \A k \in Keys : tables[k] # None =>
        \A c \in tables[k].candidates : c.route.provider \in Providers
  BY DEF RoutingInv, TableInv, TableOf, Ordered, Candidate
<1>6. IndexCovers'
  BY <1>2, <1>3, <1>4, <1>5 DEF RoutingInv, IndexCovers
<1> QED BY <1>1, <1>2, <1>3, <1>6

\* A step that builds no table keeps what the tables are.
LEMMA TablesKept ==
  ASSUME RoutingInv, \A k \in Keys : tables'[k] # None => tables[k] # None /\ tables'[k] = tables[k]
  PROVE  TableInv'
  BY DEF RoutingInv, TableInv

\* What may be offered once more: the step made it no sicker, and still tells of it.
Offerable(p) == Shows(provider, p) \/ Waiting(p) \/ p \in unannounced

LEMMA OffersKept ==
  ASSUME RoutingInv,
         \A k \in Keys : tables'[k] # None => tables[k] # None /\ tables'[k] = tables[k],
         \A k \in Keys : tables'[k] # None =>
           \A c \in tables[k].candidates :
             Offerable(c.route.provider) => Offerable(c.route.provider)'
  PROVE  SickOffered'
  BY DEF RoutingInv, SickOffered, Offerable, Shows

LEMMA ProvidersOfTables ==
  ASSUME RoutingInv, NEW k \in Keys, tables[k] # None, NEW c \in tables[k].candidates
  PROVE  c.route.provider \in Providers
  BY DEF RoutingInv, TableInv, TableOf, Ordered, Candidate

LEMMA InitIInv == RoutingInit => RoutingInv
  BY DEF RoutingInit, RoutingInv, RoutingTypes, IndexCovers, SickOffered, TableInv, DecisionsHold, CallType

LEMMA RegisterKeeps ==
  ASSUME RoutingValues, RoutingInv, NEW p \in Providers, NEW catalog \in Catalogs, NEW g \in Grants,
         NEW healthy \in BOOLEAN, Register(p, catalog, g, healthy)
  PROVE  RoutingInv'
<1> DEFINE st == [catalog |-> catalog, residency |-> g, healthy |-> healthy, reported |-> millis]
<1>1. RoutingTypes'
  BY DEF RoutingInv, RoutingTypes, Register, ProviderState
<1>2. IndexCovers' /\ DecisionsHold'
  BY DEF RoutingInv, IndexCovers, DecisionsHold, Register
<1>3. TableInv'
  BY TablesKept DEF Register
<1>4. \A q \in Providers : Offerable(q) => Offerable(q)'
  <2> SUFFICES ASSUME NEW q \in Providers, Offerable(q) PROVE Offerable(q)'
    OBVIOUS
  <2>1. Waiting(q) => Waiting(q)'
    BY DEF Register, Waiting
  <2>2. CASE q = p
    <3>1. CASE provider[p] = None
      BY <2>1, <2>2, <3>1 DEF Register, Offerable, Shows
    <3>2. CASE provider[p] # None
      BY <2>2, <3>2 DEF Register, Offerable
    <3> QED BY <3>1, <3>2
  <2>3. CASE q # p
    BY <2>1, <2>3 DEF RoutingInv, RoutingTypes, Register, Offerable, Shows
  <2> QED BY <2>2, <2>3
<1>5. SickOffered'
  BY <1>4, OffersKept, ProvidersOfTables DEF Register
<1> QED BY <1>1, <1>2, <1>3, <1>5 DEF RoutingInv

LEMMA ReportKeeps ==
  ASSUME RoutingValues, RoutingInv, NEW i \in Callers, NEW p \in Providers, NEW healthy \in BOOLEAN,
         NEW sweep \in SUBSET Providers, provider[p] # None, call[i].op # "health",
         Report(i, p, healthy, sweep)
  PROVE  RoutingInv'
<1>1. RoutingTypes'
  BY DEF RoutingInv, RoutingTypes, Report, ProviderState, CallType, Idle
<1>2. IndexCovers' /\ DecisionsHold'
  BY DEF RoutingInv, IndexCovers, DecisionsHold, Report
<1>3. TableInv'
  BY TablesKept DEF Report
<1>4. \A q \in Providers : Offerable(q) => Offerable(q)'
  <2> SUFFICES ASSUME NEW q \in Providers, Offerable(q) PROVE Offerable(q)'
    OBVIOUS
  <2>1. Waiting(q) => Waiting(q)'
    BY DEF RoutingInv, RoutingTypes, Report, Waiting
  <2>2. CASE q = p
    <3>1. provider'[p] # None /\ provider'[p].healthy = healthy
      <4>1. provider[p] \in ProviderState
        BY DEF RoutingInv, RoutingTypes
      <4>2. provider'[p] = [provider[p] EXCEPT !.healthy = healthy, !.reported = millis]
        BY DEF RoutingInv, RoutingTypes, Report
      <4>3. provider'[p] \in ProviderState /\ provider'[p].healthy = healthy
        BY <4>1, <4>2 DEF RoutingInv, RoutingTypes, ProviderState
      <4> QED BY <4>3 DEF RoutingValues
    <3>2. CASE provider[p].healthy = healthy
      BY <2>1, <2>2, <3>1, <3>2 DEF Offerable, Shows, Report
    <3>3. CASE provider[p].healthy # healthy
      <4>1. Waiting(p)'
        BY <3>3 DEF RoutingInv, RoutingTypes, Report, Waiting
      <4> QED BY <2>2, <3>1, <4>1 DEF Offerable, Shows
    <3> QED BY <3>2, <3>3
  <2>3. CASE q # p
    BY <2>1, <2>3 DEF RoutingInv, RoutingTypes, Report, Offerable, Shows
  <2> QED BY <2>2, <2>3
<1>5. SickOffered'
  BY <1>4, OffersKept, ProvidersOfTables DEF Report
<1> QED BY <1>1, <1>2, <1>3, <1>5 DEF RoutingInv

\* A step of a caller that touches neither providers, tables nor selections.
LEMMA CallKeeps ==
  ASSUME RoutingValues, RoutingInv, NEW i \in Callers, NEW o, CallType(o), call[i].op # "health",
         call' = [call EXCEPT ![i] = o],
         UNCHANGED <<provider, tables, providerKeys, sticky, millis, unannounced, decision>>
  PROVE  RoutingInv'
<1>1. RoutingTypes'
  BY DEF RoutingInv, RoutingTypes, CallType, ProviderState, Idle
<1>2. IndexCovers' /\ DecisionsHold'
  BY DEF RoutingInv, IndexCovers, DecisionsHold
<1>3. TableInv'
  BY TablesKept
<1>4. \A q \in Providers : Offerable(q) => Offerable(q)'
  BY DEF RoutingInv, RoutingTypes, Waiting, Offerable, Shows
<1>5. SickOffered'
  BY <1>4, OffersKept, ProvidersOfTables
<1> QED BY <1>1, <1>2, <1>3, <1>5 DEF RoutingInv

\* A step of a caller that invalidates the provider its call is about.
LEMMA InvalidatingKeeps ==
  ASSUME RoutingValues, RoutingInv, NEW i \in Callers, NEW p \in Providers, NEW o, CallType(o),
         call[i].op = "health" => call[i].provider = p,
         call' = [call EXCEPT ![i] = o],
         InvalidateProvider(p),
         provider' = provider \/ \E st \in ProviderState : provider' = [provider EXCEPT ![p] = st],
         DOMAIN sticky' = Scopes,
         UNCHANGED <<millis, unannounced, decision>>
  PROVE  RoutingInv'
<1>1. RoutingTypes'
  BY InvalidationKeeps DEF RoutingInv, RoutingTypes, CallType, ProviderState, Idle
<1>2. IndexCovers' /\ DecisionsHold'
  BY InvalidationKeeps DEF RoutingInv, DecisionsHold
<1>3. TableInv'
  BY TablesKept, InvalidationKeeps
<1>4. \A q \in Providers : q # p /\ Offerable(q) => Offerable(q)'
  BY DEF RoutingInv, RoutingTypes, Waiting, Offerable, Shows
<1>5. SickOffered'
  BY <1>4, OffersKept, ProvidersOfTables, InvalidationKeeps
<1> QED BY <1>1, <1>2, <1>3, <1>5 DEF RoutingInv

LEMMA HealthRefusedKeeps ==
  ASSUME RoutingValues, RoutingInv, NEW i \in Callers, HealthRefused(i)
  PROVE  RoutingInv'
<1>1. RoutingTypes'
  BY DEF RoutingInv, RoutingTypes, CallType, ProviderState, Idle, HealthRefused
<1>2. IndexCovers' /\ DecisionsHold'
  BY DEF RoutingInv, IndexCovers, DecisionsHold, HealthRefused
<1>3. TableInv'
  BY TablesKept DEF HealthRefused
<1>4. \A q \in Providers : Offerable(q) => Offerable(q)'
  BY DEF RoutingInv, RoutingTypes, Waiting, Offerable, Shows, HealthRefused
<1>5. SickOffered'
  BY <1>4, OffersKept, ProvidersOfTables DEF HealthRefused
<1> QED BY <1>1, <1>2, <1>3, <1>5 DEF RoutingInv

LEMMA SelectKeeps ==
  ASSUME RoutingValues, RoutingInv, NEW s \in Scopes, NEW key \in Keys, NEW context \in Contexts,
         NEW e \in 0..epoch, NEW usage \in Usages, NEW budget \in Budgets \union {None},
         Select(s, key, context, e, usage, budget)
  PROVE  RoutingInv'
<1> DEFINE table == TableFor(key, context, e)
           S == table.candidates
           budgeted == {c \in S : WithinBudget(c, usage, budget)}
           selected == SelectBudgetedRoute(budgeted, sticky[s])
<1>1. /\ table.stamps = table.context.stamps /\ table.stamps = context.stamps
      /\ Ordered(S)
      /\ \A c \in S : Allowed(key, table.context, c)
      /\ \A c \in S : c.route.provider \in Providers
      /\ \A c \in S : Offerable(c.route.provider) \/ c.route.provider \in table.outdated
  <2>1. CASE Cached(key, context, e)
    BY <2>1 DEF Cached, TableFor, StampsMatch, RoutingInv, TableInv, TableOf, SickOffered, Offerable,
                Shows, Ordered, Candidate
  <2>2. CASE ~Cached(key, context, e)
    <3>1. table = Fresh(key, context, e)
      BY <2>2 DEF TableFor
    <3>2. /\ table.stamps = context.stamps /\ table.context = context
          /\ S = LiveRouteFilter(key, context) /\ table.outdated = Outdated(context.providers)
      BY <3>1 DEF Fresh
    <3>3. RoutingTypes
      BY DEF RoutingInv
    <3> HIDE DEF S, table
    <3> QED BY <3>2, <3>3, FilterAllows DEF Offerable, Shows, Outdated, Ordered, Candidate
  <2> QED BY <2>1, <2>2
<1>2. /\ tables' = [tables EXCEPT ![key] = table]
      /\ providerKeys' = [p \in Providers |->
           IF ~Cached(key, context, e) /\ (\E c \in S : c.route.provider = p)
           THEN providerKeys[p] \union {key} ELSE providerKeys[p]]
      /\ UNCHANGED <<provider, grant, epoch, call, millis, unannounced>>
  BY DEF Select
<1>3. Cached(key, context, e) => table = tables[key] /\ tables[key] # None
  BY DEF Cached, TableFor
<1>4. \/ budgeted = {} /\ UNCHANGED <<sticky, decision>>
      \/ /\ budgeted # {}
         /\ sticky' = [sticky EXCEPT ![s] = NameOf(selected)]
         /\ decision' = [key |-> key, context |-> context, built |-> table.context,
                         usage |-> usage, budget |-> budget, selected |-> selected]
  BY DEF Select
<1> HIDE DEF table
<1>5. RoutingTypes'
  BY <1>2, <1>4 DEF RoutingInv, RoutingTypes
<1>6. IndexCovers'
  BY <1>1, <1>2, <1>3 DEF RoutingInv, IndexCovers, RoutingTypes, TableInv, TableOf, Ordered, Candidate
<1>7. SickOffered'
  BY <1>1, <1>2 DEF RoutingInv, SickOffered, RoutingTypes, Offerable, Shows, Waiting
<1>8. TableInv'
  <2>1. TableOf(key, table)
    BY <1>1 DEF TableOf
  <2>2. \A k \in Keys : tables'[k] = IF k = key THEN table ELSE tables[k]
    BY <1>2 DEF RoutingInv, RoutingTypes
  <2> QED BY <2>1, <2>2 DEF RoutingInv, TableInv
<1>9. DecisionsHold'
  <2>1. CASE budgeted = {}
    BY <1>4, <2>1 DEF RoutingInv, DecisionsHold
  <2>2. CASE budgeted # {}
    <3>1. selected \in budgeted
      BY <1>1, <2>2, SelectedIsBudgeted
    <3> HIDE DEF selected
    <3>2. Allowed(key, table.context, selected) /\ WithinBudget(selected, usage, budget)
      BY <1>1, <3>1
    <3>3. /\ decision'.key = key /\ decision'.context = context
          /\ decision'.built = table.context /\ decision'.selected = selected
          /\ decision'.usage = usage /\ decision'.budget = budget
      BY <1>4, <2>2
    <3> HIDE DEF budgeted, S
    <3> QED BY <1>1, <3>2, <3>3 DEF DecisionsHold
  <2> QED BY <2>1, <2>2
<1> QED BY <1>5, <1>6, <1>7, <1>8, <1>9 DEF RoutingInv

LEMMA NextKeeps ==
  ASSUME RoutingValues, RoutingInv, [RoutingNext]_routingVars
  PROVE  RoutingInv'
<1>1. ASSUME NEW p \in Providers, NEW catalog \in Catalogs, NEW g \in Grants,
             NEW healthy \in BOOLEAN, Register(p, catalog, g, healthy)
      PROVE  RoutingInv'
  BY <1>1, RegisterKeeps
<1>2. ASSUME NEW i \in Callers, NEW p \in Providers, NEW healthy \in BOOLEAN,
             ReportHealth(i, p, healthy)
      PROVE  RoutingInv'
  BY <1>2, ReportKeeps DEF ReportHealth, Idle
<1>3. ASSUME NEW i \in Callers, BeginSweep(i) PROVE RoutingInv'
  <2> DEFINE o == [op |-> "sweep", sweep |-> Providers]
  <2>1. CallType(o)
    BY <1>3 DEF CallType, BeginSweep, RoutingInv, RoutingTypes
  <2>2. /\ call[i].op # "health" /\ call' = [call EXCEPT ![i] = o]
        /\ UNCHANGED <<provider, tables, providerKeys, sticky, millis, unannounced, decision>>
    BY <1>3 DEF BeginSweep, Idle
  <2> HIDE DEF o
  <2> QED BY <2>1, <2>2, CallKeeps
<1>4. ASSUME NEW i \in Callers, NEW p \in Providers, SweepNext(i, p) PROVE RoutingInv'
  <2>1. call[i].sweep \subseteq Providers
    BY <1>4 DEF SweepNext, RoutingInv, RoutingTypes, CallType, Idle
  <2>2. CASE Lapsed(p)
    <3> DEFINE rest == call[i].sweep \ {p}
    <3>1. Report(i, p, FALSE, rest) /\ provider[p] # None /\ call[i].op # "health"
      BY <1>4, <2>2 DEF SweepNext, Lapsed
    <3>2. rest \in SUBSET Providers /\ FALSE \in BOOLEAN
      BY <2>1
    <3> HIDE DEF rest
    <3> QED BY <3>1, <3>2, ReportKeeps
  <2>3. CASE ~Lapsed(p)
    <3> DEFINE o == [call[i] EXCEPT !.sweep = call[i].sweep \ {p}]
    <3>1. call' = [call EXCEPT ![i] = o]
      BY <1>4, <2>3 DEF SweepNext
    <3>2. CallType(o)
      <4>1. call[i] \in [op : {"sweep"}, sweep : SUBSET Providers] => o.op = "sweep" /\ o.sweep \subseteq Providers
        OBVIOUS
      <4> QED BY <1>4, <2>1, <4>1 DEF SweepNext, RoutingInv, RoutingTypes, CallType, Idle
    <3> QED BY <1>4, <2>3, <3>1, <3>2, CallKeeps DEF SweepNext
  <2> QED BY <2>2, <2>3
<1>5. ASSUME NEW i \in Callers, SweepEnds(i) PROVE RoutingInv'
  BY <1>5, CallKeeps DEF SweepEnds, CallType, Idle
<1>6. ASSUME NEW i \in Callers, HealthRecorded(i) PROVE RoutingInv'
  <2>1. call[i].provider \in Providers /\ call[i].sweep \subseteq Providers
    BY <1>6 DEF HealthRecorded, RoutingInv, RoutingTypes, CallType, Idle
  <2> QED BY <1>6, <2>1, InvalidatingKeeps DEF HealthRecorded, CallType
<1>7. ASSUME NEW i \in Callers, HealthRefused(i) PROVE RoutingInv'
  BY <1>7, HealthRefusedKeeps
<1>8. ASSUME NEW i \in Callers, NEW p \in Providers, NEW catalog \in Catalogs,
             UpdateCatalog(i, p, catalog)
      PROVE  RoutingInv'
  <2> DEFINE st == [provider[p] EXCEPT !.catalog = catalog]
             o == [op |-> "catalog", provider |-> p, state |-> st]
  <2>1. CallType(o)
    <3>1. st \in ProviderState
      BY <1>8 DEF UpdateCatalog, RoutingInv, RoutingTypes, ProviderState
    <3> HIDE DEF st
    <3> QED BY <3>1 DEF CallType
  <2>2. /\ call[i].op # "health" /\ call' = [call EXCEPT ![i] = o]
        /\ UNCHANGED <<provider, tables, providerKeys, sticky, millis, unannounced, decision>>
    BY <1>8 DEF UpdateCatalog, Idle
  <2> HIDE DEF o
  <2> QED BY <2>1, <2>2, CallKeeps
<1>9. ASSUME NEW i \in Callers, CatalogRecorded(i) PROVE RoutingInv'
  <2>1. call[i].provider \in Providers /\ call[i].state \in ProviderState
    BY <1>9 DEF CatalogRecorded, RoutingInv, RoutingTypes, CallType, Idle
  <2>2. DOMAIN sticky' = Scopes
    BY <1>9 DEF CatalogRecorded, RoutingInv, RoutingTypes
  <2> QED BY <1>9, <2>1, <2>2, InvalidatingKeeps DEF CatalogRecorded, CallType
<1>10. ASSUME NEW i \in Callers, NEW p \in Providers, NEW g \in Grants, NEW catalog \in Catalogs,
              RegisterGrant(i, p, g, catalog)
       PROVE  RoutingInv'
  <2> DEFINE o == [op |-> "grant", provider |-> p, grant |-> g]
  <2>1. CallType(o)
    BY <1>10 DEF CallType, RegisterGrant, RoutingInv, RoutingTypes
  <2>2. /\ call[i].op # "health" /\ call' = [call EXCEPT ![i] = o]
        /\ UNCHANGED <<provider, tables, providerKeys, sticky, millis, unannounced, decision>>
    BY <1>10 DEF RegisterGrant, Idle
  <2> HIDE DEF o
  <2> QED BY <2>1, <2>2, CallKeeps
<1>11. ASSUME NEW i \in Callers, GrantRecorded(i) PROVE RoutingInv'
  BY <1>11, CallKeeps DEF GrantRecorded, CallType, Idle
<1>12. ASSUME NEW i \in Callers, NEW p \in Providers, ProbeFails(i, p) PROVE RoutingInv'
  <2> DEFINE o == [op |-> "revoke", provider |-> p, grant |-> grant[p]]
  <2>1. CallType(o)
    BY <1>12 DEF CallType, ProbeFails, RoutingInv, RoutingTypes
  <2>2. /\ call[i].op # "health" /\ call' = [call EXCEPT ![i] = o]
        /\ UNCHANGED <<provider, tables, providerKeys, sticky, millis, unannounced, decision>>
    BY <1>12 DEF ProbeFails, Idle
  <2> HIDE DEF o
  <2> QED BY <2>1, <2>2, CallKeeps
<1>13. ASSUME NEW i \in Callers, GrantRevoked(i) PROVE RoutingInv'
  <2>1. call[i].provider \in Providers
    BY <1>13 DEF GrantRevoked, RoutingInv, RoutingTypes, CallType, Idle
  <2>2. DOMAIN sticky' = Scopes
    BY <1>13 DEF GrantRevoked, RoutingInv, RoutingTypes
  <2> QED BY <1>13, <2>1, <2>2, InvalidatingKeeps DEF GrantRevoked, CallType
<1>14. ASSUME NEW i \in Callers, Bumped(i) PROVE RoutingInv'
  BY <1>14, CallKeeps DEF Bumped, CallType, Idle
<1>15. ASSUME NEW i \in Callers, NotRouted(i) PROVE RoutingInv'
  BY <1>15, CallKeeps DEF NotRouted, CallType, Idle
<1>16. ASSUME NEW s \in Scopes, NEW key \in Keys, NEW context \in Contexts, NEW e \in 0..epoch,
              NEW usage \in Usages, NEW budget \in Budgets \union {None},
              Select(s, key, context, e, usage, budget)
       PROVE  RoutingInv'
  BY <1>16, SelectKeeps
<1>17. CASE Tick \/ UNCHANGED routingVars
  <2>1. UNCHANGED <<provider, tables, providerKeys, sticky, call, unannounced, decision>>
        /\ millis' \in Nat
    BY <1>17 DEF Tick, routingVars, RoutingInv, RoutingTypes
  <2>2. RoutingTypes' /\ IndexCovers' /\ DecisionsHold'
    BY <2>1 DEF RoutingInv, RoutingTypes, IndexCovers, DecisionsHold
  <2>3. TableInv'
    BY <2>1, TablesKept
  <2>4. SickOffered'
    BY <2>1, OffersKept DEF Offerable, Shows, Waiting
  <2> QED BY <2>2, <2>3, <2>4 DEF RoutingInv
<1> QED BY <1>1, <1>2, <1>3, <1>4, <1>5, <1>6, <1>7, <1>8, <1>9, <1>10, <1>11, <1>12, <1>13,
           <1>14, <1>15, <1>16, <1>17 DEF RoutingNext

-----------------------------------------------------------------------------
\* Once the report of a sick provider is recorded, no table offers it that was
\* built while the registry showed it healthy, however reports, updates and
\* requests interleave; one built later does only if its caller's list of
\* providers was out of date.
THEOREM RoutingAvoidsTheSick == ASSUME RoutingValues PROVE RoutingSpec => []SickOffered
<1>1. RoutingInit => RoutingInv
  BY InitIInv
<1>2. RoutingInv /\ [RoutingNext]_routingVars => RoutingInv'
  BY NextKeeps
<1>3. RoutingInv => SickOffered
  BY DEF RoutingInv
<1> QED BY <1>1, <1>2, <1>3, PTL DEF RoutingSpec

\* Whatever the cache holds, a selection is one the filter allows in a context
\* with the stamps of the request, and inside the budget.
THEOREM SelectionsAreAllowed == ASSUME RoutingValues PROVE RoutingSpec => []DecisionsHold
<1>1. RoutingInit => RoutingInv
  BY InitIInv
<1>2. RoutingInv /\ [RoutingNext]_routingVars => RoutingInv'
  BY NextKeeps
<1>3. RoutingInv => DecisionsHold
  BY DEF RoutingInv
<1> QED BY <1>1, <1>2, <1>3, PTL DEF RoutingSpec

-----------------------------------------------------------------------------
\* An activity that began under the ceiling of its request stays under it and
\* under the ceiling of its parent, whatever it asks to escalate to, and gets to
\* the deep profile only by a grant (model/profile.ts).
THEOREM EscalationStaysBelow ==
  ASSUME NEW chains, NEW request, NEW parent \in Int, NEW child \in Int,
         request.from \in Int, request.to \in Int,
         request.ceiling = NarrowProfileCeiling(parent, child),
         ProfileWithinCeiling(request.from, request.ceiling)
  PROVE  LET got == EvaluateEscalation(chains, request)
         IN  /\ ProfileWithinCeiling(got, parent) /\ ProfileWithinCeiling(got, child)
             /\ got = 2 => request.from = 2 \/ request.deepGrant
  BY DEF NarrowProfileCeiling, ProfileWithinCeiling, EvaluateEscalation

(***************************************************************************)
(* Frames and approvals, for every number of frames, merges, requests and  *)
(* overlapping decisions.                                                  *)
(*                                                                         *)
(* Permissions are simple: what waits to be remembered is on record, and   *)
(* is about the request its operator was shown, whatever took its place.   *)
(*                                                                         *)
(* Frames: a raw merge was compared with its target when it was asked for  *)
(* and is applied later.  In between both frames may have grown: the       *)
(* target only upwards, which is harmless, and the source upwards too,     *)
(* which is not, but which changes its revision and makes the merge stale. *)
(* The invariant says that as long as the revision of the source is still  *)
(* the one the output was drawn at, the comparison still holds.            *)
(***************************************************************************)

Frame == [parent : Frames \union {Nothing}, class : Levels, holds : SUBSET Levels,
          revision : Nat]

Drawn == [at : {"drawn", "preflight", "evaluating", "reviewing", "queued", "recording"},
          source : Frames, target : Frames, level : Levels, revision : Nat,
          content : Contents, commutative : BOOLEAN, sanitized : BOOLEAN,
          appendSafe : BOOLEAN]

\* The marker of a frame that does not exist is no frame, and the posture is
\* not the standard one, in which everything has one classification.
FlowValues == Nothing \notin Frame /\ Standard = FALSE

\* The classification of a frame bounds what it holds unsanitized, whatever was
\* merged into it (InformationFlow, context-manager.ts).
NothingFlowsDown ==
  \A f \in Frames : frame[f] # Nothing => \A level \in frame[f].holds : level <= frame[f].class

FlowTypes ==
  /\ frame \in [Frames -> Frame \union {Nothing}]
  /\ active \in Frames /\ frame[active] # Nothing
  /\ merge \in [Merges -> Drawn \union {NoMerge}]
  /\ cache \in [Contents -> [approved : BOOLEAN, appendSafe : BOOLEAN] \union {Nothing}]

StillComparable(m) ==
  /\ frame[merge[m].source] # Nothing /\ frame[merge[m].target] # Nothing
  /\ merge[m].revision <= frame[merge[m].source].revision
  /\ merge[m].revision = frame[merge[m].source].revision =>
       /\ merge[m].level <= frame[merge[m].source].class
       /\ merge[m].at = "queued" /\ ~merge[m].sanitized =>
            frame[merge[m].source].class <= frame[merge[m].target].class
  /\ ~merge[m].sanitized => ~merge[m].appendSafe

MergeInv == \A m \in Merges : merge[m] # NoMerge => StillComparable(m)

FlowInv == FlowTypes /\ MergeInv /\ NothingFlowsDown

-----------------------------------------------------------------------------
\* A merge that waits is a drawn one.
LEMMA WaitingIsDrawn ==
  ASSUME FlowTypes, NEW m \in Merges
  PROVE  merge[m] # NoMerge <=> merge[m] \in Drawn
<1>1. NoMerge.at = "idle"
  BY DEF NoMerge
<1>2. NoMerge \notin Drawn
  BY <1>1 DEF Drawn
<1> QED BY <1>2 DEF FlowTypes

\* Frames only grow: a frame whose revision is unchanged is unchanged.
Grown ==
  \A f \in Frames : frame[f] # Nothing =>
    /\ frame'[f] # Nothing
    /\ frame[f].class <= frame'[f].class
    /\ frame[f].revision <= frame'[f].revision
    /\ frame[f].revision = frame'[f].revision => frame'[f] = frame[f]

\* A wire raises the classification to that of what it adds, and no frame
\* holds more than its classification allows afterwards.
LEMMA WiredGrows ==
  ASSUME FlowValues, FlowInv, NEW f \in Frames, frame[f] # Nothing,
         NEW level \in Levels, NEW holds \in SUBSET Levels,
         \A l \in holds : l <= Higher(frame[f].class, level),
         frame' = Wired(f, level, holds)
  PROVE  /\ frame' \in [Frames -> Frame \union {Nothing}]
         /\ Grown
         /\ NothingFlowsDown'
<1> DEFINE new == [parent |-> frame[f].parent,
                   class |-> Higher(frame[f].class, level),
                   holds |-> frame[f].holds \union holds,
                   revision |-> frame[f].revision + 1]
<1>1. frame[f] \in Frame /\ frame \in [Frames -> Frame \union {Nothing}]
  BY DEF FlowInv, FlowTypes
<1>2. frame[f].class \in Levels /\ frame[f].revision \in Nat /\ frame[f].holds \subseteq Levels
  BY <1>1 DEF Frame
<1>3. Higher(frame[f].class, level) \in Levels /\ frame[f].class <= Higher(frame[f].class, level)
  BY <1>2 DEF Higher, Levels
<1>4. new \in Frame
  BY <1>1, <1>2, <1>3 DEF Frame
<1>5. frame' = [frame EXCEPT ![f] = new]
  BY DEF Wired, Classification, FlowValues
<1>6. /\ new.class = Higher(frame[f].class, level) /\ new.revision = frame[f].revision + 1
      /\ new.holds = frame[f].holds \union holds
  OBVIOUS
<1> HIDE DEF new
<1>7. frame'[f] = new /\ \A g \in Frames \ {f} : frame'[g] = frame[g]
  BY <1>1, <1>5
<1>8. frame' \in [Frames -> Frame \union {Nothing}]
  BY <1>1, <1>4, <1>5
<1>9. Grown
  <2> SUFFICES ASSUME NEW g \in Frames, frame[g] # Nothing
               PROVE  /\ frame'[g] # Nothing
                      /\ frame[g].class <= frame'[g].class
                      /\ frame[g].revision <= frame'[g].revision
                      /\ frame[g].revision = frame'[g].revision => frame'[g] = frame[g]
    BY DEF Grown
  <2>1. CASE g = f
    BY <2>1, <1>2, <1>3, <1>4, <1>6, <1>7 DEF FlowValues, Levels
  <2>2. CASE g # f
    <3>1. frame[g] \in Frame
      BY <1>1
    <3>2. frame[g].class \in Levels /\ frame[g].revision \in Nat
      BY <3>1 DEF Frame
    <3> QED BY <2>2, <3>2, <1>7 DEF Levels
  <2> QED BY <2>1, <2>2
<1>10. NothingFlowsDown'
  <2> SUFFICES ASSUME NEW g \in Frames, frame'[g] # Nothing, NEW l \in frame'[g].holds
               PROVE  l <= frame'[g].class
    BY DEF NothingFlowsDown
  <2>1. CASE g = f /\ l \in frame[f].holds
    <3>1. l \in Levels /\ l <= frame[f].class
      BY <2>1, <1>2 DEF FlowInv, NothingFlowsDown
    <3> QED BY <2>1, <3>1, <1>2, <1>3, <1>6, <1>7 DEF Levels
  <2>2. CASE g = f /\ l \in holds
    BY <2>2, <1>6, <1>7
  <2>3. CASE g # f
    BY <2>3, <1>7 DEF FlowInv, NothingFlowsDown
  <2> QED BY <2>1, <2>2, <2>3, <1>6, <1>7
<1> QED BY <1>8, <1>9, <1>10

\* What is said of a waiting merge stays true while frames grow.
LEMMA WaitingKept ==
  ASSUME FlowValues, FlowTypes, Grown, NEW m \in Merges, merge[m] # NoMerge, StillComparable(m),
         frame' \in [Frames -> Frame \union {Nothing}], merge'[m] = merge[m]
  PROVE  StillComparable(m)'
<1> DEFINE s == merge[m].source
           t == merge[m].target
<1>1. merge[m] \in Drawn
  BY WaitingIsDrawn
<1>2. s \in Frames /\ t \in Frames /\ merge[m].revision \in Nat
  BY <1>1 DEF Drawn
<1>3. /\ frame[s] \in Frame /\ frame[t] \in Frame /\ frame'[s] # Nothing /\ frame'[t] # Nothing
      /\ frame'[s] \in Frame /\ frame'[t] \in Frame
  BY <1>2 DEF StillComparable, FlowTypes, Grown
<1>4. /\ frame[s].class \in 0..3 /\ frame[t].class \in 0..3
      /\ frame[s].revision \in Nat /\ frame'[s].revision \in Nat
      /\ frame'[s].class \in 0..3 /\ frame'[t].class \in 0..3
  BY <1>3 DEF Frame, Levels
<1>5. /\ frame[t].class <= frame'[t].class
      /\ frame[s].revision <= frame'[s].revision
      /\ frame[s].revision = frame'[s].revision => frame'[s] = frame[s]
  BY <1>2, <1>3 DEF Grown, StillComparable
<1>6. merge[m].revision = frame'[s].revision => frame'[s] = frame[s]
  BY <1>2, <1>4, <1>5 DEF StillComparable
<1>7. merge[m].revision <= frame'[s].revision
  BY <1>2, <1>4, <1>5 DEF StillComparable
<1> QED BY <1>3, <1>4, <1>5, <1>6, <1>7 DEF StillComparable

\* A step that leaves the frames alone.
LEMMA SameFramesGrow ==
  ASSUME FlowTypes, frame' = frame
  PROVE  Grown
<1> SUFFICES ASSUME NEW f \in Frames, frame[f] # Nothing
             PROVE  frame[f].class <= frame[f].class /\ frame[f].revision <= frame[f].revision
  BY DEF Grown
<1>1. frame[f] \in Frame
  BY DEF FlowTypes
<1>2. frame[f].class \in 0..3 /\ frame[f].revision \in Nat
  BY <1>1 DEF Frame, Levels
<1> QED BY <1>2

\* A step of one merge preserves the invariant if the merge is comparable after
\* it and the frames only grow.
LEMMA OneMerge ==
  ASSUME FlowValues, FlowInv, NEW m \in Merges, NEW v \in Drawn \union {NoMerge},
         merge' = [merge EXCEPT ![m] = v],
         frame' \in [Frames -> Frame \union {Nothing}], Grown, NothingFlowsDown',
         active' = active,
         cache' \in [Contents -> [approved : BOOLEAN, appendSafe : BOOLEAN] \union {Nothing}],
         merge'[m] # NoMerge => StillComparable(m)'
  PROVE  FlowInv'
<1>1. merge' \in [Merges -> Drawn \union {NoMerge}]
  BY DEF FlowInv, FlowTypes
<1>2. active' \in Frames /\ frame'[active'] # Nothing
  BY DEF FlowInv, FlowTypes, Grown
<1>3. ASSUME NEW n \in Merges, merge'[n] # NoMerge
      PROVE  StillComparable(n)'
  <2>1. CASE n = m
    BY <1>3, <2>1
  <2>2. CASE n # m
    <3>1. merge'[n] = merge[n]
      BY <2>2 DEF FlowInv, FlowTypes
    <3> QED BY <1>3, <3>1, WaitingKept DEF FlowInv, MergeInv
  <2> QED BY <2>1, <2>2
<1> QED BY <1>1, <1>2, <1>3 DEF FlowInv, FlowTypes, MergeInv

\* A merge that waits and moves on without touching any frame.
LEMMA MovesOn ==
  ASSUME FlowValues, FlowInv, NEW m \in Merges, merge[m] # NoMerge,
         NEW v \in Drawn, merge' = [merge EXCEPT ![m] = v],
         v.source = merge[m].source, v.target = merge[m].target,
         v.level = merge[m].level, v.revision = merge[m].revision,
         ~v.sanitized => ~v.appendSafe,
         v.at = "queued" => \/ v.sanitized
                            \/ frame[v.source].class <= frame[v.target].class,
         frame' = frame, active' = active,
         cache' \in [Contents -> [approved : BOOLEAN, appendSafe : BOOLEAN] \union {Nothing}]
  PROVE  FlowInv'
<1>1. frame \in [Frames -> Frame \union {Nothing}] /\ Grown /\ NothingFlowsDown'
  BY SameFramesGrow DEF FlowInv, FlowTypes, NothingFlowsDown
<1>2. merge'[m] = v
  BY DEF FlowInv, FlowTypes
<1>3. StillComparable(m)
  BY DEF FlowInv, MergeInv
<1>4. StillComparable(m)'
  BY <1>2, <1>3 DEF StillComparable
<1> QED BY <1>1, <1>4, OneMerge

\* A merge that ends without touching any frame.
LEMMA Ends ==
  ASSUME FlowValues, FlowInv, NEW m \in Merges, Settle(m),
         frame' = frame, active' = active,
         cache' \in [Contents -> [approved : BOOLEAN, appendSafe : BOOLEAN] \union {Nothing}]
  PROVE  FlowInv'
<1>1. frame \in [Frames -> Frame \union {Nothing}] /\ Grown /\ NothingFlowsDown'
  BY SameFramesGrow DEF FlowInv, FlowTypes, NothingFlowsDown
<1>2. merge'[m] = NoMerge
  BY DEF FlowInv, FlowTypes, Settle
<1> QED BY <1>1, <1>2, OneMerge DEF Settle

\* An approved merge is queued as sanitized.
LEMMA Approved ==
  ASSUME FlowValues, FlowInv, NEW m \in Merges, merge[m] # NoMerge,
         NEW appendSafe \in BOOLEAN, Approve(m, appendSafe),
         frame' = frame, active' = active,
         cache' \in [Contents -> [approved : BOOLEAN, appendSafe : BOOLEAN] \union {Nothing}]
  PROVE  FlowInv'
<1> DEFINE v == [merge[m] EXCEPT !.at = "queued", !.sanitized = TRUE, !.appendSafe = appendSafe]
<1>1. merge[m] \in Drawn
  BY WaitingIsDrawn DEF FlowInv
<1>2. v \in Drawn /\ v.source = merge[m].source /\ v.target = merge[m].target
      /\ v.level = merge[m].level /\ v.revision = merge[m].revision /\ v.sanitized
  BY <1>1 DEF Drawn
<1>3. merge' = [merge EXCEPT ![m] = v]
  BY <1>1 DEF Approve, FlowInv, FlowTypes
<1> HIDE DEF v
<1> QED BY <1>2, <1>3, MovesOn

LEMMA CacheTyped ==
  ASSUME FlowTypes, NEW c \in Contents, NEW approved \in BOOLEAN, NEW appendSafe \in BOOLEAN,
         cache' = [cache EXCEPT ![c] = Decision(approved, appendSafe)]
  PROVE  cache' \in [Contents -> [approved : BOOLEAN, appendSafe : BOOLEAN] \union {Nothing}]
  BY DEF FlowTypes, Decision

-----------------------------------------------------------------------------
LEMMA InitInv ==
  ASSUME FlowValues, FlowInit
  PROVE  FlowInv
<1>1. PICK f \in Frames :
        /\ frame = [g \in Frames |-> IF g = f THEN NewFrame(Nothing, 1) ELSE Nothing]
        /\ active = f
        /\ merge = [m \in Merges |-> NoMerge]
        /\ cache = [c \in Contents |-> Nothing]
  BY DEF FlowInit
<1>2. NewFrame(Nothing, 1) \in Frame /\ NewFrame(Nothing, 1).holds = {}
  BY DEF NewFrame, Frame, Classification, FlowValues, Levels
<1>3. frame[f] = NewFrame(Nothing, 1) /\ \A g \in Frames : frame[g] # Nothing => frame[g].holds = {}
  BY <1>1, <1>2
<1>4. FlowTypes
  BY <1>1, <1>2, <1>3 DEF FlowTypes, FlowValues
<1>5. MergeInv
  BY <1>1 DEF MergeInv
<1> QED BY <1>3, <1>4, <1>5 DEF FlowInv, NothingFlowsDown

LEMMA ForkInv ==
  ASSUME FlowValues, FlowInv, NEW f \in Frames, NEW level \in Levels, Fork(f, level)
  PROVE  FlowInv'
<1> DEFINE new == NewFrame(active, Higher(frame[active].class, Classification(level)))
<1>1. frame \in [Frames -> Frame \union {Nothing}] /\ active \in Frames /\ frame[active] \in Frame
  BY DEF FlowInv, FlowTypes
<1>2. frame[active].class \in Levels
  BY <1>1 DEF Frame
<1>3. new \in Frame /\ new.holds = {}
  BY <1>1, <1>2 DEF NewFrame, Frame, Classification, FlowValues, Levels, Higher
<1>4. frame' = [frame EXCEPT ![f] = new] /\ active' = f /\ merge' = merge /\ cache' = cache
  BY DEF Fork
<1> HIDE DEF new
<1>5. frame'[f] = new /\ \A g \in Frames \ {f} : frame'[g] = frame[g]
  BY <1>1, <1>4
<1>6. frame' \in [Frames -> Frame \union {Nothing}]
  BY <1>1, <1>3, <1>4
<1>7. Grown
  <2> SUFFICES ASSUME NEW g \in Frames, frame[g] # Nothing
               PROVE  /\ frame'[g] = frame[g]
                      /\ frame[g].class <= frame[g].class /\ frame[g].revision <= frame[g].revision
    BY DEF Grown
  <2>1. g # f /\ frame[g] \in Frame
    BY <1>1 DEF Fork
  <2>2. frame[g].class \in 0..3 /\ frame[g].revision \in Nat
    BY <2>1 DEF Frame, Levels
  <2> QED BY <2>1, <2>2, <1>5
<1>8. NothingFlowsDown'
  BY <1>3, <1>5 DEF FlowInv, NothingFlowsDown
<1>9. FlowTypes'
  BY <1>3, <1>4, <1>5, <1>6 DEF FlowInv, FlowTypes, FlowValues
<1>10. MergeInv'
  BY <1>4, <1>6, <1>7, WaitingKept DEF FlowInv, MergeInv
<1> QED BY <1>8, <1>9, <1>10 DEF FlowInv

LEMMA WireInv ==
  ASSUME FlowValues, FlowInv, NEW f \in Frames, NEW level \in Levels, Wire(f, level)
  PROVE  FlowInv'
<1>1. frame[f] \in Frame /\ {level} \in SUBSET Levels
  BY DEF Wire, FlowInv, FlowTypes
<1>2. frame[f].class \in 0..3
  BY <1>1 DEF Frame, Levels
<1>3. \A l \in {level} : l <= Higher(frame[f].class, level)
  BY <1>2 DEF Higher, Levels
<1>4. frame' \in [Frames -> Frame \union {Nothing}] /\ Grown /\ NothingFlowsDown'
  BY <1>1, <1>3, WiredGrows DEF Wire
<1>5. FlowTypes'
  BY <1>4 DEF Wire, FlowInv, FlowTypes, Grown
<1>6. MergeInv'
  BY <1>4, WaitingKept DEF Wire, FlowInv, MergeInv
<1> QED BY <1>4, <1>5, <1>6 DEF FlowInv

LEMMA DrawInv ==
  ASSUME FlowValues, FlowInv, NEW m \in Merges, NEW s \in Frames, NEW t \in Frames,
         NEW level \in Levels, NEW c \in Contents, NEW commutative \in BOOLEAN,
         Draw(m, s, t, level, c, commutative)
  PROVE  FlowInv'
<1> DEFINE v == [at |-> "drawn", source |-> s, target |-> t, level |-> level,
                 revision |-> frame[s].revision, content |-> c,
                 commutative |-> commutative, sanitized |-> FALSE, appendSafe |-> FALSE]
<1>1. frame[s] \in Frame
  BY DEF Draw, FlowInv, FlowTypes
<1>2. frame[s].revision \in Nat
  BY <1>1 DEF Frame
<1>3. v \in Drawn
  BY <1>2 DEF Drawn
<1>4. merge' = [merge EXCEPT ![m] = v]
  BY DEF Draw
<1>5. v.at = "drawn" /\ v.source = s /\ v.target = t /\ v.level = level
      /\ v.revision = frame[s].revision /\ ~v.sanitized /\ ~v.appendSafe
  OBVIOUS
<1> HIDE DEF v
<1>6. merge'[m] = v
  BY <1>4 DEF FlowInv, FlowTypes
<1>7. StillComparable(m)'
  BY <1>2, <1>5, <1>6 DEF StillComparable, Draw
<1>8. frame \in [Frames -> Frame \union {Nothing}] /\ frame' = frame /\ Grown /\ NothingFlowsDown'
  BY SameFramesGrow DEF Draw, FlowInv, FlowTypes, NothingFlowsDown
<1> QED BY <1>3, <1>4, <1>7, <1>8, OneMerge DEF Draw, FlowInv, FlowTypes

LEMMA MergeRawInv ==
  ASSUME FlowValues, FlowInv, NEW m \in Merges, MergeRaw(m)
  PROVE  FlowInv'
<1> DEFINE v == [merge[m] EXCEPT !.at = "queued"]
<1>1. merge[m] \in Drawn /\ merge[m] # NoMerge
  BY WaitingIsDrawn DEF MergeRaw, Counted, FlowInv, FlowTypes, NoMerge
<1>2. v \in Drawn /\ v.source = merge[m].source /\ v.target = merge[m].target
      /\ v.level = merge[m].level /\ v.revision = merge[m].revision
      /\ v.sanitized = merge[m].sanitized /\ v.appendSafe = merge[m].appendSafe
  BY <1>1 DEF Drawn
<1>3. merge' = [merge EXCEPT ![m] = v]
  BY <1>1 DEF MergeRaw, FlowInv, FlowTypes
<1>4. merge[m].source \in Frames /\ merge[m].target \in Frames
  BY <1>1 DEF Drawn
<1>5. frame[merge[m].source] \in Frame /\ frame[merge[m].target] \in Frame
      /\ (~merge[m].sanitized => ~merge[m].appendSafe)
  BY <1>1, <1>4 DEF FlowInv, FlowTypes, MergeInv, StillComparable
<1>6. frame[merge[m].source].class \in 0..3 /\ frame[merge[m].target].class \in 0..3
  BY <1>5 DEF Frame, Levels
<1>7. frame[merge[m].source].class <= frame[merge[m].target].class
  BY <1>6 DEF MergeRaw, RequiresDeclassification
<1> HIDE DEF v
<1>8. frame' = frame /\ active' = active
      /\ cache' \in [Contents -> [approved : BOOLEAN, appendSafe : BOOLEAN] \union {Nothing}]
  BY DEF MergeRaw, FlowInv, FlowTypes
<1> QED BY <1>1, <1>2, <1>3, <1>5, <1>7, <1>8, MovesOn

\* A step to another stage that is not the queue.
LEMMA StageInv ==
  ASSUME FlowValues, FlowInv, NEW m \in Merges, merge[m] # NoMerge,
         NEW stage \in {"preflight", "evaluating", "reviewing"},
         merge' = [merge EXCEPT ![m].at = stage],
         frame' = frame, active' = active, cache' = cache
  PROVE  FlowInv'
<1> DEFINE v == [merge[m] EXCEPT !.at = stage]
<1>1. merge[m] \in Drawn
  BY WaitingIsDrawn DEF FlowInv
<1>2. v \in Drawn /\ v.source = merge[m].source /\ v.target = merge[m].target
      /\ v.level = merge[m].level /\ v.revision = merge[m].revision /\ v.at = stage
      /\ v.sanitized = merge[m].sanitized /\ v.appendSafe = merge[m].appendSafe
  BY <1>1 DEF Drawn
<1>3. merge' = [merge EXCEPT ![m] = v]
  BY <1>1 DEF FlowInv, FlowTypes
<1>4. ~merge[m].sanitized => ~merge[m].appendSafe
  BY DEF FlowInv, MergeInv, StillComparable
<1> HIDE DEF v
<1> QED BY <1>2, <1>3, <1>4, MovesOn DEF FlowInv, FlowTypes

LEMMA ApplyInv ==
  ASSUME FlowValues, FlowInv, NEW m \in Merges, Apply(m)
  PROVE  FlowInv'
<1> DEFINE s == merge[m].source
           t == merge[m].target
           holds == IF merge[m].sanitized THEN {} ELSE {merge[m].level}
           v == [merge[m] EXCEPT !.at = "recording"]
<1>1. merge[m] \in Drawn /\ merge[m] # NoMerge
  BY WaitingIsDrawn DEF Apply, IsNext, FlowInv, FlowTypes, NoMerge
<1>2. s \in Frames /\ t \in Frames /\ merge[m].level \in Levels
  BY <1>1 DEF Drawn
<1>3. StillComparable(m)
  BY <1>1 DEF FlowInv, MergeInv
<1>4. frame[s] \in Frame /\ frame[t] \in Frame /\ frame[t] # Nothing
  BY <1>2, <1>3 DEF FlowInv, FlowTypes, StillComparable
<1>5. frame[s].class \in 0..3 /\ frame[t].class \in 0..3 /\ merge[m].level \in 0..3
  BY <1>2, <1>4 DEF Frame, Levels
<1>6. ~merge[m].sanitized => merge[m].level <= frame[t].class
  <2> SUFFICES ASSUME ~merge[m].sanitized
               PROVE  merge[m].level <= frame[t].class
    OBVIOUS
  <2>1. merge[m].revision = frame[s].revision
    BY <1>3 DEF StillComparable, Apply, IsStale
  <2>2. merge[m].level <= frame[s].class /\ frame[s].class <= frame[t].class
    BY <1>3, <2>1 DEF StillComparable, Apply, IsNext
  <2> QED BY <1>5, <2>2
<1>7. holds \in SUBSET Levels /\ \A l \in holds : l <= Higher(frame[t].class, frame[t].class)
  BY <1>2, <1>6 DEF Higher
<1>8. frame' = Wired(t, frame[t].class, holds)
  BY DEF Apply
<1>9. frame[t].class \in Levels
  BY <1>4 DEF Frame
<1> HIDE DEF holds
<1>10. frame' \in [Frames -> Frame \union {Nothing}] /\ Grown /\ NothingFlowsDown'
  BY <1>2, <1>4, <1>7, <1>8, <1>9, WiredGrows
<1>11. v \in Drawn /\ v.source = s /\ v.target = t /\ v.at = "recording"
       /\ v.level = merge[m].level /\ v.revision = merge[m].revision
       /\ v.sanitized = merge[m].sanitized /\ v.appendSafe = merge[m].appendSafe
  BY <1>1 DEF Drawn
<1>12. merge' = [merge EXCEPT ![m] = v]
  BY <1>1 DEF Apply, FlowInv, FlowTypes
<1> HIDE DEF v
<1>13. merge'[m] = v
  BY <1>12 DEF FlowInv, FlowTypes
<1>14. frame'[s] # Nothing /\ frame'[t] # Nothing
       /\ frame[s].revision <= frame'[s].revision
       /\ (frame[s].revision = frame'[s].revision => frame'[s] = frame[s])
  BY <1>2, <1>3, <1>10 DEF Grown, StillComparable
<1>15. frame[s].revision \in Nat /\ frame'[s].revision \in Nat /\ merge[m].revision \in Nat
  <2>1. frame'[s] \in Frame
    BY <1>2, <1>10, <1>14
  <2> QED BY <1>1, <1>4, <2>1 DEF Frame, Drawn
<1>16. merge[m].revision <= frame[s].revision
  BY <1>3 DEF StillComparable
<1>17. merge[m].revision <= frame'[s].revision
       /\ (merge[m].revision = frame'[s].revision => frame'[s] = frame[s])
  BY <1>14, <1>15, <1>16
<1>18. merge[m].revision = frame'[s].revision => merge[m].level <= frame'[s].class
  BY <1>3, <1>17 DEF StillComparable
<1>19. StillComparable(m)'
  BY <1>3, <1>11, <1>13, <1>14, <1>17, <1>18 DEF StillComparable
<1> QED BY <1>10, <1>11, <1>12, <1>19, OneMerge DEF Apply, FlowInv, FlowTypes

LEMMA SanitizerInv ==
  ASSUME FlowValues, FlowInv, NEW m \in Merges,
         \/ PreflightCached(m) \/ PreflightSchema(m) \/ EvaluatorRejects(m)
         \/ HumanApproves(m) \/ HumanRejects(m) \/ Fails(m)
  PROVE  FlowInv'
<1>1. merge[m] \in Drawn /\ merge[m] # NoMerge
  <2>1. merge[m].at \in {"preflight", "evaluating", "reviewing"}
    BY DEF PreflightCached, PreflightSchema, EvaluatorRejects, HumanApproves, HumanRejects, Fails
  <2>2. merge[m] # NoMerge
    BY <2>1 DEF NoMerge
  <2> QED BY <2>2, WaitingIsDrawn DEF FlowInv
<1>2. merge[m].content \in Contents
  BY <1>1 DEF Drawn
<1>3. cache \in [Contents -> [approved : BOOLEAN, appendSafe : BOOLEAN] \union {Nothing}]
  BY DEF FlowInv, FlowTypes
<1>4. CASE PreflightCached(m)
  <2>1. frame' = frame /\ active' = active /\ cache' = cache
    BY <1>4 DEF PreflightCached
  <2>2. cache[merge[m].content].appendSafe \in BOOLEAN
    BY <1>2, <1>3, <1>4 DEF PreflightCached
  <2>5. cache' \in [Contents -> [approved : BOOLEAN, appendSafe : BOOLEAN] \union {Nothing}]
    BY <1>3, <2>1
  <2>3. CASE Approve(m, cache[merge[m].content].appendSafe)
    BY <1>1, <2>1, <2>2, <2>3, <2>5, Approved
  <2>4. CASE Settle(m)
    BY <2>1, <2>4, <2>5, Ends
  <2> QED BY <1>4, <2>3, <2>4 DEF PreflightCached
<1>5. CASE PreflightSchema(m)
  <2> DEFINE safe == merge[m].content \in AppendSafe
  <2>1. /\ cache' = [cache EXCEPT ![merge[m].content] = Decision(TRUE, safe)]
        /\ Approve(m, safe) /\ frame' = frame /\ active' = active
    BY <1>5 DEF PreflightSchema
  <2>2. safe \in BOOLEAN
    <3>1. CASE safe
      <4>1. safe = TRUE
        BY <3>1
      <4> QED BY <4>1
    <3>2. CASE ~safe
      <4>1. safe = FALSE
        BY <3>2
      <4> QED BY <4>1
    <3> QED BY <3>1, <3>2
  <2> HIDE DEF safe
  <2>3. cache' \in [Contents -> [approved : BOOLEAN, appendSafe : BOOLEAN] \union {Nothing}]
    BY <1>2, <2>1, <2>2, CacheTyped DEF FlowInv
  <2> QED BY <1>1, <2>1, <2>2, <2>3, Approved
<1>6. CASE EvaluatorRejects(m)
  <2>1. cache' \in [Contents -> [approved : BOOLEAN, appendSafe : BOOLEAN] \union {Nothing}]
    BY <1>2, <1>6, CacheTyped DEF EvaluatorRejects, FlowInv
  <2> QED BY <1>6, <2>1, Ends DEF EvaluatorRejects
<1>7. CASE HumanApproves(m)
  <2>1. cache' = cache /\ frame' = frame /\ active' = active /\ Approve(m, FALSE)
    BY <1>7 DEF HumanApproves
  <2>2. cache' \in [Contents -> [approved : BOOLEAN, appendSafe : BOOLEAN] \union {Nothing}]
    BY <1>3, <2>1
  <2> QED BY <1>1, <2>1, <2>2, Approved
<1>8. CASE HumanRejects(m) \/ Fails(m)
  <2>1. cache' = cache /\ frame' = frame /\ active' = active /\ Settle(m)
    BY <1>8 DEF HumanRejects, Fails
  <2>2. cache' \in [Contents -> [approved : BOOLEAN, appendSafe : BOOLEAN] \union {Nothing}]
    BY <1>3, <2>1
  <2> QED BY <2>1, <2>2, Ends
<1> QED BY <1>4, <1>5, <1>6, <1>7, <1>8

LEMMA MergeStepInv ==
  ASSUME FlowValues, FlowInv, NEW m \in Merges,
         \/ MergeOverLimit(m) \/ MergeDown(m) \/ PreflightPasses(m) \/ EvaluatorApproves(m)
         \/ ApplyStale(m) \/ Recorded(m)
  PROVE  FlowInv'
<1>1. merge[m] # NoMerge
  BY DEF MergeOverLimit, MergeDown, Counted, PreflightPasses, EvaluatorApproves, ApplyStale,
     IsNext, Recorded, NoMerge
<1>2. frame' = frame /\ active' = active /\ cache' = cache
  BY DEF MergeOverLimit, MergeDown, PreflightPasses, EvaluatorApproves, ApplyStale, Recorded
<1>3. cache' \in [Contents -> [approved : BOOLEAN, appendSafe : BOOLEAN] \union {Nothing}]
  BY <1>2 DEF FlowInv, FlowTypes
<1>4. CASE MergeOverLimit(m) \/ ApplyStale(m) \/ Recorded(m)
  BY <1>2, <1>3, <1>4, Ends DEF MergeOverLimit, ApplyStale, Recorded
<1>5. CASE MergeDown(m) \/ PreflightPasses(m) \/ EvaluatorApproves(m)
  BY <1>1, <1>2, <1>5, StageInv DEF MergeDown, PreflightPasses, EvaluatorApproves
<1> QED BY <1>4, <1>5

LEMMA NextInv ==
  ASSUME FlowValues, FlowInv, [FlowNext]_flowVars
  PROVE  FlowInv'
<1>1. CASE UNCHANGED flowVars
  BY <1>1 DEF flowVars, FlowInv, FlowTypes, MergeInv, StillComparable, NothingFlowsDown
<1>2. ASSUME NEW f \in Frames, NEW level \in Levels, Fork(f, level) \/ Wire(f, level)
      PROVE  FlowInv'
  BY <1>2, ForkInv, WireInv
<1>3. ASSUME NEW m \in Merges, NEW s \in Frames, NEW t \in Frames, NEW level \in Levels,
             NEW c \in Contents, NEW commutative \in BOOLEAN,
             Draw(m, s, t, level, c, commutative)
      PROVE  FlowInv'
  BY <1>3, DrawInv
<1>4. ASSUME NEW m \in Merges, MergeRaw(m) \/ Apply(m)
      PROVE  FlowInv'
  BY <1>4, MergeRawInv, ApplyInv
<1> QED BY <1>1, <1>2, <1>3, <1>4, SanitizerInv, MergeStepInv DEF FlowNext

\* Outside the standard posture no frame ever holds unsanitized content above
\* its own classification, whatever order merges, wires and approvals come in
\* (context-manager.ts, sanitizer.ts).
THEOREM ContextsNeverLeakDown ==
  ASSUME FlowValues
  PROVE  FlowSpec => []NothingFlowsDown
<1>1. FlowInit => FlowInv
  BY InitInv
<1>2. FlowInv /\ [FlowNext]_flowVars => FlowInv'
  BY NextInv
<1>3. FlowInv => NothingFlowsDown
  BY DEF FlowInv
<1> QED BY <1>1, <1>2, <1>3, PTL DEF FlowSpec

-----------------------------------------------------------------------------
Stages == {"proposing", "recording", "recorded"}

Underway == [at : Stages, id : RequestIds, request : Requests, choice : Choices,
             input : Inputs, operator : Operators, decided : Times \union Nat]

Entry == [id : RequestIds, request : Requests, choice : Choices, input : Inputs,
          operator : Operators, decided : Times \union Nat]

\* The operator was shown the bytes of the request, and the time of the decision,
\* its caller's or else the clock's, is not past the request's expiry.
Witnessed(e) == e.input = e.request.input /\ e.decided <= e.request.expires

\* Every permission the service remembers goes back to a decision of an operator
\* who was shown the bytes of that very request, and whose choice, with the id
\* and the digest of the request, is on record (approvals.ts, deferred.ts).  The
\* record itself holds neither the operation nor the time.
PermissionsOnRecord ==
  /\ \A k \in allowances : \E e \in settled :
       /\ Witnessed(e) /\ RecordOf(e) \in records
       /\ e.choice = "allow-session" /\ SessionKey(e.request) = k
  /\ \A k \in remembered : \E e \in settled :
       /\ Witnessed(e) /\ RecordOf(e) \in records
       /\ Allows(e.choice)
       /\ IsDeferred(e.request) /\ DeferredKey(e.request) = k

ApprovalTypes ==
  /\ requests \in [RequestIds -> Requests \union {NoRequest}]
  /\ deciding \in [Deciders -> Underway \union {Undecided}]
  /\ settled \subseteq Entry
  /\ clock \in Nat

UnderwayInv ==
  \A d \in Deciders : deciding[d] # Undecided =>
    /\ Witnessed(DecisionOf(deciding[d]))
    /\ deciding[d].at = "recorded" =>
         /\ DecisionOf(deciding[d]) \in settled
         /\ RecordOf(DecisionOf(deciding[d])) \in records

ApprovalInv == ApprovalTypes /\ UnderwayInv /\ PermissionsOnRecord

LEMMA UnderwayOnly ==
  ASSUME ApprovalTypes, NEW d \in Deciders
  PROVE  /\ deciding[d] # Undecided <=> deciding[d] \in Underway
         /\ deciding[d] # Undecided <=> deciding[d].at \in Stages
<1>1. Undecided \notin Underway /\ Undecided.at \notin Stages
  BY DEF Undecided, Underway, Stages
<1> QED BY <1>1 DEF ApprovalTypes, Underway

\* Permissions stay on record while the records only grow and no permission is added.
LEMMA PermissionsKept ==
  ASSUME PermissionsOnRecord, allowances' \subseteq allowances, remembered' \subseteq remembered,
         records \subseteq records', settled \subseteq settled'
  PROVE  PermissionsOnRecord'
  BY DEF PermissionsOnRecord

LEMMA ApprovalsInitInv ==
  ASSUME ApprovalsInit
  PROVE  ApprovalInv
  BY DEF ApprovalsInit, ApprovalInv, ApprovalTypes, UnderwayInv, PermissionsOnRecord

LEMMA DecideInv ==
  ASSUME ApprovalInv, NoRequest \notin Requests,
         NEW d \in Deciders, NEW i \in RequestIds, NEW choice \in Choices, NEW input \in Inputs,
         NEW operator \in Operators, NEW decided \in Times \union {clock},
         Decide(d, i, choice, input, operator, decided)
  PROVE  ApprovalInv'
<1> DEFINE v == [at |-> IF choice = "propose-policy" THEN "proposing" ELSE "recording",
                 id |-> i, request |-> requests[i], choice |-> choice, input |-> input,
                 operator |-> operator, decided |-> decided]
<1>1. requests[i] \in Requests /\ decided \in Times \union Nat
  BY DEF Decide, ApprovalInv, ApprovalTypes
<1>2. v \in Underway
  BY <1>1 DEF Underway, Stages
<1>3. /\ DecisionOf(v) = [id |-> i, request |-> requests[i], choice |-> choice, input |-> input,
                          operator |-> operator, decided |-> decided]
      /\ v.at # "recorded"
  BY DEF DecisionOf
<1>4. Witnessed(DecisionOf(v))
  BY <1>3 DEF Witnessed, Decide, Presented
<1>5. deciding' = [deciding EXCEPT ![d] = v]
  BY DEF Decide
<1> HIDE DEF v
<1>6. ApprovalTypes'
  BY <1>2, <1>5 DEF Decide, ApprovalInv, ApprovalTypes
<1>7. UnderwayInv'
  BY <1>3, <1>4, <1>5 DEF Decide, ApprovalInv, ApprovalTypes, UnderwayInv
<1>8. PermissionsOnRecord'
  BY DEF Decide, ApprovalInv, PermissionsOnRecord
<1> QED BY <1>6, <1>7, <1>8 DEF ApprovalInv

LEMMA StageMoves ==
  ASSUME ApprovalInv, NEW d \in Deciders, Proposed(d) \/ DecisionRecorded(d)
  PROVE  ApprovalInv'
<1> DEFINE p == deciding[d]
           stage == IF p.at = "proposing" THEN "recording" ELSE "recorded"
           v == [deciding[d] EXCEPT !.at = stage]
<1>0. p.at \in {"proposing", "recording"}
  BY DEF Proposed, DecisionRecorded
<1>1. p \in Underway /\ p # Undecided
  BY <1>0, UnderwayOnly DEF Stages, ApprovalInv
<1>a. stage \in Stages /\ (stage = "recorded" <=> p.at # "proposing")
  BY DEF Stages
<1> HIDE DEF stage
<1>b. v \in Underway /\ v.at = stage /\ v.request = p.request /\ v.choice = p.choice
      /\ v.input = p.input /\ v.decided = p.decided /\ v.id = p.id /\ v.operator = p.operator
  BY <1>1, <1>a DEF Underway
<1>c. DecisionOf(p) \in Entry
  BY <1>1 DEF Underway, DecisionOf, Entry
<1>2. v \in Underway /\ DecisionOf(v) = DecisionOf(p) /\ DecisionOf(p) \in Entry
      /\ (v.at = "recorded" <=> p.at # "proposing")
  BY <1>a, <1>b, <1>c DEF DecisionOf
<1>3. deciding' = [deciding EXCEPT ![d] = v]
  BY <1>0 DEF Proposed, DecisionRecorded, ApprovalInv, ApprovalTypes, stage
<1>d. RecordOf(DecisionOf(p)) = RecordOf(p)
  BY DEF RecordOf, DecisionOf
<1>4. /\ records' = IF p.at = "proposing" THEN records ELSE records \union {RecordOf(DecisionOf(p))}
      /\ settled' = IF p.at = "proposing" THEN settled ELSE settled \union {DecisionOf(p)}
  BY <1>d DEF Proposed, DecisionRecorded
<1>5. /\ requests' = requests /\ clock' = clock
      /\ allowances' = allowances /\ remembered' = remembered
  BY DEF Proposed, DecisionRecorded
<1>6. Witnessed(DecisionOf(p))
  BY <1>1 DEF ApprovalInv, UnderwayInv
<1> HIDE DEF v
<1>7. ApprovalTypes'
  BY <1>2, <1>3, <1>4, <1>5 DEF ApprovalInv, ApprovalTypes
<1>8. /\ records \subseteq records' /\ settled \subseteq settled'
      /\ v.at = "recorded" => DecisionOf(v) \in settled' /\ RecordOf(DecisionOf(v)) \in records'
  BY <1>2, <1>4
<1>9. UnderwayInv'
  BY <1>2, <1>3, <1>6, <1>8 DEF ApprovalInv, ApprovalTypes, UnderwayInv
<1>10. PermissionsOnRecord'
  BY <1>5, <1>8, PermissionsKept DEF ApprovalInv
<1> QED BY <1>7, <1>9, <1>10 DEF ApprovalInv

LEMMA RememberInv ==
  ASSUME ApprovalInv, NEW d \in Deciders, Remember(d)
  PROVE  ApprovalInv'
<1> DEFINE p == deciding[d]
           e == DecisionOf(deciding[d])
<1>1. p # Undecided /\ p.at = "recorded"
  BY UnderwayOnly DEF Remember, Stages, ApprovalInv
<1>2. /\ e \in settled /\ RecordOf(e) \in records /\ Witnessed(e)
      /\ e.request = deciding[d].request /\ e.choice = deciding[d].choice
  BY <1>1 DEF ApprovalInv, UnderwayInv, DecisionOf
<1>3. deciding' = [deciding EXCEPT ![d] = Undecided] /\ records' = records /\ settled' = settled
      /\ requests' = requests /\ clock' = clock
  BY DEF Remember
<1> HIDE DEF e
<1>4. ASSUME NEW k \in allowances', k \notin allowances
      PROVE  e.choice = "allow-session" /\ SessionKey(e.request) = k
  BY <1>2, <1>4 DEF Remember
<1>5. ASSUME NEW k \in remembered', k \notin remembered
      PROVE  Allows(e.choice) /\ IsDeferred(e.request) /\ DeferredKey(e.request) = k
  <2>1. IsDeferred(deciding[d].request) /\ Allows(deciding[d].choice)
        /\ k = DeferredKey(deciding[d].request)
    BY <1>5 DEF Remember
  <2> QED BY <1>2, <2>1
<1>6. PermissionsOnRecord'
  BY <1>2, <1>3, <1>4, <1>5 DEF ApprovalInv, PermissionsOnRecord
<1>7. ApprovalTypes' /\ UnderwayInv'
  BY <1>3 DEF ApprovalInv, ApprovalTypes, UnderwayInv
<1> QED BY <1>6, <1>7 DEF ApprovalInv

LEMMA ApprovalsNextInv ==
  ASSUME ApprovalInv, NoRequest \notin Requests, [ApprovalsNext]_approvalVars
  PROVE  ApprovalInv'
<1>1. CASE UNCHANGED approvalVars
  BY <1>1 DEF approvalVars, ApprovalInv, ApprovalTypes, UnderwayInv, PermissionsOnRecord
<1>2. ASSUME NEW i \in RequestIds, NEW r \in Requests, Ask(i, r)
      PROVE  ApprovalInv'
  <2>1. ApprovalTypes' /\ UnderwayInv'
    BY <1>2 DEF Ask, ApprovalInv, ApprovalTypes, UnderwayInv
  <2>2. PermissionsOnRecord'
    BY <1>2, PermissionsKept DEF Ask, ApprovalInv
  <2> QED BY <2>1, <2>2 DEF ApprovalInv
<1>3. ASSUME NEW d \in Deciders, Refused(d)
      PROVE  ApprovalInv'
  <2>1. ApprovalTypes' /\ UnderwayInv'
    BY <1>3 DEF Refused, ApprovalInv, ApprovalTypes, UnderwayInv
  <2>2. PermissionsOnRecord'
    BY <1>3, PermissionsKept DEF Refused, ApprovalInv
  <2> QED BY <2>1, <2>2 DEF ApprovalInv
<1>4. ASSUME NEW session, CloseSession(session)
      PROVE  ApprovalInv'
  <2>1. ApprovalTypes' /\ UnderwayInv'
    BY <1>4 DEF CloseSession, ApprovalInv, ApprovalTypes, UnderwayInv
  <2>2. allowances' \subseteq allowances /\ remembered' \subseteq remembered
        /\ records' = records /\ settled' = settled
    BY <1>4 DEF CloseSession
  <2> QED BY <2>1, <2>2, PermissionsKept DEF ApprovalInv
<1>5. CASE Pass
  <2>1. ApprovalTypes' /\ UnderwayInv'
    BY <1>5 DEF Pass, ApprovalInv, ApprovalTypes, UnderwayInv
  <2>2. PermissionsOnRecord'
    BY <1>5, PermissionsKept DEF Pass, ApprovalInv
  <2> QED BY <2>1, <2>2 DEF ApprovalInv
<1> QED BY <1>1, <1>2, <1>3, <1>4, <1>5, DecideInv, StageMoves, RememberInv DEF ApprovalsNext

\* No permission is remembered without a recorded decision on the request it is
\* for, however decisions, new requests of the same id and session ends overlap
\* (approvals.ts, deferred.ts).
THEOREM PermissionsAreOnRecord ==
  ASSUME NoRequest \notin Requests
  PROVE  ApprovalsSpec => []PermissionsOnRecord
<1>1. ApprovalsInit => ApprovalInv
  BY ApprovalsInitInv
<1>2. ApprovalInv /\ [ApprovalsNext]_approvalVars => ApprovalInv'
  BY ApprovalsNextInv
<1>3. ApprovalInv => PermissionsOnRecord
  BY DEF ApprovalInv
<1> QED BY <1>1, <1>2, <1>3, PTL DEF ApprovalsSpec

---------------------------------------------------------------------------
(* The proof.  A tag says that a decision, active or still waiting for its *)
(* record, puts an instance into a sandbox under a context.  No operation  *)
(* changes the tags of others: a fresh sandbox brings a tag of its own,    *)
(* and to share is to add a tag beside one with the same context.          *)

Decisions ==
  [sandbox : Sandboxes, context : SecurityContexts, occupants : SUBSET Instances,
   isolation : Isolations, limit : Nat]
InFlight ==
  [kind : {"activate", "cohabit", "relocate"}, instance : Instances, decision : Decisions]

\* The marker of what is not there is none of what may be there.
PlacementValues ==
  Nowhere \notin Decisions /\ Nowhere \notin InFlight /\ Nowhere \notin ColdRequests

PlacementTypes ==
  /\ placed \in [Instances -> Decisions \union {Nowhere}]
  /\ pending \in [Instances -> ColdRequests \union {Nowhere}]
  /\ idle \in [Isolations -> SUBSET Sandboxes]
  /\ used \in SUBSET Sandboxes
  /\ placing \in [Placings -> InFlight \union {Nowhere}]

Tag(i, d) == <<i, d.sandbox, d.context>>
Tags ==
  {Tag(i, placed[i]) : i \in {j \in Instances : placed[j] # Nowhere}}
  \union {Tag(placing[c].instance, placing[c].decision) :
            c \in {d \in Placings : placing[d] # Nowhere}}

Apart(T) ==
  \A p, q \in T : p[2] = q[2] => p[3] = q[3] /\ (p[1] # q[1] => p[3] \notin Critical)
Untagged(id) == \A p \in Tags : p[2] # id

\* What is warm is nobody's, and nobody's twice.
WarmInv ==
  /\ \A l \in Isolations : idle[l] \subseteq used /\ \A id \in idle[l] : Untagged(id)
  /\ \A l, m \in Isolations : l # m => idle[l] \intersect idle[m] = {}
  /\ \A p \in Tags : p[2] \in used

PlacementInv == PlacementTypes /\ WarmInv /\ Apart(Tags)

\* Tags are as far apart as before when there are no new ones, when the new
\* one is of a fresh sandbox, and when it stands beside an equal one.
LEMMA ApartBesideNothing ==
  ASSUME NEW T, NEW U, NEW i, NEW id, NEW x, Apart(T), U \subseteq T \union {<<i, id, x>>},
         \A p \in T : p[2] # id
  PROVE  Apart(U)
  BY DEF Apart
LEMMA ApartBesideEqual ==
  ASSUME NEW T, NEW U, NEW i, NEW id, NEW x, NEW h, Apart(T), U \subseteq T \union {<<i, id, x>>},
         x \notin Critical, <<h, id, x>> \in T
  PROVE  Apart(U)
<1>1. \A p \in T : p[2] = id => p[3] = x
  BY DEF Apart
<1>. QED  BY <1>1 DEF Apart

\* Making room in a sandbox, or leaving it, changes no tag.
LEMMA ReplacedKeeps ==
  ASSUME PlacementValues, PlacementTypes, NEW id, NEW o \in SUBSET Instances,
         NEW limit \in Nat \union {Keep}, NEW after, after = Replaced(id, o, limit)
  PROVE  /\ after \in [Instances -> Decisions \union {Nowhere}]
         /\ \A i \in Instances :
              /\ after[i] # Nowhere <=> placed[i] # Nowhere
              /\ placed[i] # Nowhere => Tag(i, after[i]) = Tag(i, placed[i])
<1>1. ASSUME NEW i \in Instances
      PROVE  /\ after[i] \in Decisions \union {Nowhere}
             /\ after[i] # Nowhere <=> placed[i] # Nowhere
             /\ placed[i] # Nowhere => Tag(i, after[i]) = Tag(i, placed[i])
  <2>1. CASE placed[i] # Nowhere /\ placed[i].sandbox = id
    <3>1. placed[i] \in Decisions
      BY <2>1 DEF PlacementTypes
    <3>2. after[i] = [placed[i] EXCEPT !.occupants = o, !.limit = IF limit = Keep THEN @ ELSE limit]
      BY <2>1 DEF Replaced
    <3>3. after[i] \in Decisions
      BY <3>1, <3>2 DEF Decisions, Keep
    <3>4. after[i].sandbox = placed[i].sandbox /\ after[i].context = placed[i].context
      BY <3>1, <3>2 DEF Decisions
    <3>. QED  BY <2>1, <3>3, <3>4 DEF Tag, PlacementValues
  <2>2. CASE ~ (placed[i] # Nowhere /\ placed[i].sandbox = id)
    BY <2>2 DEF Replaced, PlacementTypes
  <2>. QED  BY <2>1, <2>2
<1>2. after = [i \in Instances |-> after[i]]
  BY DEF Replaced
<1>. QED  BY <1>1, <1>2

\* The tags after a step, when the active decisions keep theirs and a call gets one.
LEMMA TagsOfCall ==
  ASSUME NEW c \in Placings, NEW r, r # Nowhere, PlacementTypes, placing' = [placing EXCEPT ![c] = r],
         \A i \in Instances :
           /\ placed'[i] # Nowhere <=> placed[i] # Nowhere
           /\ placed[i] # Nowhere => Tag(i, placed'[i]) = Tag(i, placed[i])
  PROVE  Tags' \subseteq Tags \union {Tag(r.instance, r.decision)}
<1>1. \A d \in Placings : placing'[d] = IF d = c THEN r ELSE placing[d]
  BY DEF PlacementTypes
<1>2. \A i \in Instances : placed'[i] # Nowhere => Tag(i, placed'[i]) \in Tags
  BY DEF Tags
<1>3. \A d \in Placings : placing'[d] # Nowhere =>
        Tag(placing'[d].instance, placing'[d].decision) \in Tags \union {Tag(r.instance, r.decision)}
  BY <1>1 DEF Tags
<1>. QED  BY <1>2, <1>3 DEF Tags

\* The tags after a step that touches neither active decisions nor calls.
LEMMA TagsSame ==
  ASSUME UNCHANGED <<placed, placing>>
  PROVE  Tags' = Tags
  BY DEF Tags, Tag

\* A sandbox that is allocated is nobody's, and nothing else of the warm ones
\* changes.
LEMMA AllocatedIsFresh ==
  ASSUME PlacementTypes, WarmInv, NEW level \in Isolations, NEW id \in Sandboxes, Allocates(level, id)
  PROVE  /\ Untagged(id) /\ used' = used \union {id} /\ used' \in SUBSET Sandboxes
         /\ idle' \in [Isolations -> SUBSET Sandboxes]
         /\ \A l \in Isolations : idle'[l] \subseteq idle[l] /\ id \notin idle'[l]
<1>1. idle' = [idle EXCEPT ![level] = @ \ {id}] /\ used' = used \union {id}
  BY DEF Allocates
<1>2. \A l \in Isolations : idle'[l] = IF l = level THEN idle[l] \ {id} ELSE idle[l]
  BY <1>1 DEF PlacementTypes
<1>3. CASE idle[level] # {}
  <2>1. id \in idle[level]
    BY <1>3 DEF Allocates
  <2>. QED  BY <1>1, <1>2, <2>1 DEF PlacementTypes, WarmInv
<1>4. CASE idle[level] = {}
  <2>1. id \notin used
    BY <1>4 DEF Allocates
  <2>2. Untagged(id)
    BY <2>1 DEF WarmInv, Untagged
  <2>. QED  BY <1>1, <1>2, <2>1, <2>2 DEF PlacementTypes, WarmInv
<1>. QED  BY <1>3, <1>4

\* The warm sandboxes stay nobody's when the tags grow by at most one of a
\* sandbox that is in use.
LEMMA WarmKept ==
  ASSUME WarmInv, NEW t, Tags' \subseteq Tags \union {t}, t[2] \in used',
         used \subseteq used', \A l \in Isolations : idle'[l] \subseteq idle[l] /\ t[2] \notin idle'[l]
  PROVE  WarmInv'
  BY DEF WarmInv, Untagged

\* The invariant after a call was opened for a sandbox allocated for it.
LEMMA FreshCall ==
  ASSUME PlacementValues, PlacementInv, NEW c \in Placings, NEW r \in InFlight, NEW level \in Isolations,
         Allocates(level, r.decision.sandbox), placing' = [placing EXCEPT ![c] = r],
         pending' \in [Instances -> ColdRequests \union {Nowhere}],
         placed' \in [Instances -> Decisions \union {Nowhere}],
         \A i \in Instances :
           /\ placed'[i] # Nowhere <=> placed[i] # Nowhere
           /\ placed[i] # Nowhere => Tag(i, placed'[i]) = Tag(i, placed[i])
  PROVE  PlacementInv'
<1>. DEFINE id == r.decision.sandbox
           t == Tag(r.instance, r.decision)
<1>1. id \in Sandboxes /\ t = <<r.instance, id, r.decision.context>>
  BY DEF InFlight, Decisions, Tag
<1>2. r # Nowhere
  BY DEF PlacementValues
<1>3. Tags' \subseteq Tags \union {t}
  BY <1>2, TagsOfCall DEF PlacementInv
<1>4. /\ Untagged(id) /\ used' = used \union {id} /\ used' \in SUBSET Sandboxes
      /\ idle' \in [Isolations -> SUBSET Sandboxes]
      /\ \A l \in Isolations : idle'[l] \subseteq idle[l] /\ id \notin idle'[l]
  BY <1>1, AllocatedIsFresh DEF PlacementInv
<1>. HIDE DEF t
<1>5. Apart(Tags')
  <2>. DEFINE i == r.instance
             x == r.decision.context
             U == Tags'
  <2>1. Apart(Tags) /\ \A p \in Tags : p[2] # id
    BY <1>4 DEF PlacementInv, Untagged
  <2>2. U \subseteq Tags \union {<<i, id, x>>}
    BY <1>1, <1>3
  <2>. HIDE DEF id, i, x, U
  <2>3. Apart(U)
    BY <2>1, <2>2, ApartBesideNothing
  <2>. QED  BY <2>3 DEF U
<1>6. WarmInv'
  <2>1. t[2] = id
    BY <1>1
  <2>. HIDE DEF id
  <2>. QED  BY <2>1, <1>3, <1>4, WarmKept DEF PlacementInv
<1>7. PlacementTypes'
  BY <1>4 DEF PlacementInv, PlacementTypes
<1>. QED  BY <1>5, <1>6, <1>7 DEF PlacementInv

\* activate keeps the invariant.
LEMMA ActivateKeeps ==
  ASSUME PlacementValues, PlacementInv, NEW c \in Placings, NEW i \in Instances, NEW id \in Sandboxes,
         Activate(c, i, id)
  PROVE  PlacementInv'
<1>. DEFINE d == PlacementDecision(id, pending[i].isolation, {i}, pending[i].context,
                                  pending[i].limit)
           r == [kind |-> "activate", instance |-> i, decision |-> d]
<1>1. pending[i] \in ColdRequests
  BY DEF Activate, PlacementInv, PlacementTypes
<1>2. d \in Decisions /\ r \in InFlight /\ r.decision.sandbox = id
  BY <1>1 DEF ColdRequests, Decisions, InFlight, PlacementDecision
<1>3. pending[i].isolation \in Isolations /\ Allocates(pending[i].isolation, r.decision.sandbox)
  BY <1>1, <1>2 DEF Activate, ColdRequests
<1>4. placing' = [placing EXCEPT ![c] = r] /\ UNCHANGED <<placed, pending>>
  BY DEF Activate
<1>. HIDE DEF r
<1>. QED  BY <1>2, <1>3, <1>4, FreshCall DEF PlacementInv, PlacementTypes

\* ensureCurrent keeps the invariant.
LEMMA RelocateKeeps ==
  ASSUME PlacementValues, PlacementInv, NEW c \in Placings, NEW i \in Instances,
         NEW x \in SecurityContexts,
         NEW id \in Sandboxes, Relocate(c, i, x, id)
  PROVE  PlacementInv'
<1>. DEFINE d == PlacementDecision(id, placed[i].isolation, {i}, x, placed[i].limit)
           r == [kind |-> "relocate", instance |-> i, decision |-> d]
           o == placed[i].occupants \ {i}
<1>1. placed[i] \in Decisions
  BY DEF Relocate, PlacementInv, PlacementTypes
<1>2. d \in Decisions /\ r \in InFlight /\ r.decision.sandbox = id
  BY <1>1 DEF Decisions, InFlight, PlacementDecision
<1>3. placed[i].isolation \in Isolations /\ Allocates(placed[i].isolation, r.decision.sandbox)
  BY <1>1, <1>2 DEF Relocate, Decisions
<1>4. placing' = [placing EXCEPT ![c] = r] /\ UNCHANGED pending /\ o \in SUBSET Instances
  BY <1>1 DEF Relocate, Decisions
<1>5. placed' = Replaced(placed[i].sandbox, o, Keep)
  BY DEF Relocate
<1>. HIDE DEF r, o
<1>6. /\ placed' \in [Instances -> Decisions \union {Nowhere}]
      /\ \A j \in Instances :
           /\ placed'[j] # Nowhere <=> placed[j] # Nowhere
           /\ placed[j] # Nowhere => Tag(j, placed'[j]) = Tag(j, placed[j])
  <2>. DEFINE s == placed[i].sandbox
             k == Keep
  <2>1. k \in Nat \union {Keep} /\ PlacementTypes /\ placed' = Replaced(s, o, k)
    BY <1>5 DEF PlacementInv
  <2>. HIDE DEF s, k
  <2>. QED  BY <2>1, <1>4, ReplacedKeeps
<1>. QED  BY <1>2, <1>3, <1>4, <1>6, FreshCall DEF PlacementInv, PlacementTypes

\* cohabit keeps the invariant: the newcomer's tag stands beside its host's.
LEMMA CohabitKeeps ==
  ASSUME PlacementValues, PlacementInv, NEW c \in Placings, NEW i \in Instances, NEW host \in Instances,
         Cohabit(c, i, host)
  PROVE  PlacementInv'
<1>. DEFINE o == placed[host].occupants \union {i}
           limit == Narrowed(placed[host].limit, pending[i].limit)
           d == PlacementDecision(placed[host].sandbox, placed[host].isolation, o,
                                  pending[i].context, limit)
           r == [kind |-> "cohabit", instance |-> i, decision |-> d]
           t == Tag(i, d)
<1>1. placed[host] \in Decisions /\ pending[i] \in ColdRequests /\ placed[host] # Nowhere
  BY DEF Cohabit, PlacementInv, PlacementTypes
<1>2. limit \in Nat /\ o \in SUBSET Instances
  BY <1>1 DEF Narrowed, ColdRequests, Decisions
<1>3. d \in Decisions /\ r \in InFlight /\ r # Nowhere
  BY <1>1, <1>2 DEF ColdRequests, Decisions, InFlight, PlacementDecision, PlacementValues
<1>4. /\ placing' = [placing EXCEPT ![c] = r] /\ UNCHANGED <<pending, idle, used>>
      /\ placed' = Replaced(placed[host].sandbox, o, limit)
  BY DEF Cohabit
<1>5. /\ Tag(host, placed[host]) \in Tags
      /\ Tag(host, placed[host]) = <<host, placed[host].sandbox, placed[host].context>>
  BY <1>1 DEF Tags, Tag
<1>6. /\ pending[i].context = placed[host].context /\ pending[i].context \notin Critical
      /\ t = <<i, placed[host].sandbox, pending[i].context>>
  BY DEF Cohabit, CanCohabit, Tag, PlacementDecision
<1>7. r.instance = i /\ r.decision = d
  OBVIOUS
<1>. HIDE DEF r, o, limit, d
<1>8. /\ placed' \in [Instances -> Decisions \union {Nowhere}]
      /\ \A j \in Instances :
           /\ placed'[j] # Nowhere <=> placed[j] # Nowhere
           /\ placed[j] # Nowhere => Tag(j, placed'[j]) = Tag(j, placed[j])
  BY <1>2, <1>4, ReplacedKeeps DEF PlacementInv
<1>9. Tags' \subseteq Tags \union {t}
  BY <1>3, <1>4, <1>7, <1>8, TagsOfCall DEF PlacementInv
<1>. HIDE DEF t
<1>10. Apart(Tags')
  <2>. DEFINE id == placed[host].sandbox
             x == pending[i].context
  <2>1. Apart(Tags) /\ <<host, id, x>> \in Tags /\ x \notin Critical
    BY <1>5, <1>6 DEF PlacementInv
  <2>2. Tags' \subseteq Tags \union {<<i, id, x>>}
    BY <1>6, <1>9
  <2>. HIDE DEF id, x
  <2>. QED  BY <2>1, <2>2, ApartBesideEqual
<1>11. WarmInv'
  <2>1. t[2] \in used /\ \A l \in Isolations : t[2] \notin idle[l]
    BY <1>5, <1>6 DEF PlacementInv, WarmInv, Untagged
  <2>. QED  BY <2>1, <1>4, <1>9, WarmKept DEF PlacementInv
<1>12. PlacementTypes'
  BY <1>3, <1>4, <1>8 DEF PlacementInv, PlacementTypes
<1>. QED  BY <1>10, <1>11, <1>12 DEF PlacementInv

\* An answer from the record keeps the invariant: a tag moves or goes.
LEMMA AnswerKeeps ==
  ASSUME PlacementValues, PlacementInv, NEW c \in Placings, PlacementRecorded(c) \/ NotPlaced(c)
  PROVE  PlacementInv'
<1>. DEFINE i == placing[c].instance
           d == placing[c].decision
<1>1. placing[c] \in InFlight /\ placing[c] # Nowhere
  BY DEF PlacementRecorded, NotPlaced, PlacementInv, PlacementTypes
<1>2. i \in Instances /\ d \in Decisions /\ d # Nowhere
  BY <1>1 DEF InFlight, PlacementValues
<1>3. \A e \in Placings : placing'[e] = IF e = c THEN Nowhere ELSE placing[e]
  BY DEF PlacementRecorded, NotPlaced, PlacementInv, PlacementTypes
<1>4. UNCHANGED <<idle, used>>
  BY DEF PlacementRecorded, NotPlaced
<1>5. \A j \in Instances : placed'[j] = placed[j] \/ (j = i /\ placed'[j] = d)
  BY DEF PlacementRecorded, NotPlaced, PlacementInv, PlacementTypes
<1>6. PlacementTypes'
  <2>1. placing' \in [Placings -> InFlight \union {Nowhere}]
    BY DEF PlacementRecorded, NotPlaced, PlacementInv, PlacementTypes
  <2>2. placed' \in [Instances -> Decisions \union {Nowhere}]
    BY <1>2 DEF PlacementRecorded, NotPlaced, PlacementInv, PlacementTypes
  <2>3. pending' \in [Instances -> ColdRequests \union {Nowhere}]
    BY <1>2 DEF PlacementRecorded, NotPlaced, PlacementInv, PlacementTypes
  <2>. QED  BY <2>1, <2>2, <2>3, <1>4 DEF PlacementInv, PlacementTypes
<1>7. Tags' \subseteq Tags
  <2>1. Tag(i, d) \in Tags
    BY <1>1 DEF Tags
  <2>. HIDE DEF i, d
  <2>2. \A j \in Instances : placed'[j] # Nowhere => Tag(j, placed'[j]) \in Tags
    BY <2>1, <1>5 DEF Tags
  <2>3. \A e \in Placings : placing'[e] # Nowhere =>
          Tag(placing'[e].instance, placing'[e].decision) \in Tags
    BY <1>3 DEF Tags
  <2>. QED  BY <2>2, <2>3 DEF Tags
<1>8. Apart(Tags')
  BY <1>7 DEF PlacementInv, Apart
<1>9. WarmInv'
  BY <1>4, <1>7 DEF PlacementInv, WarmInv, Untagged
<1>. QED  BY <1>6, <1>8, <1>9 DEF PlacementInv

\* A warm sandbox more keeps the invariant: its name is new.
LEMMA WarmKeeps ==
  ASSUME PlacementInv, NEW level \in Isolations, NEW id \in Sandboxes, AddWarmSandbox(level, id)
  PROVE  PlacementInv'
<1>1. \A l \in Isolations : idle'[l] = IF l = level THEN idle[l] \union {id} ELSE idle[l]
  BY DEF AddWarmSandbox, PlacementInv, PlacementTypes
<1>2. id \notin used /\ used' = used \union {id} /\ UNCHANGED <<placed, pending, placing>>
  BY DEF AddWarmSandbox
<1>3. Tags' = Tags
  BY <1>2, TagsSame
<1>4. PlacementTypes'
  BY <1>2 DEF AddWarmSandbox, PlacementInv, PlacementTypes
<1>5. WarmInv'
  <2>1. \A l \in Isolations : id \notin idle[l]
    BY <1>2 DEF PlacementInv, WarmInv
  <2>2. Untagged(id)
    BY <1>2 DEF PlacementInv, WarmInv, Untagged
  <2>3. ASSUME NEW l \in Isolations
        PROVE  idle'[l] \subseteq used' /\ \A s \in idle'[l] : \A p \in Tags : p[2] # s
    BY <2>2, <1>1, <1>2, ZenonT(60) DEF PlacementInv, WarmInv, Untagged
  <2>4. ASSUME NEW l \in Isolations, NEW m \in Isolations, l # m
        PROVE  idle'[l] \intersect idle'[m] = {}
    BY <2>1, <2>4, <1>1 DEF PlacementInv, WarmInv
  <2>5. \A p \in Tags : p[2] \in used'
    BY <1>2 DEF PlacementInv, WarmInv
  <2>. QED  BY <2>3, <2>4, <2>5, <1>3 DEF WarmInv, Untagged
<1>. QED  BY <1>3, <1>4, <1>5 DEF PlacementInv

\* What leaves sandboxes, decisions and calls alone keeps the invariant.
LEMMA ElsewhereKeeps ==
  ASSUME PlacementInv, UNCHANGED <<placed, idle, used, placing>>,
         pending' \in [Instances -> ColdRequests \union {Nowhere}]
  PROVE  PlacementInv'
<1>1. Tags' = Tags
  BY TagsSame
<1>. QED  BY <1>1 DEF PlacementInv, PlacementTypes, WarmInv, Untagged

\* Whatever overlaps, instances of one sandbox are of one context, which is not
\* critical (ContextsApart), for every number of instances, sandboxes and calls.
THEOREM SharedOnlyWithinAContext ==
  ASSUME PlacementValues
  PROVE  PlacementSpec => []ContextsApart
<1>1. PlacementInit => PlacementInv
  <2>. SUFFICES ASSUME PlacementInit PROVE PlacementInv
    OBVIOUS
  <2>1. Tags = {}
    BY DEF PlacementInit, Tags
  <2>. QED  BY <2>1 DEF PlacementInit, PlacementInv, PlacementTypes, WarmInv, Apart, Untagged
<1>2. PlacementInv /\ [PlacementNext]_placementVars => PlacementInv'
  <2>. SUFFICES ASSUME PlacementInv, [PlacementNext]_placementVars PROVE PlacementInv'
    OBVIOUS
  <2>1. ASSUME NEW level \in Isolations, NEW id \in Sandboxes, AddWarmSandbox(level, id)
        PROVE  PlacementInv'
    BY <2>1, WarmKeeps
  <2>2. ASSUME NEW i \in Instances, NEW r \in ColdRequests, RegisterCold(i, r) PROVE PlacementInv'
    BY <2>2, ElsewhereKeeps DEF RegisterCold, PlacementInv, PlacementTypes
  <2>3. ASSUME NEW c \in Placings, NEW i \in Instances, NEW id \in Sandboxes, Activate(c, i, id)
        PROVE  PlacementInv'
    BY <2>3, ActivateKeeps
  <2>4. ASSUME NEW c \in Placings, NEW i \in Instances, NEW host \in Instances, Cohabit(c, i, host)
        PROVE  PlacementInv'
    BY <2>4, CohabitKeeps
  <2>5. ASSUME NEW c \in Placings, NEW i \in Instances,
         NEW x \in SecurityContexts, NEW id \in Sandboxes,
               Relocate(c, i, x, id)
        PROVE  PlacementInv'
    BY <2>5, RelocateKeeps
  <2>6. ASSUME NEW c \in Placings, PlacementRecorded(c) \/ NotPlaced(c) PROVE PlacementInv'
    BY <2>6, AnswerKeeps
  <2>7. ASSUME UNCHANGED <<placed, pending, idle, used, placing>> PROVE PlacementInv'
    BY <2>7, ElsewhereKeeps DEF PlacementInv, PlacementTypes
  <2>. QED
    BY <2>1, <2>2, <2>3, <2>4, <2>5, <2>6, <2>7
    DEF PlacementNext, placementVars, OpenCompanion, Probed, DrainOwner, ReapOrphans
<1>3. PlacementInv => ContextsApart
  <2>. SUFFICES ASSUME PlacementInv, NEW i \in Instances, NEW j \in Instances,
                       placed[i] # Nowhere, placed[j] # Nowhere, i # j,
                       placed[i].sandbox = placed[j].sandbox
                PROVE  placed[i].context = placed[j].context /\ placed[i].context \notin Critical
    BY DEF ContextsApart
  <2>1. Tag(i, placed[i]) \in Tags /\ Tag(j, placed[j]) \in Tags
    BY DEF Tags
  <2>. QED  BY <2>1 DEF PlacementInv, Apart, Tag
<1>. QED  BY <1>1, <1>2, <1>3, PTL DEF PlacementSpec

---------------------------------------------------------------------------
(* What a companion may reach                                              *)

Policies == {e \in [kind : {"none", "loopback", "lan", "declared", "any"}, hosts : SUBSET STRING] :
               e.kind # "declared" => e.hosts = {}}

LEMMA RankOfKind ==
  ASSUME NEW e \in Policies
  PROVE  /\ EgressRank(e) \in 1..5
         /\ EgressRank(e) >= 4 <=> e.kind \in {"declared", "any"}
         /\ EgressRank(e) = 5 <=> e.kind = "any"
<1>1. DOMAIN EgressKinds = 1..5 /\ \E n \in 1..5 : EgressKinds[n] = e.kind
  BY DEF EgressKinds, Policies
<1>2. EgressKinds[EgressRank(e)] = e.kind /\ EgressRank(e) \in 1..5
  BY <1>1 DEF EgressRank
<1>. QED  BY <1>2 DEF EgressKinds, Policies

LEMMA IntersectionNarrows ==
  ASSUME NEW e \in Policies, NEW f \in Policies, NEW host
  PROVE  LET both == IntersectEgress(e, f)
         IN  /\ both \in Policies
             /\ both.kind \in {"declared", "any"} /\ EgressAllows(both, host)
                  => /\ e.kind \in {"declared", "any"} /\ EgressAllows(e, host)
                     /\ f.kind \in {"declared", "any"} /\ EgressAllows(f, host)
<1>1. IntersectEgress(e, f) \in Policies
  BY RankOfKind DEF IntersectEgress, Policies
<1>2. CASE e.kind \in {"declared", "any"} /\ f.kind \in {"declared", "any"}
  BY <1>1, <1>2, RankOfKind DEF IntersectEgress, EgressAllows, Destinations, Policies
<1>3. CASE ~ (e.kind \in {"declared", "any"} /\ f.kind \in {"declared", "any"})
  <2>1. IntersectEgress(e, f).kind \notin {"declared", "any"}
    BY <1>3, RankOfKind DEF IntersectEgress, Policies
  <2>. QED  BY <1>1, <2>1
<1>. QED  BY <1>2, <1>3

\* A host a companion may reach is one that the manifest, the template, the
\* workspace and the organization each let it reach: no layer of policy adds a
\* destination to the ones above it (egress.ts).
THEOREM NoLayerAddsAHost ==
  ASSUME NEW s, s.manifest \in Policies, s.template \in Policies,
         s.workspace \in Policies, s.organization \in Policies, NEW host,
         ResolveEgress(s).kind \in {"declared", "any"}, EgressAllows(ResolveEgress(s), host)
  PROVE  /\ EgressAllows(s.manifest, host) /\ EgressAllows(s.template, host)
         /\ EgressAllows(s.workspace, host) /\ EgressAllows(s.organization, host)
<1>. DEFINE left == IntersectEgress(s.manifest, s.template)
            right == IntersectEgress(s.workspace, s.organization)
<1>1. left \in Policies /\ right \in Policies
  BY IntersectionNarrows
<1>2. /\ left.kind \in {"declared", "any"} /\ EgressAllows(left, host)
      /\ right.kind \in {"declared", "any"} /\ EgressAllows(right, host)
  BY <1>1, IntersectionNarrows DEF ResolveEgress
<1>. QED  BY <1>2, IntersectionNarrows

---------------------------------------------------------------------------
(* Boot and the control of the learning system: for every configuration,   *)
(* request and contract.                                                   *)

Boot == INSTANCE Settings
Control == INSTANCE EvolutionControl

\* A secret field that a boot settled holds what the environment had.
LEMMA SecretFieldsCome ==
  ASSUME NEW config, NEW secrets, NEW env, NEW f \in DOMAIN config,
         Boot!LiteralCredentials(config, DOMAIN secrets) = {},
         Boot!Unresolvable(config, env) = {},
         Boot!IsSecret(f),
         Boot!HasText(Boot!MakeResolveTree(config, secrets, Boot!ResolveSecrets(secrets, env), env), f)
  PROVE  Boot!MakeResolveTree(config, secrets, Boot!ResolveSecrets(secrets, env), env)[f].of
           \in {env[v] : v \in DOMAIN env}
<1> DEFINE resolved == Boot!ResolveSecrets(secrets, env)
           tree == Boot!MakeResolveTree(config, secrets, resolved, env)
           v == config[f]
<1>1. tree[f] = Boot!ResolveField(f, v, secrets, resolved, env) /\ f \in DOMAIN tree
  BY DEF Boot!MakeResolveTree
<1>2. tree[f].form = "text" /\ tree[f].of # ""
  BY <1>1 DEF Boot!HasText, Boot!At
<1>3. CASE v.form = "reference"
  <2>1. tree[f] = Boot!Text(env[v.of])
    BY <1>1, <1>3 DEF Boot!ResolveField
  <2>2. v.of \in DOMAIN env
    BY <1>3 DEF Boot!Unresolvable, Boot!IsSecretReference
  <2> QED BY <2>1, <2>2 DEF Boot!Text, Boot!Value
<1>4. CASE v.form = "text" /\ v.of \in DOMAIN secrets
  <2>1. tree[f] = IF v.of \in DOMAIN resolved THEN Boot!Text(resolved[v.of]) ELSE Boot!Absent
    BY <1>1, <1>4 DEF Boot!ResolveField
  <2>2. v.of \in DOMAIN resolved
    <3>1. Boot!Absent.form # "text" BY DEF Boot!Absent, Boot!Value
    <3> QED BY <1>2, <2>1, <3>1
  <2>3. v.of \in Boot!Resolvable(secrets, env) /\ resolved[v.of] = env[secrets[v.of].of]
    BY <2>2 DEF Boot!ResolveSecrets
  <2>4. secrets[v.of].of \in DOMAIN env BY <2>3 DEF Boot!Resolvable
  <2> QED BY <2>1, <2>2, <2>3, <2>4 DEF Boot!Text, Boot!Value
<1>5. CASE v.form # "reference" /\ ~ (v.form = "text" /\ v.of \in DOMAIN secrets)
  <2>1. tree[f] = v BY <1>1, <1>5 DEF Boot!ResolveField
  <2>2. Boot!HasText(config, f) BY <1>2, <2>1 DEF Boot!HasText, Boot!At
  <2>3. f \in Boot!LiteralCredentials(config, DOMAIN secrets)
    BY <1>2, <1>5, <2>1, <2>2 DEF Boot!LiteralCredentials
  <2> QED BY <2>3
<1> QED BY <1>3, <1>4, <1>5

\* So does everything that is redacted as a secret.
LEMMA SinkComes ==
  ASSUME NEW config, NEW secrets, NEW env,
         Boot!LiteralCredentials(config, DOMAIN secrets) = {},
         Boot!Unresolvable(config, env) = {}
  PROVE  LET resolved == Boot!ResolveSecrets(secrets, env)
             tree == Boot!MakeResolveTree(config, secrets, resolved, env)
         IN  Boot!Sink(tree, resolved, env) \subseteq {env[v] : v \in DOMAIN env}
<1> DEFINE resolved == Boot!ResolveSecrets(secrets, env)
           tree == Boot!MakeResolveTree(config, secrets, resolved, env)
<1>1. \A n \in DOMAIN resolved : resolved[n] \in {env[v] : v \in DOMAIN env}
  BY DEF Boot!ResolveSecrets, Boot!Resolvable
<1>2. \A f \in DOMAIN tree : Boot!IsSecret(f) /\ Boot!HasText(tree, f) =>
        tree[f].of \in {env[v] : v \in DOMAIN env}
  <2>1. DOMAIN tree = DOMAIN config BY DEF Boot!MakeResolveTree
  <2> QED BY <2>1, SecretFieldsCome
<1> HIDE DEF resolved, tree
<1>3. ASSUME NEW x \in Boot!Sink(tree, resolved, env) PROVE x \in {env[v] : v \in DOMAIN env}
  BY <1>1, <1>2, <1>3 DEF Boot!Sink, Boot!Range
<1> QED BY <1>3 DEF resolved, tree

\* Whatever the configuration says, what a boot that loads has in the entries of
\* secrets.yaml, in the fields whose names say that they are secret and in the
\* fallback DSN came out of its environment or its mounted secrets (config.ts,
\* the reference rule).  Of a credential in a field of another name it says
\* nothing: the code takes a literal there.
THEOREM SecretFieldsComeFromTheEnvironment ==
  ASSUME NEW boot, Boot!LoadRuntimeSettings(boot).ok
  PROVE  LET mounted == Boot!MountedSecrets(boot.mount)
             env == Boot!Environment(boot.process, mounted.entries)
         IN  /\ mounted.ok
             /\ Boot!LoadRuntimeSettings(boot).sink \subseteq {env[v] : v \in DOMAIN env}
<1> DEFINE mounted == Boot!MountedSecrets(boot.mount)
           env == Boot!Environment(boot.process, mounted.entries)
           config == Boot!StripDisabledDsn(boot.config, env)
           resolved == Boot!ResolveSecrets(boot.secrets, env)
           tree == Boot!MakeResolveTree(config, boot.secrets, resolved, env)
<1>1. \A why : ~ Boot!RefusedBoot(why).ok BY DEF Boot!RefusedBoot
<1>2. /\ mounted.ok
      /\ Boot!LiteralCredentials(config, DOMAIN boot.secrets) = {}
      /\ Boot!Unresolvable(config, env) = {}
      /\ Boot!LoadRuntimeSettings(boot)
           = Boot!Settled(config, tree, boot.secrets, resolved, boot, env)
  BY <1>1 DEF Boot!LoadRuntimeSettings
<1> HIDE DEF mounted, env, config, resolved, tree
<1>3. Boot!LoadRuntimeSettings(boot).sink = Boot!Sink(tree, resolved, env)
  <2>1. Boot!Settled(config, tree, boot.secrets, resolved, boot, env).ok
    BY <1>2
  <2> QED BY <1>1, <1>2, <2>1 DEF Boot!Settled, Boot!RefusedBoot
<1>4. Boot!Sink(tree, resolved, env) \subseteq {env[v] : v \in DOMAIN env}
  BY <1>2, SinkComes DEF resolved, tree
<1> QED BY <1>2, <1>3, <1>4 DEF mounted, env

\* A paused run is resumed by the engine that paused it, with the very token
\* that engine gave, whatever the token looks like.
THEOREM TokensReturnToTheirEngine ==
  ASSUME NEW Word, NEW class, NEW token \in Seq(Word), token # <<>>
  PROVE  Control!ParseToken(Control!Routed(Control!Route(class), token))
           = [route |-> Control!Route(class), token |-> token]
<1> DEFINE r == Control!Route(class)
           word == Word \union {"text", "code"}
           routed == <<r>> \o token
<1>1. r \in {"text", "code"} BY DEF Control!Route
<1>2. Control!Routed(r, token) = routed BY DEF Control!Routed
<1>3. token \in Seq(word) /\ <<r>> \in Seq(word) BY <1>1
<1>4. Len(token) >= 1 BY <1>3
<1> HIDE DEF r, word
<1>5. /\ Len(routed) = Len(token) + 1 /\ routed[1] = r
      /\ Tail(routed) = token
  BY <1>3
<1>6. ~ (Len(routed) < 2 \/ routed[1] \notin {"text", "code"})
  BY <1>1, <1>3, <1>4, <1>5
<1> QED BY <1>2, <1>5, <1>6 DEF Control!ParseToken, r

\* The environment read when a job fires only takes away from what the boot
\* allowed, and a job decides about no Proposal and no release.
THEOREM SchedulerKeepsItsPlace ==
  ASSUME NEW w, NEW requested, NEW operation, Control!ScheduledMay(w, requested, operation)
  PROVE  /\ Control!CapabilityOf[operation] \in w.schedulerCapabilities \ Control!Forbidden
         /\ requested \subseteq Control!CapabilitiesAtFire(w)
         /\ operation \notin {"approve", "reject", "promote", "rollback"}
         /\ w.schedulerPrincipal # w.operatorPrincipal
  BY DEF Control!ScheduledMay, Control!JobFires, Control!SchedulerState, Control!Forbidden,
         Control!ScheduledOperations

\* No option of a run raises a budget above what is configured.
THEOREM NoOptionRaisesABudget ==
  ASSUME NEW values \in Seq(Int), NEW maximum \in Nat \ {0}
  PROVE  Control!Bounded(values, maximum) \in 0..maximum
<1>1. CASE values = <<>> BY <1>1 DEF Control!Bounded
<1>2. CASE values # <<>>
  <2>1. values[1] \in Int BY <1>2
  <2>2. ASSUME values[1] > 0
        PROVE  Control!Min({values[1], maximum}) \in 1..maximum
    <3> DEFINE least == CHOOSE x \in {values[1], maximum} : \A y \in {values[1], maximum} : x <= y
    <3>1. \E x \in {values[1], maximum} : \A y \in {values[1], maximum} : x <= y
      BY <2>1
    <3>2. least \in {values[1], maximum} /\ \A y \in {values[1], maximum} : least <= y
      BY <3>1
    <3>3. Control!Min({values[1], maximum}) = least BY DEF Control!Min
    <3> HIDE DEF least
    <3> QED BY <2>1, <2>2, <3>2, <3>3
  <2> QED BY <1>2, <2>1, <2>2 DEF Control!Bounded
<1> QED BY <1>1, <1>2

\* A sandbox contract without a violation shows the candidate nothing of the
\* host, and each of its target files is one file of the checkout whose digest
\* is right (engine/isolation.ts).
THEOREM AcceptedSandboxIsSealed ==
  ASSUME NEW c, Control!SandboxViolation(c) = Control!None
  PROVE  /\ c.checkout = "candidate" /\ c.exposed \intersect Control!Exposures = {}
         /\ c.commands # {} /\ c.commands \intersect Control!Shells = {}
         /\ \A r \in DOMAIN c.limits : c.limits[r] > 0
         /\ \A path \in c.targets : \E i \in DOMAIN c.files :
              /\ c.files[i].path = path /\ ~ Control!PathInvalid(path)
              /\ c.files[i].digest = c.files[i].content
              /\ \A j \in DOMAIN c.files : c.files[j].path = path => j = i
<1> DEFINE checks == Control!SandboxChecks(c)
           failed == {i \in DOMAIN checks : ~ checks[i].holds}
<1>1. DOMAIN checks = 1..6 BY DEF Control!SandboxChecks
<1>2. \A i \in 1..6 : checks[i].of # Control!None
  <2>1. /\ checks[1].of = "checkout" /\ checks[2].of = "checkout-files"
        /\ checks[3].of = "target-files" /\ checks[4].of = "commands"
        /\ checks[5].of = "limits" /\ checks[6].of = "exposure"
    BY DEF Control!SandboxChecks
  <2> HIDE DEF checks
  <2>2. \A i \in 1..6 : i \in {1, 2, 3, 4, 5, 6} OBVIOUS
  <2> QED BY <2>1, <2>2 DEF Control!None
<1>3. failed = {}
  <2> SUFFICES ASSUME failed # {} PROVE FALSE OBVIOUS
  <2>0. failed # {} OBVIOUS
  <2>1. Control!SandboxViolation(c) = checks[Control!Min(failed)].of
    BY DEF Control!SandboxViolation
  <2>2. Control!Min(failed) \in failed
    <3>1. failed \subseteq {1, 2, 3, 4, 5, 6} BY <1>1
    <3> HIDE DEF failed
    <3>2. \E x \in failed : \A y \in failed : x <= y
      <4>1. CASE 1 \in failed BY <3>1, <4>1
      <4>2. CASE 1 \notin failed /\ 2 \in failed BY <3>1, <4>2
      <4>3. CASE {1, 2} \intersect failed = {} /\ 3 \in failed BY <3>1, <4>3
      <4>4. CASE {1, 2, 3} \intersect failed = {} /\ 4 \in failed BY <3>1, <4>4
      <4>5. CASE {1, 2, 3, 4} \intersect failed = {} /\ 5 \in failed BY <3>1, <4>5
      <4>6. CASE {1, 2, 3, 4, 5} \intersect failed = {} /\ 6 \in failed BY <3>1, <4>6
      <4> QED BY <3>1, <2>0, <4>1, <4>2, <4>3, <4>4, <4>5, <4>6
    <3> QED BY <3>2 DEF Control!Min
  <2>3. Control!Min(failed) \in 1..6 BY <1>1, <2>2
  <2> HIDE DEF checks
  <2> QED BY <1>2, <2>1, <2>3
<1>4. \A i \in 1..6 : checks[i].holds BY <1>1, <1>3
<1> HIDE DEF failed
<1>5. /\ checks[1].holds /\ checks[2].holds /\ checks[3].holds
      /\ checks[4].holds /\ checks[5].holds /\ checks[6].holds
  BY <1>4
<1>6. /\ c.checkout = "candidate" /\ c.exposed \intersect Control!Exposures = {}
      /\ c.commands # {} /\ c.commands \intersect Control!Shells = {}
      /\ \A r \in DOMAIN c.limits : c.limits[r] > 0
  BY <1>5 DEF Control!SandboxChecks
<1>7. /\ \A i \in DOMAIN c.files :
           /\ ~ Control!PathInvalid(c.files[i].path) /\ c.files[i].digest = c.files[i].content
           /\ \A j \in DOMAIN c.files : c.files[i].path = c.files[j].path => i = j
      /\ c.targets \subseteq {c.files[i].path : i \in DOMAIN c.files}
  BY <1>5 DEF Control!SandboxChecks
<1> HIDE DEF checks
<1>8. ASSUME NEW path \in c.targets
      PROVE  \E i \in DOMAIN c.files :
               /\ c.files[i].path = path /\ ~ Control!PathInvalid(path)
               /\ c.files[i].digest = c.files[i].content
               /\ \A j \in DOMAIN c.files : c.files[j].path = path => j = i
  BY <1>7
<1> QED BY <1>6, <1>8

\* A projection adds one branch or nothing: no other branch changes, one that
\* it saw is left alone whatever step fails, and of one that appeared while it
\* worked no commit is lost (release/git-cli-projection.ts).
THEOREM ProjectionsAddOneBranch ==
  ASSUME NEW p, NEW remote, NEW meanwhile, NEW failing
  PROVE  LET after == Control!Publish(p, remote, meanwhile, failing) IN
         /\ ~ after.done => after.remote = meanwhile
         /\ after.done =>
              /\ Control!SafeProjection(p) /\ p.branch \notin DOMAIN remote
              /\ Control!Copyable(p) /\ failing \notin {Control!GitSteps[i] : i \in 1..9}
              /\ \A b \in DOMAIN meanwhile \ {p.branch} : after.remote[b] = meanwhile[b]
              /\ p.branch \in DOMAIN meanwhile =>
                   Control!IsPrefix(meanwhile[p.branch], after.remote[p.branch])
<1> DEFINE after == Control!Publish(p, remote, meanwhile, failing)
<1>1. CASE ~ Control!SafeProjection(p) \/ Control!StopsAt(p, remote, meanwhile, failing) # {}
  BY <1>1 DEF Control!Publish
<1>2. CASE Control!SafeProjection(p) /\ Control!StopsAt(p, remote, meanwhile, failing) = {}
  <2>1. DOMAIN Control!GitSteps = 1..9 /\ Control!GitSteps[3] = "assert-absent"
        /\ Control!GitSteps[6] = "copy" /\ Control!GitSteps[9] = "push"
    BY DEF Control!GitSteps
  <2>2. \A i \in 1..9 : /\ Control!GitSteps[i] # failing
                        /\ Control!GitSteps[i] = "assert-absent" => p.branch \notin DOMAIN remote
                        /\ Control!GitSteps[i] = "copy" => Control!Copyable(p)
                        /\ Control!GitSteps[i] = "push" /\ p.branch \in DOMAIN meanwhile =>
                             Control!IsPrefix(meanwhile[p.branch], Append(p.base, p.id))
    BY <1>2, <2>1 DEF Control!StopsAt
  <2>3. /\ p.branch \notin DOMAIN remote /\ Control!Copyable(p)
        /\ p.branch \in DOMAIN meanwhile =>
             Control!IsPrefix(meanwhile[p.branch], Append(p.base, p.id))
    BY <2>1, <2>2
  <2>4. /\ after.done
        /\ after.remote = [b \in DOMAIN meanwhile \union {p.branch} |->
                             IF b = p.branch THEN Append(p.base, p.id) ELSE meanwhile[b]]
    BY <1>2 DEF Control!Publish
  <2> QED BY <1>2, <2>2, <2>3, <2>4
<1> QED BY <1>1, <1>2
==============================================================================
