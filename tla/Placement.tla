------------------------------- MODULE Placement -------------------------------
(***************************************************************************)
(* Where instances run (src/placement): the isolation a request needs, the *)
(* sandboxes the manager hands out, shares and leaves, and the companions  *)
(* of a sandbox.  Every operation of the manager allocates or shares, then *)
(* waits for its record, then makes its decision the instance's: in        *)
(* between the others go on.                                               *)
(***************************************************************************)
EXTENDS Integers, FiniteSets

CONSTANTS Instances, Sandboxes, SecurityContexts, Critical, Placings, Companions, Nowhere

VARIABLES placed, pending, idle, used, placing, companion
placementVars == <<placed, pending, idle, used, placing, companion>>

---------------------------------------------------------------------------
(* Isolation and limits                                                    *)

\* declarative, in-process, process, container, remote
Isolations == 0..4
Process == 2
MaximumIsolation(l, m) == IF l >= m THEN l ELSE m

RequiredIsolation(r) ==
  IF r.context \in Critical \/ r.confidential \/ ~ r.trusted
  THEN MaximumIsolation(r.minimum, Process) ELSE r.minimum
Isolated(r) ==
  /\ r.isolation >= RequiredIsolation(r)
  /\ ~ r.trusted => r.isolation >= Process

\* A limit of 0 is none.
Narrowed(l, m) == IF l = 0 THEN m ELSE IF m = 0 THEN l ELSE IF l <= m THEN l ELSE m

ColdRequests ==
  [context : SecurityContexts, minimum : Isolations, isolation : Isolations,
   trusted : BOOLEAN, confidential : BOOLEAN, limit : Nat]

---------------------------------------------------------------------------
(* Sandboxes                                                               *)

CanCohabit(x, y) == x \notin Critical /\ y \notin Critical /\ x = y

\* A warm sandbox of the level while there is one, else a new one.
Allocates(level, id) ==
  /\ IF idle[level] # {} THEN id \in idle[level] ELSE id \in Sandboxes \ used
  /\ idle' = [idle EXCEPT ![level] = @ \ {id}]
  /\ used' = used \union {id}

PlacementDecision(id, level, occupants, x, limit) ==
  [sandbox |-> id, context |-> x, occupants |-> occupants, isolation |-> level, limit |-> limit]

\* #replaceSandbox: of every active decision in the sandbox; the limit is
\* given, or the decision's own is kept.
Keep == -1
Replaced(id, occupants, limit) ==
  [i \in Instances |->
     IF placed[i] # Nowhere /\ placed[i].sandbox = id
     THEN [placed[i] EXCEPT !.occupants = occupants, !.limit = IF limit = Keep THEN @ ELSE limit]
     ELSE placed[i]]

PlacementInit ==
  /\ placed = [i \in Instances |-> Nowhere] /\ pending = [i \in Instances |-> Nowhere]
  /\ idle = [l \in Isolations |-> {}] /\ used = {}
  /\ placing = [c \in Placings |-> Nowhere]
  /\ companion = [k \in Companions |-> Nowhere]

AddWarmSandbox(level, id) ==
  /\ id \in Sandboxes \ used
  /\ idle' = [idle EXCEPT ![level] = @ \union {id}]
  /\ used' = used \union {id}
  /\ UNCHANGED <<placed, pending, placing, companion>>

RegisterCold(i, r) ==
  /\ Isolated(r)
  /\ pending' = [pending EXCEPT ![i] = r]
  /\ UNCHANGED <<placed, idle, used, placing, companion>>

\* activate, up to its record.
Activate(c, i, id) ==
  /\ placing[c] = Nowhere /\ placed[i] = Nowhere /\ pending[i] # Nowhere
  /\ Allocates(pending[i].isolation, id)
  /\ placing' = [placing EXCEPT ![c] =
       [kind |-> "activate", instance |-> i,
        decision |-> PlacementDecision(id, pending[i].isolation, {i}, pending[i].context,
                                      pending[i].limit)]]
  /\ UNCHANGED <<placed, pending, companion>>

\* cohabit, up to its record: the host has already made room.
Cohabit(c, i, host) ==
  /\ placing[c] = Nowhere /\ pending[i] # Nowhere /\ placed[host] # Nowhere
  /\ Isolated(pending[i])
  /\ pending[i].isolation = placed[host].isolation
  /\ CanCohabit(pending[i].context, placed[host].context)
  /\ LET occupants == placed[host].occupants \union {i}
         limit == Narrowed(placed[host].limit, pending[i].limit)
     IN  /\ placed' = Replaced(placed[host].sandbox, occupants, limit)
         /\ placing' = [placing EXCEPT ![c] =
              [kind |-> "cohabit", instance |-> i,
               decision |-> PlacementDecision(placed[host].sandbox, placed[host].isolation,
                                             occupants, pending[i].context, limit)]]
  /\ UNCHANGED <<pending, idle, used, companion>>

\* ensureCurrent of an active instance whose context is another one, up to its
\* record; of one that is not active it is activate, whatever the context.
Relocate(c, i, x, id) ==
  /\ placing[c] = Nowhere /\ placed[i] # Nowhere /\ placed[i].context # x
  /\ Allocates(placed[i].isolation, id)
  /\ placed' = Replaced(placed[i].sandbox, placed[i].occupants \ {i}, Keep)
  /\ placing' = [placing EXCEPT ![c] =
       [kind |-> "relocate", instance |-> i,
        decision |-> PlacementDecision(id, placed[i].isolation, {i}, x, placed[i].limit)]]
  /\ UNCHANGED <<pending, companion>>

\* The record was accepted, or refused: what was allocated stays allocated.
PlacementRecorded(c) ==
  /\ placing[c] # Nowhere
  /\ placed' = [placed EXCEPT ![placing[c].instance] = placing[c].decision]
  /\ pending' = IF placing[c].kind = "relocate" THEN pending
                ELSE [pending EXCEPT ![placing[c].instance] = Nowhere]
  /\ placing' = [placing EXCEPT ![c] = Nowhere]
  /\ UNCHANGED <<idle, used, companion>>
NotPlaced(c) ==
  /\ placing[c] # Nowhere
  /\ placing' = [placing EXCEPT ![c] = Nowhere]
  /\ UNCHANGED <<placed, pending, idle, used, companion>>

---------------------------------------------------------------------------
(* Companions                                                              *)

EgressKinds == <<"none", "loopback", "lan", "declared", "any">>
EgressRank(e) == CHOOSE n \in DOMAIN EgressKinds : EgressKinds[n] = e.kind
IntersectEgress(e, f) ==
  LET kind == IF EgressRank(e) <= EgressRank(f) THEN e.kind ELSE f.kind
      hosts == IF e.kind # "declared" THEN f.hosts
               ELSE IF f.kind # "declared" THEN e.hosts ELSE e.hosts \intersect f.hosts
  IN  [kind |-> kind, hosts |-> IF kind = "declared" THEN hosts ELSE {}]
ResolveEgress(s) ==
  IntersectEgress(IntersectEgress(s.manifest, s.template),
                  IntersectEgress(s.workspace, s.organization))
Destinations(e) ==
  CASE e.kind = "none" -> {}
    [] e.kind = "loopback" -> {"loopback"}
    [] e.kind = "lan" -> {"rfc1918"}
    [] OTHER -> e.hosts
EgressAllows(e, destination) == e.kind = "any" \/ destination \in Destinations(e)

\* open: of one that may reach nothing a canary must fail first.
OpenCompanion(k, owner, silent) ==
  /\ companion[k] = Nowhere
  /\ companion' = [companion EXCEPT ![k] =
       [owner |-> owner, state |-> IF silent THEN "probing" ELSE "open"]]
  /\ UNCHANGED <<placed, pending, idle, used, placing>>
Probed(k, reached) ==
  /\ companion[k] # Nowhere /\ companion[k].state = "probing"
  /\ companion' = [companion EXCEPT ![k] =
       IF reached THEN Nowhere ELSE [owner |-> companion[k].owner, state |-> "open"]]
  /\ UNCHANGED <<placed, pending, idle, used, placing>>
ClosedOf(owners) ==
  [k \in Companions |->
     IF companion[k] # Nowhere /\ companion[k].state = "open" /\ companion[k].owner \in owners
     THEN [owner |-> companion[k].owner, state |-> "closed"] ELSE companion[k]]
DrainOwner(owner) ==
  /\ companion' = ClosedOf({owner})
  /\ UNCHANGED <<placed, pending, idle, used, placing>>
ReapOrphans(live) ==
  /\ companion' = ClosedOf(Sandboxes \ live)
  /\ UNCHANGED <<placed, pending, idle, used, placing>>

PlacementNext ==
  \/ \E level \in Isolations, id \in Sandboxes : AddWarmSandbox(level, id)
  \/ \E i \in Instances, r \in ColdRequests : RegisterCold(i, r)
  \/ \E c \in Placings, i \in Instances :
       \/ \E id \in Sandboxes : Activate(c, i, id)
       \/ \E host \in Instances : Cohabit(c, i, host)
       \/ \E x \in SecurityContexts, id \in Sandboxes : Relocate(c, i, x, id)
  \/ \E c \in Placings : PlacementRecorded(c) \/ NotPlaced(c)
  \/ \E k \in Companions :
       \/ \E owner \in Sandboxes, silent \in BOOLEAN : OpenCompanion(k, owner, silent)
       \/ \E reached \in BOOLEAN : Probed(k, reached)
  \/ \E owner \in Sandboxes : DrainOwner(owner)
  \/ \E live \in SUBSET Sandboxes : ReapOrphans(live)
PlacementSpec == PlacementInit /\ [][PlacementNext]_placementVars

---------------------------------------------------------------------------
\* Instances that share a sandbox run in one security context, which is not a
\* critical one, whatever operations overlapped while they were placed
\* (placement/pools/index.ts, canCohabit and ensureCurrent).
ContextsApart ==
  \A i, j \in Instances :
    /\ placed[i] # Nowhere /\ placed[j] # Nowhere /\ i # j
    /\ placed[i].sandbox = placed[j].sandbox
    => placed[i].context = placed[j].context /\ placed[i].context \notin Critical
=============================================================================
