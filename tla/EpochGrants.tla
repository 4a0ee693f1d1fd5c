----------------------------- MODULE EpochGrants -----------------------------
(***************************************************************************)
(* Grants checked by epoch: EpochRegistry (src/core/epoch), VersionedCache *)
(* (src/core/cache), GrantManager (src/security/grants) and the            *)
(* CapabilityBroker (src/security/broker), over the effect-gating appends  *)
(* that RecordAppender promises.                                           *)
(*                                                                         *)
(* A change of a grant is written to the manager's map at once and made    *)
(* visible by a bump: read the scope's counter, append the epoch.bump      *)
(* record, wait, publish counter + 1.  A brokered call resolves its grant  *)
(* through a cache keyed by the counters of the grant's coordinates; an    *)
(* entry is computed and stamped before an await and stored after it.      *)
(*                                                                         *)
(* Appends settle in call order, one continuation at a time, so the        *)
(* waiting ones are a queue.  The contents of a grant are those of its     *)
(* policy; resolveGrantSet is Granted.  `version`, `landed`, `revokedAt`   *)
(* and `floor` are history: they count the changes of a grant, those whose *)
(* call returned, and those a call has to respect.                         *)
(***************************************************************************)
EXTENDS Naturals, Sequences, FiniteSets

CONSTANTS
  Handles,       \* grant handles, each issued once by the gate that owns it
  Scopes,        \* epoch scopes: level and id
  Session,       \* Session[h]: the session scope of h
  Coordinates,   \* Coordinates[h]: the five scopes of h's epoch vector
  Policies,      \* contents a grant may be given
  DigestOf,      \* DigestOf[p]: the policyDigests that come with p
  GrantedBy,     \* GrantedBy[p]: the capabilities p grants
  DeferredBy,    \* DeferredBy[p]: those that need activation first
  Capabilities,
  Calls,         \* brokered calls
  HandleOf, CapabilityOf,   \* what each call asks for
  Streamed,      \* the calls that go through beginStream
  Capacity,      \* slots of the epoch table, slot 0 included
  MaxChanges     \* bound: changes made and external bumps

NoHandle == "no handle"    \* of a bump that is not a change of a grant

ASSUME ConstantsAssumption ==
  /\ Session \in [Handles -> Scopes]
  /\ Coordinates \in [Handles -> SUBSET Scopes]
  /\ \A h \in Handles : Session[h] \in Coordinates[h]
  /\ GrantedBy \in [Policies -> SUBSET Capabilities]
  /\ DeferredBy \in [Policies -> SUBSET Capabilities]
  /\ DigestOf \in [Policies -> Nat]
  /\ HandleOf \in [Calls -> Handles]
  /\ CapabilityOf \in [Calls -> Capabilities]
  /\ Streamed \subseteq Calls
  /\ NoHandle \notin Handles
  /\ IsFiniteSet(Scopes)
  /\ Capacity \in Nat \ {0}
  /\ MaxChanges \in Nat

VARIABLES
  grants,     \* GrantManager.#states
  slots,      \* EpochRegistry.#slots: the scopes with a slot
  epoch,      \* the counter of each scope, 0 without a slot
  commits,    \* the appends under way, in call order
  cached,     \* the keys of the VersionedCache
  cache,      \* and its entries
  calls,      \* where each brokered call is, and the entry it resolved
  version,    \* version[h]: the changes made of h so far
  landed,     \* landed[h]: the newest change of h whose call returned
  revokedAt,  \* revokedAt[h]: the change that revoked h, 0 if none
  changes     \* changes and external bumps so far

vars == <<grants, slots, epoch, commits, cached, cache, calls, version,
          landed, revokedAt, changes>>

Grant == [policy : Policies, active : SUBSET Capabilities, revoked : BOOLEAN]
Entry == [stamp : [Scopes -> Nat], digest : Nat,
          capabilities : SUBSET Capabilities, revoked : BOOLEAN,
          version : Nat]
Bump == [kind : {"bump"}, scope : Scopes, next : Nat,
         handle : Handles \union {NoHandle}, version : Nat]
Dispatch == [kind : {"dispatch"}, call : Calls]
Places == {"idle", "filling", "resolved", "prepared", "dispatching",
           "executing", "done", "denied", "failed"}
Call == [at : Places, committing : BOOLEAN, entry : Entry, floor : Nat]

TypeOK ==
  /\ grants \in [Handles -> Grant]
  /\ slots \subseteq Scopes
  /\ Cardinality(slots) < Capacity
  /\ epoch \in [Scopes -> Nat]
  /\ commits \in Seq(Bump \union Dispatch)
  /\ cached \subseteq Handles
  /\ cache \in [Handles -> Entry]
  /\ calls \in [Calls -> Call]
  /\ version \in [Handles -> Nat]
  /\ landed \in [Handles -> Nat]
  /\ revokedAt \in [Handles -> Nat]
  /\ changes \in Nat

-----------------------------------------------------------------------------
(* What a grant gives, and the entry made of it *)

\* resolveGrantSet: the capabilities every source allows, without the
\* deferred ones that have not been activated.
Granted(h) ==
  GrantedBy[grants[h].policy] \ (DeferredBy[grants[h].policy] \ grants[h].active)

\* The entry of h computed now.  A stamp holds the counters of every scope;
\* only those of the coordinates of h are ever compared.
Resolution(h) ==
  [stamp |-> epoch, digest |-> DigestOf[grants[h].policy],
   capabilities |-> Granted(h), revoked |-> grants[h].revoked,
   version |-> version[h]]

\* Mutant: a coordinate is forgotten.
SameStampNoSession(h, entry) ==
  /\ \A s \in Coordinates[h] \ {Session[h]} : entry.stamp[s] = epoch[s]
  /\ entry.digest = DigestOf[grants[h].policy]

SameStamp(h, entry) ==
  /\ \A s \in Coordinates[h] : entry.stamp[s] = epoch[s]
  /\ entry.digest = DigestOf[grants[h].policy]

Init ==
  /\ \E p \in [Handles -> Policies] :
       grants = [h \in Handles |-> [policy |-> p[h], active |-> {},
                                    revoked |-> FALSE]]
  /\ version = [h \in Handles |-> 0]
  /\ slots = {}
  /\ epoch = [s \in Scopes |-> 0]
  /\ commits = <<>>
  /\ cached = {}
  /\ cache = [h \in Handles |-> Resolution(h)]
  /\ calls = [c \in Calls |-> [at |-> "idle", committing |-> FALSE,
                               entry |-> Resolution(HandleOf[c]), floor |-> 0]]
  /\ landed = [h \in Handles |-> 0]
  /\ revokedAt = [h \in Handles |-> 0]
  /\ changes = 0

-----------------------------------------------------------------------------
(* Changes and bumps *)

\* #slot: the scope's slot, a new one if the table has room.
TakeSlot(s) ==
  IF s \in slots \/ Cardinality(slots) + 1 >= Capacity
    THEN UNCHANGED slots
    ELSE slots' = slots \union {s}

\* bump() up to its await: take a slot, read the counter, append the record.
\* Without room in the table it throws.
RequestBump(s, h, v) ==
  /\ TakeSlot(s)
  /\ IF s \in slots'
       THEN commits' = Append(commits, [kind |-> "bump", scope |-> s,
                              next |-> epoch[s] + 1, handle |-> h, version |-> v])
       ELSE UNCHANGED commits

\* The state is written first, then the bump starts; all before any await.
Change(h, s, grant) ==
  /\ changes < MaxChanges
  /\ changes' = changes + 1
  /\ grants' = [grants EXCEPT ![h] = grant]
  /\ version' = [version EXCEPT ![h] = @ + 1]
  /\ RequestBump(s, h, version[h] + 1)
  /\ UNCHANGED <<epoch, cached, cache, calls, landed>>

Update(h, p, s) ==
  /\ s \in Coordinates[h]
  /\ Change(h, s, [grants[h] EXCEPT !.policy = p])
  /\ UNCHANGED revokedAt

Revoke(h) ==
  /\ Change(h, Session[h], [grants[h] EXCEPT !.revoked = TRUE])
  /\ revokedAt' = [revokedAt EXCEPT
       ![h] = IF grants[h].revoked THEN @ ELSE version[h] + 1]

\* With a valid approval for capability x.
ActivateDeferred(h, x) ==
  /\ Change(h, Session[h], [grants[h] EXCEPT !.active = @ \union {x}])
  /\ UNCHANGED revokedAt

\* The kernel bumps scopes for reasons that are no change of a grant
\* (provider catalogs, residency).
BumpForOthers(s) ==
  /\ changes < MaxChanges
  /\ changes' = changes + 1
  /\ RequestBump(s, NoHandle, 0)
  /\ UNCHANGED <<grants, epoch, cached, cache, calls, version, landed,
                 revokedAt>>

\* The oldest append resolved: a bump publishes the counter it computed
\* before the wait, a dispatch lets its call execute.
SettleOk ==
  /\ commits # <<>>
  /\ commits' = Tail(commits)
  /\ LET c == Head(commits) IN
     IF c.kind = "bump"
       THEN /\ epoch' = [epoch EXCEPT ![c.scope] = c.next]
            /\ landed' = [h \in Handles |->
                 IF h = c.handle /\ c.version > landed[h]
                   THEN c.version ELSE landed[h]]
            /\ UNCHANGED calls
       ELSE /\ calls' = [calls EXCEPT ![c.call].at = "executing"]
            /\ UNCHANGED <<epoch, landed>>
  /\ UNCHANGED <<grants, version, slots, cached, cache, revokedAt, changes>>

\* Mutant: a failed bump puts the counter back to where it read it.
SettleFailRestoring ==
  /\ commits # <<>>
  /\ commits' = Tail(commits)
  /\ LET c == Head(commits) IN
     IF c.kind = "bump"
       THEN /\ epoch' = [epoch EXCEPT ![c.scope] = c.next - 1]
            /\ UNCHANGED calls
       ELSE /\ calls' = [calls EXCEPT ![c.call].at = "failed"]
            /\ UNCHANGED epoch
  /\ UNCHANGED <<grants, slots, cached, cache, version, landed, revokedAt,
                 changes>>

\* Mutant: a call whose record was refused waits for it for ever.
SettleFailSilent ==
  /\ commits # <<>>
  /\ commits' = Tail(commits)
  /\ UNCHANGED <<grants, slots, epoch, cached, cache, calls, version, landed,
                 revokedAt, changes>>

\* The oldest append was rejected: its caller throws.  A change stays in the
\* map without its bump.
SettleFail ==
  /\ commits # <<>>
  /\ commits' = Tail(commits)
  /\ LET c == Head(commits) IN
     IF c.kind = "bump"
       THEN UNCHANGED calls
       ELSE calls' = [calls EXCEPT ![c.call].at = "failed"]
  /\ UNCHANGED <<grants, slots, epoch, cached, cache, version, landed,
                 revokedAt, changes>>

-----------------------------------------------------------------------------
(* Brokered calls *)

\* GrantManager.resolve up to its await.  A stored entry with the current
\* stamp is served; otherwise it is deleted and one is computed.
Resolve(c) ==
  LET h == HandleOf[c]
      hit == h \in cached /\ SameStamp(h, cache[h])
  IN
  /\ calls' = [calls EXCEPT ![c] =
       [at |-> IF hit THEN "resolved" ELSE "filling",
        committing |-> @.at = "prepared",
        entry |-> IF hit THEN cache[h] ELSE Resolution(h),
        floor |-> landed[h]]]
  /\ cached' = IF hit THEN cached ELSE cached \ {h}
  /\ UNCHANGED <<grants, slots, epoch, commits, cache, version, landed,
                 revokedAt, changes>>

\* execute(), or the first delta of a stream.
Begin(c) == calls[c].at = "idle" /\ Resolve(c)

\* The arguments of a stream are complete: the prepared plan is discarded if
\* the scanner blocked them, else the grant is resolved once more.
CompleteStream(c) == calls[c].at = "prepared" /\ Resolve(c)
BlockStream(c) ==
  /\ calls[c].at = "prepared"
  /\ calls' = [calls EXCEPT ![c].at = "denied"]
  /\ UNCHANGED <<grants, slots, epoch, commits, cached, cache, version,
                 landed, revokedAt, changes>>

\* Mutant: the stamp is read again after the wait.
FillRestamped(c) ==
  /\ calls[c].at = "filling"
  /\ cache' = [cache EXCEPT ![HandleOf[c]] =
                 [calls[c].entry EXCEPT !.stamp = epoch]]
  /\ cached' = cached \union {HandleOf[c]}
  /\ calls' = [calls EXCEPT ![c].at = "resolved"]
  /\ UNCHANGED <<grants, slots, epoch, commits, version, landed, revokedAt,
                 changes>>

\* VersionedCache.resolve after its await: the entry is stored with the stamp
\* it was computed under, over whatever was stored meanwhile.
Fill(c) ==
  /\ calls[c].at = "filling"
  /\ cache' = [cache EXCEPT ![HandleOf[c]] = calls[c].entry]
  /\ cached' = cached \union {HandleOf[c]}
  /\ calls' = [calls EXCEPT ![c].at = "resolved"]
  /\ UNCHANGED <<grants, slots, epoch, commits, version, landed, revokedAt,
                 changes>>

\* A revoked grant throws, a capability that is not granted is denied.  When
\* a stream commits, the set it resolved is not looked at again.
Refused(c) ==
  \/ calls[c].entry.revoked
  \/ ~calls[c].committing /\ CapabilityOf[c] \notin calls[c].entry.capabilities

Deny(c) ==
  /\ calls[c].at = "resolved"
  /\ Refused(c)
  /\ calls' = [calls EXCEPT ![c].at = "denied"]
  /\ UNCHANGED <<grants, slots, epoch, commits, cached, cache, version,
                 landed, revokedAt, changes>>

\* A stream is prepared under its first grant; everything else appends its
\* broker.dispatch record before it executes.
Authorize(c) ==
  /\ calls[c].at = "resolved"
  /\ ~Refused(c)
  /\ IF c \in Streamed /\ ~calls[c].committing
       THEN /\ calls' = [calls EXCEPT ![c].at = "prepared"]
            /\ UNCHANGED commits
       ELSE /\ calls' = [calls EXCEPT ![c].at = "dispatching"]
            /\ commits' = Append(commits, [kind |-> "dispatch", call |-> c])
  /\ UNCHANGED <<grants, slots, epoch, cached, cache, version, landed,
                 revokedAt, changes>>

\* The effect ran, and its broker.result record, an observational one, was
\* appended.
Finish(c) ==
  /\ calls[c].at = "executing"
  /\ calls' = [calls EXCEPT ![c].at = "done"]
  /\ UNCHANGED <<grants, slots, epoch, commits, cached, cache, version,
                 landed, revokedAt, changes>>

Settle == SettleOk \/ SettleFail

Next ==
  \/ \E h \in Handles :
       \/ \E p \in Policies, s \in Scopes : Update(h, p, s)
       \/ Revoke(h)
       \/ \E x \in Capabilities : ActivateDeferred(h, x)
  \/ \E s \in Scopes : BumpForOthers(s)
  \/ Settle
  \/ \E c \in Calls :
       \/ Begin(c) \/ CompleteStream(c) \/ BlockStream(c)
       \/ Fill(c) \/ Deny(c) \/ Authorize(c) \/ Finish(c)

\* Every append settles (AuditLog's GatingSettles) and a microtask runs.
Fairness ==
  /\ WF_vars(Settle)
  /\ \A c \in Calls : WF_vars(Fill(c)) /\ WF_vars(Deny(c) \/ Authorize(c))

Spec == Init /\ [][Next]_vars /\ Fairness

-----------------------------------------------------------------------------
(* Properties *)

\* A call that begins after update(), revoke() or activateDeferred() returned
\* is decided on a grant that includes the change, whatever bumps, late cache
\* fills and failed appends come between (GrantManager.resolve).
CompletedChangesGovern ==
  \A c \in Calls :
    calls[c].at # "idle" => calls[c].entry.version >= calls[c].floor

\* Revocation bites on the next call (README.md): no call that begins, and no
\* stream that is completed, after revoke() returned executes.
RevocationBites ==
  \A c \in Calls :
    calls[c].at \in {"dispatching", "executing", "done"} =>
      ~ (revokedAt[HandleOf[c]] # 0
         /\ revokedAt[HandleOf[c]] <= calls[c].floor)

\* No counter goes back, although each bump publishes a value it read before
\* a wait and bumps of one scope overlap (EpochRegistry.bump).
EpochNeverBack == [][\A s \in Scopes : epoch'[s] >= epoch[s]]_vars

\* A call that resolves its grant is answered: it executes, is prepared, is
\* denied or fails; no lost append leaves it waiting.
CallsDecided ==
  \A c \in Calls :
    calls[c].at \in {"filling", "resolved", "dispatching"}
      ~> calls[c].at \notin {"filling", "resolved", "dispatching"}

\* Grants are epoch-checked on every brokered call (architecture.md): what is
\* dispatched is within the grant that the call resolved last.
DispatchWithinGrant ==
  \A c \in Calls :
    calls[c].at = "dispatching" => CapabilityOf[c] \in calls[c].entry.capabilities

=============================================================================
