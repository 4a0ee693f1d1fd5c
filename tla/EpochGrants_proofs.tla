------------------------- MODULE EpochGrants_proofs -------------------------
(***************************************************************************)
(* For every set of grants, scopes, coordinates and calls: a call that     *)
(* begins after a change returned is decided on a grant that includes it   *)
(* (CompletedChangesGovern), no call that begins after a revocation        *)
(* returned executes (RevocationBites), and no epoch goes back             *)
(* (EpochNeverBack).                                                       *)
(*                                                                         *)
(* None is inductive.  IInv adds what the wait between the write of a      *)
(* change and the publication of its bump keeps true: an entry older than  *)
(* a change still under way was stamped below the counter that change will *)
(* publish, and an entry older than a change that returned has a stamp the *)
(* counters have left behind.                                              *)
(*                                                                         *)
(* At the end, for every input, what a grant so resolved allows            *)
(* (GrantResolution): AuthorityIsWhatAllGrant.                             *)
(***************************************************************************)
EXTENDS EpochGrants, GrantResolution, TLAPS, FiniteSetTheorems, WellFoundedInduction

BumpAt(i) == i \in DOMAIN commits /\ commits[i].kind = "bump"

\* Entry e of h tells the truth about the grant as it was at its version.
Sound(h, e) ==
  /\ e.version <= version[h]
  /\ \A s \in Scopes : e.stamp[s] <= epoch[s]
  /\ e.revoked <=> (revokedAt[h] # 0 /\ revokedAt[h] <= e.version)

\* Every change after e is still to come or has moved a counter past e.
Overtaken(h, e) ==
  /\ \A i \in DOMAIN commits :
       BumpAt(i) /\ commits[i].handle = h /\ e.version < commits[i].version
         => e.stamp[commits[i].scope] < commits[i].next
  /\ e.version < landed[h] => \E s \in Coordinates[h] : e.stamp[s] < epoch[s]

GrantInv ==
  \A h \in Handles :
    /\ landed[h] <= version[h]
    /\ revokedAt[h] <= version[h]
    /\ grants[h].revoked <=> revokedAt[h] # 0

\* Queued bumps publish in the order of their values.
QueueInv ==
  \A i \in DOMAIN commits : BumpAt(i) =>
    /\ epoch[commits[i].scope] <= commits[i].next
    /\ commits[i].next <= epoch[commits[i].scope] + 1
    /\ commits[i].handle # NoHandle =>
         /\ commits[i].scope \in Coordinates[commits[i].handle]
         /\ commits[i].version <= version[commits[i].handle]
    /\ \A j \in DOMAIN commits :
         BumpAt(j) /\ i < j /\ commits[j].scope = commits[i].scope
           => commits[i].next <= commits[j].next

CacheInv == \A h \in cached : Sound(h, cache[h]) /\ Overtaken(h, cache[h])

\* Where a call can be once it has appended its dispatch record.
Past == {"dispatching", "executing", "done", "failed"}

CallInv ==
  \A c \in Calls : calls[c].at # "idle" =>
    /\ Sound(HandleOf[c], calls[c].entry)
    /\ calls[c].at = "filling" => Overtaken(HandleOf[c], calls[c].entry)
    /\ calls[c].floor <= calls[c].entry.version
    /\ calls[c].at \in Past => ~calls[c].entry.revoked

DispatchInv ==
  \A i \in DOMAIN commits :
    commits[i].kind = "dispatch" => calls[commits[i].call].at \in Past

IInv ==
  TypeOK /\ GrantInv /\ QueueInv /\ CacheInv /\ CallInv /\ DispatchInv

-----------------------------------------------------------------------------
(* Sequences *)

\* What Append does to a sequence, element by element.
LEMMA AppendFacts ==
  ASSUME NEW S, NEW q \in Seq(S), NEW x \in S
  PROVE  /\ Append(q, x) \in Seq(S)
         /\ DOMAIN Append(q, x) = DOMAIN q \union {Len(q) + 1}
         /\ \A i \in DOMAIN q : Append(q, x)[i] = q[i] /\ i \in Nat /\ i < Len(q) + 1
         /\ Append(q, x)[Len(q) + 1] = x
  OBVIOUS

\* What Tail does to a sequence, element by element.
LEMMA TailFacts ==
  ASSUME NEW S, NEW q \in Seq(S), q # <<>>
  PROVE  /\ Tail(q) \in Seq(S)
         /\ 1 \in DOMAIN q /\ Head(q) = q[1] /\ Head(q) \in S
         /\ \A i \in DOMAIN Tail(q) :
              i \in Nat /\ i + 1 \in DOMAIN q /\ 1 < i + 1 /\ Tail(q)[i] = q[i + 1]
  OBVIOUS

-----------------------------------------------------------------------------
(* Types *)

\* A queued append of kind bump is a Bump.
LEMMA BumpType ==
  ASSUME TypeOK, NEW i, BumpAt(i)
  PROVE  commits[i] \in Bump
BY DEF TypeOK, BumpAt, Bump, Dispatch

\* What resolve computes is an entry.
LEMMA ResolutionType ==
  ASSUME TypeOK, NEW h \in Handles
  PROVE  Resolution(h) \in Entry
BY ConstantsAssumption DEF TypeOK, Resolution, Granted, Grant, Entry

\* A bump keeps the table within its capacity and the queue well typed.
LEMMA RequestBumpType ==
  ASSUME TypeOK, NEW s \in Scopes, NEW h \in Handles \union {NoHandle},
         NEW v \in Nat, RequestBump(s, h, v)
  PROVE  /\ slots' \subseteq Scopes
         /\ Cardinality(slots') < Capacity
         /\ commits' \in Seq(Bump \union Dispatch)
<1>1. slots' \subseteq Scopes
  BY DEF RequestBump, TakeSlot, TypeOK
<1>2. Cardinality(slots') < Capacity
  <2>1. CASE slots' = slots
    BY <2>1 DEF TypeOK
  <2>2. CASE /\ s \notin slots /\ Cardinality(slots) + 1 < Capacity
             /\ slots' = slots \union {s}
    <3>1. IsFiniteSet(slots)
      BY ConstantsAssumption, FS_Subset DEF TypeOK
    <3>2. Cardinality(slots \union {s}) = Cardinality(slots) + 1
      BY <3>1, <2>2, FS_AddElement
    <3> QED BY <3>2, <2>2
  <2>3. Cardinality(slots) \in Nat
    BY ConstantsAssumption, FS_Subset, FS_CardinalityType DEF TypeOK
  <2> QED BY <2>1, <2>2, <2>3, ConstantsAssumption DEF RequestBump, TakeSlot
<1>3. commits' \in Seq(Bump \union Dispatch)
  <2> DEFINE b == [kind |-> "bump", scope |-> s, next |-> epoch[s] + 1,
                   handle |-> h, version |-> v]
  <2>1. b \in Bump \union Dispatch
    BY DEF Bump, TypeOK
  <2>2. commits' = commits \/ commits' = Append(commits, b)
    BY DEF RequestBump
  <2>3. commits \in Seq(Bump \union Dispatch)
    BY DEF TypeOK
  <2> HIDE DEF b
  <2> QED BY <2>1, <2>2, <2>3, AppendFacts
<1> QED BY <1>1, <1>2, <1>3

\* A change of a grant (update, revoke, activateDeferred) keeps the types.
LEMMA ChangeType ==
  ASSUME TypeOK, NEW h \in Handles, NEW s \in Scopes, NEW g \in Grant,
         Change(h, s, g), revokedAt' \in [Handles -> Nat]
  PROVE  TypeOK'
<1>1. version[h] + 1 \in Nat
  BY DEF TypeOK
<1>2. /\ slots' \subseteq Scopes
      /\ Cardinality(slots') < Capacity
      /\ commits' \in Seq(Bump \union Dispatch)
  BY <1>1, RequestBumpType DEF Change
<1>3. /\ grants' \in [Handles -> Grant]
      /\ version' \in [Handles -> Nat]
      /\ changes' \in Nat
  BY DEF TypeOK, Change
<1>4. UNCHANGED <<epoch, cached, cache, calls, landed>>
  BY DEF Change
<1> QED BY <1>2, <1>3, <1>4 DEF TypeOK

\* GrantManager.resolve up to its await keeps the types.
LEMMA ResolveType ==
  ASSUME TypeOK, NEW c \in Calls, Resolve(c)
  PROVE  TypeOK'
<1>1. HandleOf[c] \in Handles
  BY ConstantsAssumption
<1>2. Resolution(HandleOf[c]) \in Entry
  BY <1>1, ResolutionType
<1>3. calls' \in [Calls -> Call]
  BY <1>1, <1>2 DEF Resolve, TypeOK, Call, Places
<1> QED BY <1>1, <1>3 DEF Resolve, TypeOK

\* A call that moves keeps its type.
LEMMA CallAtType ==
  ASSUME TypeOK, NEW c \in Calls, NEW p \in Places,
         calls' = [calls EXCEPT ![c].at = p]
  PROVE  calls' \in [Calls -> Call]
BY DEF TypeOK, Call

\* The other steps of a call keep the types.
LEMMA CallStepType ==
  ASSUME TypeOK, NEW c \in Calls,
         Fill(c) \/ Deny(c) \/ BlockStream(c) \/ Authorize(c) \/ Finish(c)
  PROVE  TypeOK'
<1>1. HandleOf[c] \in Handles
  BY ConstantsAssumption
<1>2. CASE Fill(c)
  BY <1>1, <1>2 DEF Fill, TypeOK, Call, Places
<1>3. CASE Deny(c) \/ BlockStream(c) \/ Finish(c)
  <2>1. \E p \in Places : calls' = [calls EXCEPT ![c].at = p]
    BY <1>3 DEF Deny, BlockStream, Finish, Places
  <2>2. calls' \in [Calls -> Call]
    BY <2>1, CallAtType
  <2>3. UNCHANGED <<grants, slots, epoch, commits, cached, cache, version,
                    landed, revokedAt, changes>>
    BY <1>3 DEF Deny, BlockStream, Finish
  <2> QED BY <2>2, <2>3 DEF TypeOK
<1>4. CASE Authorize(c)
  <2>1. \/ calls' = [calls EXCEPT ![c].at = "prepared"]
        \/ calls' = [calls EXCEPT ![c].at = "dispatching"]
    BY <1>4 DEF Authorize
  <2>2. calls' \in [Calls -> Call]
    BY <2>1, CallAtType DEF Places
  <2>3. [kind |-> "dispatch", call |-> c] \in Bump \union Dispatch
    BY DEF Dispatch
  <2>4. \/ commits' = commits
        \/ commits' = Append(commits, [kind |-> "dispatch", call |-> c])
    BY <1>4 DEF Authorize
  <2>5. commits' \in Seq(Bump \union Dispatch)
    <3> DEFINE d == [kind |-> "dispatch", call |-> c]
    <3>1. d \in Bump \union Dispatch /\ (commits' = commits \/ commits' = Append(commits, d))
      BY <2>3, <2>4
    <3>2. commits \in Seq(Bump \union Dispatch)
      BY DEF TypeOK
    <3> HIDE DEF d
    <3> QED BY <3>1, <3>2, AppendFacts
  <2>6. UNCHANGED <<grants, slots, epoch, cached, cache, version, landed,
                    revokedAt, changes>>
    BY <1>4 DEF Authorize
  <2> QED BY <2>2, <2>5, <2>6 DEF TypeOK
<1> QED BY <1>2, <1>3, <1>4

\* A settled append keeps the types.
LEMMA SettleType ==
  ASSUME TypeOK, Settle
  PROVE  TypeOK'
<1>1. /\ commits # <<>>
      /\ commits' = Tail(commits)
  BY DEF Settle, SettleOk, SettleFail
<1>2. /\ commits' \in Seq(Bump \union Dispatch)
      /\ Head(commits) \in Bump \union Dispatch
  BY <1>1, TailFacts DEF TypeOK
<1>3. CASE SettleOk /\ Head(commits).kind = "bump"
  <2>1. Head(commits) \in Bump
    BY <1>2, <1>3 DEF Bump, Dispatch
  <2> QED BY <2>1, <1>2, <1>3 DEF SettleOk, TypeOK, Bump
<1>4. CASE SettleFail /\ Head(commits).kind = "bump"
  BY <1>2, <1>4 DEF SettleFail, TypeOK
<1>5. CASE Head(commits).kind # "bump"
  <2>1. Head(commits).call \in Calls
    BY <1>2, <1>5 DEF Bump, Dispatch
  <2>2. \/ calls' = [calls EXCEPT ![Head(commits).call].at = "executing"]
        \/ calls' = [calls EXCEPT ![Head(commits).call].at = "failed"]
    BY <1>5 DEF Settle, SettleOk, SettleFail
  <2>4. calls' \in [Calls -> Call]
    <3>1. PICK d \in Calls : \/ calls' = [calls EXCEPT ![d].at = "executing"]
                            \/ calls' = [calls EXCEPT ![d].at = "failed"]
      BY <2>1, <2>2
    <3> QED BY <3>1, CallAtType DEF Places
  <2>3. UNCHANGED <<grants, slots, epoch, cached, cache, version, landed,
                    revokedAt, changes>>
    BY <1>5 DEF Settle, SettleOk, SettleFail
  <2> QED BY <1>2, <2>3, <2>4 DEF TypeOK
<1> QED BY <1>3, <1>4, <1>5 DEF Settle

\* The first state is well typed.
LEMMA InitType == Init => TypeOK
<1> SUFFICES ASSUME Init PROVE TypeOK
  OBVIOUS
<1>1. grants \in [Handles -> Grant]
  BY DEF Init, Grant
<1>2. epoch \in [Scopes -> Nat]
  BY DEF Init
<1>3. \A h \in Handles : Resolution(h) \in Entry
  BY <1>1, <1>2, ConstantsAssumption DEF Init, Resolution, Granted, Grant, Entry
<1>4. cache \in [Handles -> Entry]
  BY <1>3 DEF Init
<1>5. calls \in [Calls -> Call]
  BY <1>3, ConstantsAssumption DEF Init, Call, Places
<1>6. Cardinality(slots) < Capacity
  BY FS_EmptySet, ConstantsAssumption DEF Init
<1>7. commits \in Seq(Bump \union Dispatch)
  BY DEF Init
<1> QED BY <1>1, <1>2, <1>4, <1>5, <1>6, <1>7 DEF Init, TypeOK

\* Every step keeps the types.
LEMMA NextType ==
  ASSUME TypeOK, [Next]_vars
  PROVE  TypeOK'
<1>1. ASSUME NEW h \in Handles, NEW p \in Policies, NEW s \in Scopes,
             Update(h, p, s)
      PROVE  TypeOK'
  <2>1. [grants[h] EXCEPT !.policy = p] \in Grant
    BY DEF TypeOK, Grant
  <2> QED BY <1>1, <2>1, ChangeType DEF Update, TypeOK
<1>2. ASSUME NEW h \in Handles, Revoke(h)
      PROVE  TypeOK'
  <2>1. [grants[h] EXCEPT !.revoked = TRUE] \in Grant
    BY DEF TypeOK, Grant
  <2>2. revokedAt' \in [Handles -> Nat]
    BY <1>2 DEF Revoke, TypeOK, Grant
  <2>3. Session[h] \in Scopes
    BY ConstantsAssumption
  <2> QED BY <1>2, <2>1, <2>2, <2>3, ChangeType DEF Revoke
<1>3. ASSUME NEW h \in Handles, NEW x \in Capabilities, ActivateDeferred(h, x)
      PROVE  TypeOK'
  <2>1. [grants[h] EXCEPT !.active = @ \union {x}] \in Grant
    BY DEF TypeOK, Grant
  <2>2. Session[h] \in Scopes
    BY ConstantsAssumption
  <2> QED BY <1>3, <2>1, <2>2, ChangeType DEF ActivateDeferred, TypeOK
<1>4. ASSUME NEW s \in Scopes, BumpForOthers(s)
      PROVE  TypeOK'
  <2>1. /\ slots' \subseteq Scopes
        /\ Cardinality(slots') < Capacity
        /\ commits' \in Seq(Bump \union Dispatch)
    BY <1>4, RequestBumpType DEF BumpForOthers
  <2>2. /\ changes' \in Nat
        /\ UNCHANGED <<grants, epoch, cached, cache, calls, version, landed,
                       revokedAt>>
    BY <1>4 DEF BumpForOthers, TypeOK
  <2> QED BY <2>1, <2>2 DEF TypeOK
<1>5. CASE Settle
  BY <1>5, SettleType
<1>6. ASSUME NEW c \in Calls, Begin(c) \/ CompleteStream(c)
      PROVE  TypeOK'
  BY <1>6, ResolveType DEF Begin, CompleteStream
<1>7. ASSUME NEW c \in Calls,
             BlockStream(c) \/ Fill(c) \/ Deny(c) \/ Authorize(c) \/ Finish(c)
      PROVE  TypeOK'
  BY <1>7, CallStepType
<1>8. CASE UNCHANGED vars
  BY <1>8 DEF vars, TypeOK
<1> QED BY <1>1, <1>2, <1>3, <1>4, <1>5, <1>6, <1>7, <1>8 DEF Next

-----------------------------------------------------------------------------
(* The frame: what a step that moves no counter forward does to an entry *)

\* An entry stays sound when its grant only changes and counters only grow.
LEMMA SoundStays ==
  ASSUME TypeOK, TypeOK', NEW h \in Handles, NEW e \in Entry, Sound(h, e),
         version[h] <= version'[h],
         \A s \in Scopes : epoch[s] <= epoch'[s],
         revokedAt'[h] = revokedAt[h]
           \/ (revokedAt[h] = 0 /\ revokedAt'[h] > version[h])
  PROVE  Sound(h, e)'
<1>1. /\ version[h] \in Nat /\ version'[h] \in Nat
      /\ revokedAt[h] \in Nat /\ revokedAt'[h] \in Nat
      /\ e.version \in Nat /\ e.version <= version[h]
  BY DEF TypeOK, Entry, Sound
<1>2. ASSUME NEW s \in Scopes PROVE e.stamp[s] <= epoch'[s]
  <2>1. e.stamp[s] \in Nat /\ epoch[s] \in Nat /\ epoch'[s] \in Nat
    BY DEF TypeOK, Entry
  <2>2. e.stamp[s] <= epoch[s] /\ epoch[s] <= epoch'[s]
    BY DEF Sound
  <2> QED BY <2>1, <2>2
<1>3. e.revoked <=> (revokedAt'[h] # 0 /\ revokedAt'[h] <= e.version)
  BY <1>1 DEF Sound
<1> QED BY <1>1, <1>2, <1>3 DEF Sound

\* An appended bump is above every stamp, a removed one is not missed.
LEMMA OvertakenStays ==
  ASSUME TypeOK, TypeOK', NEW h \in Handles, NEW e \in Entry,
         Sound(h, e), Overtaken(h, e),
         \A s \in Scopes : epoch[s] <= epoch'[s],
         landed'[h] = landed[h],
         \A i \in DOMAIN commits' :
           commits'[i].kind = "bump" =>
             \/ \E j \in DOMAIN commits : commits'[i] = commits[j]
             \/ commits'[i].next = epoch[commits'[i].scope] + 1
  PROVE  Overtaken(h, e)'
<1>1. ASSUME NEW i \in DOMAIN commits', BumpAt(i)',
             commits'[i].handle = h, e.version < commits'[i].version
      PROVE  e.stamp[commits'[i].scope] < commits'[i].next
  <2>1. CASE \E j \in DOMAIN commits : commits'[i] = commits[j]
    <3>1. PICK j \in DOMAIN commits : commits'[i] = commits[j]
      BY <2>1
    <3>2. BumpAt(j)
      BY <1>1, <3>1 DEF BumpAt
    <3> QED BY <1>1, <3>1, <3>2 DEF Overtaken
  <2>2. CASE commits'[i].next = epoch[commits'[i].scope] + 1
    <3>0. commits'[i] \in Bump \union Dispatch /\ commits'[i].kind = "bump"
      BY <1>1 DEF TypeOK, BumpAt
    <3>1. PICK s \in Scopes : s = commits'[i].scope
      BY <3>0 DEF Bump, Dispatch
    <3>2. e.stamp[s] \in Nat /\ epoch[s] \in Nat /\ e.stamp[s] <= epoch[s]
      BY DEF Sound, TypeOK, Entry
    <3> QED BY <2>2, <3>1, <3>2
  <2> QED BY <1>1, <2>1, <2>2 DEF BumpAt
<1>2. e.version < landed'[h] => \E s \in Coordinates[h] : e.stamp[s] < epoch'[s]
  <2> SUFFICES ASSUME e.version < landed[h]
               PROVE  \E s \in Coordinates[h] : e.stamp[s] < epoch'[s]
    OBVIOUS
  <2>1. PICK s \in Coordinates[h] : e.stamp[s] < epoch[s]
    BY DEF Overtaken
  <2>2. s \in Scopes
    BY ConstantsAssumption
  <2>3. e.stamp[s] \in Nat /\ epoch[s] \in Nat /\ epoch'[s] \in Nat
    BY <2>2 DEF TypeOK, Entry
  <2>4. epoch[s] <= epoch'[s]
    BY <2>2
  <2> QED BY <2>1, <2>3, <2>4
<1> QED BY <1>1, <1>2 DEF Overtaken

-----------------------------------------------------------------------------
(* What a step does to the counters, the grants and the queue *)

\* A step publishes a bump or it does not.
Publishes == SettleOk /\ Head(commits).kind = "bump"

\* No step takes a counter back: the heart of EpochNeverBack.
LEMMA EpochGrows ==
  ASSUME TypeOK, QueueInv, [Next]_vars
  PROVE  \A s \in Scopes : epoch[s] <= epoch'[s]
<1>1. CASE Publishes
  <2>1. BumpAt(1) /\ Head(commits) = commits[1]
    BY <1>1, TailFacts DEF Publishes, SettleOk, BumpAt, TypeOK
  <2>2. Head(commits) \in Bump
    BY <2>1, BumpType
  <2>3. epoch[Head(commits).scope] <= Head(commits).next
    BY <2>1 DEF QueueInv, BumpAt
  <2>4. epoch' = [epoch EXCEPT ![Head(commits).scope] = Head(commits).next]
    BY <1>1 DEF Publishes, SettleOk
  <2> QED BY <2>2, <2>3, <2>4 DEF TypeOK, Bump
<1>2. CASE ~Publishes
  <2>1. epoch' = epoch
    BY <1>2 DEF Next, vars, Update, Revoke, ActivateDeferred, Change,
                BumpForOthers, Settle, SettleOk, SettleFail, Publishes, Begin,
                CompleteStream, Resolve, BlockStream, Fill, Deny, Authorize,
                Finish
  <2> QED BY <2>1 DEF TypeOK
<1> QED BY <1>1, <1>2

\* A grant's changes are counted up, and it is revoked once.
LEMMA GrantsGrow ==
  ASSUME TypeOK, GrantInv, [Next]_vars, NEW h \in Handles
  PROVE  /\ version[h] <= version'[h]
         /\ \/ revokedAt'[h] = revokedAt[h]
            \/ revokedAt[h] = 0 /\ revokedAt'[h] > version[h]
<1>1. CASE \E g \in Handles : Revoke(g)
  BY <1>1 DEF Revoke, Change, TypeOK, GrantInv
<1>2. ASSUME NEW g \in Handles, NEW x \in Policies, NEW s \in Scopes,
             Update(g, x, s)
      PROVE  version[h] <= version'[h] /\ revokedAt' = revokedAt
  BY <1>2 DEF Update, Change, TypeOK
<1>3. ASSUME NEW g \in Handles, NEW x \in Capabilities, ActivateDeferred(g, x)
      PROVE  version[h] <= version'[h] /\ revokedAt' = revokedAt
  BY <1>3 DEF ActivateDeferred, Change, TypeOK
<1>4. CASE \/ \E s \in Scopes : BumpForOthers(s)
           \/ Settle
           \/ \E c \in Calls : Begin(c) \/ CompleteStream(c) \/ BlockStream(c)
                \/ Fill(c) \/ Deny(c) \/ Authorize(c) \/ Finish(c)
           \/ UNCHANGED vars
  <2>1. version' = version /\ revokedAt' = revokedAt
    BY <1>4 DEF vars, BumpForOthers, Settle, SettleOk, SettleFail, Begin,
                CompleteStream, Resolve, BlockStream, Fill, Deny, Authorize,
                Finish
  <2> QED BY <2>1 DEF TypeOK
<1> QED BY <1>1, <1>2, <1>3, <1>4 DEF Next

\* Where the queue of a step comes from.
QueueFrom ==
  \A i \in DOMAIN commits' :
    commits'[i].kind = "bump" =>
      \/ \E j \in DOMAIN commits : commits'[i] = commits[j]
      \/ commits'[i].next = epoch[commits'[i].scope] + 1

\* What a bump appends.
LEMMA RequestBumpQueue ==
  ASSUME TypeOK
  PROVE  \A s \in Scopes, h \in Handles \union {NoHandle}, v \in Nat :
           RequestBump(s, h, v) =>
             \/ commits' = commits
             \/ \E b \in Bump : /\ commits' = Append(commits, b)
                                /\ b.scope = s /\ b.next = epoch[s] + 1
                                /\ b.handle = h /\ b.version = v
BY DEF RequestBump, Bump, TypeOK

\* What any step other than a settled append adds to the queue.
LEMMA BumpAppends ==
  ASSUME TypeOK, [Next]_vars, ~Settle
  PROVE  \/ commits' = commits
         \/ \E c \in Calls :
              /\ commits' = Append(commits, [kind |-> "dispatch", call |-> c])
              /\ calls' = [calls EXCEPT ![c].at = "dispatching"]
         \/ \E b \in Bump : /\ commits' = Append(commits, b)
                            /\ b.next = epoch[b.scope] + 1
                            /\ b.handle # NoHandle =>
                                 /\ b.handle \in Handles
                                 /\ b.scope \in Coordinates[b.handle]
                                 /\ b.version = version'[b.handle]
<1> DEFINE Appends ==
      \E b \in Bump : /\ commits' = Append(commits, b)
                      /\ b.next = epoch[b.scope] + 1
                      /\ b.handle # NoHandle =>
                           /\ b.handle \in Handles
                           /\ b.scope \in Coordinates[b.handle]
                           /\ b.version = version'[b.handle]
<1>1. ASSUME NEW h \in Handles, NEW s \in Scopes, NEW g, Change(h, s, g),
             s \in Coordinates[h]
      PROVE  commits' = commits \/ Appends
  <2>1. version[h] + 1 \in Nat /\ version'[h] = version[h] + 1
    BY <1>1 DEF Change, TypeOK
  <2>2. RequestBump(s, h, version[h] + 1)
    BY <1>1 DEF Change
  <2> QED BY <2>1, <2>2, <1>1, RequestBumpQueue
<1>2. ASSUME NEW s \in Scopes, BumpForOthers(s)
      PROVE  commits' = commits \/ Appends
  <2>1. RequestBump(s, NoHandle, 0)
    BY <1>2 DEF BumpForOthers
  <2>3. \/ commits' = commits
        \/ \E b \in Bump : /\ commits' = Append(commits, b)
                           /\ b.scope = s /\ b.next = epoch[s] + 1
                           /\ b.handle = NoHandle /\ b.version = 0
    <3> HIDE DEF Appends
    <3>1. PICK h \in Handles \union {NoHandle} : h = NoHandle
      OBVIOUS
    <3>2. PICK v \in Nat : v = 0
      OBVIOUS
    <3>3. RequestBump(s, h, v)
      BY <2>1, <3>1, <3>2
    <3>4. \/ commits' = commits
          \/ \E b \in Bump : /\ commits' = Append(commits, b)
                             /\ b.scope = s /\ b.next = epoch[s] + 1
                             /\ b.handle = h /\ b.version = v
      BY <3>3, RequestBumpQueue
    <3> QED BY <3>1, <3>2, <3>4
  <2> QED BY <2>3
<1>3. ASSUME NEW h \in Handles, NEW p \in Policies, NEW s \in Scopes,
             Update(h, p, s)
      PROVE  commits' = commits \/ Appends
  BY <1>3, <1>1 DEF Update
<1>4. ASSUME NEW h \in Handles,
             Revoke(h) \/ \E x \in Capabilities : ActivateDeferred(h, x)
      PROVE  commits' = commits \/ Appends
  <2>1. Session[h] \in Scopes /\ Session[h] \in Coordinates[h]
    BY ConstantsAssumption
  <2> HIDE DEF Appends
  <2> QED BY <2>1, <1>4, <1>1 DEF Revoke, ActivateDeferred
<1>5. ASSUME NEW c \in Calls, Authorize(c)
      PROVE  \/ commits' = commits
             \/ /\ commits' = Append(commits, [kind |-> "dispatch", call |-> c])
                /\ calls' = [calls EXCEPT ![c].at = "dispatching"]
  BY <1>5 DEF Authorize
<1>6. ASSUME NEW c \in Calls, Begin(c) \/ CompleteStream(c) \/ BlockStream(c)
                                \/ Fill(c) \/ Deny(c) \/ Finish(c)
      PROVE  commits' = commits
  BY <1>6 DEF Begin, CompleteStream, Resolve, BlockStream, Fill, Deny, Finish
<1>7. ASSUME UNCHANGED vars
      PROVE  commits' = commits
  BY <1>7 DEF vars
<1> HIDE DEF Appends
<1>8. \/ commits' = commits
      \/ \E c \in Calls :
           /\ commits' = Append(commits, [kind |-> "dispatch", call |-> c])
           /\ calls' = [calls EXCEPT ![c].at = "dispatching"]
      \/ Appends
  <2>1. CASE \/ \E h \in Handles :
                  \/ \E p \in Policies, s \in Scopes : Update(h, p, s)
                  \/ Revoke(h)
                  \/ \E x \in Capabilities : ActivateDeferred(h, x)
             \/ \E s \in Scopes : BumpForOthers(s)
    BY <2>1, <1>2, <1>3, <1>4
  <2>2. CASE \E c \in Calls : \/ Begin(c) \/ CompleteStream(c) \/ BlockStream(c)
                               \/ Fill(c) \/ Deny(c) \/ Authorize(c) \/ Finish(c)
    BY <2>2, <1>5, <1>6
  <2>3. CASE UNCHANGED vars
    BY <2>3, <1>7
  <2>4. \/ \E h \in Handles :
             \/ \E p \in Policies, s \in Scopes : Update(h, p, s)
             \/ Revoke(h)
             \/ \E x \in Capabilities : ActivateDeferred(h, x)
        \/ \E s \in Scopes : BumpForOthers(s)
        \/ \E c \in Calls : \/ Begin(c) \/ CompleteStream(c) \/ BlockStream(c)
                            \/ Fill(c) \/ Deny(c) \/ Authorize(c) \/ Finish(c)
        \/ UNCHANGED vars
    BY DEF Next
  <2> QED BY <2>1, <2>2, <2>3, <2>4
<1> QED BY <1>8 DEF Appends

\* Every bump of the next queue was there or was computed just now.
LEMMA QueueComesFrom ==
  ASSUME TypeOK, [Next]_vars
  PROVE  QueueFrom
<1>1. CASE Settle
  <2>1. commits # <<>> /\ commits' = Tail(commits)
    BY <1>1 DEF Settle, SettleOk, SettleFail
  <2>2. commits \in Seq(Bump \union Dispatch)
    BY DEF TypeOK
  <2>3. \A i \in DOMAIN commits' : i + 1 \in DOMAIN commits
                                /\ commits'[i] = commits[i + 1]
    BY <2>1, <2>2, TailFacts
  <2> QED BY <2>3 DEF QueueFrom
<1>2. CASE ~Settle
  <2>1. ASSUME NEW c \in Calls,
               commits' = Append(commits, [kind |-> "dispatch", call |-> c])
        PROVE  QueueFrom
    <3> DEFINE d == [kind |-> "dispatch", call |-> c]
    <3>1. d \in Bump \union Dispatch /\ d.kind # "bump"
      BY DEF Dispatch
    <3>2. commits' = Append(commits, d) /\ commits \in Seq(Bump \union Dispatch)
      BY <2>1 DEF TypeOK
    <3> HIDE DEF d
    <3> QED BY <3>1, <3>2, AppendFacts DEF QueueFrom
  <2>2. ASSUME NEW b \in Bump, commits' = Append(commits, b),
               b.next = epoch[b.scope] + 1
        PROVE  QueueFrom
    <3>1. b \in Bump \union Dispatch /\ commits \in Seq(Bump \union Dispatch)
      BY DEF TypeOK
    <3> QED BY <2>2, <3>1, AppendFacts DEF QueueFrom
  <2>3. CASE commits' = commits
    BY <2>3 DEF QueueFrom
  <2> QED BY <1>2, <2>1, <2>2, <2>3, BumpAppends
<1> QED BY <1>1, <1>2

-----------------------------------------------------------------------------
(* Entries stay sound and overtaken whatever the step *)

\* Whatever the step, a sound entry stays sound, an overtaken one overtaken.
LEMMA EntriesStay ==
  ASSUME TypeOK, TypeOK', GrantInv, QueueInv, [Next]_vars,
         NEW h \in Handles, NEW e \in Entry, Sound(h, e)
  PROVE  /\ Sound(h, e)'
         /\ Overtaken(h, e) => Overtaken(h, e)'
<1>1. \A s \in Scopes : epoch[s] <= epoch'[s]
  BY EpochGrows
<1>2. Sound(h, e)'
  BY <1>1, GrantsGrow, SoundStays
<1>3. CASE ~Publishes
  <2>1. landed' = landed
    BY <1>3 DEF Next, vars, Update, Revoke, ActivateDeferred, Change,
                BumpForOthers, Settle, SettleOk, SettleFail, Publishes, Begin,
                CompleteStream, Resolve, BlockStream, Fill, Deny, Authorize,
                Finish
  <2> QED BY <1>1, <1>2, <2>1, QueueComesFrom, OvertakenStays DEF QueueFrom
<1>4. ASSUME Publishes, Overtaken(h, e)
      PROVE  Overtaken(h, e)'
  <2> DEFINE b == Head(commits)
  <2>1. BumpAt(1) /\ b = commits[1] /\ b \in Bump /\ 1 \in DOMAIN commits
    BY <1>4, TailFacts, BumpType DEF Publishes, SettleOk, BumpAt, TypeOK
  <2>2. epoch' = [epoch EXCEPT ![b.scope] = b.next]
    BY <1>4 DEF Publishes, SettleOk
  <2>3. /\ commits' = Tail(commits)
        /\ commits # <<>>
    BY <1>4 DEF Publishes, SettleOk
  <2>4. landed'[h] = IF h = b.handle /\ b.version > landed[h]
                       THEN b.version ELSE landed[h]
    BY <1>4 DEF Publishes, SettleOk
  <2>5. ASSUME NEW i \in DOMAIN commits', commits'[i].kind = "bump",
               commits'[i].handle = h, e.version < commits'[i].version
        PROVE  e.stamp[commits'[i].scope] < commits'[i].next
    <3>1. i + 1 \in DOMAIN commits /\ commits'[i] = commits[i + 1]
      BY <2>3, <2>5, TailFacts DEF TypeOK
    <3> QED BY <1>4, <2>5, <3>1 DEF Overtaken, BumpAt
  <2>6. ASSUME e.version < landed'[h]
        PROVE  \E s \in Coordinates[h] : e.stamp[s] < epoch'[s]
    <3>1. CASE e.version < landed[h]
      <4>1. PICK s \in Coordinates[h] : e.stamp[s] < epoch[s]
        BY <3>1, <1>4 DEF Overtaken
      <4>2. s \in Scopes
        BY ConstantsAssumption
      <4>3. e.stamp[s] \in Nat /\ epoch[s] \in Nat /\ epoch'[s] \in Nat
        BY <4>2 DEF TypeOK, Entry
      <4>4. epoch[s] <= epoch'[s]
        BY <1>1, <4>2
      <4> QED BY <4>1, <4>3, <4>4
    <3>2. CASE h = b.handle /\ e.version < b.version
      <4>1. e.stamp[b.scope] < b.next
        BY <1>4, <2>1, <3>2 DEF Overtaken
      <4>2. b.scope \in Coordinates[h]
        <5>1. h # NoHandle
          BY ConstantsAssumption
        <5> QED BY <2>1, <3>2, <5>1 DEF QueueInv
      <4>3. epoch'[b.scope] = b.next
        BY <2>1, <2>2 DEF TypeOK, Bump
      <4> QED BY <4>1, <4>2, <4>3
    <3> QED BY <2>4, <2>6, <3>1, <3>2
  <2> QED BY <2>5, <2>6 DEF Overtaken, BumpAt
<1> QED BY <1>2, <1>3, <1>4

\* What resolve computes is sound, and nothing has overtaken it.
LEMMA ResolutionGood ==
  ASSUME TypeOK, GrantInv, QueueInv, NEW h \in Handles
  PROVE  /\ Sound(h, Resolution(h))
         /\ Overtaken(h, Resolution(h))
         /\ landed[h] <= Resolution(h).version
<1>1. /\ version[h] \in Nat /\ landed[h] \in Nat /\ revokedAt[h] \in Nat
      /\ landed[h] <= version[h] /\ revokedAt[h] <= version[h]
      /\ grants[h].revoked <=> revokedAt[h] # 0
  BY DEF TypeOK, GrantInv
<1>2. Sound(h, Resolution(h))
  BY <1>1 DEF Sound, Resolution, TypeOK
<1>3. ASSUME NEW i \in DOMAIN commits, BumpAt(i), commits[i].handle = h
      PROVE  commits[i].version <= version[h]
  <2>1. h # NoHandle
    BY ConstantsAssumption
  <2> QED BY <1>3, <2>1 DEF QueueInv
<1>4. \A i \in DOMAIN commits : BumpAt(i) => commits[i].version \in Nat
  BY BumpType DEF Bump
<1> QED BY <1>1, <1>2, <1>3, <1>4 DEF Overtaken, Resolution

\* An entry that is served is not older than a change that returned.
LEMMA HitIsCurrent ==
  ASSUME TypeOK, NEW h \in Handles, NEW e \in Entry, Overtaken(h, e),
         SameStamp(h, e)
  PROVE  landed[h] <= e.version
<1>1. \A s \in Coordinates[h] : s \in Scopes
  BY ConstantsAssumption
<1>2. ~(e.version < landed[h])
  <2> SUFFICES ASSUME e.version < landed[h] PROVE FALSE
    OBVIOUS
  <2>1. PICK s \in Coordinates[h] : e.stamp[s] < epoch[s]
    BY DEF Overtaken
  <2>2. e.stamp[s] = epoch[s] /\ epoch[s] \in Nat
    BY <1>1 DEF SameStamp, TypeOK
  <2> QED BY <2>1, <2>2
<1> QED BY <1>2 DEF TypeOK, Entry

-----------------------------------------------------------------------------
(* Each part of the invariant *)

\* GrantInv is kept by every step.
LEMMA GrantPart ==
  ASSUME TypeOK, TypeOK', GrantInv, QueueInv, [Next]_vars
  PROVE  GrantInv'
<1>1. CASE Publishes
  <2>1. Head(commits) \in Bump /\ BumpAt(1) /\ Head(commits) = commits[1]
    BY <1>1, TailFacts, BumpType DEF Publishes, SettleOk, BumpAt, TypeOK
  <2>2. UNCHANGED <<grants, version, revokedAt>>
    BY <1>1 DEF Publishes, SettleOk
  <2>3. ASSUME NEW h \in Handles
        PROVE  landed'[h] <= version[h]
    <3>1. landed'[h] = IF h = Head(commits).handle /\ Head(commits).version > landed[h]
                         THEN Head(commits).version ELSE landed[h]
      BY <1>1 DEF Publishes, SettleOk
    <3>2. h # NoHandle
      BY ConstantsAssumption
    <3>3. h = Head(commits).handle => Head(commits).version <= version[h]
      BY <2>1, <3>2 DEF QueueInv, BumpAt
    <3> QED BY <3>1, <3>3 DEF GrantInv
  <2> QED BY <2>2, <2>3 DEF GrantInv
<1>2. ASSUME NEW h \in Handles, Revoke(h)
      PROVE  GrantInv'
  BY <1>2 DEF Revoke, Change, GrantInv, TypeOK, Grant
<1>3. ASSUME NEW h \in Handles, NEW p \in Policies, NEW s \in Scopes,
             Update(h, p, s)
      PROVE  GrantInv'
  BY <1>3 DEF Update, Change, GrantInv, TypeOK, Grant
<1>4. ASSUME NEW h \in Handles, NEW x \in Capabilities, ActivateDeferred(h, x)
      PROVE  GrantInv'
  BY <1>4 DEF ActivateDeferred, Change, GrantInv, TypeOK, Grant
<1>5. CASE \/ \E s \in Scopes : BumpForOthers(s)
           \/ Settle /\ ~Publishes
           \/ \E c \in Calls : Begin(c) \/ CompleteStream(c) \/ BlockStream(c)
                \/ Fill(c) \/ Deny(c) \/ Authorize(c) \/ Finish(c)
           \/ UNCHANGED vars
  <2>1. UNCHANGED <<grants, version, landed, revokedAt>>
    BY <1>5 DEF vars, BumpForOthers, Settle, SettleOk, SettleFail, Publishes,
                Begin, CompleteStream, Resolve, BlockStream, Fill, Deny,
                Authorize, Finish
  <2> QED BY <2>1 DEF GrantInv
<1> QED BY <1>1, <1>2, <1>3, <1>4, <1>5 DEF Next

\* A queue that only lost its head, under counters that follow it.
LEMMA QueueShifted ==
  ASSUME TypeOK, QueueInv, commits # <<>>, commits' = Tail(commits),
         UNCHANGED version,
         \/ UNCHANGED epoch
         \/ /\ Head(commits).kind = "bump"
            /\ epoch' = [epoch EXCEPT ![Head(commits).scope] = Head(commits).next]
  PROVE  QueueInv'
<1>1. /\ 1 \in DOMAIN commits /\ Head(commits) = commits[1]
      /\ \A i \in DOMAIN commits' :
           i \in Nat /\ i + 1 \in DOMAIN commits /\ 1 < i + 1
             /\ commits'[i] = commits[i + 1]
  BY TailFacts DEF TypeOK
<1>2. ASSUME NEW i \in DOMAIN commits', BumpAt(i)'
      PROVE  /\ epoch'[commits'[i].scope] <= commits'[i].next
             /\ commits'[i].next <= epoch'[commits'[i].scope] + 1
  <2>1. BumpAt(i + 1) /\ commits[i + 1] \in Bump /\ i + 1 \in DOMAIN commits
    BY <1>1, <1>2, BumpType DEF BumpAt
  <2>2. /\ epoch[commits[i + 1].scope] <= commits[i + 1].next
        /\ commits[i + 1].next <= epoch[commits[i + 1].scope] + 1
    BY <2>1 DEF QueueInv
  <2>3. CASE UNCHANGED epoch
    BY <1>1, <2>2, <2>3
  <2>4. CASE /\ Head(commits).kind = "bump"
             /\ epoch' = [epoch EXCEPT ![Head(commits).scope] = Head(commits).next]
    <3>1. BumpAt(1) /\ commits[1] \in Bump
      BY <1>1, <2>4, BumpType DEF BumpAt
    <3>2. /\ epoch[commits[1].scope] <= commits[1].next
          /\ commits[i + 1].scope = commits[1].scope
               => commits[1].next <= commits[i + 1].next
      BY <1>1, <2>1, <3>1 DEF QueueInv
    <3>3. epoch' = [epoch EXCEPT ![commits[1].scope] = commits[1].next]
      BY <1>1, <2>4
    <3>4. commits[1].scope \in Scopes /\ commits[1].next \in Nat
          /\ commits[i + 1].scope \in Scopes /\ commits[i + 1].next \in Nat
      BY <2>1, <3>1 DEF Bump
    <3>5. epoch'[commits[i + 1].scope]
            = IF commits[i + 1].scope = commits[1].scope
                THEN commits[1].next ELSE epoch[commits[i + 1].scope]
      BY <3>3, <3>4 DEF TypeOK
    <3>6. epoch[commits[i + 1].scope] \in Nat
      BY <3>4 DEF TypeOK
    <3> QED BY <1>1, <2>2, <3>2, <3>4, <3>5, <3>6
  <2> QED BY <2>3, <2>4
<1>3. ASSUME NEW i \in DOMAIN commits', BumpAt(i)'
      PROVE  /\ commits'[i].handle # NoHandle =>
                  /\ commits'[i].scope \in Coordinates[commits'[i].handle]
                  /\ commits'[i].version <= version[commits'[i].handle]
             /\ \A j \in DOMAIN commits' :
                  BumpAt(j)' /\ i < j /\ commits'[j].scope = commits'[i].scope
                    => commits'[i].next <= commits'[j].next
  <2>1. BumpAt(i + 1) /\ i + 1 \in DOMAIN commits /\ i \in Nat
    BY <1>1, <1>3 DEF BumpAt
  <2>2. ASSUME NEW j \in DOMAIN commits', BumpAt(j)', i < j,
               commits'[j].scope = commits'[i].scope
        PROVE  commits'[i].next <= commits'[j].next
    <3>1. BumpAt(j + 1) /\ j + 1 \in DOMAIN commits /\ i + 1 < j + 1
      BY <1>1, <2>1, <2>2 DEF BumpAt
    <3> QED BY <1>1, <2>1, <2>2, <3>1 DEF QueueInv
  <2>3. commits'[i].handle # NoHandle =>
          /\ commits'[i].scope \in Coordinates[commits'[i].handle]
          /\ commits'[i].version <= version[commits'[i].handle]
    BY <1>1, <2>1 DEF QueueInv
  <2> QED BY <2>2, <2>3
<1> QED BY <1>2, <1>3 DEF QueueInv

\* A queue that grew by an append that fits.
LEMMA QueueGrown ==
  ASSUME TypeOK, TypeOK', QueueInv, UNCHANGED epoch,
         \A h \in Handles : version[h] <= version'[h],
         NEW x \in Bump \union Dispatch, commits' = Append(commits, x),
         x.kind = "bump" =>
           /\ x.next = epoch[x.scope] + 1
           /\ x.handle # NoHandle =>
                /\ x.scope \in Coordinates[x.handle]
                /\ x.version = version'[x.handle]
  PROVE  QueueInv'
<1> DEFINE n == Len(commits) + 1
<1>1. /\ DOMAIN commits' = DOMAIN commits \union {n}
      /\ \A i \in DOMAIN commits : commits'[i] = commits[i] /\ i \in Nat /\ i < n
      /\ commits'[n] = x
      /\ n \in Nat
  BY AppendFacts DEF TypeOK
<1> HIDE DEF n
<1>2. x.kind = "bump" => x \in Bump
  BY DEF Bump, Dispatch
<1>3. ASSUME NEW i \in DOMAIN commits, BumpAt(i)
      PROVE  /\ commits[i] \in Bump
             /\ epoch[commits[i].scope] <= commits[i].next
             /\ commits[i].next <= epoch[commits[i].scope] + 1
             /\ commits[i].handle # NoHandle =>
                  /\ commits[i].scope \in Coordinates[commits[i].handle]
                  /\ commits[i].version <= version'[commits[i].handle]
  <2>1. commits[i] \in Bump
    BY <1>3, BumpType
  <2>2. commits[i].handle # NoHandle =>
          /\ commits[i].handle \in Handles
          /\ commits[i].version <= version[commits[i].handle]
    BY <1>3, <2>1 DEF QueueInv, Bump
  <2>3. commits[i].handle # NoHandle =>
          commits[i].version <= version'[commits[i].handle]
    BY <2>1, <2>2 DEF TypeOK, Bump
  <2> QED BY <1>3, <2>1, <2>3 DEF QueueInv
<1>4. ASSUME NEW i \in DOMAIN commits', BumpAt(i)'
      PROVE  /\ epoch'[commits'[i].scope] <= commits'[i].next
             /\ commits'[i].next <= epoch'[commits'[i].scope] + 1
             /\ commits'[i].handle # NoHandle =>
                  /\ commits'[i].scope \in Coordinates[commits'[i].handle]
                  /\ commits'[i].version <= version'[commits'[i].handle]
  <2>1. CASE i \in DOMAIN commits
    BY <1>1, <1>3, <1>4, <2>1 DEF BumpAt
  <2>2. CASE i = n
    <3>1. x \in Bump /\ x.kind = "bump"
      BY <1>1, <1>2, <1>4, <2>2 DEF BumpAt
    <3>2. epoch[x.scope] \in Nat /\ (x.handle # NoHandle => x.handle \in Handles)
      BY <3>1 DEF TypeOK, Bump
    <3>3. x.handle # NoHandle => version'[x.handle] \in Nat
      BY <3>2 DEF TypeOK
    <3> QED BY <1>1, <2>2, <3>1, <3>2, <3>3
  <2> QED BY <1>1, <2>1, <2>2
<1>5. ASSUME NEW i \in DOMAIN commits', BumpAt(i)',
             NEW j \in DOMAIN commits', BumpAt(j)', i < j,
             commits'[j].scope = commits'[i].scope
      PROVE  commits'[i].next <= commits'[j].next
  <2>1. i \in DOMAIN commits
    BY <1>1, <1>5
  <2>2. CASE j \in DOMAIN commits
    BY <1>1, <1>5, <2>1, <2>2 DEF BumpAt, QueueInv
  <2>3. CASE j = n
    <3>1. BumpAt(i) /\ commits'[i] = commits[i]
      BY <1>1, <1>5, <2>1 DEF BumpAt
    <3>2. x.next = epoch[x.scope] + 1
      BY <1>1, <1>5, <2>3 DEF BumpAt
    <3> QED BY <1>1, <1>3, <1>5, <2>1, <2>3, <3>1, <3>2
  <2> QED BY <1>1, <2>2, <2>3
<1> QED BY <1>4, <1>5 DEF QueueInv

\* QueueInv is kept by every step.
LEMMA QueuePart ==
  ASSUME TypeOK, TypeOK', GrantInv, QueueInv, [Next]_vars
  PROVE  QueueInv'
<1>1. CASE Settle
  <2>1. /\ commits # <<>>
        /\ commits' = Tail(commits)
        /\ UNCHANGED version
        /\ \/ UNCHANGED epoch
           \/ /\ Head(commits).kind = "bump"
              /\ epoch' = [epoch EXCEPT ![Head(commits).scope] = Head(commits).next]
    BY <1>1 DEF Settle, SettleOk, SettleFail
  <2> QED BY <2>1, QueueShifted
<1>2. CASE ~Settle
  <2>1. \A h \in Handles : version[h] <= version'[h]
    BY GrantsGrow
  <2>2. UNCHANGED epoch
    BY <1>2 DEF Next, vars, Update, Revoke, ActivateDeferred, Change,
                BumpForOthers, Begin, CompleteStream, Resolve, BlockStream,
                Fill, Deny, Authorize, Finish
  <2>3. CASE commits' = commits
    <3>1. ASSUME NEW i \in DOMAIN commits, BumpAt(i), commits[i].handle # NoHandle
          PROVE  commits[i].version <= version'[commits[i].handle]
      <4>1. commits[i] \in Bump /\ commits[i].version <= version[commits[i].handle]
        BY <3>1, BumpType DEF QueueInv
      <4> QED BY <2>1, <3>1, <4>1 DEF TypeOK, Bump
    <3> QED BY <2>2, <2>3, <3>1 DEF QueueInv, BumpAt
  <2>4. ASSUME NEW c \in Calls,
               commits' = Append(commits, [kind |-> "dispatch", call |-> c])
        PROVE  QueueInv'
    <3> DEFINE d == [kind |-> "dispatch", call |-> c]
    <3>1. d \in Bump \union Dispatch /\ d.kind # "bump" /\ commits' = Append(commits, d)
      BY <2>4 DEF Dispatch
    <3> HIDE DEF d
    <3> QED BY <2>1, <2>2, <3>1, QueueGrown
  <2>5. ASSUME NEW b \in Bump, commits' = Append(commits, b),
               b.next = epoch[b.scope] + 1,
               b.handle # NoHandle =>
                 /\ b.handle \in Handles
                 /\ b.scope \in Coordinates[b.handle]
                 /\ b.version = version'[b.handle]
        PROVE  QueueInv'
    BY <2>1, <2>2, <2>5, QueueGrown
  <2> QED BY <1>2, <2>3, <2>4, <2>5, BumpAppends
<1> QED BY <1>1, <1>2

\* CacheInv is kept by every step.
LEMMA CachePart ==
  ASSUME TypeOK, TypeOK', GrantInv, QueueInv, CacheInv, CallInv, [Next]_vars
  PROVE  CacheInv'
<1>1. ASSUME NEW c \in Calls, Fill(c)
      PROVE  CacheInv'
  <2> DEFINE h == HandleOf[c]
  <2>1. h \in Handles /\ calls[c].entry \in Entry
    BY ConstantsAssumption DEF TypeOK, Call
  <2>2. Sound(h, calls[c].entry) /\ Overtaken(h, calls[c].entry)
    BY <1>1 DEF Fill, CallInv
  <2>3. PICK e \in Entry : e = calls[c].entry
    BY <2>1
  <2>7. Sound(h, e)' /\ Overtaken(h, e)'
    <3>1. Sound(h, e) /\ Overtaken(h, e)
      BY <2>2, <2>3
    <3> QED BY <2>1, <3>1, EntriesStay
  <2>4. /\ cache' = [cache EXCEPT ![h] = calls[c].entry]
        /\ cached' = cached \union {h}
    BY <1>1 DEF Fill
  <2>5. ASSUME NEW g \in cached', g # h
        PROVE  Sound(g, cache[g])' /\ Overtaken(g, cache[g])'
    <3>1. g \in cached /\ g \in Handles /\ cache[g] \in Entry /\ cache'[g] = cache[g]
      BY <2>1, <2>4, <2>5 DEF TypeOK
    <3>2. Sound(g, cache[g]) /\ Overtaken(g, cache[g])
      BY <3>1 DEF CacheInv
    <3>3. \A x \in Entry : Sound(g, x) /\ Overtaken(g, x) =>
            Sound(g, x)' /\ Overtaken(g, x)'
      BY <3>1, EntriesStay
    <3> QED BY <3>1, <3>2, <3>3
  <2>6. cache'[h] = e
    BY <2>1, <2>3, <2>4 DEF TypeOK
  <2> HIDE DEF h
  <2> QED BY <2>5, <2>6, <2>7 DEF CacheInv
<1>2. CASE /\ cached' \subseteq cached
           /\ cache' = cache
  <2>1. ASSUME NEW g \in cached'
        PROVE  Sound(g, cache[g])' /\ Overtaken(g, cache[g])'
    <3>1. g \in cached /\ g \in Handles /\ cache[g] \in Entry /\ cache'[g] = cache[g]
      BY <1>2, <2>1 DEF TypeOK
    <3>2. Sound(g, cache[g]) /\ Overtaken(g, cache[g])
      BY <3>1 DEF CacheInv
    <3>3. \A x \in Entry : Sound(g, x) /\ Overtaken(g, x) =>
            Sound(g, x)' /\ Overtaken(g, x)'
      BY <3>1, EntriesStay
    <3> QED BY <3>1, <3>2, <3>3
  <2> QED BY <1>2, <2>1 DEF CacheInv
<1>3. CASE ~ \E c \in Calls : Fill(c)
  <2>1. cached' \subseteq cached /\ cache' = cache
    BY <1>3 DEF Next, vars, Update, Revoke, ActivateDeferred, Change,
                BumpForOthers, Settle, SettleOk, SettleFail, Begin,
                CompleteStream, Resolve, BlockStream, Deny, Authorize, Finish
  <2> QED BY <1>2, <2>1
<1> QED BY <1>1, <1>3

\* A step of a call that only moves it, keeping its entry and floor.
Moves(c) ==
  /\ calls[c].at # "idle"
  /\ calls'[c].entry = calls[c].entry
  /\ calls'[c].floor = calls[c].floor
  /\ calls'[c].at = "filling" => calls[c].at = "filling"
  /\ calls'[c].at \in Past => ~calls[c].entry.revoked

\* A step resolves the grant of a call anew or keeps what it resolved.
LEMMA CallMoves ==
  ASSUME TypeOK, TypeOK', GrantInv, QueueInv, CallInv, DispatchInv,
         [Next]_vars, NEW c \in Calls, calls'[c].at # "idle"
  PROVE  Moves(c) \/ (Resolve(c) /\ calls[c].at \in {"idle", "prepared"})
<1>1. CASE calls'[c] = calls[c]
  BY <1>1 DEF CallInv, Moves
<1>2. ASSUME NEW d \in Calls, Begin(d) \/ CompleteStream(d)
      PROVE  \/ calls'[c] = calls[c]
             \/ Resolve(c) /\ calls[c].at \in {"idle", "prepared"}
  BY <1>2 DEF Begin, CompleteStream, Resolve, TypeOK
<1>3. ASSUME NEW d \in Calls,
             Fill(d) \/ Deny(d) \/ BlockStream(d) \/ Finish(d)
      PROVE  calls'[c] = calls[c] \/ Moves(c)
  <2>1. CASE d # c
    BY <1>3, <2>1 DEF Fill, Deny, BlockStream, Finish, TypeOK
  <2>2. CASE d = c
    BY <1>3, <2>2 DEF Fill, Deny, BlockStream, Finish, TypeOK, Call, Moves,
                      CallInv, Past
  <2> QED BY <2>1, <2>2
<1>4. ASSUME NEW d \in Calls, Authorize(d)
      PROVE  calls'[c] = calls[c] \/ Moves(c)
  <2>1. \/ calls' = [calls EXCEPT ![d].at = "prepared"]
        \/ calls' = [calls EXCEPT ![d].at = "dispatching"]
    BY <1>4 DEF Authorize
  <2>2. calls[d].at = "resolved" /\ ~calls[d].entry.revoked
    BY <1>4 DEF Authorize, Refused
  <2> QED BY <2>1, <2>2 DEF TypeOK, Call, Moves
<1>5. CASE Settle
  <2>1. \/ calls' = calls
        \/ /\ commits # <<>> /\ Head(commits).kind # "bump"
           /\ \/ calls' = [calls EXCEPT ![Head(commits).call].at = "executing"]
              \/ calls' = [calls EXCEPT ![Head(commits).call].at = "failed"]
    BY <1>5 DEF Settle, SettleOk, SettleFail
  <2>2. ASSUME commits # <<>>, Head(commits).kind # "bump",
               NEW p \in {"executing", "failed"},
               calls' = [calls EXCEPT ![Head(commits).call].at = p]
        PROVE  calls'[c] = calls[c] \/ Moves(c)
    <3>1. 1 \in DOMAIN commits /\ commits[1] = Head(commits)
          /\ Head(commits) \in Bump \union Dispatch
      BY <2>2, TailFacts DEF TypeOK
    <3>2. commits[1].kind = "dispatch" /\ commits[1].call \in Calls
      BY <2>2, <3>1 DEF Bump, Dispatch
    <3>3. PICK d \in Calls : d = commits[1].call
      BY <3>2
    <3>4. calls[d].at \in Past
      BY <3>1, <3>2, <3>3 DEF DispatchInv
    <3>5. calls[d].at # "idle" /\ ~calls[d].entry.revoked
      BY <3>4 DEF CallInv, Past
    <3>6. calls' = [calls EXCEPT ![d].at = p]
      BY <2>2, <3>1, <3>3
    <3>7. CASE d # c
      BY <3>6, <3>7 DEF TypeOK
    <3>8. CASE d = c
      BY <2>2, <3>5, <3>6, <3>8 DEF TypeOK, Call, Moves
    <3> QED BY <3>7, <3>8
  <2>3. CASE calls' = calls
    BY <2>3, <1>1
  <2>4. CASE \E p \in {"executing", "failed"} :
                /\ commits # <<>> /\ Head(commits).kind # "bump"
                /\ calls' = [calls EXCEPT ![Head(commits).call].at = p]
    BY <2>2, <2>4, <1>1
  <2> QED BY <2>1, <2>3, <2>4
<1>6. CASE \/ \E h \in Handles :
                \/ \E p \in Policies, s \in Scopes : Update(h, p, s)
                \/ Revoke(h)
                \/ \E x \in Capabilities : ActivateDeferred(h, x)
           \/ \E s \in Scopes : BumpForOthers(s)
           \/ UNCHANGED vars
  BY <1>1, <1>6 DEF vars, Update, Revoke, ActivateDeferred, Change, BumpForOthers
<1> QED BY <1>1, <1>2, <1>3, <1>4, <1>5, <1>6 DEF Next

\* CallInv is kept by every step.
LEMMA CallPart ==
  ASSUME IInv, TypeOK', [Next]_vars
  PROVE  CallInv'
<1> USE DEF IInv
<1> SUFFICES ASSUME NEW c \in Calls, calls'[c].at # "idle"
             PROVE  /\ Sound(HandleOf[c], calls[c].entry)'
                    /\ calls'[c].at = "filling"
                         => Overtaken(HandleOf[c], calls[c].entry)'
                    /\ calls'[c].floor <= calls'[c].entry.version
                    /\ calls'[c].at \in Past => ~calls'[c].entry.revoked
  BY DEF CallInv
<1>1. HandleOf[c] \in Handles /\ calls[c].entry \in Entry
  BY ConstantsAssumption DEF TypeOK, Call
<1>2. \A x \in Entry : Sound(HandleOf[c], x) =>
        /\ Sound(HandleOf[c], x)'
        /\ Overtaken(HandleOf[c], x) => Overtaken(HandleOf[c], x)'
  BY <1>1, EntriesStay
<1>3. CASE Moves(c)
  <2>1. /\ Sound(HandleOf[c], calls[c].entry)
        /\ calls[c].at = "filling" => Overtaken(HandleOf[c], calls[c].entry)
        /\ calls[c].floor <= calls[c].entry.version
    BY <1>3 DEF CallInv, Moves
  <2>2. /\ calls'[c].entry = calls[c].entry /\ calls'[c].floor = calls[c].floor
        /\ calls'[c].at = "filling" => calls[c].at = "filling"
        /\ calls'[c].at \in Past => ~calls[c].entry.revoked
    BY <1>3 DEF Moves
  <2>3. PICK x \in Entry : x = calls[c].entry
    BY <1>1
  <2>4. Sound(HandleOf[c], x) /\ (calls[c].at = "filling" => Overtaken(HandleOf[c], x))
    BY <2>1, <2>3
  <2>5. /\ Sound(HandleOf[c], x)'
        /\ calls[c].at = "filling" => Overtaken(HandleOf[c], x)'
    BY <1>2, <2>4
  <2>6. x = calls'[c].entry
    BY <2>2, <2>3
  <2> QED BY <2>1, <2>2, <2>5, <2>6
<1>4. CASE Resolve(c)
  <2> DEFINE h == HandleOf[c]
             hit == h \in cached /\ SameStamp(h, cache[h])
             x == IF hit THEN cache[h] ELSE Resolution(h)
  <2>1. /\ calls'[c].entry = x
        /\ calls'[c].floor = landed[h]
        /\ calls'[c].at \in {"resolved", "filling"}
    BY <1>4 DEF Resolve, TypeOK
  <2>2. x \in Entry /\ Sound(h, x) /\ Overtaken(h, x) /\ landed[h] <= x.version
    <3>1. CASE hit
      <4>1. cache[h] \in Entry /\ Sound(h, cache[h]) /\ Overtaken(h, cache[h])
        BY <3>1, <1>1 DEF CacheInv, TypeOK
      <4> QED BY <1>1, <3>1, <4>1, HitIsCurrent
    <3>2. CASE ~hit
      BY <1>1, <3>2, ResolutionType, ResolutionGood
    <3> QED BY <3>1, <3>2
  <2>3. PICK e \in Entry : e = x
    BY <2>2
  <2>4. Sound(HandleOf[c], e) /\ Overtaken(HandleOf[c], e) /\ landed[h] <= e.version
    BY <2>2, <2>3
  <2>5. Sound(HandleOf[c], e)' /\ Overtaken(HandleOf[c], e)'
    BY <1>2, <2>4
  <2>6. e = calls'[c].entry
    BY <2>1, <2>3
  <2> HIDE DEF x
  <2> QED BY <2>1, <2>4, <2>5, <2>6 DEF Past
<1> QED BY <1>3, <1>4, CallMoves

\* DispatchInv is kept by every step.
LEMMA DispatchPart ==
  ASSUME IInv, TypeOK', [Next]_vars
  PROVE  DispatchInv'
<1> USE DEF IInv
<1>1. ASSUME NEW c \in Calls, calls[c].at \in Past
      PROVE  calls'[c].at \in Past
  <2>1. ASSUME NEW d \in Calls, NEW p \in Past,
               calls' = [calls EXCEPT ![d].at = p]
        PROVE  calls'[c].at \in Past
    BY <1>1, <2>1 DEF TypeOK, Call
  <2>2. ASSUME NEW d \in Calls,
               Begin(d) \/ CompleteStream(d) \/ BlockStream(d) \/ Fill(d)
                 \/ Deny(d) \/ Authorize(d)
        PROVE  calls'[c].at \in Past
    <3>1. d # c
      BY <1>1, <2>2 DEF Begin, CompleteStream, BlockStream, Fill, Deny,
                        Authorize, Past
    <3>2. calls'[c] = calls[c]
      BY <2>2, <3>1 DEF Begin, CompleteStream, Resolve, BlockStream, Fill,
                        Deny, Authorize, TypeOK
    <3> QED BY <1>1, <3>2
  <2>3. ASSUME NEW d \in Calls, Finish(d)
        PROVE  calls'[c].at \in Past
    BY <2>1, <2>3 DEF Finish, Past
  <2>4. CASE Settle
    <3>1. CASE calls' = calls
      BY <1>1, <3>1
    <3>2. CASE commits # <<>> /\ Head(commits).kind # "bump"
      <4>1. Head(commits).call \in Calls
        BY <3>2, TailFacts DEF TypeOK, Bump, Dispatch
      <4>2. \E p \in {"executing", "failed"} :
              calls' = [calls EXCEPT ![Head(commits).call].at = p]
        BY <2>4, <3>2 DEF Settle, SettleOk, SettleFail
      <4> QED BY <4>1, <4>2, <2>1 DEF Past
    <3> QED BY <2>4, <3>1, <3>2 DEF Settle, SettleOk, SettleFail
  <2>5. CASE \/ \E h \in Handles :
                  \/ \E p \in Policies, s \in Scopes : Update(h, p, s)
                  \/ Revoke(h)
                  \/ \E x \in Capabilities : ActivateDeferred(h, x)
             \/ \E s \in Scopes : BumpForOthers(s)
             \/ UNCHANGED vars
    BY <1>1, <2>5 DEF vars, Update, Revoke, ActivateDeferred, Change,
                      BumpForOthers
  <2> QED BY <2>2, <2>3, <2>4, <2>5 DEF Next
<1>2. CASE Settle
  <2>1. commits # <<>> /\ commits' = Tail(commits)
    BY <1>2 DEF Settle, SettleOk, SettleFail
  <2>2. \A i \in DOMAIN commits' : i + 1 \in DOMAIN commits
          /\ commits'[i] = commits[i + 1] /\ commits[i + 1] \in Bump \union Dispatch
    BY <2>1, TailFacts DEF TypeOK
  <2> QED BY <1>1, <2>2 DEF DispatchInv, Bump, Dispatch
<1>3. CASE commits' = commits
  <2>1. \A i \in DOMAIN commits : commits[i] \in Bump \union Dispatch
    BY DEF TypeOK
  <2> QED BY <1>1, <1>3, <2>1 DEF DispatchInv, Bump, Dispatch
<1>4. ASSUME NEW x \in Bump \union Dispatch, commits' = Append(commits, x),
             x.kind = "dispatch" => calls'[x.call].at \in Past
      PROVE  DispatchInv'
  <2>1. /\ DOMAIN commits' = DOMAIN commits \union {Len(commits) + 1}
        /\ \A i \in DOMAIN commits :
             commits'[i] = commits[i] /\ commits[i] \in Bump \union Dispatch
        /\ commits'[Len(commits) + 1] = x
    BY <1>4, AppendFacts DEF TypeOK
  <2> QED BY <1>1, <1>4, <2>1 DEF DispatchInv, Bump, Dispatch
<1>5. ASSUME NEW c \in Calls,
             commits' = Append(commits, [kind |-> "dispatch", call |-> c]),
             calls' = [calls EXCEPT ![c].at = "dispatching"]
      PROVE  DispatchInv'
  <2> DEFINE d == [kind |-> "dispatch", call |-> c]
  <2>1. d \in Bump \union Dispatch /\ d.call = c /\ commits' = Append(commits, d)
    BY <1>5 DEF Dispatch
  <2>2. calls'[c].at \in Past
    BY <1>5 DEF TypeOK, Call, Past
  <2> HIDE DEF d
  <2> QED BY <2>1, <2>2, <1>4
<1>6. ASSUME NEW b \in Bump, commits' = Append(commits, b)
      PROVE  DispatchInv'
  <2>1. b \in Bump \union Dispatch /\ b.kind # "dispatch"
    BY DEF Bump
  <2> QED BY <2>1, <1>4, <1>6
<1>7. CASE ~Settle
  BY <1>7, <1>3, <1>5, <1>6, BumpAppends
<1> QED BY <1>2, <1>7

-----------------------------------------------------------------------------
(* The theorems *)

\* The invariant holds when the process starts: nothing is cached, nothing is
\* waiting, no call has begun.
LEMMA IInvInit == Init => IInv
<1> SUFFICES ASSUME Init PROVE IInv
  OBVIOUS
<1>1. TypeOK
  BY InitType
<1>2. DOMAIN commits = {}
  BY DEF Init
<1>3. GrantInv
  BY DEF Init, GrantInv
<1>4. CacheInv /\ CallInv
  BY ConstantsAssumption DEF Init, CacheInv, CallInv
<1> QED BY <1>1, <1>2, <1>3, <1>4 DEF IInv, QueueInv, DispatchInv

\* The invariant is inductive.
LEMMA IInvNext == IInv /\ [Next]_vars => IInv'
<1> SUFFICES ASSUME IInv, [Next]_vars PROVE IInv'
  OBVIOUS
<1>1. TypeOK /\ GrantInv /\ QueueInv /\ CacheInv /\ CallInv /\ DispatchInv
  BY DEF IInv
<1>2. TypeOK'
  BY <1>1, NextType
<1> QED BY <1>1, <1>2, GrantPart, QueuePart, CachePart, CallPart, DispatchPart
        DEF IInv

\* The invariant holds in every reachable state.
LEMMA InductiveInvariant == Spec => []IInv
BY IInvInit, IInvNext, PTL DEF Spec

\* Every reachable state is well typed, and the epoch table never hands out
\* more slots than it has (EpochRegistry.#slot).
THEOREM TypeCorrect == Spec => []TypeOK
<1>1. IInv => TypeOK
  BY DEF IInv
<1> QED BY <1>1, InductiveInvariant, PTL

\* A change that returned governs every call that begins after it
\* (GrantManager.resolve through the versioned cache).
THEOREM ChangesGovern == Spec => []CompletedChangesGovern
<1>1. IInv => CompletedChangesGovern
  BY DEF IInv, CallInv, CompletedChangesGovern, TypeOK, Call, Entry
<1> QED BY <1>1, InductiveInvariant, PTL

\* Revocation bites: no call that begins, and no stream that is completed,
\* after revoke() returned is dispatched (CapabilityBroker).
THEOREM RevokedNeverDispatched == Spec => []RevocationBites
<1>1. IInv => RevocationBites
  <2> SUFFICES ASSUME IInv, NEW c \in Calls,
                      calls[c].at \in {"dispatching", "executing", "done"},
                      revokedAt[HandleOf[c]] # 0,
                      revokedAt[HandleOf[c]] <= calls[c].floor
               PROVE  FALSE
    BY DEF RevocationBites
  <2>1. HandleOf[c] \in Handles
    BY ConstantsAssumption
  <2>2. /\ calls[c].floor \in Nat /\ calls[c].entry.version \in Nat
        /\ revokedAt[HandleOf[c]] \in Nat
    BY <2>1 DEF IInv, TypeOK, Call, Entry
  <2>3. /\ calls[c].floor <= calls[c].entry.version
        /\ ~calls[c].entry.revoked
        /\ Sound(HandleOf[c], calls[c].entry)
    BY DEF IInv, CallInv, Past
  <2> QED BY <2>2, <2>3 DEF Sound
<1> QED BY <1>1, InductiveInvariant, PTL

\* Overlapping bumps never take a counter back (EpochRegistry.bump).
THEOREM EpochsOnlyGrow == Spec => EpochNeverBack
<1>1. IInv /\ [Next]_vars => [\A s \in Scopes : epoch'[s] >= epoch[s]]_vars
  <2> SUFFICES ASSUME IInv, [Next]_vars
               PROVE  \A s \in Scopes : epoch'[s] >= epoch[s]
    OBVIOUS
  <2>1. TypeOK /\ TypeOK' /\ QueueInv
    BY NextType DEF IInv
  <2> QED BY <2>1, EpochGrows DEF TypeOK
<1> QED BY <1>1, InductiveInvariant, PTL DEF Spec, EpochNeverBack

---------------------------------------------------------------------------
(***************************************************************************)
(* What a grant allows.  The loop over the sources keeps, of the resources *)
(* asked for, those that cover what every source met so far covers; it is  *)
(* a function defined by recursion, so it is first shown to exist          *)
(* (KeptExists) and then to keep that invariant (KeptIsCommon), both by    *)
(* its least counterexample.                                               *)
(***************************************************************************)

SourceOf(Name, Word) ==
  [name : Name,
   capabilities : Seq([capability : Name, resources : SUBSET Seq(Word), deferred : BOOLEAN])]

LEMMA LeastNatural ==
  ASSUME NEW P, P \subseteq Nat, P # {}
  PROVE  \E v \in P : \A w \in P : v <= w
<1> DEFINE Below(v) == 0..v
           R == StrictSubsetOrdering(Nat)
           T == {Below(v) : v \in P}
<1>1. IsWellFoundedOn(R, FiniteSubsetsOf(Nat)) BY FS_StrictSubsetOrderingWellFounded
<1>2. T \subseteq FiniteSubsetsOf(Nat) /\ T # {}
  <2>1. ASSUME NEW v \in P PROVE Below(v) \in FiniteSubsetsOf(Nat)
    BY FS_Interval DEF FiniteSubsetsOf
  <2> QED BY <2>1
<1>3. PICK v \in P : \A w \in P : <<Below(w), Below(v)>> \notin R
  <2> HIDE DEF R, T
  <2>1. \E x \in T : \A y \in T : <<y, x>> \notin R BY <1>1, <1>2, WFMin
  <2> QED BY <2>1 DEF T
<1>4. ASSUME NEW w \in P, w < v PROVE FALSE
  <2>1. v \in Nat /\ w \in Nat OBVIOUS
  <2>2. Below(w) \subseteq Below(v) /\ v \in Below(v) /\ v \notin Below(w)
    BY <1>4, <2>1
  <2>3. Below(w) \subseteq Nat /\ Below(v) \subseteq Nat BY <2>1
  <2> QED BY <1>3, <2>2, <2>3 DEF StrictSubsetOrdering
<1> QED BY <1>4

LEMMA MinimumIsLeast ==
  ASSUME NEW P, P \subseteq Nat, P # {}
  PROVE  Minimum(P) \in P /\ \A w \in P : Minimum(P) <= w
BY LeastNatural DEF Minimum

LEMMA CoversTransitive ==
  ASSUME NEW Word, NEW a \in Seq(Word), NEW b \in Seq(Word), NEW r \in Seq(Word),
         Covers(a, b), Covers(b, r)
  PROVE  Covers(a, r)
<1>1. CASE a = b \/ b = r BY <1>1
<1>2. CASE a # b /\ b # r
  <2>1. IsWildcard(a) /\ StartsWith(b, a) /\ StartsWith(r, b) BY <1>2 DEF Covers
  <2>2. Len(a) \in Nat /\ Len(b) \in Nat /\ Len(r) \in Nat OBVIOUS
  <2>3. StartsWith(r, a) BY <2>1, <2>2 DEF StartsWith
  <2> QED BY <2>1, <2>3 DEF Covers
<1> QED BY <1>1, <1>2

LEMMA CoversComparable ==
  ASSUME NEW Word, NEW a \in Seq(Word), NEW b \in Seq(Word), NEW r \in Seq(Word),
         Covers(a, r), Covers(b, r)
  PROVE  Covers(a, b) \/ Covers(b, a)
<1>1. CASE a = r \/ b = r BY <1>1
<1>2. CASE a # r /\ b # r
  <2>1. /\ IsWildcard(a) /\ StartsWith(r, a)
        /\ IsWildcard(b) /\ StartsWith(r, b)
    BY <1>2 DEF Covers
  <2>2. Len(a) \in Nat /\ Len(b) \in Nat OBVIOUS
  <2>3. CASE Len(a) <= Len(b)
    <3>1. StartsWith(b, a) BY <2>1, <2>2, <2>3 DEF StartsWith
    <3> QED BY <2>1, <3>1 DEF Covers
  <2>4. CASE Len(b) <= Len(a)
    <3>1. StartsWith(a, b) BY <2>1, <2>2, <2>4 DEF StartsWith
    <3> QED BY <2>1, <3>1 DEF Covers
  <2> QED BY <2>2, <2>3, <2>4
<1> QED BY <1>1, <1>2

LEMMA IntersectionCovers ==
  ASSUME NEW Word, NEW left \in Seq(Word), NEW right \in Seq(Word), NEW r \in Seq(Word)
  PROVE  /\ IntersectResource(left, right) \subseteq Seq(Word)
         /\ (\E kept \in IntersectResource(left, right) : Covers(kept, r))
              <=> Covers(left, r) /\ Covers(right, r)
<1>1. CASE Covers(left, right)
  <2>1. IntersectResource(left, right) = {right} BY <1>1 DEF IntersectResource
  <2>2. Covers(right, r) => Covers(left, r) BY <1>1, CoversTransitive
  <2> QED BY <2>1, <2>2
<1>2. CASE ~Covers(left, right) /\ Covers(right, left)
  <2>1. IntersectResource(left, right) = {left} BY <1>2 DEF IntersectResource
  <2>2. Covers(left, r) => Covers(right, r) BY <1>2, CoversTransitive
  <2> QED BY <2>1, <2>2
<1>3. CASE ~Covers(left, right) /\ ~Covers(right, left)
  <2>1. IntersectResource(left, right) = {} BY <1>3 DEF IntersectResource
  <2>2. ~(Covers(left, r) /\ Covers(right, r)) BY <1>3, CoversComparable
  <2> QED BY <2>1, <2>2
<1> QED BY <1>1, <1>2, <1>3

\* Two lists of resources cover together what each of them covers, no more
\* and no less (intersectResources, against resourceAllowed of the broker).
THEOREM IntersectionIsTheMeet ==
  ASSUME NEW Word, NEW left \in SUBSET Seq(Word), NEW right \in SUBSET Seq(Word),
         NEW r \in Seq(Word)
  PROVE  /\ IntersectResources(left, right) \subseteq Seq(Word)
         /\ (\E kept \in IntersectResources(left, right) : Covers(kept, r))
              <=> /\ \E first \in left : Covers(first, r)
                  /\ \E second \in right : Covers(second, r)
<1>1. ASSUME NEW first \in left, NEW second \in right
      PROVE  /\ IntersectResource(first, second) \subseteq Seq(Word)
             /\ (\E kept \in IntersectResource(first, second) : Covers(kept, r))
                  <=> Covers(first, r) /\ Covers(second, r)
  <2>1. first \in Seq(Word) /\ second \in Seq(Word) OBVIOUS
  <2> QED BY <2>1, IntersectionCovers
<1>2. \A kept : kept \in IntersectResources(left, right)
                  <=> \E first \in left, second \in right : kept \in IntersectResource(first, second)
  BY DEF IntersectResources
<1>3. IntersectResources(left, right) \subseteq Seq(Word) BY <1>1, <1>2
<1>4. ASSUME NEW kept \in IntersectResources(left, right), Covers(kept, r)
      PROVE  /\ \E first \in left : Covers(first, r)
             /\ \E second \in right : Covers(second, r)
  BY <1>1, <1>2, <1>4
<1>5. ASSUME NEW first \in left, Covers(first, r), NEW second \in right, Covers(second, r)
      PROVE  \E kept \in IntersectResources(left, right) : Covers(kept, r)
  BY <1>1, <1>2, <1>5
<1> QED BY <1>3, <1>4, <1>5

\* The body of the loop over the first n sources.
KeptBody(kept, sources, c, asked, n) ==
  [i \in 0..n |->
     IF i = 0 THEN asked
     ELSE IF IsRequest(sources[i]) THEN kept[i - 1]
     ELSE IntersectResources(kept[i - 1], Offered(sources[i], c))]

LEMMA KeptExists ==
  ASSUME NEW sources, NEW c, NEW asked, NEW n \in Nat
  PROVE  \E kept : kept = KeptBody(kept, sources, c, asked, n)
<1> DEFINE Step(f, i) == IF i = 0 THEN asked
                         ELSE IF IsRequest(sources[i]) THEN f[i - 1]
                         ELSE IntersectResources(f[i - 1], Offered(sources[i], c))
           P == {m \in Nat : ~ \E f : f = [i \in 0..m |-> Step(f, i)]}
<1> SUFFICES ASSUME n \in P PROVE FALSE BY DEF KeptBody
<1>1. PICK m \in P : \A k \in P : m <= k
  <2>1. P \subseteq Nat /\ P # {} OBVIOUS
  <2> HIDE DEF P
  <2> QED BY <2>1, LeastNatural
<1>2. m # 0
  <2> SUFFICES ASSUME m = 0 PROVE FALSE OBVIOUS
  <2> DEFINE f == [i \in 0..0 |-> asked]
  <2>1. f = [i \in 0..0 |-> Step(f, i)] OBVIOUS
  <2> QED BY <2>1
<1>3. PICK g : g = [i \in 0..(m - 1) |-> Step(g, i)]
  <2>1. m \in Nat OBVIOUS
  <2>2. m - 1 \in Nat /\ ~(m <= m - 1) BY <1>2, <2>1
  <2>3. m - 1 \notin P
    <3> HIDE DEF P
    <3> QED BY <1>1, <2>2
  <2> QED BY <2>2, <2>3
<1> DEFINE f == [i \in 0..m |-> IF i = m THEN Step(g, i) ELSE g[i]]
<1>4. ASSUME NEW i \in 0..m PROVE f[i] = Step(f, i)
  <2>1. m \in Nat /\ i \in Nat OBVIOUS
  <2>2. CASE i = 0
    <3>1. f[i] = g[0] /\ g[0] = asked BY <1>2, <1>3, <2>1, <2>2
    <3> QED BY <2>2, <3>1
  <2>3. CASE i # 0
    <3>1. i - 1 \in 0..(m - 1) /\ i - 1 # m /\ i - 1 \in 0..m BY <2>1, <2>3
    <3>2. f[i - 1] = g[i - 1] BY <3>1
    <3>3. f[i] = Step(g, i)
      <4>1. CASE i = m BY <4>1
      <4>2. CASE i # m
        <5>1. i \in 0..(m - 1) BY <2>1, <4>2
        <5>2. g[i] = Step(g, i) BY <1>3, <5>1
        <5> QED BY <4>2, <5>2
      <4> QED BY <4>1, <4>2
    <3> QED BY <2>3, <3>2, <3>3
  <2> QED BY <2>2, <2>3
<1>5. f = [i \in 0..m |-> Step(f, i)]
  <2>1. f = [i \in 0..m |-> f[i]] OBVIOUS
  <2> HIDE DEF f
  <2> QED BY <1>4, <2>1
<1> HIDE DEF f
<1> QED BY <1>1, <1>5

LEMMA OfferedType ==
  ASSUME NEW Name, NEW Word, NEW source \in SourceOf(Name, Word), NEW c
  PROVE  /\ Offered(source, c) \subseteq Seq(Word)
         /\ Entries(source, c) # {} =>
              /\ Minimum(Entries(source, c)) \in Entries(source, c)
              /\ SourceCapability(source, c).deferred \in BOOLEAN
<1> DEFINE list == source.capabilities
           EntryOf == [capability : Name, resources : SUBSET Seq(Word), deferred : BOOLEAN]
<1>1. list \in Seq(EntryOf) BY DEF SourceOf
<1>2. Entries(source, c) \subseteq Nat /\ Entries(source, c) \subseteq DOMAIN list
  BY <1>1 DEF Entries
<1>3. Entries(source, c) # {} => Minimum(Entries(source, c)) \in Entries(source, c)
  BY <1>2, MinimumIsLeast
<1>4. Entries(source, c) # {} => SourceCapability(source, c) \in EntryOf
  <2> HIDE DEF EntryOf
  <2> QED BY <1>1, <1>2, <1>3 DEF SourceCapability
<1> QED BY <1>3, <1>4 DEF Offered

LEMMA KeptIsCommon ==
  ASSUME NEW Name, NEW Word, NEW sources \in Seq(SourceOf(Name, Word)), NEW c,
         NEW asked \in SUBSET Seq(Word), NEW r \in Seq(Word)
  PROVE  /\ Kept(sources, c, asked) \subseteq Seq(Word)
         /\ (\E allowed \in Kept(sources, c, asked) : Covers(allowed, r))
              <=> /\ \E allowed \in asked : Covers(allowed, r)
                  /\ \A j \in Others(sources) :
                       \E allowed \in Offered(sources[j], c) : Covers(allowed, r)
<1> DEFINE n == Len(sources)
           Step(f, i) == IF i = 0 THEN asked
                         ELSE IF IsRequest(sources[i]) THEN f[i - 1]
                         ELSE IntersectResources(f[i - 1], Offered(sources[i], c))
<1>1. n \in Nat OBVIOUS
<1>2. \E f : f = KeptBody(f, sources, c, asked, n) BY <1>1, KeptExists
<1> DEFINE kept == CHOOSE f : f = KeptBody(f, sources, c, asked, n)
<1>3. Kept(sources, c, asked) = kept[n] BY DEF Kept, KeptBody
<1>4. kept = KeptBody(kept, sources, c, asked, n) BY <1>2
<1> HIDE DEF kept, n
<1>5. \A i \in 0..n : kept[i] = Step(kept, i) BY <1>4 DEF KeptBody
<1>6. \A left, right \in SUBSET Seq(Word) :
        /\ IntersectResources(left, right) \subseteq Seq(Word)
        /\ (\E allowed \in IntersectResources(left, right) : Covers(allowed, r))
             <=> /\ \E first \in left : Covers(first, r)
                 /\ \E second \in right : Covers(second, r)
  BY IntersectionIsTheMeet
<1> DEFINE Met(i) == {j \in Others(sources) : j <= i}
           Covered(set) == \E allowed \in set : Covers(allowed, r)
           Good(i) == /\ kept[i] \subseteq Seq(Word)
                      /\ Covered(kept[i])
                           <=> /\ Covered(asked)
                               /\ \A j \in Met(i) : Covered(Offered(sources[j], c))
           P == {i \in 0..n : ~Good(i)}
<1>7. P = {}
  <2> SUFFICES ASSUME P # {} PROVE FALSE OBVIOUS
  <2>1. PICK m \in P : \A k \in P : m <= k
    <3>1. P \subseteq Nat BY <1>1
    <3> HIDE DEF P
    <3> QED BY <3>1, LeastNatural
  <2>2. m \in 0..n /\ m \in Nat /\ ~Good(m) BY <1>1, <2>1
  <2> HIDE DEF Covered
  <2>3. CASE m = 0
    <3>1. kept[m] = asked BY <1>5, <2>2, <2>3
    <3>2. Met(m) = {} BY <2>3 DEF Others
    <3> QED BY <2>2, <3>1, <3>2
  <2>4. CASE m # 0
    <3>1. m - 1 \in 0..n /\ ~(m <= m - 1) /\ m \in DOMAIN sources
      BY <1>1, <2>2, <2>4 DEF n
    <3>2. Good(m - 1)
      <4>1. m - 1 \notin P BY <2>1, <3>1
      <4> QED BY <3>1, <4>1
    <3>3. CASE IsRequest(sources[m])
      <4>1. kept[m] = kept[m - 1] BY <1>5, <2>2, <2>4, <3>3
      <4>2. Met(m) = Met(m - 1) BY <2>2, <3>3 DEF Others
      <4> QED BY <2>2, <3>2, <4>1, <4>2
    <3>4. CASE ~IsRequest(sources[m])
      <4> DEFINE offered == Offered(sources[m], c)
      <4>1. kept[m] = IntersectResources(kept[m - 1], offered) BY <1>5, <2>2, <2>4, <3>4
      <4>2. m \in Others(sources) BY <3>1, <3>4 DEF Others
      <4>3. Met(m) = Met(m - 1) \union {m} BY <2>2, <4>2 DEF Others
      <4>4. offered \subseteq Seq(Word)
        <5>1. sources[m] \in SourceOf(Name, Word) BY <3>1
        <5> QED BY <5>1, OfferedType
      <4>5. /\ kept[m] \subseteq Seq(Word)
            /\ Covered(kept[m]) <=> Covered(kept[m - 1]) /\ Covered(offered)
        <5>1. kept[m - 1] \in SUBSET Seq(Word) /\ offered \in SUBSET Seq(Word)
          BY <3>2, <4>4
        <5> HIDE DEF offered, Good
        <5> QED BY <1>6, <4>1, <5>1 DEF Covered
      <4>6. (\A j \in Met(m) : Covered(Offered(sources[j], c)))
              <=> /\ \A j \in Met(m - 1) : Covered(Offered(sources[j], c))
                  /\ Covered(offered)
        BY <4>3
      <4> QED BY <2>2, <3>2, <4>5, <4>6
    <3> QED BY <3>3, <3>4
  <2> QED BY <2>3, <2>4
<1>8. Good(n)
  <2>1. n \in 0..n BY <1>1
  <2> QED BY <1>7, <2>1
<1>9. Met(n) = Others(sources) BY <1>1 DEF Others, n
<1> QED BY <1>3, <1>8, <1>9

\* Of the sources called request, the first counts.
LEMMA RequestedType ==
  ASSUME NEW Name, NEW Word, NEW sources \in Seq(SourceOf(Name, Word))
  PROVE  /\ Requests(sources) # {} => Minimum(Requests(sources)) \in Requests(sources)
         /\ \A e \in Requested(sources) : e.resources \in SUBSET Seq(Word)
<1>1. Requests(sources) \subseteq Nat /\ Requests(sources) \subseteq DOMAIN sources
  BY DEF Requests
<1>2. Requests(sources) # {} => Minimum(Requests(sources)) \in Requests(sources)
  BY <1>1, MinimumIsLeast
<1>3. ASSUME NEW e \in Requested(sources) PROVE e.resources \in SUBSET Seq(Word)
  <2> DEFINE source == sources[Minimum(Requests(sources))]
             EntryOf == [capability : Name, resources : SUBSET Seq(Word), deferred : BOOLEAN]
  <2>1. Requests(sources) # {} BY <1>3 DEF Requested
  <2>2. source \in SourceOf(Name, Word) BY <1>1, <1>2, <2>1
  <2>3. source.capabilities \in Seq(EntryOf) BY <2>2 DEF SourceOf
  <2>4. PICK i \in DOMAIN source.capabilities : e = source.capabilities[i]
    BY <1>3, <2>1 DEF Requested
  <2>5. e \in EntryOf
    <3> HIDE DEF source, EntryOf
    <3> QED BY <2>3, <2>4
  <2> QED BY <2>5
<1> QED BY <1>2, <1>3

\* The broker lets a call through exactly if an entry of the request that does
\* not wait for its activation covers the resource, and an entry of every
\* other source does: no source, and no order of them, adds to what another
\* withholds (resolveGrantSet, findGrantedCapability).
THEOREM AuthorityIsWhatAllGrant ==
  ASSUME NEW Name, NEW Word, NEW sources \in Seq(SourceOf(Name, Word)), NEW active,
         NEW c, NEW r \in Seq(Word)
  PROVE  FindGrantedCapability(ResolveGrantSet(sources, active), c, r)
           <=> /\ \E e \in Requested(sources) :
                    /\ e.capability = c /\ ~Waits(e, active)
                    /\ \E allowed \in e.resources : Covers(allowed, r)
               /\ \A j \in Others(sources) :
                    \E allowed \in Offered(sources[j], c) : Covers(allowed, r)
<1> DEFINE Covered(set) == \E allowed \in set : Covers(allowed, r)
           Left(e) == Kept(sources, e.capability, e.resources)
<1>1. ASSUME NEW e \in Requested(sources), e.capability = c
      PROVE  Covered(Left(e)) <=> /\ Covered(e.resources)
                                  /\ \A j \in Others(sources) : Covered(Offered(sources[j], c))
  <2>1. e.resources \in SUBSET Seq(Word) BY RequestedType
  <2> QED BY <1>1, <2>1, KeptIsCommon
<1>2. ASSUME FindGrantedCapability(ResolveGrantSet(sources, active), c, r)
      PROVE  \E e \in Requested(sources) :
               e.capability = c /\ ~Waits(e, active) /\ Covered(Left(e))
  <2>1. PICK grant \in ResolveGrantSet(sources, active) :
          grant.capability = c /\ Covered(grant.resources)
    BY <1>2 DEF FindGrantedCapability
  <2>2. PICK e \in Requested(sources) :
          /\ ~Waits(e, active)
          /\ grant = [capability |-> e.capability, resources |-> Left(e)]
    BY <2>1 DEF ResolveGrantSet
  <2> QED BY <2>1, <2>2
<1>3. ASSUME NEW e \in Requested(sources), e.capability = c, ~Waits(e, active), Covered(Left(e))
      PROVE  FindGrantedCapability(ResolveGrantSet(sources, active), c, r)
  <2> DEFINE grant == [capability |-> e.capability, resources |-> Left(e)]
  <2>1. grant.capability = c /\ grant.resources = Left(e) /\ Left(e) # {} BY <1>3
  <2>2. grant \in ResolveGrantSet(sources, active) BY <1>3, <2>1 DEF ResolveGrantSet
  <2> HIDE DEF grant
  <2> QED BY <1>3, <2>1, <2>2 DEF FindGrantedCapability
<1> HIDE DEF Left, Covered
<1>4. FindGrantedCapability(ResolveGrantSet(sources, active), c, r)
        <=> \E e \in Requested(sources) :
              /\ e.capability = c /\ ~Waits(e, active)
              /\ Covered(e.resources)
              /\ \A j \in Others(sources) : Covered(Offered(sources[j], c))
  BY <1>1, <1>2, <1>3
<1> QED BY <1>4 DEF Covered

\* A source that an explanation names really withholds the capability, of
\* every resource (explainGrant).
THEOREM ExplanationIsTrue ==
  ASSUME NEW Name, "none" \notin Name, "deferred-approval" \notin Name,
         NEW Word, NEW sources \in Seq(SourceOf(Name, Word)), NEW active, NEW c,
         \A i, j \in Requests(sources) : i = j,
         ExplainGrant(sources, c, active) \in Name,
         NEW r \in Seq(Word)
  PROVE  ~FindGrantedCapability(ResolveGrantSet(sources, active), c, r)
<1> DEFINE Lacks(i) == Entries(sources[i], c) = {}
           removing == {i \in DOMAIN sources :
                          Lacks(i) \/ Waits(SourceCapability(sources[i], c), active)}
<1>1. removing # {} /\ Lacks(Minimum(removing)) BY DEF ExplainGrant
<1>2. removing \subseteq Nat OBVIOUS
<1>3. Minimum(removing) \in removing
  <2> HIDE DEF removing
  <2> QED BY <1>1, <1>2, MinimumIsLeast
<1>4. PICK i \in DOMAIN sources : Entries(sources[i], c) = {} BY <1>1, <1>3
<1>5. CASE i \in Others(sources)
  <2>1. Offered(sources[i], c) = {} BY <1>4 DEF Offered
  <2> QED BY <1>5, <2>1, AuthorityIsWhatAllGrant
<1>6. CASE i \notin Others(sources)
  <2>1. i \in Requests(sources) BY <1>6 DEF Others, Requests
  <2>2. Minimum(Requests(sources)) = i BY <2>1, RequestedType
  <2>3. \A e \in Requested(sources) : e.capability # c
    BY <1>4, <2>1, <2>2 DEF Requested, Entries
  <2> QED BY <2>3, AuthorityIsWhatAllGrant
<1> QED BY <1>5, <1>6

\* A gated tool runs on a resource exactly if its allowlist covers it
\* (capability-gate.ts).
THEOREM GateAllowsItsList ==
  ASSUME NEW Word, NEW c, NEW allowlist \in SUBSET Seq(Word), NEW r \in Seq(Word)
  PROVE  FindGrantedCapability(ResolveGrantSet(BuildGrantIssue(c, allowlist), {}), c, r)
           <=> \E allowed \in allowlist : Covers(allowed, r)
<1> DEFINE entry == [capability |-> c, resources |-> allowlist, deferred |-> FALSE]
           source == [name |-> "request", capabilities |-> <<entry>>]
           sources == BuildGrantIssue(c, allowlist)
           Name == {c, "request"}
<1>1. sources = <<source>> BY DEF BuildGrantIssue
<1>2. <<entry>> \in Seq([capability : Name, resources : SUBSET Seq(Word), deferred : BOOLEAN])
  OBVIOUS
<1>3. source \in SourceOf(Name, Word) BY <1>2 DEF SourceOf
<1>4. DOMAIN sources = {1} /\ sources[1] = source BY <1>1
<1>5. sources \in Seq(SourceOf(Name, Word))
  <2> HIDE DEF source, sources
  <2> QED BY <1>1, <1>3
<1>6. Others(sources) = {} /\ Requests(sources) = {1}
  BY <1>4 DEF Others, Requests, IsRequest
<1>7. Requested(sources) = {entry}
  <2>1. Minimum(Requests(sources)) = 1
    BY <1>5, <1>6, RequestedType
  <2> HIDE DEF entry
  <2>2. source.capabilities = <<entry>> OBVIOUS
  <2>3. DOMAIN <<entry>> = {1} /\ <<entry>>[1] = entry OBVIOUS
  <2> HIDE DEF source, sources
  <2> QED BY <1>4, <1>6, <2>1, <2>2, <2>3 DEF Requested
<1>8. entry.capability = c /\ ~Waits(entry, {}) /\ entry.resources = allowlist BY DEF Waits
<1> HIDE DEF entry, source, sources
<1>9. FindGrantedCapability(ResolveGrantSet(sources, {}), c, r)
        <=> /\ \E e \in Requested(sources) :
                 /\ e.capability = c /\ ~Waits(e, {})
                 /\ \E allowed \in e.resources : Covers(allowed, r)
            /\ \A j \in Others(sources) :
                 \E allowed \in Offered(sources[j], c) : Covers(allowed, r)
  BY <1>5, AuthorityIsWhatAllGrant
<1> QED BY <1>6, <1>7, <1>8, <1>9 DEF sources

\* What is counted keeps within the limit of every source, whichever is the
\* least (limits, nextConsumption, GrantManager.consume).
THEOREM ConsumptionKeepsEveryLimit ==
  ASSUME NEW Source, NEW limitSources \in Seq(Source),
         \A i \in DOMAIN limitSources : \A kind \in DOMAIN limitSources[i].limits :
           limitSources[i].limits[kind] \in Nat,
         NEW current \in [Consumable -> Int], NEW delta \in [Consumable -> Int],
         Consume(current, delta, limitSources) # current
  PROVE  \A i \in DOMAIN limitSources :
           \A kind \in Consumable \intersect DOMAIN limitSources[i].limits :
             Consume(current, delta, limitSources)[kind] <= limitSources[i].limits[kind]
<1> DEFINE next == NextConsumption(current, delta)
<1>1. Consume(current, delta, limitSources) = next /\ ~Exceeded(next, Limits(limitSources))
  BY DEF Consume
<1> SUFFICES ASSUME NEW i \in DOMAIN limitSources,
                    NEW kind \in Consumable \intersect DOMAIN limitSources[i].limits
             PROVE  next[kind] <= limitSources[i].limits[kind]
  BY <1>1
<1> DEFINE limit == limitSources[i].limits[kind]
           all == LimitsOn(kind, limitSources)
<1>2. limit \in all BY DEF LimitsOn
<1>3. all \subseteq Nat BY DEF LimitsOn
<1>4. Minimum(all) \in Nat /\ Minimum(all) <= limit
  <2> HIDE DEF all, limit
  <2> QED BY <1>2, <1>3, MinimumIsLeast
<1>5. kind \in LimitKinds BY DEF Consumable, LimitKinds
<1>6. kind \in DOMAIN Limits(limitSources) /\ Limits(limitSources)[kind] = Minimum(all)
  BY <1>2, <1>5 DEF Limits
<1>7. next[kind] \in Int BY DEF NextConsumption
<1>8. next[kind] <= Minimum(all)
  <2> HIDE DEF next, all
  <2> QED BY <1>1, <1>4, <1>6, <1>7 DEF Exceeded
<1>9. limit \in Nat OBVIOUS
<1> QED BY <1>4, <1>7, <1>8, <1>9
=============================================================================
