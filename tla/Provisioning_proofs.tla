-------------------------- MODULE Provisioning_proofs --------------------------
(***************************************************************************)
(* What an agent is given before it serves: the skills it installs and the *)
(* facilities its skills are granted.                                      *)
(***************************************************************************)
EXTENDS Integers, Deployment, Facilities,
        FiniteSetTheorems, WellFoundedInduction, TLAPS

(***************************************************************************)
(* Skills.  For every set of skills, versions and contents: what a frozen  *)
(* command installs is what the lock says or what the operator pinned      *)
(* instead (InstallsWhatIsLocked), and no command takes locked bytes away  *)
(* or re-locks a version with others (LockedBytesSafe).                    *)
(*                                                                         *)
(* The first is about the end of a command, so DeploymentInv says it of    *)
(* each skill the command is done with (Settled), while the others go      *)
(* their way: the directory of a skill the command is done with is not     *)
(* touched again, and the one it fetches into was removed and has a skill  *)
(* that is still to do, whatever the owner of the registry does meanwhile. *)
(***************************************************************************)

LockEntry == [version : Versions, build : Builds]
Got == {"ok", "cached-fallback"}
Fetched == [skill : Skills, build : Builds]
Directory == [Versions -> Builds \cup {Nil}]

InstallCommand ==
  [kind : {"cli", "boot"}, mode : {"frozen", "refresh"},
   stage : {"install", "load", "register"}, listed : BOOLEAN,
   target : [Skills -> Versions \cup {Nil}], todo : SUBSET Skills,
   fetched : Fetched \cup {Nil}, state : [Skills -> Got \cup {"failed", Nil}],
   next : [Skills -> LockEntry \cup {Nil}]]

DeploymentTypes ==
  /\ tags \in [Skills -> Directory] /\ cache \in [Skills -> Directory]
  /\ lock \in [Skills -> LockEntry \cup {Nil}]
  /\ wanted \in [Skills -> Versions \cup {Nil}]
  /\ Running => command \in InstallCommand

\* The lock says what s is to be.
Lockable(s) == lock[s] # Nil /\ wanted[s] \in {Nil, lock[s].version}

\* What a command holds of a skill it is done with.
Settled(s) ==
  /\ command.next[s] # Nil /\ lock[s] # Nil /\ command.next[s].version = lock[s].version =>
       command.next[s] = lock[s]
  /\ command.mode = "frozen" =>
       /\ command.state[s] \in Got =>
            /\ command.target[s] # Nil
            /\ Lockable(s) => cache[s][command.target[s]] = lock[s].build
       /\ Lockable(s) /\ cache[s][lock[s].version] = lock[s].build =>
            command.state[s] \in Got

CommandInv ==
  /\ \A s \in Skills \ command.todo : Settled(s)
  /\ command.mode = "frozen" =>
       \A s \in Skills : command.target[s] = TargetVersion(s, "frozen", FALSE)
  /\ command.fetched # Nil =>
       LET s == command.fetched.skill IN
         /\ s \in command.todo /\ command.target[s] \in Versions
         /\ cache[s][command.target[s]] = Nil
  /\ command.stage # "install" => command.todo = {}

DeploymentInv == DeploymentTypes /\ (Running => CommandInv)

---------------------------------------------------------------------------
LEMMA Newest ==
  ASSUME NEW P, IsFiniteSet(P), P \subseteq Nat, P # {}
  PROVE  \E v \in P : \A w \in P : w <= v
<1> DEFINE Above(v) == {w \in P : w > v}
           R == StrictSubsetOrdering(P)
           T == {Above(v) : v \in P}
<1>1. IsWellFoundedOn(R, SUBSET P)
  <2>1. FiniteSubsetsOf(P) = SUBSET P BY FS_FiniteSubsetsOfFinite
  <2>2. IsWellFoundedOn(R, FiniteSubsetsOf(P)) BY FS_StrictSubsetOrderingWellFounded
  <2> QED BY <2>1, <2>2
<1>2. PICK v \in P : \A w \in P : <<Above(w), Above(v)>> \notin R
  <2>1. T \subseteq SUBSET P /\ T # {} OBVIOUS
  <2> HIDE DEF R, T
  <2>2. \E x \in T : \A y \in T : <<y, x>> \notin R BY <1>1, <2>1, WFMin
  <2> QED BY <2>2 DEF T
<1>3. ASSUME NEW w \in P, w > v PROVE FALSE
  <2>1. \A u \in P : u \in Nat OBVIOUS
  <2>2. /\ \A u \in P : u > w => u > v
        /\ ~(w > w)
    BY <1>3, <2>1
  <2>4. Above(w) \subseteq Above(v) /\ w \in Above(v) /\ w \notin Above(w)
    BY <1>3, <2>2
  <2>3. Above(w) \subseteq P /\ Above(v) \subseteq P OBVIOUS
  <2> QED BY <1>2, <2>3, <2>4 DEF StrictSubsetOrdering
<1> QED BY <1>3

LEMMA TargetsAreVersions ==
  ASSUME DeploymentTypes, NEW s \in Skills, NEW mode, NEW listed
  PROVE  TargetVersion(s, mode, listed) \in Versions \cup {Nil}
<1>1. ASSUME Published(s) # {} PROVE LatestVersion(s) \in Versions
  <2>1. Published(s) \subseteq Versions BY DEF Published
  <2>2. IsFiniteSet(Published(s)) /\ Published(s) \subseteq Nat
    BY <2>1, FS_Subset, DeploymentAssumption
  <2>3. \E v \in Published(s) : \A w \in Published(s) : w <= v BY <1>1, <2>2, Newest
  <2> QED BY <2>1, <2>3 DEF LatestVersion
<1>2. lock[s] # Nil => lock[s].version \in Versions BY DEF DeploymentTypes, LockEntry
<1> QED BY <1>1, <1>2 DEF TargetVersion, DeploymentTypes

\* What is the outcome for s changes nothing else of the command.
LEMMA Outcomes ==
  ASSUME command \in InstallCommand, NEW s \in Skills, NEW st \in Got \cup {"failed"},
         NEW e \in LockEntry \cup {Nil}, Outcome(s, st, e)
  PROVE  /\ command' \in InstallCommand
         /\ command'.kind = command.kind /\ command'.mode = command.mode
         /\ command'.stage = command.stage /\ command'.listed = command.listed
         /\ command'.target = command.target /\ command'.todo = command.todo \ {s}
         /\ command'.fetched = Nil
         /\ command'.state[s] = st /\ command'.next[s] = e
         /\ \A r \in Skills \ {s} : /\ command'.state[r] = command.state[r]
                                    /\ command'.next[r] = command.next[r]
<1> DEFINE a == [command EXCEPT !.todo = @ \ {s}]
           b == [a EXCEPT !.fetched = Nil]
           c == [b EXCEPT !.state[s] = st]
           d == [c EXCEPT !.next[s] = e]
<1>1. command' = d BY DEF Outcome
<1>2. /\ a \in InstallCommand /\ a.kind = command.kind /\ a.mode = command.mode
      /\ a.stage = command.stage /\ a.listed = command.listed /\ a.target = command.target
      /\ a.todo = command.todo \ {s} /\ a.state = command.state /\ a.next = command.next
  BY DEF InstallCommand
<1> HIDE DEF a
<1>3. /\ b \in InstallCommand /\ b.kind = a.kind /\ b.mode = a.mode
      /\ b.stage = a.stage /\ b.listed = a.listed /\ b.target = a.target
      /\ b.todo = a.todo /\ b.fetched = Nil /\ b.state = a.state /\ b.next = a.next
  BY <1>2 DEF InstallCommand
<1> HIDE DEF b
<1>4. /\ c \in InstallCommand /\ c.kind = b.kind /\ c.mode = b.mode
      /\ c.stage = b.stage /\ c.listed = b.listed /\ c.target = b.target
      /\ c.todo = b.todo /\ c.fetched = b.fetched
      /\ c.state = [b.state EXCEPT ![s] = st] /\ c.next = b.next
  BY <1>3 DEF InstallCommand
<1> HIDE DEF c
<1>5. /\ d \in InstallCommand /\ d.kind = c.kind /\ d.mode = c.mode
      /\ d.stage = c.stage /\ d.listed = c.listed /\ d.target = c.target
      /\ d.todo = c.todo /\ d.fetched = c.fetched
      /\ d.state = c.state /\ d.next = [c.next EXCEPT ![s] = e]
  BY <1>4 DEF InstallCommand
<1> HIDE DEF d
<1>6. b.state \in [Skills -> Got \cup {"failed", Nil}] /\ c.next \in [Skills -> LockEntry \cup {Nil}]
  BY <1>3, <1>4 DEF InstallCommand
<1> QED BY <1>1, <1>2, <1>3, <1>4, <1>5, <1>6

\* The version a frozen command goes for is the locked one of a lockable skill.
LEMMA TargetOfLockable ==
  ASSUME DeploymentInv, Running, command.mode = "frozen", NEW s \in Skills
  PROVE  /\ Lockable(s) => command.target[s] = lock[s].version /\ lock[s].version \in Versions
         /\ ~Lockable(s) /\ command.target[s] # Nil => wanted[s] # Nil
<1>1. command.target[s] = TargetVersion(s, "frozen", FALSE)
  BY DEF DeploymentInv, CommandInv
<1>2. lock[s] # Nil => lock[s] \in LockEntry BY DEF DeploymentInv, DeploymentTypes
<1> QED BY <1>1, <1>2 DEF TargetVersion, Lockable, LockEntry

\* c is done with s; the directories of the other skills stay as they are.
LEMMA OutcomeKeeps ==
  ASSUME DeploymentInv, Running, NEW s \in Skills, command.stage = "install",
         NEW st \in Got \cup {"failed"}, NEW e \in LockEntry \cup {Nil}, Outcome(s, st, e),
         UNCHANGED <<tags, lock, wanted>>, cache' \in [Skills -> Directory],
         \A r \in Skills \ {s} : cache'[r] = cache[r],
         e # Nil /\ lock[s] # Nil /\ e.version = lock[s].version => e = lock[s],
         command.mode = "frozen" =>
           /\ st \in Got =>
                /\ command.target[s] # Nil
                /\ Lockable(s) => cache'[s][command.target[s]] = lock[s].build
           /\ Lockable(s) /\ cache'[s][lock[s].version] = lock[s].build => st \in Got
  PROVE  DeploymentInv'
<1>1. /\ command' \in InstallCommand
      /\ command'.kind = command.kind /\ command'.mode = command.mode
      /\ command'.stage = command.stage
      /\ command'.target = command.target /\ command'.todo = command.todo \ {s}
      /\ command'.fetched = Nil
      /\ command'.state[s] = st /\ command'.next[s] = e
      /\ \A r \in Skills \ {s} : /\ command'.state[r] = command.state[r]
                                 /\ command'.next[r] = command.next[r]
  BY Outcomes DEF DeploymentInv, DeploymentTypes
<1>2. DeploymentTypes' BY <1>1 DEF DeploymentInv, DeploymentTypes
<1>3. Settled(s)' BY <1>1 DEF Settled, Lockable
<1>4. ASSUME NEW r \in Skills \ command'.todo, r # s PROVE Settled(r)'
  <2>1. Settled(r) BY <1>1, <1>4 DEF DeploymentInv, CommandInv
  <2> QED BY <1>1, <1>4, <2>1 DEF Settled, Lockable
<1>5. command'.mode = "frozen" =>
        \A r \in Skills : command'.target[r] = TargetVersion(r, "frozen", FALSE)'
  BY <1>1 DEF DeploymentInv, CommandInv, TargetVersion
<1>6. CommandInv' BY <1>1, <1>3, <1>4, <1>5 DEF CommandInv
<1> QED BY <1>2, <1>6 DEF DeploymentInv

\* A directory is installed that the lock does not contradict.
LEMMA TrustedKeeps ==
  ASSUME DeploymentInv, Running, NEW s \in Skills, command.stage = "install",
         NEW st \in Got, NEW v \in Versions, v = command.target[s], NEW b \in Builds,
         Outcome(s, st, [version |-> v, build |-> b]), Trusted(s, v, b),
         UNCHANGED <<tags, lock, wanted>>, cache' \in [Skills -> Directory],
         \A r \in Skills \ {s} : cache'[r] = cache[r], cache'[s][v] = b
  PROVE  DeploymentInv'
<1> DEFINE e == [version |-> v, build |-> b]
<1>1. e \in LockEntry /\ e.version = v /\ e.build = b /\ v # Nil
  BY DeploymentAssumption DEF LockEntry
<1>2. lock[s] # Nil => lock[s] \in LockEntry BY DEF DeploymentInv, DeploymentTypes
<1>3. lock[s] # Nil /\ lock[s].version = v => lock[s].build = b
  <2>1. SUFFICES ASSUME lock[s] # Nil, lock[s].version = v PROVE lock[s].build = b
    OBVIOUS
  <2>2. Locked(s) \in {Nil, Digest(v, b)} \/ Locked(s) = Digest(v, b)
    BY <2>1 DEF Trusted, ExpectedDigest
  <2>3. CASE Locked(s) = Digest(v, b) BY <2>3 DEF Locked, Digest
  <2>4. CASE Locked(s) = Nil
    <3>1. Locked(s) \in Versions \X Builds
      BY <1>2, <2>1 DEF Locked, Digest, LockEntry
    <3> QED BY <2>4, <3>1, DeploymentAssumption
  <2> QED BY <2>2, <2>3, <2>4
<1> HIDE DEF e
<1>4. lock[s] # Nil /\ e.version = lock[s].version => e = lock[s]
  BY <1>1, <1>2, <1>3 DEF LockEntry
<1>5. command.mode = "frozen" /\ Lockable(s) => cache'[s][command.target[s]] = lock[s].build
  BY <1>3, TargetOfLockable DEF Lockable
<1>6. Outcome(s, st, e) BY DEF e
<1>7. command.target[s] # Nil BY <1>1
<1> QED BY <1>1, <1>4, <1>5, <1>6, <1>7, OutcomeKeeps

\* The fallback: the directory of the target version holds b, or nothing.
LEMMA FallbackKeeps ==
  ASSUME DeploymentInv, Running, NEW s \in Skills, command.stage = "install",
         NEW v \in Versions, v = command.target[s], NEW b \in Builds \cup {Nil},
         CachedFallback(s, b),
         UNCHANGED <<tags, lock, wanted>>, cache' \in [Skills -> Directory],
         \A r \in Skills \ {s} : cache'[r] = cache[r], cache'[s][v] = b
  PROVE  DeploymentInv'
<1>1. v # Nil /\ Nil \notin Builds BY DeploymentAssumption
<1>2. lock[s] \in LockEntry \cup {Nil} BY DEF DeploymentInv, DeploymentTypes
<1>3. command.mode = "frozen" /\ Lockable(s) => v = lock[s].version /\ lock[s] # Nil
  BY TargetOfLockable DEF Lockable
<1>4. CASE lock[s] # Nil /\ b # Nil /\ Digest(command.target[s], b) = Locked(s)
  <2>1. v = lock[s].version /\ b = lock[s].build BY <1>4 DEF Digest, Locked
  <2>2. Outcome(s, "cached-fallback", lock[s]) BY <1>4 DEF CachedFallback
  <2> QED BY <1>1, <1>2, <1>3, <2>1, <2>2, OutcomeKeeps DEF Got
<1>5. CASE ~(lock[s] # Nil /\ b # Nil /\ Digest(command.target[s], b) = Locked(s))
  <2>1. Outcome(s, "failed", Nil) BY <1>5 DEF CachedFallback
  <2>2. command.mode = "frozen" /\ Lockable(s) => cache'[s][lock[s].version] # lock[s].build
    <3> SUFFICES ASSUME command.mode = "frozen", Lockable(s), b = lock[s].build
                 PROVE  FALSE
      BY <1>3
    <3>1. lock[s].build \in Builds /\ v = lock[s].version /\ lock[s] # Nil
      BY <1>2, <1>3 DEF LockEntry
    <3> QED BY <1>1, <1>5, <3>1 DEF Digest, Locked
  <2>3. "failed" \notin Got BY DEF Got
  <2> QED BY <2>1, <2>2, <2>3, OutcomeKeeps
<1> QED BY <1>4, <1>5

LEMMA UseCacheKeeps ==
  ASSUME DeploymentInv, NEW s \in Skills, UseCache(s)
  PROVE  DeploymentInv'
<1> DEFINE v == command.target[s]
           b == cache[s][v]
           st == IF command.mode = "refresh" /\ ~command.listed
                   THEN "cached-fallback" ELSE "ok"
<1>1. /\ Running /\ command.stage = "install" /\ v # Nil /\ b # Nil /\ Trusted(s, v, b)
      /\ Outcome(s, st, [version |-> v, build |-> b])
      /\ UNCHANGED <<tags, cache, lock, wanted>>
  BY DEF UseCache, Installing, Running, CacheHit
<1>2. v \in Versions /\ cache[s] \in Directory /\ cache \in [Skills -> Directory]
  BY <1>1 DEF DeploymentInv, DeploymentTypes, InstallCommand
<1>3. b \in Builds BY <1>1, <1>2 DEF Directory
<1>4. st \in Got BY DEF Got
<1> HIDE DEF st
<1> QED BY <1>1, <1>2, <1>3, <1>4, TrustedKeeps

LEMMA UnresolvedKeeps ==
  ASSUME DeploymentInv, NEW s \in Skills, Unresolved(s)
  PROVE  DeploymentInv'
<1>1. /\ Running /\ command.stage = "install" /\ command.target[s] = Nil
      /\ Outcome(s, "failed", Nil) /\ UNCHANGED <<tags, cache, lock, wanted>>
  BY DEF Unresolved, Installing, Running
<1>2. command.mode = "frozen" => ~Lockable(s)
  BY <1>1, TargetOfLockable, DeploymentAssumption
<1>3. cache \in [Skills -> Directory] /\ "failed" \notin Got
  BY DEF DeploymentInv, DeploymentTypes, Got
<1> QED BY <1>1, <1>2, <1>3, OutcomeKeeps

LEMMA FetchFailsKeeps ==
  ASSUME DeploymentInv, NEW s \in Skills, FetchFails(s)
  PROVE  DeploymentInv'
<1> DEFINE v == command.target[s]
           b == cache[s][v]
<1>1. /\ Running /\ command.stage = "install" /\ v # Nil
      /\ CachedFallback(s, b) /\ UNCHANGED <<tags, cache, lock, wanted>>
  BY DEF FetchFails, Installing, Running
<1>2. v \in Versions /\ cache[s] \in Directory /\ cache \in [Skills -> Directory]
  BY <1>1 DEF DeploymentInv, DeploymentTypes, InstallCommand
<1>3. b \in Builds \cup {Nil} BY <1>2 DEF Directory
<1> QED BY <1>1, <1>2, <1>3, FallbackKeeps

LEMMA PlaceKeeps ==
  ASSUME DeploymentInv, Place
  PROVE  DeploymentInv'
<1> DEFINE s == command.fetched.skill
           b == command.fetched.build
           v == command.target[s]
<1>1. /\ Running /\ command.fetched # Nil /\ cache' = [cache EXCEPT ![s][v] = b]
      /\ IF Trusted(s, v, b) THEN Outcome(s, "ok", [version |-> v, build |-> b])
                             ELSE CachedFallback(s, b)
      /\ UNCHANGED <<tags, lock, wanted>>
  BY DEF Place
<1>2. command.fetched \in Fetched
  BY <1>1 DEF DeploymentInv, DeploymentTypes, InstallCommand
<1>3. s \in Skills /\ b \in Builds BY <1>2 DEF Fetched
<1>4. s \in command.todo /\ v \in Versions /\ command.stage = "install"
  BY <1>1 DEF DeploymentInv, CommandInv
<1>5. cache \in [Skills -> Directory] BY DEF DeploymentInv, DeploymentTypes
<1> HIDE DEF s, b
<1>6. /\ cache' \in [Skills -> Directory] /\ cache'[s][v] = b
      /\ \A r \in Skills \ {s} : cache'[r] = cache[r]
  <2>1. v \in Versions /\ b \in Builds \cup {Nil} /\ cache' = [cache EXCEPT ![s][v] = b]
    BY <1>1, <1>3, <1>4
  <2> HIDE DEF v
  <2>2. cache[s] \in Directory BY <1>3, <1>5
  <2>3. [cache[s] EXCEPT ![v] = b] \in Directory BY <2>1, <2>2 DEF Directory
  <2>4. cache' = [cache EXCEPT ![s] = [cache[s] EXCEPT ![v] = b]] BY <2>1
  <2>5. cache' \in [Skills -> Directory] BY <2>3, <2>4, <1>5
  <2>6. cache'[s][v] = b BY <2>1, <2>2, <2>4, <1>3, <1>5 DEF Directory
  <2> QED BY <2>4, <2>5, <2>6, <1>5
<1>7. CASE Trusted(s, v, b) BY <1>1, <1>3, <1>4, <1>6, <1>7, TrustedKeeps DEF Got
<1>8. CASE ~Trusted(s, v, b) BY <1>1, <1>3, <1>4, <1>6, <1>8, FallbackKeeps
<1> QED BY <1>7, <1>8

LEMMA FetchKeeps ==
  ASSUME DeploymentInv, NEW s \in Skills, Fetch(s)
  PROVE  DeploymentInv'
<1> DEFINE v == command.target[s]
           b == tags[s][v]
           r == [skill |-> s, build |-> b]
<1>1. /\ Running /\ command.stage = "install" /\ s \in command.todo
      /\ v # Nil /\ b \notin Invalid \cup {Nil}
      /\ command' = [command EXCEPT !.fetched = r]
      /\ cache' = [cache EXCEPT ![s][v] = Nil]
      /\ UNCHANGED <<tags, lock, wanted>>
  BY DEF Fetch, Installing, Running
<1>2. v \in Versions /\ tags[s] \in Directory /\ cache \in [Skills -> Directory]
      /\ command \in InstallCommand
  BY <1>1 DEF DeploymentInv, DeploymentTypes, InstallCommand
<1>3. r \in Fetched /\ r.skill = s BY <1>1, <1>2 DEF Directory, Fetched
<1> HIDE DEF r
<1>4. /\ command' \in InstallCommand /\ command'.fetched = r
      /\ command'.kind = command.kind /\ command'.mode = command.mode
      /\ command'.stage = command.stage /\ command'.target = command.target
      /\ command'.todo = command.todo /\ command'.state = command.state
      /\ command'.next = command.next
  BY <1>1, <1>2, <1>3 DEF InstallCommand
<1>5. /\ cache' \in [Skills -> Directory] /\ cache'[s][v] = Nil
      /\ \A q \in Skills \ {s} : cache'[q] = cache[q]
  <2>1. v \in Versions /\ cache' = [cache EXCEPT ![s][v] = Nil] BY <1>1, <1>2
  <2> HIDE DEF v
  <2>2. cache[s] \in Directory BY <1>2
  <2>3. [cache[s] EXCEPT ![v] = Nil] \in Directory BY <2>1, <2>2 DEF Directory
  <2>4. cache' = [cache EXCEPT ![s] = [cache[s] EXCEPT ![v] = Nil]] BY <2>1
  <2>5. cache' \in [Skills -> Directory] BY <2>3, <2>4, <1>2
  <2>6. cache'[s][v] = Nil BY <2>1, <2>2, <2>4, <1>2 DEF Directory
  <2> QED BY <2>4, <2>5, <2>6, <1>2
<1>6. DeploymentTypes' BY <1>1, <1>4, <1>5 DEF DeploymentInv, DeploymentTypes
<1>7. ASSUME NEW q \in Skills \ command'.todo PROVE Settled(q)'
  <2>1. Settled(q) /\ q # s BY <1>1, <1>4, <1>7 DEF DeploymentInv, CommandInv
  <2> QED BY <1>1, <1>4, <1>5, <2>1 DEF Settled, Lockable
<1>8. command'.mode = "frozen" =>
        \A q \in Skills : command'.target[q] = TargetVersion(q, "frozen", FALSE)'
  BY <1>1, <1>4 DEF DeploymentInv, CommandInv, TargetVersion
<1>9. CommandInv' BY <1>1, <1>2, <1>3, <1>4, <1>5, <1>7, <1>8 DEF CommandInv
<1> QED BY <1>6, <1>9 DEF DeploymentInv

---------------------------------------------------------------------------
\* What happens outside of a command, and to the tags beneath it.
LEMMA WorldKeeps ==
  ASSUME DeploymentInv, NEW s \in Skills, NEW v \in Versions, NEW b \in Builds \cup {Nil},
         PointTag(s, v, b) \/ AlterCache(s, v, b)
  PROVE  DeploymentInv'
<1>1. CASE PointTag(s, v, b)
  <2>1. tags' = [tags EXCEPT ![s][v] = b] /\ UNCHANGED <<cache, lock, wanted, command>>
    BY <1>1 DEF PointTag
  <2>2. tags \in [Skills -> Directory] /\ tags[s] \in Directory
    BY DEF DeploymentInv, DeploymentTypes
  <2>3. [tags[s] EXCEPT ![v] = b] \in Directory BY <2>2 DEF Directory
  <2>4. tags' \in [Skills -> Directory] BY <2>1, <2>2, <2>3
  <2>5. DeploymentTypes' BY <2>1, <2>4 DEF DeploymentInv, DeploymentTypes, Running
  <2>6. Running => CommandInv'
    BY <2>1 DEF DeploymentInv, CommandInv, Settled, Lockable, TargetVersion
  <2> QED BY <2>1, <2>5, <2>6 DEF DeploymentInv, Running
<1>2. CASE AlterCache(s, v, b)
  <2>1. /\ ~Running /\ cache' = [cache EXCEPT ![s][v] = b]
        /\ UNCHANGED <<tags, lock, wanted, command>>
    BY <1>2 DEF AlterCache
  <2>2. cache \in [Skills -> Directory] /\ cache[s] \in Directory
    BY DEF DeploymentInv, DeploymentTypes
  <2>3. [cache[s] EXCEPT ![v] = b] \in Directory BY <2>2 DEF Directory
  <2>4. cache' \in [Skills -> Directory] BY <2>1, <2>2, <2>3
  <2> QED BY <2>1, <2>4 DEF DeploymentInv, DeploymentTypes, Running
<1> QED BY <1>1, <1>2

LEMMA RepinKeeps ==
  ASSUME DeploymentInv, NEW s \in Skills, NEW v \in Versions \cup {Nil}, Repin(s, v)
  PROVE  DeploymentInv'
  BY DEF Repin, DeploymentInv, DeploymentTypes, Running

LEMMA BeginKeeps ==
  ASSUME DeploymentInv, NEW kind \in {"cli", "boot"}, NEW mode \in {"frozen", "refresh"},
         NEW listed \in BOOLEAN, Begin(kind, mode, listed)
  PROVE  DeploymentInv'
<1> DEFINE c == NewCommand(kind, mode, listed)
<1>1. /\ command' = c /\ UNCHANGED <<tags, cache, lock, wanted>>
      /\ mode = "frozen" => listed = FALSE
  BY DEF Begin
<1>2. \A s \in Skills : TargetVersion(s, mode, listed) \in Versions \cup {Nil}
  BY TargetsAreVersions DEF DeploymentInv
<1>3. /\ c.kind = kind /\ c.mode = mode /\ c.stage = "install" /\ c.todo = Skills
      /\ c.fetched = Nil
      /\ \A s \in Skills : c.target[s] = TargetVersion(s, mode, listed)
  BY DEF NewCommand
<1>4. c \in InstallCommand BY <1>2 DEF NewCommand, InstallCommand
<1> HIDE DEF c
<1>5. DeploymentTypes' BY <1>1, <1>4 DEF DeploymentInv, DeploymentTypes
<1>6. mode = "frozen" =>
        \A s \in Skills : c.target[s] = TargetVersion(s, "frozen", FALSE)'
  BY <1>1, <1>3 DEF TargetVersion
<1>7. CommandInv' BY <1>1, <1>3, <1>6 DEF CommandInv
<1> QED BY <1>5, <1>7 DEF DeploymentInv

LEMMA FinishKeeps ==
  ASSUME DeploymentInv, FinishInstall
  PROVE  DeploymentInv'
<1>1. /\ Running /\ command.stage = "install" /\ command.fetched = Nil
      /\ command.todo = {} /\ UNCHANGED <<tags, cache, wanted>>
      /\ lock' = IF command.mode = "refresh" THEN command.next ELSE lock
  BY DEF FinishInstall
<1>2. command \in InstallCommand BY <1>1 DEF DeploymentInv, DeploymentTypes
<1>3. lock' \in [Skills -> LockEntry \cup {Nil}]
  BY <1>1, <1>2 DEF InstallCommand, DeploymentInv, DeploymentTypes
<1>4. CASE command.kind = "boot"
  <2>1. command' = [command EXCEPT !.stage = "load"] BY <1>4 DEF FinishInstall
  <2>2. /\ command' \in InstallCommand /\ command'.stage = "load"
        /\ command'.mode = command.mode /\ command'.fetched = Nil
        /\ command'.todo = {} /\ command'.target = command.target
        /\ command'.state = command.state /\ command'.next = command.next
    BY <1>1, <1>2, <2>1 DEF InstallCommand
  <2>3. DeploymentTypes' BY <1>1, <1>3, <2>2 DEF DeploymentInv, DeploymentTypes
  <2>4. ASSUME NEW s \in Skills PROVE Settled(s)'
    <3>1. Settled(s) BY <1>1 DEF DeploymentInv, CommandInv
    <3>2. CASE command.mode = "refresh"
      BY <1>1, <2>2, <3>2 DEF Settled
    <3>3. CASE command.mode # "refresh"
      BY <1>1, <2>2, <3>1, <3>3 DEF Settled, Lockable
    <3> QED BY <3>2, <3>3
  <2>5. command'.mode = "frozen" =>
          \A s \in Skills : command'.target[s] = TargetVersion(s, "frozen", FALSE)'
    BY <1>1, <2>2 DEF DeploymentInv, CommandInv, TargetVersion
  <2>6. CommandInv' BY <2>2, <2>4, <2>5 DEF CommandInv
  <2> QED BY <2>3, <2>6 DEF DeploymentInv
<1>5. CASE command.kind # "boot"
  <2>1. command' = NoCommand BY <1>5 DEF FinishInstall
  <2> QED BY <1>1, <1>3, <2>1 DEF DeploymentInv, DeploymentTypes, Running, NoCommand
<1> QED BY <1>4, <1>5

LEMMA LoadKeeps ==
  ASSUME DeploymentInv, Load
  PROVE  DeploymentInv'
<1>1. /\ Running /\ command.stage = "load" /\ UNCHANGED <<tags, cache, lock, wanted>>
      /\ command' = NoCommand \/ command' = [command EXCEPT !.stage = "register"]
  BY DEF Load
<1>2. CASE command' = NoCommand
  BY <1>1, <1>2 DEF DeploymentInv, DeploymentTypes, Running, NoCommand
<1>3. CASE command' = [command EXCEPT !.stage = "register"]
  <2>1. command \in InstallCommand BY <1>1 DEF DeploymentInv, DeploymentTypes
  <2>2. /\ command' \in InstallCommand /\ command'.stage = "register"
        /\ command'.mode = command.mode /\ command'.fetched = command.fetched
        /\ command'.todo = command.todo /\ command'.target = command.target
        /\ command'.state = command.state /\ command'.next = command.next
    BY <1>3, <2>1 DEF InstallCommand
  <2>3. DeploymentTypes' BY <1>1, <2>2 DEF DeploymentInv, DeploymentTypes
  <2>4. CommandInv'
    BY <1>1, <2>2 DEF DeploymentInv, CommandInv, Settled, Lockable, TargetVersion
  <2> QED BY <2>3, <2>4 DEF DeploymentInv
<1> QED BY <1>1, <1>2, <1>3

\* A command that ends leaves nothing to hold.
LEMMA EndKeeps ==
  ASSUME DeploymentInv, command' = NoCommand \/ UNCHANGED command,
         UNCHANGED <<tags, cache, lock, wanted>>
  PROVE  DeploymentInv'
<1>1. CASE command' = NoCommand
  BY <1>1 DEF DeploymentInv, DeploymentTypes, Running, NoCommand
<1>2. CASE UNCHANGED command
  <2>1. DeploymentTypes' /\ (Running' <=> Running)
    BY <1>2 DEF DeploymentInv, DeploymentTypes, Running
  <2>2. Running => CommandInv'
    BY <1>2 DEF DeploymentInv, CommandInv, Settled, Lockable, TargetVersion
  <2> QED BY <2>1, <2>2 DEF DeploymentInv
<1> QED BY <1>1, <1>2

\* The inductive invariant: every skill a command is done with is settled.
THEOREM DeploymentInvariant == DeploymentSpec => []DeploymentInv
<1>1. DeploymentInit => DeploymentInv
  <2> SUFFICES ASSUME DeploymentInit PROVE DeploymentInv OBVIOUS
  <2>1. tags \in [Skills -> Directory] BY DEF DeploymentInit, Directory
  <2>2. lock \in [Skills -> LockEntry \cup {Nil}] /\ lock \in [Skills -> Versions \cup {Nil}]
    BY DEF DeploymentInit
  <2> QED BY <2>1, <2>2 DEF DeploymentInit, DeploymentInv, DeploymentTypes, Running, NoCommand
<1>2. DeploymentInv /\ [DeploymentNext]_deploymentVars => DeploymentInv'
  <2> SUFFICES ASSUME DeploymentInv, [DeploymentNext]_deploymentVars PROVE DeploymentInv'
    OBVIOUS
  <2>1. ASSUME NEW dropped, Start(dropped) PROVE DeploymentInv'
    BY <2>1, EndKeeps DEF Start
  <2>2. CASE StartFails \/ Stop \/ Killed BY <2>2, EndKeeps DEF StartFails, Stop, Killed
  <2>3. CASE UNCHANGED deploymentVars BY <2>3, EndKeeps DEF deploymentVars
  <2> QED
    BY <2>1, <2>2, <2>3, WorldKeeps, RepinKeeps, BeginKeeps, UseCacheKeeps, UnresolvedKeeps,
       FetchFailsKeeps, FetchKeeps, PlaceKeeps, FinishKeeps, LoadKeeps
    DEF DeploymentNext
<1> QED BY <1>1, <1>2, PTL DEF DeploymentSpec

\* Once the install is over every skill is settled.
THEOREM InstallsAreLocked == DeploymentSpec => []InstallsWhatIsLocked
<1>1. DeploymentInv => InstallsWhatIsLocked
  <2> SUFFICES ASSUME DeploymentInv, Running, command.mode = "frozen",
                      command.stage # "install", NEW s \in Skills
               PROVE  /\ s \in Directories =>
                           \/ /\ Lockable(s)
                              /\ Digest(command.target[s], Content(s)) = Locked(s)
                           \/ wanted[s] # Nil /\ ~Lockable(s)
                      /\ Lockable(s) /\ cache[s][lock[s].version] = lock[s].build =>
                           s \in Directories
    BY DEF InstallsWhatIsLocked, Lockable
  <2>1. Settled(s) BY DEF DeploymentInv, CommandInv
  <2>2. s \in Directories <=> command.state[s] \in Got BY DEF Directories, Got
  <2> QED BY <2>1, <2>2, TargetOfLockable DEF Settled, Digest, Content, Locked
<1> QED BY <1>1, DeploymentInvariant, PTL

\* A directory that has the locked bytes is a cache hit, or is not the target.
LEMMA StepKeepsLockedBytes ==
  ASSUME DeploymentInv, [DeploymentNext]_deploymentVars, NEW s \in Skills, lock[s] # Nil,
         Running, cache[s][lock[s].version] = lock[s].build
  PROVE  cache'[s][lock[s].version] = lock[s].build
<1> DEFINE v == lock[s].version
           b == lock[s].build
<1>1. v \in Versions /\ b \in Builds /\ b # Nil /\ v # Nil
  BY DeploymentAssumption DEF DeploymentInv, DeploymentTypes, LockEntry
<1>2. cache \in [Skills -> Directory] BY DEF DeploymentInv, DeploymentTypes
<1>3. ASSUME NEW r \in Skills, Fetch(r) PROVE cache'[s][v] = b
  <2>1. /\ ~CacheHit(r) /\ command.target[r] # Nil
        /\ cache' = [cache EXCEPT ![r][command.target[r]] = Nil]
    BY <1>3 DEF Fetch
  <2>2. ~(r = s /\ command.target[r] = v)
    <3> SUFFICES ASSUME r = s, command.target[r] = v PROVE CacheHit(r) BY <2>1
    <3> QED BY <1>1 DEF CacheHit, Trusted, ExpectedDigest, Locked
  <2>3. cache'[r] = [cache[r] EXCEPT ![command.target[r]] = Nil] BY <2>1, <1>2
  <2>4. cache[s] \in Directory BY <1>2
  <2>5. CASE r = s BY <1>1, <2>2, <2>3, <2>4, <2>5 DEF Directory
  <2>6. CASE r # s BY <2>1, <2>6, <1>2
  <2> QED BY <2>5, <2>6
<1>4. CASE Place
  <2> DEFINE r == command.fetched.skill
             t == command.target[r]
  <2>1. command.fetched # Nil /\ cache' = [cache EXCEPT ![r][t] = command.fetched.build]
    BY <1>4 DEF Place
  <2>2. cache[r][t] = Nil BY <2>1 DEF DeploymentInv, CommandInv
  <2> HIDE DEF r
  <2>3. CASE r = s
    <3>1. t # v BY <1>1, <2>2, <2>3
    <3>2. cache'[s] = [cache[s] EXCEPT ![t] = command.fetched.build] BY <2>1, <2>3, <1>2
    <3>3. cache[s] \in Directory BY <1>2
    <3> QED BY <1>1, <3>1, <3>2, <3>3 DEF Directory
  <2>4. CASE r # s BY <2>1, <2>4, <1>2
  <2> QED BY <2>3, <2>4
<1>5. ASSUME ~Place, \A r \in Skills : ~Fetch(r) PROVE UNCHANGED cache
  BY <1>5 DEF DeploymentNext, deploymentVars, PointTag, AlterCache, Repin, Begin, UseCache,
              Unresolved, FetchFails, FinishInstall, Load, Start, StartFails, Stop, Killed
<1> QED BY <1>3, <1>4, <1>5

\* The lock a refresh writes has the entries it settled on.
LEMMA StepKeepsLock ==
  ASSUME DeploymentInv, [DeploymentNext]_deploymentVars, NEW s \in Skills, lock[s] # Nil,
         lock'[s] # Nil, lock'[s].version = lock[s].version
  PROVE  lock'[s] = lock[s]
<1>1. CASE FinishInstall
  <2>1. /\ Running /\ command.todo = {}
        /\ lock' = IF command.mode = "refresh" THEN command.next ELSE lock
    BY <1>1 DEF FinishInstall
  <2>2. Settled(s) BY <2>1 DEF DeploymentInv, CommandInv
  <2> QED BY <2>1, <2>2 DEF Settled
<1>2. CASE ~FinishInstall
  BY <1>2 DEF DeploymentNext, deploymentVars, PointTag, AlterCache, Repin, Begin, UseCache,
              Unresolved, FetchFails, Fetch, Place, Load, Start, StartFails, Stop, Killed
<1> QED BY <1>1, <1>2

\* No command takes locked bytes away, and none re-locks a version with others.
THEOREM LockedBytesAreKept == DeploymentSpec => LockedBytesSafe
<1>1. DeploymentInv /\ [DeploymentNext]_deploymentVars =>
        [\A s \in Skills : lock[s] # Nil =>
           /\ Running /\ cache[s][lock[s].version] = lock[s].build =>
                cache'[s][lock[s].version] = lock[s].build
           /\ lock'[s] # Nil /\ lock'[s].version = lock[s].version =>
                lock'[s] = lock[s]]_deploymentVars
  BY StepKeepsLockedBytes, StepKeepsLock
<1> QED BY <1>1, DeploymentInvariant, PTL DEF DeploymentSpec, LockedBytesSafe

(***************************************************************************)
(* Facilities.  For every set of consumers, profiles, hosts and tool calls:*)
(* what a serving consumer was granted works (GrantsWork), and a tunnel    *)
(* that counts as provisioned is routed and named (ProvisionedReaches).    *)
(*                                                                         *)
(* A grant and the provider's file are written by two writers, one after   *)
(* the other, and read back by either; so GrantsInv ties the grant file to *)
(* the endpoints and the table (GrantBacked) but for the one consumer that *)
(* acquires and for those a kill tore, whose secret may differ and whose   *)
(* address may not.  A tool call writes back the table it read, which is   *)
(* the table of now but for the names some call was told to change         *)
(* (CallCurrent).  TunnelInv is what each step of the reconciliation finds.*)
(***************************************************************************)

GrantTypes ==
  /\ config \in [Consumers -> Profiles \cup Hosts]
  /\ \A c \in Hooks : config[c] \in Profiles
  /\ \A c \in Publishers : config[c] \in Hosts
  /\ enabled \in BOOLEAN
  /\ grants \in [Consumers -> GrantRecord \cup {None}]
  /\ endpoints \in [Hooks -> Endpoint \cup {None}]
  /\ mounted \in [Hooks -> Endpoint \cup {None}]
  /\ table \in RouteTable \cup {Torn}
  /\ cut \in BOOLEAN
  /\ acquired \in Acquisition \cup {None}
  /\ held \in [Consumers -> GrantValues \cup {None}]
  /\ pending \in [Calls -> RouteCall \cup {None}]
  /\ sender \in [Hooks -> Nat \cup {None}]
  /\ waiting \subseteq Consumers
  /\ minted \in Nat

Acquiring(c) == acquired # None /\ acquired.who = c

\* The table has the route of c as it was granted, if it can be read, and so does every
\* table a tool call has read and will write back.
RouteKept(c) ==
  /\ table # Torn => table[c] = grants[c].values.address
  /\ \A t \in Calls : pending[t] # None => pending[t].read[c] = grants[c].values.address

\* What a saved grant says, the provider's file has, and so do the route and the table
\* unless a kill came between the two or a tool changed the route.
GrantBacked(c) ==
  grants[c] # None =>
    /\ c \in Hooks => endpoints[c] # None /\ endpoints[c].slug = grants[c].values.address
    /\ c \notin torn /\ ~Acquiring(c) =>
         /\ c \in Hooks => endpoints[c].material = grants[c].values.secret
         /\ c \in Publishers /\ c \notin touched => RouteKept(c)

AcquiredBacked ==
  acquired # None =>
    LET c == acquired.who IN
      /\ process = "boot" /\ c \in waiting
      /\ c \in Hooks => /\ enabled /\ endpoints[c] # None
                        /\ endpoints[c].slug = acquired.values.address
                        /\ endpoints[c].material = acquired.values.secret
      /\ c \in Publishers => table # Torn /\ table[c] = acquired.values.address

HeldBacked(c) ==
  held[c] # None =>
    /\ process # "down" /\ c \notin waiting
    /\ grants[c] # None /\ held[c] = grants[c].values
    /\ c \in Hooks => enabled

SenderKnows(c) == sender[c] # None => endpoints[c] # None /\ sender[c] = endpoints[c].slug

CallCurrent(t) ==
  pending[t] # None =>
    /\ process = "up" /\ pending[t].name \in touched
    /\ pending[t].mixed => cut

\* The table is unreadable while it is written, and once a write of it was cut.
TableInv == table = Torn => cut \/ Writing # {}

GrantsInv ==
  /\ GrantTypes
  /\ TableInv
  /\ \A c \in Consumers : GrantBacked(c) /\ HeldBacked(c)
  /\ \A c \in Hooks : SenderKnows(c)
  /\ \A t \in Calls : CallCurrent(t)
  /\ AcquiredBacked
  /\ process # "down" /\ enabled => mounted = endpoints
  /\ process = "up" => waiting = {}

Cloud == [tunnel : Nat \cup {None}, ingress : {"none", "own", "shadowed"}, dns : Nat \cup {None}]
Steps == {"off", "tunnel", "ingress", "dns", "token", "provisioned", "failed"}

\* What reconcileTunnel has seen to, step by step.
TunnelInv ==
  /\ minted \in Nat
  /\ account \in Cloud
  /\ provision \in [step : Steps, tunnel : Nat \cup {None}]
  /\ process = "down" => provision.step = "off"
  /\ provision.step \in {"ingress", "dns", "token", "provisioned"} =>
       account.tunnel # None /\ provision.tunnel = account.tunnel
  /\ provision.step \in {"dns", "token", "provisioned"} => account.ingress # "none"
  /\ provision.step \in {"token", "provisioned"} => account.dns = provision.tunnel

---------------------------------------------------------------------------
\* Steps that leave providers, directory and consumers alone.
grantVars == <<config, enabled, grants, endpoints, table, process, waiting, acquired,
               held, mounted, pending, sender, torn, touched, cut>>

LEMMA NotACall == \A call \in RouteCall : call # None
  BY FacilitiesAssumption DEF RouteCall

LEMMA TableStays ==
  ASSUME TableInv, UNCHANGED <<table, cut, pending>> PROVE TableInv'
  BY DEF TableInv, Writing

LEMMA GrantsStay ==
  ASSUME GrantsInv, UNCHANGED grantVars, minted' \in Nat
  PROVE  GrantsInv'
<1>1. GrantTypes' BY DEF GrantsInv, GrantTypes, grantVars
<1>2. ASSUME NEW c \in Consumers PROVE GrantBacked(c)' /\ HeldBacked(c)'
  BY DEF GrantsInv, grantVars, GrantBacked, HeldBacked, Acquiring, RouteKept
<1>3. ASSUME NEW c \in Hooks PROVE SenderKnows(c)'
  BY DEF GrantsInv, grantVars, SenderKnows
<1>4. ASSUME NEW t \in Calls PROVE CallCurrent(t)'
  BY DEF GrantsInv, grantVars, CallCurrent
<1>5. AcquiredBacked' BY DEF GrantsInv, grantVars, AcquiredBacked
<1>6. TableInv' BY TableStays DEF GrantsInv, grantVars
<1> QED BY <1>1, <1>2, <1>3, <1>4, <1>5, <1>6 DEF GrantsInv, grantVars

LEMMA EditsKeep ==
  ASSUME GrantsInv, Edit,
         \/ \E c \in Consumers, value \in Profiles \cup Hosts : Reconfigure(c, value)
         \/ SwitchProvider
         \/ EditAccount
  PROVE  GrantsInv'
<1>1. /\ process = "down"
      /\ UNCHANGED <<grants, endpoints, table, process, waiting, acquired, held, mounted,
                     pending, sender, torn, touched, cut, minted>>
  BY DEF Edit, files, memory, ghosts
<1>2. \A c \in Consumers : held[c] = None BY <1>1 DEF GrantsInv, HeldBacked
<1>3. ASSUME GrantTypes' PROVE GrantsInv'
  <2>1. ASSUME NEW c \in Consumers PROVE GrantBacked(c)' /\ HeldBacked(c)'
    BY <1>1, <1>2 DEF GrantsInv, GrantBacked, HeldBacked, Acquiring, RouteKept
  <2>2. ASSUME NEW c \in Hooks PROVE SenderKnows(c)'
    BY <1>1 DEF GrantsInv, SenderKnows
  <2>3. ASSUME NEW t \in Calls PROVE CallCurrent(t)'
    BY <1>1 DEF GrantsInv, CallCurrent
  <2>4. AcquiredBacked' BY <1>1 DEF GrantsInv, AcquiredBacked
  <2>5. TableInv' BY <1>1, TableStays DEF GrantsInv
  <2> QED BY <1>1, <1>3, <2>1, <2>2, <2>3, <2>4, <2>5 DEF GrantsInv
<1>4. ASSUME NEW c \in Consumers, NEW value \in Profiles \cup Hosts, Reconfigure(c, value)
      PROVE  GrantTypes'
  <2>1. /\ config' = [config EXCEPT ![c] = value] /\ UNCHANGED enabled
        /\ value \in IF c \in Hooks THEN Profiles ELSE Hosts
    BY <1>4 DEF Reconfigure
  <2>2. config' \in [Consumers -> Profiles \cup Hosts]
    BY <2>1 DEF GrantsInv, GrantTypes
  <2>3. /\ \A d \in Hooks : config'[d] \in Profiles
        /\ \A d \in Publishers : config'[d] \in Hosts
    BY <2>1, FacilitiesAssumption DEF GrantsInv, GrantTypes, Consumers
  <2> QED BY <1>1, <2>1, <2>2, <2>3 DEF GrantsInv, GrantTypes
<1>5. ASSUME SwitchProvider PROVE GrantTypes'
  BY <1>1, <1>5 DEF SwitchProvider, GrantsInv, GrantTypes
<1>6. ASSUME EditAccount PROVE GrantTypes'
  BY <1>1, <1>6 DEF EditAccount, GrantsInv, GrantTypes
<1> QED BY <1>3, <1>4, <1>5, <1>6

LEMMA BootKeeps ==
  ASSUME GrantsInv, Boot
  PROVE  GrantsInv'
<1>1. /\ process = "down" /\ process' = "boot" /\ waiting' = Consumers
      /\ mounted' = IF enabled THEN endpoints ELSE Nothing(Hooks)
      /\ UNCHANGED <<config, enabled, grants, endpoints, table, acquired, held, pending,
                     sender, torn, touched, cut, minted>>
  BY DEF Boot, files, ghosts
<1>2. acquired = None BY <1>1 DEF GrantsInv, AcquiredBacked
<1>3. \A c \in Consumers : held[c] = None BY <1>1 DEF GrantsInv, HeldBacked
<1>4. \A t \in Calls : pending[t] = None BY <1>1 DEF GrantsInv, CallCurrent
<1>5. mounted' \in [Hooks -> Endpoint \cup {None}]
  BY <1>1 DEF GrantsInv, GrantTypes, Nothing
<1>6. GrantTypes' BY <1>1, <1>5 DEF GrantsInv, GrantTypes
<1>7. ASSUME NEW c \in Consumers PROVE GrantBacked(c)' /\ HeldBacked(c)'
  BY <1>1, <1>3 DEF GrantsInv, GrantBacked, HeldBacked, Acquiring, RouteKept
<1>8. ASSUME NEW c \in Hooks PROVE SenderKnows(c)'
  BY <1>1 DEF GrantsInv, SenderKnows
<1>20. TableInv' BY <1>1, TableStays DEF GrantsInv
<1> QED
  BY <1>20, <1>1, <1>2, <1>4, <1>6, <1>7, <1>8 DEF GrantsInv, AcquiredBacked, CallCurrent

LEMMA ReuseKeeps ==
  ASSUME GrantsInv, NEW c \in Consumers, Reuse(c)
  PROVE  GrantsInv'
<1>1. /\ process = "boot" /\ acquired = None /\ c \in waiting
      /\ (c \in Publishers \/ enabled) /\ grants[c] # None
      /\ held' = [held EXCEPT ![c] = grants[c].values] /\ waiting' = waiting \ {c}
      /\ UNCHANGED <<config, enabled, grants, endpoints, table, process, acquired, mounted,
                     pending, sender, torn, touched, cut, minted>>
  BY DEF Reuse, Registering, Provided, SameGrantSource, files, ghosts
<1>2. grants[c].values \in GrantValues
  BY <1>1 DEF GrantsInv, GrantTypes, GrantRecord
<1>3. held' \in [Consumers -> GrantValues \cup {None}]
  BY <1>1, <1>2 DEF GrantsInv, GrantTypes
<1>4. GrantTypes' BY <1>1, <1>3 DEF GrantsInv, GrantTypes
<1>5. ASSUME NEW d \in Consumers PROVE GrantBacked(d)' /\ HeldBacked(d)'
  <2>1. held'[d] = IF d = c THEN grants[c].values ELSE held[d]
    BY <1>1 DEF GrantsInv, GrantTypes
  <2>2. c \in Hooks => enabled BY <1>1, FacilitiesAssumption
  <2> QED BY <1>1, <2>1, <2>2 DEF GrantsInv, GrantBacked, HeldBacked, Acquiring, RouteKept
<1>6. ASSUME NEW d \in Hooks PROVE SenderKnows(d)'
  BY <1>1 DEF GrantsInv, SenderKnows
<1>20. TableInv' BY <1>1, TableStays DEF GrantsInv
<1> QED BY <1>20, <1>1, <1>4, <1>5, <1>6 DEF GrantsInv, AcquiredBacked, CallCurrent

LEMMA RefusedKeeps ==
  ASSUME GrantsInv, NEW c \in Consumers, Refused(c)
  PROVE  GrantsInv'
<1>1. /\ process = "boot" /\ acquired = None /\ waiting' = waiting \ {c}
      /\ UNCHANGED <<config, enabled, grants, endpoints, table, process, acquired, held,
                     mounted, pending, sender, torn, touched, cut, minted>>
  BY DEF Refused, Registering, files, ghosts
<1>2. GrantTypes' BY <1>1 DEF GrantsInv, GrantTypes
<1>3. ASSUME NEW d \in Consumers PROVE GrantBacked(d)' /\ HeldBacked(d)'
  BY <1>1 DEF GrantsInv, GrantBacked, HeldBacked, Acquiring, RouteKept
<1>4. ASSUME NEW d \in Hooks PROVE SenderKnows(d)'
  BY <1>1 DEF GrantsInv, SenderKnows
<1>20. TableInv' BY <1>1, TableStays DEF GrantsInv
<1> QED BY <1>20, <1>1, <1>2, <1>3, <1>4 DEF GrantsInv, AcquiredBacked, CallCurrent

\* The slug of a consumer stays; what is new is a number.
LEMMA EndpointOf ==
  ASSUME GrantsInv, NEW c \in Hooks
  PROVE  /\ EndpointFor(c) \in Endpoint
         /\ endpoints[c] # None => EndpointFor(c).slug = endpoints[c].slug
<1> DEFINE m == MintedMaterial(config[c], endpoints[c])
           a == IF endpoints[c] # None THEN endpoints[c].slug ELSE minted + 1
<1>1. /\ endpoints[c] \in Endpoint \cup {None} /\ config[c] \in Profiles /\ minted \in Nat
  BY DEF GrantsInv, GrantTypes
<1>2. a \in Nat BY <1>1 DEF Endpoint
<1>3. m \in Nat \cup {None}
  <2>1. CASE config[c] \notin Minted BY <2>1 DEF MintedMaterial
  <2>2. CASE config[c] \in Minted /\ endpoints[c] # None /\ endpoints[c].profile = config[c]
    <3>1. m = endpoints[c].material BY <2>2 DEF MintedMaterial
    <3> QED BY <1>1, <2>2, <3>1 DEF Endpoint
  <2>3. CASE config[c] \in Minted /\ ~(endpoints[c] # None /\ endpoints[c].profile = config[c])
    <3>1. m = minted + 2 BY <2>3 DEF MintedMaterial
    <3> QED BY <1>1, <3>1
  <2> QED BY <2>1, <2>2, <2>3
<1>4. EndpointFor(c) = [slug |-> a, profile |-> config[c], material |-> m]
  BY DEF EndpointFor
<1> HIDE DEF a, m
<1>5. EndpointFor(c) \in Endpoint /\ EndpointFor(c).slug = a
  BY <1>1, <1>2, <1>3, <1>4 DEF Endpoint
<1> QED BY <1>5 DEF a

LEMMA AcquireWebhookKeeps ==
  ASSUME GrantsInv, NEW c \in Consumers, AcquireWebhook(c)
  PROVE  GrantsInv'
<1> DEFINE record == EndpointFor(c)
           values == [address |-> record.slug, secret |-> record.material]
           new == [who |-> c, config |-> config[c], values |-> values]
<1>1. /\ process = "boot" /\ acquired = None /\ c \in waiting /\ c \in Hooks /\ enabled
      /\ endpoints' = [endpoints EXCEPT ![c] = record]
      /\ mounted' = [mounted EXCEPT ![c] = record]
      /\ acquired' = new /\ minted' = minted + 2
      /\ UNCHANGED <<config, enabled, grants, table, process, waiting, held, pending,
                     sender, torn, touched, cut>>
  BY DEF AcquireWebhook, Registering, Saved, Granted, ghosts
<1>2. record \in Endpoint /\ record # None
      /\ (endpoints[c] # None => record.slug = endpoints[c].slug)
  BY <1>1, EndpointOf, FacilitiesAssumption
<1> HIDE DEF record
<1>3. values \in GrantValues /\ values.address = record.slug /\ values.secret = record.material
  BY <1>2 DEF GrantValues, Endpoint
<1> HIDE DEF values
<1>4. new \in Acquisition /\ new # None /\ new.who = c /\ new.values = values
  <2>1. config[c] \in Profiles \cup Hosts BY DEF GrantsInv, GrantTypes
  <2>2. new \in Acquisition BY <1>3, <2>1 DEF Acquisition
  <2> QED BY <2>2, FacilitiesAssumption
<1> HIDE DEF new
<1>5. GrantTypes'
  <2>1. endpoints' \in [Hooks -> Endpoint \cup {None}] /\ mounted' \in [Hooks -> Endpoint \cup {None}]
    BY <1>1, <1>2 DEF GrantsInv, GrantTypes
  <2>2. minted' \in Nat BY <1>1 DEF GrantsInv, GrantTypes
  <2> QED BY <1>1, <1>4, <2>1, <2>2 DEF GrantsInv, GrantTypes
<1>6. endpoints'[c] = record /\ \A d \in Hooks \ {c} : endpoints'[d] = endpoints[d]
  BY <1>1 DEF GrantsInv, GrantTypes
<1>7. held[c] = None BY <1>1 DEF GrantsInv, HeldBacked
<1>8. ASSUME NEW d \in Consumers PROVE GrantBacked(d)' /\ HeldBacked(d)'
  <2>1. GrantBacked(d) /\ HeldBacked(d) BY DEF GrantsInv
  <2>2. CASE d = c
    BY <1>1, <1>2, <1>4, <1>6, <1>7, <2>1, <2>2 DEF GrantBacked, HeldBacked, Acquiring, RouteKept
  <2>3. CASE d # c
    BY <1>1, <1>4, <1>6, <2>1, <2>3 DEF GrantBacked, HeldBacked, Acquiring, RouteKept
  <2> QED BY <2>2, <2>3
<1>9. ASSUME NEW d \in Hooks PROVE SenderKnows(d)'
  BY <1>1, <1>2, <1>6 DEF GrantsInv, SenderKnows
<1>10. AcquiredBacked'
  <2>1. c \notin Publishers BY <1>1, FacilitiesAssumption
  <2> QED BY <1>1, <1>2, <1>3, <1>4, <1>6, <2>1 DEF AcquiredBacked
<1>11. mounted' = endpoints' BY <1>1 DEF GrantsInv
<1>12. ASSUME NEW t \in Calls PROVE CallCurrent(t)'
  BY <1>1 DEF GrantsInv, CallCurrent
<1>20. TableInv' BY <1>1, TableStays DEF GrantsInv
<1> QED BY <1>20, <1>1, <1>5, <1>8, <1>9, <1>10, <1>11, <1>12 DEF GrantsInv

LEMMA AcquireRouteKeeps ==
  ASSUME GrantsInv, NEW c \in Consumers, AcquireRoute(c)
  PROVE  GrantsInv'
<1> DEFINE values == [address |-> config[c], secret |-> None]
           new == [who |-> c, config |-> config[c], values |-> values]
<1>1. /\ process = "boot" /\ acquired = None /\ c \in waiting /\ c \in Publishers
      /\ table # Torn /\ table' = [table EXCEPT ![c] = config[c]] /\ touched' = touched \ {c}
      /\ acquired' = new
      /\ UNCHANGED <<config, enabled, grants, endpoints, process, waiting, held, mounted,
                     pending, sender, torn, cut, minted>>
  BY DEF AcquireRoute, AcquiresRoute, Registering, Granted
<1>2. config[c] \in Hosts BY <1>1 DEF GrantsInv, GrantTypes
<1>3. values \in GrantValues /\ values.address = config[c] BY <1>2 DEF GrantValues
<1> HIDE DEF values
<1>4. new \in Acquisition /\ new # None /\ new.who = c /\ new.values = values
  <2>1. new \in Acquisition BY <1>2, <1>3 DEF Acquisition
  <2> QED BY <2>1, FacilitiesAssumption
<1> HIDE DEF new
<1>5. /\ table' \in RouteTable /\ table' # Torn /\ table'[c] = config[c]
      /\ \A n \in Names \ {c} : table'[n] = table[n]
  BY <1>1, <1>2, FacilitiesAssumption DEF GrantsInv, GrantTypes, RouteTable, Names
<1>6. GrantTypes' BY <1>1, <1>4, <1>5 DEF GrantsInv, GrantTypes
<1>7. ASSUME NEW d \in Consumers PROVE GrantBacked(d)' /\ HeldBacked(d)'
  <2>1. GrantBacked(d) /\ HeldBacked(d) BY DEF GrantsInv
  <2>2. CASE d = c
    BY <1>1, <1>4, <2>1, <2>2 DEF GrantBacked, HeldBacked, Acquiring, RouteKept
  <2>3. CASE d # c
    <3>1. d \in Publishers => table'[d] = table[d] BY <1>5, <2>3 DEF Names
    <3> QED BY <1>1, <1>4, <2>1, <2>3, <3>1 DEF GrantBacked, HeldBacked, Acquiring, RouteKept
  <2> QED BY <2>2, <2>3
<1>8. ASSUME NEW d \in Hooks PROVE SenderKnows(d)'
  BY <1>1 DEF GrantsInv, SenderKnows
<1>9. AcquiredBacked'
  <2>1. c \notin Hooks BY <1>1, FacilitiesAssumption
  <2> QED BY <1>1, <1>3, <1>4, <1>5, <2>1 DEF AcquiredBacked
<1>10. ASSUME NEW t \in Calls PROVE CallCurrent(t)'
  BY <1>1 DEF GrantsInv, CallCurrent
<1>11. TableInv' BY <1>5 DEF TableInv
<1> QED BY <1>11, <1>1, <1>6, <1>7, <1>8, <1>9, <1>10 DEF GrantsInv

LEMMA CutRouteKeeps ==
  ASSUME GrantsInv, NEW c \in Consumers, CutRoute(c)
  PROVE  GrantsInv'
<1>1. /\ process = "boot" /\ acquired = None /\ waiting' = waiting \ {c}
      /\ table' = Torn /\ cut' = TRUE
      /\ UNCHANGED <<config, enabled, grants, endpoints, process, acquired, held,
                     mounted, pending, sender, torn, touched, minted>>
  BY DEF CutRoute, AcquiresRoute, Registering
<1>2. GrantTypes' BY <1>1 DEF GrantsInv, GrantTypes
<1>3. ASSUME NEW d \in Consumers PROVE GrantBacked(d)' /\ HeldBacked(d)'
  BY <1>1 DEF GrantsInv, GrantBacked, HeldBacked, Acquiring, RouteKept
<1>4. ASSUME NEW d \in Hooks PROVE SenderKnows(d)'
  BY <1>1 DEF GrantsInv, SenderKnows
<1> QED
  BY <1>1, <1>2, <1>3, <1>4 DEF GrantsInv, AcquiredBacked, CallCurrent, TableInv

LEMMA SaveGrantKeeps ==
  ASSUME GrantsInv, SaveGrant
  PROVE  GrantsInv'
<1> DEFINE c == acquired.who
           values == acquired.values
           grant == [config |-> acquired.config, values |-> values]
<1>1. /\ acquired # None /\ acquired' = None
      /\ grants' = [grants EXCEPT ![c] = grant] /\ held' = [held EXCEPT ![c] = values]
      /\ waiting' = waiting \ {c} /\ torn' = torn \ {c}
      /\ UNCHANGED <<config, enabled, endpoints, table, process, mounted, pending, sender,
                     touched, cut, minted>>
  BY DEF SaveGrant
<1>2. acquired \in Acquisition BY <1>1 DEF GrantsInv, GrantTypes
<1>3. c \in Consumers /\ values \in GrantValues /\ acquired.config \in Profiles \cup Hosts
  BY <1>2 DEF Acquisition
<1>4. grant \in GrantRecord /\ grant # None /\ grant.values = values
  <2>1. grant \in GrantRecord BY <1>3 DEF GrantRecord
  <2> QED BY <2>1, FacilitiesAssumption
<1> HIDE DEF grant
<1>5. AcquiredBacked BY DEF GrantsInv
<1>6. /\ process = "boot" /\ c \in waiting
      /\ c \in Hooks => /\ enabled /\ endpoints[c] # None
                        /\ endpoints[c].slug = values.address
                        /\ endpoints[c].material = values.secret
      /\ c \in Publishers => table # Torn /\ table[c] = values.address
  BY <1>1, <1>5 DEF AcquiredBacked
<1>13. \A t \in Calls : pending[t] = None BY <1>6 DEF GrantsInv, CallCurrent
<1>7. \A d \in Consumers : Acquiring(d) <=> d = c BY <1>1 DEF Acquiring
<1> HIDE DEF c, values
<1>8. /\ grants' \in [Consumers -> GrantRecord \cup {None}]
      /\ held' \in [Consumers -> GrantValues \cup {None}]
      /\ grants'[c] = grant /\ held'[c] = values
      /\ \A d \in Consumers \ {c} : grants'[d] = grants[d] /\ held'[d] = held[d]
  BY <1>1, <1>3, <1>4 DEF GrantsInv, GrantTypes
<1>9. GrantTypes' BY <1>1, <1>8 DEF GrantsInv, GrantTypes
<1>10. ASSUME NEW d \in Consumers PROVE GrantBacked(d)' /\ HeldBacked(d)'
  <2>1. GrantBacked(d) /\ HeldBacked(d) BY DEF GrantsInv
  <2>2. CASE d = c
    BY <1>1, <1>4, <1>6, <1>8, <1>13, <2>2 DEF GrantBacked, HeldBacked, Acquiring, RouteKept
  <2>3. CASE d # c
    BY <1>1, <1>7, <1>8, <2>1, <2>3 DEF GrantBacked, HeldBacked, Acquiring, RouteKept
  <2> QED BY <2>2, <2>3
<1>11. ASSUME NEW d \in Hooks PROVE SenderKnows(d)'
  BY <1>1 DEF GrantsInv, SenderKnows
<1>12. ASSUME NEW t \in Calls PROVE CallCurrent(t)'
  BY <1>1, <1>6 DEF GrantsInv, CallCurrent
<1>20. TableInv' BY <1>1, TableStays DEF GrantsInv
<1> QED BY <1>20, <1>1, <1>6, <1>9, <1>10, <1>11, <1>12 DEF GrantsInv, AcquiredBacked

LEMMA ServeKeeps ==
  ASSUME GrantsInv, Serve
  PROVE  GrantsInv'
<1>1. /\ process = "boot" /\ waiting = {} /\ process' = "up"
      /\ UNCHANGED <<config, enabled, grants, endpoints, table, waiting, acquired, held,
                     mounted, pending, sender, torn, touched, cut, minted>>
  BY DEF Serve, files, ghosts
<1>2. acquired = None BY <1>1 DEF GrantsInv, AcquiredBacked
<1>3. GrantTypes' BY <1>1 DEF GrantsInv, GrantTypes
<1>4. ASSUME NEW d \in Consumers PROVE GrantBacked(d)' /\ HeldBacked(d)'
  BY <1>1 DEF GrantsInv, GrantBacked, HeldBacked, Acquiring, RouteKept
<1>5. ASSUME NEW d \in Hooks PROVE SenderKnows(d)'
  BY <1>1 DEF GrantsInv, SenderKnows
<1>6. ASSUME NEW t \in Calls PROVE CallCurrent(t)'
  BY <1>1 DEF GrantsInv, CallCurrent
<1>20. TableInv' BY <1>1, TableStays DEF GrantsInv
<1> QED BY <1>20, <1>1, <1>2, <1>3, <1>4, <1>5, <1>6 DEF GrantsInv, AcquiredBacked

LEMMA DownKeeps ==
  ASSUME GrantsInv, Down
  PROVE  GrantsInv'
<1>1. /\ torn' = IF acquired = None THEN torn ELSE torn \cup {acquired.who}
      /\ process' = "down" /\ waiting' = {} /\ acquired' = None
      /\ held' = Nothing(Consumers) /\ mounted' = Nothing(Hooks)
      /\ pending' = Nothing(Calls) /\ cut' = (cut \/ Writing # {})
      /\ UNCHANGED <<config, enabled, grants, endpoints, table, sender, touched, minted>>
  BY DEF Down, files
<1>2. GrantTypes' BY <1>1 DEF GrantsInv, GrantTypes, Nothing
<1>3. ASSUME NEW d \in Consumers PROVE GrantBacked(d)' /\ HeldBacked(d)'
  <2>1. held'[d] = None BY <1>1 DEF Nothing
  <2>2. GrantBacked(d) BY DEF GrantsInv
  <2>3. d \notin torn' => d \notin torn /\ ~Acquiring(d) BY <1>1 DEF Acquiring
  <2>4. \A t \in Calls : pending'[t] = None BY <1>1 DEF Nothing
  <2> QED BY <1>1, <2>1, <2>2, <2>3, <2>4 DEF GrantBacked, HeldBacked, RouteKept
<1>4. ASSUME NEW d \in Hooks PROVE SenderKnows(d)'
  BY <1>1 DEF GrantsInv, SenderKnows
<1>5. ASSUME NEW t \in Calls PROVE CallCurrent(t)'
  BY <1>1 DEF CallCurrent, Nothing
<1>6. TableInv' BY <1>1 DEF GrantsInv, TableInv
<1> QED BY <1>6, <1>1, <1>2, <1>3, <1>4, <1>5 DEF GrantsInv, AcquiredBacked

LEMMA TellSenderKeeps ==
  ASSUME GrantsInv, NEW c \in Hooks, TellSender(c)
  PROVE  GrantsInv'
<1>1. /\ held[c] # None /\ sender' = [sender EXCEPT ![c] = held[c].address]
      /\ UNCHANGED <<config, enabled, grants, endpoints, table, process, waiting, acquired,
                     held, mounted, pending, torn, touched, cut, minted>>
  BY DEF TellSender, files, memory
<1>2. endpoints[c] # None /\ endpoints[c].slug = held[c].address
  BY <1>1 DEF GrantsInv, GrantBacked, HeldBacked, Consumers
<1>3. endpoints[c].slug \in Nat BY <1>2 DEF GrantsInv, GrantTypes, Endpoint
<1>4. sender' \in [Hooks -> Nat \cup {None}]
  BY <1>1, <1>2, <1>3 DEF GrantsInv, GrantTypes
<1>5. GrantTypes' BY <1>1, <1>4 DEF GrantsInv, GrantTypes
<1>6. ASSUME NEW d \in Consumers PROVE GrantBacked(d)' /\ HeldBacked(d)'
  BY <1>1 DEF GrantsInv, GrantBacked, HeldBacked, Acquiring, RouteKept
<1>7. ASSUME NEW d \in Hooks PROVE SenderKnows(d)'
  BY <1>1, <1>2 DEF GrantsInv, GrantTypes, SenderKnows
<1>8. ASSUME NEW t \in Calls PROVE CallCurrent(t)'
  BY <1>1 DEF GrantsInv, CallCurrent
<1>20. TableInv' BY <1>1, TableStays DEF GrantsInv
<1> QED BY <1>20, <1>1, <1>5, <1>6, <1>7, <1>8 DEF GrantsInv, AcquiredBacked

LEMMA ReadTableKeeps ==
  ASSUME GrantsInv, NEW t \in Calls, NEW request \in Requests,
         ReadTable(t, request[1], request[2])
  PROVE  GrantsInv'
<1> DEFINE n == request[1]
           host == request[2]
           call == [name |-> n, host |-> host, read |-> table,
                    writes |-> FALSE, mixed |-> FALSE]
<1>1. /\ process = "up" /\ pending' = [pending EXCEPT ![t] = call]
      /\ pending[t] = None /\ table # Torn /\ touched' = touched \cup {n}
      /\ UNCHANGED <<config, enabled, grants, endpoints, table, process, waiting, acquired,
                     held, mounted, sender, torn, cut, minted>>
  BY DEF ReadTable, files
<1>2. call \in RouteCall /\ call.name = n /\ call.read = table /\ ~call.writes /\ ~call.mixed
  <2>1. n \in Names /\ host \in Hosts \cup {None} BY FacilitiesAssumption
  <2> HIDE DEF n, host
  <2> QED BY <1>1, <2>1 DEF GrantsInv, GrantTypes, RouteCall
<1> HIDE DEF call, n, host
<1>3. /\ pending' \in [Calls -> RouteCall \cup {None}] /\ pending'[t] = call
      /\ \A u \in Calls \ {t} : pending'[u] = pending[u]
  BY <1>1, <1>2 DEF GrantsInv, GrantTypes
<1>4. GrantTypes' BY <1>1, <1>3 DEF GrantsInv, GrantTypes
<1>5. ASSUME NEW d \in Consumers PROVE GrantBacked(d)' /\ HeldBacked(d)'
  <2>1. GrantBacked(d) /\ HeldBacked(d) BY DEF GrantsInv
  <2>2. d \in Publishers /\ d \notin touched /\ RouteKept(d) => RouteKept(d)'
    BY <1>1, <1>2, <1>3 DEF RouteKept
  <2> QED BY <1>1, <2>1, <2>2 DEF GrantBacked, HeldBacked, Acquiring
<1>6. ASSUME NEW d \in Hooks PROVE SenderKnows(d)'
  BY <1>1 DEF GrantsInv, SenderKnows
<1>7. ASSUME NEW u \in Calls PROVE CallCurrent(u)'
  <2>1. CASE u = t BY <1>1, <1>2, <1>3, <2>1 DEF CallCurrent
  <2>2. CASE u # t BY <1>1, <1>3, <2>2 DEF GrantsInv, CallCurrent
  <2> QED BY <2>1, <2>2
<1>8. TableInv' BY <1>1 DEF TableInv
<1> QED BY <1>1, <1>4, <1>5, <1>6, <1>7, <1>8 DEF GrantsInv, AcquiredBacked

\* A call that has begun to write keeps what it read and was told.
LEMMA TruncateTableKeeps ==
  ASSUME GrantsInv, NEW t \in Calls, TruncateTable(t)
  PROVE  GrantsInv'
<1>1. /\ pending[t] # None /\ ~pending[t].writes /\ table' = Torn
      /\ cut' = (cut \/ Writing # {})
      /\ pending' = [u \in Calls |->
           IF u = t THEN [pending[t] EXCEPT !.writes = TRUE, !.mixed = Writing # {}]
           ELSE IF u \in Writing THEN [pending[u] EXCEPT !.mixed = TRUE]
           ELSE pending[u]]
      /\ UNCHANGED <<config, enabled, grants, endpoints, process, waiting, acquired,
                     held, mounted, sender, torn, touched, minted>>
  BY DEF TruncateTable, Editing
<1>2. ASSUME NEW u \in Calls
      PROVE  /\ pending'[u] \in RouteCall \cup {None}
             /\ pending'[u] = None <=> pending[u] = None
             /\ pending[u] # None =>
                  /\ pending'[u].name = pending[u].name
                  /\ pending'[u].read = pending[u].read
                  /\ pending'[u].mixed => cut'
  <2>1. pending[u] \in RouteCall \cup {None} /\ CallCurrent(u) BY DEF GrantsInv, GrantTypes
  <2>2. CASE u = t
    <3> DEFINE m == Writing # {}
               a == [pending[t] EXCEPT !.writes = TRUE]
    <3>1. m \in BOOLEAN OBVIOUS
    <3>2. a \in RouteCall /\ a.name = pending[t].name /\ a.read = pending[t].read
      BY <1>1, <2>1, <2>2 DEF RouteCall
    <3>3. pending'[u] = [a EXCEPT !.mixed = m] BY <1>1, <2>2
    <3>4. m => cut' BY <1>1
    <3> HIDE DEF m, a
    <3>5. /\ pending'[u] \in RouteCall /\ pending'[u].name = a.name
          /\ pending'[u].read = a.read /\ pending'[u].mixed = m
      BY <3>1, <3>2, <3>3 DEF RouteCall
    <3>6. pending[u] # None /\ pending'[u] # None
      BY <1>1, <2>2, <3>5, NotACall
    <3> QED BY <2>2, <3>2, <3>4, <3>5, <3>6
  <2>3. CASE u # t /\ u \in Writing
    <3>1. pending'[u] = [pending[u] EXCEPT !.mixed = TRUE] /\ cut' BY <1>1, <2>3
    <3>2. pending[u] \in RouteCall BY <2>1, <2>3 DEF Writing
    <3>3. /\ pending'[u] \in RouteCall /\ pending'[u].name = pending[u].name
          /\ pending'[u].read = pending[u].read
      BY <3>1, <3>2 DEF RouteCall
    <3> QED BY <3>1, <3>2, <3>3, NotACall
  <2>4. CASE u # t /\ u \notin Writing
    <3>1. pending'[u] = pending[u] BY <1>1, <2>4
    <3> QED BY <1>1, <2>1, <3>1 DEF CallCurrent
  <2> QED BY <2>2, <2>3, <2>4
<1>3. pending' \in [Calls -> RouteCall \cup {None}] BY <1>1, <1>2
<1>4. GrantTypes' BY <1>1, <1>3 DEF GrantsInv, GrantTypes
<1>5. ASSUME NEW d \in Consumers PROVE GrantBacked(d)' /\ HeldBacked(d)'
  <2>1. GrantBacked(d) /\ HeldBacked(d) BY DEF GrantsInv
  <2>2. RouteKept(d) => RouteKept(d)' BY <1>1, <1>2 DEF RouteKept
  <2> QED BY <1>1, <2>1, <2>2 DEF GrantBacked, HeldBacked, Acquiring
<1>6. ASSUME NEW d \in Hooks PROVE SenderKnows(d)'
  BY <1>1 DEF GrantsInv, SenderKnows
<1>7. ASSUME NEW u \in Calls PROVE CallCurrent(u)'
  <2>1. CallCurrent(u) /\ UNCHANGED <<process, touched>> BY <1>1 DEF GrantsInv
  <2> QED BY <1>2, <2>1 DEF CallCurrent
<1>8. TableInv'
  <2>1. pending'[t] # None BY <1>1, <1>2
  <2>2. pending'[t].writes
    <3>1. pending[t] \in RouteCall BY <1>1 DEF GrantsInv, GrantTypes
    <3>2. pending'[t] = [pending[t] EXCEPT !.writes = TRUE, !.mixed = Writing # {}] BY <1>1
    <3> QED BY <3>1, <3>2 DEF RouteCall
  <2>3. t \in Writing' BY <2>1, <2>2 DEF Writing
  <2> QED BY <2>3 DEF TableInv
<1>9. acquired = None BY <1>1 DEF GrantsInv, AcquiredBacked, CallCurrent
<1> QED BY <1>1, <1>4, <1>5, <1>6, <1>7, <1>8, <1>9 DEF GrantsInv, AcquiredBacked

\* What a call writes back it has read, but for the name it was told to change.  A write
\* of a mixed file, or one that fails, leaves a table that cannot be read.
LEMMA WriteTableKeeps ==
  ASSUME GrantsInv, NEW t \in Calls, WriteTable(t) \/ FailTable(t)
  PROVE  GrantsInv'
<1> DEFINE call == pending[t]
<1>1. /\ call # None /\ call.writes
      /\ \/ table' = Edited(call) /\ UNCHANGED cut
         \/ table' = Torn /\ UNCHANGED cut /\ call.mixed
         \/ table' = Torn /\ cut' = TRUE
      /\ pending' = [pending EXCEPT ![t] = None]
      /\ UNCHANGED <<config, enabled, grants, endpoints, process, waiting, acquired,
                     held, mounted, sender, torn, touched, minted>>
  BY DEF WriteTable, FailTable, Editing
<1>2. /\ call \in RouteCall /\ process = "up" /\ call.name \in touched
      /\ call.mixed => cut
  BY <1>1 DEF GrantsInv, GrantTypes, CallCurrent
<1>3. /\ pending' \in [Calls -> RouteCall \cup {None}] /\ pending'[t] = None
      /\ \A u \in Calls \ {t} : pending'[u] = pending[u]
  BY <1>1 DEF GrantsInv, GrantTypes
<1>4. call.read \in RouteTable /\ call.name \in Names /\ call.host \in Hosts \cup {None}
  BY <1>2 DEF RouteCall
<1>5. /\ Edited(call) \in RouteTable
      /\ \A n \in Names \ touched : Edited(call)[n] = call.read[n]
  BY <1>2, <1>4 DEF RouteTable, Edited
<1> HIDE DEF call
<1>6. table' \in RouteTable \cup {Torn} /\ cut' \in BOOLEAN
  BY <1>1, <1>5 DEF GrantsInv, GrantTypes
<1>7. GrantTypes' BY <1>1, <1>3, <1>6 DEF GrantsInv, GrantTypes
<1>8. ASSUME NEW d \in Consumers PROVE GrantBacked(d)' /\ HeldBacked(d)'
  <2>1. GrantBacked(d) /\ HeldBacked(d) BY DEF GrantsInv
  <2>2. d \in Publishers /\ d \notin touched /\ RouteKept(d) => RouteKept(d)'
    <3> SUFFICES ASSUME d \in Publishers, d \notin touched, RouteKept(d) PROVE RouteKept(d)'
      OBVIOUS
    <3>1. call.read[d] = grants[d].values.address BY <1>1 DEF RouteKept, call
    <3>2. d \in Names \ touched BY DEF Names
    <3>3. table' # Torn => table'[d] = grants[d].values.address
      BY <1>1, <1>5, <3>1, <3>2
    <3>4. \A u \in Calls : pending'[u] # None => pending'[u].read[d] = grants[d].values.address
      BY <1>3 DEF RouteKept
    <3> QED BY <1>1, <3>3, <3>4 DEF RouteKept
  <2> QED BY <1>1, <2>1, <2>2 DEF GrantBacked, HeldBacked, Acquiring
<1>9. ASSUME NEW d \in Hooks PROVE SenderKnows(d)'
  BY <1>1 DEF GrantsInv, SenderKnows
<1>10. ASSUME NEW u \in Calls PROVE CallCurrent(u)'
  BY <1>1, <1>3 DEF GrantsInv, CallCurrent
<1>11. acquired = None BY <1>2 DEF GrantsInv, AcquiredBacked
<1>12. TableInv'
  <2>1. Edited(call) # Torn BY <1>5, FacilitiesAssumption DEF RouteTable
  <2> QED BY <1>1, <1>2, <2>1 DEF TableInv
<1> QED BY <1>1, <1>7, <1>8, <1>9, <1>10, <1>11, <1>12 DEF GrantsInv, AcquiredBacked

LEMMA ProvisioningKeeps ==
  ASSUME GrantsInv,
         EnsureTunnel \/ EnsureIngress \/ EnsureDnsRecord \/ FetchToken \/ ProvisionFails
  PROVE  GrantsInv'
<1>1. UNCHANGED grantVars
  BY DEF EnsureTunnel, EnsureIngress, EnsureDnsRecord, FetchToken, ProvisionFails,
         Provisioning, ghosts, grantVars
<1>2. minted' \in Nat
  BY DEF EnsureTunnel, EnsureIngress, EnsureDnsRecord, FetchToken, ProvisionFails,
         GrantsInv, GrantTypes
<1> QED BY <1>1, <1>2, GrantsStay

\* The inductive invariant of what skills are granted.
THEOREM GrantsInvariant == FacilitiesSpec => []GrantsInv
<1>1. FacilitiesInit => GrantsInv
  <2> SUFFICES ASSUME FacilitiesInit PROVE GrantsInv OBVIOUS
  <2>1. GrantTypes
    <3>1. /\ \A c \in Hooks : config[c] \in Profiles
          /\ \A c \in Publishers : config[c] \in Hosts
      BY FacilitiesAssumption DEF FacilitiesInit, Consumers
    <3> QED BY <3>1 DEF FacilitiesInit, GrantTypes, Nothing, RouteTable
  <2>2. TableInv
    <3>1. table \in RouteTable BY DEF FacilitiesInit, Nothing, RouteTable
    <3> QED BY <3>1, FacilitiesAssumption DEF TableInv
  <2> QED BY <2>1, <2>2 DEF FacilitiesInit, GrantsInv, GrantBacked, HeldBacked, SenderKnows,
                            CallCurrent, AcquiredBacked, Nothing, Consumers
<1>2. GrantsInv /\ [FacilitiesNext]_facilitiesVars => GrantsInv'
  <2> SUFFICES ASSUME GrantsInv, [FacilitiesNext]_facilitiesVars PROVE GrantsInv'
    OBVIOUS
  <2>1. CASE UNCHANGED facilitiesVars
    <3>1. UNCHANGED grantVars /\ UNCHANGED minted
      BY <2>1 DEF facilitiesVars, grantVars, files, memory, ghosts
    <3> QED BY <3>1, GrantsStay DEF GrantsInv, GrantTypes
  <2>2. ASSUME NEW c \in Consumers, NEW value \in Profiles \cup Hosts, Reconfigure(c, value)
        PROVE  GrantsInv'
    <3>1. Edit BY <2>2 DEF Reconfigure
    <3> QED BY <2>2, <3>1, EditsKeep
  <2>3. CASE SwitchProvider \/ EditAccount
    <3>1. Edit BY <2>3 DEF SwitchProvider, EditAccount
    <3> QED BY <2>3, <3>1, EditsKeep
  <2> QED
    BY <2>1, <2>2, <2>3, BootKeeps, SaveGrantKeeps, ServeKeeps, DownKeeps, ReuseKeeps,
       RefusedKeeps, AcquireWebhookKeeps, AcquireRouteKeeps, CutRouteKeeps, TellSenderKeeps,
       ReadTableKeeps, TruncateTableKeeps, WriteTableKeeps, ProvisioningKeeps
    DEF FacilitiesNext
<1> QED BY <1>1, <1>2, PTL DEF FacilitiesSpec

\* When the agent serves nothing is being acquired and what is mounted is on file.
THEOREM GrantedWorks == FacilitiesSpec => []GrantsWork
<1>1. GrantsInv => GrantsWork
  <2> SUFFICES ASSUME GrantsInv, process = "up", NEW c \in Consumers, held[c] # None
               PROVE  /\ c \in Hooks =>
                           /\ mounted[c] # None /\ mounted[c].slug = held[c].address
                           /\ sender[c] \in {None, held[c].address}
                           /\ c \notin torn => mounted[c].material = held[c].secret
                      /\ c \in Publishers \ (touched \cup torn) /\ Writing = {} /\ ~cut =>
                           table # Torn /\ table[c] = held[c].address
    BY DEF GrantsWork
  <2>1. GrantBacked(c) /\ HeldBacked(c) BY DEF GrantsInv
  <2>2. acquired = None BY DEF GrantsInv, AcquiredBacked
  <2>3. c \in Hooks => mounted[c] = endpoints[c] /\ SenderKnows(c)
    BY <2>1 DEF GrantsInv, HeldBacked
  <2>4. table = Torn => cut \/ Writing # {} BY DEF GrantsInv, TableInv
  <2> QED BY <2>1, <2>2, <2>3, <2>4 DEF GrantBacked, HeldBacked, Acquiring, RouteKept, SenderKnows
<1> QED BY <1>1, GrantsInvariant, PTL

---------------------------------------------------------------------------
\* Steps that leave the account and its provisioning alone.
LEMMA TunnelStays ==
  ASSUME TunnelInv, UNCHANGED <<account, provision>>, minted' \in Nat,
         process' = "down" => process = "down"
  PROVE  TunnelInv'
  BY DEF TunnelInv

LEMMA AccountEditsKeep ==
  ASSUME TunnelInv, EditAccount
  PROVE  TunnelInv'
<1>1. process = "down" /\ UNCHANGED <<process, provision, minted>>
  BY DEF EditAccount, Edit, memory
<1>2. account' \in Cloud
  <2>1. CASE account' = [account EXCEPT !.tunnel = None, !.ingress = "none"]
    BY <2>1 DEF TunnelInv, Cloud
  <2>2. CASE \/ account' = [account EXCEPT !.ingress = "none"]
             \/ account' = [account EXCEPT !.ingress = "shadowed"]
    BY <2>2 DEF TunnelInv, Cloud
  <2>3. ASSUME NEW d \in {None, 0}, account' = [account EXCEPT !.dns = d]
        PROVE  account' \in Cloud
    BY <2>3 DEF TunnelInv, Cloud
  <2> QED BY <2>1, <2>2, <2>3 DEF EditAccount
<1> QED BY <1>1, <1>2 DEF TunnelInv

LEMMA EnsureTunnelKeeps ==
  ASSUME TunnelInv, EnsureTunnel
  PROVE  TunnelInv'
<1>1. process = "up" /\ UNCHANGED process BY DEF EnsureTunnel, Provisioning
<1>2. CASE account.tunnel # None /\ UNCHANGED <<account, minted>>
           /\ provision' = [step |-> "ingress", tunnel |-> account.tunnel]
  BY <1>1, <1>2 DEF TunnelInv, Cloud, Steps
<1>3. CASE /\ minted' = minted + 1
           /\ account' = [account EXCEPT !.tunnel = minted + 1, !.ingress = "none"]
           /\ provision' = [step |-> "ingress", tunnel |-> minted + 1]
  <2> DEFINE new == minted + 1
             a == [account EXCEPT !.tunnel = new]
  <2>1. new \in Nat /\ new # None /\ minted' = new
    BY <1>3, FacilitiesAssumption DEF TunnelInv
  <2> HIDE DEF new
  <2>2. a \in Cloud /\ a.tunnel = new BY <2>1 DEF TunnelInv, Cloud
  <2>3. account' = [a EXCEPT !.ingress = "none"] BY <1>3 DEF new
  <2> HIDE DEF a
  <2>4. account' \in Cloud /\ account'.tunnel = new BY <2>2, <2>3 DEF Cloud
  <2>5. provision' = [step |-> "ingress", tunnel |-> new] BY <1>3 DEF new
  <2> QED BY <1>1, <2>1, <2>4, <2>5 DEF TunnelInv, Steps
<1> QED BY <1>2, <1>3 DEF EnsureTunnel

LEMMA EnsureIngressKeeps ==
  ASSUME TunnelInv, EnsureIngress
  PROVE  TunnelInv'
<1>1. /\ process = "up" /\ provision.step = "ingress" /\ UNCHANGED <<process, minted>>
      /\ account' = [account EXCEPT !.ingress = IF @ = "none" THEN "own" ELSE @]
      /\ provision' = [provision EXCEPT !.step = "dns"]
  BY DEF EnsureIngress, Provisioning
<1>2. account' \in Cloud /\ account'.tunnel = account.tunnel
      /\ account'.ingress # "none"
  BY <1>1 DEF TunnelInv, Cloud
<1>3. /\ provision' \in [step : Steps, tunnel : Nat \cup {None}]
      /\ provision'.step = "dns" /\ provision'.tunnel = provision.tunnel
  BY <1>1 DEF TunnelInv, Steps
<1> QED BY <1>1, <1>2, <1>3 DEF TunnelInv

LEMMA EnsureDnsKeeps ==
  ASSUME TunnelInv, EnsureDnsRecord
  PROVE  TunnelInv'
<1>1. /\ process = "up" /\ provision.step = "dns" /\ UNCHANGED <<process, minted>>
      /\ account' = [account EXCEPT !.dns = provision.tunnel]
      /\ provision' = [provision EXCEPT !.step = "token"]
  BY DEF EnsureDnsRecord, Provisioning
<1>2. provision.tunnel \in Nat \cup {None} BY DEF TunnelInv
<1>3. /\ account' \in Cloud /\ account'.tunnel = account.tunnel
      /\ account'.ingress = account.ingress /\ account'.dns = provision.tunnel
  BY <1>1, <1>2 DEF TunnelInv, Cloud
<1>4. /\ provision' \in [step : Steps, tunnel : Nat \cup {None}]
      /\ provision'.step = "token" /\ provision'.tunnel = provision.tunnel
  BY <1>1 DEF TunnelInv, Steps
<1> QED BY <1>1, <1>3, <1>4 DEF TunnelInv

LEMMA LastStepsKeep ==
  ASSUME TunnelInv, FetchToken \/ ProvisionFails
  PROVE  TunnelInv'
<1>1. PICK step \in {"provisioned", "failed"} :
        /\ provision' = [provision EXCEPT !.step = step]
        /\ step = "provisioned" => provision.step = "token"
  BY DEF FetchToken, ProvisionFails, Provisioning
<1>2. process = "up" /\ UNCHANGED <<process, minted, account>>
  BY DEF FetchToken, ProvisionFails, Provisioning
<1>3. /\ provision' \in [step : Steps, tunnel : Nat \cup {None}]
      /\ provision'.step = step /\ provision'.tunnel = provision.tunnel
  BY <1>1 DEF TunnelInv, Steps
<1> QED BY <1>1, <1>2, <1>3 DEF TunnelInv

\* The inductive invariant of the tunnel's provisioning.
THEOREM TunnelInvariant == FacilitiesSpec => []TunnelInv
<1>1. FacilitiesInit => TunnelInv
  BY DEF FacilitiesInit, TunnelInv, Cloud, Steps, NotStarted
<1>2. TunnelInv /\ [FacilitiesNext]_facilitiesVars => TunnelInv'
  <2> SUFFICES ASSUME TunnelInv, [FacilitiesNext]_facilitiesVars PROVE TunnelInv'
    OBVIOUS
  <2>1. CASE Serve
    <3>1. /\ provision' = [step |-> "tunnel", tunnel |-> None] /\ process' = "up"
          /\ UNCHANGED <<account, minted>>
      BY <2>1 DEF Serve
    <3> QED BY <3>1 DEF TunnelInv, Steps
  <2>2. CASE Down
    <3>1. provision' = NotStarted /\ UNCHANGED <<account, minted>> BY <2>2 DEF Down
    <3> QED BY <3>1 DEF TunnelInv, NotStarted, Steps
  <2>3. ASSUME NEW c \in Consumers, AcquireWebhook(c) PROVE TunnelInv'
    <3>1. minted' = minted + 2 /\ UNCHANGED <<process, provision, account>>
      BY <2>3 DEF AcquireWebhook
    <3> QED BY <3>1, TunnelStays DEF TunnelInv
  <2>4. CASE \/ UNCHANGED facilitiesVars \/ SwitchProvider \/ SaveGrant \/ Boot
             \/ \E c \in Consumers, value \in Profiles \cup Hosts : Reconfigure(c, value)
    <3>1. /\ UNCHANGED <<account, provision, minted>>
          /\ process' = "down" => process = "down"
      BY <2>4 DEF facilitiesVars, memory, SwitchProvider, Edit, SaveGrant, Boot, Reconfigure
    <3> QED BY <3>1, TunnelStays DEF TunnelInv
  <2>5. CASE \/ \E c \in Consumers : \/ Reuse(c) \/ Refused(c)
                                     \/ AcquireRoute(c) \/ CutRoute(c)
             \/ \E c \in Hooks : TellSender(c)
             \/ \E t \in Calls, request \in Requests :
                  ReadTable(t, request[1], request[2])
             \/ \E t \in Calls : TruncateTable(t) \/ WriteTable(t) \/ FailTable(t)
    <3>1. UNCHANGED <<account, provision, minted, process>>
      BY <2>5 DEF Reuse, Refused, AcquiresRoute, AcquireRoute, CutRoute, Registering, TellSender,
                  memory, ReadTable, Editing, TruncateTable, WriteTable, FailTable
    <3> QED BY <3>1, TunnelStays DEF TunnelInv
  <2> QED
    BY <2>1, <2>2, <2>3, <2>4, <2>5, AccountEditsKeep, EnsureTunnelKeeps,
       EnsureIngressKeeps, EnsureDnsKeeps, LastStepsKeep
    DEF FacilitiesNext
<1> QED BY <1>1, <1>2, PTL DEF FacilitiesSpec

\* Each step saw to what the earlier ones left, and only the operator undoes it.
THEOREM ProvisionedTunnelsReach == FacilitiesSpec => []ProvisionedReaches
<1>1. TunnelInv => ProvisionedReaches BY DEF TunnelInv, ProvisionedReaches
<1> QED BY <1>1, TunnelInvariant, PTL
================================================================================
