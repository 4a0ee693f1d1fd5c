------------------------------ MODULE Deployment ------------------------------
(***************************************************************************)
(* The installable skills of one agent: a registry of tags that its owner  *)
(* publishes and may re-point, the cache of extracted skill directories    *)
(* and the lock file of the agent's checkout, and the commands that work   *)
(* on them: `elliott skills install` (frozen), `elliott skills lock`       *)
(* (refresh), and the boot of the agent, which installs in either mode,    *)
(* loads what it got and starts.  One command runs at a time; it may be    *)
(* killed at every step, and between two commands the directories of the   *)
(* cache may be changed or lost.                                           *)
(*                                                                         *)
(* A build is the content of a skill directory.  A validated directory     *)
(* names its version in its manifest, so its digest is <<version, build>>. *)
(***************************************************************************)
EXTENDS Integers, FiniteSets

CONSTANTS Skills,       \* the names of the install: block
          Required,     \* those whose name starts with gateway-
          Versions,     \* three-part versions, ordered as numbers
          Builds,       \* contents a directory may have
          Invalid,      \* the builds validateSkillTree refuses
          Unloadable,   \* the builds whose manifest the catalog cannot load
          Nil,
          MaxEvents     \* bound: what happens to registry, cache and config

ASSUME DeploymentAssumption ==
  /\ Required \subseteq Skills
  /\ Versions \subseteq Nat /\ IsFiniteSet(Versions)
  /\ Invalid \subseteq Builds
  /\ Unloadable \subseteq Builds
  /\ Nil \notin Versions \cup Builds \cup (Versions \X Builds)

VARIABLES tags,         \* tags[s][v]: the build the tag s/v points to, or Nil
          cache,        \* cache[s][v]: the build in .elliott/skills/s/v, or Nil
          lock,         \* lock[s]: [version, build] of skills.lock.json, or Nil
          wanted,       \* wanted[s]: the pinned version of the entry, or Nil
          command,      \* the command that runs
          agent,        \* the agent that runs
          events        \* for the bound

deploymentVars == <<tags, cache, lock, wanted, command, agent, events>>

NoCommand == [kind |-> "none"]
Stopped == [up |-> FALSE]

DeploymentInit ==
  /\ tags \in [Skills -> [Versions -> {Nil}]]
  /\ cache = tags
  /\ lock \in [Skills -> {Nil}]
  /\ wanted = lock
  /\ command = NoCommand
  /\ agent = Stopped
  /\ events = 0

Running == command.kind # "none"
Digest(v, b) == <<v, b>>
Locked(s) == Digest(lock[s].version, lock[s].build)

-----------------------------------------------------------------------------
(* The world around the commands. *)

Event ==
  /\ events < MaxEvents
  /\ events' = events + 1

(* The registry's owner publishes a tag, or points it somewhere else. *)
PointTag(s, v, b) ==
  /\ Event
  /\ tags[s][v] # b
  /\ tags' = [tags EXCEPT ![s][v] = b]
  /\ UNCHANGED <<cache, lock, wanted, command, agent>>

(* The checkout's cache is edited, restored from elsewhere or wiped. *)
AlterCache(s, v, b) ==
  /\ ~Running
  /\ Event
  /\ cache[s][v] # b
  /\ cache' = [cache EXCEPT ![s][v] = b]
  /\ UNCHANGED <<tags, lock, wanted, command, agent>>

(* The operator pins an entry, or lets it float again. *)
Repin(s, v) ==
  /\ ~Running
  /\ Event
  /\ wanted[s] # v
  /\ wanted' = [wanted EXCEPT ![s] = v]
  /\ UNCHANGED <<tags, cache, lock, command, agent>>

-----------------------------------------------------------------------------
(* runInstall *)

Published(s) == {v \in Versions : tags[s][v] # Nil}

LatestVersion(s) == CHOOSE v \in Published(s) : \A w \in Published(s) : w <= v

(* The version an entry resolves to; Nil when there is nothing to go by. *)
TargetVersion(s, mode, listed) ==
  IF wanted[s] # Nil THEN wanted[s]
  ELSE IF mode = "refresh" /\ listed /\ Published(s) # {} THEN LatestVersion(s)
  ELSE IF lock[s] # Nil THEN lock[s].version
  ELSE Nil

NewCommand(kind, mode, listed) ==
  [kind |-> kind, mode |-> mode, stage |-> "install", listed |-> listed,
   target |-> [s \in Skills |-> TargetVersion(s, mode, listed)],
   todo |-> Skills, fetched |-> Nil,
   state |-> [s \in Skills |-> Nil], next |-> [s \in Skills |-> Nil]]

Begin(kind, mode, listed) ==
  /\ ~Running
  /\ kind = "boot" => ~agent.up
  /\ mode = "frozen" => ~listed
  /\ command' = NewCommand(kind, mode, listed)
  /\ UNCHANGED <<tags, cache, lock, wanted, agent, events>>

(* The digest the lock vouches for, when it names the very version wanted. *)
ExpectedDigest(s, v) ==
  IF lock[s] # Nil /\ lock[s].version = v THEN Locked(s) ELSE Nil

Trusted(s, v, b) == ExpectedDigest(s, v) \in {Nil, Digest(v, b)}

Outcome(s, state, entry) ==
  command' = [command EXCEPT !.todo = @ \ {s}, !.fetched = Nil,
                             !.state[s] = state, !.next[s] = entry]

Installing(s) ==
  /\ command.kind # "none"
  /\ command.stage = "install"
  /\ command.fetched = Nil
  /\ s \in command.todo

(* Mutant: a refresh fetches what it has, to be up to date. *)
RefetchingCacheHit(s) ==
  LET v == command.target[s] IN
  /\ command.mode = "frozen"
  /\ v # Nil
  /\ cache[s][v] # Nil
  /\ Trusted(s, v, cache[s][v])

CacheHit(s) ==
  LET v == command.target[s] IN
  /\ v # Nil
  /\ cache[s][v] # Nil
  /\ Trusted(s, v, cache[s][v])

UseCache(s) ==
  /\ Installing(s)
  /\ CacheHit(s)
  /\ LET v == command.target[s] IN
       Outcome(s, IF command.mode = "refresh" /\ ~command.listed
                  THEN "cached-fallback" ELSE "ok",
               [version |-> v, build |-> cache[s][v]])
  /\ UNCHANGED <<tags, cache, lock, wanted, agent, events>>

Unresolved(s) ==
  /\ Installing(s)
  /\ command.target[s] = Nil
  /\ Outcome(s, "failed", Nil)
  /\ UNCHANGED <<tags, cache, lock, wanted, agent, events>>

(* Mutant: a directory of the version is good enough in need. *)
AnyCachedFallback(s, build) ==
  IF lock[s] # Nil /\ build # Nil
  THEN Outcome(s, "cached-fallback", lock[s])
  ELSE Outcome(s, "failed", Nil)

(* What is in the directory of the TARGET version, when it has the digest  *)
(* of the locked one; `build` is what that directory holds.                *)
CachedFallback(s, build) ==
  IF /\ lock[s] # Nil
     /\ build # Nil
     /\ Digest(command.target[s], build) = Locked(s)
  THEN Outcome(s, "cached-fallback", lock[s])
  ELSE Outcome(s, "failed", Nil)

(* No answer, no such tag, or a tarball that validation refuses. *)
FetchFails(s) ==
  /\ Installing(s)
  /\ command.target[s] # Nil
  /\ ~CacheHit(s)
  /\ CachedFallback(s, cache[s][command.target[s]])
  /\ UNCHANGED <<tags, cache, lock, wanted, agent, events>>

(* materializeSkill removes the directory of the target version first ... *)
Fetch(s) ==
  /\ Installing(s)
  /\ command.target[s] # Nil
  /\ ~CacheHit(s)
  /\ LET b == tags[s][command.target[s]] IN
       /\ b \notin Invalid \cup {Nil}
       /\ command' = [command EXCEPT !.fetched = [skill |-> s, build |-> b]]
  /\ cache' = [cache EXCEPT ![s][command.target[s]] = Nil]
  /\ UNCHANGED <<tags, lock, wanted, agent, events>>

(* ... and renames the staged copy into its place; only then is the digest *)
(* compared with the lock.                                                 *)
Place ==
  /\ Running
  /\ command.fetched # Nil
  /\ LET s == command.fetched.skill
         b == command.fetched.build
         v == command.target[s] IN
       /\ cache' = [cache EXCEPT ![s][v] = b]
       /\ IF Trusted(s, v, b)
          THEN Outcome(s, "ok", [version |-> v, build |-> b])
          ELSE CachedFallback(s, b)
  /\ UNCHANGED <<tags, lock, wanted, agent, events>>

RequiredFailed(c) == \E s \in Required : c.state[s] = "failed"

(* A refresh writes (and prunes) the lock, whatever failed; the command    *)
(* line ends here (its exit code tells of failed required skills), the     *)
(* boot goes on to load.                                                   *)
FinishInstall ==
  /\ Running
  /\ command.stage = "install"
  /\ command.fetched = Nil
  /\ command.todo = {}
  /\ lock' = IF command.mode = "refresh" THEN command.next ELSE lock
  /\ command' = IF command.kind = "boot" THEN [command EXCEPT !.stage = "load"]
                ELSE NoCommand
  /\ UNCHANGED <<tags, cache, wanted, agent, events>>

-----------------------------------------------------------------------------
(* ElliottRuntime.start after the install, and stop *)

Directories == {s \in Skills : command.state[s] \in {"ok", "cached-fallback"}}

Content(s) == cache[s][command.target[s]]

(* loadPackageAt of every directory: one that cannot be loaded ends the    *)
(* boot.                                                                   *)
Load ==
  /\ Running
  /\ command.stage = "load"
  /\ IF \E s \in Directories : Content(s) \in Unloadable \cup {Nil}
     THEN command' = NoCommand
     ELSE command' = [command EXCEPT !.stage = "register"]
  /\ UNCHANGED <<tags, cache, lock, wanted, agent, events>>

(* register() of a skill may throw, which drops the skill and no more; a   *)
(* gateway or service whose start() throws is only reported.               *)
Start(dropped) ==
  /\ Running
  /\ command.stage = "register"
  /\ dropped \subseteq Directories
  /\ agent' = [up |-> TRUE, ready |-> ~RequiredFailed(command),
               loaded |-> Directories, live |-> Directories \ dropped]
  /\ command' = NoCommand
  /\ UNCHANGED <<tags, cache, lock, wanted, events>>

(* Two skills that export one tool or facility, a snapshot that cannot be  *)
(* built, the port taken: start() throws and the process ends.             *)
StartFails ==
  /\ Running
  /\ command.stage = "register"
  /\ command' = NoCommand
  /\ UNCHANGED <<tags, cache, lock, wanted, agent, events>>

Stop ==
  /\ agent.up
  /\ agent' = Stopped
  /\ UNCHANGED <<tags, cache, lock, wanted, command, events>>

Killed ==
  /\ Running
  /\ command' = NoCommand
  /\ UNCHANGED <<tags, cache, lock, wanted, agent, events>>

DeploymentNext ==
  \/ \E s \in Skills, v \in Versions, b \in Builds \cup {Nil} :
       PointTag(s, v, b) \/ AlterCache(s, v, b)
  \/ \E s \in Skills, v \in Versions \cup {Nil} : Repin(s, v)
  \/ \E kind \in {"cli", "boot"}, mode \in {"frozen", "refresh"}, l \in BOOLEAN :
       Begin(kind, mode, l)
  \/ \E s \in Skills :
       UseCache(s) \/ Unresolved(s) \/ FetchFails(s) \/ Fetch(s)
  \/ Place \/ FinishInstall \/ Load
  \/ \E dropped \in SUBSET Skills : Start(dropped)
  \/ StartFails \/ Stop \/ Killed

DeploymentSpec == DeploymentInit /\ [][DeploymentNext]_deploymentVars

-----------------------------------------------------------------------------
(* Properties *)

(* What a frozen command installs under a locked version is, byte for byte,*)
(* what was locked, and a locked version whose cached directory is intact  *)
(* is installed whatever the registry does (installer.ts compares the      *)
(* digests of cached and fetched directories; install-registry-skills.md,  *)
(* "If the registry is unreachable at boot").                              *)
InstallsWhatIsLocked ==
  Running /\ command.mode = "frozen" /\ command.stage # "install" =>
    \A s \in Skills :
      LET Lockable == lock[s] # Nil /\ wanted[s] \in {Nil, lock[s].version} IN
      /\ s \in Directories =>
           \/ Lockable /\ Digest(command.target[s], Content(s)) = Locked(s)
           \/ wanted[s] # Nil /\ ~Lockable
      /\ Lockable /\ cache[s][lock[s].version] = lock[s].build =>
           s \in Directories

(* No command takes the bytes away that the lock vouches for, so that a    *)
(* failed or killed one leaves what the next boot falls back to; and no    *)
(* command re-locks a version it finds locked with other bytes.            *)
LockedBytesSafe ==
  [][\A s \in Skills : lock[s] # Nil =>
       /\ Running /\ cache[s][lock[s].version] = lock[s].build =>
            cache'[s][lock[s].version] = lock[s].build
       /\ lock'[s] # Nil /\ lock'[s].version = lock[s].version =>
            lock'[s] = lock[s]]_deploymentVars
=============================================================================
