--------------------------- MODULE KernelComponents ---------------------------
(***************************************************************************)
(* The parts of the kernel that keep components and carry turns            *)
(* (src/core, src/gateway, src/loop, src/agent): the registry and its       *)
(* precedence, discovery and its validation cache, the lifecycle of an     *)
(* instance and of the kernel, Snapshots, the gateway pipeline, the turn   *)
(* loop and its prompt, curated memory and the composition of an agent.    *)
(* Where an operation waits, its step function gives the states that may   *)
(* follow, so that overlapping operations can be explored.                 *)
(***************************************************************************)
EXTENDS Integers, Sequences, FiniteSets, FiniteSetsExt, SequencesExt

Nothing == "none"

---------------------------------------------------------------------------
(* Registry: the entries of one reference, in the order they were made     *)

Precedence ==
  <<"invocation", "session", "agent", "workspace", "user", "organization", "builtin">>
SecurityCritical == {"policy", "evaluator", "gateway", "model-provider"}
RankOf(e) == CHOOSE n \in DOMAIN Precedence : Precedence[n] = e.scope.level
Wide(e) == e.scope.level \in {"organization", "builtin"}
IsPinned(entries) == \E i \in DOMAIN entries : entries[i].pinned \/ entries[i].kind \in SecurityCritical

\* register: refuses a scope that is taken.
Accepts(entries, e) == \A i \in DOMAIN entries : entries[i].scope # e.scope

\* resolveEntries: the narrowest, the first made of equals; of a pinned one
\* the narrowest of the wide ones, with no narrower one beside it.
Narrowest(entries) ==
  entries[CHOOSE i \in DOMAIN entries : \A j \in DOMAIN entries :
            \/ RankOf(entries[i]) < RankOf(entries[j])
            \/ RankOf(entries[i]) = RankOf(entries[j]) /\ i <= j]
Resolve(entries) ==
  LET wide == SelectSeq(entries, Wide) IN
  CASE entries = <<>> -> [kind |-> "unknown"]
    [] ~ IsPinned(entries) -> [kind |-> "selected", entry |-> Narrowest(entries)]
    [] Len(wide) # Len(entries) -> [kind |-> "shadowed"]
    [] OTHER -> [kind |-> "selected", entry |-> Narrowest(wide)]

\* resolveManifest, search and prepareCall over a registry of several names.
Usable(entries) ==
  LET r == Resolve(entries) IN r.kind = "selected" /\ r.entry.availability = "available"
Search(registry) ==
  IF \E ref \in DOMAIN registry : Resolve(registry[ref]).kind = "shadowed"
  THEN [kind |-> "fails"]
  ELSE [kind |-> "found", refs |-> {ref \in DOMAIN registry : registry[ref] # <<>>}]
Prepares(entries, protocol) == Usable(entries) /\ protocol \in Resolve(entries).entry.protocols

---------------------------------------------------------------------------
(* Schemas and discovery.  The truth holds the packages, schemas and roots *)
(* that pass the checks of a version of the logic; the isolation floor is  *)
(* compared besides.                                                       *)

\* register: a kind keeps the schema it was first given.
AcceptsSchema(schemas, s) == \A t \in schemas : t.kind = s.kind => t.digest = s.digest

Key(d, logic) == [package |-> d.package, schemas |-> d.schemas, root |-> d.root, logic |-> logic]
Passes(d, logic, truth) == <<d.package, d.schemas, d.root, logic>> \in truth /\ d.isolation >= d.floor

\* scan of one descriptor, the record of a quarantine accepted or not.
NoneFound == [refs |-> [ref \in {} |-> Nothing], cache |-> {}]
Found(s, ref) == IF ref \in DOMAIN s.refs THEN s.refs[ref] ELSE "unknown"
Cached(s, d, logic) ==
  LET hits == {e \in s.cache : e.key = Key(d, logic)} IN
  IF hits = {} THEN Nothing ELSE (CHOOSE e \in hits : TRUE).verdict
WithVerdict(s, d, logic, verdict) ==
  [refs |-> [r \in DOMAIN s.refs \union {d.ref} |->
               IF r = d.ref THEN (IF verdict = "valid" THEN "available" ELSE "unavailable")
               ELSE s.refs[r]],
   cache |-> {e \in s.cache : e.key.package # d.package}
             \union {[key |-> Key(d, logic), verdict |-> verdict, contract |-> d.contract]}]
Registered(s, d, verdict) ==
  [s EXCEPT !.refs = WithVerdict(s, d, "any", verdict).refs]
Scan(s, d, logic, truth, recorded) ==
  LET cached == Cached(s, d, logic) IN
  CASE cached # Nothing -> Registered(s, d, cached)
    [] cached = Nothing /\ Passes(d, logic, truth) -> WithVerdict(s, d, logic, "valid")
    [] OTHER -> IF recorded THEN WithVerdict(s, d, logic, "quarantined") ELSE s

\* instantiate: what is loaded must have the contract that was declared.
Instantiate(s, d, logic, loaded, recorded) ==
  IF Found(s, d.ref) # "available" \/ loaded = d.contract \/ ~ recorded THEN s
  ELSE WithVerdict(s, d, logic, "quarantined")
Runs(s, d, loaded) == Found(s, d.ref) = "available" /\ loaded = d.contract

---------------------------------------------------------------------------
(* The lifecycle of an instance: opening and closing count the hooks that  *)
(* are under way, given how often its grant was released.                  *)

LifecycleTransitions ==
  [created |-> {"opening", "failed"}, opening |-> {"open", "failed"}, open |-> {"draining", "failed"},
   draining |-> {"closed", "failed"}, closed |-> {}, failed |-> {}]
Created == [at |-> "created", opening |-> 0, closing |-> 0, released |-> FALSE, given |-> 0]
Release(s) == IF s.released THEN s ELSE [s EXCEPT !.released = TRUE, !.given = @ + 1]
May(s, to) == to \in LifecycleTransitions[s.at]

OpenStarts(s) == IF May(s, "opening") THEN {[s EXCEPT !.at = "opening", !.opening = @ + 1]} ELSE {}
OpenEnds(s) ==
  IF s.opening = 0 THEN {}
  ELSE LET after == [s EXCEPT !.opening = @ - 1] IN
       {[after EXCEPT !.at = "open"], Release([after EXCEPT !.at = "failed"])}
Drains(s) == IF May(s, "draining") THEN {[s EXCEPT !.at = "draining"]} ELSE {}
CloseStarts(s) ==
  IF s.at \in {"open", "draining"} THEN {[s EXCEPT !.at = "draining", !.closing = @ + 1]} ELSE {}
CloseEnds(s) ==
  IF s.closing = 0 THEN {}
  ELSE LET after == [s EXCEPT !.closing = @ - 1] IN
       {Release([after EXCEPT !.at = "closed"]), Release([after EXCEPT !.at = "failed"])}
Fails(s) == IF May(s, "failed") THEN {Release([s EXCEPT !.at = "failed"])} ELSE {}

InstanceSteps(s) ==
  OpenStarts(s) \union OpenEnds(s) \union Drains(s) \union CloseStarts(s) \union CloseEnds(s) \union Fails(s)

---------------------------------------------------------------------------
(* Snapshots and the kernel                                                *)

\* create: in memory first, then on file, where it is under a temporary name
\* until it is whole; "fails" leaves the process up, "stops" ends it.
NoSnapshots == [memory |-> {}, file |-> {}, told |-> {}, up |-> TRUE]
SnapshotId(input, now) == <<input, now>>
Create(s, input, now, end) ==
  LET id == SnapshotId(input, now) IN
  CASE ~ s.up -> s
    [] end = "written" -> [s EXCEPT !.memory = @ \union {id}, !.file = @ \union {id}, !.told = @ \union {id}]
    [] end = "fails" -> [s EXCEPT !.memory = @ \union {id}]
    [] end = "stops" -> [s EXCEPT !.memory = {}, !.up = FALSE]
\* loadSnapshots: every file, or none when one of them cannot be read.
Reopen(s, damaged) ==
  IF s.file \intersect damaged # {} THEN [s EXCEPT !.memory = {}, !.up = FALSE]
  ELSE [s EXCEPT !.memory = s.file, !.up = TRUE]

\* start and stop look at what they set only after their record was written.
NewKernel == [started |-> FALSE, starting |-> 0, stopping |-> 0, starts |-> 0, stops |-> 0]
KernelSteps(k) ==
  (IF ~ k.started THEN {[k EXCEPT !.starting = @ + 1]} ELSE {[k EXCEPT !.stopping = @ + 1]})
  \union (IF k.starting > 0
          THEN {[k EXCEPT !.starting = @ - 1, !.starts = @ + 1, !.started = TRUE],
                [k EXCEPT !.starting = @ - 1]} ELSE {})
  \union (IF k.stopping > 0
          THEN {[k EXCEPT !.stopping = @ - 1, !.stops = @ + 1, !.started = FALSE],
                [k EXCEPT !.stopping = @ - 1]} ELSE {})

---------------------------------------------------------------------------
(* The gateway pipeline.  A delivery has a key and what the checks will    *)
(* find; a state says how far each one is and which keys were seen.        *)

\* inbound, up to the first thing it waits for, after the checks, and at the
\* end of the quarantine of its attachments.
Verdict(d) ==
  CASE ~ d.verified -> "unverified"
    [] d.principal = Nothing -> "unknown-identity"
    [] ~ d.authorized -> "unauthorized"
    [] OTHER -> "accepted"
Arrives(s, i) ==
  IF s.at[i] # "new" THEN {}
  ELSE {[s EXCEPT !.at[i] = IF ~ s.of[i].routed THEN "unauthorized"
                            ELSE IF s.of[i].key \in s.seen THEN "duplicate" ELSE "checking"]}
Checked(s, i) ==
  IF s.at[i] # "checking" THEN {}
  ELSE IF Verdict(s.of[i]) # "accepted" THEN {[s EXCEPT !.at[i] = Verdict(s.of[i])]}
  ELSE {[s EXCEPT !.at[i] = "quarantining", !.seen = @ \union {s.of[i].key}]}
Quarantined(s, i) ==
  IF s.at[i] # "quarantining" THEN {} ELSE {[s EXCEPT !.at[i] = end] : end \in {"accepted", "failed"}}
InboundSteps(s) ==
  UNION {Arrives(s, i) \union Checked(s, i) \union Quarantined(s, i) : i \in DOMAIN s.at}

\* outbound: what was done, and whether the caller was told so, when the step
\* named fails.
OutboundSteps == <<"policy", "intent", "deliver", "receipt">>
Outbound(routed, failing) ==
  LET stop == IF ~ routed THEN 1
              ELSE IF failing = Nothing THEN 5
              ELSE CHOOSE n \in DOMAIN OutboundSteps : OutboundSteps[n] = failing
  IN  [done |-> {OutboundSteps[n] : n \in 1..(stop - 1)}, told |-> stop = 5]

---------------------------------------------------------------------------
(* The turn loop                                                           *)

Classes == 0..3
\* run: an answer, silence, or no route, with the tools executed so far; the
\* end of an inference, and of each tool, is "done", "no-route" or "throws"
\* (which a missing Snapshot or a refused record is too, before it).
Turn(inference, tools, text) ==
  LET failing == {i \in DOMAIN tools : tools[i] # "done"}
      last    == IF failing = {} THEN Len(tools) ELSE Min(failing)
      end     == IF inference # "done" THEN inference
                 ELSE IF failing = {} THEN "done" ELSE tools[last]
  IN  [executed |-> IF inference # "done" THEN 0 ELSE IF failing = {} THEN last ELSE last - 1,
       disposition |-> CASE end = "no-route" -> "blocked-no-route"
                         [] end = "throws" -> "throws"
                         [] OTHER -> IF text THEN "respond" ELSE "silent"]

\* compactCausalBlocks: the summary stands for what it replaces.
MaximumClass(classes) == IF classes = {} THEN 0 ELSE Max(classes)
Compact(blocks, retain) ==
  IF Len(blocks) <= retain THEN blocks
  ELSE LET boundary == Len(blocks) - retain IN
       <<MaximumClass({blocks[i] : i \in 1..boundary})>> \o SubSeq(blocks, boundary + 1, Len(blocks))

\* assemblePrompt: by purpose, those of a purpose in the order given; what
\* precedes the first memory or evidence is the part that can be cached.
PurposeOrder ==
  <<"constitution", "runtime", "operator", "workspace", "interaction-profile",
    "task", "skill", "memory", "evidence">>
Volatile(segment) == segment.purpose \in {"memory", "evidence"}
AssemblePrompt(segments) ==
  LET ordered == FlattenSeq([n \in DOMAIN PurposeOrder |->
                               SelectSeq(segments, LAMBDA s : s.purpose = PurposeOrder[n])])
      volatile == {i \in DOMAIN ordered : Volatile(ordered[i])}
      breakpoint == IF volatile = {} THEN Len(ordered) ELSE Min(volatile) - 1
  IN  [stable |-> SubSeq(ordered, 1, breakpoint),
       volatile |-> SubSeq(ordered, breakpoint + 1, Len(ordered)),
       class |-> MaximumClass(UNION {{ordered[i].class} \union ordered[i].tags : i \in DOMAIN ordered})]

---------------------------------------------------------------------------
(* Curated memory: two documents, each with a budget.  A text is the set   *)
(* of its words, its length their number.                                  *)

\* stamp: in standard posture everything is internal.
Stamp(class, posture) ==
  [classification |-> IF posture = "standard" THEN "internal" ELSE class, writtenUnder |-> posture]
CuratedEntry(m, posture) ==
  [document |-> m.document, words |-> m.words, stamp |-> Stamp(m.class, posture)]
Matching(entries, m) ==
  {i \in DOMAIN entries : entries[i].document = m.document /\ m.match \in entries[i].words}
\* apply: the first entry that matches; nothing when none does.
Applied(entries, m, posture) ==
  LET hits == Matching(entries, m) IN
  CASE m.action = "add" -> Append(entries, CuratedEntry(m, posture))
    [] m.action # "add" /\ hits = {} -> entries
    [] m.action = "remove" /\ hits # {} -> RemoveAt(entries, Min(hits))
    [] m.action = "replace" /\ hits # {} -> ReplaceAt(entries, Min(hits), CuratedEntry(m, posture))
RenderedLength(entries, document) ==
  FoldSeq(LAMBDA e, n : n + Cardinality(e.words), 0, SelectSeq(entries, LAMBDA e : e.document = document))
\* mutate: refused over the budget of its document; saved after it is in force.
Mutate(s, m, posture, budget, saves) ==
  LET next == Applied(s.entries, m, posture) IN
  IF RenderedLength(next, m.document) > budget[m.document] THEN [s EXCEPT !.told = FALSE]
  ELSE [entries |-> next, stored |-> IF saves THEN next ELSE s.stored, told |-> saves]

---------------------------------------------------------------------------
(* The composition of an agent.  A ceiling holds whole capabilities and    *)
(* capabilities at a resource.                                             *)

NarrowCapability(ceiling, request) ==
  IF <<request.capability>> \in ceiling THEN request.resources
  ELSE {r \in request.resources : <<request.capability, r>> \in ceiling}
\* compose: a request of which nothing is left is dropped.
Composes(config) ==
  /\ config.defaultProfile <= config.maximumProfile
  /\ config.mode = "proposals" /\ ~ config.autoApply
  /\ \A child \in config.children : child.resolved
Effective(config, child) ==
  {[capability |-> q.capability, resources |-> NarrowCapability(config.ceiling, q)] :
     q \in {r \in child.requests : \/ <<r.capability>> \in config.ceiling
                                   \/ NarrowCapability(config.ceiling, r) # {}}}
=============================================================================
