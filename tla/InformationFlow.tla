--------------------------- MODULE InformationFlow ---------------------------
(***************************************************************************)
(* The kernel's context frames and what may pass between them: each frame  *)
(* carries the highest classification of what was ever put into it, and    *)
(* the output of a frame enters a less classified one only through the     *)
(* sanitizer.                                                              *)
(*                                                                         *)
(* A merge is decided in one step and applied in a later one: it waits for *)
(* the sanitizer (a cache, a schema, an evaluator, a human) and for the    *)
(* merges queued before it, while frames go on growing.                    *)
(*                                                                         *)
(* Abstractions: a frame's messages are the classifications of what they   *)
(* hold, sanitized output left out; an output's schema, policy and         *)
(* sanitizer digests are part of its content.                              *)
(***************************************************************************)
EXTENDS Naturals, Sequences

CONSTANTS
  Frames,         \* frame ids
  Merges,         \* merge requests
  Contents,       \* what the sanitizer tells apart of an output
  SchemaClears,   \* contents their compiled schema accepts
  AppendSafe,     \* contents of an append-safe schema
  Standard,       \* the standard posture: one classification only
  MergeLimit,     \* merges a source frame may ask for
  Nothing            \* no frame, no parent, no cached decision

VARIABLES
  frame,          \* KernelContextManager.#frames
  active,         \* KernelContextManager.#active
  mergeCount,     \* KernelContextManager.#mergeCounts
  queue,          \* KernelContextManager.#applyQueues, by target
  merge,          \* the state of each merge request
  cache           \* SanitizerPipeline.#cache

flowVars == <<frame, active, mergeCount, queue, merge, cache>>

Levels == 0..3    \* public, internal, confidential, restricted

Higher(a, b) == IF a >= b THEN a ELSE b

\* Under the standard posture everything is internal.
Classification(level) == IF Standard THEN 1 ELSE level

RequiresDeclassification(source, target) == source > target

\* Only an append-safe output may be applied whatever happened to its source.
IsStale(m) ==
  /\ ~(merge[m].commutative /\ merge[m].appendSafe)
  /\ merge[m].revision # frame[merge[m].source].revision

NewFrame(parent, level) ==
  [parent |-> parent, class |-> Classification(level), holds |-> {}, revision |-> 0]

\* What wire() makes of frame f: it holds more and is classified no lower.
Wired(f, level, holds) ==
  [frame EXCEPT ![f] = [parent |-> frame[f].parent,
                        class |-> Classification(Higher(frame[f].class, level)),
                        holds |-> frame[f].holds \union holds,
                        revision |-> frame[f].revision + 1]]

NoMerge == [at |-> "idle"]

FlowInit ==
  \E f \in Frames :
    /\ frame = [g \in Frames |-> IF g = f THEN NewFrame(Nothing, 1) ELSE Nothing]
    /\ active = f
    /\ mergeCount = [g \in Frames |-> 0]
    /\ queue = [g \in Frames |-> <<>>]
    /\ merge = [m \in Merges |-> NoMerge]
    /\ cache = [c \in Contents |-> Nothing]

\* fork(): never less classified than the frame it leaves.
Fork(f, level) ==
  /\ frame[f] = Nothing
  /\ frame' = [frame EXCEPT ![f] =
       NewFrame(active, Higher(frame[active].class, Classification(level)))]
  /\ active' = f
  /\ UNCHANGED <<mergeCount, queue, merge, cache>>

\* wire(): the caller declares the classification of what it adds.
Wire(f, level) ==
  /\ frame[f] # Nothing
  /\ frame' = Wired(f, level, {level})
  /\ UNCHANGED <<active, mergeCount, queue, merge, cache>>

\* An output is drawn from a frame as it is at some revision.
Draw(m, source, target, level, content, commutative) ==
  /\ merge[m] = NoMerge
  /\ frame[source] # Nothing /\ frame[target] # Nothing
  /\ level <= frame[source].class
  /\ merge' = [merge EXCEPT ![m] =
       [at |-> "drawn", source |-> source, target |-> target, level |-> level,
        revision |-> frame[source].revision, content |-> content,
        commutative |-> commutative, sanitized |-> FALSE, appendSafe |-> FALSE]]
  /\ UNCHANGED <<frame, active, mergeCount, queue, cache>>

Settle(m) == merge' = [merge EXCEPT ![m] = NoMerge]

\* merge() beyond the limit of its source is answered as blocked.
MergeOverLimit(m) ==
  /\ merge[m].at = "drawn"
  /\ mergeCount[merge[m].source] >= MergeLimit
  /\ Settle(m)
  /\ UNCHANGED <<frame, active, mergeCount, queue, cache>>

Counted(m) ==
  /\ merge[m].at = "drawn"
  /\ mergeCount[merge[m].source] < MergeLimit
  /\ mergeCount' = [mergeCount EXCEPT ![merge[m].source] = @ + 1]

\* merge() whose source is no more classified than its target is queued as it is.
MergeRaw(m) ==
  /\ Counted(m)
  /\ ~RequiresDeclassification(frame[merge[m].source].class, frame[merge[m].target].class)
  /\ merge' = [merge EXCEPT ![m].at = "queued"]
  /\ queue' = [queue EXCEPT ![merge[m].target] = Append(@, m)]
  /\ UNCHANGED <<frame, active, cache>>

MergeDown(m) ==
  /\ Counted(m)
  /\ RequiresDeclassification(frame[merge[m].source].class, frame[merge[m].target].class)
  /\ merge' = [merge EXCEPT ![m].at = "preflight"]
  /\ UNCHANGED <<frame, active, queue, cache>>

-----------------------------------------------------------------------------
(* The sanitizer.  Its record is observational: if it is refused, the merge  *)
(* fails after the decision was cached (Fails).                              *)

Approve(m, appendSafe) ==
  /\ merge' = [merge EXCEPT ![m].at = "queued", ![m].sanitized = TRUE,
                            ![m].appendSafe = appendSafe]
  /\ queue' = [queue EXCEPT ![merge[m].target] = Append(@, m)]

Decision(approved, appendSafe) == [approved |-> approved, appendSafe |-> appendSafe]

\* A cached decision is returned as it is.
PreflightCached(m) ==
  LET cached == cache[merge[m].content]
  IN  /\ merge[m].at = "preflight"
      /\ cached # Nothing
      /\ \/ cached.approved /\ Approve(m, cached.appendSafe)
         \/ ~cached.approved /\ Settle(m) /\ UNCHANGED queue
      /\ UNCHANGED <<frame, active, mergeCount, cache>>

\* A schema that accepts the output decides alone.
PreflightSchema(m) ==
  LET content == merge[m].content
  IN  /\ merge[m].at = "preflight"
      /\ cache[content] = Nothing
      /\ content \in SchemaClears
      /\ cache' = [cache EXCEPT ![content] = Decision(TRUE, content \in AppendSafe)]
      /\ Approve(m, content \in AppendSafe)
      /\ UNCHANGED <<frame, active, mergeCount>>

PreflightPasses(m) ==
  /\ merge[m].at = "preflight"
  /\ cache[merge[m].content] = Nothing
  /\ merge[m].content \notin SchemaClears
  /\ merge' = [merge EXCEPT ![m].at = "evaluating"]
  /\ UNCHANGED <<frame, active, mergeCount, queue, cache>>

\* The evaluator rejects: cached.  Its approval alone is not enough.
EvaluatorRejects(m) ==
  /\ merge[m].at = "evaluating"
  /\ cache' = [cache EXCEPT ![merge[m].content] = Decision(FALSE, FALSE)]
  /\ Settle(m)
  /\ UNCHANGED <<frame, active, mergeCount, queue>>

EvaluatorApproves(m) ==
  /\ merge[m].at = "evaluating"
  /\ merge' = [merge EXCEPT ![m].at = "reviewing"]
  /\ UNCHANGED <<frame, active, mergeCount, queue, cache>>

\* A human decides about this output only: nothing is cached.
HumanApproves(m) ==
  /\ merge[m].at = "reviewing"
  /\ Approve(m, FALSE)
  /\ UNCHANGED <<frame, active, mergeCount, cache>>

HumanRejects(m) ==
  /\ merge[m].at = "reviewing"
  /\ Settle(m)
  /\ UNCHANGED <<frame, active, mergeCount, queue, cache>>

\* The evaluator, the reviewer or the audit log throws, or a batch is malformed.
Fails(m) ==
  /\ merge[m].at \in {"preflight", "evaluating", "reviewing"}
  /\ Settle(m)
  /\ UNCHANGED <<frame, active, mergeCount, queue, cache>>

-----------------------------------------------------------------------------
\* The merges of a target are applied one by one, each after the record of the
\* one before it.
IsNext(m) ==
  /\ merge[m].at = "queued"
  /\ queue[merge[m].target] # <<>>
  /\ Head(queue[merge[m].target]) = m

Dequeue(m) == queue' = [queue EXCEPT ![merge[m].target] = Tail(@)]

ApplyStale(m) ==
  /\ IsNext(m)
  /\ IsStale(m)
  /\ Dequeue(m)
  /\ Settle(m)
  /\ UNCHANGED <<frame, active, mergeCount, cache>>

\* The target keeps its own classification.
Apply(m) ==
  /\ IsNext(m)
  /\ ~IsStale(m)
  /\ frame' = Wired(merge[m].target, frame[merge[m].target].class,
                    IF merge[m].sanitized THEN {} ELSE {merge[m].level})
  /\ merge' = [merge EXCEPT ![m].at = "recording"]
  /\ UNCHANGED <<active, mergeCount, queue, cache>>

\* Recorded, or refused: the target holds the output either way.
Recorded(m) ==
  /\ merge[m].at = "recording"
  /\ Dequeue(m)
  /\ Settle(m)
  /\ UNCHANGED <<frame, active, mergeCount, cache>>

FlowNext ==
  \/ \E f \in Frames, level \in Levels : Fork(f, level) \/ Wire(f, level)
  \/ \E m \in Merges, s, t \in Frames, level \in Levels, c \in Contents, commutative \in BOOLEAN :
       Draw(m, s, t, level, c, commutative)
  \/ \E m \in Merges :
       \/ MergeOverLimit(m)
       \/ MergeRaw(m)
       \/ MergeDown(m)
       \/ PreflightCached(m)
       \/ PreflightSchema(m)
       \/ PreflightPasses(m)
       \/ EvaluatorRejects(m)
       \/ EvaluatorApproves(m)
       \/ HumanApproves(m)
       \/ HumanRejects(m)
       \/ Fails(m)
       \/ ApplyStale(m)
       \/ Apply(m)
       \/ Recorded(m)

FlowSpec == FlowInit /\ [][FlowNext]_flowVars
=============================================================================
