-------------------------------- MODULE Turns --------------------------------
(***************************************************************************)
(* Conversation turns: how an inbound message becomes an answer            *)
(* (src/runtime/app.ts, agent.ts), which content the conversation is bound *)
(* to (conversation-snapshots.ts, the agent's caches, the evidence's), how *)
(* every tool call passes the governor and its kill switch                 *)
(* (governance/governor.ts), and what is recorded of the turn              *)
(* (evolution-evidence.ts).                                                *)
(*                                                                         *)
(* JavaScript runs one handler up to its next await, so an action is what  *)
(* happens between two awaits of one handler.  The awaits are: the gateway *)
(* opening a response, the model, an observer before a tool call, the      *)
(* audit append, the tool, and the gateway sending the reply.              *)
(*                                                                         *)
(* Content is a revision number per evolution target: "prompt" stands for  *)
(* the persona and skills the system prompt is made of, "tools" for the    *)
(* tool descriptions.  A Snapshot id is the content it names.  A release   *)
(* or a rollback (EvolutionRelease) appears as its two visible steps, the  *)
(* activation of the bytes and the publication of the Snapshot id, which   *)
(* those of others may come between.  The audit log is the FIFO queue of   *)
(* the appends that have not settled (RecordAppender); a failed append is  *)
(* reported and ignored, so how an append settles makes no difference      *)
(* here, and neither does the record of a tool's result, which is          *)
(* observational.  A round asks for a tool at most once.                   *)
(***************************************************************************)
EXTENDS Naturals, Sequences, FiniteSets

CONSTANTS
  Messages,               \* inbound messages, by id
  Conversation,           \* the gateway:channel:thread of a message
  Channel,                \* the gateway:channel of a message
  Retained,               \* conversations whose history the runtime keeps: those
                          \* of a gateway that keeps none (historyMode)
  Tools,                  \* the names the model may ask for
  Known,                  \* the tools of the runtime
  Evolving,               \* the tools that are evolution targets
  Released,               \* the kinds of target that releases are of
  Denied,                 \* the tools the policy denies
  Controls,               \* requests to the governance control plane
  Operation,              \* the operation of a request
  MaxRounds,              \* model calls in a turn (agent.ts: 8)
  MaxHistory,             \* entries a conversation keeps (agent.ts: 40)
  MaxRevisions            \* bound on the revisions activated

Targets == {"prompt", "tools"}
Conversations == {Conversation[d] : d \in Messages}
Channels == {Channel[d] : d \in Messages}

Operations == [kind : {"freeze", "unfreeze"}]
              \union [kind : {"disable", "enable"}, tool : Tools]

ASSUME ShapeAssumption ==
  /\ Conversation \in [Messages -> Conversations]
  /\ Channel \in [Messages -> Channels]
  /\ Retained \subseteq Conversations
  /\ Released \subseteq Targets
  /\ IsFiniteSet(Tools)
  /\ Known \subseteq Tools /\ Evolving \subseteq Known /\ Denied \subseteq Tools
  /\ Operation \in [Controls -> Operations]

ASSUME BoundsAssumption ==
  MaxRounds \in Nat \ {0} /\ MaxHistory \in Nat \ {0} /\ MaxRevisions \in Nat

Content == [Targets -> 0..MaxRevisions]
FirstContent == [t \in Targets |-> 0]

\* A model message, by the turn it belongs to: the user's text, the model's
\* calls, the output of one call, or the model's answer.
Entry == [of : Messages, part : {"user", "asked", "output", "answer"}]
Said(d, part) == [of |-> d, part |-> part]

VARIABLES
  stage,                  \* where the handler of a message is
  inflight,               \* conversations with a turn under way
  snapshots,              \* RuntimeConversationSnapshots: conversation -> Snapshot
  pinnedTargets,          \* evidence: conversation -> attributed content
  pinnedTools,            \* agent: conversation -> tool descriptions shown
  personas,               \* agent: conversation -> persona shown
  history,                \* agent: conversation -> entries remembered
  round,                  \* model calls made by a turn
  said,                   \* the entries of a turn's next model request
  call,                   \* the calls of a turn's current round
  run,                    \* the run recorded for a turn
  latest,                 \* evidence: channel -> the run feedback is about
  frozen, disabled,       \* the governor's kill switch
  control,                \* the control-plane requests
  waiting,                \* audit appends that have not settled, in order
  active,                 \* the content active now
  snapshot,               \* the runtime's current Snapshot id
  activated,              \* the content of every revision activated
  unpublished,            \* content activated, its Snapshot id not published
  revisions               \* revisions activated so far

bindings == <<snapshots, pinnedTargets, pinnedTools, personas>>
turnVars == <<stage, inflight, bindings, history, round, said>>
evidenceVars == <<run, latest>>
switchVars == <<frozen, disabled, control>>
contentVars == <<active, snapshot, activated, unpublished, revisions>>
vars == <<turnVars, call, evidenceVars, switchVars, waiting, contentVars>>

InTurn == {"asking", "calling", "replying", "apologizing"}
Turning(c) == {d \in Messages : Conversation[d] = c /\ stage[d] \in InTurn}

Put(map, key, value) ==
  [k \in DOMAIN map \union {key} |-> IF k = key THEN value ELSE map[k]]
Drop(map, key) == [k \in DOMAIN map \ {key} |-> map[k]]

NoCalls == [t \in Tools |-> "none"]
NoRun == [status |-> "none", snapshot |-> FirstContent, targets |-> FirstContent]

Init ==
  /\ stage = [d \in Messages |-> "unsent"]
  /\ inflight = {}
  /\ snapshots = <<>> /\ pinnedTargets = <<>>
  /\ pinnedTools = <<>> /\ personas = <<>>
  /\ history = [c \in Conversations |-> <<>>]
  /\ round = [d \in Messages |-> 0]
  /\ said = [d \in Messages |-> <<>>]
  /\ call = [d \in Messages |-> NoCalls]
  /\ run = [d \in Messages |-> NoRun]
  /\ latest = <<>>
  /\ frozen = FALSE /\ disabled = {}
  /\ control = [o \in Controls |-> "unsent"]
  /\ waiting = <<>>
  /\ active = FirstContent /\ snapshot = FirstContent
  /\ activated = {FirstContent} /\ unpublished = {} /\ revisions = 0

-----------------------------------------------------------------------------
(* Content: releases and rollbacks, which may overlap.                      *)

\* The revision of a release, made over the active one, becomes active.
Activate(t) ==
  /\ revisions < MaxRevisions
  /\ revisions' = revisions + 1
  /\ active' = [active EXCEPT ![t] = revisions + 1]
  /\ activated' = activated \union {active'}
  /\ unpublished' = unpublished \union {active'}
  /\ UNCHANGED <<turnVars, call, evidenceVars, switchVars, waiting, snapshot>>

\* A rollback activates a revision that was active before.
Restore ==
  /\ active' \in activated \ {active}
  /\ unpublished' = unpublished \union {active'}
  /\ UNCHANGED <<turnVars, call, evidenceVars, switchVars, waiting, snapshot,
                 activated, revisions>>

\* The release or rollback has bumped the epoch, recorded itself and stored
\* its run, and publishes its Snapshot id; one that fails there never does.
Publish ==
  /\ snapshot' \in unpublished
  /\ unpublished' = unpublished \ {snapshot'}
  /\ UNCHANGED <<turnVars, call, evidenceVars, switchVars, waiting, active,
                 activated, revisions>>

-----------------------------------------------------------------------------
(* What a turn is bound to.                                                 *)

\* The governor wraps every tool at boot by spreading it, which reads the
\* description once: the descriptions are those of the content at boot.
GovernedDescriptions == FirstContent["tools"]

\* RuntimeConversationSnapshots.resolve.
PinnedSnapshot(c) ==
  IF c \in Retained /\ c \in DOMAIN snapshots THEN snapshots[c] ELSE snapshot

\* RuntimeEvolutionEvidence.#targetsForConversation.
AttributedContent(c) ==
  IF c \in Retained /\ c \in DOMAIN pinnedTargets THEN pinnedTargets[c] ELSE active

\* The agent drops its bindings before a turn it keeps no history of, and
\* otherwise keeps those of the conversation's first turn.
BoundTools(c) ==
  IF c \in Retained /\ c \in DOMAIN pinnedTools THEN pinnedTools[c]
                                                ELSE GovernedDescriptions
\* Mutant: the persona is read again for every turn.
MutantBoundPersona(c) == active["prompt"]

BoundPersona(c) ==
  IF c \in Retained /\ c \in DOMAIN personas THEN personas[c] ELSE active["prompt"]

\* Mutant: the targets of every run on the channel accumulate.
MutantRemembered(ch, d, targets) ==
  LET kept == IF ch \in DOMAIN latest THEN latest[ch].targets ELSE {} IN
  Put(latest, ch, [run |-> d, targets |->
    {u \in kept : \A v \in targets : v.target # u.target} \union targets])

\* #rememberTargets: a channel's entry accumulates the targets of one run; the
\* targets of another run replace it.
Remembered(ch, d, targets) ==
  LET kept == IF ch \in DOMAIN latest /\ latest[ch].run = d
                THEN latest[ch].targets ELSE {} IN
  Put(latest, ch, [run |-> d, targets |->
    {u \in kept : \A v \in targets : v.target # u.target} \union targets])

Use(content, t) == [target |-> t, revision |-> content[t]]

-----------------------------------------------------------------------------
(* The life of a message.                                                   *)

\* #handleInbound up to the first await.  The ids of the messages that left
\* "unsent" are the runtime's #seen; a redelivery of one of them returns at once.
Deliver(d) ==
  /\ stage[d] = "unsent"
  /\ stage' = [stage EXCEPT ![d] = "opening"]
  /\ UNCHANGED <<inflight, bindings, history, round, said, call, evidenceVars,
                 switchVars, waiting, contentVars>>

\* The response is open, and the conversation has a turn under way: the user is
\* asked to wait, and whether that is sent changes nothing here.
Excuse(d) ==
  /\ stage[d] = "opening"
  /\ Conversation[d] \in inflight
  /\ stage' = [stage EXCEPT ![d] = "done"]
  /\ UNCHANGED <<inflight, bindings, history, round, said, call,
                 evidenceVars, switchVars, waiting, contentVars>>

\* The response is open, and the turn begins: without an await, the runtime
\* pins the Snapshot, the evidence its targets and records the run (which may
\* fail), and the agent its tools and persona, and calls the model.
Begin(d) ==
  LET c == Conversation[d]
      attributed == AttributedContent(c) IN
  /\ stage[d] = "opening"
  /\ c \notin inflight
  /\ inflight' = inflight \union {c}
  /\ snapshots' = IF c \in Retained THEN Put(snapshots, c, PinnedSnapshot(c))
                                    ELSE Drop(snapshots, c)
  /\ pinnedTargets' = IF c \in Retained THEN Put(pinnedTargets, c, attributed)
                                        ELSE Drop(pinnedTargets, c)
  /\ pinnedTools' = Put(pinnedTools, c, BoundTools(c))
  /\ personas' = Put(personas, c, BoundPersona(c))
  /\ history' = IF c \in Retained THEN history ELSE [history EXCEPT ![c] = <<>>]
  /\ said' = [said EXCEPT ![d] = Append(history'[c], Said(d, "user"))]
  /\ round' = [round EXCEPT ![d] = 1]
  /\ stage' = [stage EXCEPT ![d] = "asking"]
  /\ \/ /\ run' = [run EXCEPT ![d] = [status |-> "open",
                     snapshot |-> PinnedSnapshot(c), targets |-> attributed]]
        /\ latest' = Remembered(Channel[d], d, {Use(attributed, "prompt")})
     \/ UNCHANGED evidenceVars
  /\ UNCHANGED <<call, switchVars, waiting, contentVars>>

\* Mutant: the cut keeps the oldest entries.
MutantNewest(entries) ==
  SubSeq(entries, 1, IF Len(entries) > MaxHistory THEN MaxHistory ELSE Len(entries))

\* The entries the history limit leaves.
Newest(entries) ==
  SubSeq(entries, IF Len(entries) > MaxHistory THEN Len(entries) - MaxHistory + 1 ELSE 1,
         Len(entries))

\* RuntimeAgent.#remember, at the end of a turn: a retained conversation keeps
\* the last entries.
Remember(d, entries) ==
  LET c == Conversation[d] IN
  IF c \in Retained
    THEN /\ history' = [history EXCEPT ![c] = Newest(entries)]
         /\ UNCHANGED <<pinnedTools, personas>>
    ELSE /\ history' = [history EXCEPT ![c] = <<>>]
         /\ pinnedTools' = Drop(pinnedTools, c)
         /\ personas' = Drop(personas, c)

\* The model answers in text.
Answer(d) ==
  /\ stage[d] = "asking"
  /\ said' = [said EXCEPT ![d] = Append(@, Said(d, "answer"))]
  /\ Remember(d, said'[d])
  /\ stage' = [stage EXCEPT ![d] = "replying"]
  /\ UNCHANGED <<inflight, snapshots, pinnedTargets, round, call,
                 evidenceVars, switchVars, waiting, contentVars>>

\* The model asks for tools, which are all started.
Request(d) ==
  /\ stage[d] = "asking"
  /\ \E asked \in SUBSET Tools \ {{}} :
       call' = [call EXCEPT ![d] = [t \in Tools |->
                  IF t \in asked THEN "called" ELSE "none"]]
  /\ said' = [said EXCEPT ![d] = Append(@, Said(d, "asked"))]
  /\ stage' = [stage EXCEPT ![d] = "calling"]
  /\ UNCHANGED <<inflight, bindings, history, round, evidenceVars,
                 switchVars, waiting, contentVars>>

Finished(d, disposition) ==
  IF run[d].status = "open" THEN [run EXCEPT ![d].status = disposition] ELSE run

\* Mutant: the conversation is freed before the apology is sent.
MutantModelFails(d) ==
  /\ stage[d] = "asking"
  /\ run' = Finished(d, "failure")
  /\ stage' = [stage EXCEPT ![d] = "apologizing"]
  /\ inflight' = inflight \ {Conversation[d]}
  /\ UNCHANGED <<bindings, history, round, said, call, latest,
                 switchVars, waiting, contentVars>>

\* The model call fails, its watchdog fires, or an observer of the call throws.
ModelFails(d) ==
  /\ stage[d] = "asking"
  /\ run' = Finished(d, "failure")
  /\ stage' = [stage EXCEPT ![d] = "apologizing"]
  /\ UNCHANGED <<inflight, bindings, history, round, said, call, latest,
                 switchVars, waiting, contentVars>>

\* The outputs of a round.
Outputs(d) ==
  [i \in 1..Cardinality({t \in Tools : call[d][t] = "ended"}) |-> Said(d, "output")]

\* Every call of the round has its output: the next round, or after the last
\* one a reply that says so and that the conversation does not remember.
NextRound(d) ==
  /\ stage[d] = "calling"
  /\ \A t \in Tools : call[d][t] \in {"none", "ended"}
  /\ call' = [call EXCEPT ![d] = NoCalls]
  /\ said' = [said EXCEPT ![d] = @ \o Outputs(d)]
  /\ IF round[d] < MaxRounds
       THEN /\ round' = [round EXCEPT ![d] = @ + 1]
            /\ stage' = [stage EXCEPT ![d] = "asking"]
            /\ UNCHANGED <<history, pinnedTools, personas>>
       ELSE /\ Remember(d, said'[d])
            /\ stage' = [stage EXCEPT ![d] = "replying"]
            /\ UNCHANGED round
  /\ UNCHANGED <<inflight, snapshots, pinnedTargets, evidenceVars,
                 switchVars, waiting, contentVars>>

\* The gateway has sent the reply.
Replied(d) ==
  /\ stage[d] = "replying"
  /\ run' = Finished(d, "success")
  /\ stage' = [stage EXCEPT ![d] = "done"]
  /\ round' = [round EXCEPT ![d] = 0]
  /\ said' = [said EXCEPT ![d] = <<>>]
  /\ inflight' = inflight \ {Conversation[d]}
  /\ UNCHANGED <<bindings, history, call, latest, switchVars,
                 waiting, contentVars>>

\* Mutant: the run of a turn whose reply fails is not finished.
MutantReplyFails(d) ==
  /\ stage[d] = "replying"
  /\ stage' = [stage EXCEPT ![d] = "apologizing"]
  /\ UNCHANGED <<inflight, bindings, history, round, said, call, evidenceVars,
                 switchVars, waiting, contentVars>>

\* The gateway could not send it.
ReplyFails(d) ==
  /\ stage[d] = "replying"
  /\ run' = Finished(d, "failure")
  /\ stage' = [stage EXCEPT ![d] = "apologizing"]
  /\ UNCHANGED <<inflight, bindings, history, round, said, call, latest,
                 switchVars, waiting, contentVars>>

\* The apology is sent, or could not be.
Apologized(d) ==
  /\ stage[d] = "apologizing"
  /\ stage' = [stage EXCEPT ![d] = "done"]
  /\ round' = [round EXCEPT ![d] = 0]
  /\ said' = [said EXCEPT ![d] = <<>>]
  /\ inflight' = inflight \ {Conversation[d]}
  /\ UNCHANGED <<bindings, history, call, evidenceVars,
                 switchVars, waiting, contentVars>>

-----------------------------------------------------------------------------
(* Tool calls and the governor.                                             *)

Blocked(t) == frozen \/ t \in disabled \union Denied

\* The tool is known and its arguments parse: ToolGovernor.#run up to its first
\* await, deciding and then appending the decision.
Invoke(d, t) ==
  /\ call[d][t] = "called" /\ t \in Known
  /\ call' = [call EXCEPT ![d][t] = IF Blocked(t) THEN "refused" ELSE "permitted"]
  /\ waiting' = Append(waiting, <<d, t>>)
  /\ UNCHANGED <<turnVars, evidenceVars, switchVars, contentVars>>

\* The call has an output, which the observers are told.  The evidence's
\* records it, in a turn whose run is recorded; the gateway's, which comes
\* first, may throw: the round then fails, and the turn with it, while its
\* other calls go on.
EndCall(d, t) ==
  /\ call' = [call EXCEPT ![d][t] = "ended"]
  /\ \/ /\ latest' = IF run[d].status = "none" THEN latest
                       ELSE Remembered(Channel[d], d,
                              IF t \in Evolving THEN {Use(run[d].targets, "tools")} ELSE {})
        /\ UNCHANGED <<run, stage>>
     \/ /\ stage[d] = "calling"
        /\ run' = Finished(d, "failure")
        /\ stage' = [stage EXCEPT ![d] = "apologizing"]
        /\ UNCHANGED latest
     \/ /\ stage[d] # "calling"
        /\ UNCHANGED <<latest, run, stage>>

\* The tool is not known, the arguments do not parse, or the observers could
\* not be told of the start: it is never invoked.
Malformed(d, t) ==
  /\ call[d][t] = "called"
  /\ EndCall(d, t)
  /\ UNCHANGED <<inflight, bindings, history, round, said, switchVars, waiting,
                 contentVars>>

\* The oldest append settles: a permitted tool starts, a refused call ends in
\* an error, a control-plane request returns.
Settle ==
  /\ waiting # <<>>
  /\ waiting' = Tail(waiting)
  /\ \/ \E d \in Messages, t \in Tools :
          /\ Head(waiting) = <<d, t>>
          /\ call[d][t] = "permitted"
          /\ call' = [call EXCEPT ![d][t] = "running"]
          /\ UNCHANGED <<stage, evidenceVars, control>>
     \/ \E d \in Messages, t \in Tools :
          /\ Head(waiting) = <<d, t>>
          /\ call[d][t] = "refused"
          /\ EndCall(d, t)
          /\ UNCHANGED control
     \/ \E o \in Controls :
          /\ Head(waiting) = <<o>>
          /\ control' = [control EXCEPT ![o] = "returned"]
          /\ UNCHANGED <<stage, call, evidenceVars>>
  /\ UNCHANGED <<inflight, bindings, history, round, said, frozen, disabled,
                 contentVars>>

\* The tool returns or throws.
ToolEnds(d, t) ==
  /\ call[d][t] = "running"
  /\ EndCall(d, t)
  /\ UNCHANGED <<inflight, bindings, history, round, said, switchVars, waiting,
                 contentVars>>

\* Mutant: the control plane returns without awaiting the record.
MutantApply(o) ==
  LET op == Operation[o] IN
  /\ control[o] = "unsent"
  /\ control' = [control EXCEPT ![o] = "returned"]
  /\ frozen' = IF op.kind \in {"freeze", "unfreeze"} THEN op.kind = "freeze"
                                                     ELSE frozen
  /\ disabled' = CASE op.kind = "disable" -> disabled \union {op.tool}
                   [] op.kind = "enable"  -> disabled \ {op.tool}
                   [] OTHER               -> disabled
  /\ UNCHANGED <<turnVars, call, evidenceVars, waiting, contentVars>>

\* freeze, unfreeze, disable and enable take effect at once and return when
\* their record has settled.
Apply(o) ==
  LET op == Operation[o] IN
  /\ control[o] = "unsent"
  /\ control' = [control EXCEPT ![o] = "sent"]
  /\ waiting' = Append(waiting, <<o>>)
  /\ frozen' = IF op.kind \in {"freeze", "unfreeze"} THEN op.kind = "freeze"
                                                     ELSE frozen
  /\ disabled' = CASE op.kind = "disable" -> disabled \union {op.tool}
                   [] op.kind = "enable"  -> disabled \ {op.tool}
                   [] OTHER               -> disabled
  /\ UNCHANGED <<turnVars, call, evidenceVars, contentVars>>

-----------------------------------------------------------------------------
Step(d) ==
  \/ Excuse(d) \/ Begin(d) \/ Answer(d) \/ Request(d) \/ ModelFails(d)
  \/ NextRound(d) \/ Replied(d) \/ ReplyFails(d) \/ Apologized(d)

CallStep(d, t) == Invoke(d, t) \/ Malformed(d, t) \/ ToolEnds(d, t)

Next ==
  \/ \E t \in Released : Activate(t)
  \/ Publish \/ Restore \/ Settle
  \/ \E d \in Messages : Deliver(d) \/ Step(d)
  \/ \E d \in Messages, t \in Tools : CallStep(d, t)
  \/ \E o \in Controls : Apply(o)

Spec == Init /\ [][Next]_vars

-----------------------------------------------------------------------------
(* Properties.                                                              *)

TypeOK ==
  /\ stage \in [Messages -> {"unsent", "opening", "done"}
                             \union InTurn]
  /\ inflight \subseteq Conversations
  /\ DOMAIN snapshots \subseteq Conversations
  /\ \A c \in DOMAIN snapshots : snapshots[c] \in Content
  /\ DOMAIN pinnedTargets \subseteq Conversations
  /\ \A c \in DOMAIN pinnedTargets : pinnedTargets[c] \in Content
  /\ DOMAIN pinnedTools \subseteq Conversations
  /\ DOMAIN personas \subseteq Conversations
  /\ history \in [Conversations -> Seq(Entry)]
  /\ round \in [Messages -> 0..MaxRounds]
  /\ call \in [Messages -> [Tools -> {"none", "called", "permitted", "refused",
                                        "running", "ended"}]]
  /\ run \in [Messages -> [status : {"none", "open", "success", "failure"},
                             snapshot : Content, targets : Content]]
  /\ frozen \in BOOLEAN /\ disabled \subseteq Tools
  /\ control \in [Controls -> {"unsent", "sent", "returned"}]
  /\ said \in [Messages -> Seq(Entry)]
  /\ active \in Content /\ snapshot \in Content
  /\ activated \subseteq Content /\ unpublished \subseteq Content
  /\ revisions \in 0..MaxRevisions

\* "A second concurrent turn on the same key is rejected" (http-api.md:93), and
\* the in-flight mark that rejects it is held exactly while a turn runs: a
\* conversation is neither shared by two turns nor left blocked by one.
TurnsExclusive ==
  TypeOK /\ \A c \in Conversations :
    /\ Cardinality(Turning(c)) <= 1
    /\ c \in inflight <=> Turning(c) # {}

\* What a retained conversation remembers is a run of whole turns, but for the
\* oldest, which may have lost its beginning: no turn is in it twice or
\* interleaved with another, however turns fail or are turned away around it;
\* the turn answered last is the newest in it, and one answered before is
\* missing only from a full history.
AnsweredRemembered ==
  \A c \in Retained :
    LET h == history[c] IN
    /\ Len(h) <= MaxHistory
    /\ \A i, j \in DOMAIN h :
         i < j => /\ h[j].part = "user" => h[i].of # h[j].of
                  /\ h[j].part # "user" => h[j].of = h[j - 1].of
    /\ \A d \in Messages :
         Conversation[d] = c =>
           /\ stage[d] = "replying" => h # <<>> /\ h[Len(h)].of = d
           /\ run[d].status = "success" =>
                Len(h) = MaxHistory \/ \E i \in DOMAIN h : h[i].of = d

\* The evidence credits or blames the prompt revision the model was shown: the
\* agent's persona cache and the evidence's target cache, filled and dropped by
\* different code, agree in every turn, whatever is activated meanwhile.
\* And a retained conversation keeps the Snapshot and the content of its first
\* turn (conversation-snapshots.test.ts: "keeps an existing conversation on its
\* original immutable Snapshot").
AttributedPrompt ==
  /\ \A d \in Messages :
       run[d].status = "open" /\ stage[d] \in {"asking", "calling"} =>
         personas[Conversation[d]] = run[d].targets["prompt"]
  /\ \A d, e \in Messages :
       /\ Conversation[d] = Conversation[e] /\ Conversation[d] \in Retained
       /\ run[d].status # "none" /\ run[e].status # "none"
       => run[d].snapshot = run[e].snapshot /\ run[d].targets = run[e].targets

\* Feedback on a channel is filed for one recorded run of that channel, and
\* only against revisions that run used, although the threads of a channel
\* and their tools report in any order.
FeedbackOnOneRun ==
  \A ch \in DOMAIN latest :
    LET d == latest[ch].run IN
    /\ Channel[d] = ch /\ run[d].status # "none"
    /\ \A u \in latest[ch].targets : u.revision = run[d].targets[u.target]

\* A recorded run is open only while its turn is: every way a turn ends, the
\* reply that could not be sent included, gives its run a disposition.
RunsAreFinished ==
  \A d \in Messages :
    run[d].status = "open" => stage[d] \in {"asking", "calling", "replying"}

\* Once a freeze, or a disable of the tool, has returned, no call of the tool
\* starts before it is lifted: a call decided before the stop was asked for
\* and still waiting for its audit record starts before the stop returns.
Settled(kind, t) ==
  \A o \in Controls :
    control[o] = "sent" => ~ /\ Operation[o].kind = kind
                             /\ kind = "disable" => Operation[o].tool = t
Stopped(t) ==
  \/ frozen /\ Settled("freeze", t)
  \/ t \in disabled /\ Settled("disable", t)
StopHolds ==
  [][\A d \in Messages, t \in Tools :
       call[d][t] # "running" /\ call'[d][t] = "running" => ~Stopped(t)]_vars

\* The same for the tool descriptions: the model is shown the revision that the
\* evidence of its tool calls names (runtime-integration.test.ts, "pins
\* activated tool bytes for the lifetime of each conversation").
AttributedTools ==
  \A d \in Messages :
    run[d].status = "open" /\ stage[d] \in {"asking", "calling"} =>
      pinnedTools[Conversation[d]] = run[d].targets["tools"]

\* The cut keeps a model's calls with their outputs.  No run checks it: the
\* last entries may begin with the output of calls that were cut.
OutputsAnswerCalls ==
  \A c \in Retained : \A j \in DOMAIN history[c] :
    history[c][j].part = "output" =>
      \E i \in 1..(j - 1) : history[c][i] = Said(history[c][j].of, "asked")
=============================================================================
