----------------------------- MODULE ChatGateways -----------------------------
(***************************************************************************)
(* The gateways, and the tools, that talk to others                        *)
(* (src/skills/gateway-slack, -gmail, -bluebubbles, -email, -webhook,      *)
(* mcp-client, deep-trace).  Where something can happen while an operation *)
(* waits, a step function gives the states that may follow, and what       *)
(* follows is explored from all of them; the rest are functions of the     *)
(* outcomes of the calls.  What the runtime does with a message is in      *)
(* Turns.  The other side of each connection is external.                  *)
(***************************************************************************)
EXTENDS Integers, Sequences, FiniteSets, FiniteSetsExt, SequencesExt

Nothing == "none"

---------------------------------------------------------------------------
(* Gmail: the n-th mail moves the mailbox to history n.  A push says how   *)
(* far it had moved; the anchor is how far it was reconciled, in memory    *)
(* and on file.                                                            *)

Unread == -1
Idle == [push |-> 0, previous |-> 0, at |-> "idle", rows |-> {}]
NoMail(mails) ==
  [mail |-> 0, pushes |-> 0, anchor |-> Unread, file |-> 0, first |-> 0, queue |-> <<>>,
   work |-> Idle, told |-> [m \in 1..mails |-> 0]]
Loaded(s) == IF s.anchor = Unread THEN s.file ELSE s.anchor

\* External: mail arrives, and pushes do, late, again or out of order.
MailArrives(s) == IF s.mail < Len(s.told)
                  THEN {[s EXCEPT !.mail = @ + 1]} ELSE {}
PushArrives(s, most) ==
  IF s.pushes = most THEN {}
  ELSE {[s EXCEPT !.queue = Append(@, h), !.pushes = @ + 1] : h \in 1..s.mail}

\* reconcile, up to each wait: the anchor is set before the history is asked.
Reconciles(s) ==
  IF s.work.at # "idle" \/ s.queue = <<>> THEN {}
  ELSE LET push == Head(s.queue)
           next == [s EXCEPT !.queue = Tail(@), !.anchor = Loaded(s)]
       IN  IF Loaded(s) # 0 /\ push <= Loaded(s) THEN {next}
           ELSE {[next EXCEPT !.anchor = push,
                              !.first = IF Loaded(s) = 0 THEN push ELSE @,
                              !.work = [Idle EXCEPT !.push = push, !.previous = Loaded(s), !.at = "writing"]]}
AnchorWritten(s, failing) ==
  IF s.work.at # "writing" THEN {}
  ELSE {[s EXCEPT !.file = s.work.push,
                  !.work = IF s.work.previous = 0 THEN Idle ELSE [@ EXCEPT !.at = "asking"]]}
       \union (IF failing THEN {[s EXCEPT !.work = Idle]} ELSE {})
\* historySince: everything after the anchor that one page holds.
HistorySince(s, page) == (s.work.previous + 1)..Min({s.mail, s.work.previous + page})
HistoryRead(s, page, failing) ==
  IF s.work.at # "asking" THEN {}
  ELSE {IF HistorySince(s, page) = {} THEN [s EXCEPT !.work = Idle]
        ELSE [s EXCEPT !.work.at = "reading", !.work.rows = HistorySince(s, page)]}
       \union (IF failing THEN {[s EXCEPT !.work = Idle]} ELSE {})
Notifies(s, failing) ==
  IF s.work.at # "reading" THEN {}
  ELSE {[s EXCEPT !.told = [m \in DOMAIN s.told |-> IF m \in s.work.rows THEN s.told[m] + 1 ELSE s.told[m]],
                  !.work = Idle]}
       \union (IF failing THEN {[s EXCEPT !.work = Idle]} ELSE {})
\* gmailWatchService: anchors a mailbox that has none.
Watches(s) ==
  IF Loaded(s) # 0 \/ s.mail = 0 THEN {}
  ELSE {[s EXCEPT !.anchor = s.mail, !.file = s.mail, !.first = s.mail]}
\* A stop of the process, which may cut the file short while it is written.
Stops(s) ==
  {[s EXCEPT !.anchor = Unread, !.queue = <<>>, !.work = Idle, !.file = f] :
     f \in IF s.work.at = "writing" THEN {s.file, s.work.push, 0} ELSE {s.file}}
GmailSteps(s, page, most, failing) ==
  MailArrives(s) \union PushArrives(s, most) \union Reconciles(s) \union AnchorWritten(s, failing)
  \union HistoryRead(s, page, failing) \union Notifies(s, failing) \union Watches(s)
  \union (IF failing THEN Stops(s) ELSE {})

\* unsubscribe: asks by GET what the POST was refused.
Unsubscribe(https, post, get) ==
  CASE ~ https -> [ok |-> FALSE, sent |-> <<>>]
    [] post -> [ok |-> TRUE, sent |-> <<"POST">>]
    [] OTHER -> [ok |-> get, sent |-> <<"POST", "GET">>]

---------------------------------------------------------------------------
(* The HTTP entrances: what is looked at before what                       *)

Ingress(gateway, request) ==
  LET verified == IF request.verified THEN "ok" ELSE "401"
      sized    == IF request.large THEN "413" ELSE "ok"
      parsed   == IF request.parses THEN "ok" ELSE "400"
      checks   == IF gateway = "webhook" THEN <<sized, verified, parsed>> ELSE <<verified, sized, parsed>>
      failed   == {n \in 1..3 : checks[n] # "ok"}
  IN  [status |-> IF failed = {} THEN "202" ELSE checks[Min(failed)],
       turn   |-> failed = {} /\ request.accepted]

---------------------------------------------------------------------------
(* iMessage: identifiers are sequences of digits without their punctuation *)

MinSuffix == 7
IdentifiersMatch(a, b) ==
  /\ a # <<>> /\ b # <<>>
  /\ \/ a = b
     \/ Len(a) >= MinSuffix /\ Len(b) >= MinSuffix /\ (IsSuffix(a, b) \/ IsSuffix(b, a))
\* decodeInbound; a message without a chat is one of its sender's own.
Inbound(m, allowed) ==
  /\ ~ m.fromMe /\ ~ m.tapback /\ ~ m.empty
  /\ \E a \in allowed : IdentifiersMatch(a, m.sender)
  /\ m.chat \in {"direct", Nothing}
\* resolveRecipient of the tool compares texts, not numbers.
MaySend(recipient, allowed) == recipient \in allowed
\* readConversation: an address that has messages, else the first chat that
\* is the target's, else the first it takes part in.
ReadFrom(candidates, chats) ==
  LET held   == SelectSeq(candidates, LAMBDA c : c.messages)
      direct == SelectSeq(chats, LAMBDA c : c.direct)
      member == SelectSeq(chats, LAMBDA c : c.member)
  IN  CASE held # <<>> -> held[1].id
        [] held = <<>> /\ direct # <<>> -> direct[1].id
        [] held = <<>> /\ direct = <<>> /\ member # <<>> -> member[1].id
        [] OTHER -> Nothing

---------------------------------------------------------------------------
(* Slack: requests and what is told of them                                *)

MaxRetries == 2
\* request: given the answers of the attempts it could make, "ok", "limited",
\* "refused", or "unknown" when none came or none that could be read.
Attempts(answers) == Min({n \in DOMAIN answers : answers[n] # "limited" \/ n = MaxRetries + 1})
Request(answers) == answers[Attempts(answers)] = "ok"

\* send: the chunks are posted in order; the first in a direct message without
\* a thread makes one, whose title is set before the next.
Sent(chunks, posts, direct, titled) ==
  LET failing == {n \in 1..chunks : ~ posts[n]}
      last    == IF failing = {} THEN chunks ELSE Min(failing) - 1
      stopped == direct /\ ~ titled /\ last >= 1
  IN  [posted |-> IF stopped THEN 1 ELSE last, told |-> failing = {} /\ ~ stopped]

---------------------------------------------------------------------------
(* Slack: frames.  Each is acknowledged before it is looked at.            *)

Sentiment(value) ==
  CASE value \in {"thumbsup", "+1", "white_check_mark", "positive"} -> "positive"
    [] value \in {"thumbsdown", "-1", "x", "negative"} -> "negative"
    [] OTHER -> Nothing
FirstOf(a, b) == IF a # Nothing THEN a ELSE b
\* decodeReactionFeedback, decodeInteraction, decodeMessage: what was said, if
\* anything.  A click is at its message, or at what it is contained in.
ReactionsOf(e, owner, self) ==
  {f \in {[channel |-> e.channel, message |-> e.ts, sentiment |-> Sentiment(e.value)]} :
     /\ e.user = owner /\ self # Nothing /\ e.item = self
     /\ Nothing \notin {f.channel, f.message, f.sentiment}}
ClicksOf(p, owner) ==
  {c \in {[type |-> p.action, channel |-> FirstOf(p.channel, p.within.channel),
           message |-> FirstOf(p.ts, p.within.ts), value |-> p.value]} :
     /\ p.blockActions /\ p.user = owner /\ Nothing \notin {c.channel, c.message}
     /\ \/ p.action = "delete"
        \/ p.action = "feedback" /\ p.value \in {"positive", "negative"}}
MessagesOf(e, latest) ==
  {m \in {[channel |-> e.channel, at |-> e.ts, thread |-> FirstOf(e.thread, e.ts), root |-> e.thread = Nothing,
           context |-> IF e.context # {} THEN e.context ELSE latest]} :
     Nothing \notin {e.channel, e.ts, e.text}}

\* handleInteractionPayload: a choice is answered at the address it names.
Interaction(p, owner) ==
  CASE p.blockActions /\ p.user = owner /\ p.action = "choice" /\ Nothing \notin {p.value, p.url} ->
         IF p.url = "slack" THEN "acknowledged" ELSE "refused"
    [] ClicksOf(p, owner) # {} -> p.action
    [] OTHER -> "nothing"
\* handleEvent
Event(e, owner, self) ==
  CASE e.type = "context" -> "context"
    [] e.type = "home" -> IF e.user = owner THEN "home" ELSE "nothing"
    [] e.type = "reaction" -> IF ReactionsOf(e, owner, self) # {} THEN "feedback" ELSE "nothing"
    [] e.type = "message" /\ e.plain /\ e.user # self /\ e.user = owner /\ MessagesOf(e, {}) # {} -> "message"
    [] OTHER -> "nothing"

\* loadLiveThreadHistory: the first page of the thread (which Slack gives in
\* order), without the message itself and what has no text, and of that the end.
ThreadHistory(thread, ts, page, most) ==
  LET read == SelectSeq(SubSeq(thread, 1, Min({Len(thread), page})), LAMBDA m : m.ts # ts /\ m.text)
  IN  SubSeq(read, Max({1, Len(read) - most + 1}), Len(read))

\* The connection: listen opens a socket, waits for its end and opens another.
NewGateway == [active |-> FALSE, at |-> "new", socket |-> FALSE, connected |-> FALSE]
GatewaySteps(g) ==
  (IF g.at = "new" THEN {[g EXCEPT !.active = TRUE, !.at = "opening"]} ELSE {})
  \union (IF g.at = "opening"
          THEN {[g EXCEPT !.at = "open", !.socket = TRUE, !.connected = TRUE],
                [g EXCEPT !.at = "waiting", !.connected = FALSE]} ELSE {})
  \union (IF g.at = "open" /\ g.socket THEN {[g EXCEPT !.socket = FALSE]} ELSE {})
  \union (IF g.at = "open" /\ ~ g.socket
          THEN {[g EXCEPT !.connected = FALSE, !.at = IF g.active THEN "waiting" ELSE "ended"]} ELSE {})
  \union (IF g.at = "waiting" THEN {[g EXCEPT !.at = IF g.active THEN "opening" ELSE "ended"]} ELSE {})
StopGateway(g) == [g EXCEPT !.active = FALSE, !.connected = FALSE, !.socket = FALSE]

---------------------------------------------------------------------------
(* Slack: the answer that is streamed.  The text is cut into pieces; the   *)
(* filter holds back what may become a name of an emoji.                   *)

Letter(c) == c \in {"a", "b"}
IsFull(v) == Len(v) >= 3 /\ v[1] = ":" /\ v[Len(v)] = ":" /\ \A i \in 2..(Len(v) - 1) : Letter(v[i])
IsPartial(v) == \A i \in 2..Len(v) : Letter(v[i])
\* partialShortcodeStart: where what is held back begins, 0 when nothing is.
HoldsFrom(text) ==
  LET colons == {i \in DOMAIN text : text[i] = ":"}
      last   == IF colons = {} THEN 0 ELSE Max(colons)
      before == colons \ {last}
  IN  CASE last = 0 -> 0
        [] last # 0 /\ ~ IsPartial(SubSeq(text, last, Len(text))) -> 0
        [] last = Len(text) /\ before # {} /\ IsFull(SubSeq(text, Max(before), last)) -> 0
        [] OTHER -> last
\* push and, of an empty fragment at the end, finish.
Filter(held, fragment, finish) ==
  LET text == held \o fragment
      from == IF finish \/ HoldsFrom(text) = 0 THEN Len(text) + 1 ELSE HoldsFrom(text)
  IN  [ready |-> SubSeq(text, 1, from - 1), held |-> SubSeq(text, from, Len(text))]
\* The pieces that are sent of the fragments, the last one at the end.
RECURSIVE Pieces(_, _)
Pieces(held, fragments) ==
  IF fragments = <<>> THEN <<Filter(held, <<>>, TRUE).ready>>
  ELSE LET f == Filter(held, Head(fragments), FALSE) IN <<f.ready>> \o Pieces(f.held, Tail(fragments))

\* complete: the pieces appended, then what the count of those says is left;
\* the messages there are in the end.
Completed(text, pieces, started, appended, stopped) ==
  LET shown     == FlattenSeq([i \in DOMAIN pieces |-> IF appended[i] THEN pieces[i] ELSE <<>>])
      delivered == Len(shown)
  IN  CASE ~ started -> <<text>>
        [] started /\ stopped -> <<shown \o SubSeq(text, delivered + 1, Len(text))>>
        [] OTHER -> <<shown, text>>

\* The thread an answer goes to.
AnswerThread(direct, root, replyInThread) ==
  IF ~ replyInThread /\ ~ direct /\ root THEN Nothing ELSE "thread"

---------------------------------------------------------------------------
(* Mail over SMTP, and the step of it that fails                           *)

SmtpSteps == <<"greeting", "hello", "auth", "from", "to", "data", "mail", "quit">>
\* A mail whose acceptance was not read may have been accepted.
SendMail(failing, lost) ==
  [accepted |-> failing \in {Nothing, "quit"} \/ (failing = "mail" /\ lost), told |-> failing = Nothing]
\* feed, flushReply: a reply ends with a line that is not continued.
Replies(lines) ==
  LET ends == {n \in DOMAIN lines : lines[n].last}
      from(n) == IF \E m \in ends : m < n THEN Max({m \in ends : m < n}) + 1 ELSE 1
  IN  {SubSeq(lines, from(n), n) : n \in ends}

---------------------------------------------------------------------------
(* MCP: one call over a stream of events, and the start of a connection    *)

NewCall == [at |-> "new", pending |-> FALSE, settled |-> Nothing, answered |-> Nothing, closed |-> FALSE]
SettledBy(c, how) == [c EXCEPT !.pending = FALSE, !.settled = how]
CallSteps(c) ==
  (IF c.at = "new" THEN {[c EXCEPT !.at = "posting", !.pending = TRUE]} ELSE {})
  \union (IF c.at = "posting" THEN {[c EXCEPT !.at = "waiting"], [c EXCEPT !.at = "failed"]} ELSE {})
  \union (IF c.pending
          THEN {SettledBy(c, "timeout")}
               \union (IF c.closed THEN {} ELSE {[SettledBy(c, "value") EXCEPT !.answered = "result"],
                                                 [SettledBy(c, Nothing) EXCEPT !.answered = "error"]})
          ELSE {})
  \union (IF ~ c.closed
          THEN {[(IF c.pending THEN SettledBy(c, "closed") ELSE c) EXCEPT !.closed = TRUE]} ELSE {})
  \union (IF c.at = "waiting" /\ c.settled # Nothing THEN {[c EXCEPT !.at = "done"]} ELSE {})

ConnectSteps == <<"start", "initialize", "notify", "list">>
\* connectMcp: the stream stays open when a later step fails.
ConnectMcp(sse, failing) ==
  [connected |-> failing = Nothing, open |-> sse /\ failing # "start"]

---------------------------------------------------------------------------
(* The aggregator of traces keeps the last events, and the last runs       *)

NoTrace == [events |-> <<>>, order |-> <<>>, runs |-> [r \in {} |-> <<>>]]
LastOf(seq, n) == IF Len(seq) <= n THEN seq ELSE SubSeq(seq, Len(seq) - n + 1, Len(seq))
Ingest(a, e, events, runs) ==
  LET seen  == e.run \in DOMAIN a.runs
      order == IF e.run = Nothing \/ seen THEN a.order ELSE LastOf(Append(a.order, e.run), runs)
      old(r) == IF r \in DOMAIN a.runs THEN a.runs[r] ELSE <<>>
  IN  [events |-> LastOf(Append(a.events, e), events), order |-> order,
       runs |-> [r \in Range(order) |-> IF r = e.run THEN Append(old(r), e) ELSE old(r)]]
=============================================================================
