------------------------------- MODULE Approvals -------------------------------
(***************************************************************************)
(* The approval service: what operators allowed, for how long, and whether *)
(* the audit log knows it.                                                 *)
(*                                                                         *)
(* decide() reads the request, then awaits the proposal it may have to     *)
(* create, then the gating record, and remembers the permission last.      *)
(* Other decisions, a new request of the same id and the end of the        *)
(* session may come in between.                                            *)
(***************************************************************************)
EXTENDS Naturals

CONSTANTS
  RequestIds,     \* ids a request may have
  Requests,       \* what may be asked: session, operation, bytes, ...
  Deciders,       \* calls of decide() that may overlap
  Inputs,         \* canonical inputs an operator may be shown, each its own digest
  Operators,      \* principals that decide
  Times,          \* times a caller may give for its decision; one that does not parse is early
  NoRequest       \* no request of that id

Choices == {"allow-once", "deny-once", "allow-session", "propose-policy"}

VARIABLES
  requests,       \* ApprovalService.#requests
  outcomes,       \* ApprovalService.#outcomes: the choice that settled a request
  allowances,     \* ApprovalService.#sessionAllowances
  remembered,     \* DeferredGrantApprovalMemory.#approved
  waiting,        \* DeferredGrantApprovalMemory.#queue, as request ids
  deciding,       \* the calls of decide() that are under way
  records,        \* the approval.decision records of the audit log
  settled,        \* for the properties: the decisions whose record was written
  clock

approvalVars == <<requests, outcomes, allowances, remembered, waiting, deciding, records, settled,
                  clock>>

\* #sessionKey
SessionKey(r) == [session |-> r.session, operation |-> r.operation]

IsDeferred(r) == r.purpose = "deferred-grant"

\* deferredKey throws for a request without the scope of its posture.
Keyed(r) == r.posture \in {"standard", "hardened", "regulated"}

\* deferredKey: the wider the posture's trust, the wider the permission reaches.
DeferredKey(r) ==
  CASE r.posture = "standard"  -> [workspace |-> r.workspace, operation |-> r.operation]
    [] r.posture = "hardened"  -> [session |-> r.session, operation |-> r.operation]
    [] r.posture = "regulated" ->
         [workspace |-> r.workspace, class |-> r.class, operation |-> r.operation]

OfSession(session, k) == "session" \in DOMAIN k /\ k.session = session

Undecided == [at |-> "idle"]

ApprovalsInit ==
  /\ requests = [i \in RequestIds |-> NoRequest]
  /\ outcomes = [i \in RequestIds |-> "none"]
  /\ allowances = {} /\ remembered = {} /\ waiting = {}
  /\ deciding = [d \in Deciders |-> Undecided]
  /\ records = {} /\ settled = {}
  /\ clock = 0

\* request(): a later request takes the place of an earlier one of its id; a
\* deferred one without scope is registered before the call throws.
Ask(i, r) ==
  /\ requests' = [requests EXCEPT ![i] = r]
  /\ waiting' = IF /\ IsDeferred(r) /\ r.posture = "regulated"
                   /\ DeferredKey(r) \notin remembered
                THEN waiting \union {i} ELSE waiting
  /\ UNCHANGED <<outcomes, allowances, remembered, deciding, records, settled, clock>>

\* validatePresentation: the operator saw these bytes, by the time it is given.
Presented(r, input, decided) == input = r.input /\ decided <= r.expires

\* decide() up to its first await.  The time is the one the caller gives, which
\* nothing compares with the clock; without one it is the clock's.
Decide(d, i, choice, input, operator, decided) ==
  /\ deciding[d] = Undecided
  /\ requests[i] # NoRequest
  /\ Presented(requests[i], input, decided)
  /\ deciding' = [deciding EXCEPT ![d] =
       [at |-> IF choice = "propose-policy" THEN "proposing" ELSE "recording",
        id |-> i, request |-> requests[i], choice |-> choice, input |-> input,
        operator |-> operator, decided |-> decided]]
  /\ UNCHANGED <<requests, outcomes, allowances, remembered, waiting, records, settled, clock>>

\* What #recordDecision writes: neither the request itself nor the time.
RecordOf(e) ==
  [session |-> e.request.session, request |-> e.id, decision |-> e.choice,
   operator |-> e.operator, inputDigest |-> e.request.input]

DecisionOf(p) ==
  [id |-> p.id, request |-> p.request, choice |-> p.choice, input |-> p.input,
   operator |-> p.operator, decided |-> p.decided]

Proposed(d) ==
  /\ deciding[d].at = "proposing"
  /\ deciding' = [deciding EXCEPT ![d].at = "recording"]
  /\ UNCHANGED <<requests, outcomes, allowances, remembered, waiting, records, settled, clock>>

\* The record is durable before append() returns.
DecisionRecorded(d) ==
  /\ deciding[d].at = "recording"
  /\ records' = records \union {RecordOf(deciding[d])}
  /\ settled' = settled \union {DecisionOf(deciding[d])}
  /\ deciding' = [deciding EXCEPT ![d].at = "recorded"]
  /\ UNCHANGED <<requests, outcomes, allowances, remembered, waiting, clock>>

\* The proposal or the record is refused: decide() throws.
Refused(d) ==
  /\ deciding[d].at \in {"proposing", "recording"}
  /\ deciding' = [deciding EXCEPT ![d] = Undecided]
  /\ UNCHANGED <<requests, outcomes, allowances, remembered, waiting, records, settled, clock>>

Allows(choice) == choice \in {"allow-once", "allow-session"}

\* #remember: decide() after its awaits, with the request it began with.
Remember(d) ==
  LET r == deciding[d].request
      choice == deciding[d].choice
      grants == IsDeferred(r) /\ Allows(choice) /\ Keyed(r)
  IN  /\ deciding[d].at = "recorded"
      /\ outcomes' = [outcomes EXCEPT ![deciding[d].id] = choice]
      /\ allowances' = IF choice = "allow-session" THEN allowances \union {SessionKey(r)}
                       ELSE allowances
      /\ remembered' = IF grants THEN remembered \union {DeferredKey(r)} ELSE remembered
      /\ waiting' = IF grants THEN waiting \ {deciding[d].id} ELSE waiting
      /\ deciding' = [deciding EXCEPT ![d] = Undecided]
      /\ UNCHANGED <<requests, records, settled, clock>>

\* A decision that is still being recorded is not ended with its session.
CloseSession(session) ==
  /\ allowances' = {k \in allowances : ~OfSession(session, k)}
  /\ remembered' = {k \in remembered : ~OfSession(session, k)}
  /\ UNCHANGED <<requests, outcomes, waiting, deciding, records, settled, clock>>

Pass ==
  /\ clock' = clock + 1
  /\ UNCHANGED <<requests, outcomes, allowances, remembered, waiting, deciding, records, settled>>

\* allowedForSession and deferredApproved
AllowedForSession(r) == SessionKey(r) \in allowances

DeferredApproved(r) == IsDeferred(r) /\ DeferredKey(r) \in remembered

ApprovalsNext ==
  \/ \E i \in RequestIds, r \in Requests : Ask(i, r)
  \/ \E d \in Deciders, i \in RequestIds, choice \in Choices, input \in Inputs,
        operator \in Operators, decided \in Times \union {clock} :
       Decide(d, i, choice, input, operator, decided)
  \/ \E d \in Deciders : Proposed(d) \/ DecisionRecorded(d) \/ Refused(d) \/ Remember(d)
  \/ \E r \in Requests : CloseSession(r.session)
  \/ Pass

ApprovalsSpec == ApprovalsInit /\ [][ApprovalsNext]_approvalVars
=============================================================================
