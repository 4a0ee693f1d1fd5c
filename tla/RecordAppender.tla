--------------------------- MODULE RecordAppender ---------------------------
(***************************************************************************)
(* What an effect-gating append promises to its caller (the RecordAppender *)
(* interface that EpochRegistry, CapabilityBroker and the other security   *)
(* components are written against):                                        *)
(*                                                                         *)
(*   - a resolved append means the record is durable, except that one      *)
(*     record is lost to what a failed append or a crash left half done;   *)
(*   - a rejected append means nothing: the record may be durable or not;  *)
(*   - appends settle in the order in which they were made.                *)
(*                                                                         *)
(* AuditLog.tla implements this specification; EpochGrants.tla relies on   *)
(* it.                                                                     *)
(***************************************************************************)
EXTENDS Naturals

CONSTANT Records          \* the effect-gating records, numbered in call order

VARIABLES
  accepted,               \* records whose append was called
  waiting,                \* of these, the unsettled ones
  durable,                \* records that survive a crash
  cut,                    \* the store ends in half a record
  promised,               \* records whose append resolved
  rejected                \* records whose append threw

vars == <<accepted, waiting, durable, cut, promised, rejected>>

Init ==
  /\ accepted = {}
  /\ waiting = {}
  /\ durable = {}
  /\ cut = FALSE
  /\ promised = {}
  /\ rejected = {}

Accept(r) ==
  /\ \A q \in accepted : q < r
  /\ accepted' = accepted \union {r}
  /\ waiting' = waiting \union {r}
  /\ UNCHANGED <<durable, cut, promised, rejected>>

\* One group commit settles the oldest appends, all alike.
Settle(group) ==
  /\ \A r \in group, q \in waiting \ group : r < q
  /\ waiting' = waiting \ group

\* A record that is appended to half of another is lost with it.
Resolve(group) ==
  /\ Settle(group)
  /\ \E lost \in SUBSET group :
       /\ lost = {} \/ (cut /\ \E r \in group : lost = {r})
       /\ durable' = durable \union (group \ lost)
  /\ cut' = FALSE
  /\ promised' = promised \union group
  /\ UNCHANGED <<accepted, rejected>>

Reject(group) ==
  /\ Settle(group)
  /\ \E written \in SUBSET group : durable' = durable \union written
  /\ cut' \in BOOLEAN
  /\ rejected' = rejected \union group
  /\ UNCHANGED <<accepted, promised>>

Crash ==
  /\ waiting' = {}
  /\ \E written \in SUBSET waiting : durable' = durable \union written
  /\ cut' \in BOOLEAN
  /\ UNCHANGED <<accepted, promised, rejected>>

Next ==
  \/ \E r \in Records : Accept(r)
  \/ \E group \in SUBSET waiting : Resolve(group) \/ Reject(group)
  \/ Crash

Spec == Init /\ [][Next]_vars

=============================================================================
