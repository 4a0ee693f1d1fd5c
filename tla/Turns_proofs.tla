---------------------------- MODULE Turns_proofs ----------------------------
(***************************************************************************)
(* Proofs about Turns, for every number of messages, conversations, tools  *)
(* and control-plane requests.                                             *)
(*                                                                         *)
(* First the kill switch.  StopHolds speaks of one step; the invariant     *)
(* behind it is about the queue of audit appends: behind every permitted   *)
(* call that still waits in the queue while its tool is stopped there is   *)
(* the record of a stop, because the call was decided before the stop and  *)
(* both append at once.  A stop whose record waits has not returned.       *)
(*                                                                         *)
(* Then the invariants of turns: their mark, history, bindings and runs.   *)
(***************************************************************************)
EXTENDS Turns, FiniteSetTheorems, TLAPS

Entries == (Messages \X Tools) \union {<<o>> : o \in Controls}
CallStates == {"none", "called", "permitted", "refused", "running", "ended"}

Typed ==
  /\ call \in [Messages -> [Tools -> CallStates]]
  /\ control \in [Controls -> {"unsent", "sent", "returned"}]
  /\ waiting \in Seq(Entries)

\* The record of a request waits at most once, and only until it returns.
OneRecord ==
  \A i \in 1..Len(waiting), o \in Controls :
    waiting[i] = <<o>> =>
      /\ control[o] = "sent"
      /\ \A j \in 1..Len(waiting) : waiting[j] = <<o>> => j = i

\* The record of request o waits behind position i.
Behind(i, o) == \E j \in 1..Len(waiting) : i < j /\ waiting[j] = <<o>>

FreezeCovers ==
  \A i \in 1..Len(waiting), d \in Messages, t \in Tools :
    waiting[i] = <<d, t>> /\ call[d][t] = "permitted" /\ frozen =>
      \E o \in Controls : Operation[o].kind = "freeze" /\ Behind(i, o)

DisableCovers ==
  \A i \in 1..Len(waiting), d \in Messages, t \in Tools :
    waiting[i] = <<d, t>> /\ call[d][t] = "permitted" /\ t \in disabled =>
      \E o \in Controls :
        Operation[o].kind = "disable" /\ Operation[o].tool = t /\ Behind(i, o)

Inv == Typed /\ OneRecord /\ FreezeCovers /\ DisableCovers

-----------------------------------------------------------------------------
(* The queue.                                                               *)

\* Appending to the queue leaves its entries where they are.
LEMMA QueueAppend ==
  ASSUME NEW w \in Seq(Entries), NEW e \in Entries, NEW v, v = Append(w, e)
  PROVE  /\ v \in Seq(Entries)
         /\ Len(v) = Len(w) + 1
         /\ \A i \in 1..Len(w) : v[i] = w[i]
         /\ v[Len(w) + 1] = e
  OBVIOUS

\* Settling the oldest entry moves the others forward by one.
LEMMA QueueTail ==
  ASSUME NEW w \in Seq(Entries), w # <<>>, NEW v, v = Tail(w)
  PROVE  /\ v \in Seq(Entries)
         /\ Len(v) = Len(w) - 1
         /\ \A i \in 1..Len(v) : i + 1 \in 1..Len(w) /\ v[i] = w[i + 1]
         /\ 1 \in 1..Len(w) /\ Head(w) = w[1]
  OBVIOUS

\* An entry other than the appended one was in the queue before.
LEMMA OlderEntry ==
  ASSUME NEW n \in Nat, NEW w, NEW v, NEW e, NEW x, x # e, v[n + 1] = e,
         \A i \in 1..n : v[i] = w[i],
         NEW i \in 1..(n + 1), v[i] = x
  PROVE  i \in 1..n /\ w[i] = x
<1>1. i # n + 1
  OBVIOUS
<1> QED
  BY <1>1

\* The record of a request is not the record of a call.
LEMMA EntriesDiffer ==
  ASSUME NEW o, NEW d, NEW t
  PROVE  <<o>> # <<d, t>>
  OBVIOUS

\* Updating one call of a typed table of calls.
LEMMA CallUpdate ==
  ASSUME call \in [Messages -> [Tools -> CallStates]],
         NEW d \in Messages, NEW t \in Tools, NEW s \in CallStates,
         call' = [call EXCEPT ![d][t] = s]
  PROVE  /\ call' \in [Messages -> [Tools -> CallStates]]
         /\ call'[d][t] = s
         /\ \A e \in Messages, u \in Tools :
              call'[e][u] # call[e][u] => e = d /\ u = t
  OBVIOUS

\* The state at boot: no call, no request, an empty queue.
LEMMA InitInv == Init => Inv
<1> SUFFICES ASSUME Init PROVE Inv
  OBVIOUS
<1>1. waiting = <<>> /\ Len(waiting) = 0
  BY DEF Init
<1>2. Typed
  BY <1>1 DEF Init, Typed, NoCalls, CallStates
<1>3. OneRecord /\ FreezeCovers /\ DisableCovers
  BY <1>1 DEF OneRecord, FreezeCovers, DisableCovers
<1> QED
  BY <1>2, <1>3 DEF Inv

-----------------------------------------------------------------------------
(* The steps that leave the queue and the kill switch alone.                *)

\* Such a step keeps the invariant if no call becomes permitted.
LEMMA QuietStep ==
  ASSUME Inv, UNCHANGED <<waiting, control, frozen, disabled>>,
         call' \in [Messages -> [Tools -> CallStates]],
         \A d \in Messages, t \in Tools :
           call'[d][t] = "permitted" => call[d][t] = "permitted"
  PROVE  Inv'
<1>1. Typed'
  BY DEF Inv, Typed
<1>2. OneRecord'
  BY DEF Inv, OneRecord
<1>3. FreezeCovers'
  BY DEF Inv, FreezeCovers, Behind
<1>4. DisableCovers'
  <2> SUFFICES ASSUME NEW i \in 1..Len(waiting), NEW d \in Messages, NEW t \in Tools,
                      waiting[i] = <<d, t>>, call'[d][t] = "permitted",
                      t \in disabled
               PROVE  \E o \in Controls : /\ Operation[o].kind = "disable"
                                          /\ Operation[o].tool = t
                                          /\ Behind(i, o)'
    BY DEF DisableCovers
  <2>1. PICK o \in Controls : /\ Operation[o].kind = "disable"
                              /\ Operation[o].tool = t /\ Behind(i, o)
    BY DEF Inv, DisableCovers
  <2>2. Behind(i, o)'
    BY <2>1 DEF Behind
  <2> QED
    BY <2>1, <2>2
<1> QED
  BY <1>1, <1>2, <1>3, <1>4 DEF Inv

\* A call that ends is not permitted.
LEMMA EndingIsQuiet ==
  ASSUME Inv, UNCHANGED <<waiting, control, frozen, disabled>>,
         NEW d \in Messages, NEW t \in Tools, EndCall(d, t)
  PROVE  Inv'
<1>1. /\ call' \in [Messages -> [Tools -> CallStates]]
      /\ call'[d][t] = "ended"
      /\ \A e \in Messages, u \in Tools :
           call'[e][u] # call[e][u] => e = d /\ u = t
  <2>1. call \in [Messages -> [Tools -> CallStates]]
    BY DEF Inv, Typed
  <2>2. call' = [call EXCEPT ![d][t] = "ended"] /\ "ended" \in CallStates
    BY DEF EndCall, CallStates
  <2> QED
    BY <2>1, <2>2, CallUpdate
<1>2. ASSUME NEW e \in Messages, NEW u \in Tools, call'[e][u] = "permitted"
      PROVE  call[e][u] = "permitted"
  BY <1>1, <1>2
<1> QED
  BY <1>1, <1>2, QuietStep

\* The steps of a message's handler leave the calls alone or reset a round.
LEMMA StepInv ==
  ASSUME Inv, NEW d \in Messages, Step(d)
  PROVE  Inv'
<1>0. call \in [Messages -> [Tools -> CallStates]]
  BY DEF Inv, Typed
<1>1. UNCHANGED <<waiting, control, frozen, disabled>>
  BY DEF Step, Excuse, Begin, Answer, Request, ModelFails, NextRound, Replied,
         ReplyFails, Apologized, switchVars
<1>2. CASE call' = call
  BY <1>0, <1>1, <1>2, QuietStep
<1>3. CASE Request(d)
  <2>1. PICK asked \in SUBSET Tools :
          call' = [call EXCEPT ![d] = [t \in Tools |->
                     IF t \in asked THEN "called" ELSE "none"]]
    BY <1>3 DEF Request
  <2>2. call' \in [Messages -> [Tools -> CallStates]]
    BY <1>0, <2>1 DEF CallStates
  <2>3. ASSUME NEW e \in Messages, NEW u \in Tools, call'[e][u] = "permitted"
        PROVE  call[e][u] = "permitted"
    BY <1>0, <2>1, <2>3
  <2> QED
    BY <1>1, <2>2, <2>3, QuietStep
<1>4. CASE NextRound(d)
  <2>1. call' = [call EXCEPT ![d] = NoCalls]
    BY <1>4 DEF NextRound
  <2>2. call' \in [Messages -> [Tools -> CallStates]]
    BY <1>0, <2>1 DEF CallStates, NoCalls
  <2>3. ASSUME NEW e \in Messages, NEW u \in Tools, call'[e][u] = "permitted"
        PROVE  call[e][u] = "permitted"
    BY <1>0, <2>1, <2>3 DEF NoCalls
  <2> QED
    BY <1>1, <2>2, <2>3, QuietStep
<1> QED
  BY <1>2, <1>3, <1>4
     DEF Step, Excuse, Begin, Answer, ModelFails, Replied, ReplyFails, Apologized

-----------------------------------------------------------------------------
(* The steps that append to the queue.                                      *)

\* A call is permitted only while nothing stops its tool.
LEMMA InvokeInv ==
  ASSUME Inv, NEW d \in Messages, NEW t \in Tools, Invoke(d, t)
  PROVE  Inv'
<1> DEFINE e == <<d, t>>
           n == Len(waiting)
<1>1. e \in Entries /\ waiting \in Seq(Entries) /\ waiting' = Append(waiting, e)
  BY DEF Inv, Typed, Invoke, Entries
<1>2. /\ waiting' \in Seq(Entries) /\ Len(waiting') = n + 1 /\ n \in Nat
      /\ \A i \in 1..n : waiting'[i] = waiting[i]
      /\ waiting'[n + 1] = e
  BY <1>1, QueueAppend
<1>3. UNCHANGED <<control, frozen, disabled>>
  BY DEF Invoke, switchVars
<1>4. PICK s \in CallStates :
        call' = [call EXCEPT ![d][t] = s] /\ (s = "permitted" => ~Blocked(t))
  BY DEF Invoke, CallStates
<1>5. /\ call' \in [Messages -> [Tools -> CallStates]]
      /\ call'[d][t] = s
      /\ \A f \in Messages, u \in Tools :
           call'[f][u] # call[f][u] => f = d /\ u = t
  BY <1>4, CallUpdate DEF Inv, Typed
<1>6. Typed'
  BY <1>2, <1>3, <1>5 DEF Inv, Typed
<1>7. OneRecord'
  <2> SUFFICES ASSUME NEW i \in 1..(n + 1), NEW o \in Controls, waiting'[i] = <<o>>
               PROVE  /\ control[o] = "sent"
                      /\ \A j \in 1..(n + 1) : waiting'[j] = <<o>> => j = i
    BY <1>2, <1>3 DEF OneRecord
  <2>1. <<o>> # e
    BY EntriesDiffer
  <2>2. \A j \in 1..(n + 1) : waiting'[j] = <<o>> => j \in 1..n /\ waiting[j] = <<o>>
    <3> SUFFICES ASSUME NEW j \in 1..(n + 1), waiting'[j] = <<o>>
                 PROVE  j \in 1..n /\ waiting[j] = <<o>>
      OBVIOUS
    <3> DEFINE x == <<o>>
    <3>1. /\ n \in Nat /\ x # e /\ waiting'[n + 1] = e /\ waiting'[j] = x
          /\ \A k \in 1..n : waiting'[k] = waiting[k]
      BY <1>2, <2>1
    <3>2. j \in 1..n /\ waiting[j] = x
      <4> HIDE DEF x, e, n
      <4> QED
        BY <3>1, OlderEntry
    <3> QED
      BY <3>2
  <2>3. i \in 1..n /\ waiting[i] = <<o>>
    BY <2>2
  <2> QED
    BY <2>2, <2>3 DEF Inv, OneRecord
<1>8. ASSUME NEW i \in 1..n, NEW o \in Controls, Behind(i, o)
      PROVE  Behind(i, o)'
  BY <1>2, <1>8 DEF Behind
<1>9. FreezeCovers'
  <2> SUFFICES ASSUME NEW i \in 1..(n + 1), NEW f \in Messages, NEW u \in Tools,
                      waiting'[i] = <<f, u>>, call'[f][u] = "permitted", frozen
               PROVE  \E o \in Controls : Operation[o].kind = "freeze" /\ Behind(i, o)'
    BY <1>2, <1>3 DEF FreezeCovers
  <2>1. ~(f = d /\ u = t)
    BY <1>4, <1>5 DEF Blocked
  <2>2. call[f][u] = "permitted"
    BY <1>5, <2>1
  <2>3. i \in 1..n /\ waiting[i] = <<f, u>>
    BY <1>2, <2>1
  <2>4. PICK o \in Controls : Operation[o].kind = "freeze" /\ Behind(i, o)
    BY <2>2, <2>3 DEF Inv, FreezeCovers
  <2> QED
    BY <1>8, <2>3, <2>4
<1>10. DisableCovers'
  <2> SUFFICES ASSUME NEW i \in 1..(n + 1), NEW f \in Messages, NEW u \in Tools,
                      waiting'[i] = <<f, u>>, call'[f][u] = "permitted",
                      u \in disabled
               PROVE  \E o \in Controls : /\ Operation[o].kind = "disable"
                                          /\ Operation[o].tool = u
                                          /\ Behind(i, o)'
    BY <1>2, <1>3 DEF DisableCovers
  <2>1. ~(f = d /\ u = t)
    BY <1>4, <1>5 DEF Blocked
  <2>2. call[f][u] = "permitted"
    BY <1>5, <2>1
  <2>3. i \in 1..n /\ waiting[i] = <<f, u>>
    BY <1>2, <2>1
  <2>4. PICK o \in Controls : /\ Operation[o].kind = "disable"
                              /\ Operation[o].tool = u /\ Behind(i, o)
    BY <2>2, <2>3 DEF Inv, DisableCovers
  <2> QED
    BY <1>8, <2>3, <2>4
<1> QED
  BY <1>6, <1>7, <1>9, <1>10 DEF Inv

\* A stop takes effect and appends its record in one step, behind every call
\* that was permitted before it.
LEMMA ApplyInv ==
  ASSUME Inv, NEW p \in Controls, Apply(p)
  PROVE  Inv'
<1> DEFINE e == <<p>>
           n == Len(waiting)
<1>1. e \in Entries /\ waiting \in Seq(Entries) /\ waiting' = Append(waiting, e)
  BY DEF Inv, Typed, Apply, Entries
<1>2. /\ waiting' \in Seq(Entries) /\ Len(waiting') = n + 1 /\ n \in Nat
      /\ \A i \in 1..n : waiting'[i] = waiting[i]
      /\ waiting'[n + 1] = e
  BY <1>1, QueueAppend
<1>3. /\ control[p] = "unsent" /\ call' = call
      /\ control' = [control EXCEPT ![p] = "sent"]
  BY DEF Apply
<1>4. Typed'
  BY <1>2, <1>3 DEF Inv, Typed
<1>5. OneRecord'
  <2> SUFFICES ASSUME NEW i \in 1..(n + 1), NEW o \in Controls, waiting'[i] = <<o>>
               PROVE  /\ control'[o] = "sent"
                      /\ \A j \in 1..(n + 1) : waiting'[j] = <<o>> => j = i
    BY <1>2 DEF OneRecord
  <2>1. \A j \in 1..n : waiting[j] # <<p>>
    BY <1>3 DEF Inv, OneRecord
  <2>2. CASE o = p
    <3>1. \A j \in 1..(n + 1) : waiting'[j] = <<o>> => j = n + 1
      BY <1>2, <2>1, <2>2
    <3> QED
      BY <1>3, <2>2, <3>1 DEF Inv, Typed
  <2>3. CASE o # p
    <3>1. <<o>> # e
      BY <2>3
    <3>2. \A j \in 1..(n + 1) : waiting'[j] = <<o>> => j \in 1..n /\ waiting[j] = <<o>>
      BY <1>2, <3>1
    <3>3. i \in 1..n /\ waiting[i] = <<o>>
      BY <3>2
    <3>4. control[o] = "sent" /\ \A j \in 1..n : waiting[j] = <<o>> => j = i
      BY <3>3 DEF Inv, OneRecord
    <3>5. control'[o] = control[o]
      BY <1>3, <2>3 DEF Inv, Typed
    <3> QED
      BY <3>2, <3>4, <3>5
  <2> QED
    BY <2>2, <2>3
<1>6. ASSUME NEW i \in 1..n
      PROVE  Behind(i, p)'
  BY <1>2 DEF Behind
<1>7. ASSUME NEW i \in 1..n, NEW o \in Controls, Behind(i, o)
      PROVE  Behind(i, o)'
  BY <1>2, <1>7 DEF Behind
<1>8. ASSUME NEW i \in 1..(n + 1), NEW f \in Messages, NEW u \in Tools,
             waiting'[i] = <<f, u>>
      PROVE  i \in 1..n /\ waiting[i] = <<f, u>>
  <2>1. <<f, u>> # e
    BY EntriesDiffer
  <2> DEFINE x == <<f, u>>
  <2>2. /\ n \in Nat /\ x # e /\ waiting'[n + 1] = e /\ waiting'[i] = x
        /\ \A k \in 1..n : waiting'[k] = waiting[k]
    BY <1>2, <1>8, <2>1
  <2>3. i \in 1..n /\ waiting[i] = x
    <3> HIDE DEF x, e, n
    <3> QED
      BY <2>2, OlderEntry
  <2> QED
    BY <2>3
<1>9. FreezeCovers'
  <2> SUFFICES ASSUME NEW i \in 1..(n + 1), NEW f \in Messages, NEW u \in Tools,
                      waiting'[i] = <<f, u>>, call[f][u] = "permitted", frozen'
               PROVE  \E o \in Controls : Operation[o].kind = "freeze" /\ Behind(i, o)'
    BY <1>2, <1>3 DEF FreezeCovers
  <2>1. i \in 1..n /\ waiting[i] = <<f, u>>
    BY <1>8
  <2>2. CASE Operation[p].kind = "freeze"
    BY <1>6, <2>1, <2>2
  <2>3. CASE Operation[p].kind # "freeze"
    <3>1. frozen
      BY <2>3 DEF Apply
    <3>2. PICK o \in Controls : Operation[o].kind = "freeze" /\ Behind(i, o)
      BY <2>1, <3>1 DEF Inv, FreezeCovers
    <3> QED
      BY <1>7, <2>1, <3>2
  <2> QED
    BY <2>2, <2>3
<1>10. DisableCovers'
  <2> SUFFICES ASSUME NEW i \in 1..(n + 1), NEW f \in Messages, NEW u \in Tools,
                      waiting'[i] = <<f, u>>, call[f][u] = "permitted",
                      u \in disabled'
               PROVE  \E o \in Controls : /\ Operation[o].kind = "disable"
                                          /\ Operation[o].tool = u
                                          /\ Behind(i, o)'
    BY <1>2, <1>3 DEF DisableCovers
  <2>1. i \in 1..n /\ waiting[i] = <<f, u>>
    BY <1>8
  <2>2. CASE Operation[p].kind = "disable" /\ Operation[p].tool = u
    BY <1>6, <2>1, <2>2
  <2>3. CASE ~(Operation[p].kind = "disable" /\ Operation[p].tool = u)
    <3>1. u \in disabled
      BY <2>3 DEF Apply
    <3>2. PICK o \in Controls : /\ Operation[o].kind = "disable"
                                /\ Operation[o].tool = u /\ Behind(i, o)
      BY <2>1, <3>1 DEF Inv, DisableCovers
    <3> QED
      BY <1>7, <2>1, <3>2
  <2> QED
    BY <2>2, <2>3
<1> QED
  BY <1>4, <1>5, <1>9, <1>10 DEF Inv

-----------------------------------------------------------------------------
(* The step that takes from the queue.                                      *)

\* What waits behind an entry still does when the oldest entry settles, and
\* the record of a stop that waits behind another entry is not the oldest.
LEMMA SettleInv ==
  ASSUME Inv, Settle
  PROVE  Inv'
<1> DEFINE n == Len(waiting)
           m == Len(waiting')
<1>1. waiting \in Seq(Entries) /\ waiting # <<>> /\ waiting' = Tail(waiting)
  BY DEF Inv, Typed, Settle
<1>2. /\ waiting' \in Seq(Entries) /\ m = n - 1 /\ n \in Nat
      /\ \A i \in 1..m : i + 1 \in 1..n /\ waiting'[i] = waiting[i + 1]
      /\ 1 \in 1..n /\ Head(waiting) = waiting[1]
  BY <1>1, QueueTail
<1>3. UNCHANGED <<frozen, disabled>>
  BY DEF Settle
<1>4. /\ call' \in [Messages -> [Tools -> CallStates]]
      /\ \A f \in Messages, u \in Tools :
           call'[f][u] = "permitted" => call[f][u] = "permitted"
  <2>0. call \in [Messages -> [Tools -> CallStates]]
    BY DEF Inv, Typed
  <2>1. CASE call' = call
    BY <2>0, <2>1
  <2>2. CASE \E d \in Messages, t \in Tools, s \in {"running", "ended"} :
               call' = [call EXCEPT ![d][t] = s]
    <3>1. PICK d \in Messages, t \in Tools, s \in {"running", "ended"} :
            call' = [call EXCEPT ![d][t] = s]
      BY <2>2
    <3>2. s \in CallStates /\ s # "permitted"
      BY DEF CallStates
    <3>3. /\ call' \in [Messages -> [Tools -> CallStates]]
          /\ call'[d][t] = s
          /\ \A e \in Messages, u \in Tools :
               call'[e][u] # call[e][u] => e = d /\ u = t
      BY <2>0, <3>1, <3>2, CallUpdate
    <3> QED
      BY <3>2, <3>3
  <2> QED
    BY <2>1, <2>2 DEF Settle, EndCall
<1>5. /\ control' \in [Controls -> {"unsent", "sent", "returned"}]
      /\ \A o \in Controls : control'[o] # control[o] => waiting[1] = <<o>>
  BY <1>2 DEF Settle, Inv, Typed
<1>6. Typed'
  BY <1>2, <1>4, <1>5 DEF Typed
<1>7. OneRecord'
  <2> SUFFICES ASSUME NEW i \in 1..m, NEW o \in Controls, waiting'[i] = <<o>>
               PROVE  /\ control'[o] = "sent"
                      /\ \A j \in 1..m : waiting'[j] = <<o>> => j = i
    BY DEF OneRecord
  <2>1. i + 1 \in 1..n /\ waiting[i + 1] = <<o>>
    BY <1>2
  <2>2. control[o] = "sent" /\ \A j \in 1..n : waiting[j] = <<o>> => j = i + 1
    BY <2>1 DEF Inv, OneRecord
  <2>3. waiting[1] # <<o>>
    BY <1>2, <2>2
  <2>4. \A j \in 1..m : waiting'[j] = <<o>> => j + 1 = i + 1
    BY <1>2, <2>2
  <2> QED
    BY <1>2, <1>5, <2>2, <2>3, <2>4
<1>8. ASSUME NEW i \in 1..m, NEW o \in Controls, Behind(i + 1, o)
      PROVE  Behind(i, o)'
  <2>1. PICK j \in 1..n : i + 1 < j /\ waiting[j] = <<o>>
    BY <1>8 DEF Behind
  <2>2. j - 1 \in 1..m /\ i < j - 1
    BY <1>2, <2>1
  <2>3. waiting'[j - 1] = waiting[(j - 1) + 1] /\ (j - 1) + 1 = j
    BY <1>2, <2>2
  <2> QED
    BY <2>1, <2>2, <2>3 DEF Behind
<1>9. FreezeCovers'
  <2> SUFFICES ASSUME NEW i \in 1..m, NEW f \in Messages, NEW u \in Tools,
                      waiting'[i] = <<f, u>>, call'[f][u] = "permitted", frozen
               PROVE  \E o \in Controls : Operation[o].kind = "freeze" /\ Behind(i, o)'
    BY <1>3 DEF FreezeCovers
  <2>1. i + 1 \in 1..n /\ waiting[i + 1] = <<f, u>>
    BY <1>2
  <2>2. PICK o \in Controls : Operation[o].kind = "freeze" /\ Behind(i + 1, o)
    BY <1>4, <2>1 DEF Inv, FreezeCovers
  <2> QED
    BY <1>8, <2>2
<1>10. DisableCovers'
  <2> SUFFICES ASSUME NEW i \in 1..m, NEW f \in Messages, NEW u \in Tools,
                      waiting'[i] = <<f, u>>, call'[f][u] = "permitted",
                      u \in disabled
               PROVE  \E o \in Controls : /\ Operation[o].kind = "disable"
                                          /\ Operation[o].tool = u
                                          /\ Behind(i, o)'
    BY <1>3 DEF DisableCovers
  <2>1. i + 1 \in 1..n /\ waiting[i + 1] = <<f, u>>
    BY <1>2
  <2>2. PICK o \in Controls : /\ Operation[o].kind = "disable"
                              /\ Operation[o].tool = u /\ Behind(i + 1, o)
    BY <1>4, <2>1 DEF Inv, DisableCovers
  <2> QED
    BY <1>8, <2>2
<1> QED
  BY <1>6, <1>7, <1>9, <1>10 DEF Inv

-----------------------------------------------------------------------------
(* The theorem.                                                             *)

\* Every step keeps the invariant.
LEMMA NextInv == Inv /\ [Next]_vars => Inv'
<1> SUFFICES ASSUME Inv, [Next]_vars PROVE Inv'
  OBVIOUS
<1>1. CASE UNCHANGED <<waiting, control, frozen, disabled, call>>
  BY <1>1, QuietStep DEF Inv, Typed
<1>2. CASE \E d \in Messages : Step(d)
  BY <1>2, StepInv
<1>3. CASE \E d \in Messages, t \in Tools : Invoke(d, t)
  BY <1>3, InvokeInv
<1>4. CASE \E d \in Messages, t \in Tools : Malformed(d, t) \/ ToolEnds(d, t)
  BY <1>4, EndingIsQuiet DEF Malformed, ToolEnds, switchVars
<1>5. CASE Settle
  BY <1>5, SettleInv
<1>6. CASE \E o \in Controls : Apply(o)
  BY <1>6, ApplyInv
<1> QED
  <2>1. CASE UNCHANGED vars
    BY <1>1, <2>1 DEF vars, switchVars
  <2>2. CASE (\E t \in Released : Activate(t)) \/ Publish \/ Restore
    BY <1>1, <2>2 DEF Activate, Publish, Restore, switchVars
  <2>3. CASE \E d \in Messages : Deliver(d)
    BY <1>1, <2>3 DEF Deliver, switchVars
  <2> QED
    BY <1>2, <1>3, <1>4, <1>5, <1>6, <2>1, <2>2, <2>3 DEF Next, CallStep

\* In a state of the invariant, a tool starts only if nothing stops it.
LEMMA StartsUnstopped ==
  ASSUME Inv, [Next]_vars, NEW d \in Messages, NEW t \in Tools,
         call[d][t] # "running", call'[d][t] = "running"
  PROVE  ~Stopped(t)
<1>0. call \in [Messages -> [Tools -> CallStates]]
  BY DEF Inv, Typed
<1>1. Settle
  <2>1. ASSUME NEW e \in Messages, NEW u \in Tools, NEW s \in CallStates,
               s # "running", call' = [call EXCEPT ![e][u] = s]
        PROVE  FALSE
    BY <1>0, <2>1, CallUpdate
  <2>2. ASSUME NEW e \in Messages, NEW r \in [Tools -> CallStates \ {"running"}],
               call' = [call EXCEPT ![e] = r]
        PROVE  FALSE
    BY <1>0, <2>2
  <2>3. call' # call
    OBVIOUS
  <2>4. ASSUME NEW e \in Messages, Request(e)
        PROVE  FALSE
    <3>1. PICK asked \in SUBSET Tools :
            call' = [call EXCEPT ![e] = [u \in Tools |->
                       IF u \in asked THEN "called" ELSE "none"]]
      BY <2>4 DEF Request
    <3>2. [u \in Tools |-> IF u \in asked THEN "called" ELSE "none"]
            \in [Tools -> CallStates \ {"running"}]
      BY DEF CallStates
    <3> QED
      BY <2>2, <3>1, <3>2
  <2>5. ASSUME NEW e \in Messages, NextRound(e)
        PROVE  FALSE
    <3>1. call' = [call EXCEPT ![e] = NoCalls]
      BY <2>5 DEF NextRound
    <3>2. NoCalls \in [Tools -> CallStates \ {"running"}]
      BY DEF CallStates, NoCalls
    <3> QED
      BY <2>2, <3>1, <3>2
  <2>6. ASSUME NEW e \in Messages, NEW u \in Tools, CallStep(e, u)
        PROVE  FALSE
    <3>1. \E s \in {"refused", "permitted", "ended"} :
            call' = [call EXCEPT ![e][u] = s]
      BY <2>6 DEF CallStep, Invoke, Malformed, ToolEnds, EndCall
    <3> QED
      BY <2>1, <3>1 DEF CallStates
  <2>7. ~UNCHANGED vars
    BY <2>3 DEF vars
  <2>8. ASSUME NEW e \in Messages, Step(e)
        PROVE  FALSE
    BY <2>3, <2>4, <2>5, <2>8
       DEF Step, Excuse, Begin, Answer, ModelFails, Replied, ReplyFails, Apologized
  <2> QED
    BY <2>3, <2>6, <2>7, <2>8
       DEF Next, Activate, Publish, Restore, Deliver, Apply
<1>2. waiting # <<>> /\ waiting \in Seq(Entries)
  BY <1>1 DEF Settle, Inv, Typed
<1>3. 1 \in 1..Len(waiting) /\ Head(waiting) = waiting[1]
  BY <1>2, QueueTail
<1>4. waiting[1] = <<d, t>> /\ call[d][t] = "permitted"
  <2>1. PICK e \in Messages, u \in Tools, s \in {"running", "ended"} :
          /\ Head(waiting) = <<e, u>>
          /\ s = "running" => call[e][u] = "permitted"
          /\ call' = [call EXCEPT ![e][u] = s]
    BY <1>1 DEF Settle, EndCall
  <2>2. s \in CallStates
    BY DEF CallStates
  <2>3. e = d /\ u = t /\ s = "running"
    BY <1>0, <2>1, <2>2, CallUpdate
  <2> QED
    BY <1>3, <2>1, <2>3
<1>5. ASSUME NEW o \in Controls, Behind(1, o)
      PROVE  control[o] = "sent"
  BY <1>5 DEF Behind, Inv, OneRecord
<1>6. ~(frozen /\ Settled("freeze", t))
  <2> SUFFICES ASSUME frozen, Settled("freeze", t) PROVE FALSE
    OBVIOUS
  <2>1. PICK o \in Controls : Operation[o].kind = "freeze" /\ Behind(1, o)
    BY <1>3, <1>4 DEF Inv, FreezeCovers
  <2> QED
    BY <1>5, <2>1 DEF Settled
<1>7. ~(t \in disabled /\ Settled("disable", t))
  <2> SUFFICES ASSUME t \in disabled, Settled("disable", t) PROVE FALSE
    OBVIOUS
  <2>1. PICK o \in Controls : /\ Operation[o].kind = "disable"
                              /\ Operation[o].tool = t /\ Behind(1, o)
    BY <1>3, <1>4 DEF Inv, DisableCovers
  <2> QED
    BY <1>5, <2>1 DEF Settled
<1> QED
  BY <1>6, <1>7 DEF Stopped

\* The kill switch: once a freeze, or a disable of the tool, has returned, no
\* call of the tool starts before it is lifted (governor.ts, disable to
\* #decide, on the order in which audit appends settle).
THEOREM KillSwitchHolds == Spec => StopHolds
<1>1. Inv /\ [Next]_vars =>
        [\A d \in Messages, t \in Tools :
           call[d][t] # "running" /\ call'[d][t] = "running" => ~Stopped(t)]_vars
  BY StartsUnstopped
<1> QED
  BY <1>1, InitInv, NextInv, PTL DEF Spec, StopHolds

-----------------------------------------------------------------------------
(* What a conversation remembers.                                           *)

\* A transcript of whole turns, but for the oldest: a turn begins with the
\* user's text, is not interrupted, and is in it once.
Apart(h) ==
  \A i, j \in 1..Len(h) :
    i < j => /\ h[j].part = "user" => h[i].of # h[j].of
             /\ h[j].part # "user" => h[j].of = h[j - 1].of

\* s is the transcript h and, after it, what turn d has said so far.
Extended(s, h, d) ==
  /\ Len(h) < Len(s)
  /\ \A i \in 1..Len(h) : s[i] = h[i]
  /\ \A i \in (Len(h) + 1)..Len(s) :
       s[i].of = d /\ (s[i].part = "user" <=> i = Len(h) + 1)

EndsWith(h, d) == h # <<>> /\ h[Len(h)].of = d

\* A full history may have lost a turn; another holds it.
Holds(h, d) == Len(h) = MaxHistory \/ \E i \in 1..Len(h) : h[i].of = d

LEMMA SaidIs ==
  ASSUME NEW d \in Messages, NEW p \in {"user", "asked", "output", "answer"}
  PROVE  Said(d, p) \in Entry /\ Said(d, p).of = d /\ Said(d, p).part = p
BY DEF Said, Entry

\* A turn's first request is the history and the user's text.
LEMMA BeginsExtended ==
  ASSUME NEW h \in Seq(Entry), NEW d \in Messages, NEW s, s = Append(h, Said(d, "user"))
  PROVE  s \in Seq(Entry) /\ Extended(s, h, d)
<1>1. /\ s \in Seq(Entry) /\ Len(s) = Len(h) + 1 /\ Len(h) \in Nat
      /\ \A i \in 1..Len(h) : s[i] = h[i]
      /\ s[Len(h) + 1] = Said(d, "user")
  BY SaidIs
<1>2. \A i \in (Len(h) + 1)..Len(s) : i = Len(h) + 1
  BY <1>1
<1>. QED  BY <1>1, <1>2, SaidIs DEF Extended

\* What the turn says next extends the history as well.
LEMMA StaysExtended ==
  ASSUME NEW h \in Seq(Entry), NEW d \in Messages, NEW s \in Seq(Entry), Extended(s, h, d),
         NEW o \in Seq(Entry), \A i \in 1..Len(o) : o[i].of = d /\ o[i].part # "user",
         NEW r, r = s \o o
  PROVE  r \in Seq(Entry) /\ Extended(r, h, d)
<1>1. /\ r \in Seq(Entry) /\ Len(r) = Len(s) + Len(o)
      /\ Len(h) \in Nat /\ Len(s) \in Nat /\ Len(o) \in Nat
      /\ \A i \in 1..Len(r) : r[i] = IF i <= Len(s) THEN s[i] ELSE o[i - Len(s)]
  OBVIOUS
<1>2. Len(h) < Len(s)
  BY DEF Extended
<1>3. ASSUME NEW i \in 1..Len(h) PROVE r[i] = h[i]
  <2>1. i \in 1..Len(r) /\ i <= Len(s)
    BY <1>1, <1>2
  <2>2. r[i] = s[i]
    BY <1>1, <2>1
  <2>. QED  BY <2>2 DEF Extended
<1>4. ASSUME NEW i \in (Len(h) + 1)..Len(r)
      PROVE  r[i].of = d /\ (r[i].part = "user" <=> i = Len(h) + 1)
  <2>1. i \in 1..Len(r)
    BY <1>1
  <2>2. CASE i <= Len(s)
    <3>1. i \in (Len(h) + 1)..Len(s) /\ r[i] = s[i]
      BY <1>1, <2>1, <2>2
    <3>. QED  BY <3>1 DEF Extended
  <2>3. CASE ~ (i <= Len(s))
    <3>1. i - Len(s) \in 1..Len(o) /\ r[i] = o[i - Len(s)] /\ i # Len(h) + 1
      BY <1>1, <1>2, <2>1, <2>3
    <3>. QED  BY <3>1
  <2>. QED  BY <2>2, <2>3
<1>. QED  BY <1>1, <1>2, <1>3, <1>4 DEF Extended

\* One entry more.
LEMMA AppendExtended ==
  ASSUME NEW h \in Seq(Entry), NEW d \in Messages, NEW s \in Seq(Entry), Extended(s, h, d),
         NEW p \in {"asked", "output", "answer"}, NEW r, r = Append(s, Said(d, p))
  PROVE  r \in Seq(Entry) /\ Extended(r, h, d)
<1>. DEFINE e == Said(d, p)
            o == <<e>>
<1>1. e \in Entry /\ e.of = d /\ e.part # "user"
  BY SaidIs
<1>. HIDE DEF e
<1>2. o \in Seq(Entry) /\ Len(o) = 1 /\ o[1] = e /\ r = s \o o
  BY <1>1 DEF e
<1>3. \A i \in 1..Len(o) : o[i].of = d /\ o[i].part # "user"
  BY <1>1, <1>2
<1>. HIDE DEF o
<1>. QED  BY <1>2, <1>3, StaysExtended

\* A transcript of whole turns followed by a turn that is not in it is one.
LEMMA ExtendedApart ==
  ASSUME NEW h \in Seq(Entry), NEW d \in Messages, NEW s \in Seq(Entry), Extended(s, h, d),
         Apart(h), \A i \in 1..Len(h) : h[i].of # d
  PROVE  Apart(s)
<1>. SUFFICES ASSUME NEW i \in 1..Len(s), NEW j \in 1..Len(s), i < j
              PROVE  /\ s[j].part = "user" => s[i].of # s[j].of
                     /\ s[j].part # "user" => s[j].of = s[j - 1].of
  BY DEF Apart
<1>0. Len(h) \in Nat /\ Len(s) \in Nat /\ Len(h) < Len(s)
  BY DEF Extended
<1>1. CASE j <= Len(h)
  <2>1. i \in 1..Len(h) /\ j \in 1..Len(h) /\ j - 1 \in 1..Len(h)
    BY <1>0, <1>1
  <2>2. s[i] = h[i] /\ s[j] = h[j] /\ s[j - 1] = h[j - 1]
    BY <2>1 DEF Extended
  <2>. QED  BY <2>1, <2>2 DEF Apart
<1>2. CASE j = Len(h) + 1
  <2>1. i \in 1..Len(h) /\ j \in (Len(h) + 1)..Len(s)
    BY <1>0, <1>2
  <2>2. s[i] = h[i] /\ s[j].of = d /\ s[j].part = "user"
    BY <1>2, <2>1 DEF Extended
  <2>. QED  BY <2>1, <2>2
<1>3. CASE j > Len(h) + 1
  <2>1. j \in (Len(h) + 1)..Len(s) /\ j - 1 \in (Len(h) + 1)..Len(s) /\ j # Len(h) + 1
    BY <1>0, <1>3
  <2>2. s[j].of = d /\ s[j - 1].of = d /\ s[j].part # "user"
    BY <2>1 DEF Extended
  <2>. QED  BY <2>2
<1>. QED  BY <1>0, <1>1, <1>2, <1>3

\* The cut keeps the last entries, in their order.
LEMMA NewestKeeps ==
  ASSUME NEW s \in Seq(Entry), NEW n, n = Newest(s)
  PROVE  /\ n \in Seq(Entry)
         /\ Len(n) = IF Len(s) > MaxHistory THEN MaxHistory ELSE Len(s)
         /\ \A i \in 1..Len(n) : /\ i + (Len(s) - Len(n)) \in 1..Len(s)
                                 /\ n[i] = s[i + (Len(s) - Len(n))]
<1>. DEFINE first == IF Len(s) > MaxHistory THEN Len(s) - MaxHistory + 1 ELSE 1
            kept == IF Len(s) > MaxHistory THEN MaxHistory ELSE Len(s)
<1>1. Len(s) \in Nat /\ MaxHistory \in Nat
  BY BoundsAssumption
<1>2. first \in 1..(Len(s) + 1) /\ kept \in Nat /\ Len(s) - first + 1 = kept
      /\ Len(s) - kept = first - 1
  BY <1>1
<1>3. n = SubSeq(s, first, Len(s))
  BY DEF Newest
<1>. HIDE DEF first, kept
<1>4. \A i \in first..Len(s) : i \in 1..Len(s) /\ s[i] \in Entry
  BY <1>1, <1>2
<1>5. /\ n \in Seq(Entry) /\ Len(n) = Len(s) - first + 1
      /\ \A i \in 1..Len(n) : n[i] = s[first + i - 1]
  BY <1>1, <1>2, <1>3, <1>4
<1>6. Len(n) = kept
  BY <1>2, <1>5
<1>7. ASSUME NEW i \in 1..Len(n)
      PROVE  i + (Len(s) - Len(n)) \in 1..Len(s) /\ n[i] = s[i + (Len(s) - Len(n))]
  <2>1. i + (Len(s) - Len(n)) = first + i - 1 /\ first + i - 1 \in 1..Len(s)
    BY <1>1, <1>2, <1>5, <1>6
  <2>. QED  BY <1>5, <2>1
<1>. QED  BY <1>5, <1>6, <1>7 DEF kept

\* What a retained conversation remembers of a turn and of those before it.
LEMMA CutHistory ==
  ASSUME NEW h \in Seq(Entry), NEW d \in Messages, NEW s \in Seq(Entry), Extended(s, h, d),
         Apart(h), Len(h) <= MaxHistory, \A i \in 1..Len(h) : h[i].of # d,
         NEW n, n = Newest(s)
  PROVE  /\ Len(n) <= MaxHistory /\ Apart(n) /\ EndsWith(n, d)
         /\ \A i \in 1..Len(n) : n[i].of = d \/ \E j \in 1..Len(h) : n[i] = h[j]
         /\ \A e \in Messages : Holds(h, e) => Holds(n, e)
<1>. DEFINE k == Len(s) - Len(n)
<1>0. /\ n \in Seq(Entry)
      /\ Len(n) = IF Len(s) > MaxHistory THEN MaxHistory ELSE Len(s)
      /\ \A i \in 1..Len(n) : i + k \in 1..Len(s) /\ n[i] = s[i + k]
  BY NewestKeeps
<1>1. /\ Len(h) \in Nat /\ Len(s) \in Nat /\ MaxHistory \in Nat \ {0} /\ Len(h) < Len(s)
      /\ Len(n) \in 1..MaxHistory /\ k \in Nat
  BY <1>0, BoundsAssumption DEF Extended
<1>2. Len(n) < MaxHistory => k = 0 /\ Len(n) = Len(s)
  BY <1>0, <1>1
<1>. HIDE DEF k
<1>3. Apart(s)
  BY ExtendedApart
<1>4. Apart(n)
  <2>. SUFFICES ASSUME NEW i \in 1..Len(n), NEW j \in 1..Len(n), i < j
                PROVE  /\ n[j].part = "user" => n[i].of # n[j].of
                       /\ n[j].part # "user" => n[j].of = n[j - 1].of
    BY DEF Apart
  <2>1. j - 1 \in 1..Len(n) /\ (j - 1) + k = (j + k) - 1 /\ i + k < j + k
    BY <1>1
  <2>2. /\ i + k \in 1..Len(s) /\ n[i] = s[i + k]
        /\ j + k \in 1..Len(s) /\ n[j] = s[j + k]
        /\ n[j - 1] = s[(j - 1) + k]
    BY <1>0, <2>1
  <2>3. /\ s[j + k].part = "user" => s[i + k].of # s[j + k].of
        /\ s[j + k].part # "user" => s[j + k].of = s[(j + k) - 1].of
    BY <1>3, <2>1, <2>2 DEF Apart
  <2>. QED  BY <2>1, <2>2, <2>3
<1>5. EndsWith(n, d)
  <2>1. Len(n) \in 1..Len(n) /\ n # <<>> /\ Len(n) + k = Len(s)
    BY <1>0, <1>1 DEF k
  <2>2. n[Len(n)] = s[Len(s)]
    BY <1>0, <2>1
  <2>3. Len(s) \in (Len(h) + 1)..Len(s)
    BY <1>1
  <2>. QED  BY <2>1, <2>2, <2>3 DEF EndsWith, Extended
<1>6. ASSUME NEW i \in 1..Len(n) PROVE n[i].of = d \/ \E j \in 1..Len(h) : n[i] = h[j]
  <2>1. i + k \in 1..Len(s) /\ n[i] = s[i + k]
    BY <1>0
  <2>2. i + k \in 1..Len(h) \/ i + k \in (Len(h) + 1)..Len(s)
    BY <1>1, <2>1
  <2>. QED  BY <2>1, <2>2 DEF Extended
<1>7. ASSUME NEW e \in Messages, Holds(h, e) PROVE Holds(n, e)
  <2>1. CASE Len(n) = MaxHistory
    BY <2>1 DEF Holds
  <2>2. CASE Len(n) # MaxHistory
    <3>1. k = 0 /\ Len(n) = Len(s) /\ Len(h) # MaxHistory
      BY <1>1, <1>2, <2>2
    <3>2. PICK i \in 1..Len(h) : h[i].of = e
      BY <1>7, <3>1 DEF Holds
    <3>3. i \in 1..Len(n) /\ i + k = i
      BY <1>1, <3>1
    <3>4. n[i] = s[i] /\ s[i] = h[i]
      BY <1>0, <3>3 DEF Extended
    <3>. QED  BY <3>2, <3>3, <3>4 DEF Holds
  <2>. QED  BY <2>1, <2>2
<1>. QED  BY <1>1, <1>4, <1>5, <1>6, <1>7

\* The outputs of a round are entries of the turn, and none is its user's text.
LEMMA OutputsAre ==
  ASSUME NEW d \in Messages
  PROVE  /\ Outputs(d) \in Seq(Entry)
         /\ \A i \in 1..Len(Outputs(d)) : Outputs(d)[i].of = d /\ Outputs(d)[i].part # "user"
<1>. DEFINE S == {t \in Tools : call[d][t] = "ended"}
            k == Cardinality(S)
            e == Said(d, "output")
<1>1. IsFiniteSet(Tools) /\ S \subseteq Tools
  BY ShapeAssumption
<1>2. k \in Nat
  <2>. HIDE DEF S
  <2>1. IsFiniteSet(S)
    BY <1>1, FS_Subset
  <2>. QED  BY <2>1, FS_CardinalityType
<1>3. e \in Entry /\ e.of = d /\ e.part = "output"
  BY SaidIs
<1>4. Outputs(d) = [i \in 1..k |-> e]
  BY DEF Outputs
<1>. HIDE DEF k, e
<1>5. Outputs(d) \in Seq(Entry) /\ Len(Outputs(d)) = k
  BY <1>2, <1>3, <1>4
<1>. QED  BY <1>3, <1>4, <1>5

-----------------------------------------------------------------------------
(* Turns, what they are bound to and what is recorded of them.              *)
(*                                                                         *)
(* The invariant behind the five safety properties of a turn.  A message   *)
(* has a run only once its turn began; the turns of a history are those    *)
(* that have their answer; a turn that still asks the model works on the   *)
(* history as it stands, because no other turn of the conversation runs.   *)

Runs == [status : {"none", "open", "success", "failure"},
         snapshot : Content, targets : Content]
Stages == {"unsent", "opening", "done"} \union InTurn
Before == {"unsent", "opening"}
Asking == {"asking", "calling"}
Answered == {"replying", "apologizing", "done"}

\* The mark of a conversation is held by exactly one turn.
MarkInv ==
  /\ \A d, e \in Messages :
       stage[d] \in InTurn /\ stage[e] \in InTurn /\ Conversation[d] = Conversation[e] => d = e
  /\ \A d \in Messages : stage[d] \in InTurn => Conversation[d] \in inflight
  /\ \A c \in inflight : \E d \in Messages : stage[d] \in InTurn /\ Conversation[d] = c

RunInv ==
  /\ RunsAreFinished
  /\ \A d \in Messages : stage[d] \in Before => run[d].status = "none"
  /\ \A d \in Messages : run[d].status = "success" => stage[d] = "done"

\* The caches of the agent and of the evidence agree wherever both are read.
BoundInv ==
  /\ \A d \in Messages : stage[d] \in Asking =>
       /\ Conversation[d] \in DOMAIN personas
       /\ run[d].status = "open" => personas[Conversation[d]] = run[d].targets["prompt"]
  /\ \A c \in Retained :
       /\ c \in DOMAIN personas <=> c \in DOMAIN pinnedTargets
       /\ c \in DOMAIN personas => personas[c] = pinnedTargets[c]["prompt"]
  /\ \A d \in Messages : Conversation[d] \in Retained /\ run[d].status # "none" =>
       /\ Conversation[d] \in DOMAIN snapshots /\ run[d].snapshot = snapshots[Conversation[d]]
       /\ Conversation[d] \in DOMAIN pinnedTargets
       /\ run[d].targets = pinnedTargets[Conversation[d]]

HistoryInv ==
  /\ \A c \in Retained :
       /\ Len(history[c]) <= MaxHistory /\ Apart(history[c])
       /\ \A i \in 1..Len(history[c]) : stage[history[c][i].of] \in Answered
  /\ \A d \in Messages : Conversation[d] \in Retained =>
       /\ stage[d] \in Asking => Extended(said[d], history[Conversation[d]], d)
       /\ stage[d] = "replying" => EndsWith(history[Conversation[d]], d)
       /\ run[d].status = "success" => Holds(history[Conversation[d]], d)

FeedbackInv ==
  FeedbackOnOneRun /\ \A ch \in DOMAIN latest : latest[ch].run \in Messages

TurnInv == TypeOK /\ MarkInv /\ RunInv /\ BoundInv /\ HistoryInv /\ FeedbackInv

\* All but the switches and the content in force.
turnState == <<stage, inflight, snapshots, pinnedTargets, personas, history, said, run, latest>>

\* An entry is of a message.
LEMMA EntryOf ==
  ASSUME NEW h \in Seq(Entry), NEW i \in 1..Len(h)
  PROVE  h[i].of \in Messages
<1>1. h[i] \in Entry
  OBVIOUS
<1>. QED  BY <1>1 DEF Entry

\* The history and the entries of a turn, by type.
LEMMA HistoryTypes ==
  ASSUME TurnInv
  PROVE  /\ \A d \in Messages : Conversation[d] \in Conversations /\ said[d] \in Seq(Entry)
         /\ \A c \in Retained : c \in Conversations /\ history[c] \in Seq(Entry)
BY ShapeAssumption DEF TurnInv, TypeOK, Conversations

LEMMA InitTurnInv == Init => TurnInv
<1>. SUFFICES ASSUME Init PROVE TurnInv
  OBVIOUS
<1>. USE DEF Init
<1>1. FirstContent \in Content /\ NoRun \in Runs /\ NoRun.status = "none"
  BY BoundsAssumption DEF FirstContent, Content, NoRun, Runs
<1>2. /\ DOMAIN snapshots = {} /\ DOMAIN pinnedTargets = {} /\ DOMAIN pinnedTools = {}
      /\ DOMAIN personas = {} /\ DOMAIN latest = {}
  OBVIOUS
<1>3. \A d \in Messages : stage[d] = "unsent" /\ run[d].status = "none"
  BY <1>1
<1>4. \A c \in Retained : history[c] = <<>> /\ Len(history[c]) = 0
  BY ShapeAssumption
<1>5. TypeOK
  <2>1. NoCalls \in [Tools -> {"none", "called", "permitted", "refused", "running", "ended"}]
    BY DEF NoCalls
  <2>2. round \in [Messages -> 0..MaxRounds] /\ revisions \in 0..MaxRevisions
    BY BoundsAssumption
  <2>3. <<>> \in Seq(Entry)
    OBVIOUS
  <2>4. history \in [Conversations -> Seq(Entry)] /\ said \in [Messages -> Seq(Entry)]
    BY <2>3
  <2>5. run \in [Messages -> Runs]
    BY <1>1
  <2>. QED  BY <1>1, <1>2, <2>1, <2>2, <2>4, <2>5 DEF TypeOK, Runs
<1>6. MarkInv /\ RunInv
  BY <1>3 DEF MarkInv, RunInv, InTurn, RunsAreFinished
<1>7. BoundInv
  BY <1>2, <1>3 DEF BoundInv, Asking
<1>8. HistoryInv
  <2>1. \A d \in Messages : stage[d] \notin Asking /\ stage[d] # "replying"
                             /\ run[d].status # "success"
    BY <1>3 DEF Asking
  <2>2. ASSUME NEW c \in Retained
        PROVE  /\ Len(history[c]) <= MaxHistory /\ Apart(history[c])
               /\ \A i \in 1..Len(history[c]) : stage[history[c][i].of] \in Answered
    <3>1. 1..Len(history[c]) = {} /\ Len(history[c]) <= MaxHistory
      BY <1>4, BoundsAssumption
    <3>. QED  BY <3>1 DEF Apart
  <2>. QED  BY <2>1, <2>2 DEF HistoryInv
<1>9. FeedbackInv
  BY <1>2 DEF FeedbackInv, FeedbackOnOneRun
<1>. QED  BY <1>5, <1>6, <1>7, <1>8, <1>9 DEF TurnInv

\* A step that leaves the turns alone.
LEMMA TurnsAside ==
  ASSUME TurnInv, TypeOK', UNCHANGED turnState
  PROVE  TurnInv'
<1>. USE DEF turnState
<1>1. MarkInv' /\ RunInv'
  BY DEF TurnInv, MarkInv, RunInv, RunsAreFinished
<1>2. BoundInv'
  BY DEF TurnInv, BoundInv
<1>3. HistoryInv'
  BY DEF TurnInv, HistoryInv
<1>4. FeedbackInv'
  BY DEF TurnInv, FeedbackInv, FeedbackOnOneRun
<1>. QED  BY <1>1, <1>2, <1>3, <1>4 DEF TurnInv

LEMMA AsideInv ==
  ASSUME TurnInv,
         \/ \E t \in Released : Activate(t)
         \/ Publish \/ Restore
         \/ \E o \in Controls : Apply(o)
         \/ \E d \in Messages, t \in Tools : Invoke(d, t)
         \/ UNCHANGED vars
  PROVE  TurnInv'
<1>. USE DEF turnState, turnVars, bindings, evidenceVars, switchVars, contentVars
<1>0. active \in Content /\ snapshot \in Content
      /\ activated \subseteq Content /\ unpublished \subseteq Content
  BY DEF TurnInv, TypeOK
<1>1. ASSUME NEW t \in Released, Activate(t) PROVE TurnInv'
  <2>1. UNCHANGED turnState /\ UNCHANGED <<pinnedTools, round, call, frozen, disabled, control, snapshot>>
    BY <1>1 DEF Activate
  <2>2. revisions' \in 0..MaxRevisions /\ revisions + 1 \in 0..MaxRevisions
    BY <1>1, BoundsAssumption DEF Activate, TurnInv, TypeOK
  <2>3. active' \in Content
    BY <1>0, <1>1, <2>2, ShapeAssumption DEF Activate, Content
  <2>4. activated' \subseteq Content /\ unpublished' \subseteq Content
    BY <1>0, <1>1, <2>3 DEF Activate
  <2>5. TypeOK'
    BY <2>1, <2>2, <2>3, <2>4, <1>0 DEF TurnInv, TypeOK
  <2>. QED  BY <2>1, <2>5, TurnsAside
<1>2. ASSUME Publish \/ Restore PROVE TurnInv'
  <2>1. UNCHANGED turnState
        /\ UNCHANGED <<pinnedTools, round, call, frozen, disabled, control, activated, revisions>>
    BY <1>2 DEF Publish, Restore
  <2>2. active' \in Content /\ snapshot' \in Content /\ unpublished' \subseteq Content
    BY <1>0, <1>2 DEF Publish, Restore
  <2>3. TypeOK'
    BY <2>1, <2>2 DEF TurnInv, TypeOK
  <2>. QED  BY <2>1, <2>3, TurnsAside
<1>3. ASSUME NEW o \in Controls, Apply(o) PROVE TurnInv'
  <2>1. UNCHANGED turnState /\ UNCHANGED <<pinnedTools, round, call, contentVars>>
    BY <1>3 DEF Apply
  <2>2. control' \in [Controls -> {"unsent", "sent", "returned"}] /\ frozen' \in BOOLEAN
    <3>1. frozen \in BOOLEAN /\ control \in [Controls -> {"unsent", "sent", "returned"}]
      BY DEF TurnInv, TypeOK
    <3>2. control' = [control EXCEPT ![o] = "sent"]
          /\ frozen' = IF Operation[o].kind \in {"freeze", "unfreeze"}
                         THEN Operation[o].kind = "freeze" ELSE frozen
      BY <1>3 DEF Apply
    <3>. QED  BY <3>1, <3>2, ZenonT(30)
  <2>3. disabled' \subseteq Tools
    <3>1. disabled \subseteq Tools /\ Operation[o] \in Operations
      BY ShapeAssumption DEF TurnInv, TypeOK
    <3>2. Operation[o].kind = "disable" => Operation[o].tool \in Tools
      BY <3>1 DEF Operations
    <3>3. CASE Operation[o].kind = "disable"
      <4>1. disabled' = disabled \union {Operation[o].tool}
        BY <1>3, <3>3, Zenon DEF Apply
      <4>. QED  BY <3>1, <3>2, <3>3, <4>1
    <3>4. CASE Operation[o].kind = "enable"
      <4>1. disabled' = disabled \ {Operation[o].tool}
        BY <1>3, <3>4, Zenon DEF Apply
      <4>. QED  BY <3>1, <4>1
    <3>5. CASE Operation[o].kind \notin {"disable", "enable"}
      <4>1. disabled' = disabled
        BY <1>3, <3>5, Zenon DEF Apply
      <4>. QED  BY <3>1, <4>1
    <3>. QED  BY <3>3, <3>4, <3>5
  <2>4. TypeOK'
    BY <2>1, <2>2, <2>3 DEF TurnInv, TypeOK
  <2>. QED  BY <2>1, <2>4, TurnsAside
<1>4. ASSUME NEW d \in Messages, NEW t \in Tools, Invoke(d, t) PROVE TurnInv'
  <2>1. UNCHANGED turnState
        /\ UNCHANGED <<pinnedTools, round, frozen, disabled, control, contentVars>>
    BY <1>4 DEF Invoke
  <2>2. call' \in [Messages -> [Tools -> CallStates]]
    <3>1. call \in [Messages -> [Tools -> CallStates]]
      BY DEF TurnInv, TypeOK, CallStates
    <3>2. call' = [call EXCEPT ![d][t] = IF Blocked(t) THEN "refused" ELSE "permitted"]
      BY <1>4 DEF Invoke
    <3>3. (IF Blocked(t) THEN "refused" ELSE "permitted") \in CallStates
      BY DEF CallStates
    <3>. QED  BY <3>1, <3>2, <3>3, CallUpdate
  <2>3. TypeOK'
    BY <2>1, <2>2 DEF TurnInv, TypeOK, CallStates
  <2>. QED  BY <2>1, <2>3, TurnsAside
<1>5. ASSUME UNCHANGED vars PROVE TurnInv'
  <2>1. TypeOK'
    BY <1>5 DEF vars, TurnInv, TypeOK
  <2>2. UNCHANGED turnState
    BY <1>5 DEF vars
  <2>. QED  BY <2>1, <2>2, TurnsAside
<1>. QED  BY <1>1, <1>2, <1>3, <1>4, <1>5

\* Feedback stays on one run when a run adds the revisions it used.
LEMMA FeedbackKept ==
  ASSUME FeedbackInv, NEW d \in Messages, run'[d].status # "none",
         NEW used, \A u \in used : u.revision = run'[d].targets[u.target],
         latest' = Remembered(Channel[d], d, used),
         \A e \in Messages : run[e].status # "none" =>
           run'[e].status # "none" /\ run'[e].targets = run[e].targets
  PROVE  FeedbackInv'
<1>. DEFINE ch == Channel[d]
            mine == ch \in DOMAIN latest /\ latest[ch].run = d
            kept == IF mine THEN latest[ch].targets ELSE {}
<1>1. /\ DOMAIN latest' = DOMAIN latest \union {ch}
      /\ latest'[ch].run = d
      /\ latest'[ch].targets \subseteq kept \union used
      /\ \A x \in DOMAIN latest : x # ch => latest'[x] = latest[x]
  BY DEF Remembered, Put
<1>2. \A u \in used : u.revision = run'[d].targets[u.target]
  OBVIOUS
<1>3. \A u \in kept : u.revision = run'[d].targets[u.target]
  BY DEF FeedbackInv, FeedbackOnOneRun
<1>4. \A x \in DOMAIN latest :
        /\ latest[x].run \in Messages /\ Channel[latest[x].run] = x
        /\ run[latest[x].run].status # "none"
        /\ \A u \in latest[x].targets : u.revision = run[latest[x].run].targets[u.target]
  BY DEF FeedbackInv, FeedbackOnOneRun
<1>. HIDE DEF ch, kept
<1>5. ASSUME NEW x \in DOMAIN latest'
      PROVE  /\ latest'[x].run \in Messages /\ Channel[latest'[x].run] = x
             /\ run'[latest'[x].run].status # "none"
             /\ \A u \in latest'[x].targets : u.revision = run'[latest'[x].run].targets[u.target]
  <2>1. CASE x = ch
    <3>1. \A u \in latest'[x].targets : u \in kept \/ u \in used
      BY <1>1, <2>1
    <3>2. latest'[x].run = d /\ Channel[d] = x
      BY <1>1, <2>1 DEF ch
    <3>3. \A u \in latest'[x].targets : u.revision = run'[d].targets[u.target]
      BY <1>2, <1>3, <3>1
    <3>. QED  BY <3>2, <3>3
  <2>2. CASE x # ch
    <3>1. x \in DOMAIN latest /\ latest'[x] = latest[x]
      BY <1>1, <2>2
    <3>2. latest[x].run \in Messages /\ run[latest[x].run].status # "none"
      BY <1>4, <3>1
    <3>3. /\ run'[latest[x].run].status # "none"
          /\ run'[latest[x].run].targets = run[latest[x].run].targets
      BY <3>2
    <3>4. Channel[latest[x].run] = x
      BY <1>4, <3>1
    <3>5. \A u \in latest[x].targets : u.revision = run[latest[x].run].targets[u.target]
      BY <1>4, <3>1
    <3>6. \A u \in latest[x].targets : u.revision = run'[latest[x].run].targets[u.target]
      BY <3>3, <3>5
    <3>. QED  BY <3>1, <3>2, <3>3, <3>4, <3>6
  <2>. QED  BY <2>1, <2>2
<1>. QED  BY <1>5 DEF FeedbackInv, FeedbackOnOneRun

-----------------------------------------------------------------------------
(* The steps of a turn.                                                     *)

\* A disposition is given once, and changes nothing else of a run.
LEMMA FinishedGives ==
  ASSUME run \in [Messages -> Runs], NEW d \in Messages, NEW s \in {"success", "failure"},
         run' = Finished(d, s)
  PROVE  /\ run' \in [Messages -> Runs]
         /\ \A e \in Messages : e # d => run'[e] = run[e]
         /\ run'[d].targets = run[d].targets /\ run'[d].snapshot = run[d].snapshot
         /\ run'[d].status = IF run[d].status = "open" THEN s ELSE run[d].status
BY DEF Finished, Runs

\* What the steps of a turn between its beginning and its answer have in common.
LEMMA StageStep ==
  ASSUME TurnInv, TypeOK', NEW d \in Messages, NEW s,
         stage' = [stage EXCEPT ![d] = s],
         UNCHANGED <<inflight, snapshots, pinnedTargets, personas, history, latest>>,
         \A e \in Messages : e # d => run'[e] = run[e] /\ said'[e] = said[e],
         run'[d].targets = run[d].targets, run'[d].snapshot = run[d].snapshot,
         run'[d].status # "none" <=> run[d].status # "none",
         run'[d].status = "open" => run[d].status = "open" /\ s \in {"asking", "calling", "replying"},
         run'[d].status # "success",
         s \in InTurn <=> stage[d] \in InTurn,
         s \in Before => stage[d] \in Before,
         s \in Asking => stage[d] \in Asking,
         s \in Asking /\ Conversation[d] \in Retained =>
           Extended(said'[d], history[Conversation[d]], d),
         s # "replying",
         stage[d] \in Answered => s \in Answered
  PROVE  TurnInv'
<1>1. stage'[d] = s /\ \A e \in Messages : e # d => stage'[e] = stage[e]
  BY DEF TurnInv, TypeOK
<1>2. \A e \in Messages :
        /\ run'[e].targets = run[e].targets /\ run'[e].snapshot = run[e].snapshot
        /\ run'[e].status # "none" <=> run[e].status # "none"
        /\ run'[e].status = "open" => run[e].status = "open"
        /\ run'[e].status = "success" => run[e].status = "success" /\ e # d
        /\ stage'[e] \in InTurn <=> stage[e] \in InTurn
        /\ stage'[e] \in Before => stage[e] \in Before
        /\ stage'[e] \in Asking => stage[e] \in Asking
        /\ stage'[e] = "replying" => stage[e] = "replying"
        /\ stage[e] \in Answered => stage'[e] \in Answered
  BY <1>1
<1>3. MarkInv'
  BY <1>2 DEF TurnInv, MarkInv
<1>4. RunInv'
  BY <1>1, <1>2 DEF TurnInv, RunInv, RunsAreFinished
<1>5. BoundInv'
  BY <1>2 DEF TurnInv, BoundInv
<1>6. HistoryInv'
  <2>1. HistoryInv
    BY DEF TurnInv
  <2>2. ASSUME NEW c \in Retained, NEW i \in 1..Len(history[c])
        PROVE  stage'[history[c][i].of] \in Answered
    <3>1. history[c][i].of \in Messages
      BY HistoryTypes, EntryOf
    <3>2. stage[history[c][i].of] \in Answered
      BY <2>1 DEF HistoryInv
    <3>. QED  BY <1>2, <3>1, <3>2
  <2>3. ASSUME NEW e \in Messages, Conversation[e] \in Retained, stage'[e] \in Asking
        PROVE  Extended(said'[e], history[Conversation[e]], e)
    <3>1. CASE e = d
      BY <1>1, <2>3, <3>1
    <3>2. CASE e # d
      BY <1>2, <2>1, <2>3, <3>2 DEF HistoryInv
    <3>. QED  BY <3>1, <3>2
  <2>. QED  BY <1>2, <2>1, <2>2, <2>3 DEF HistoryInv
<1>7. FeedbackInv'
  BY <1>2 DEF TurnInv, FeedbackInv, FeedbackOnOneRun
<1>. QED  BY <1>3, <1>4, <1>5, <1>6, <1>7 DEF TurnInv

\* A call that ends changes what feedback is about, or fails its turn.
LEMMA EndCallInv ==
  ASSUME TurnInv, NEW d \in Messages, NEW t \in Tools, EndCall(d, t),
         UNCHANGED <<inflight, bindings, history, round, said, frozen, disabled, contentVars>>,
         control' \in [Controls -> {"unsent", "sent", "returned"}]
  PROVE  TurnInv'
<1>. USE DEF bindings, contentVars
<1>1. call' \in [Messages -> [Tools -> CallStates]]
  <2>1. call \in [Messages -> [Tools -> CallStates]] /\ call' = [call EXCEPT ![d][t] = "ended"]
    BY DEF TurnInv, TypeOK, CallStates, EndCall
  <2>2. "ended" \in CallStates
    BY DEF CallStates
  <2>. QED  BY <2>1, <2>2, CallUpdate
<1>2. CASE UNCHANGED <<run, stage>>
  <2>1. TypeOK'
    BY <1>1, <1>2 DEF TurnInv, TypeOK, CallStates
  <2>2. CASE UNCHANGED latest
    BY <1>2, <2>1, <2>2, TurnsAside DEF turnState
  <2>3. CASE latest' # latest
    <3>. DEFINE used == IF t \in Evolving THEN {Use(run[d].targets, "tools")} ELSE {}
    <3>1. run[d].status # "none" /\ latest' = Remembered(Channel[d], d, used)
      BY <1>2, <2>3 DEF EndCall
    <3>2. \A u \in used : u.revision = run'[d].targets[u.target]
      BY <1>2 DEF Use
    <3>. HIDE DEF used
    <3>3. FeedbackInv'
      BY <1>2, <3>1, <3>2, FeedbackKept DEF TurnInv
    <3>4. MarkInv' /\ RunInv'
      BY <1>2 DEF TurnInv, MarkInv, RunInv, RunsAreFinished
    <3>5. BoundInv' /\ HistoryInv'
      BY <1>2 DEF TurnInv, BoundInv, HistoryInv
    <3>. QED  BY <2>1, <3>3, <3>4, <3>5 DEF TurnInv
  <2>. QED  BY <2>2, <2>3
<1>3. CASE ~ UNCHANGED <<run, stage>>
  <2>1. /\ stage[d] = "calling" /\ run' = Finished(d, "failure")
        /\ stage' = [stage EXCEPT ![d] = "apologizing"] /\ latest' = latest
    BY <1>3 DEF EndCall
  <2>2. run \in [Messages -> Runs]
    BY DEF TurnInv, TypeOK, Runs
  <2>3. /\ run' \in [Messages -> Runs]
        /\ \A e \in Messages : e # d => run'[e] = run[e]
        /\ run'[d].targets = run[d].targets /\ run'[d].snapshot = run[d].snapshot
        /\ run'[d].status = IF run[d].status = "open" THEN "failure" ELSE run[d].status
    BY <2>1, <2>2, FinishedGives
  <2>4. run[d].status # "success"
    BY <2>1 DEF TurnInv, RunInv
  <2>5. TypeOK'
    BY <1>1, <2>1, <2>3 DEF TurnInv, TypeOK, Runs, InTurn, CallStates
  <2>. QED  BY <2>1, <2>3, <2>4, <2>5, StageStep DEF Before, InTurn, Asking, Answered
<1>. QED  BY <1>2, <1>3

LEMMA CallEndsInv ==
  ASSUME TurnInv, NEW d \in Messages, NEW t \in Tools, Malformed(d, t) \/ ToolEnds(d, t)
  PROVE  TurnInv'
<1>1. EndCall(d, t) /\ UNCHANGED <<inflight, bindings, history, round, said, frozen, disabled,
                                   contentVars>>
      /\ UNCHANGED control
  BY DEF Malformed, ToolEnds, switchVars
<1>2. control' \in [Controls -> {"unsent", "sent", "returned"}]
  BY <1>1 DEF TurnInv, TypeOK
<1>. QED  BY <1>1, <1>2, EndCallInv

LEMMA SettleTurnInv ==
  ASSUME TurnInv, Settle
  PROVE  TurnInv'
<1>1. UNCHANGED <<inflight, bindings, history, round, said, frozen, disabled, contentVars>>
  BY DEF Settle
<1>2. control \in [Controls -> {"unsent", "sent", "returned"}]
      /\ call \in [Messages -> [Tools -> CallStates]]
  BY DEF TurnInv, TypeOK, CallStates
<1>3. ASSUME NEW d \in Messages, NEW t \in Tools, EndCall(d, t), UNCHANGED control
      PROVE  TurnInv'
  BY <1>1, <1>2, <1>3, EndCallInv
<1>4. ASSUME call' \in [Messages -> [Tools -> CallStates]], UNCHANGED <<stage, evidenceVars>>,
             control' \in [Controls -> {"unsent", "sent", "returned"}]
      PROVE  TurnInv'
  <2>1. UNCHANGED turnState
    BY <1>1, <1>4 DEF turnState, bindings, evidenceVars
  <2>2. TypeOK'
    BY <1>1, <1>4 DEF TurnInv, TypeOK, CallStates, bindings, contentVars, evidenceVars
  <2>. QED  BY <2>1, <2>2, TurnsAside
<1>5. ASSUME NEW d \in Messages, NEW t \in Tools, call' = [call EXCEPT ![d][t] = "running"],
             UNCHANGED <<stage, evidenceVars, control>>
      PROVE  TurnInv'
  <2>1. "running" \in CallStates
    BY DEF CallStates
  <2>2. call' \in [Messages -> [Tools -> CallStates]]
    BY <1>2, <1>5, <2>1, CallUpdate
  <2>. QED  BY <1>2, <1>4, <1>5, <2>2
<1>6. ASSUME NEW o \in Controls, control' = [control EXCEPT ![o] = "returned"],
             UNCHANGED <<stage, call, evidenceVars>>
      PROVE  TurnInv'
  BY <1>2, <1>4, <1>6
<1>. QED  BY <1>3, <1>5, <1>6 DEF Settle

LEMMA OpeningInv ==
  ASSUME TurnInv, NEW d \in Messages, Deliver(d) \/ Excuse(d)
  PROVE  TurnInv'
<1>. USE DEF turnVars, bindings, evidenceVars, switchVars, contentVars
<1>1. PICK s \in {"opening", "done"} :
        /\ stage' = [stage EXCEPT ![d] = s] /\ stage[d] \in Before
  BY DEF Deliver, Excuse, Before
<1>2. UNCHANGED <<inflight, bindings, history, round, said, call, run, latest, switchVars, contentVars>>
  BY DEF Deliver, Excuse
<1>3. run[d].status = "none"
  BY <1>1 DEF TurnInv, RunInv
<1>4. TypeOK'
  BY <1>1, <1>2 DEF TurnInv, TypeOK
<1>. QED  BY <1>1, <1>2, <1>3, <1>4, StageStep DEF Before, InTurn, Asking, Answered

LEMMA RequestInv ==
  ASSUME TurnInv, NEW d \in Messages, Request(d)
  PROVE  TurnInv'
<1>. USE DEF turnVars, bindings, evidenceVars, switchVars, contentVars
<1>1. /\ stage[d] = "asking" /\ stage' = [stage EXCEPT ![d] = "calling"]
      /\ said' = [said EXCEPT ![d] = Append(said[d], Said(d, "asked"))]
      /\ UNCHANGED <<inflight, bindings, history, round, run, latest, switchVars, contentVars>>
  BY DEF Request
<1>2. call' \in [Messages -> [Tools -> CallStates]]
  BY DEF Request, TurnInv, TypeOK, CallStates
<1>3. run[d].status # "success"
  BY <1>1 DEF TurnInv, RunInv
<1>4. /\ said \in [Messages -> Seq(Entry)] /\ said'[d] = Append(said[d], Said(d, "asked"))
      /\ \A e \in Messages : e # d => said'[e] = said[e]
  BY <1>1 DEF TurnInv, TypeOK
<1>5. said' \in [Messages -> Seq(Entry)]
  <2>1. Append(said[d], Said(d, "asked")) \in Seq(Entry)
    BY <1>4, SaidIs
  <2>. QED  BY <1>1, <1>4, <2>1
<1>6. ASSUME Conversation[d] \in Retained PROVE Extended(said'[d], history[Conversation[d]], d)
  <2>1. Extended(said[d], history[Conversation[d]], d)
    BY <1>1, <1>6 DEF TurnInv, HistoryInv, Asking
  <2>. QED  BY <1>4, <1>6, <2>1, HistoryTypes, AppendExtended
<1>7. TypeOK'
  BY <1>1, <1>2, <1>5 DEF TurnInv, TypeOK, CallStates, InTurn
<1>. QED  BY <1>1, <1>3, <1>4, <1>6, <1>7, StageStep DEF Before, InTurn, Asking, Answered

LEMMA FailsInv ==
  ASSUME TurnInv, NEW d \in Messages, ModelFails(d) \/ ReplyFails(d)
  PROVE  TurnInv'
<1>. USE DEF turnVars, bindings, evidenceVars, switchVars, contentVars
<1>1. /\ stage[d] \in {"asking", "replying"} /\ stage' = [stage EXCEPT ![d] = "apologizing"]
      /\ run' = Finished(d, "failure")
      /\ UNCHANGED <<inflight, bindings, history, round, said, call, latest, switchVars, contentVars>>
  BY DEF ModelFails, ReplyFails
<1>2. run \in [Messages -> Runs]
  BY DEF TurnInv, TypeOK, Runs
<1>3. /\ run' \in [Messages -> Runs]
      /\ \A e \in Messages : e # d => run'[e] = run[e]
      /\ run'[d].targets = run[d].targets /\ run'[d].snapshot = run[d].snapshot
      /\ run'[d].status = IF run[d].status = "open" THEN "failure" ELSE run[d].status
  BY <1>1, <1>2, FinishedGives
<1>4. run[d].status # "success"
  BY <1>1 DEF TurnInv, RunInv
<1>5. TypeOK'
  BY <1>1, <1>3 DEF TurnInv, TypeOK, Runs, InTurn
<1>. QED  BY <1>1, <1>3, <1>4, <1>5, StageStep DEF Before, InTurn, Asking, Answered

\* A turn that ends joins the history of its conversation, which no other turn
\* of it works on.
LEMMA RememberInv ==
  ASSUME TurnInv, TypeOK', NEW d \in Messages, stage[d] \in Asking,
         Remember(d, said'[d]),
         Conversation[d] \in Retained => Extended(said'[d], history[Conversation[d]], d),
         \A e \in Messages : e # d => said'[e] = said[e],
         stage' = [stage EXCEPT ![d] = "replying"],
         UNCHANGED <<inflight, snapshots, pinnedTargets, run, latest>>
  PROVE  TurnInv'
<1>. DEFINE c == Conversation[d]
<1>1. stage'[d] = "replying" /\ \A e \in Messages : e # d => stage'[e] = stage[e]
  BY DEF TurnInv, TypeOK
<1>2. c \in Conversations /\ history \in [Conversations -> Seq(Entry)]
      /\ Retained \subseteq Conversations
  BY ShapeAssumption DEF Conversations, TurnInv, TypeOK
<1>3. \A e \in Messages : e # d /\ stage[e] \in InTurn => Conversation[e] # c
  BY DEF TurnInv, MarkInv, Asking, InTurn
<1>4. \A x \in Conversations : x # c => history'[x] = history[x]
  BY <1>2 DEF Remember
<1>5. c \in Retained => history'[c] = Newest(said'[d]) /\ UNCHANGED personas
  BY <1>2 DEF Remember
<1>6. \A x : x # c => /\ x \in DOMAIN personas' <=> x \in DOMAIN personas
                      /\ x \in DOMAIN personas => personas'[x] = personas[x]
  BY DEF Remember, Drop
<1>7. MarkInv'
  BY <1>1 DEF TurnInv, MarkInv, Asking, InTurn
<1>8. RunInv'
  BY <1>1 DEF TurnInv, RunInv, RunsAreFinished, Asking, Before
<1>9. BoundInv'
  <2>1. ASSUME NEW e \in Messages, stage'[e] \in Asking
        PROVE  /\ Conversation[e] \in DOMAIN personas'
               /\ run'[e].status = "open" => personas'[Conversation[e]] = run'[e].targets["prompt"]
    <3>1. stage[e] \in Asking /\ e # d /\ Conversation[e] # c
      BY <1>1, <1>3, <2>1 DEF Asking, InTurn
    <3>. QED  BY <1>6, <3>1 DEF TurnInv, BoundInv
  <2>2. ASSUME NEW x \in Retained
        PROVE  /\ x \in DOMAIN personas' <=> x \in DOMAIN pinnedTargets'
               /\ x \in DOMAIN personas' => personas'[x] = pinnedTargets'[x]["prompt"]
    <3>1. x = c => UNCHANGED personas
      BY <1>5
    <3>. QED  BY <1>6, <3>1 DEF TurnInv, BoundInv
  <2>. QED  BY <2>1, <2>2 DEF TurnInv, BoundInv
<1>10. HistoryInv'
  <2>1. HistoryInv
    BY DEF TurnInv
  <2>2. run[d].status # "success"
    BY DEF TurnInv, RunInv, Asking
  <2>3. \A x \in Retained : x # c => history'[x] = history[x]
    BY <1>2, <1>4
  <2>4. ASSUME NEW x \in Retained, NEW i \in 1..Len(history[x])
        PROVE  history[x][i].of \in Messages \ {d} /\ stage[history[x][i].of] \in Answered
    <3>1. history[x][i].of \in Messages
      BY HistoryTypes, EntryOf
    <3>2. stage[history[x][i].of] \in Answered
      BY <2>1 DEF HistoryInv
    <3>. QED  BY <3>1, <3>2 DEF Answered, Asking
  <2>5. ASSUME c \in Retained
        PROVE  /\ Len(history'[c]) <= MaxHistory /\ Apart(history'[c]) /\ EndsWith(history'[c], d)
               /\ \A i \in 1..Len(history'[c]) :
                    \/ history'[c][i].of = d
                    \/ \E j \in 1..Len(history[c]) : history'[c][i] = history[c][j]
               /\ \A e \in Messages : Holds(history[c], e) => Holds(history'[c], e)
    <3>1. said'[d] \in Seq(Entry) /\ history[c] \in Seq(Entry)
      BY <2>5, HistoryTypes DEF TypeOK
    <3>2. Apart(history[c]) /\ Len(history[c]) <= MaxHistory
      BY <2>1, <2>5 DEF HistoryInv
    <3>3. \A i \in 1..Len(history[c]) : history[c][i].of # d
      BY <2>4, <2>5
    <3>. QED  BY <1>5, <2>5, <3>1, <3>2, <3>3, CutHistory
  <2>6. ASSUME NEW x \in Retained
        PROVE  /\ Len(history'[x]) <= MaxHistory /\ Apart(history'[x])
               /\ \A i \in 1..Len(history'[x]) : stage'[history'[x][i].of] \in Answered
    <3>1. CASE x = c
      <4>1. \A i \in 1..Len(history'[x]) : stage'[history'[x][i].of] \in Answered
        BY <1>1, <2>4, <2>5, <3>1 DEF Answered
      <4>. QED  BY <2>5, <3>1, <4>1
    <3>2. CASE x # c
      <4>1. history'[x] = history[x]
        BY <2>3, <3>2
      <4>2. \A i \in 1..Len(history[x]) : stage'[history[x][i].of] \in Answered
        BY <1>1, <2>4
      <4>. QED  BY <2>1, <4>1, <4>2 DEF HistoryInv
    <3>. QED  BY <3>1, <3>2
  <2>7. ASSUME NEW e \in Messages, Conversation[e] \in Retained
        PROVE  /\ stage'[e] \in Asking => Extended(said'[e], history'[Conversation[e]], e)
               /\ stage'[e] = "replying" => EndsWith(history'[Conversation[e]], e)
               /\ run'[e].status = "success" => Holds(history'[Conversation[e]], e)
    <3>1. CASE e = d
      BY <1>1, <2>2, <2>5, <2>7, <3>1 DEF Asking
    <3>2. CASE e # d /\ Conversation[e] = c
      <4>1. stage[e] \notin InTurn /\ stage'[e] = stage[e]
        BY <1>1, <1>3, <3>2
      <4>2. run[e].status = "success" => Holds(history[c], e)
        BY <2>1, <2>7, <3>2 DEF HistoryInv
      <4>. QED  BY <2>5, <2>7, <3>2, <4>1, <4>2 DEF Asking, InTurn
    <3>3. CASE e # d /\ Conversation[e] # c
      <4>1. /\ stage'[e] = stage[e] /\ said'[e] = said[e]
            /\ history'[Conversation[e]] = history[Conversation[e]]
        BY <1>1, <2>3, <2>7, <3>3
      <4>. QED  BY <2>1, <2>7, <4>1 DEF HistoryInv
    <3>. QED  BY <3>1, <3>2, <3>3
  <2>. QED  BY <2>6, <2>7 DEF HistoryInv
<1>11. FeedbackInv'
  BY DEF TurnInv, FeedbackInv, FeedbackOnOneRun
<1>. QED  BY <1>7, <1>8, <1>9, <1>10, <1>11 DEF TurnInv

\* What a step that remembers leaves of the types.
LEMMA RememberTyped ==
  ASSUME TurnInv, NEW d \in Messages, NEW s \in Seq(Entry), Remember(d, s)
  PROVE  /\ history' \in [Conversations -> Seq(Entry)]
         /\ DOMAIN pinnedTools' \subseteq Conversations /\ DOMAIN personas' \subseteq Conversations
<1>1. Conversation[d] \in Conversations
  BY DEF Conversations
<1>2. Newest(s) \in Seq(Entry) /\ <<>> \in Seq(Entry)
  BY NewestKeeps
<1>3. history \in [Conversations -> Seq(Entry)]
      /\ DOMAIN pinnedTools \subseteq Conversations /\ DOMAIN personas \subseteq Conversations
  BY DEF TurnInv, TypeOK
<1>. DEFINE c == Conversation[d]
            kept == Newest(s)
<1>4. \/ /\ history' = [history EXCEPT ![c] = kept] /\ UNCHANGED <<pinnedTools, personas>>
      \/ /\ history' = [history EXCEPT ![c] = <<>>]
         /\ pinnedTools' = Drop(pinnedTools, c) /\ personas' = Drop(personas, c)
  BY Zenon DEF Remember
<1>. HIDE DEF kept
<1>5. history' \in [Conversations -> Seq(Entry)]
  <2>1. kept \in Seq(Entry)
    BY <1>2 DEF kept
  <2>. QED  BY <1>2, <1>3, <1>4, <2>1
<1>6. DOMAIN pinnedTools' \subseteq Conversations /\ DOMAIN personas' \subseteq Conversations
  BY <1>3, <1>4 DEF Drop
<1>. QED  BY <1>5, <1>6

LEMMA AnswerInv ==
  ASSUME TurnInv, NEW d \in Messages, Answer(d)
  PROVE  TurnInv'
<1>. USE DEF turnVars, bindings, evidenceVars, switchVars, contentVars
<1>1. /\ stage[d] \in Asking /\ Remember(d, said'[d]) /\ stage' = [stage EXCEPT ![d] = "replying"]
      /\ said' = [said EXCEPT ![d] = Append(said[d], Said(d, "answer"))]
      /\ UNCHANGED <<inflight, snapshots, pinnedTargets, round, call, run, latest,
                     switchVars, contentVars>>
  BY DEF Answer, Asking
<1>2. /\ said \in [Messages -> Seq(Entry)] /\ said'[d] = Append(said[d], Said(d, "answer"))
      /\ \A e \in Messages : e # d => said'[e] = said[e]
  BY <1>1 DEF TurnInv, TypeOK
<1>3. said'[d] \in Seq(Entry) /\ said' \in [Messages -> Seq(Entry)]
  <2>1. Append(said[d], Said(d, "answer")) \in Seq(Entry)
    BY <1>2, SaidIs
  <2>. QED  BY <1>1, <1>2, <2>1
<1>4. ASSUME Conversation[d] \in Retained PROVE Extended(said'[d], history[Conversation[d]], d)
  <2>1. Extended(said[d], history[Conversation[d]], d)
    BY <1>1, <1>4 DEF TurnInv, HistoryInv
  <2>. QED  BY <1>2, <1>4, <2>1, HistoryTypes, AppendExtended
<1>5. TypeOK'
  BY <1>1, <1>3, RememberTyped DEF TurnInv, TypeOK, InTurn
<1>. QED  BY <1>1, <1>2, <1>4, <1>5, RememberInv

LEMMA NextRoundInv ==
  ASSUME TurnInv, NEW d \in Messages, NextRound(d)
  PROVE  TurnInv'
<1>. USE DEF turnVars, bindings, evidenceVars, switchVars, contentVars
<1>1. /\ stage[d] = "calling" /\ call' = [call EXCEPT ![d] = NoCalls]
      /\ said' = [said EXCEPT ![d] = said[d] \o Outputs(d)]
      /\ UNCHANGED <<inflight, snapshots, pinnedTargets, run, latest, switchVars, contentVars>>
  BY DEF NextRound
<1>2. call' \in [Messages -> [Tools -> CallStates]]
  <2>1. NoCalls \in [Tools -> CallStates]
    BY DEF NoCalls, CallStates
  <2>. QED  BY <1>1, <2>1 DEF TurnInv, TypeOK, CallStates
<1>3. /\ said \in [Messages -> Seq(Entry)] /\ said'[d] = said[d] \o Outputs(d)
      /\ \A e \in Messages : e # d => said'[e] = said[e]
  BY <1>1 DEF TurnInv, TypeOK
<1>4. said'[d] \in Seq(Entry) /\ said' \in [Messages -> Seq(Entry)]
  <2>1. said[d] \in Seq(Entry) /\ Outputs(d) \in Seq(Entry)
    BY <1>3, OutputsAre
  <2>2. said[d] \o Outputs(d) \in Seq(Entry)
    BY <2>1
  <2>. QED  BY <1>1, <1>3, <2>2
<1>5. ASSUME Conversation[d] \in Retained PROVE Extended(said'[d], history[Conversation[d]], d)
  <2>1. Extended(said[d], history[Conversation[d]], d)
    BY <1>1, <1>5 DEF TurnInv, HistoryInv, Asking
  <2>2. history[Conversation[d]] \in Seq(Entry) /\ said[d] \in Seq(Entry)
    BY <1>5, HistoryTypes
  <2>. DEFINE o == Outputs(d)
              h == history[Conversation[d]]
  <2>3. o \in Seq(Entry) /\ \A i \in 1..Len(o) : o[i].of = d /\ o[i].part # "user"
    BY OutputsAre
  <2>4. said'[d] = said[d] \o o /\ Extended(said[d], h, d) /\ h \in Seq(Entry)
    BY <1>3, <2>1, <2>2
  <2>. HIDE DEF o, h
  <2>5. Extended(said'[d], h, d)
    BY <2>2, <2>3, <2>4, StaysExtended
  <2>. QED  BY <2>5 DEF h
<1>6. CASE round[d] < MaxRounds
  <2>1. /\ round' = [round EXCEPT ![d] = @ + 1] /\ stage' = [stage EXCEPT ![d] = "asking"]
        /\ UNCHANGED <<history, pinnedTools, personas>>
    BY <1>6 DEF NextRound
  <2>2. round' \in [Messages -> 0..MaxRounds]
    BY <1>6, <2>1, BoundsAssumption DEF TurnInv, TypeOK
  <2>3. TypeOK'
    BY <1>1, <1>2, <1>4, <2>1, <2>2 DEF TurnInv, TypeOK, CallStates, InTurn
  <2>4. run[d].status # "success"
    BY <1>1 DEF TurnInv, RunInv
  <2>. QED  BY <1>1, <1>3, <1>5, <2>1, <2>3, <2>4, StageStep DEF Before, InTurn, Asking, Answered
<1>7. CASE ~ (round[d] < MaxRounds)
  <2>1. Remember(d, said'[d]) /\ stage' = [stage EXCEPT ![d] = "replying"] /\ UNCHANGED round
    BY <1>7 DEF NextRound
  <2>2. TypeOK'
    BY <1>1, <1>2, <1>4, <2>1, RememberTyped DEF TurnInv, TypeOK, CallStates, InTurn
  <2>. QED  BY <1>1, <1>3, <1>5, <2>1, <2>2, RememberInv DEF Asking
<1>. QED  BY <1>6, <1>7

\* A turn ends and frees its conversation.
LEMMA EndInv ==
  ASSUME TurnInv, NEW d \in Messages, Replied(d) \/ Apologized(d)
  PROVE  TurnInv'
<1>. USE DEF turnVars, bindings, evidenceVars, switchVars, contentVars
<1>. DEFINE c == Conversation[d]
<1>1. /\ stage[d] \in {"replying", "apologizing"} /\ stage' = [stage EXCEPT ![d] = "done"]
      /\ round' = [round EXCEPT ![d] = 0] /\ said' = [said EXCEPT ![d] = <<>>]
      /\ inflight' = inflight \ {c}
      /\ UNCHANGED <<bindings, history, call, latest, switchVars, contentVars>>
  BY DEF Replied, Apologized
<1>2. run \in [Messages -> Runs]
  BY DEF TurnInv, TypeOK, Runs
<1>3. /\ run' \in [Messages -> Runs]
      /\ \A e \in Messages : e # d => run'[e] = run[e]
      /\ run'[d].targets = run[d].targets /\ run'[d].snapshot = run[d].snapshot
      /\ run'[d].status # "none" <=> run[d].status # "none"
      /\ run'[d].status # "open"
      /\ run'[d].status = "success" => stage[d] = "replying"
  <2>1. CASE Replied(d)
    <3>1. run' = Finished(d, "success") /\ stage[d] = "replying"
      BY <2>1 DEF Replied
    <3>. QED  BY <1>2, <3>1, FinishedGives
  <2>2. CASE Apologized(d)
    <3>1. run' = run /\ stage[d] = "apologizing"
      BY <2>2 DEF Apologized
    <3>2. run[d].status \notin {"open", "success"}
      BY <3>1 DEF TurnInv, RunInv, RunsAreFinished
    <3>. QED  BY <1>2, <3>1, <3>2
  <2>. QED  BY <2>1, <2>2
<1>4. stage'[d] = "done" /\ \A e \in Messages : e # d => stage'[e] = stage[e]
  BY <1>1 DEF TurnInv, TypeOK
<1>5. \A e \in Messages : stage[e] \in InTurn /\ e # d => Conversation[e] # c
  BY <1>1 DEF TurnInv, MarkInv, InTurn
<1>6. TypeOK'
  <2>1. round' \in [Messages -> 0..MaxRounds]
    BY <1>1, BoundsAssumption DEF TurnInv, TypeOK
  <2>2. said' \in [Messages -> Seq(Entry)]
    <3>1. <<>> \in Seq(Entry) /\ said \in [Messages -> Seq(Entry)]
      BY DEF TurnInv, TypeOK
    <3>. QED  BY <1>1, <3>1
  <2>. QED  BY <1>1, <1>3, <2>1, <2>2 DEF TurnInv, TypeOK, Runs
<1>7. MarkInv'
  <2>1. \A e \in Messages : stage'[e] \in InTurn => e # d /\ stage[e] \in InTurn
    BY <1>4 DEF InTurn
  <2>2. \A x \in inflight' : \E e \in Messages : stage'[e] \in InTurn /\ Conversation[e] = x
    BY <1>1, <1>4 DEF TurnInv, MarkInv
  <2>. QED  BY <1>1, <1>5, <2>1, <2>2 DEF TurnInv, MarkInv
<1>8. RunInv'
  BY <1>3, <1>4 DEF TurnInv, RunInv, RunsAreFinished, Before
<1>9. BoundInv'
  <2>1. \A e \in Messages : stage'[e] \in Asking => stage[e] \in Asking /\ run'[e] = run[e]
    BY <1>3, <1>4 DEF Asking
  <2>2. \A e \in Messages : /\ run'[e].targets = run[e].targets /\ run'[e].snapshot = run[e].snapshot
                            /\ run'[e].status # "none" <=> run[e].status # "none"
    BY <1>3
  <2>. QED  BY <1>1, <2>1, <2>2 DEF TurnInv, BoundInv
<1>10. HistoryInv'
  <2>1. HistoryInv /\ history' = history
    BY <1>1 DEF TurnInv
  <2>2. \A e \in Messages : e # d => said'[e] = said[e]
    BY <1>1 DEF TurnInv, TypeOK
  <2>3. ASSUME NEW x \in Retained, NEW i \in 1..Len(history[x])
        PROVE  stage'[history[x][i].of] \in Answered
    <3>1. history[x][i].of \in Messages
      BY HistoryTypes, EntryOf
    <3>2. stage[history[x][i].of] \in Answered
      BY <2>1 DEF HistoryInv
    <3>. QED  BY <1>4, <3>1, <3>2 DEF Answered
  <2>4. ASSUME NEW e \in Messages, Conversation[e] \in Retained
        PROVE  /\ stage'[e] \in Asking => Extended(said'[e], history[Conversation[e]], e)
               /\ stage'[e] = "replying" => EndsWith(history[Conversation[e]], e)
               /\ run'[e].status = "success" => Holds(history[Conversation[e]], e)
    <3>1. CASE e = d
      <4>1. ASSUME run'[d].status = "success" PROVE Holds(history[c], d)
        <5>1. EndsWith(history[c], d) /\ history[c] \in Seq(Entry)
          BY <1>3, <2>1, <2>4, <3>1, <4>1, HistoryTypes DEF HistoryInv
        <5>2. Len(history[c]) \in 1..Len(history[c])
          BY <5>1 DEF EndsWith
        <5>. QED  BY <5>1, <5>2 DEF EndsWith, Holds
      <4>. QED  BY <1>4, <3>1, <4>1 DEF Asking
    <3>2. CASE e # d
      <4>1. stage'[e] = stage[e] /\ said'[e] = said[e] /\ run'[e] = run[e]
        BY <1>3, <1>4, <2>2, <3>2
      <4>. QED  BY <2>1, <2>4, <4>1 DEF HistoryInv
    <3>. QED  BY <3>1, <3>2
  <2>. QED  BY <2>1, <2>3, <2>4 DEF HistoryInv
<1>11. FeedbackInv'
  <2>1. \A e \in Messages : run'[e].targets = run[e].targets
                            /\ (run'[e].status # "none" <=> run[e].status # "none")
    BY <1>3
  <2>. QED  BY <1>1, <2>1 DEF TurnInv, FeedbackInv, FeedbackOnOneRun
<1>. QED  BY <1>6, <1>7, <1>8, <1>9, <1>10, <1>11 DEF TurnInv

-----------------------------------------------------------------------------
(* A turn begins.                                                           *)

\* What the beginning turn is bound to.
LEMMA BindingTypes ==
  ASSUME TurnInv, NEW d \in Messages
  PROVE  /\ Conversation[d] \in Conversations
         /\ PinnedSnapshot(Conversation[d]) \in Content
         /\ AttributedContent(Conversation[d]) \in Content
         /\ "prompt" \in Targets
BY DEF TurnInv, TypeOK, PinnedSnapshot, AttributedContent, Conversations, Targets

LEMMA BeginTyped ==
  ASSUME TurnInv, NEW d \in Messages, Begin(d)
  PROVE  TypeOK' /\ said'[d] = Append(history'[Conversation[d]], Said(d, "user"))
<1>. USE DEF turnVars, bindings, evidenceVars, switchVars, contentVars
<1>. DEFINE c == Conversation[d]
<1>1. c \in Conversations /\ PinnedSnapshot(c) \in Content /\ AttributedContent(c) \in Content
  BY BindingTypes
<1>2. /\ stage' = [stage EXCEPT ![d] = "asking"] /\ inflight' = inflight \union {c}
      /\ round' = [round EXCEPT ![d] = 1]
      /\ UNCHANGED <<call, switchVars, waiting, contentVars>>
  BY DEF Begin
<1>3. DOMAIN snapshots' \subseteq Conversations /\ \A x \in DOMAIN snapshots' : snapshots'[x] \in Content
  <2>1. DOMAIN snapshots \subseteq Conversations /\ \A x \in DOMAIN snapshots : snapshots[x] \in Content
    BY DEF TurnInv, TypeOK
  <2>2. snapshots' \in {Put(snapshots, c, PinnedSnapshot(c)), Drop(snapshots, c)}
    BY DEF Begin
  <2>. QED  BY <1>1, <2>1, <2>2 DEF Put, Drop
<1>4. DOMAIN pinnedTargets' \subseteq Conversations
      /\ \A x \in DOMAIN pinnedTargets' : pinnedTargets'[x] \in Content
  <2>1. DOMAIN pinnedTargets \subseteq Conversations
        /\ \A x \in DOMAIN pinnedTargets : pinnedTargets[x] \in Content
    BY DEF TurnInv, TypeOK
  <2>2. pinnedTargets' \in {Put(pinnedTargets, c, AttributedContent(c)), Drop(pinnedTargets, c)}
    BY DEF Begin
  <2>. QED  BY <1>1, <2>1, <2>2 DEF Put, Drop
<1>5. DOMAIN pinnedTools' \subseteq Conversations /\ DOMAIN personas' \subseteq Conversations
  <2>1. DOMAIN pinnedTools \subseteq Conversations /\ DOMAIN personas \subseteq Conversations
    BY DEF TurnInv, TypeOK
  <2>2. pinnedTools' = Put(pinnedTools, c, BoundTools(c)) /\ personas' = Put(personas, c, BoundPersona(c))
    BY DEF Begin
  <2>. QED  BY <1>1, <2>1, <2>2 DEF Put
<1>6. history' \in [Conversations -> Seq(Entry)]
  <2>1. history \in [Conversations -> Seq(Entry)] /\ <<>> \in Seq(Entry)
    BY DEF TurnInv, TypeOK
  <2>2. history' \in {history, [history EXCEPT ![c] = <<>>]}
    BY DEF Begin
  <2>. QED  BY <1>1, <2>1, <2>2
<1>7. /\ said' \in [Messages -> Seq(Entry)]
      /\ said'[d] = Append(history'[c], Said(d, "user"))
  <2>1. /\ said' = [said EXCEPT ![d] = Append(history'[c], Said(d, "user"))]
        /\ said \in [Messages -> Seq(Entry)]
    BY DEF Begin, TurnInv, TypeOK
  <2>2. Append(history'[c], Said(d, "user")) \in Seq(Entry)
    BY <1>1, <1>6, SaidIs
  <2>. QED  BY <2>1, <2>2
<1>8. run' \in [Messages -> Runs]
  <2>1. run \in [Messages -> Runs]
    BY DEF TurnInv, TypeOK, Runs
  <2>2. [status |-> "open", snapshot |-> PinnedSnapshot(c), targets |-> AttributedContent(c)] \in Runs
    BY <1>1 DEF Runs
  <2>3. run' \in {run, [run EXCEPT ![d] = [status |-> "open", snapshot |-> PinnedSnapshot(c),
                                            targets |-> AttributedContent(c)]]}
    BY DEF Begin
  <2>. QED  BY <2>1, <2>2, <2>3
<1>9. round' \in [Messages -> 0..MaxRounds] /\ inflight' \subseteq Conversations
      /\ stage' \in [Messages -> Stages]
  <2>1. "asking" \in Stages
    BY DEF Stages, InTurn
  <2>. QED  BY <1>1, <1>2, <2>1, BoundsAssumption DEF TurnInv, TypeOK, Stages
<1>10. TypeOK'
  BY <1>2, <1>3, <1>4, <1>5, <1>6, <1>7, <1>8, <1>9 DEF TurnInv, TypeOK, Runs, Stages
<1>. QED  BY <1>7, <1>10

LEMMA BeginInv ==
  ASSUME TurnInv, NEW d \in Messages, Begin(d)
  PROVE  TurnInv'
<1>. DEFINE c == Conversation[d]
            content == AttributedContent(c)
            recorded == [status |-> "open", snapshot |-> PinnedSnapshot(c), targets |-> content]
<1>1. /\ stage[d] = "opening" /\ c \notin inflight /\ inflight' = inflight \union {c}
      /\ run[d].status = "none" /\ c \in Conversations
  BY BindingTypes DEF Begin, TurnInv, RunInv, Before
<1>2. stage'[d] = "asking" /\ \A e \in Messages : e # d => stage'[e] = stage[e]
  BY DEF Begin, TurnInv, TypeOK
<1>3. \A e \in Messages : stage[e] \in InTurn => Conversation[e] # c /\ e # d
  BY <1>1 DEF TurnInv, MarkInv
<1>4. TypeOK' /\ said'[d] = Append(history'[c], Said(d, "user"))
  BY BeginTyped
<1>5. run \in [Messages -> Runs]
  BY DEF TurnInv, TypeOK, Runs
<1>6. \/ run' = [run EXCEPT ![d] = recorded]
         /\ latest' = Remembered(Channel[d], d, {Use(content, "prompt")})
      \/ UNCHANGED <<run, latest>>
  BY DEF Begin, evidenceVars
<1>7. \A e \in Messages : e # d => run'[e] = run[e]
  BY <1>5, <1>6
<1>8. recorded.status = "open" /\ recorded.snapshot = PinnedSnapshot(c) /\ recorded.targets = content
  OBVIOUS
<1>9. run'[d] = recorded \/ run'[d].status = "none"
  BY <1>1, <1>5, <1>6
<1>10. run'[d].status = "none" => UNCHANGED <<run, latest>>
  BY <1>5, <1>6, <1>8
<1>11. run'[d] = recorded => latest' = Remembered(Channel[d], d, {Use(content, "prompt")})
  BY <1>1, <1>6, <1>8
<1>. HIDE DEF recorded
<1>12. /\ personas' = Put(personas, c, BoundPersona(c))
       /\ c \in Retained => /\ snapshots' = Put(snapshots, c, PinnedSnapshot(c))
                            /\ pinnedTargets' = Put(pinnedTargets, c, content)
                            /\ history' = history
       /\ c \notin Retained => /\ snapshots' = Drop(snapshots, c)
                               /\ pinnedTargets' = Drop(pinnedTargets, c)
                               /\ history' = [history EXCEPT ![c] = <<>>]
       /\ said' = [said EXCEPT ![d] = Append(history'[c], Said(d, "user"))]
  BY DEF Begin
<1>13. BoundPersona(c) = content["prompt"]
  BY DEF BoundPersona, AttributedContent, TurnInv, BoundInv
<1>14. MarkInv'
  <2>1. \A e \in Messages : stage'[e] \in InTurn => stage[e] \in InTurn \/ e = d
    BY <1>2
  <2>2. "asking" \in InTurn
    BY DEF InTurn
  <2>. QED  BY <1>1, <1>2, <1>3, <2>1, <2>2 DEF TurnInv, MarkInv
<1>15. RunInv'
  BY <1>2, <1>7, <1>8, <1>9 DEF TurnInv, RunInv, RunsAreFinished, Before
<1>16. c \in DOMAIN personas' /\ personas'[c] = content["prompt"]
       /\ \A x : x # c => /\ x \in DOMAIN personas' <=> x \in DOMAIN personas
                          /\ x \in DOMAIN personas => personas'[x] = personas[x]
  BY <1>12, <1>13 DEF Put
<1>17. /\ c \in Retained => /\ c \in DOMAIN snapshots' /\ snapshots'[c] = PinnedSnapshot(c)
                            /\ c \in DOMAIN pinnedTargets' /\ pinnedTargets'[c] = content
       /\ \A x : x # c => /\ x \in DOMAIN snapshots' <=> x \in DOMAIN snapshots
                          /\ x \in DOMAIN snapshots => snapshots'[x] = snapshots[x]
                          /\ x \in DOMAIN pinnedTargets' <=> x \in DOMAIN pinnedTargets
                          /\ x \in DOMAIN pinnedTargets => pinnedTargets'[x] = pinnedTargets[x]
  BY <1>12 DEF Put, Drop
<1>18. /\ c \in Retained /\ c \in DOMAIN snapshots => PinnedSnapshot(c) = snapshots[c]
       /\ c \in Retained /\ c \in DOMAIN pinnedTargets => content = pinnedTargets[c]
  BY DEF PinnedSnapshot, AttributedContent
<1>. HIDE DEF content
<1>19. BoundInv'
  <2>1. ASSUME NEW e \in Messages, stage'[e] \in Asking
        PROVE  /\ Conversation[e] \in DOMAIN personas'
               /\ run'[e].status = "open" => personas'[Conversation[e]] = run'[e].targets["prompt"]
    <3>1. CASE e = d
      BY <1>8, <1>9, <1>16, <3>1
    <3>2. CASE e # d
      <4>1. stage[e] \in Asking /\ Conversation[e] # c /\ run'[e] = run[e]
        BY <1>2, <1>3, <1>7, <2>1, <3>2 DEF Asking, InTurn
      <4>. QED  BY <1>16, <4>1 DEF TurnInv, BoundInv
    <3>. QED  BY <3>1, <3>2
  <2>2. ASSUME NEW x \in Retained
        PROVE  /\ x \in DOMAIN personas' <=> x \in DOMAIN pinnedTargets'
               /\ x \in DOMAIN personas' => personas'[x] = pinnedTargets'[x]["prompt"]
    <3>1. CASE x = c
      BY <1>16, <1>17, <3>1
    <3>2. CASE x # c
      BY <1>16, <1>17, <3>2 DEF TurnInv, BoundInv
    <3>. QED  BY <3>1, <3>2
  <2>3. ASSUME NEW e \in Messages, Conversation[e] \in Retained, run'[e].status # "none"
        PROVE  /\ Conversation[e] \in DOMAIN snapshots'
               /\ run'[e].snapshot = snapshots'[Conversation[e]]
               /\ Conversation[e] \in DOMAIN pinnedTargets'
               /\ run'[e].targets = pinnedTargets'[Conversation[e]]
    <3>1. CASE e = d
      BY <1>8, <1>9, <1>17, <2>3, <3>1
    <3>2. CASE e # d
      <4>1. /\ Conversation[e] \in DOMAIN snapshots /\ run'[e].snapshot = snapshots[Conversation[e]]
            /\ Conversation[e] \in DOMAIN pinnedTargets
            /\ run'[e].targets = pinnedTargets[Conversation[e]]
        BY <1>7, <2>3, <3>2 DEF TurnInv, BoundInv
      <4>. QED  BY <1>17, <1>18, <2>3, <4>1
    <3>. QED  BY <3>1, <3>2
  <2>. QED  BY <2>1, <2>2, <2>3 DEF BoundInv
<1>20. HistoryInv'
  <2>1. HistoryInv /\ history \in [Conversations -> Seq(Entry)] /\ Retained \subseteq Conversations
    BY ShapeAssumption DEF TurnInv, TypeOK
  <2>2. \A x \in Retained : history'[x] = history[x]
    BY <1>1, <1>12, <2>1
  <2>3. \A e \in Messages : e # d => said'[e] = said[e]
    BY <1>12 DEF TurnInv, TypeOK
  <2>4. ASSUME NEW x \in Retained, NEW i \in 1..Len(history[x])
        PROVE  stage'[history[x][i].of] \in Answered
    <3>1. history[x][i].of \in Messages
      BY HistoryTypes, EntryOf
    <3>2. stage[history[x][i].of] \in Answered
      BY <2>1 DEF HistoryInv
    <3>. QED  BY <1>1, <1>2, <3>1, <3>2 DEF Answered
  <2>5. ASSUME NEW x \in Retained
        PROVE  /\ Len(history'[x]) <= MaxHistory /\ Apart(history'[x])
               /\ \A i \in 1..Len(history'[x]) : stage'[history'[x][i].of] \in Answered
    <3>1. history'[x] = history[x]
      BY <2>2
    <3>. QED  BY <2>1, <2>4, <3>1 DEF HistoryInv
  <2>6. ASSUME NEW e \in Messages, Conversation[e] \in Retained
        PROVE  /\ stage'[e] \in Asking => Extended(said'[e], history'[Conversation[e]], e)
               /\ stage'[e] = "replying" => EndsWith(history'[Conversation[e]], e)
               /\ run'[e].status = "success" => Holds(history'[Conversation[e]], e)
    <3>1. CASE e = d
      <4>1. history'[c] \in Seq(Entry)
        BY <2>1, <2>2, <2>6, <3>1
      <4>2. Extended(said'[d], history'[c], d)
        BY <1>4, <4>1, BeginsExtended
      <4>. QED  BY <1>2, <1>8, <1>9, <3>1, <4>2
    <3>2. CASE e # d
      <4>1. said'[e] = said[e] /\ stage'[e] = stage[e] /\ run'[e] = run[e]
        BY <1>2, <1>7, <2>3, <3>2
      <4>2. history'[Conversation[e]] = history[Conversation[e]]
        BY <2>2, <2>6
      <4>. QED  BY <2>1, <2>6, <4>1, <4>2 DEF HistoryInv
    <3>. QED  BY <3>1, <3>2
  <2>. QED  BY <2>5, <2>6 DEF HistoryInv
<1>21. FeedbackInv'
  <2>1. FeedbackInv
    BY DEF TurnInv
  <2>2. CASE run'[d] = recorded
    <3>1. \A e \in Messages : run[e].status # "none" => run'[e] = run[e]
      BY <1>1, <1>7
    <3>2. run'[d].status # "none"
          /\ latest' = Remembered(Channel[d], d, {Use(run'[d].targets, "prompt")})
      BY <1>8, <1>11, <2>2
    <3>. DEFINE used == {Use(run'[d].targets, "prompt")}
    <3>3. \A u \in used : u.revision = run'[d].targets[u.target]
      BY DEF Use
    <3>4. latest' = Remembered(Channel[d], d, used)
      BY <3>2
    <3>. HIDE DEF used
    <3>. QED  BY <2>1, <3>1, <3>2, <3>3, <3>4, FeedbackKept
  <2>3. CASE run'[d].status = "none"
    BY <1>10, <2>1, <2>3 DEF FeedbackInv, FeedbackOnOneRun
  <2>. QED  BY <1>9, <2>2, <2>3
<1>. QED  BY <1>4, <1>14, <1>15, <1>19, <1>20, <1>21 DEF TurnInv

LEMMA NextTurnInv == TurnInv /\ [Next]_vars => TurnInv'
<1>. SUFFICES ASSUME TurnInv, [Next]_vars PROVE TurnInv'
  OBVIOUS
<1>1. ASSUME NEW d \in Messages, Deliver(d) \/ Step(d) PROVE TurnInv'
  BY <1>1, OpeningInv, BeginInv, AnswerInv, RequestInv, FailsInv, NextRoundInv, EndInv DEF Step
<1>2. ASSUME NEW d \in Messages, NEW t \in Tools, CallStep(d, t) PROVE TurnInv'
  BY <1>2, AsideInv, CallEndsInv DEF CallStep
<1>3. CASE \/ \E t \in Released : Activate(t)
           \/ Publish \/ Restore \/ \E o \in Controls : Apply(o)
           \/ UNCHANGED vars
  BY <1>3, AsideInv
<1>4. CASE Settle
  BY <1>4, SettleTurnInv
<1>. QED  BY <1>1, <1>2, <1>3, <1>4 DEF Next

-----------------------------------------------------------------------------
(* The theorems about turns.                                                *)

\* The inductive invariant of turns holds in every state.
THEOREM TurnsInvariant == Spec => []TurnInv
BY InitTurnInv, NextTurnInv, PTL DEF Spec

\* A conversation is neither shared by two turns nor left blocked by one: the
\* mark the runtime sets before a turn is held exactly while a turn runs.
THEOREM OneTurnAtATime == Spec => []TurnsExclusive
<1>1. TurnInv => TurnsExclusive
  <2>. SUFFICES ASSUME TurnInv, NEW c \in Conversations
                PROVE  Cardinality(Turning(c)) <= 1 /\ (c \in inflight <=> Turning(c) # {})
    BY DEF TurnsExclusive, TurnInv
  <2>1. \A d, e \in Turning(c) : d = e
    BY DEF Turning, TurnInv, MarkInv
  <2>2. c \in inflight <=> Turning(c) # {}
    BY DEF Turning, TurnInv, MarkInv
  <2>3. CASE Turning(c) = {}
    BY <2>2, <2>3, FS_EmptySet
  <2>4. CASE Turning(c) # {}
    <3>1. PICK d : d \in Turning(c)
      BY <2>4
    <3>2. Turning(c) = {d}
      BY <2>1, <3>1
    <3>3. Cardinality({d}) = 1
      BY FS_Singleton
    <3>. QED  BY <2>2, <3>2, <3>3
  <2>. QED  BY <2>3, <2>4
<1>. QED  BY <1>1, TurnsInvariant, PTL

\* A retained conversation remembers whole turns, each once, the last answered
\* turn at its end, and loses one only to the limit of its history.
THEOREM AnswersAreRemembered == Spec => []AnsweredRemembered
<1>1. TurnInv => AnsweredRemembered
  <2>. SUFFICES ASSUME TurnInv, NEW c \in Retained
                PROVE  /\ Len(history[c]) <= MaxHistory
                       /\ \A i, j \in DOMAIN history[c] :
                            i < j => /\ history[c][j].part = "user" =>
                                          history[c][i].of # history[c][j].of
                                     /\ history[c][j].part # "user" =>
                                          history[c][j].of = history[c][j - 1].of
                       /\ \A d \in Messages :
                            Conversation[d] = c =>
                              /\ stage[d] = "replying" => EndsWith(history[c], d)
                              /\ run[d].status = "success" =>
                                   \/ Len(history[c]) = MaxHistory
                                   \/ \E i \in DOMAIN history[c] : history[c][i].of = d
    BY DEF AnsweredRemembered, EndsWith
  <2>1. DOMAIN history[c] = 1..Len(history[c])
    BY HistoryTypes
  <2>2. HistoryInv
    BY DEF TurnInv
  <2>. QED  BY <2>1, <2>2 DEF HistoryInv, Apart, Holds
<1>. QED  BY <1>1, TurnsInvariant, PTL

\* The evidence credits the prompt the model was shown, and a retained
\* conversation keeps the Snapshot and the content of its first turn.
THEOREM PromptsAreAttributed == Spec => []AttributedPrompt
<1>1. TurnInv => AttributedPrompt
  BY DEF TurnInv, BoundInv, Asking, AttributedPrompt
<1>. QED  BY <1>1, TurnsInvariant, PTL

\* Feedback is filed for one recorded run of its channel, against revisions
\* that run used.
THEOREM FeedbackStaysOnOneRun == Spec => []FeedbackOnOneRun
<1>1. TurnInv => FeedbackOnOneRun
  BY DEF TurnInv, FeedbackInv
<1>. QED  BY <1>1, TurnsInvariant, PTL

\* Every way a turn ends gives its run a disposition.
THEOREM RunsGetADisposition == Spec => []RunsAreFinished
<1>1. TurnInv => RunsAreFinished
  BY DEF TurnInv, RunInv
<1>. QED  BY <1>1, TurnsInvariant, PTL

=============================================================================
