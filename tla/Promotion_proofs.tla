--------------------------- MODULE Promotion_proofs ---------------------------
(***************************************************************************)
(* What a promotion stands on, for every number of proposals, runs,        *)
(* principals and overlapping commands: the reviews of the proposal        *)
(* (ProposalReviews), the evidence about the candidate (CandidateEvidence) *)
(* and the release transaction (EvolutionRelease).                         *)
(*                                                                         *)
(* Reviews travel over awaits in versions of the proposal's metadata, so   *)
(* the invariant is about every version anywhere.  Evidence travels from   *)
(* the evaluator through a cache, two commands and the store of reports;   *)
(* EvidenceInv says of each of these places that its report answers the    *)
(* request it is kept for, and that a run keeps the dataset it sealed      *)
(* under a command that read the run before an await.                      *)
(*                                                                         *)
(* The release and revision stores only grow (Grows), so what a step finds *)
(* in them stays.  ReleaseInv says what each command relies on there, that *)
(* no two of them hold the same canary, and that whatever a revision is    *)
(* staged over was canaried: the parent of a revision was active once.     *)
(* LoneInv says what a command nobody overlapped knows besides: the active *)
(* revision and the run are still those it checked.                        *)
(*                                                                         *)
(* At the end, for every input: what a passed evaluation and an accepted   *)
(* manifest say of what they are about.                                    *)
(***************************************************************************)
EXTENDS ProposalReviews, CandidateEvidence, EvolutionRelease,
        FiniteSetTheorems, TLAPS

---------------------------------------------------------------------------
(* Reviews: the inductive invariant                                        *)

\* Who waits for a record has not begun to write, and waits once.
QueueInv ==
  /\ \A i \in DOMAIN waiting : call[waiting[i]].step = "recording"
  /\ \A i, j \in DOMAIN waiting : waiting[i] = waiting[j] => i = j

\* A version without metadata is what is left of a text. One that has them has
\* the approvers of a whole text, all different and none the author, and the
\* reviews its status takes unless it is a mixture of two.
Distinct(p, s) ==
  /\ Cardinality(Principal(s)) = Len(s)
  /\ AuthorOf[p] \notin Principal(s) /\ Principal(s) \subseteq Principals
Sound(p, m) ==
  IF m.evolution = "none"
  THEN p \in cut
  ELSE Distinct(p, m.approvers) /\ (p \notin Mixed => ReviewsComplete(p, m))

\* Every version anywhere has the reviews its status takes, as far as it is
\* whole: the store's, the one on disk and the one a decision carries over its
\* awaits.
CompleteInv ==
  /\ \A p \in Known : Sound(p, memory[p])
  /\ \A p \in Proposals : file[p] # Torn => Sound(p, file[p])
  /\ \A c \in Calls : call[c].step # "idle" =>
       LET next == call[c].next IN
       /\ next.status # "authored" /\ ReviewsComplete(call[c].proposal, next)
       /\ IF next.evolution = "none" THEN call[c].proposal \in cut
          ELSE Distinct(call[c].proposal, next.approvers)

\* What is being written is recorded.
RecordInv ==
  /\ \A p \in Known : OnRecord(p, memory[p])
  /\ \A p \in Proposals : file[p] # Torn => OnRecord(p, file[p])
  /\ \A c \in Calls : call[c].step = "writing" =>
       <<call[c].proposal, RecordOf(call[c].next)>> \in recorded

\* A decision is about a proposal of the store, whose files are whole; of two
\* decisions of one proposal the history tells. One that is alone is about an
\* undecided proposal, and while it writes the file cannot be read.
AloneInv ==
  /\ \A p \in Known : directory[p] = "whole"
  /\ \A c \in Calls : call[c].step # "idle" =>
       /\ call[c].proposal \in Known
       /\ call[c].proposal \notin contested =>
            /\ Undecided(memory[call[c].proposal])
            /\ \A d \in Calls : call[d].step # "idle" /\ call[d].proposal = call[c].proposal => d = c
            /\ ~ call[c].raced
            /\ call[c].step = "writing" => file[call[c].proposal] = Torn

\* What a promotion found.
Stands(p, m, promoter) ==
  /\ m.status = "approved"
  /\ promoter \notin Principal(m.approvers) \union {AuthorOf[p]}

\* It is still so in the store, and on disk wherever the file can be read.
PromotedInv ==
  \A p \in Proposals, promoter \in Promoters :
    <<p, promoter>> \in promotions /\ p \notin contested =>
      /\ directory[p] = "whole"
      /\ open => p \in Known
      /\ p \in Known => Stands(p, memory[p], promoter)
      /\ file[p] # Torn => Stands(p, file[p], promoter)

BootInv == ~ open => boots < MaxBoots /\ memory = <<>>

IInv ==
  /\ TypeOK /\ QueueInv /\ CompleteInv /\ RecordInv
  /\ AloneInv /\ DiskAgrees /\ PromotedInv /\ BootInv

---------------------------------------------------------------------------
(* Versions and their reviews                                              *)

LEMMA FreshIsSound ==
  ASSUME NEW p \in Proposals, NEW e \in Evolutions
  PROVE  /\ Fresh.status = "authored" /\ Fresh \in Metadata /\ Sound(p, Fresh)
         /\ [Fresh EXCEPT !.evolution = e] \in Metadata
         /\ [Fresh EXCEPT !.evolution = e].status = "authored"
         /\ Distinct(p, [Fresh EXCEPT !.evolution = e].approvers)
         /\ ReviewsComplete(p, [Fresh EXCEPT !.evolution = e])
<1>. DEFINE left == [Fresh EXCEPT !.evolution = e]
<1>1. Principal(<<>>) = {} /\ Len(<<>>) = 0 /\ <<>> \in Seq(Names) /\ "authored" \in Statuses
  BY DEF Principal, Statuses
<1>2. Cardinality({}) = 0
  BY FS_EmptySet
<1>3. Distinct(p, <<>>)
  BY <1>1, <1>2 DEF Distinct
<1>4. /\ left = [status |-> "authored", approvers |-> <<>>, evolution |-> e]
      /\ Fresh = [status |-> "authored", approvers |-> <<>>, evolution |-> "whole"]
  BY DEF Fresh
<1>5. left \in Metadata /\ Fresh \in Metadata
  BY <1>1, <1>4 DEF Metadata, Evolutions
<1>6. ReviewsComplete(p, left) /\ ReviewsComplete(p, Fresh)
  BY <1>1, <1>2, <1>4 DEF ReviewsComplete
<1>. QED  BY <1>3, <1>4, <1>5, <1>6 DEF Sound

LEMMA EnoughIsBacked ==
  ASSUME NEW p \in Proposals, NEW m \in Metadata, m.evolution # "none",
         Distinct(p, m.approvers), m.status = "approved" => Len(m.approvers) >= RequiredReviews(p, m)
  PROVE  Backed(p, m)
<1>. SUFFICES ASSUME m.status = "approved" PROVE Backed(p, m)
  BY DEF Backed
<1>1. (Principal(m.approvers) \intersect Principals) \ {AuthorOf[p]} = Principal(m.approvers)
  BY DEF Distinct
<1>2. Cardinality(Principal(m.approvers)) >= RequiredReviews(p, m)
  BY DEF Distinct, Metadata
<1>3. RiskClass[p] \in Risks
  BY ShapeAssumption
<1>. QED  BY <1>1, <1>2, <1>3 DEF Backed, RequiredReviews, Risks

LEMMA OutcomeTyped ==
  ASSUME NEW p \in Proposals, NEW m \in Metadata, NEW r \in Principals, NEW v \in Verdicts
  PROVE  /\ Outcome(p, m, r, v) \in Metadata
         /\ Outcome(p, m, r, v).status # "authored"
         /\ Outcome(p, m, r, v).evolution = m.evolution
         /\ Principal(Outcome(p, m, r, v).approvers) \subseteq Principal(m.approvers) \union {r}
<1>1. /\ m.approvers \in Seq(Names) /\ r \in Names /\ m.evolution \in Evolutions
      /\ Append(m.approvers, r) \in Seq(Names) /\ <<r>> \in Seq(Names)
  BY ShapeAssumption DEF Metadata
<1>2. Principal(Append(m.approvers, r)) \subseteq Principal(m.approvers) \union {r}
      /\ Principal(<<r>>) \subseteq {r}
  BY <1>1 DEF Principal
<1>. QED  BY <1>1, <1>2 DEF Outcome, Metadata, Statuses, Verdicts

---------------------------------------------------------------------------
(* Calls                                                                   *)

LEMMA DecisionShape ==
  ASSUME TypeOK, NEW c \in Calls, call[c].step # "idle"
  PROVE  /\ call[c] \in Decisions /\ call[c].step \in {"recording", "writing"}
         /\ call[c].proposal \in Proposals /\ call[c].next \in Metadata
         /\ call[c].by \in Principals /\ call[c].raced \in BOOLEAN
<1>1. call[c] \in {Idle} \union Decisions
  BY DEF TypeOK
<1>2. Idle.step = "idle"
  BY DEF Idle
<1>. QED  BY <1>1, <1>2 DEF Decisions

\* Beginning to write changes nothing of the decisions but where they are.
LEMMA StartWriteMoves ==
  ASSUME TypeOK, NEW c \in Calls, call[c].step = "recording", StartWrite(c)
  PROVE  /\ call' \in [Calls -> {Idle} \union Decisions]
         /\ file' \in [Proposals -> Metadata \union {Torn}]
         /\ file'[call[c].proposal] = Torn
         /\ \A p \in Proposals : p # call[c].proposal => file'[p] = file[p]
         /\ call'[c].step = "writing"
         /\ call'[c].raced = (Writers(call[c].proposal) # {})
         /\ \A d \in Calls :
              /\ d # c => call'[d].step = call[d].step
              /\ d # c /\ d \notin Writers(call[c].proposal) => call'[d] = call[d]
              /\ call[d].step # "idle" =>
                   call'[d].proposal = call[d].proposal /\ call'[d].next = call[d].next
         /\ \A q \in Proposals : Writers(q) \subseteq Writers(q)'
         /\ \A q \in Proposals : q = call[c].proposal => c \in Writers(q)'
<1>. DEFINE others == Writers(call[c].proposal)
<1>1. call[c] \in Decisions /\ call[c].proposal \in Proposals
  BY DecisionShape
<1>2. file' = [file EXCEPT ![call[c].proposal] = Torn]
  BY DEF StartWrite
<1>3. \A d \in Calls :
        call'[d] = IF d = c THEN [call[d] EXCEPT !.step = "writing", !.raced = (others # {})]
                   ELSE IF d \in others THEN [call[d] EXCEPT !.raced = TRUE] ELSE call[d]
  BY DEF StartWrite
<1>4. DOMAIN call' = Calls /\ call' = [d \in Calls |-> call'[d]]
  BY DEF StartWrite
<1>5. \A d \in others : d \in Calls /\ call[d] \in Decisions /\ call[d].step = "writing"
  BY DecisionShape DEF Writers, Deciding
<1>6. ASSUME NEW d \in Calls
      PROVE  /\ call'[d] \in {Idle} \union Decisions
             /\ d # c => call'[d].step = call[d].step
             /\ d # c /\ d \notin others => call'[d] = call[d]
             /\ call[d].step # "idle" =>
                  call'[d].proposal = call[d].proposal /\ call'[d].next = call[d].next
  <2>1. CASE d = c
    <3>1. call'[c] = [call[c] EXCEPT !.step = "writing", !.raced = (others # {})]
      BY <1>3
    <3>2. (others # {}) \in BOOLEAN
      OBVIOUS
    <3>. QED  BY <1>1, <2>1, <3>1, <3>2 DEF Decisions
  <2>2. CASE d # c /\ d \in others
    <3>1. call'[d] = [call[d] EXCEPT !.raced = TRUE]
      BY <1>3, <2>2
    <3>. QED  BY <1>5, <2>2, <3>1 DEF Decisions
  <2>3. CASE d # c /\ d \notin others
    <3>1. call'[d] = call[d]
      BY <1>3, <2>3
    <3>. QED  BY <2>3, <3>1 DEF TypeOK
  <2>. QED  BY <2>1, <2>2, <2>3
<1>7. call'[c].step = "writing" /\ call'[c].raced = (others # {})
  <2>1. call'[c] = [call[c] EXCEPT !.step = "writing", !.raced = (others # {})]
    BY <1>3
  <2>. QED  BY <1>1, <2>1 DEF Decisions
<1>8. call' \in [Calls -> {Idle} \union Decisions]
  BY <1>4, <1>6
<1>9. /\ file' \in [Proposals -> Metadata \union {Torn}]
      /\ file'[call[c].proposal] = Torn
      /\ \A p \in Proposals : p # call[c].proposal => file'[p] = file[p]
  BY <1>1, <1>2 DEF TypeOK
<1>10. \A q \in Proposals : Writers(q) \subseteq Writers(q)'
  <2>1. \A d \in Calls : call[d].step = "writing" => d # c
    OBVIOUS
  <2>. QED  BY <1>6, <2>1 DEF Writers, Deciding
<1>11. \A q \in Proposals : q = call[c].proposal => c \in Writers(q)'
  <2>1. call'[c].proposal = call[c].proposal
    BY <1>6
  <2>. QED  BY <1>7, <2>1 DEF Writers, Deciding
<1>. QED  BY <1>6, <1>7, <1>8, <1>9, <1>10, <1>11

\* What a write leaves that ends early.
LEMMA LeftTyped ==
  ASSUME TypeOK, NEW c \in Calls, call[c].step = "writing"
  PROVE  LeftBy(c) \subseteq Metadata \union {Torn}
<1>. DEFINE m == call[c].next
            p == call[c].proposal
            Heads == [k \in 0..Len(m.approvers) |-> SubSeq(m.approvers, 1, k)]
<1>1. /\ call[c] \in Decisions /\ p \in Proposals /\ m \in Metadata
      /\ call[c].by \in Names
  BY DecisionShape, ShapeAssumption
<1>2. /\ m.approvers \in Seq(Names) /\ m.status \in Statuses /\ m.evolution \in Evolutions
      /\ m = [status |-> m.status, approvers |-> m.approvers, evolution |-> m.evolution]
  BY <1>1 DEF Metadata
<1>3. \A k \in 0..Len(m.approvers) : Heads[k] \in Seq(Names)
  BY <1>2
<1>4. \A n \in Names : Begins[n] \subseteq Names
  BY ShapeAssumption
<1>5. ApproversLeft(m, call[c].by) \subseteq Seq(Names)
  <2>1. {Heads[k] : k \in DOMAIN Heads} \subseteq Seq(Names)
    BY <1>3
  <2>2. {<<n>> : n \in {call[c].by} \union Begins[call[c].by]} \subseteq Seq(Names)
    <3>1. \A n \in {call[c].by} \union Begins[call[c].by] : n \in Names
      BY <1>1, <1>4
    <3>2. \A n \in Names : <<n>> \in Seq(Names)
      OBVIOUS
    <3>. QED  BY <3>1, <3>2
  <2>3. ASSUME NEW k \in DOMAIN m.approvers,
               NEW n \in Begins[m.approvers[k]] \ Principal(Heads[k - 1])
        PROVE  Append(Heads[k - 1], n) \in Seq(Names)
    <3>1. k - 1 \in 0..Len(m.approvers) /\ m.approvers[k] \in Names
      BY <1>2
    <3>2. n \in Names /\ Heads[k - 1] \in Seq(Names)
      BY <1>3, <1>4, <3>1
    <3>. HIDE DEF Heads
    <3>. QED  BY <3>2
  <2>. HIDE DEF Heads
  <2>4. ApproversLeft(m, call[c].by) =
          {Heads[k] : k \in DOMAIN Heads} \union {<<n>> : n \in {call[c].by} \union Begins[call[c].by]}
            \union UNION {{Append(Heads[k - 1], n) :
                             n \in Begins[m.approvers[k]] \ Principal(Heads[k - 1])} :
                           k \in DOMAIN m.approvers}
    BY DEF ApproversLeft, Heads
  <2>5. UNION {{Append(Heads[k - 1], n) : n \in Begins[m.approvers[k]] \ Principal(Heads[k - 1])} :
               k \in DOMAIN m.approvers} \subseteq Seq(Names)
    <3>. DEFINE Shorter(k) == {Append(Heads[k - 1], n) : n \in Begins[m.approvers[k]] \ Principal(Heads[k - 1])}
    <3>1. \A k \in DOMAIN m.approvers : Shorter(k) \subseteq Seq(Names)
      BY <2>3
    <3>. HIDE DEF Shorter
    <3>2. UNION {Shorter(k) : k \in DOMAIN m.approvers} \subseteq Seq(Names)
      BY <3>1
    <3>. QED  BY <3>2 DEF Shorter
  <2>. QED  BY <2>1, <2>2, <2>4, <2>5
<1>6. Beginnings(m, call[c].by) \subseteq Metadata \union {Torn}
  BY <1>1, <1>2, <1>5 DEF Beginnings, Metadata, Evolutions
<1>7. \A d \in Writers(p) : call[d].next \in Metadata
  BY DecisionShape DEF Writers, Deciding
<1>8. file[p] \in Metadata \union {Torn}
  BY <1>1 DEF TypeOK
<1>9. \A o \in Metadata : [o EXCEPT !.status = m.status] \in Metadata
  BY <1>2 DEF Metadata
<1>. QED  BY <1>6, <1>7, <1>8, <1>9 DEF LeftBy

\* The status of what can be read is the one being written, and what still has
\* metadata is all of that text, but after a race.
LEMMA LeftIsKnown ==
  ASSUME TypeOK, NEW c \in Calls, call[c].step = "writing", NEW text \in LeftBy(c), text # Torn
  PROVE  LET next == call[c].next
             p == call[c].proposal IN
         \/ /\ text.status = next.status
            /\ text.evolution # "none" =>
                 /\ text.approvers = next.approvers
                 /\ next.evolution # "none"
         \/ call[c].raced /\ text = file[p]
         \/ /\ call[c].raced
            /\ \E o \in ({file[p]} \ {Torn}) \union {call[d].next : d \in Writers(p) \ {c}} :
                 text = [o EXCEPT !.status = next.status]
<1>. DEFINE next == call[c].next
            p == call[c].proposal
<1>1. next \in Metadata
  BY DecisionShape
<1>2. [next EXCEPT !.evolution = "short"].status = next.status
      /\ [next EXCEPT !.evolution = "short"].approvers = next.approvers
  BY <1>1 DEF Metadata
<1>3. CASE text \in Beginnings(next, call[c].by)
  <2>1. CASE text = next
    BY <2>1
  <2>2. CASE next.evolution # "none" /\ text = [next EXCEPT !.evolution = "short"]
    BY <2>2, <1>2
  <2>3. CASE \E l : text = [status |-> next.status, approvers |-> l, evolution |-> "none"]
    BY <2>3
  <2>. QED  BY <1>3, <2>1, <2>2, <2>3 DEF Beginnings
<1>4. CASE text \notin Beginnings(next, call[c].by)
  BY <1>4 DEF LeftBy
<1>. QED  BY <1>3, <1>4

\* What is said of every version holds of it.
LEMMA LeftIsSound ==
  ASSUME TypeOK, CompleteInv, RecordInv, AloneInv,
         NEW c \in Calls, call[c].step = "writing", NEW text \in LeftBy(c), text # Torn,
         NEW p, p = call[c].proposal, p \in cut', recorded' = recorded,
         contested' = contested, cut \subseteq cut'
  PROVE  /\ Sound(p, text)' /\ OnRecord(p, text)'
         /\ p \notin contested => text.status # "authored"
<1>. DEFINE next == call[c].next
<1>1. /\ next.status # "authored" /\ ReviewsComplete(p, next)
      /\ IF next.evolution = "none" THEN p \in cut ELSE Distinct(p, next.approvers)
      /\ <<p, RecordOf(next)>> \in recorded /\ (call[c].raced => p \in contested)
      /\ p \in Proposals /\ next \in Metadata
  BY DecisionShape DEF CompleteInv, RecordInv, AloneInv
<1>2. Mixed' = cut' \intersect contested /\ Mixed \subseteq Mixed' /\ p \in cut'
  BY DEF Mixed
<1>3. /\ <<p, RecordOf(next)>>[1] = p /\ <<p, RecordOf(next)>>[2].status = next.status
      /\ \A m : m.status = next.status /\ m.approvers = next.approvers => RecordOf(m) = RecordOf(next)
  BY DEF RecordOf
<1>4. text \in Metadata
  BY LeftTyped
<1>. HIDE DEF next
<1>5. CASE text.status = next.status
           /\ (text.evolution # "none" => text.approvers = next.approvers /\ next.evolution # "none")
  <2>1. text.evolution # "none" => ReviewsComplete(p, text)
    BY <1>1, <1>5 DEF ReviewsComplete, RequiredReviews
  <2>2. Sound(p, text)'
    BY <1>1, <1>2, <1>5, <2>1 DEF Sound
  <2>3. OnRecord(p, text)'
    BY <1>1, <1>2, <1>3, <1>5 DEF OnRecord
  <2>. QED  BY <1>1, <1>5, <2>2, <2>3
<1>6. CASE call[c].raced /\ text = file[p]
  <2>1. Sound(p, text) /\ OnRecord(p, text)
    BY <1>1, <1>6 DEF CompleteInv, RecordInv
  <2>2. Sound(p, text)'
    BY <1>2, <2>1 DEF Sound
  <2>3. OnRecord(p, text)'
    <3>1. <<p, RecordOf(text)>>[1] = p /\ <<p, RecordOf(text)>>[2].status = text.status
      BY DEF RecordOf
    <3>. QED  BY <1>2, <2>1, <3>1 DEF OnRecord
  <2>. QED  BY <1>1, <1>6, <2>2, <2>3
<1>7. CASE /\ call[c].raced
           /\ \E o \in ({file[p]} \ {Torn}) \union {call[d].next : d \in Writers(p) \ {c}} :
                text = [o EXCEPT !.status = next.status]
  <2>1. PICK o \in ({file[p]} \ {Torn}) \union {call[d].next : d \in Writers(p) \ {c}} :
               text = [o EXCEPT !.status = next.status]
    BY <1>7
  <2>2. o \in Metadata /\ (o.evolution # "none" => Distinct(p, o.approvers))
    <3>1. CASE o \in {file[p]} \ {Torn}
      BY <1>1, <3>1 DEF TypeOK, CompleteInv, Sound
    <3>2. CASE o \in {call[d].next : d \in Writers(p) \ {c}}
      <4>1. PICK d \in Writers(p) \ {c} : o = call[d].next
        BY <3>2
      <4>2. d \in Calls /\ call[d].step # "idle" /\ call[d].proposal = p
        BY <4>1 DEF Writers, Deciding
      <4>. QED  BY <4>1, <4>2, DecisionShape DEF CompleteInv
    <3>. QED  BY <2>1, <3>1, <3>2
  <2>3. text.approvers = o.approvers /\ text.evolution = o.evolution /\ text.status = next.status
    BY <2>1, <2>2 DEF Metadata
  <2>4. p \in Mixed'
    BY <1>1, <1>2, <1>7
  <2>5. Sound(p, text)'
    BY <1>2, <2>2, <2>3, <2>4 DEF Sound
  <2>6. OnRecord(p, text)'
    BY <1>1, <1>2, <1>3, <2>3, <2>4 DEF OnRecord
  <2>. QED  BY <1>1, <2>3, <2>5, <2>6
<1>. QED  BY <1>5, <1>6, <1>7, LeftIsKnown DEF next

---------------------------------------------------------------------------
(* The steps                                                               *)

LEMMA InitIInv == Init => IInv
<1>. SUFFICES ASSUME Init PROVE IInv
  OBVIOUS
<1>. USE DEF Init
<1>1. Known = {} /\ DOMAIN waiting = {}
  BY DEF Known
<1>2. TypeOK
  BY <1>1, ShapeAssumption DEF TypeOK, Known
<1>3. \A c \in Calls : call[c].step = "idle"
  BY DEF Idle
<1>4. QueueInv
  BY <1>1 DEF QueueInv
<1>5. CompleteInv /\ RecordInv
  BY <1>1, <1>3 DEF CompleteInv, RecordInv
<1>6. AloneInv /\ DiskAgrees /\ PromotedInv /\ BootInv
  BY <1>1, <1>3 DEF AloneInv, DiskAgrees, PromotedInv, BootInv
<1>. QED  BY <1>2, <1>4, <1>5, <1>6 DEF IInv

LEMMA StartAuthorKeeps ==
  ASSUME IInv, NEW p \in Proposals, StartAuthor(p)
  PROVE  IInv'
<1>1. directory' \in [Proposals -> {"none", "partial", "whole"}]
      /\ \A q \in Proposals : directory[q] = "whole" => directory'[q] = "whole"
  BY DEF StartAuthor, IInv, TypeOK
<1>2. Known' = Known /\ Known \subseteq Proposals
  BY DEF StartAuthor, Known, IInv, TypeOK
<1>3. UNCHANGED <<file, memory, open, call, waiting, recorded, promotions, contested, cut, boots>>
  BY DEF StartAuthor
<1>4. TypeOK' /\ QueueInv' /\ CompleteInv' /\ RecordInv' /\ DiskAgrees' /\ BootInv'
  BY <1>1, <1>2, <1>3
  DEF IInv, TypeOK, QueueInv, CompleteInv, Sound, Mixed, RecordInv, OnRecord, DiskAgrees,
      Writers, Deciding, BootInv, Known
<1>5. AloneInv' /\ PromotedInv'
  BY <1>1, <1>2, <1>3 DEF IInv, AloneInv, PromotedInv, Known
<1>. QED  BY <1>4, <1>5 DEF IInv

LEMMA EndAuthorKeeps ==
  ASSUME IInv, NEW p \in Proposals, EndAuthor(p)
  PROVE  IInv'
<1>1. /\ p \notin Known /\ Known' = Known \union {p} /\ Known \subseteq Proposals
      /\ memory'[p] = Fresh /\ \A q \in Known : memory'[q] = memory[q]
  <2>1. memory' = Put(p, Fresh) /\ p \notin Known
    BY DEF EndAuthor
  <2>2. Known' = DOMAIN Put(p, Fresh)
    BY <2>1 DEF Known
  <2>3. Known \subseteq Proposals
    BY DEF IInv, TypeOK
  <2>4. /\ DOMAIN Put(p, Fresh) = Known \union {p} /\ Put(p, Fresh)[p] = Fresh
        /\ \A q \in Known : q # p => Put(p, Fresh)[q] = memory[q]
    BY DEF Put
  <2>. QED  BY <2>1, <2>2, <2>3, <2>4
<1>2. /\ directory' \in [Proposals -> {"none", "partial", "whole"}] /\ directory'[p] = "whole"
      /\ directory[p] = "partial" /\ \A q \in Proposals : q # p => directory'[q] = directory[q]
      /\ file' \in [Proposals -> Metadata \union {Torn}] /\ file'[p] = Fresh
      /\ \A q \in Proposals : q # p => file'[q] = file[q]
  <2>1. Fresh \in Metadata
    BY FreshIsSound DEF Evolutions
  <2>. QED  BY <2>1 DEF EndAuthor, IInv, TypeOK
<1>3. UNCHANGED <<open, call, waiting, recorded, promotions, contested, cut, boots>> /\ open
  BY DEF EndAuthor
<1>4. TypeOK'
  <2>1. Fresh \in Metadata
    BY FreshIsSound DEF Evolutions
  <2>. QED  BY <1>1, <1>2, <1>3, <2>1 DEF IInv, TypeOK
<1>5. QueueInv' /\ BootInv'
  BY <1>3 DEF IInv, QueueInv, BootInv
<1>6. Fresh.status = "authored" /\ Sound(p, Fresh)
  BY FreshIsSound DEF Evolutions
<1>7. CompleteInv' /\ RecordInv' /\ DiskAgrees'
  <2>1. CompleteInv'
    BY <1>1, <1>2, <1>3, <1>6 DEF IInv, CompleteInv, Sound, Mixed
  <2>2. RecordInv'
    BY <1>1, <1>2, <1>3, <1>6 DEF IInv, RecordInv, OnRecord, Mixed
  <2>3. DiskAgrees'
    BY <1>1, <1>2, <1>3 DEF IInv, DiskAgrees, Writers, Deciding
  <2>. QED  BY <2>1, <2>2, <2>3
<1>8. \A c \in Calls : call[c].step # "idle" => call[c].proposal \in Known /\ call[c].proposal # p
  BY <1>1 DEF IInv, AloneInv
<1>9. \A c \in Calls : call[c].step # "idle" => call[c].proposal \in Proposals
  BY <1>1, <1>8
<1>10. AloneInv'
  <2>1. \A q \in Known' : directory'[q] = "whole"
    BY <1>1, <1>2 DEF IInv, AloneInv
  <2>2. \A c \in Calls : call[c].step # "idle" =>
          /\ memory'[call[c].proposal] = memory[call[c].proposal]
          /\ file'[call[c].proposal] = file[call[c].proposal]
          /\ call[c].proposal \in Known'
    BY <1>1, <1>2, <1>8, <1>9
  <2>. QED  BY <1>3, <2>1, <2>2 DEF IInv, AloneInv
<1>11. PromotedInv'
  BY <1>1, <1>2, <1>3 DEF IInv, PromotedInv
<1>. QED  BY <1>4, <1>5, <1>7, <1>10, <1>11 DEF IInv

LEMMA FailAuthorKeeps ==
  ASSUME IInv, NEW p \in Proposals, FailAuthor(p)
  PROVE  IInv'
<1>1. PICK e \in Evolutions : file' = [file EXCEPT ![p] = [Fresh EXCEPT !.evolution = e]]
  BY DEF FailAuthor
<1>. DEFINE left == [Fresh EXCEPT !.evolution = e]
<1>2. left \in Metadata /\ left.status = "authored"
      /\ Distinct(p, left.approvers) /\ ReviewsComplete(p, left)
  BY FreshIsSound
<1>3. /\ directory' \in [Proposals -> {"none", "partial", "whole"}] /\ directory'[p] = "whole"
      /\ directory[p] = "partial" /\ \A q \in Proposals : q # p => directory'[q] = directory[q]
      /\ file' \in [Proposals -> Metadata \union {Torn}] /\ file'[p] = left
      /\ \A q \in Proposals : q # p => file'[q] = file[q]
      /\ cut' = cut \union {p} /\ p \notin Known
      /\ UNCHANGED <<memory, open, call, waiting, recorded, promotions, contested, boots>>
  BY <1>1, <1>2 DEF FailAuthor, IInv, TypeOK
<1>. HIDE DEF left
<1>4. Known' = Known /\ Known \subseteq Proposals /\ Mixed \subseteq Mixed'
  BY <1>3 DEF Known, IInv, TypeOK, Mixed
<1>5. TypeOK' /\ QueueInv' /\ BootInv'
  BY <1>3, <1>4 DEF IInv, TypeOK, QueueInv, BootInv
<1>6. CompleteInv'
  <2>1. \A q \in Proposals : file'[q] # Torn => Sound(q, file[q])'
    BY <1>2, <1>3, <1>4 DEF IInv, CompleteInv, Sound
  <2>. QED  BY <1>3, <1>4, <2>1 DEF IInv, CompleteInv, Sound
<1>7. RecordInv'
  <2>1. \A q \in Known : OnRecord(q, memory[q])'
    <3>1. \A q \in Known : q # p /\ OnRecord(q, memory[q])
      BY <1>3 DEF IInv, RecordInv
    <3>. QED  BY <1>3, <3>1 DEF OnRecord, Mixed
  <2>2. \A q \in Proposals : file'[q] # Torn => OnRecord(q, file[q])'
    BY <1>2, <1>3 DEF IInv, RecordInv, OnRecord, Mixed
  <2>. QED  BY <1>3, <1>4, <2>1, <2>2 DEF IInv, RecordInv
<1>8. AloneInv'
  <2>1. \A q \in Known' : directory'[q] = "whole"
    BY <1>3, <1>4 DEF IInv, AloneInv
  <2>2. \A c \in Calls : call[c].step # "idle" =>
          call[c].proposal \in Known /\ file'[call[c].proposal] = file[call[c].proposal]
    BY <1>3, <1>4 DEF IInv, AloneInv
  <2>. QED  BY <1>3, <1>4, <2>1, <2>2 DEF IInv, AloneInv
<1>9. DiskAgrees'
  BY <1>3, <1>4 DEF IInv, DiskAgrees, Writers, Deciding
<1>10. PromotedInv'
  BY <1>3, <1>4 DEF IInv, PromotedInv
<1>. QED  BY <1>5, <1>6, <1>7, <1>8, <1>9, <1>10 DEF IInv

LEMMA DecideKeeps ==
  ASSUME IInv, NEW c \in Calls, NEW p \in Proposals, NEW r \in Principals, NEW v \in Verdicts,
         Decide(c, p, r, v)
  PROVE  IInv'
<1>. DEFINE next == Outcome(p, memory[p], r, v)
            decision == [step |-> "recording", proposal |-> p, next |-> next, by |-> r, raced |-> FALSE]
<1>1. /\ open /\ call[c] = Idle /\ p \in Known /\ Undecided(memory[p])
      /\ ReviewsComplete(p, next) /\ call' = [call EXCEPT ![c] = decision]
      /\ waiting' = Append(waiting, c)
      /\ contested' = contested \union {q \in {p} : Deciding(p) # {}}
      /\ UNCHANGED <<directory, file, memory, open, recorded, promotions, cut, boots>>
  BY DEF Decide, Acceptable
<1>2. /\ next \in Metadata /\ decision \in Decisions /\ next.status # "authored"
      /\ IF next.evolution = "none" THEN p \in cut ELSE Distinct(p, next.approvers)
  <2>1. memory[p] \in Metadata
    BY <1>1 DEF IInv, TypeOK
  <2>2. next \in Metadata
    BY <2>1, OutcomeTyped
  <2>3. /\ next.status # "authored" /\ next.evolution = memory[p].evolution
        /\ Principal(next.approvers) \subseteq Principal(memory[p].approvers) \union {r}
    <3>1. PICK m \in Metadata : m = memory[p]
      BY <2>1
    <3>2. Outcome(p, m, r, v).status # "authored" /\ Outcome(p, m, r, v).evolution = m.evolution
      BY OutcomeTyped
    <3>3. Principal(Outcome(p, m, r, v).approvers) \subseteq Principal(m.approvers) \union {r}
      BY OutcomeTyped
    <3>. QED  BY <3>1, <3>2, <3>3
  <2>4. IF memory[p].evolution = "none" THEN p \in cut
        ELSE Principal(memory[p].approvers) \subseteq Principals
    BY <1>1 DEF IInv, CompleteInv, Sound, Distinct
  <2>5. IF next.evolution = "none" THEN p \in cut ELSE Distinct(p, next.approvers)
    BY <1>1, <2>3, <2>4 DEF ReviewsComplete, Distinct
  <2>6. decision \in Decisions
    BY <2>2 DEF Decisions
  <2>. QED  BY <2>2, <2>3, <2>5, <2>6
<1>3. call' \in [Calls -> {Idle} \union Decisions] /\ call'[c] = decision
      /\ \A d \in Calls : d # c => call'[d] = call[d]
  BY <1>1, <1>2 DEF IInv, TypeOK
<1>4. Idle.step = "idle" /\ decision.step = "recording" /\ decision.proposal = p
      /\ decision.next = next /\ decision.raced = FALSE
  BY DEF Idle
<1>. HIDE DEF next, decision
<1>5. Known' = Known
  BY <1>1 DEF Known
<1>6. TypeOK'
  <2>1. contested' \subseteq Proposals /\ waiting' \in Seq(Calls)
    BY <1>1 DEF IInv, TypeOK
  <2>. QED  BY <1>1, <1>3, <1>5, <2>1 DEF IInv, TypeOK
<1>7. QueueInv'
  <2>1. waiting \in Seq(Calls)
    BY DEF IInv, TypeOK
  <2>2. \A i \in DOMAIN waiting : waiting[i] \in Calls /\ waiting[i] # c
                                  /\ call[waiting[i]].step = "recording"
    BY <1>1, <1>4, <2>1 DEF IInv, QueueInv
  <2>3. DOMAIN waiting' = DOMAIN waiting \union {Len(waiting) + 1}
        /\ waiting'[Len(waiting) + 1] = c /\ \A i \in DOMAIN waiting : waiting'[i] = waiting[i]
    BY <1>1, <2>1
  <2>. QED  BY <1>3, <1>4, <2>2, <2>3 DEF IInv, QueueInv
<1>8. CompleteInv'
  <2>1. Mixed \subseteq Mixed'
    BY <1>1 DEF Mixed
  <2>2. /\ \A q \in Known' : Sound(q, memory[q])'
        /\ \A q \in Proposals : file'[q] # Torn => Sound(q, file[q])'
    BY <1>1, <1>5, <2>1 DEF IInv, CompleteInv, Sound
  <2>3. \A d \in Calls : call'[d].step # "idle" =>
          LET to == call'[d].next IN
          /\ to.status # "authored" /\ ReviewsComplete(call'[d].proposal, to)
          /\ IF to.evolution = "none" THEN call'[d].proposal \in cut'
             ELSE Distinct(call'[d].proposal, to.approvers)
    BY <1>1, <1>2, <1>3, <1>4 DEF IInv, CompleteInv
  <2>. QED  BY <2>2, <2>3 DEF CompleteInv
<1>9. RecordInv'
  <2>1. /\ Mixed \subseteq Mixed' /\ recorded \subseteq recorded' /\ cut \subseteq cut'
        /\ \A q : q \in Mixed' => q \in cut'
        /\ \A q, m : <<q, RecordOf(m)>>[1] = q /\ <<q, RecordOf(m)>>[2].status = m.status
    BY <1>1 DEF Mixed, RecordOf
  <2>2. \A q \in Known' : OnRecord(q, memory[q])'
    BY <1>1, <1>5, <2>1 DEF IInv, RecordInv, OnRecord
  <2>3. \A q \in Proposals : file'[q] # Torn => OnRecord(q, file[q])'
    BY <1>1, <1>5, <2>1 DEF IInv, RecordInv, OnRecord
  <2>4. \A d \in Calls : call'[d].step = "writing" => <<call'[d].proposal, RecordOf(call'[d].next)>> \in recorded'
    BY <1>1, <1>3, <1>4 DEF IInv, RecordInv
  <2>. QED  BY <2>2, <2>3, <2>4 DEF RecordInv
<1>10. AloneInv'
  <2>1. p \notin contested' => Deciding(p) = {}
    BY <1>1
  <2>2. \A d \in Calls : call[d].step # "idle" /\ call[d].proposal = p => p \in contested'
    BY <2>1 DEF Deciding
  <2>3. \A q : q \notin contested' => q \notin contested
    BY <1>1
  <2>4. ASSUME NEW d \in Calls, call'[d].step # "idle"
        PROVE  /\ call'[d].proposal \in Known'
               /\ call'[d].proposal \notin contested' =>
                    /\ Undecided(memory'[call'[d].proposal])
                    /\ \A e \in Calls : call'[e].step # "idle" /\ call'[e].proposal = call'[d].proposal
                         => e = d
                    /\ ~ call'[d].raced
                    /\ call'[d].step = "writing" => file'[call'[d].proposal] = Torn
    <3>1. CASE d = c
      BY <1>1, <1>3, <1>4, <1>5, <2>2, <3>1
    <3>2. CASE d # c
      BY <1>1, <1>3, <1>4, <1>5, <2>2, <2>3, <2>4, <3>2 DEF IInv, AloneInv
    <3>. QED  BY <3>1, <3>2
  <2>. QED  BY <1>1, <1>5, <2>4 DEF IInv, AloneInv
<1>11. DiskAgrees' /\ PromotedInv' /\ BootInv'
  <2>1. \A q : Writers(q) \subseteq Writers(q)'
    BY <1>1, <1>3, <1>4 DEF Writers, Deciding
  <2>. QED  BY <1>1, <1>5, <2>1 DEF IInv, DiskAgrees, PromotedInv, BootInv
<1>. QED  BY <1>6, <1>7, <1>8, <1>9, <1>10, <1>11 DEF IInv

\* A decision that ends leaves every other decision as it was.
LEMMA CallEnds ==
  ASSUME TypeOK, NEW c \in Calls, call' = [call EXCEPT ![c] = Idle]
  PROVE  /\ call' \in [Calls -> {Idle} \union Decisions] /\ call'[c].step = "idle"
         /\ \A d \in Calls : d # c => call'[d] = call[d]
         /\ \A d \in Calls : call'[d].step # "idle" => d # c /\ call'[d] = call[d]
         /\ \A q : c \notin Writers(q) => Writers(q) \subseteq Writers(q)'
<1>1. Idle.step = "idle"
  BY DEF Idle
<1>2. call' \in [Calls -> {Idle} \union Decisions] /\ call'[c] = Idle
      /\ \A d \in Calls : d # c => call'[d] = call[d]
  BY DEF TypeOK
<1>3. \A q : c \notin Writers(q) => Writers(q) \subseteq Writers(q)'
  BY <1>2 DEF Writers, Deciding
<1>. QED  BY <1>1, <1>2, <1>3

\* The others still wait, each once, when the oldest leaves the queue.
LEMMA QueueShrinks ==
  ASSUME TypeOK, QueueInv, waiting # <<>>
  PROVE  /\ Head(waiting) \in Calls /\ call[Head(waiting)].step = "recording"
         /\ Tail(waiting) \in Seq(Calls)
         /\ \A i \in DOMAIN Tail(waiting) :
              /\ Tail(waiting)[i] \in Calls \ {Head(waiting)}
              /\ call[Tail(waiting)[i]].step = "recording"
         /\ \A i, j \in DOMAIN Tail(waiting) : Tail(waiting)[i] = Tail(waiting)[j] => i = j
<1>1. waiting \in Seq(Calls)
  BY DEF TypeOK
<1>2. 1 \in DOMAIN waiting /\ Head(waiting) = waiting[1]
  BY <1>1
<1>3. /\ Tail(waiting) \in Seq(Calls)
      /\ \A i \in DOMAIN Tail(waiting) : i + 1 \in DOMAIN waiting /\ i + 1 # 1
                                         /\ Tail(waiting)[i] = waiting[i + 1] /\ i \in Nat
  BY <1>1
<1>4. \A i \in DOMAIN waiting : waiting[i] \in Calls
  BY <1>1
<1>5. \A i, j \in DOMAIN Tail(waiting) : Tail(waiting)[i] = Tail(waiting)[j] => i + 1 = j + 1
  BY <1>3 DEF QueueInv
<1>. QED  BY <1>2, <1>3, <1>4, <1>5 DEF QueueInv

LEMMA RecordedKeeps ==
  ASSUME IInv, Recorded
  PROVE  IInv'
<1>. DEFINE c == Head(waiting)
            p == call[c].proposal
<1>1. /\ waiting' = Tail(waiting) /\ recorded' = recorded \union {<<p, RecordOf(call[c].next)>>}
      /\ waiting # <<>> /\ StartWrite(c)
      /\ UNCHANGED <<directory, memory, open, promotions, contested, cut, boots>>
  BY DEF Recorded
<1>2. TypeOK /\ QueueInv
  BY DEF IInv
<1>3. /\ c \in Calls /\ call[c].step = "recording" /\ waiting' \in Seq(Calls)
      /\ \A i \in DOMAIN waiting' : waiting'[i] \in Calls \ {c} /\ call[waiting'[i]].step = "recording"
      /\ \A i, j \in DOMAIN waiting' : waiting'[i] = waiting'[j] => i = j
  BY <1>1, <1>2, QueueShrinks
<1>. HIDE DEF c
<1>4. /\ call' \in [Calls -> {Idle} \union Decisions]
      /\ file' \in [Proposals -> Metadata \union {Torn}]
      /\ file'[p] = Torn /\ \A q \in Proposals : q # p => file'[q] = file[q]
      /\ call'[c].step = "writing" /\ call'[c].raced = (Writers(p) # {})
      /\ \A d \in Calls :
           /\ d # c => call'[d].step = call[d].step
           /\ d # c /\ d \notin Writers(p) => call'[d] = call[d]
           /\ call[d].step # "idle" =>
                call'[d].proposal = call[d].proposal /\ call'[d].next = call[d].next
      /\ \A q \in Proposals : Writers(q) \subseteq Writers(q)'
      /\ \A q \in Proposals : q = p => Writers(q)' # {}
  BY <1>1, <1>2, <1>3, StartWriteMoves
<1>5. p \in Proposals /\ RecordOf(call[c].next) \in Records
  <2>1. p \in Proposals /\ call[c].next \in Metadata
    BY <1>2, <1>3, DecisionShape
  <2>. QED  BY <2>1 DEF Metadata, RecordOf, Records
<1>6. Known' = Known
  BY <1>1 DEF Known
<1>7. \A q \in Proposals : file'[q] \in {Torn, file[q]}
  BY <1>4
<1>. HIDE DEF p
<1>8. TypeOK'
  <2>1. recorded' \subseteq Proposals \X Records
    BY <1>1, <1>2, <1>5 DEF TypeOK
  <2>. QED  BY <1>1, <1>2, <1>3, <1>4, <1>6, <2>1 DEF TypeOK
<1>9. QueueInv'
  BY <1>3, <1>4 DEF QueueInv
<1>10. \A d \in Calls : call'[d].step # "idle" =>
         /\ call[d].step # "idle" /\ call'[d].proposal = call[d].proposal
         /\ call'[d].next = call[d].next
  BY <1>3, <1>4
<1>11. CompleteInv'
  BY <1>1, <1>6, <1>7, <1>10 DEF IInv, CompleteInv, Sound, Mixed
<1>12. RecordInv'
  <2>1. /\ \A q \in Known' : OnRecord(q, memory[q])'
        /\ \A q \in Proposals : file'[q] # Torn => OnRecord(q, file[q])'
    BY <1>1, <1>6, <1>7 DEF IInv, RecordInv, OnRecord, Mixed
  <2>2. ASSUME NEW d \in Calls, call'[d].step = "writing"
        PROVE  <<call'[d].proposal, RecordOf(call'[d].next)>> \in recorded'
    <3>1. call'[d].proposal = call[d].proposal /\ call'[d].next = call[d].next
      BY <1>10, <2>2
    <3>2. CASE d = c
      BY <1>1, <3>1, <3>2 DEF p
    <3>3. CASE d # c
      BY <1>1, <1>4, <2>2, <3>1, <3>3 DEF IInv, RecordInv
    <3>. QED  BY <3>2, <3>3
  <2>. QED  BY <2>1, <2>2 DEF RecordInv
<1>13. AloneInv'
  <2>1. ASSUME NEW d \in Calls, call'[d].step # "idle", call[d].proposal \notin contested
        PROVE  /\ \A e \in Calls : call[e].step # "idle" /\ call[e].proposal = call[d].proposal => e = d
               /\ Undecided(memory[call[d].proposal])
               /\ ~ call'[d].raced
               /\ call'[d].step = "writing" => file'[call[d].proposal] = Torn
    <3>1. /\ call[d].step # "idle" /\ Undecided(memory[call[d].proposal]) /\ ~ call[d].raced
          /\ \A e \in Calls : call[e].step # "idle" /\ call[e].proposal = call[d].proposal => e = d
          /\ call[d].step = "writing" => file[call[d].proposal] = Torn
          /\ call[d].proposal \in Known
      BY <1>10, <2>1 DEF IInv, AloneInv
    <3>2. CASE d = c
      <4>1. Writers(p) = {}
        BY <1>3, <3>1, <3>2 DEF Writers, Deciding, p
      <4>. QED  BY <1>4, <3>1, <3>2, <4>1 DEF p
    <3>3. CASE d # c
      <4>1. call[d].proposal # p
        BY <1>3, <3>1, <3>3 DEF p
      <4>2. d \notin Writers(p)
        BY <4>1 DEF Writers, Deciding
      <4>3. call'[d] = call[d]
        BY <1>4, <3>3, <4>2
      <4>4. call[d].proposal \in Proposals
        BY <1>2, <3>1 DEF TypeOK
      <4>. QED  BY <1>4, <3>1, <4>1, <4>3, <4>4
    <3>. QED  BY <3>2, <3>3
  <2>2. \A q \in Known' : directory'[q] = "whole"
    BY <1>1, <1>6 DEF IInv, AloneInv
  <2>3. \A d \in Calls : call'[d].step # "idle" => call'[d].proposal \in Known'
    BY <1>6, <1>10 DEF IInv, AloneInv
  <2>. QED  BY <1>1, <1>10, <2>1, <2>2, <2>3 DEF AloneInv
<1>14. DiskAgrees' /\ PromotedInv' /\ BootInv'
  <2>1. Known \subseteq Proposals
    BY <1>2 DEF TypeOK
  <2>2. DiskAgrees'
    <3>1. p \notin contested => Undecided(memory[p])
      BY <1>3 DEF IInv, AloneInv, p
    <3>2. ASSUME NEW q \in Known, q \notin contested
          PROVE  \/ file'[q] = memory[q]
                 \/ /\ Undecided(memory[q]) /\ (Writers(q)' # {} \/ q \in cut)
                    /\ file'[q] = Torn \/ file'[q].status # "authored"
      <4>1. q \in Proposals
        BY <2>1
      <4>2. CASE q = p
        BY <1>4, <3>1, <3>2, <4>1, <4>2
      <4>3. CASE q # p
        <5>1. file'[q] = file[q] /\ Writers(q) \subseteq Writers(q)'
          BY <1>4, <4>1, <4>3
        <5>. QED  BY <3>2, <5>1 DEF IInv, DiskAgrees
      <4>. QED  BY <4>2, <4>3
    <3>. QED  BY <1>1, <1>6, <3>2 DEF DiskAgrees
  <2>. QED  BY <1>1, <1>6, <1>7, <2>2 DEF IInv, PromotedInv, BootInv
<1>. QED  BY <1>8, <1>9, <1>11, <1>12, <1>13, <1>14 DEF IInv

LEMMA RefusedKeeps ==
  ASSUME IInv, Refused
  PROVE  IInv'
<1>. DEFINE c == Head(waiting)
<1>1. /\ waiting' = Tail(waiting) /\ waiting # <<>> /\ call' = [call EXCEPT ![c] = Idle]
      /\ recorded' \in {recorded, recorded \union {<<call[c].proposal, RecordOf(call[c].next)>>}}
      /\ UNCHANGED <<directory, file, memory, open, promotions, contested, cut, boots>>
  BY DEF Refused
<1>2. TypeOK /\ QueueInv
  BY DEF IInv
<1>3. /\ c \in Calls /\ call[c].step = "recording" /\ waiting' \in Seq(Calls)
      /\ \A i \in DOMAIN waiting' : waiting'[i] \in Calls \ {c} /\ call[waiting'[i]].step = "recording"
      /\ \A i, j \in DOMAIN waiting' : waiting'[i] = waiting'[j] => i = j
  BY <1>1, <1>2, QueueShrinks
<1>. HIDE DEF c
<1>4. /\ call' \in [Calls -> {Idle} \union Decisions] /\ call'[c].step = "idle"
      /\ \A d \in Calls : d # c => call'[d] = call[d]
      /\ \A d \in Calls : call'[d].step # "idle" => d # c /\ call'[d] = call[d]
      /\ \A q : c \notin Writers(q) => Writers(q) \subseteq Writers(q)'
  BY <1>1, <1>2, <1>3, CallEnds
<1>5. recorded \subseteq recorded' /\ recorded' \subseteq Proposals \X Records
  <2>1. call[c].proposal \in Proposals /\ call[c].next \in Metadata
    BY <1>2, <1>3, DecisionShape
  <2>2. RecordOf(call[c].next) \in Records
    BY <2>1 DEF Metadata, RecordOf, Records
  <2>. QED  BY <1>1, <1>2, <2>1, <2>2 DEF TypeOK
<1>6. Known' = Known
  BY <1>1 DEF Known
<1>7. TypeOK'
  BY <1>1, <1>2, <1>3, <1>4, <1>5, <1>6 DEF TypeOK
<1>8. QueueInv'
  BY <1>3, <1>4 DEF QueueInv
<1>9. CompleteInv'
  BY <1>1, <1>4, <1>6 DEF IInv, CompleteInv, Sound, Mixed
<1>10. RecordInv'
  BY <1>1, <1>4, <1>5, <1>6 DEF IInv, RecordInv, OnRecord, Mixed
<1>11. AloneInv'
  BY <1>1, <1>4, <1>6 DEF IInv, AloneInv
<1>12. DiskAgrees' /\ PromotedInv' /\ BootInv'
  <2>1. \A q : Writers(q) \subseteq Writers(q)'
    BY <1>3, <1>4 DEF Writers
  <2>. QED  BY <1>1, <1>6, <2>1 DEF IInv, DiskAgrees, PromotedInv, BootInv
<1>. QED  BY <1>7, <1>8, <1>9, <1>10, <1>11, <1>12 DEF IInv

LEMMA EndWriteKeeps ==
  ASSUME IInv, NEW c \in Calls, EndWrite(c)
  PROVE  IInv'
<1>. DEFINE p == call[c].proposal
            next == call[c].next
<1>1. /\ call[c].step = "writing" /\ call' = [call EXCEPT ![c] = Idle]
      /\ memory' = Put(p, next)
      /\ \E text \in WrittenBy(c) : file' = [file EXCEPT ![p] = text]
      /\ UNCHANGED <<directory, open, waiting, recorded, promotions, contested, cut, boots>>
  BY DEF EndWrite
<1>2. TypeOK
  BY DEF IInv
<1>3. p \in Proposals /\ next \in Metadata /\ call[c].raced \in BOOLEAN
  BY <1>1, <1>2, DecisionShape
<1>4. /\ p \in Known /\ Sound(p, next) /\ <<p, RecordOf(next)>> \in recorded
      /\ p \notin contested =>
           /\ Undecided(memory[p]) /\ ~ call[c].raced
           /\ \A d \in Calls : call[d].step # "idle" /\ call[d].proposal = p => d = c
  BY <1>1 DEF IInv, AloneInv, CompleteInv, Sound, RecordInv
<1>5. /\ call' \in [Calls -> {Idle} \union Decisions] /\ call'[c].step = "idle"
      /\ \A d \in Calls : d # c => call'[d] = call[d]
      /\ \A d \in Calls : call'[d].step # "idle" => d # c /\ call'[d] = call[d]
      /\ \A q : c \notin Writers(q) => Writers(q) \subseteq Writers(q)'
  BY <1>1, <1>2, CallEnds
<1>6. /\ Known' = Known /\ Known \subseteq Proposals
      /\ memory'[p] = next /\ \A q \in Known : q # p => memory'[q] = memory[q]
  <2>1. Known' = DOMAIN Put(p, next)
    BY <1>1 DEF Known
  <2>2. /\ DOMAIN Put(p, next) = Known \union {p} /\ Put(p, next)[p] = next
        /\ \A q \in Known : q # p => Put(p, next)[q] = memory[q]
    BY DEF Put
  <2>3. Known \subseteq Proposals
    BY <1>2 DEF TypeOK
  <2>. QED  BY <1>1, <1>4, <2>1, <2>2, <2>3
<1>7. /\ file' \in [Proposals -> Metadata \union {Torn}]
      /\ file'[p] \in {next, file[p], Torn} /\ (~ call[c].raced => file'[p] = next)
      /\ \A q \in Proposals : q # p => file'[q] = file[q]
  <2>1. PICK text \in WrittenBy(c) : file' = [file EXCEPT ![p] = text]
    BY <1>1
  <2>2. text \in {next, file[p], Torn} /\ (~ call[c].raced => text = next)
    BY <2>1 DEF WrittenBy
  <2>3. text \in Metadata \union {Torn}
    BY <1>2, <1>3, <2>2 DEF TypeOK
  <2>. QED  BY <1>2, <1>3, <2>1, <2>2, <2>3 DEF TypeOK
<1>. HIDE DEF p, next
<1>8. TypeOK'
  BY <1>1, <1>2, <1>3, <1>5, <1>6, <1>7 DEF TypeOK
<1>9. QueueInv'
  <2>1. \A i \in DOMAIN waiting : waiting[i] \in Calls \ {c}
    BY <1>1, <1>2 DEF IInv, QueueInv, TypeOK
  <2>. QED  BY <1>1, <1>5, <2>1 DEF IInv, QueueInv
<1>10. CompleteInv'
  <2>2. \A q \in Known' : Sound(q, memory'[q])
    BY <1>4, <1>6 DEF IInv, CompleteInv
  <2>3. \A q \in Proposals : file'[q] # Torn => Sound(q, file'[q])
    BY <1>4, <1>7 DEF IInv, CompleteInv
  <2>. QED  BY <1>1, <1>5, <2>2, <2>3 DEF IInv, CompleteInv, Sound, Mixed
<1>11. RecordInv'
  <2>1. OnRecord(p, next)
    <3>1. <<p, RecordOf(next)>>[1] = p /\ <<p, RecordOf(next)>>[2].status = next.status
      BY DEF RecordOf
    <3>2. next.evolution # "none" \/ p \in cut
      BY <1>4 DEF Sound
    <3>. QED  BY <1>4, <3>1, <3>2 DEF OnRecord, Mixed
  <2>2. \A q \in Known' : OnRecord(q, memory'[q])
    BY <1>4, <1>6, <2>1 DEF IInv, RecordInv
  <2>3. \A q \in Proposals : file'[q] # Torn => OnRecord(q, file'[q])
    BY <1>4, <1>7, <2>1 DEF IInv, RecordInv
  <2>. QED  BY <1>1, <1>5, <2>2, <2>3 DEF IInv, RecordInv, OnRecord, Mixed
<1>12. AloneInv'
  <2>1. \A q \in Known' : directory'[q] = "whole"
    BY <1>1, <1>6 DEF IInv, AloneInv
  <2>2. ASSUME NEW d \in Calls, call'[d].step # "idle"
        PROVE  /\ call'[d] = call[d] /\ call[d].proposal \in Known'
               /\ call[d].proposal \notin contested =>
                    /\ memory'[call[d].proposal] = memory[call[d].proposal]
                    /\ file'[call[d].proposal] = file[call[d].proposal]
    <3>1. d # c /\ call'[d] = call[d] /\ call[d].proposal \in Known
      BY <1>5, <2>2 DEF IInv, AloneInv
    <3>2. call[d].proposal \notin contested => call[d].proposal # p
      BY <1>4, <2>2, <3>1
    <3>. QED  BY <1>6, <1>7, <3>1, <3>2
  <2>3. \A d, e \in Calls : call'[e].step # "idle" => call'[e] = call[e]
    BY <2>2
  <2>. QED  BY <1>1, <2>1, <2>2, <2>3 DEF IInv, AloneInv
<1>13. DiskAgrees'
  <2>1. ASSUME NEW q \in Known, q # p
        PROVE  file'[q] = file[q] /\ memory'[q] = memory[q] /\ Writers(q) \subseteq Writers(q)'
    <3>1. c \notin Writers(q)
      BY <2>1 DEF Writers, Deciding, p
    <3>. QED  BY <1>5, <1>6, <1>7, <2>1, <3>1
  <2>. QED  BY <1>1, <1>4, <1>6, <1>7, <2>1 DEF IInv, DiskAgrees
<1>14. PromotedInv'
  <2>1. \A promoter \in Promoters : <<p, promoter>> \in promotions => p \in contested
    <3>1. SUFFICES ASSUME NEW promoter \in Promoters, <<p, promoter>> \in promotions, p \notin contested
                   PROVE  FALSE
      OBVIOUS
    <3>2. Stands(p, memory[p], promoter)
      BY <1>3, <1>4, <3>1 DEF IInv, PromotedInv
    <3>. QED  BY <1>4, <3>1, <3>2 DEF Stands, Undecided
  <2>. QED  BY <1>1, <1>6, <1>7, <2>1 DEF IInv, PromotedInv
<1>15. BootInv'
  <2>1. open
    BY <1>4 DEF IInv, BootInv, Known
  <2>. QED  BY <1>1, <2>1 DEF BootInv
<1>. QED  BY <1>8, <1>9, <1>10, <1>11, <1>12, <1>13, <1>14, <1>15 DEF IInv

\* No decision is under way about an undisputed proposal that was promoted.
LEMMA PromotedIsLeftAlone ==
  ASSUME TypeOK, AloneInv, PromotedInv, NEW c \in Calls, call[c].step # "idle",
         NEW promoter \in Promoters, <<call[c].proposal, promoter>> \in promotions
  PROVE  call[c].proposal \in contested
<1>. DEFINE p == call[c].proposal
<1>. SUFFICES ASSUME p \notin contested PROVE FALSE
  OBVIOUS
<1>1. p \in Proposals /\ p \in Known /\ Undecided(memory[p])
  BY DecisionShape DEF AloneInv
<1>2. Stands(p, memory[p], promoter)
  BY <1>1 DEF PromotedInv
<1>. QED  BY <1>1, <1>2 DEF Stands, Undecided

LEMMA FailWriteKeeps ==
  ASSUME IInv, NEW c \in Calls, FailWrite(c)
  PROVE  IInv'
<1>1. PICK p : p = call[c].proposal
  OBVIOUS
<1>2. /\ call[c].step = "writing" /\ call' = [call EXCEPT ![c] = Idle]
      /\ cut' = cut \union {p}
      /\ UNCHANGED <<directory, recorded, memory, open, waiting, promotions, contested, boots>>
  BY <1>1 DEF FailWrite
<1>3. TypeOK
  BY DEF IInv
<1>4. p \in Proposals
  BY <1>1, <1>2, <1>3, DecisionShape
<1>5. PICK text \in LeftBy(c) : file' = [file EXCEPT ![p] = text]
  BY <1>1 DEF FailWrite
<1>6. /\ text \in Metadata \union {Torn}
      /\ file' \in [Proposals -> Metadata \union {Torn}] /\ file'[p] = text
      /\ \A q \in Proposals : q # p => file'[q] = file[q]
  BY <1>2, <1>3, <1>4, <1>5, LeftTyped DEF TypeOK
<1>7. text # Torn =>
        /\ Sound(p, text)' /\ OnRecord(p, text)' /\ (p \notin contested => text.status # "authored")
  BY <1>1, <1>2, LeftIsSound DEF IInv
<1>8. /\ call' \in [Calls -> {Idle} \union Decisions] /\ call'[c].step = "idle"
      /\ \A d \in Calls : d # c => call'[d] = call[d]
      /\ \A d \in Calls : call'[d].step # "idle" => d # c /\ call'[d] = call[d]
      /\ \A q : c \notin Writers(q) => Writers(q) \subseteq Writers(q)'
  BY <1>2, <1>3, CallEnds
<1>9. /\ p \in Known
      /\ p \notin contested =>
           /\ Undecided(memory[p])
           /\ \A d \in Calls : call[d].step # "idle" /\ call[d].proposal = p => d = c
      /\ \A promoter \in Promoters : <<p, promoter>> \in promotions => p \in contested
  BY <1>1, <1>2, PromotedIsLeftAlone DEF IInv, AloneInv
<1>10. \A q : q # p => c \notin Writers(q)
  BY <1>1 DEF Writers, Deciding
<1>11. Known' = Known /\ Known \subseteq Proposals /\ Mixed \subseteq Mixed'
       /\ \A q : q # p => (q \in Mixed' <=> q \in Mixed) /\ (q \in cut' <=> q \in cut)
  BY <1>2, <1>3 DEF Known, Mixed, TypeOK
<1>12. TypeOK'
  BY <1>2, <1>3, <1>4, <1>6, <1>8, <1>11 DEF TypeOK
<1>13. QueueInv'
  <2>1. \A i \in DOMAIN waiting : waiting[i] \in Calls \ {c}
    BY <1>2, <1>3 DEF IInv, QueueInv, TypeOK
  <2>. QED  BY <1>2, <1>8, <2>1 DEF IInv, QueueInv
<1>14. CompleteInv'
  <2>1. \A q \in Known' : Sound(q, memory[q])'
    BY <1>2, <1>11 DEF IInv, CompleteInv, Sound
  <2>2. \A q \in Proposals : file'[q] # Torn => Sound(q, file[q])'
    BY <1>2, <1>6, <1>7, <1>11 DEF IInv, CompleteInv, Sound
  <2>. QED  BY <1>2, <1>8, <2>1, <2>2 DEF IInv, CompleteInv
<1>15. RecordInv'
  <2>1. \A q \in Known' : OnRecord(q, memory[q])'
    <3>1. \A q, m : <<q, RecordOf(m)>>[1] = q /\ <<q, RecordOf(m)>>[2].status = m.status
      BY DEF RecordOf
    <3>2. \A q : q \in Mixed' => q \in cut'
      BY DEF Mixed
    <3>. QED  BY <1>2, <1>11, <3>1, <3>2 DEF IInv, RecordInv, OnRecord
  <2>2. \A q \in Proposals : file'[q] # Torn => OnRecord(q, file[q])'
    BY <1>2, <1>6, <1>7, <1>11 DEF IInv, RecordInv, OnRecord
  <2>. QED  BY <1>2, <1>8, <2>1, <2>2 DEF IInv, RecordInv
<1>16. AloneInv'
  <2>1. \A q \in Known' : directory'[q] = "whole"
    BY <1>2, <1>11 DEF IInv, AloneInv
  <2>2. ASSUME NEW d \in Calls, call'[d].step # "idle"
        PROVE  /\ call'[d] = call[d] /\ call[d].proposal \in Known'
               /\ call[d].proposal \notin contested =>
                    file'[call[d].proposal] = file[call[d].proposal]
    <3>1. d # c /\ call'[d] = call[d] /\ call[d].proposal \in Known
      BY <1>8, <2>2 DEF IInv, AloneInv
    <3>2. call[d].proposal \notin contested => call[d].proposal # p
      BY <1>9, <2>2, <3>1
    <3>. QED  BY <1>6, <1>11, <3>1, <3>2
  <2>3. \A d, e \in Calls : call'[e].step # "idle" => call'[e] = call[e]
    BY <2>2
  <2>. QED  BY <1>2, <2>1, <2>2, <2>3 DEF IInv, AloneInv
<1>17. DiskAgrees'
  <2>1. p \notin contested => Undecided(memory[p]) /\ p \in cut'
                              /\ (file'[p] = Torn \/ file'[p].status # "authored")
    BY <1>2, <1>6, <1>7, <1>9
  <2>2. ASSUME NEW q \in Known, q # p
        PROVE  file'[q] = file[q] /\ Writers(q) \subseteq Writers(q)'
    BY <1>6, <1>8, <1>10, <1>11, <2>2
  <2>. QED  BY <1>2, <1>11, <2>1, <2>2 DEF IInv, DiskAgrees
<1>18. PromotedInv' /\ BootInv'
  BY <1>2, <1>6, <1>9, <1>11 DEF IInv, PromotedInv, BootInv
<1>. QED  BY <1>12, <1>13, <1>14, <1>15, <1>16, <1>17, <1>18 DEF IInv

LEMMA PromoteKeeps ==
  ASSUME IInv, NEW p \in Proposals, NEW r \in Principals, Promote(p, r)
  PROVE  IInv'
<1>1. /\ open /\ p \in Known /\ r \in Promoters /\ Stands(p, memory[p], r)
      /\ promotions' = promotions \union {<<p, r>>}
      /\ UNCHANGED <<directory, file, recorded, memory, open, call, waiting, contested, cut, boots>>
  BY DEF Promote, ApprovalStands, Promotable, Separated, Stands, disk
<1>2. Known' = Known
  BY <1>1 DEF Known
<1>3. TypeOK'
  BY <1>1, <1>2 DEF IInv, TypeOK
<1>4. QueueInv' /\ AloneInv' /\ DiskAgrees' /\ BootInv'
  BY <1>1, <1>2 DEF IInv, QueueInv, AloneInv, DiskAgrees, Writers, Deciding, BootInv
<1>5. CompleteInv' /\ RecordInv'
  BY <1>1, <1>2 DEF IInv, CompleteInv, Sound, Mixed, RecordInv, OnRecord
<1>6. PromotedInv'
  <2>1. ~ Undecided(memory[p])
    BY <1>1 DEF Stands, Undecided
  <2>2. directory[p] = "whole" /\ (p \notin contested => file[p] = memory[p])
    BY <1>1, <2>1 DEF IInv, AloneInv, DiskAgrees
  <2>. QED  BY <1>1, <1>2, <2>2 DEF IInv, PromotedInv
<1>. QED  BY <1>3, <1>4, <1>5, <1>6 DEF IInv

LEMMA CrashKeeps ==
  ASSUME IInv, Crash
  PROVE  IInv'
<1>1. /\ open /\ boots < MaxBoots /\ open' = FALSE /\ memory' = <<>> /\ waiting' = <<>>
      /\ call' = [c \in Calls |-> Idle]
      /\ file' \in [Proposals -> UNION {Left(p) : p \in Proposals}]
      /\ \A p \in Proposals : file'[p] \in Left(p)
      /\ cut' = cut \union {p \in Proposals : Writers(p) # {}}
      /\ UNCHANGED <<directory, recorded, promotions, contested, boots>>
  BY DEF Crash
<1>2. Known' = {} /\ DOMAIN waiting' = {}
  BY <1>1 DEF Known
<1>3. \A c \in Calls : call'[c].step = "idle"
  BY <1>1 DEF Idle
<1>4. ASSUME NEW p \in Proposals
      PROVE  \/ file'[p] = file[p]
             \/ /\ p \in cut' /\ \A promoter \in Promoters : <<p, promoter>> \in promotions => p \in contested
                /\ file'[p] \in Metadata \union {Torn}
                /\ file'[p] # Torn => Sound(p, file[p])' /\ OnRecord(p, file[p])'
  <2>1. CASE Writers(p) = {}
    BY <1>1, <2>1 DEF Left
  <2>2. CASE Writers(p) # {}
    <3>1. PICK c \in Writers(p) : file'[p] \in LeftBy(c)
      BY <1>1, <2>2 DEF Left
    <3>2. c \in Calls /\ call[c].step = "writing" /\ call[c].proposal = p
      BY <3>1 DEF Writers, Deciding
    <3>3. p \in cut' /\ cut \subseteq cut'
      BY <1>1, <2>2
    <3>4. file'[p] \in Metadata \union {Torn}
      BY <3>1, <3>2, LeftTyped DEF IInv
    <3>5. PICK text \in LeftBy(c) : text = file'[p]
      BY <3>1
    <3>6. text # Torn => Sound(p, text)' /\ OnRecord(p, text)'
      BY <1>1, <3>2, <3>3, LeftIsSound DEF IInv
    <3>7. file'[p] # Torn => Sound(p, file[p])' /\ OnRecord(p, file[p])'
      BY <3>5, <3>6 DEF Sound, OnRecord
    <3>8. \A promoter \in Promoters : <<p, promoter>> \in promotions => p \in contested
      BY <3>2, PromotedIsLeftAlone DEF IInv
    <3>. QED  BY <3>3, <3>4, <3>7, <3>8
  <2>. QED  BY <2>1, <2>2
<1>5. TypeOK'
  <2>1. file' \in [Proposals -> Metadata \union {Torn}]
    BY <1>1, <1>4 DEF IInv, TypeOK
  <2>2. waiting' \in Seq(Calls) /\ call' \in [Calls -> {Idle} \union Decisions]
    BY <1>1
  <2>. QED  BY <1>1, <1>2, <2>1, <2>2 DEF IInv, TypeOK
<1>6. QueueInv' /\ AloneInv' /\ DiskAgrees' /\ BootInv'
  BY <1>1, <1>2, <1>3 DEF QueueInv, AloneInv, DiskAgrees, BootInv
<1>7. Mixed \subseteq Mixed' /\ cut \subseteq cut' /\ \A q : q \in Mixed' => q \in cut'
  BY <1>1 DEF Mixed
<1>8. CompleteInv'
  BY <1>1, <1>2, <1>3, <1>4, <1>7 DEF IInv, CompleteInv, Sound
<1>9. RecordInv'
  <2>1. \A q, m : <<q, RecordOf(m)>>[1] = q /\ <<q, RecordOf(m)>>[2].status = m.status
    BY DEF RecordOf
  <2>. QED  BY <1>1, <1>2, <1>3, <1>4, <1>7, <2>1 DEF IInv, RecordInv, OnRecord
<1>10. PromotedInv'
  BY <1>1, <1>2, <1>4 DEF IInv, PromotedInv
<1>. QED  BY <1>5, <1>6, <1>8, <1>9, <1>10 DEF IInv

LEMMA ReloadKeeps ==
  ASSUME IInv, Reload
  PROVE  IInv'
<1>1. /\ ~ open /\ open' = TRUE /\ boots' = boots + 1 /\ memory' = [p \in Stored |-> file[p]]
      /\ \A p \in Stored : directory[p] = "whole" /\ file[p] # Torn
      /\ UNCHANGED <<directory, file, recorded, call, waiting, promotions, contested, cut>>
  BY DEF Reload, Readable, disk
<1>2. Known' = Stored /\ Stored \subseteq Proposals /\ \A p \in Stored : memory'[p] = file[p]
  BY <1>1 DEF Known, Stored
<1>3. Known = {} /\ boots < MaxBoots
  BY <1>1 DEF IInv, BootInv, Known
<1>4. \A c \in Calls : call[c].step = "idle"
  BY <1>3 DEF IInv, AloneInv
<1>5. TypeOK'
  <2>1. \A p \in Stored : file[p] \in Metadata
    BY <1>1, <1>2 DEF IInv, TypeOK
  <2>2. boots' \in 1..MaxBoots
    BY <1>1, <1>3, ShapeAssumption DEF IInv, TypeOK
  <2>. QED  BY <1>1, <1>2, <2>1, <2>2 DEF IInv, TypeOK
<1>6. QueueInv'
  BY <1>1 DEF IInv, QueueInv
<1>7. CompleteInv'
  BY <1>1, <1>2, <1>4 DEF IInv, CompleteInv, Sound, Mixed
<1>8. RecordInv'
  BY <1>1, <1>2, <1>4 DEF IInv, RecordInv, OnRecord, Mixed
<1>9. AloneInv'
  BY <1>1, <1>2, <1>4 DEF IInv, AloneInv
<1>10. DiskAgrees' /\ BootInv'
  BY <1>1, <1>2 DEF DiskAgrees, BootInv
<1>11. PromotedInv'
  <2>1. \A p \in Proposals : directory[p] = "whole" => p \in Stored
    BY DEF Stored
  <2>. QED  BY <1>1, <1>2, <2>1 DEF IInv, PromotedInv
<1>. QED  BY <1>5, <1>6, <1>7, <1>8, <1>9, <1>10, <1>11 DEF IInv

LEMMA StutterKeeps == IInv /\ UNCHANGED vars => IInv'
BY DEF vars, IInv, TypeOK, QueueInv, CompleteInv, Sound, Mixed, RecordInv, OnRecord, AloneInv,
       DiskAgrees, Writers, Deciding, PromotedInv, BootInv, Known

LEMMA NextIInv == IInv /\ [Next]_vars => IInv'
<1>. SUFFICES ASSUME IInv, [Next]_vars PROVE IInv'
  OBVIOUS
<1>1. CASE \E p \in Proposals : StartAuthor(p) \/ EndAuthor(p) \/ FailAuthor(p)
  BY <1>1, StartAuthorKeeps, EndAuthorKeeps, FailAuthorKeeps
<1>2. CASE \E c \in Calls, p \in Proposals, r \in Principals, v \in Verdicts : Decide(c, p, r, v)
  BY <1>2, DecideKeeps
<1>3. CASE \E c \in Calls : EndWrite(c) \/ FailWrite(c)
  BY <1>3, EndWriteKeeps, FailWriteKeeps
<1>4. CASE Recorded
  BY <1>4, RecordedKeeps
<1>5. CASE Refused
  BY <1>5, RefusedKeeps
<1>6. CASE \E p \in Proposals, r \in Principals : Promote(p, r)
  BY <1>6, PromoteKeeps
<1>7. CASE Crash
  BY <1>7, CrashKeeps
<1>8. CASE Reload
  BY <1>8, ReloadKeeps
<1>9. CASE UNCHANGED vars
  BY <1>9, StutterKeeps
<1>. QED  BY <1>1, <1>2, <1>3, <1>4, <1>5, <1>6, <1>7, <1>8, <1>9 DEF Next

---------------------------------------------------------------------------
(* The theorems                                                            *)

\* The inductive invariant holds in every state: it relates the versions of a
\* proposal in the store, on disk and in the decisions under way.
THEOREM InvariantHolds == Spec => []IInv
BY InitIInv, NextIInv, PTL DEF Spec

\* No approval stands on fewer reviews than its risk class takes, in the store
\* or on disk, whatever decisions overlap, fail and are read back: none that a
\* promotion accepts, and none at all but what is left of a text that was cut.
THEOREM ApprovalsHaveTheirQuorum == Spec => []ApprovedHasQuorum
<1>1. IInv => ApprovedHasQuorum
  <2>. SUFFICES ASSUME IInv, NEW p \in Proposals, NEW m \in Versions(p),
                       Promotable(p, m) \/ (m.evolution # "none" /\ p \notin Mixed)
                PROVE  Backed(p, m)
    <3>. HIDE DEF Versions
    <3>. QED  BY DEF ApprovedHasQuorum, IInv
  <2>1. m \in Metadata /\ Sound(p, m)
    BY DEF Versions, IInv, TypeOK, CompleteInv
  <2>2. m.evolution # "none"
    BY DEF Promotable
  <2>3. m.status = "approved" => Len(m.approvers) >= RequiredReviews(p, m)
    BY <2>1, <2>2 DEF Sound, ReviewsComplete, Promotable
  <2>. QED  BY <2>1, <2>2, <2>3, EnoughIsBacked DEF Sound
<1>. QED  BY <1>1, InvariantHolds, PTL

\* Whatever decision the store or the disk shows has its durable record.
THEOREM DecisionsAreRecorded == Spec => []DecisionsRecorded
<1>1. IInv => DecisionsRecorded
  <2>. SUFFICES ASSUME IInv, NEW p \in Proposals, NEW m \in Versions(p)
                PROVE  OnRecord(p, m)
    BY DEF DecisionsRecorded
  <2>. QED  BY DEF Versions, IInv, RecordInv
<1>. QED  BY <1>1, InvariantHolds, PTL

\* The store and the files of undisputed proposals agree, or a write of the file
\* is under way or has failed and it is ahead of an undecided proposal.
THEOREM DiskFollowsTheStore == Spec => []DiskAgrees
<1>1. IInv => DiskAgrees
  BY DEF IInv
<1>. QED  BY <1>1, InvariantHolds, PTL

\* An undisputed proposal that was promoted stays approved, and its promoter
\* none of its reviewers.
THEOREM PromotionsStandOnTheirApproval == Spec => []PromotionsStand
<1>1. IInv => PromotionsStand
  <2>1. IInv => Known \subseteq Proposals
    BY DEF IInv, TypeOK
  <2>. QED  BY <2>1 DEF IInv, PromotedInv, PromotionsStand, Stands
<1>. QED  BY <1>1, InvariantHolds, PTL

---------------------------------------------------------------------------
(* Evidence: the inductive invariant                                       *)

\* The states before the engine answered, and the shapes of a run and of a
\* compare command.
Early == {None, "dataset-ready", "measured"}

RunShape(o) ==
  \/ o = NotStarted
  \/ /\ o.state \in {"dataset-ready", "measured"}
     /\ o = [state |-> o.state, base |-> o.base, data |-> o.data]
  \/ /\ o.state \in {"rejected", "shortlisted"}
     /\ o = [state |-> o.state, base |-> o.base, data |-> o.data, list |-> o.list]
  \/ /\ o.state = "evaluated"
     /\ o = [state |-> o.state, base |-> o.base, data |-> o.data, list |-> o.list,
             report |-> o.report, passed |-> o.passed]
  \/ /\ o.state \in {"awaiting-review", "promoted", "rolled-back"}
     /\ o = [state |-> o.state, base |-> o.base, data |-> o.data, name |-> o.name,
             report |-> o.report, from |-> o.from]

CompareShape(o) ==
  \/ o = NotComparing
  \/ o.step = "asked" /\ o = [step |-> o.step, plan |-> o.plan]
  \/ /\ o.step \in {"answered", "saving"}
     /\ o = [step |-> o.step, plan |-> o.plan, report |-> o.report]

ShapeInv ==
  /\ checker \in BOOLEAN
  /\ DOMAIN run = Runs /\ DOMAIN compare = Compares /\ DOMAIN seen = Runs
  /\ \A r \in Runs : RunShape(run[r])
  /\ \A k \in Compares : CompareShape(compare[k])

\* The checks a candidate on file was found not to fail, it does not fail.
Clean(b) ==
  Rendered(class, flaw[b]) \intersect
    (IF checker THEN Checks(class) ELSE Checks(class) \ ExecutedChecks) = {}
StoredInv == \A c \in stored : c.failed = {} => Clean(c.name)

\* Every report comes from the evaluator, answers the request it is kept for,
\* and is about a candidate its run had sealed.
Sealed(plan) == plan.run \in Runs /\ plan.name \in plan.list
ReportInv ==
  /\ reports \subseteq made
  /\ \A p \in made : Sealed(p.plan)
  /\ \A k \in Compares :
       /\ compare[k].step = "asked" => Sealed(compare[k].plan)
       /\ compare[k].step \in {"answered", "saving"} =>
            compare[k].report \in made /\ compare[k].report.plan = compare[k].plan
  /\ \A e \in cache : e.report \in made /\ e.report.plan = e.key

\* A run keeps the dataset it sealed, which leaks nothing, through a command
\* that carries it over an await; its engine saw the open splits of that one.
DataInv ==
  /\ \A r \in Runs : run[r].state # None => run[r].data \in BuildDataset
  /\ \A r \in Runs : run[r].state \notin Early => seen[r] = OptimizerView(run[r].data)
  /\ \A k \in Compares : compare[k].step = "saving" =>
       LET plan == compare[k].report.plan IN
       /\ plan.run \in Runs
       /\ run[plan.run].state \notin Early
       /\ plan.data = run[plan.run].data

HoldoutKept ==
  \A r \in Runs : run[r].state = "promoted" => Prints(run[r].data, "holdout") # {}

EvidenceInv ==
  /\ ShapeInv /\ StoredInv /\ ReportInv /\ DataInv
  /\ PromotedIsProven /\ HoldoutKept

---------------------------------------------------------------------------
LEMMA NoFailureIsClean ==
  ASSUME NEW b, NEW claims, checker \in BOOLEAN,
         checker => claims = {},
         Failed(class, flaw[b], checker, claims) = {}
  PROVE  Clean(b)
<1>. DEFINE left == Rendered(class, flaw[b])
<1>1. CASE class = "code"
  <2>1. left \intersect (Checks(class) \ ExecutedChecks) = {}
    BY <1>1 DEF Failed
  <2>2. checker => left \intersect ExecutedChecks = {}
    BY <1>1 DEF Failed, Executed
  <2>. QED  BY <2>1, <2>2 DEF Clean
<1>2. CASE class # "code"
  <2>1. left \intersect Checks(class) = {}
    BY <1>2 DEF Failed
  <2>. QED  BY <2>1 DEF Clean
<1>. QED  BY <1>1, <1>2

\* What no engine received of a leak-free dataset.
LEMMA HoldoutApart ==
  ASSUME NEW d \in BuildDataset
  PROVE  OptimizerView(d) \intersect Prints(d, "holdout") = {}
<1>1. LeakFree(d)
  BY DEF BuildDataset
<1>. SUFFICES ASSUME NEW x \in OptimizerView(d), x \in Prints(d, "holdout") PROVE FALSE
  OBVIOUS
<1>2. PICK g \in Groups(d) : x = d.print[g] /\ d.split[g] \in {"train", "validation"}
  BY DEF OptimizerView, Prints
<1>3. PICK h \in Groups(d) : x = d.print[h] /\ d.split[h] = "holdout"
  BY DEF Prints
<1>. QED  BY <1>1, <1>2, <1>3 DEF LeakFree

LEMMA InitInv == EvidenceInit => EvidenceInv
<1>. SUFFICES ASSUME EvidenceInit PROVE EvidenceInv
  OBVIOUS
<1>1. ShapeInv
  BY DEF EvidenceInit, ShapeInv, RunShape, CompareShape
<1>2. \A r \in Runs : run[r].state = None
  BY DEF EvidenceInit, NotStarted
<1>3. \A k \in Compares : compare[k].step = None
  BY DEF EvidenceInit, NotComparing
<1>4. StoredInv /\ ReportInv
  BY <1>3 DEF EvidenceInit, StoredInv, ReportInv, None
<1>5. DataInv /\ PromotedIsProven /\ HoldoutKept
  BY <1>2, <1>3 DEF DataInv, PromotedIsProven, HoldoutKept, Early, None
<1>. QED  BY <1>1, <1>4, <1>5 DEF EvidenceInv

---------------------------------------------------------------------------
\* A step that changes neither what is on file about runs nor the history.
LEMMA RunsUntouched ==
  ASSUME EvidenceInv, UNCHANGED <<class, checker, flaw, run, seen>>, made \subseteq made'
  PROVE  PromotedIsProven' /\ HoldoutKept'
<1>1. PromotedIsProven'
  BY DEF EvidenceInv, PromotedIsProven, Rendered, Checks
<1>2. HoldoutKept'
  BY DEF EvidenceInv, HoldoutKept
<1>. QED  BY <1>1, <1>2

\* One run changes, and not into a promoted one.
LEMMA RunNotPromoted ==
  ASSUME EvidenceInv, UNCHANGED <<class, checker, flaw>>, made \subseteq made',
         NEW r, NEW o, run' = [run EXCEPT ![r] = o], o.state # "promoted"
  PROVE  PromotedIsProven' /\ HoldoutKept'
<1>1. \A q \in Runs : run'[q].state = "promoted" => run'[q] = run[q]
  BY DEF EvidenceInv, ShapeInv
<1>2. PromotedIsProven'
  BY <1>1 DEF EvidenceInv, PromotedIsProven
<1>3. HoldoutKept'
  BY <1>1 DEF EvidenceInv, HoldoutKept
<1>. QED  BY <1>2, <1>3

LEMMA StoredUntouched ==
  ASSUME EvidenceInv, UNCHANGED <<class, checker, flaw>>, stored' = stored
  PROVE  StoredInv'
BY DEF EvidenceInv, StoredInv, Clean

LEMMA StartKeepsInv ==
  ASSUME EvidenceInv, NEW r \in Runs, Start(r)
  PROVE  EvidenceInv'
<1>1. PICK d \in BuildDataset :
        run' = [run EXCEPT ![r] = [state |-> "dataset-ready", base |-> active, data |-> d]]
  BY DEF Start
<1>2. ShapeInv'
  BY <1>1 DEF Start, fixed, EvidenceInv, ShapeInv, RunShape
<1>3. StoredInv'
  BY StoredUntouched DEF Start, fixed
<1>4. ReportInv'
  BY DEF Start, EvidenceInv, ReportInv
<1>5. run[r].state = None
  BY DEF Start
<1>6. DataInv'
  <2>1. \A q \in Runs : run'[q].state # None => run'[q].data \in BuildDataset
    BY <1>1 DEF EvidenceInv, DataInv, ShapeInv
  <2>2. \A q \in Runs : run'[q].state \notin Early => q # r /\ run'[q] = run[q]
    BY <1>1 DEF EvidenceInv, ShapeInv, Early
  <2>3. \A q \in Runs : run'[q].state \notin Early => seen'[q] = OptimizerView(run'[q].data)
    BY <2>2 DEF EvidenceInv, DataInv, Start
  <2>4. \A q \in Runs : run[q].state \notin Early => run'[q] = run[q]
    BY <1>1, <1>5 DEF EvidenceInv, ShapeInv, Early
  <2>5. compare' = compare
    BY DEF Start
  <2>. QED  BY <2>1, <2>3, <2>4, <2>5 DEF EvidenceInv, DataInv
<1>7. PromotedIsProven' /\ HoldoutKept'
  <2>. DEFINE o == [state |-> "dataset-ready", base |-> active, data |-> d]
  <2>1. run' = [run EXCEPT ![r] = o] /\ o.state # "promoted"
    BY <1>1
  <2>2. UNCHANGED <<class, checker, flaw, made>>
    BY DEF Start, fixed
  <2>. HIDE DEF o
  <2>. QED  BY <2>1, <2>2, RunNotPromoted
<1>. QED  BY <1>2, <1>3, <1>4, <1>6, <1>7 DEF EvidenceInv

LEMMA MeasureKeepsInv ==
  ASSUME EvidenceInv, NEW r \in Runs, Measure(r)
  PROVE  EvidenceInv'
<1>. DEFINE o == [run[r] EXCEPT !.state = "measured"]
<1>1. run' = [run EXCEPT ![r] = o] /\ run[r].state = "dataset-ready"
  BY DEF Measure
<1>2. o = [state |-> "measured", base |-> run[r].base, data |-> run[r].data]
  <2>1. run[r] = [state |-> run[r].state, base |-> run[r].base, data |-> run[r].data]
    BY <1>1 DEF EvidenceInv, ShapeInv, RunShape, NotStarted, None
  <2>. QED  BY <2>1
<1>3. ShapeInv'
  BY <1>1, <1>2 DEF Measure, fixed, EvidenceInv, ShapeInv, RunShape
<1>4. StoredInv'
  BY StoredUntouched DEF Measure, fixed
<1>5. ReportInv'
  BY DEF Measure, EvidenceInv, ReportInv
<1>6. DataInv'
  <2>1. \A q \in Runs : run'[q].state # None => run'[q].data \in BuildDataset
    BY <1>1, <1>2 DEF EvidenceInv, DataInv, ShapeInv, None
  <2>2. \A q \in Runs : run'[q].state \notin Early => q # r /\ run'[q] = run[q]
    BY <1>1, <1>2 DEF EvidenceInv, ShapeInv, Early
  <2>3. \A q \in Runs : run'[q].state \notin Early => seen'[q] = OptimizerView(run'[q].data)
    BY <2>2 DEF EvidenceInv, DataInv, Measure
  <2>4. \A q \in Runs : run[q].state \notin Early => run'[q] = run[q]
    BY <1>1 DEF EvidenceInv, ShapeInv, Early
  <2>5. compare' = compare
    BY DEF Measure
  <2>. QED  BY <2>1, <2>3, <2>4, <2>5 DEF EvidenceInv, DataInv
<1>7. PromotedIsProven' /\ HoldoutKept'
  <2>1. o.state # "promoted"
    BY <1>2
  <2>. QED  BY <1>1, <2>1, RunNotPromoted DEF Measure, fixed
<1>. QED  BY <1>3, <1>4, <1>5, <1>6, <1>7 DEF EvidenceInv

LEMMA OptimizeKeepsInv ==
  ASSUME EvidenceInv, NEW r \in Runs, Optimize(r)
  PROVE  EvidenceInv'
<1>0. run[r].state = "measured"
  BY DEF Optimize
<1>1. PICK sent \in SUBSET Bytes, claims \in (IF checker THEN {{}} ELSE {{}, ExecutedChecks}) :
        LET new == {[run |-> r, name |-> b, base |-> run[r].base,
                     failed |-> Failed(class, flaw[b], checker, claims)] : b \in sent}
            good == {c \in new : c.failed = {}}
            list == {c.name : c \in good}
        IN /\ stored' = stored \union new
           /\ run' = [run EXCEPT ![r] =
                [state |-> IF list = {} THEN "rejected" ELSE "shortlisted",
                 base |-> run[r].base, data |-> run[r].data, list |-> list]]
  BY DEF Optimize
<1>. DEFINE new == {[run |-> r, name |-> b, base |-> run[r].base,
                     failed |-> Failed(class, flaw[b], checker, claims)] : b \in sent}
            list == {c.name : c \in {c \in new : c.failed = {}}}
            o == [state |-> IF list = {} THEN "rejected" ELSE "shortlisted",
                  base |-> run[r].base, data |-> run[r].data, list |-> list]
<1>2. stored' = stored \union new /\ run' = [run EXCEPT ![r] = o]
  BY <1>1
<1>3. seen' = [seen EXCEPT ![r] = OptimizerView(run[r].data)]
  BY DEF Optimize
<1>4. UNCHANGED <<class, checker, flaw, compare, cache, reports, made>>
  BY DEF Optimize, fixed
<1>5. StoredInv'
  <2>. SUFFICES ASSUME NEW c \in new, c.failed = {} PROVE Clean(c.name)
    BY <1>2, <1>4 DEF EvidenceInv, StoredInv, Clean
  <2>1. PICK b \in sent : c = [run |-> r, name |-> b, base |-> run[r].base,
                               failed |-> Failed(class, flaw[b], checker, claims)]
    OBVIOUS
  <2>2. checker \in BOOLEAN /\ (checker => claims = {})
    BY DEF EvidenceInv, ShapeInv
  <2>3. Failed(class, flaw[b], checker, claims) = {}
    BY <2>1
  <2>4. Clean(b)
    BY <2>2, <2>3, NoFailureIsClean
  <2>. QED  BY <2>1, <2>4
<1>6. /\ o.state \in {"rejected", "shortlisted"} /\ o.data = run[r].data
      /\ o = [state |-> o.state, base |-> o.base, data |-> o.data, list |-> o.list]
  <2>. HIDE DEF list
  <2>. QED  OBVIOUS
<1>. HIDE DEF o, new
<1>7. ShapeInv'
  BY <1>2, <1>3, <1>4, <1>6 DEF EvidenceInv, ShapeInv, RunShape
<1>8. ReportInv'
  BY <1>4 DEF EvidenceInv, ReportInv
<1>9. DataInv'
  <2>1. run[r].data \in BuildDataset
    BY <1>0 DEF EvidenceInv, DataInv, None
  <2>2. \A q \in Runs : run'[q].state # None => run'[q].data \in BuildDataset
    BY <1>2, <1>6, <2>1 DEF EvidenceInv, DataInv, ShapeInv, None
  <2>3. \A q \in Runs : run'[q].state \notin Early => seen'[q] = OptimizerView(run'[q].data)
    BY <1>2, <1>3, <1>6 DEF EvidenceInv, DataInv, ShapeInv, Early
  <2>4. \A q \in Runs : run[q].state \notin Early => run'[q] = run[q]
    BY <1>0, <1>2 DEF EvidenceInv, ShapeInv, Early
  <2>. QED  BY <1>4, <2>2, <2>3, <2>4 DEF EvidenceInv, DataInv
<1>10. PromotedIsProven' /\ HoldoutKept'
  BY <1>2, <1>4, <1>6, RunNotPromoted
<1>. QED  BY <1>5, <1>7, <1>8, <1>9, <1>10 DEF EvidenceInv

\* A command that goes on, or ends, and leaves what is on file alone.
LEMMA CompareMoves ==
  ASSUME EvidenceInv, UNCHANGED <<class, checker, flaw, run, stored, reports, seen>>,
         made \subseteq made',
         NEW k \in Compares, NEW o, compare' = [compare EXCEPT ![k] = o], CompareShape(o),
         o.step # "saving"
  PROVE  ShapeInv' /\ StoredInv' /\ DataInv' /\ PromotedIsProven' /\ HoldoutKept'
<1>1. ShapeInv'
  BY DEF EvidenceInv, ShapeInv
<1>2. StoredInv'
  BY StoredUntouched
<1>3. DataInv'
  <2>1. \A d \in Compares : compare'[d].step = "saving" => compare'[d] = compare[d]
    BY DEF EvidenceInv, ShapeInv
  <2>. QED  BY <2>1 DEF EvidenceInv, DataInv
<1>4. PromotedIsProven' /\ HoldoutKept'
  BY RunsUntouched
<1>. QED  BY <1>1, <1>2, <1>3, <1>4

LEMMA NotComparingShape == CompareShape(NotComparing) /\ NotComparing.step = None
BY DEF CompareShape, NotComparing

LEMMA CompareKeepsInv ==
  ASSUME EvidenceInv, NEW k \in Compares, Compare(k)
  PROVE  EvidenceInv'
<1>0. PICK r \in Runs, b \in Bytes : \E c \in Lookup(b) :
        /\ run[r].state = "shortlisted" /\ b \in run[r].list
        /\ RequestBinds(r, c)
        /\ LET q == Request(r, c) IN
             IF Hit(q) = {}
             THEN compare' = [compare EXCEPT ![k] = [step |-> "asked", plan |-> q]]
             ELSE \E p \in Hit(q) :
                    compare' = [compare EXCEPT ![k] =
                                 [step |-> "answered", plan |-> q, report |-> p]]
  BY DEF Compare
<1>1. PICK c \in Lookup(b) :
        /\ run[r].state = "shortlisted" /\ b \in run[r].list
        /\ RequestBinds(r, c)
        /\ LET q == Request(r, c) IN
             IF Hit(q) = {}
             THEN compare' = [compare EXCEPT ![k] = [step |-> "asked", plan |-> q]]
             ELSE \E p \in Hit(q) :
                    compare' = [compare EXCEPT ![k] =
                                 [step |-> "answered", plan |-> q, report |-> p]]
  BY <1>0
<1>. DEFINE q == Request(r, c)
<1>2. UNCHANGED <<class, checker, flaw, run, stored, cache, reports, made, seen>>
  BY DEF Compare, fixed
<1>3. c.name = b
  BY DEF Lookup
<1>4. Sealed(q)
  BY <1>1, <1>3 DEF Request, Sealed
<1>. HIDE DEF q
<1>5. CASE compare' = [compare EXCEPT ![k] = [step |-> "asked", plan |-> q]]
  <2>. DEFINE o == [step |-> "asked", plan |-> q]
  <2>1. CompareShape(o) /\ o.step = "asked" /\ o.plan = q
    BY DEF CompareShape
  <2>2. compare' = [compare EXCEPT ![k] = o]
    BY <1>5
  <2>. HIDE DEF o
  <2>3. ReportInv'
    BY <1>2, <1>4, <2>1, <2>2 DEF EvidenceInv, ReportInv, ShapeInv
  <2>4. o.step # "saving"
    BY <2>1
  <2>. QED  BY <1>2, <2>1, <2>2, <2>3, <2>4, CompareMoves DEF EvidenceInv
<1>6. ASSUME NEW p \in Hit(q),
             compare' = [compare EXCEPT ![k] = [step |-> "answered", plan |-> q, report |-> p]]
      PROVE  EvidenceInv'
  <2>. DEFINE o == [step |-> "answered", plan |-> q, report |-> p]
  <2>1. CompareShape(o) /\ o.step = "answered" /\ o.plan = q /\ o.report = p
    BY DEF CompareShape
  <2>2. compare' = [compare EXCEPT ![k] = o]
    BY <1>6
  <2>. HIDE DEF o
  <2>3. p \in made /\ p.plan = q
    BY DEF Hit, Bound, EvidenceInv, ReportInv
  <2>4. ReportInv'
    BY <1>2, <2>1, <2>2, <2>3 DEF EvidenceInv, ReportInv, ShapeInv
  <2>5. o.step # "saving"
    BY <2>1
  <2>. QED  BY <1>2, <2>1, <2>2, <2>4, <2>5, CompareMoves DEF EvidenceInv
<1>. QED  BY <1>1, <1>5, <1>6 DEF q

LEMMA EvaluateKeepsInv ==
  ASSUME EvidenceInv, NEW k \in Compares, Evaluate(k)
  PROVE  EvidenceInv'
<1>1. UNCHANGED <<class, checker, flaw, run, stored, compare, cache, reports, seen>>
  BY DEF Evaluate, fixed
<1>2. compare[k].step = "asked"
  BY DEF Evaluate
<1>3. \E p : p.plan = compare[k].plan /\ made' = made \union {p}
  BY DEF Evaluate
<1>4. ReportInv'
  BY <1>1, <1>2, <1>3 DEF EvidenceInv, ReportInv
<1>5. ShapeInv' /\ StoredInv' /\ DataInv'
  BY <1>1, StoredUntouched DEF EvidenceInv, ShapeInv, DataInv
<1>6. PromotedIsProven' /\ HoldoutKept'
  BY <1>1, <1>3, RunsUntouched
<1>. QED  BY <1>4, <1>5, <1>6 DEF EvidenceInv

LEMMA AnswerKeepsInv ==
  ASSUME EvidenceInv, NEW k \in Compares, Answer(k)
  PROVE  EvidenceInv'
<1>1. UNCHANGED <<class, checker, flaw, run, stored, reports, made, seen>>
  BY DEF Answer, fixed
<1>2. PICK p \in made :
       IF Bound(compare[k].plan, p)
       THEN /\ cache' = {e \in cache : e.key # compare[k].plan}
                          \union {[key |-> compare[k].plan, report |-> p]}
            /\ compare' = [compare EXCEPT ![k] =
                 [step |-> "answered", plan |-> compare[k].plan, report |-> p]]
       ELSE compare' = [compare EXCEPT ![k] = NotComparing] /\ UNCHANGED cache
  BY DEF Answer
<1>3. CASE Bound(compare[k].plan, p)
  <2>. DEFINE o == [step |-> "answered", plan |-> compare[k].plan, report |-> p]
              e == [key |-> compare[k].plan, report |-> p]
  <2>1. CompareShape(o) /\ o.step = "answered" /\ o.plan = compare[k].plan /\ o.report = p
    BY DEF CompareShape
  <2>2. e.key = compare[k].plan /\ e.report = p
    OBVIOUS
  <2>3. /\ compare' = [compare EXCEPT ![k] = o]
        /\ cache' = {f \in cache : f.key # compare[k].plan} \union {e}
    BY <1>2, <1>3
  <2>. HIDE DEF o, e
  <2>4. p.plan = compare[k].plan
    BY <1>3 DEF Bound
  <2>5. ReportInv'
    BY <1>1, <2>1, <2>2, <2>3, <2>4 DEF EvidenceInv, ReportInv, ShapeInv
  <2>6. o.step # "saving"
    BY <2>1
  <2>. QED  BY <1>1, <2>1, <2>3, <2>5, <2>6, CompareMoves DEF EvidenceInv
<1>4. CASE ~ Bound(compare[k].plan, p)
  <2>1. compare' = [compare EXCEPT ![k] = NotComparing] /\ cache' = cache
    BY <1>2, <1>4
  <2>2. ReportInv'
    BY <1>1, <2>1, NotComparingShape DEF EvidenceInv, ReportInv, ShapeInv, None
  <2>3. NotComparing.step # "saving"
    BY NotComparingShape DEF None
  <2>. QED  BY <1>1, <2>1, <2>2, <2>3, NotComparingShape, CompareMoves DEF EvidenceInv
<1>. QED  BY <1>3, <1>4

LEMMA LoseKeepsInv ==
  ASSUME EvidenceInv, NEW k \in Compares, Lose(k)
  PROVE  EvidenceInv'
<1>1. /\ UNCHANGED <<class, checker, flaw, run, stored, cache, reports, made, seen>>
      /\ compare' = [compare EXCEPT ![k] = NotComparing]
  BY DEF Lose, fixed
<1>2. ReportInv'
  BY <1>1, NotComparingShape DEF EvidenceInv, ReportInv, ShapeInv, None
<1>3. NotComparing.step # "saving"
  BY NotComparingShape DEF None
<1>. QED  BY <1>1, <1>2, <1>3, NotComparingShape, CompareMoves DEF EvidenceInv

LEMMA CheckKeepsInv ==
  ASSUME EvidenceInv, NEW k \in Compares, Check(k)
  PROVE  EvidenceInv'
<1>1. UNCHANGED <<class, checker, flaw, run, stored, cache, reports, made, seen>>
  BY DEF Check, fixed
<1>2. compare[k].step = "answered"
  BY DEF Check
<1>3. CASE Recordable(compare[k].report)
  <2>. DEFINE o == [step |-> "saving", plan |-> compare[k].plan, report |-> compare[k].report]
  <2>0. compare[k] = [step |-> compare[k].step, plan |-> compare[k].plan,
                      report |-> compare[k].report]
    BY <1>2 DEF EvidenceInv, ShapeInv, CompareShape, NotComparing, None
  <2>1. CompareShape(o) /\ o.step = "saving" /\ o.plan = compare[k].plan
          /\ o.report = compare[k].report
    BY DEF CompareShape
  <2>2. compare' = [compare EXCEPT ![k] = o]
    <3>1. [compare[k] EXCEPT !.step = "saving"] = o
      BY <2>0
    <3>. QED  BY <1>3, <3>1 DEF Check
  <2>. HIDE DEF o
  <2>3. ShapeInv'
    BY <1>1, <2>1, <2>2 DEF EvidenceInv, ShapeInv
  <2>4. ReportInv'
    BY <1>1, <1>2, <2>1, <2>2 DEF EvidenceInv, ReportInv, ShapeInv
  <2>5. DataInv'
    <3>. DEFINE plan == compare[k].report.plan
    <3>1. plan.run \in Runs
      BY <1>2 DEF EvidenceInv, ReportInv, Sealed
    <3>2. run[plan.run].state = "shortlisted" /\ plan.data = run[plan.run].data
      BY <1>3 DEF Recordable
    <3>. QED  BY <1>1, <2>1, <2>2, <3>1, <3>2 DEF EvidenceInv, DataInv, ShapeInv, Early, None
  <2>. QED  BY <1>1, <2>3, <2>4, <2>5, StoredUntouched, RunsUntouched DEF EvidenceInv
<1>4. CASE ~ Recordable(compare[k].report)
  <2>1. compare' = [compare EXCEPT ![k] = NotComparing]
    BY <1>4 DEF Check
  <2>2. ReportInv'
    BY <1>1, <2>1, NotComparingShape DEF EvidenceInv, ReportInv, ShapeInv, None
  <2>3. NotComparing.step # "saving"
    BY NotComparingShape DEF None
  <2>. QED  BY <1>1, <2>1, <2>2, <2>3, NotComparingShape, CompareMoves DEF EvidenceInv
<1>. QED  BY <1>3, <1>4

LEMMA RecordKeepsInv ==
  ASSUME EvidenceInv, NEW k \in Compares, Record(k)
  PROVE  EvidenceInv'
<1>. DEFINE p == compare[k].report
            r == p.plan.run
            o == [state |-> "evaluated", base |-> p.plan.base, data |-> p.plan.data,
                  list |-> p.plan.list, report |-> p.id, passed |-> p.passed]
<1>1. /\ UNCHANGED <<class, checker, flaw, stored, cache, made, seen>>
      /\ reports' = reports \union {p}
      /\ run' = [run EXCEPT ![r] = o]
      /\ compare' = [compare EXCEPT ![k] = NotComparing]
      /\ compare[k].step = "saving"
  BY DEF Record, fixed
<1>2. /\ r \in Runs /\ run[r].state \notin Early /\ p.plan.data = run[r].data
      /\ p \in made
  BY <1>1 DEF EvidenceInv, DataInv, ReportInv
<1>3. /\ o.state = "evaluated" /\ o.data = p.plan.data
      /\ o = [state |-> o.state, base |-> o.base, data |-> o.data, list |-> o.list,
              report |-> o.report, passed |-> o.passed]
  OBVIOUS
<1>. HIDE DEF o, r, p
<1>4. ShapeInv'
  BY <1>1, <1>3, NotComparingShape DEF EvidenceInv, ShapeInv, RunShape
<1>5. ReportInv'
  BY <1>1, <1>2, NotComparingShape DEF EvidenceInv, ReportInv, ShapeInv, None
<1>6. DataInv'
  <2>1. run'[r].data = run[r].data /\ run[r].state # None
    BY <1>1, <1>2, <1>3 DEF EvidenceInv, ShapeInv, Early
  <2>2. \A q \in Runs : run[q].state # None => run'[q].data = run[q].data
    BY <1>1, <2>1 DEF EvidenceInv, ShapeInv
  <2>3. \A q \in Runs : /\ run'[q].state # None <=> run[q].state # None
                        /\ run'[q].state \notin Early <=> run[q].state \notin Early
    BY <1>1, <1>2, <1>3 DEF EvidenceInv, ShapeInv, Early, None
  <2>4. \A d \in Compares : compare'[d].step = "saving" => compare'[d] = compare[d]
    BY <1>1, NotComparingShape DEF EvidenceInv, ShapeInv, None
  <2>. QED  BY <1>1, <2>2, <2>3, <2>4 DEF EvidenceInv, DataInv, Early
<1>7. PromotedIsProven' /\ HoldoutKept'
  <2>1. o.state # "promoted"
    BY <1>3
  <2>. QED  BY <1>1, <2>1, RunNotPromoted
<1>. QED  BY <1>1, <1>4, <1>5, <1>6, <1>7, StoredUntouched DEF EvidenceInv

\* A run that goes on past its evaluation keeps its dataset.
LEMMA DataKept ==
  ASSUME EvidenceInv, NEW r \in Runs, NEW o, run' = [run EXCEPT ![r] = o],
         UNCHANGED <<seen, compare>>,
         run[r].state \notin Early, o.state \notin Early, o.data = run[r].data
  PROVE  DataInv'
<1>1. \A q \in Runs : /\ run'[q].state # None => run[q].state # None
                      /\ run'[q].state \notin Early <=> run[q].state \notin Early
                      /\ run'[q].data = run[q].data
  BY DEF EvidenceInv, ShapeInv, Early
<1>. QED  BY <1>1 DEF EvidenceInv, DataInv

LEMMA ProposeKeepsInv ==
  ASSUME EvidenceInv, NEW r \in Runs, Propose(r)
  PROVE  EvidenceInv'
<1>1. /\ UNCHANGED <<class, checker, flaw, stored, compare, cache, reports, made, seen>>
      /\ run[r].state = "evaluated"
  BY DEF Propose, fixed
<1>2. PICK o : /\ run' = [run EXCEPT ![r] = o]
               /\ o.state = "awaiting-review" /\ o.data = run[r].data
               /\ o = [state |-> o.state, base |-> o.base, data |-> o.data, name |-> o.name,
                       report |-> o.report, from |-> o.from]
  <2>1. PICK b, p : run' = [run EXCEPT ![r] =
            [state |-> "awaiting-review", base |-> run[r].base, data |-> run[r].data,
             name |-> b, report |-> p.id, from |-> p.plan.run]]
    BY DEF Propose
  <2>. DEFINE w == [state |-> "awaiting-review", base |-> run[r].base, data |-> run[r].data,
                    name |-> b, report |-> p.id, from |-> p.plan.run]
  <2>2. /\ run' = [run EXCEPT ![r] = w] /\ w.state = "awaiting-review" /\ w.data = run[r].data
        /\ w = [state |-> w.state, base |-> w.base, data |-> w.data, name |-> w.name,
                report |-> w.report, from |-> w.from]
    BY <2>1
  <2>. HIDE DEF w
  <2>. QED  BY <2>2
<1>3. ShapeInv'
  BY <1>1, <1>2 DEF EvidenceInv, ShapeInv, RunShape
<1>4. StoredInv' /\ ReportInv'
  BY <1>1, StoredUntouched DEF EvidenceInv, ReportInv
<1>5. DataInv'
  <2>1. run[r].state \notin Early /\ o.state \notin Early
    BY <1>1, <1>2 DEF Early, None
  <2>. QED  BY <1>1, <1>2, <2>1, DataKept
<1>6. PromotedIsProven' /\ HoldoutKept'
  <2>1. o.state # "promoted"
    BY <1>2
  <2>. QED  BY <1>1, <1>2, <2>1, RunNotPromoted
<1>. QED  BY <1>3, <1>4, <1>5, <1>6 DEF EvidenceInv

LEMMA PromoteRunKeepsInv ==
  ASSUME EvidenceInv, NEW r \in Runs, PromoteRun(r)
  PROVE  EvidenceInv'
<1>1. /\ UNCHANGED <<class, checker, flaw, stored, compare, cache, reports, made, seen>>
      /\ run[r].state = "awaiting-review"
  BY DEF PromoteRun, fixed
<1>2. PICK c \in OfRun(r, run[r].name), p \in ReportOf(r) :
        Eligible(r, c, p) /\ run' = [run EXCEPT ![r].state = "promoted"]
  BY DEF PromoteRun
<1>. DEFINE o == [state |-> "promoted", base |-> run[r].base, data |-> run[r].data,
                  name |-> run[r].name, report |-> run[r].report, from |-> run[r].from]
<1>3. run' = [run EXCEPT ![r] = o]
  <2>1. run[r] = [state |-> run[r].state, base |-> run[r].base, data |-> run[r].data,
                  name |-> run[r].name, report |-> run[r].report, from |-> run[r].from]
    BY <1>1 DEF EvidenceInv, ShapeInv, RunShape, NotStarted, None
  <2>2. [run[r] EXCEPT !.state = "promoted"] = o
    BY <2>1
  <2>. QED  BY <1>2, <2>2
<1>4. /\ o.state = "promoted" /\ o.data = run[r].data /\ o.name = run[r].name
      /\ o.report = run[r].report
      /\ o = [state |-> o.state, base |-> o.base, data |-> o.data, name |-> o.name,
              report |-> o.report, from |-> o.from]
  OBVIOUS
<1>. HIDE DEF o
<1>5. ShapeInv'
  BY <1>1, <1>3, <1>4 DEF EvidenceInv, ShapeInv, RunShape
<1>6. StoredInv' /\ ReportInv'
  BY <1>1, StoredUntouched DEF EvidenceInv, ReportInv
<1>7. DataInv'
  <2>1. run[r].state \notin Early /\ o.state \notin Early
    BY <1>1, <1>4 DEF Early, None
  <2>. QED  BY <1>1, <1>3, <1>4, <2>1, DataKept
<1>8. c \in stored /\ c.name = run[r].name
  BY DEF OfRun
<1>9. p \in made /\ p.id = run[r].report
  BY DEF ReportOf, EvidenceInv, ReportInv
<1>10. /\ p.plan.run = r /\ p.plan.name = c.name /\ p.plan.data = run[r].data
       /\ Gates \union Evidence \subseteq p.passing
       /\ c.failed = {} /\ Prints(p.plan.data, "holdout") # {}
  BY <1>2 DEF Eligible, CompleteHoldoutEvidence, CompleteBenchmarkEvidence,
              CompleteFootprintEvidence, CompleteConstraintEvidence, Evidence
<1>11. PromotedIsProven'
  <2>1. run'[r] = o
    BY <1>3 DEF EvidenceInv, ShapeInv
  <2>2. Clean(run'[r].name)
    BY <1>4, <1>8, <1>10, <2>1 DEF EvidenceInv, StoredInv
  <2>3. /\ p.id = run'[r].report /\ p.plan.run = r
        /\ p.plan.name = run'[r].name /\ p.plan.data = run'[r].data
    BY <1>4, <1>8, <1>9, <1>10, <2>1
  <2>4. \A q \in Runs : q # r => run'[q] = run[q]
    BY <1>3 DEF EvidenceInv, ShapeInv
  <2>. QED  BY <1>1, <1>9, <1>10, <2>2, <2>3, <2>4 DEF EvidenceInv, PromotedIsProven, Clean
<1>12. HoldoutKept'
  BY <1>3, <1>4, <1>10 DEF EvidenceInv, HoldoutKept, ShapeInv
<1>. QED  BY <1>5, <1>6, <1>7, <1>11, <1>12 DEF EvidenceInv

LEMMA RollbackRunKeepsInv ==
  ASSUME EvidenceInv, NEW r \in Runs, RollbackRun(r)
  PROVE  EvidenceInv'
<1>1. /\ UNCHANGED <<class, checker, flaw, stored, compare, cache, reports, made, seen>>
      /\ run[r].state = "promoted" /\ run' = [run EXCEPT ![r].state = "rolled-back"]
  BY DEF RollbackRun, fixed
<1>. DEFINE o == [state |-> "rolled-back", base |-> run[r].base, data |-> run[r].data,
                  name |-> run[r].name, report |-> run[r].report, from |-> run[r].from]
<1>2. run' = [run EXCEPT ![r] = o]
  <2>1. run[r] = [state |-> run[r].state, base |-> run[r].base, data |-> run[r].data,
                  name |-> run[r].name, report |-> run[r].report, from |-> run[r].from]
    BY <1>1 DEF EvidenceInv, ShapeInv, RunShape, NotStarted, None
  <2>2. [run[r] EXCEPT !.state = "rolled-back"] = o
    BY <2>1
  <2>. QED  BY <1>1, <2>2
<1>3. /\ o.state = "rolled-back" /\ o.data = run[r].data
      /\ o = [state |-> o.state, base |-> o.base, data |-> o.data, name |-> o.name,
              report |-> o.report, from |-> o.from]
  OBVIOUS
<1>. HIDE DEF o
<1>4. ShapeInv'
  <2>1. RunShape(o)
    BY <1>3 DEF RunShape
  <2>. QED  BY <1>1, <1>2, <2>1 DEF EvidenceInv, ShapeInv
<1>5. StoredInv' /\ ReportInv'
  BY <1>1, StoredUntouched DEF EvidenceInv, ReportInv
<1>6. DataInv'
  <2>1. run[r].state \notin Early /\ o.state \notin Early
    BY <1>1, <1>3 DEF Early, None
  <2>. QED  BY <1>1, <1>2, <1>3, <2>1, DataKept
<1>7. PromotedIsProven' /\ HoldoutKept'
  <2>1. o.state # "promoted"
    BY <1>3
  <2>. QED  BY <1>1, <1>2, <2>1, RunNotPromoted
<1>. QED  BY <1>4, <1>5, <1>6, <1>7 DEF EvidenceInv

LEMMA EditKeepsInv == EvidenceInv /\ Edit => EvidenceInv'
<1>. SUFFICES ASSUME EvidenceInv, Edit PROVE EvidenceInv'
  OBVIOUS
<1>1. UNCHANGED <<class, checker, flaw, run, stored, compare, cache, reports, made, seen>>
  BY DEF Edit, fixed
<1>2. ShapeInv' /\ ReportInv' /\ DataInv'
  BY <1>1 DEF EvidenceInv, ShapeInv, ReportInv, DataInv
<1>. QED  BY <1>1, <1>2, StoredUntouched, RunsUntouched DEF EvidenceInv

LEMMA EvidenceStep == EvidenceInv /\ [EvidenceNext]_evidenceVars => EvidenceInv'
<1>. SUFFICES ASSUME EvidenceInv, [EvidenceNext]_evidenceVars PROVE EvidenceInv'
  OBVIOUS
<1>1. CASE UNCHANGED evidenceVars
  <2>1. UNCHANGED <<class, checker, flaw, run, stored, compare, cache, reports, made, seen>>
    BY <1>1 DEF evidenceVars
  <2>2. ShapeInv' /\ ReportInv' /\ DataInv'
    BY <2>1 DEF EvidenceInv, ShapeInv, ReportInv, DataInv
  <2>. QED  BY <2>1, <2>2, StoredUntouched, RunsUntouched DEF EvidenceInv
<1>2. ASSUME NEW r \in Runs,
             Start(r) \/ Measure(r) \/ Optimize(r) \/ Propose(r) \/ PromoteRun(r)
               \/ RollbackRun(r)
      PROVE  EvidenceInv'
  BY <1>2, StartKeepsInv, MeasureKeepsInv, OptimizeKeepsInv, ProposeKeepsInv,
     PromoteRunKeepsInv, RollbackRunKeepsInv
<1>3. ASSUME NEW k \in Compares,
             \/ Compare(k) \/ Evaluate(k) \/ Answer(k)
             \/ Check(k) \/ Record(k) \/ Lose(k)
      PROVE  EvidenceInv'
  BY <1>3, CompareKeepsInv, EvaluateKeepsInv, AnswerKeepsInv, CheckKeepsInv,
     RecordKeepsInv, LoseKeepsInv
<1>. QED  BY <1>1, <1>2, <1>3, EditKeepsInv DEF EvidenceNext

---------------------------------------------------------------------------
THEOREM EvidenceInvHolds == EvidenceSpec => []EvidenceInv
<1>1. EvidenceInit => EvidenceInv
  BY InitInv
<1>2. EvidenceInv /\ [EvidenceNext]_evidenceVars => EvidenceInv'
  BY EvidenceStep
<1>. QED  BY <1>1, <1>2, PTL DEF EvidenceSpec

\* The bytes of a promoted run truly fail no check of their class, whatever the
\* engine claimed, and a report the evaluator made measured them, for this run
\* and on its dataset, as good everywhere, whatever the cache and the
\* commands did in between (validation.ts, evaluation/cache.ts,
\* release/evidence.ts).
THEOREM PromotionsAreProven == EvidenceSpec => []PromotedIsProven
<1>1. EvidenceInv => PromotedIsProven
  BY DEF EvidenceInv
<1>. QED  BY <1>1, EvidenceInvHolds, PTL

\* The engine of a promoted run received no input of the holdout the run was
\* measured on, and there is one (datasets/leakage.ts, optimizer-view.ts).
THEOREM HoldoutsStayUnseen == EvidenceSpec => []HoldoutUnseen
<1>1. EvidenceInv => HoldoutUnseen
  <2>. SUFFICES ASSUME EvidenceInv, NEW r \in Runs, run[r].state = "promoted"
                PROVE  /\ Prints(run[r].data, "holdout") # {}
                       /\ seen[r] \intersect Prints(run[r].data, "holdout") = {}
    BY DEF HoldoutUnseen
  <2>1. run[r].data \in BuildDataset /\ seen[r] = OptimizerView(run[r].data)
    BY DEF EvidenceInv, DataInv, Early, None
  <2>2. Prints(run[r].data, "holdout") # {}
    BY DEF EvidenceInv, HoldoutKept
  <2>. QED  BY <2>1, <2>2, HoldoutApart
<1>. QED  BY <1>1, EvidenceInvHolds, PTL

\* A command goes on with a report on its own request only, over mixed-up
\* answers, commands that end halfway and a cache that outlives both
\* (evaluation/bindings.ts, cache.ts).
THEOREM ReportsAnswerTheRequest == EvidenceSpec => []AnswersTheRequest
<1>1. EvidenceInv => AnswersTheRequest
  BY DEF EvidenceInv, ReportInv, Sealed, AnswersTheRequest
<1>. QED  BY <1>1, EvidenceInvHolds, PTL

---------------------------------------------------------------------------
(* Releases: the inductive invariant *)

\* What the stores hold, with numbers of any size.
StoredRevision == [parent : Nat, targets : [Targets -> Contents]]
StoredRelease ==
  [proposal : Approved, status : {"canary", "failed", "active"}, revision : Nat,
   previous : Nat, target : Contents, previousTarget : Contents, canary : Nat]

ReleaseTypes ==
  /\ revisions \in Seq(StoredRevision) /\ releases \in Seq(StoredRelease)
  /\ activeRevision \in 1..Len(revisions)
  /\ \A i \in 1..Len(releases) : /\ releases[i].revision \in 1..Len(revisions)
                                 /\ releases[i].previous \in 1..Len(revisions)
                                 /\ releases[i].canary <= Len(releases)
  /\ DOMAIN runs = Approved
  /\ pc \in [Commands -> Steps]
  /\ proposal \in [Commands -> Approved \cup {NoProposal}]
  /\ \A c \in Commands : pc[c] # "idle" => proposal[c] \in Approved
  /\ revision \in [Commands -> Nat] /\ release \in [Commands -> Nat]

\* A promotion whose canary release is written and which is not over, and one
\* whose canary may still fail.
CanaryOpen == {"saved", "canary", "refused"}
Promoting == CanaryOpen \cup {"passed", "activating", "activated"}

FailedAt(r) ==
  \E f \in 1..Len(releases) : releases[f].status = "failed" /\ releases[f].canary = r

\* q has a stored canary that did not fail and cannot fail any more.
Canaried(q) ==
  \E r \in 1..Len(releases) :
    /\ IsRelease(r, q, "canary") /\ ~FailedAt(r)
    /\ \A c \in Commands : pc[c] \in CanaryOpen => release[c] # r
AllCanaried(i) ==
  \A t \in Targets :
    revisions[i].targets[t] # Original => Canaried(revisions[i].targets[t])

\* Revision i puts the candidate of p over its parent.
StagedOver(i, p) ==
  /\ i \in 1..Len(revisions)
  /\ revisions[i].parent \in 1..Len(revisions)
  /\ revisions[i].targets
       = [revisions[revisions[i].parent].targets EXCEPT ![TargetOf[p]] = p]

Standing(r, p) ==
  /\ IsRelease(r, p, "active") /\ releases[r].target = p
  /\ releases[r].revision \in 1..Len(revisions)
  /\ revisions[releases[r].revision].targets[TargetOf[p]] = p
  /\ IsRelease(releases[r].canary, p, "canary")

AncestorsInv ==
  \A i \in 1..Len(revisions) :
    revisions[i].parent # 0 =>
      revisions[i].parent \in 1..Len(revisions) /\ AllCanaried(revisions[i].parent)

\* What a command holds.
CommandHolds(c) ==
  /\ pc[c] \in Promoting \cup {"prepared"} => StagedOver(revision[c], proposal[c])
  /\ pc[c] \in Promoting =>
       /\ IsRelease(release[c], proposal[c], "canary")
       /\ releases[release[c]].target = proposal[c]
       /\ releases[release[c]].revision = revision[c]
       /\ ~FailedAt(release[c])
  /\ pc[c] = "failing" => IsRelease(release[c], proposal[c], "failed")
  /\ pc[c] = "released" => Standing(release[c], proposal[c])
  /\ pc[c] = "recorded" => IsRelease(release[c], proposal[c], "active")
  /\ pc[c] \in {"undo", "undoing", "undone"} =>
       /\ release[c] \in 1..Len(releases)
       /\ releases[release[c]].proposal = proposal[c]
       /\ revision[c] \in 1..Len(revisions)
  /\ pc[c] = "undoing" => AllCanaried(revision[c])

ApartInv ==
  \A c, d \in Commands :
    c # d /\ pc[c] \in Promoting /\ pc[d] \in Promoting => release[c] # release[d]

\* What a run's file says of its release is in the release store.
RunStands(p) ==
  LET r == runs[p].release IN
    /\ runs[p].state = "canary" => IsRelease(r, p, "canary")
    /\ runs[p].state = "promoted" => Standing(r, p)
    /\ runs[p].state = "failed" =>
         \E f \in 1..Len(releases) : IsRelease(f, p, "failed")
    /\ runs[p].state = "rolled-back" => IsRelease(r, p, "active")

ReleaseInv ==
  /\ ReleaseTypes /\ AncestorsInv /\ AllCanaried(activeRevision)
  /\ \A c \in Commands : CommandHolds(c)
  /\ ApartInv /\ \A p \in Approved : RunStands(p)

---------------------------------------------------------------------------
(* Releases: what stays while the stores grow *)

\* The stores only grow, only c moves, and a failed release is written only by
\* the command whose canary failed.
Grows(c) ==
  /\ Len(revisions) <= Len(revisions')
  /\ \A i \in 1..Len(revisions) : revisions'[i] = revisions[i]
  /\ Len(releases) <= Len(releases')
  /\ \A i \in 1..Len(releases) : releases'[i] = releases[i]
  /\ \A d \in Commands \ {c} :
       /\ pc'[d] = pc[d] /\ proposal'[d] = proposal[d]
       /\ revision'[d] = revision[d] /\ release'[d] = release[d]
  /\ \A f \in 1..Len(releases') :
       f > Len(releases) /\ releases'[f].status = "failed" =>
         pc[c] = "refused" /\ releases'[f].canary = release[c]
  /\ pc'[c] \in Promoting =>
       \/ /\ pc[c] \in Promoting /\ release'[c] = release[c]
          /\ pc'[c] \in CanaryOpen => pc[c] \in CanaryOpen
       \/ release'[c] = Len(releases) + 1

LEMMA StoreLengths ==
  ASSUME ReleaseTypes
  PROVE  Len(revisions) \in Nat /\ Len(releases) \in Nat
  BY DEF ReleaseTypes

LEMMA StoresTyped ==
  ASSUME ReleaseTypes
  PROVE  /\ \A i \in 1..Len(revisions) : revisions[i] \in StoredRevision
         /\ \A i \in 1..Len(releases) : releases[i] \in StoredRelease
<1>1. revisions \in Seq(StoredRevision) /\ releases \in Seq(StoredRelease)
  BY DEF ReleaseTypes
<1> QED BY <1>1

LEMMA StaysReleased ==
  ASSUME ReleaseTypes, ReleaseTypes', NEW c \in Commands, Grows(c), NEW r, NEW p, NEW s,
         IsRelease(r, p, s)
  PROVE  IsRelease(r, p, s)' /\ releases'[r] = releases[r]
  BY StoreLengths DEF IsRelease, Grows, ReleaseTypes

LEMMA StaysStaged ==
  ASSUME ReleaseTypes, ReleaseTypes', NEW c \in Commands, Grows(c), NEW i, NEW p,
         StagedOver(i, p)
  PROVE  StagedOver(i, p)' /\ revisions'[i] = revisions[i]
<1>1. Len(revisions) \in Nat /\ Len(revisions') \in Nat BY DEF ReleaseTypes
<1>2. /\ i \in 1..Len(revisions') /\ revisions[i].parent \in 1..Len(revisions')
      /\ revisions'[i] = revisions[i]
      /\ revisions'[revisions[i].parent] = revisions[revisions[i].parent]
  BY <1>1 DEF StagedOver, Grows
<1> QED BY <1>2 DEF StagedOver

LEMMA StaysStanding ==
  ASSUME ReleaseTypes, ReleaseTypes', NEW c \in Commands, Grows(c), NEW r, NEW p,
         Standing(r, p)
  PROVE  Standing(r, p)'
<1>1. IsRelease(r, p, "active")' /\ releases'[r] = releases[r]
  BY StaysReleased DEF Standing
<1>2. IsRelease(releases[r].canary, p, "canary")' BY StaysReleased DEF Standing
<1>3. Len(revisions) \in Nat /\ Len(revisions') \in Nat BY DEF ReleaseTypes
<1>4. /\ releases[r].revision \in 1..Len(revisions')
      /\ revisions'[releases[r].revision] = revisions[releases[r].revision]
  BY <1>3 DEF Standing, Grows
<1> QED BY <1>1, <1>2, <1>4 DEF Standing, IsRelease

LEMMA StaysUnfailed ==
  ASSUME ReleaseTypes, ReleaseTypes', NEW c \in Commands, Grows(c), NEW r,
         ~FailedAt(r), r # release[c] \/ pc[c] # "refused"
  PROVE  ~FailedAt(r)'
<1> SUFFICES ASSUME NEW f \in 1..Len(releases'),
                    releases'[f].status = "failed", releases'[f].canary = r
             PROVE  FALSE
  BY DEF FailedAt
<1>1. f \notin 1..Len(releases) BY DEF Grows, FailedAt
<1>2. f > Len(releases) BY <1>1 DEF ReleaseTypes
<1> QED BY <1>2 DEF Grows

LEMMA StaysCanaried ==
  ASSUME ReleaseTypes, ReleaseTypes', NEW c \in Commands, Grows(c), NEW q, Canaried(q)
  PROVE  Canaried(q)'
<1>1. PICK r \in 1..Len(releases) :
        /\ IsRelease(r, q, "canary") /\ ~FailedAt(r)
        /\ \A d \in Commands : pc[d] \in CanaryOpen => release[d] # r
  BY DEF Canaried
<1>2. IsRelease(r, q, "canary")' BY <1>1, StaysReleased
<1>3. ~FailedAt(r)' BY <1>1, StaysUnfailed DEF CanaryOpen
<1>4. ASSUME NEW d \in Commands, pc'[d] \in CanaryOpen
      PROVE  release'[d] # r
  <2>1. CASE d # c BY <2>1, <1>1, <1>4 DEF Grows
  <2>2. CASE d = c
    <3>1. \/ pc[c] \in CanaryOpen /\ release'[c] = release[c]
          \/ release'[c] = Len(releases) + 1
      BY <1>4, <2>2 DEF Grows, Promoting
    <3> QED BY <3>1, <2>2, <1>1 DEF ReleaseTypes
  <2> QED BY <2>1, <2>2
<1>5. r \in 1..Len(releases') BY <1>2 DEF IsRelease
<1> QED BY <1>2, <1>3, <1>4, <1>5 DEF Canaried

LEMMA StayCanaried ==
  ASSUME ReleaseTypes, ReleaseTypes', NEW c \in Commands, Grows(c),
         NEW i \in 1..Len(revisions), AllCanaried(i)
  PROVE  AllCanaried(i)'
<1>1. revisions'[i] = revisions[i] BY DEF Grows
<1> SUFFICES ASSUME NEW t \in Targets, revisions'[i].targets[t] # Original
             PROVE  Canaried(revisions[i].targets[t])'
  BY DEF AllCanaried
<1>2. PICK q : q = revisions[i].targets[t] OBVIOUS
<1>3. Canaried(q) BY <1>1, <1>2 DEF AllCanaried
<1>4. Canaried(q)' BY <1>3, StaysCanaried
<1> QED BY <1>1, <1>2, <1>4

LEMMA OthersHold ==
  ASSUME ReleaseInv, ReleaseTypes', NEW c \in Commands, Grows(c),
         NEW d \in Commands, d # c
  PROVE  CommandHolds(d)'
<1> USE DEF ReleaseInv
<1>1. pc'[d] = pc[d] /\ proposal'[d] = proposal[d] /\ revision'[d] = revision[d]
      /\ release'[d] = release[d]
  BY DEF Grows
<1>2. CommandHolds(d) OBVIOUS
<1>3. pc[d] \in Promoting \cup {"prepared"} => StagedOver(revision[d], proposal[d])'
  BY <1>1, <1>2, StaysStaged DEF CommandHolds
<1>4. pc[d] \in Promoting =>
       /\ IsRelease(release[d], proposal[d], "canary")'
       /\ releases'[release[d]].target = proposal[d]
       /\ releases'[release[d]].revision = revision[d]
       /\ ~FailedAt(release[d])'
  <2> SUFFICES ASSUME pc[d] \in Promoting
               PROVE  /\ IsRelease(release[d], proposal[d], "canary")'
                      /\ releases'[release[d]].target = proposal[d]
                      /\ releases'[release[d]].revision = revision[d]
                      /\ ~FailedAt(release[d])'
    OBVIOUS
  <2>1. IsRelease(release[d], proposal[d], "canary")
        /\ releases[release[d]].target = proposal[d]
        /\ releases[release[d]].revision = revision[d]
        /\ ~FailedAt(release[d])
    BY <1>2 DEF CommandHolds
  <2>2. IsRelease(release[d], proposal[d], "canary")'
        /\ releases'[release[d]] = releases[release[d]]
    BY <1>1, <2>1, StaysReleased
  <2>3. release[d] # release[c] \/ pc[c] # "refused"
    BY DEF ApartInv, Promoting, CanaryOpen
  <2>4. ~FailedAt(release[d])' BY <1>1, <2>1, <2>3, StaysUnfailed
  <2> QED BY <2>1, <2>2, <2>4
<1>5. pc[d] = "failing" => IsRelease(release[d], proposal[d], "failed")'
  BY <1>1, <1>2, StaysReleased DEF CommandHolds
<1>6. pc[d] = "released" => Standing(release[d], proposal[d])'
  BY <1>1, <1>2, StaysStanding DEF CommandHolds
<1>7. pc[d] = "recorded" => IsRelease(release[d], proposal[d], "active")'
  BY <1>1, <1>2, StaysReleased DEF CommandHolds
<1>8. pc[d] \in {"undo", "undoing", "undone"} =>
       /\ release[d] \in 1..Len(releases')
       /\ releases'[release[d]].proposal = proposal[d]
       /\ revision[d] \in 1..Len(revisions')
  BY <1>1, <1>2 DEF CommandHolds, Grows, ReleaseTypes
<1>9. pc[d] = "undoing" => AllCanaried(revision[d])'
  BY <1>1, <1>2, StayCanaried DEF CommandHolds
<1> QED BY <1>1, <1>3, <1>4, <1>5, <1>6, <1>7, <1>8, <1>9 DEF CommandHolds

LEMMA StaysBehind ==
  ASSUME ReleaseTypes, ReleaseTypes', NEW c \in Commands, Grows(c),
         NEW p \in Approved, RunStands(p), runs'[p] = runs[p]
  PROVE  RunStands(p)'
<1> PICK r : r = runs[p].release OBVIOUS
<1>1. runs[p].state = "canary" => IsRelease(r, p, "canary")'
  BY StaysReleased DEF RunStands
<1>2. runs[p].state = "promoted" => Standing(r, p)'
  BY StaysStanding DEF RunStands
<1>3. ASSUME runs[p].state = "failed"
      PROVE  \E f \in 1..Len(releases') : IsRelease(f, p, "failed")'
  <2>1. PICK f \in 1..Len(releases) : IsRelease(f, p, "failed") BY <1>3 DEF RunStands
  <2>2. IsRelease(f, p, "failed")' BY <2>1, StaysReleased
  <2> QED BY <2>2 DEF IsRelease
<1>4. runs[p].state = "rolled-back" => IsRelease(r, p, "active")'
  BY StaysReleased DEF RunStands
<1> QED BY <1>1, <1>2, <1>3, <1>4 DEF RunStands

LEMMA Onward ==
  ASSUME ReleaseInv, ReleaseTypes', NEW c \in Commands, Grows(c),
         \A i \in 1..Len(revisions') :
           i > Len(revisions) => revisions'[i].parent = activeRevision,
         CommandHolds(c)', AllCanaried(activeRevision)',
         \A p \in Approved : runs'[p] = runs[p] \/ RunStands(p)'
  PROVE  ReleaseInv'
<1> USE DEF ReleaseInv
<1>1. AncestorsInv'
  <2> SUFFICES ASSUME NEW i \in 1..Len(revisions'), revisions'[i].parent # 0
               PROVE  /\ revisions'[i].parent \in 1..Len(revisions')
                      /\ AllCanaried(revisions[i].parent)'
    BY DEF AncestorsInv
  <2>1. PICK j : j = revisions'[i].parent OBVIOUS
  <2>2. Len(revisions) \in Nat /\ Len(revisions') \in Nat /\ Len(revisions) <= Len(revisions')
    BY DEF ReleaseTypes, Grows
  <2>3. j \in 1..Len(revisions) /\ AllCanaried(j)
    <3>1. CASE i \in 1..Len(revisions)
      <4>1. j = revisions[i].parent BY <2>1, <3>1 DEF Grows
      <4> QED BY <4>1, <2>1, <3>1 DEF AncestorsInv
    <3>2. CASE i > Len(revisions) BY <3>2, <2>1 DEF ReleaseTypes
    <3> QED BY <3>1, <3>2, <2>2
  <2>4. AllCanaried(j)' BY <2>3, StayCanaried
  <2> QED BY <2>1, <2>2, <2>3, <2>4
<1>2. \A d \in Commands : CommandHolds(d)' BY OthersHold
<1>3. ApartInv'
  <2> SUFFICES ASSUME NEW d \in Commands, d # c, pc'[c] \in Promoting, pc'[d] \in Promoting
               PROVE  release'[c] # release'[d]
    BY DEF ApartInv, Grows
  <2>1. pc[d] \in Promoting /\ release'[d] = release[d] BY DEF Grows
  <2>2. release[d] \in 1..Len(releases) BY <2>1 DEF CommandHolds, IsRelease
  <2>3. CASE release'[c] = Len(releases) + 1 BY <2>1, <2>2, <2>3 DEF ReleaseTypes
  <2>4. CASE pc[c] \in Promoting /\ release'[c] = release[c]
    BY <2>1, <2>4 DEF ApartInv
  <2> QED BY <2>3, <2>4 DEF Grows
<1>4. \A p \in Approved : RunStands(p)' BY StaysBehind
<1> QED BY <1>1, <1>2, <1>3, <1>4

---------------------------------------------------------------------------
(* Releases: steps that leave the stores as they are *)

\* A step of c that leaves the revisions and the releases as they are.
LEMMA QuietStep ==
  ASSUME ReleaseInv, ReleaseTypes', NEW c \in Commands,
         UNCHANGED <<revisions, releases, activeRevision>>,
         \A d \in Commands \ {c} :
           /\ pc'[d] = pc[d] /\ proposal'[d] = proposal[d]
           /\ revision'[d] = revision[d] /\ release'[d] = release[d],
         pc'[c] \in Promoting =>
           /\ pc[c] \in Promoting /\ release'[c] = release[c]
           /\ pc'[c] \in CanaryOpen => pc[c] \in CanaryOpen,
         CommandHolds(c)',
         \A p \in Approved : runs'[p] = runs[p] \/ RunStands(p)'
  PROVE  ReleaseInv'
<1>1. Len(revisions) \in Nat /\ Len(releases) \in Nat BY DEF ReleaseInv, ReleaseTypes
<1>2. Grows(c) BY <1>1 DEF Grows
<1>3. AllCanaried(activeRevision)'
  <2>1. PICK i : i = activeRevision OBVIOUS
  <2>2. AllCanaried(i)' BY <2>1, <1>2, StayCanaried DEF ReleaseInv, ReleaseTypes
  <2> QED BY <2>1, <2>2
<1> QED BY <1>1, <1>2, <1>3, Onward

\* c goes to a step and keeps what it holds.
LEMMA GoesOn ==
  ASSUME ReleaseTypes, NEW c \in Commands, NEW s \in Steps, Goto(c, s), pc[c] # "idle",
         UNCHANGED <<revisions, releases, activeRevision, frame>>, DOMAIN runs' = Approved
  PROVE  /\ ReleaseTypes' /\ pc'[c] = s
         /\ proposal'[c] = proposal[c] /\ revision'[c] = revision[c]
         /\ release'[c] = release[c]
         /\ \A d \in Commands \ {c} :
              /\ pc'[d] = pc[d] /\ proposal'[d] = proposal[d]
              /\ revision'[d] = revision[d] /\ release'[d] = release[d]
<1>1. pc' \in [Commands -> Steps] /\ pc'[c] = s
      /\ \A d \in Commands \ {c} : pc'[d] = pc[d]
  BY DEF ReleaseTypes, Goto
<1>2. UNCHANGED <<proposal, revision, release>> BY DEF frame
<1> QED BY <1>1, <1>2 DEF ReleaseTypes

\* c is over, in whatever way.
LEMMA Returns ==
  ASSUME ReleaseInv, NEW c \in Commands, Return(c),
         UNCHANGED <<revisions, releases, activeRevision>>, DOMAIN runs' = Approved,
         \A p \in Approved : runs'[p] = runs[p] \/ RunStands(p)'
  PROVE  ReleaseInv'
<1>1. /\ pc' = [pc EXCEPT ![c] = "idle"]
      /\ proposal' = [proposal EXCEPT ![c] = NoProposal]
      /\ revision' = [revision EXCEPT ![c] = 0]
      /\ release' = [release EXCEPT ![c] = 0]
  BY DEF Return, Goto
<1>2. /\ pc \in [Commands -> Steps] /\ proposal \in [Commands -> Approved \cup {NoProposal}]
      /\ revision \in [Commands -> Nat] /\ release \in [Commands -> Nat]
  BY DEF ReleaseInv, ReleaseTypes
<1>3. /\ pc' \in [Commands -> Steps] /\ proposal' \in [Commands -> Approved \cup {NoProposal}]
      /\ revision' \in [Commands -> Nat] /\ release' \in [Commands -> Nat]
      /\ pc'[c] = "idle"
      /\ \A d \in Commands \ {c} :
              /\ pc'[d] = pc[d] /\ proposal'[d] = proposal[d]
              /\ revision'[d] = revision[d] /\ release'[d] = release[d]
  BY <1>1, <1>2 DEF Steps
<1>4. ReleaseTypes' BY <1>3 DEF ReleaseInv, ReleaseTypes
<1>5. CommandHolds(c)' BY <1>3 DEF CommandHolds, Promoting, CanaryOpen
<1> QED BY <1>3, <1>4, <1>5, QuietStep DEF Promoting, CanaryOpen

\* c keeps to the promotion it holds.
LEMMA KeepsPromoting ==
  ASSUME ReleaseInv, NEW c \in Commands, NEW s \in Promoting, Goto(c, s),
         pc[c] \in Promoting, s \in CanaryOpen => pc[c] \in CanaryOpen,
         UNCHANGED <<revisions, releases, activeRevision, frame>>,
         DOMAIN runs' = Approved,
         \A p \in Approved : runs'[p] = runs[p] \/ RunStands(p)'
  PROVE  ReleaseInv'
<1>1. s \in Steps /\ pc[c] # "idle" BY DEF Promoting, CanaryOpen, Steps
<1>2. /\ ReleaseTypes' /\ pc'[c] = s
      /\ proposal'[c] = proposal[c] /\ revision'[c] = revision[c]
      /\ release'[c] = release[c]
      /\ \A d \in Commands \ {c} :
           /\ pc'[d] = pc[d] /\ proposal'[d] = proposal[d]
           /\ revision'[d] = revision[d] /\ release'[d] = release[d]
  BY <1>1, GoesOn DEF ReleaseInv
<1>3. StagedOver(revision[c], proposal[c])'
  BY <1>2 DEF ReleaseInv, CommandHolds, StagedOver
<1>4. /\ IsRelease(release[c], proposal[c], "canary")'
      /\ releases'[release'[c]].target = proposal'[c]
      /\ releases'[release'[c]].revision = revision'[c]
      /\ ~FailedAt(release[c])'
  BY <1>2 DEF ReleaseInv, CommandHolds, IsRelease, FailedAt
<1>5. CommandHolds(c)'
  BY <1>2, <1>3, <1>4 DEF CommandHolds, Promoting, CanaryOpen
<1> QED BY <1>2, <1>5, QuietStep

\* The predicates above read the stores and what the commands hold, nothing else.
LEMMA SameStores ==
  ASSUME UNCHANGED revisions, UNCHANGED releases, UNCHANGED pc,
         UNCHANGED proposal, UNCHANGED revision, UNCHANGED release
  PROVE  /\ \A i : AllCanaried(i)' = AllCanaried(i)
         /\ \A c \in Commands : CommandHolds(c)' = CommandHolds(c)
         /\ \A r, p : Standing(r, p)' = Standing(r, p)
         /\ \A r, p, s : IsRelease(r, p, s)' = IsRelease(r, p, s)
<1>1. \A r, p, s : IsRelease(r, p, s)' = IsRelease(r, p, s)
  BY DEF IsRelease
<1>2. \A r, p : Standing(r, p)' = Standing(r, p)
  BY <1>1 DEF Standing
<1>3. \A r : FailedAt(r)' = FailedAt(r)
  BY DEF FailedAt
<1>4. \A q : Canaried(q)' = Canaried(q)
  BY <1>1, <1>3 DEF Canaried
<1>5. \A i : AllCanaried(i)' = AllCanaried(i)
  BY <1>4 DEF AllCanaried
<1>6. \A i, p : StagedOver(i, p)' = StagedOver(i, p)
  BY DEF StagedOver
<1>7. ASSUME NEW c \in Commands PROVE CommandHolds(c)' = CommandHolds(c)
  BY <1>1, <1>2, <1>3, <1>5, <1>6 DEF CommandHolds
<1> QED BY <1>1, <1>2, <1>5, <1>7

LEMMA ReviewKeeps ==
  ASSUME ReleaseInv, NEW p \in Approved, ReachReview(p)
  PROVE  ReleaseInv'
<1>1. /\ UNCHANGED <<revisions, activeRevision, releases, pc, proposal, revision, release>>
      /\ runs' = [runs EXCEPT ![p] = [state |-> "awaiting-review", release |-> 0]]
  BY DEF ReachReview, SaveRun, frame
<1>2. ReleaseTypes' BY <1>1 DEF ReleaseInv, ReleaseTypes
<1>3. /\ \A i : AllCanaried(i)' = AllCanaried(i)
      /\ \A c \in Commands : CommandHolds(c)' = CommandHolds(c)
      /\ \A r, q : Standing(r, q)' = Standing(r, q)
      /\ \A r, q, s : IsRelease(r, q, s)' = IsRelease(r, q, s)
  BY <1>1, SameStores
<1>4. \A q \in Approved : RunStands(q)'
  <2> SUFFICES ASSUME NEW q \in Approved PROVE RunStands(q)' OBVIOUS
  <2>0. RunStands(q) BY DEF ReleaseInv
  <2>1. CASE q = p
    <3>1. runs'[q].state = "awaiting-review"
      BY <1>1, <2>1 DEF ReleaseInv, ReleaseTypes
    <3> QED BY <3>1 DEF RunStands
  <2>2. CASE q # p
    <3>1. runs'[q] = runs[q] BY <1>1, <2>2 DEF ReleaseInv, ReleaseTypes
    <3>2. releases' = releases BY <1>1
    <3> QED BY <1>3, <2>0, <3>1, <3>2 DEF RunStands
  <2> QED BY <2>1, <2>2
<1>5. AncestorsInv' /\ AllCanaried(activeRevision)'
  <2>1. AncestorsInv /\ AllCanaried(activeRevision) BY DEF ReleaseInv
  <2>2. revisions' = revisions /\ activeRevision' = activeRevision BY <1>1
  <2>3. AncestorsInv' BY <1>3, <2>1, <2>2 DEF AncestorsInv
  <2>4. AllCanaried(activeRevision)' BY <1>1, <2>1 DEF AllCanaried, Canaried, IsRelease, FailedAt
  <2> QED BY <2>3, <2>4
<1>6. \A c \in Commands : CommandHolds(c)' BY <1>3 DEF ReleaseInv
<1>7. ApartInv' BY <1>1 DEF ReleaseInv, ApartInv
<1> QED BY <1>2, <1>4, <1>5, <1>6, <1>7 DEF ReleaseInv

LEMMA BeginPromoteKeeps ==
  ASSUME ReleaseInv, NEW c \in Commands, BeginPromote(c)
  PROVE  ReleaseInv'
<1>1. PICK p \in Approved : proposal' = [proposal EXCEPT ![c] = p] BY DEF BeginPromote
<1>2. /\ UNCHANGED <<revisions, activeRevision, releases, runs, revision, release>>
      /\ pc' = [pc EXCEPT ![c] = "intent"]
  BY DEF BeginPromote, store, Goto
<1>3. /\ pc \in [Commands -> Steps] /\ proposal \in [Commands -> Approved \cup {NoProposal}]
  BY DEF ReleaseInv, ReleaseTypes
<1>4. /\ pc' \in [Commands -> Steps] /\ proposal' \in [Commands -> Approved \cup {NoProposal}]
      /\ pc'[c] = "intent" /\ proposal'[c] = p
      /\ \A d \in Commands \ {c} : pc'[d] = pc[d] /\ proposal'[d] = proposal[d]
  BY <1>1, <1>2, <1>3 DEF Steps
<1>5. ReleaseTypes' BY <1>2, <1>4 DEF ReleaseInv, ReleaseTypes
<1>6. CommandHolds(c)' BY <1>4 DEF CommandHolds, Promoting, CanaryOpen
<1> QED BY <1>2, <1>4, <1>5, <1>6, QuietStep DEF Promoting, CanaryOpen

LEMMA CanaryRunKeeps ==
  ASSUME ReleaseInv, NEW c \in Commands, SaveCanaryRun(c)
  PROVE  ReleaseInv'
<1>1. /\ pc[c] = "saved" /\ Goto(c, "canary")
      /\ UNCHANGED <<revisions, releases, activeRevision, frame>>
      /\ runs' = [runs EXCEPT ![proposal[c]] = [state |-> "canary", release |-> release[c]]]
  BY DEF SaveCanaryRun, SaveRun, At
<1>2. DOMAIN runs = Approved /\ DOMAIN runs' = Approved
  BY <1>1 DEF ReleaseInv, ReleaseTypes
<1>3. IsRelease(release[c], proposal[c], "canary")
  BY <1>1 DEF ReleaseInv, CommandHolds, Promoting, CanaryOpen
<1>4. ASSUME NEW p \in Approved PROVE runs'[p] = runs[p] \/ RunStands(p)'
  <2>1. CASE p = proposal[c]
    <3>1. runs'[p] = [state |-> "canary", release |-> release[c]] BY <1>1, <1>2, <2>1
    <3>2. PICK r : r = release[c] OBVIOUS
    <3>3. IsRelease(r, p, "canary")' BY <1>1, <1>3, <2>1, <3>2 DEF IsRelease
    <3> QED BY <3>1, <3>2, <3>3 DEF RunStands
  <2>2. CASE p # proposal[c] BY <1>1, <1>2, <2>2
  <2> QED BY <2>1, <2>2
<1> QED BY <1>1, <1>2, <1>4, KeepsPromoting DEF Promoting, CanaryOpen

LEMMA RunCanaryKeeps ==
  ASSUME ReleaseInv, NEW c \in Commands, RunCanary(c)
  PROVE  ReleaseInv'
<1>1. PICK s \in {"passed", "refused"} : Goto(c, s) BY DEF RunCanary
<1>2. pc[c] = "canary" /\ UNCHANGED <<revisions, releases, activeRevision, runs, frame>>
  BY DEF RunCanary, store, At
<1> QED BY <1>1, <1>2, KeepsPromoting DEF ReleaseInv, ReleaseTypes, Promoting, CanaryOpen

LEMMA StartActivationKeeps ==
  ASSUME ReleaseInv, NEW c \in Commands, StartActivation(c)
  PROVE  ReleaseInv'
<1>1. /\ pc[c] = "passed" /\ Goto(c, "activating")
      /\ UNCHANGED <<revisions, releases, activeRevision, runs, frame>>
  BY DEF StartActivation, store, At
<1> QED BY <1>1, KeepsPromoting DEF ReleaseInv, ReleaseTypes, Promoting, CanaryOpen

LEMMA FailedRunKeeps ==
  ASSUME ReleaseInv, NEW c \in Commands, SaveFailedRun(c)
  PROVE  ReleaseInv'
<1>1. /\ pc[c] = "failing" /\ Return(c)
      /\ UNCHANGED <<revisions, releases, activeRevision>>
      /\ runs' = [runs EXCEPT ![proposal[c]] = [state |-> "failed", release |-> 0]]
  BY DEF SaveFailedRun, SaveRun, At
<1>2. DOMAIN runs = Approved /\ DOMAIN runs' = Approved
  BY <1>1 DEF ReleaseInv, ReleaseTypes
<1>3. IsRelease(release[c], proposal[c], "failed")
  BY <1>1 DEF ReleaseInv, CommandHolds
<1>4. ASSUME NEW p \in Approved PROVE runs'[p] = runs[p] \/ RunStands(p)'
  <2>1. CASE p = proposal[c]
    <3>1. runs'[p] = [state |-> "failed", release |-> 0] BY <1>1, <1>2, <2>1
    <3>2. PICK r : r = release[c] OBVIOUS
    <3>3. IsRelease(r, p, "failed")' /\ r \in 1..Len(releases')
      BY <1>1, <1>3, <2>1, <3>2 DEF IsRelease
    <3> QED BY <3>1, <3>3 DEF RunStands
  <2>2. CASE p # proposal[c] BY <1>1, <1>2, <2>2
  <2> QED BY <2>1, <2>2
<1> QED BY <1>1, <1>2, <1>4, Returns

LEMMA PromotedRunKeeps ==
  ASSUME ReleaseInv, NEW c \in Commands, SavePromotedRun(c)
  PROVE  ReleaseInv'
<1>1. /\ pc[c] = "released" /\ Return(c)
      /\ UNCHANGED <<revisions, releases, activeRevision>>
      /\ runs' = [runs EXCEPT ![proposal[c]] = [state |-> "promoted", release |-> release[c]]]
  BY DEF SavePromotedRun, SaveRun, At
<1>2. DOMAIN runs = Approved /\ DOMAIN runs' = Approved
  BY <1>1 DEF ReleaseInv, ReleaseTypes
<1>3. Standing(release[c], proposal[c]) BY <1>1 DEF ReleaseInv, CommandHolds
<1>4. ASSUME NEW p \in Approved PROVE runs'[p] = runs[p] \/ RunStands(p)'
  <2>1. CASE p = proposal[c]
    <3>1. runs'[p] = [state |-> "promoted", release |-> release[c]] BY <1>1, <1>2, <2>1
    <3>2. PICK r : r = release[c] OBVIOUS
    <3>3. Standing(r, p)' BY <1>1, <1>3, <2>1, <3>2 DEF Standing, IsRelease
    <3> QED BY <3>1, <3>2, <3>3 DEF RunStands
  <2>2. CASE p # proposal[c] BY <1>1, <1>2, <2>2
  <2> QED BY <2>1, <2>2
<1> QED BY <1>1, <1>2, <1>4, Returns

LEMMA RolledBackRunKeeps ==
  ASSUME ReleaseInv, NEW c \in Commands, SaveRolledBackRun(c)
  PROVE  ReleaseInv'
<1>1. /\ pc[c] = "recorded" /\ Return(c)
      /\ UNCHANGED <<revisions, releases, activeRevision>>
      /\ runs' = [runs EXCEPT ![proposal[c]] =
                    [state |-> "rolled-back", release |-> release[c]]]
  BY DEF SaveRolledBackRun, SaveRun, At
<1>2. DOMAIN runs = Approved /\ DOMAIN runs' = Approved
  BY <1>1 DEF ReleaseInv, ReleaseTypes
<1>3. IsRelease(release[c], proposal[c], "active") BY <1>1 DEF ReleaseInv, CommandHolds
<1>4. ASSUME NEW p \in Approved PROVE runs'[p] = runs[p] \/ RunStands(p)'
  <2>1. CASE p = proposal[c]
    <3>1. runs'[p] = [state |-> "rolled-back", release |-> release[c]]
      BY <1>1, <1>2, <2>1
    <3>2. PICK r : r = release[c] OBVIOUS
    <3>3. IsRelease(r, p, "active")' BY <1>1, <1>3, <2>1, <3>2 DEF IsRelease
    <3> QED BY <3>1, <3>2, <3>3 DEF RunStands
  <2>2. CASE p # proposal[c] BY <1>1, <1>2, <2>2
  <2> QED BY <2>1, <2>2
<1> QED BY <1>1, <1>2, <1>4, Returns

LEMMA AbandonKeeps ==
  ASSUME ReleaseInv, NEW c \in Commands, Abandon(c)
  PROVE  ReleaseInv'
<1>1. Return(c) /\ UNCHANGED <<revisions, activeRevision, releases, runs>>
  BY DEF Abandon, store
<1> QED BY <1>1, Returns DEF ReleaseInv, ReleaseTypes

LEMMA BeginRollbackKeeps ==
  ASSUME ReleaseInv, NEW c \in Commands, BeginRollback(c)
  PROVE  ReleaseInv'
<1>1. PICK r \in 1..Len(releases) :
        /\ proposal' = [proposal EXCEPT ![c] = releases[r].proposal]
        /\ release' = [release EXCEPT ![c] = r]
        /\ revision' = [revision EXCEPT ![c] = releases[r].previous]
  BY DEF BeginRollback
<1>2. /\ UNCHANGED <<revisions, activeRevision, releases, runs>>
      /\ pc' = [pc EXCEPT ![c] = "undo"]
  BY DEF BeginRollback, store, Goto
<1>3. /\ pc \in [Commands -> Steps] /\ proposal \in [Commands -> Approved \cup {NoProposal}]
      /\ revision \in [Commands -> Nat] /\ release \in [Commands -> Nat]
      /\ Len(releases) \in Nat /\ Len(revisions) \in Nat
  BY DEF ReleaseInv, ReleaseTypes
<1>4. releases[r].proposal \in Approved /\ releases[r].previous \in 1..Len(revisions)
  <2>1. releases[r] \in StoredRelease BY StoresTyped DEF ReleaseInv
  <2>2. releases[r].previous \in 1..Len(revisions) BY DEF ReleaseInv, ReleaseTypes
  <2> QED BY <2>1, <2>2 DEF StoredRelease
<1>5. /\ pc' \in [Commands -> Steps] /\ proposal' \in [Commands -> Approved \cup {NoProposal}]
      /\ revision' \in [Commands -> Nat] /\ release' \in [Commands -> Nat]
      /\ pc'[c] = "undo" /\ proposal'[c] = releases[r].proposal
      /\ revision'[c] = releases[r].previous /\ release'[c] = r
      /\ \A d \in Commands \ {c} :
           /\ pc'[d] = pc[d] /\ proposal'[d] = proposal[d]
           /\ revision'[d] = revision[d] /\ release'[d] = release[d]
  BY <1>1, <1>2, <1>3, <1>4 DEF Steps
<1>6. ReleaseTypes' BY <1>2, <1>4, <1>5 DEF ReleaseInv, ReleaseTypes
<1>7. CommandHolds(c)'
  BY <1>2, <1>4, <1>5 DEF CommandHolds, Promoting, CanaryOpen
<1> QED BY <1>2, <1>5, <1>6, <1>7, QuietStep DEF Promoting, CanaryOpen

LEMMA StartRollbackKeeps ==
  ASSUME ReleaseInv, NEW c \in Commands, StartRollback(c)
  PROVE  ReleaseInv'
<1>1. /\ pc[c] = "undo" /\ Goto(c, "undoing")
      /\ UNCHANGED <<revisions, releases, activeRevision, runs, frame>>
      /\ revisions[activeRevision].parent = revision[c]
  BY DEF StartRollback, store, At
<1>2. /\ ReleaseTypes' /\ pc'[c] = "undoing"
      /\ proposal'[c] = proposal[c] /\ revision'[c] = revision[c]
      /\ release'[c] = release[c]
      /\ \A d \in Commands \ {c} :
           /\ pc'[d] = pc[d] /\ proposal'[d] = proposal[d]
           /\ revision'[d] = revision[d] /\ release'[d] = release[d]
  BY <1>1, GoesOn DEF ReleaseInv, ReleaseTypes, Steps
<1>3. /\ release[c] \in 1..Len(releases)
      /\ releases[release[c]].proposal = proposal[c]
      /\ revision[c] \in 1..Len(revisions)
  BY <1>1 DEF ReleaseInv, CommandHolds
<1>4. PICK i : i = revision[c] OBVIOUS
<1>5. AllCanaried(i)
  <2>1. activeRevision \in 1..Len(revisions) /\ Len(revisions) \in Nat
    BY DEF ReleaseInv, ReleaseTypes
  <2>2. revisions[activeRevision].parent = i /\ i # 0 BY <1>1, <1>3, <1>4, <2>1
  <2>3. AllCanaried(revisions[activeRevision].parent)
    BY <2>1, <2>2 DEF ReleaseInv, AncestorsInv
  <2> QED BY <2>2, <2>3
<1>6. Grows(c)
  BY <1>1, <1>2 DEF Grows, Promoting, CanaryOpen, ReleaseInv, ReleaseTypes
<1>7. AllCanaried(i)' BY <1>2, <1>3, <1>4, <1>5, <1>6, StayCanaried DEF ReleaseInv
<1>8. AllCanaried(revision[c])' BY <1>2, <1>4, <1>7
<1>9. CommandHolds(c)'
  BY <1>1, <1>2, <1>3, <1>8 DEF CommandHolds, Promoting, CanaryOpen
<1> QED BY <1>1, <1>2, <1>9, QuietStep DEF Promoting, CanaryOpen

\* What the active revision becomes is a revision whose candidates are canaried.
LEMMA Activates ==
  ASSUME ReleaseInv, NEW c \in Commands, NEW s \in Steps, Goto(c, s),
         pc[c] # "idle", s \in Promoting => pc[c] \in Promoting /\ s \notin CanaryOpen,
         UNCHANGED <<revisions, releases, runs, frame>>,
         activeRevision' = revision[c], revision[c] \in 1..Len(revisions),
         AllCanaried(revision[c]), CommandHolds(c)'
  PROVE  ReleaseInv'
<1>1. /\ pc' = [pc EXCEPT ![c] = s] /\ UNCHANGED <<proposal, by, revision, release>>
      /\ pc \in [Commands -> Steps]
  BY DEF Goto, frame, ReleaseInv, ReleaseTypes
<1>2. /\ pc' \in [Commands -> Steps] /\ pc'[c] = s
      /\ \A d \in Commands \ {c} : pc'[d] = pc[d]
  BY <1>1
<1>3. ReleaseTypes' BY <1>1, <1>2 DEF ReleaseInv, ReleaseTypes
<1>4. Grows(c) BY <1>1, <1>2 DEF Grows, ReleaseInv, ReleaseTypes
<1>5. PICK i : i = revision[c] OBVIOUS
<1>6. AllCanaried(i)' BY <1>3, <1>4, <1>5, StayCanaried DEF ReleaseInv
<1>7. AllCanaried(activeRevision)' BY <1>5, <1>6
<1>8. \A j \in 1..Len(revisions') :
        j > Len(revisions) => revisions'[j].parent = activeRevision
  BY DEF ReleaseInv, ReleaseTypes
<1> QED BY <1>3, <1>4, <1>7, <1>8, Onward

LEMMA CommitKeeps ==
  ASSUME ReleaseInv, NEW c \in Commands, Commit(c)
  PROVE  ReleaseInv'
<1>1. /\ pc[c] = "activating" /\ Goto(c, "activated")
      /\ UNCHANGED <<revisions, releases, runs, frame>> /\ activeRevision' = revision[c]
  BY DEF Commit, At
<1>2. pc'[c] = "activated" /\ UNCHANGED <<proposal, revision, release>>
  BY <1>1 DEF Goto, frame, ReleaseInv, ReleaseTypes
<1>3. /\ StagedOver(revision[c], proposal[c])
      /\ IsRelease(release[c], proposal[c], "canary")
      /\ releases[release[c]].target = proposal[c]
      /\ releases[release[c]].revision = revision[c]
      /\ ~FailedAt(release[c])
  BY <1>1 DEF ReleaseInv, CommandHolds, Promoting, CanaryOpen
<1>4. Canaried(proposal[c])
  <2>1. \A d \in Commands : pc[d] \in CanaryOpen => release[d] # release[c]
    BY <1>1 DEF ReleaseInv, ApartInv, Promoting, CanaryOpen
  <2>2. release[c] \in 1..Len(releases) BY <1>3 DEF IsRelease
  <2> QED BY <1>3, <2>1, <2>2 DEF Canaried
<1>5. AllCanaried(revision[c])
  <2> DEFINE j == revision[c]
             k == revisions[revision[c]].parent
  <2>1. j \in 1..Len(revisions) /\ k \in 1..Len(revisions)
        /\ revisions[j].targets = [revisions[k].targets EXCEPT ![TargetOf[proposal[c]]] = proposal[c]]
    BY <1>3 DEF StagedOver
  <2>2. AllCanaried(k)
    <3>1. k # 0 /\ Len(revisions) \in Nat BY <2>1 DEF ReleaseInv, ReleaseTypes
    <3> QED BY <2>1, <3>1 DEF ReleaseInv, AncestorsInv
  <2>3. DOMAIN revisions[k].targets = Targets
    <3>1. revisions[k] \in StoredRevision BY <2>1, StoresTyped DEF ReleaseInv
    <3> QED BY <3>1 DEF StoredRevision
  <2> HIDE DEF k, j
  <2>4. ASSUME NEW t \in Targets, revisions[j].targets[t] # Original
        PROVE  Canaried(revisions[j].targets[t])
    <3>1. CASE revisions[j].targets[t] = proposal[c] BY <3>1, <1>4
    <3>2. CASE revisions[j].targets[t] = revisions[k].targets[t]
      BY <3>2, <2>2, <2>4 DEF AllCanaried
    <3> QED BY <3>1, <3>2, <2>1, <2>3
  <2>5. AllCanaried(j) BY <2>4 DEF AllCanaried
  <2> QED BY <2>5 DEF j
<1>6. revision[c] \in 1..Len(revisions) BY <1>3 DEF StagedOver
<1>7. StagedOver(revision[c], proposal[c])' BY <1>1, <1>2, <1>3 DEF StagedOver
<1>8. /\ IsRelease(release[c], proposal[c], "canary")'
      /\ releases'[release'[c]].target = proposal'[c]
      /\ releases'[release'[c]].revision = revision'[c]
      /\ ~FailedAt(release[c])'
  BY <1>1, <1>2, <1>3 DEF IsRelease, FailedAt
<1>9. CommandHolds(c)' BY <1>2, <1>7, <1>8 DEF CommandHolds, Promoting, CanaryOpen
<1> QED BY <1>1, <1>5, <1>6, <1>9, Activates DEF Steps, Promoting, CanaryOpen

LEMMA CommitRollbackKeeps ==
  ASSUME ReleaseInv, NEW c \in Commands, CommitRollback(c)
  PROVE  ReleaseInv'
<1>1. /\ pc[c] = "undoing" /\ Goto(c, "undone")
      /\ UNCHANGED <<revisions, releases, runs, frame>> /\ activeRevision' = revision[c]
  BY DEF CommitRollback, At
<1>2. pc'[c] = "undone" /\ UNCHANGED <<proposal, revision, release>>
  BY <1>1 DEF Goto, frame, ReleaseInv, ReleaseTypes
<1>3. /\ release[c] \in 1..Len(releases)
      /\ releases[release[c]].proposal = proposal[c]
      /\ revision[c] \in 1..Len(revisions)
      /\ AllCanaried(revision[c])
  BY <1>1 DEF ReleaseInv, CommandHolds
<1>4. CommandHolds(c)' BY <1>1, <1>2, <1>3 DEF CommandHolds, Promoting, CanaryOpen
<1> QED BY <1>1, <1>3, <1>4, Activates DEF Steps, Promoting, CanaryOpen

---------------------------------------------------------------------------
(* Releases: steps that add to the stores *)

\* Staging p over the active revision adds at most that revision.
LEMMA StageAdds ==
  ASSUME ReleaseTypes, NEW p \in Approved, Stage(Staged(p))
  PROVE  /\ revisions' \in Seq(StoredRevision) /\ Len(revisions) <= Len(revisions')
         /\ \A i \in 1..Len(revisions) : revisions'[i] = revisions[i]
         /\ \A i \in 1..Len(revisions') :
              i > Len(revisions) => revisions'[i] = Staged(p)
         /\ Staged(p) \in StoredRevision
<1>1. revisions \in Seq(StoredRevision) /\ activeRevision \in 1..Len(revisions)
      /\ Len(revisions) \in Nat
  BY DEF ReleaseTypes
<1>2. revisions[activeRevision] \in StoredRevision BY <1>1, StoresTyped
<1>3. Staged(p) \in StoredRevision
  <2>1. p \in Contents BY DEF Contents
  <2>2. [revisions[activeRevision].targets EXCEPT ![TargetOf[p]] = p]
          \in [Targets -> Contents]
    BY <1>2, <2>1 DEF StoredRevision
  <2>3. activeRevision \in Nat BY <1>1
  <2> QED BY <2>2, <2>3 DEF Staged, StoredRevision
<1>4. PICK x : x = Staged(p) OBVIOUS
<1>5. revisions' = revisions \/ revisions' = Append(revisions, x)
  BY <1>4 DEF Stage
<1>6. CASE revisions' = revisions BY <1>1, <1>3, <1>6
<1>7. CASE revisions' = Append(revisions, x)
  <2>1. Len(revisions') = Len(revisions) + 1 /\ revisions'[Len(revisions) + 1] = x
        /\ \A i \in 1..Len(revisions) : revisions'[i] = revisions[i]
    BY <1>1, <1>7
  <2>2. revisions' \in Seq(StoredRevision) BY <1>1, <1>3, <1>4, <1>7
  <2> QED BY <1>1, <1>3, <1>4, <2>1, <2>2
<1> QED BY <1>5, <1>6, <1>7

LEMMA PrepareKeeps ==
  ASSUME ReleaseInv, NEW c \in Commands, Prepare(c)
  PROVE  ReleaseInv'
<1>1. PICK i \in 1..Len(revisions') :
        /\ revisions'[i] = Staged(proposal[c])
        /\ revision' = [revision EXCEPT ![c] = i]
  BY DEF Prepare
<1>2. /\ pc[c] = "intent" /\ pc' = [pc EXCEPT ![c] = "prepared"]
      /\ Stage(Staged(proposal[c]))
      /\ UNCHANGED <<activeRevision, releases, runs, proposal, release>>
  BY DEF Prepare, At, Goto
<1>3. proposal[c] \in Approved BY <1>2 DEF ReleaseInv, ReleaseTypes
<1> DEFINE p == proposal[c]
<1>4. /\ revisions' \in Seq(StoredRevision) /\ Len(revisions) <= Len(revisions')
      /\ \A j \in 1..Len(revisions) : revisions'[j] = revisions[j]
      /\ \A j \in 1..Len(revisions') :
           j > Len(revisions) => revisions'[j] = Staged(p)
  BY <1>2, <1>3, StageAdds DEF ReleaseInv
<1>5. /\ Len(revisions) \in Nat /\ Len(revisions') \in Nat
      /\ activeRevision \in 1..Len(revisions) /\ activeRevision \in 1..Len(revisions')
      /\ revisions'[activeRevision] = revisions[activeRevision]
      /\ pc \in [Commands -> Steps] /\ revision \in [Commands -> Nat]
  BY <1>4 DEF ReleaseInv, ReleaseTypes
<1>6. /\ pc' \in [Commands -> Steps] /\ revision' \in [Commands -> Nat]
      /\ pc'[c] = "prepared" /\ revision'[c] = i
      /\ \A d \in Commands \ {c} : pc'[d] = pc[d] /\ revision'[d] = revision[d]
  BY <1>1, <1>2, <1>5 DEF Steps
<1>7. ReleaseTypes'
  <2>1. \A j \in 1..Len(releases) : /\ releases[j].revision \in 1..Len(revisions')
                                    /\ releases[j].previous \in 1..Len(revisions')
    BY <1>4, <1>5 DEF ReleaseInv, ReleaseTypes
  <2> QED BY <1>2, <1>3, <1>4, <1>5, <1>6, <2>1 DEF ReleaseInv, ReleaseTypes
<1>8. Grows(c)
  BY <1>2, <1>4, <1>5, <1>6 DEF Grows, Promoting, CanaryOpen, ReleaseInv, ReleaseTypes
<1>9. /\ revisions'[i].parent = activeRevision
      /\ revisions'[i].targets = [revisions'[activeRevision].targets
                                    EXCEPT ![TargetOf[p]] = p]
  BY <1>1, <1>5 DEF Staged
<1>10. StagedOver(revision[c], proposal[c])'
  BY <1>2, <1>5, <1>6, <1>9 DEF StagedOver
<1>11. CommandHolds(c)' BY <1>6, <1>10 DEF CommandHolds, Promoting, CanaryOpen
<1>12. AllCanaried(activeRevision)'
  <2>1. PICK a : a = activeRevision OBVIOUS
  <2>2. AllCanaried(a)' BY <2>1, <1>5, <1>7, <1>8, StayCanaried DEF ReleaseInv
  <2> QED BY <1>2, <2>1, <2>2
<1>13. \A j \in 1..Len(revisions') :
         j > Len(revisions) => revisions'[j].parent = activeRevision
  BY <1>4 DEF Staged
<1> QED BY <1>2, <1>7, <1>8, <1>11, <1>12, <1>13, Onward

LEMMA ActivationRefusedKeeps ==
  ASSUME ReleaseInv, NEW c \in Commands, ActivationRefused(c)
  PROVE  ReleaseInv'
<1>1. /\ pc' = [pc EXCEPT ![c] = "idle"]
      /\ proposal' = [proposal EXCEPT ![c] = NoProposal]
      /\ revision' = [revision EXCEPT ![c] = 0]
      /\ release' = [release EXCEPT ![c] = 0]
  BY DEF ActivationRefused, Return, Goto
<1>2. /\ pc[c] = "passed" /\ Stage(Staged(proposal[c]))
      /\ UNCHANGED <<activeRevision, releases, runs>>
  BY DEF ActivationRefused, At
<1>3. proposal[c] \in Approved BY <1>2 DEF ReleaseInv, ReleaseTypes
<1>4. /\ revisions' \in Seq(StoredRevision) /\ Len(revisions) <= Len(revisions')
      /\ \A j \in 1..Len(revisions) : revisions'[j] = revisions[j]
      /\ \A j \in 1..Len(revisions') :
           j > Len(revisions) => revisions'[j] = Staged(proposal[c])
  BY <1>2, <1>3, StageAdds DEF ReleaseInv
<1>5. /\ Len(revisions) \in Nat /\ Len(revisions') \in Nat
      /\ activeRevision \in 1..Len(revisions) /\ activeRevision \in 1..Len(revisions')
      /\ pc \in [Commands -> Steps] /\ proposal \in [Commands -> Approved \cup {NoProposal}]
      /\ revision \in [Commands -> Nat] /\ release \in [Commands -> Nat]
  BY <1>4 DEF ReleaseInv, ReleaseTypes
<1>6. /\ pc' \in [Commands -> Steps] /\ proposal' \in [Commands -> Approved \cup {NoProposal}]
      /\ revision' \in [Commands -> Nat] /\ release' \in [Commands -> Nat]
      /\ pc'[c] = "idle"
      /\ \A d \in Commands \ {c} :
              /\ pc'[d] = pc[d] /\ proposal'[d] = proposal[d]
              /\ revision'[d] = revision[d] /\ release'[d] = release[d]
  BY <1>1, <1>5 DEF Steps
<1>7. ReleaseTypes'
  <2>1. \A j \in 1..Len(releases) : /\ releases[j].revision \in 1..Len(revisions')
                                    /\ releases[j].previous \in 1..Len(revisions')
    BY <1>4, <1>5 DEF ReleaseInv, ReleaseTypes
  <2>2. \A d \in Commands : pc'[d] # "idle" => proposal'[d] \in Approved
    BY <1>6 DEF ReleaseInv, ReleaseTypes
  <2>3. /\ releases' \in Seq(StoredRelease) /\ DOMAIN runs' = Approved
        /\ \A j \in 1..Len(releases') : /\ releases'[j].revision \in 1..Len(revisions')
                                       /\ releases'[j].previous \in 1..Len(revisions')
                                       /\ releases'[j].canary <= Len(releases')
    BY <1>2, <2>1 DEF ReleaseInv, ReleaseTypes
  <2> QED BY <1>2, <1>4, <1>5, <1>6, <2>2, <2>3 DEF ReleaseTypes
<1>8. Grows(c)
  BY <1>2, <1>4, <1>5, <1>6 DEF Grows, Promoting, CanaryOpen, ReleaseInv, ReleaseTypes
<1>9. CommandHolds(c)' BY <1>6 DEF CommandHolds, Promoting, CanaryOpen
<1>10. AllCanaried(activeRevision)'
  <2>1. PICK a : a = activeRevision OBVIOUS
  <2>2. AllCanaried(a)' BY <2>1, <1>5, <1>7, <1>8, StayCanaried DEF ReleaseInv
  <2> QED BY <1>2, <2>1, <2>2
<1>11. \A j \in 1..Len(revisions') :
         j > Len(revisions) => revisions'[j].parent = activeRevision
  BY <1>4 DEF Staged
<1> QED BY <1>2, <1>7, <1>8, <1>9, <1>10, <1>11, Onward

\* A release of c's is added to the store, and c holds it.
LEMMA SaveAdds ==
  ASSUME ReleaseInv, NEW c \in Commands, NEW x \in StoredRelease,
         x.revision \in 1..Len(revisions), x.previous \in 1..Len(revisions),
         x.canary <= Len(releases), SaveRelease(c, x), pc[c] # "idle",
         x.status = "failed" => pc[c] = "refused" /\ x.canary = release[c],
         NEW s \in Steps, Goto(c, s),
         UNCHANGED <<revisions, activeRevision, runs, proposal, by, revision>>
  PROVE  /\ ReleaseTypes' /\ Grows(c) /\ AllCanaried(activeRevision)'
         /\ pc'[c] = s /\ release'[c] = Len(releases) + 1
         /\ releases'[Len(releases) + 1] = x
         /\ Len(releases') = Len(releases) + 1 /\ Len(releases) \in Nat
         /\ CommandHolds(c)' => ReleaseInv'
<1>1. /\ releases' = Append(releases, x) /\ pc' = [pc EXCEPT ![c] = s]
      /\ release' = [release EXCEPT ![c] = Len(releases) + 1]
  BY DEF SaveRelease, Goto
<1>2. /\ releases \in Seq(StoredRelease) /\ Len(releases) \in Nat /\ Len(revisions) \in Nat
      /\ pc \in [Commands -> Steps] /\ release \in [Commands -> Nat]
  BY DEF ReleaseInv, ReleaseTypes
<1>3. /\ pc' \in [Commands -> Steps] /\ release' \in [Commands -> Nat]
      /\ pc'[c] = s /\ release'[c] = Len(releases) + 1
      /\ \A d \in Commands \ {c} : pc'[d] = pc[d] /\ release'[d] = release[d]
  BY <1>1, <1>2
<1>4. /\ releases' \in Seq(StoredRelease) /\ Len(releases') = Len(releases) + 1
      /\ releases'[Len(releases) + 1] = x
      /\ \A i \in 1..Len(releases) : releases'[i] = releases[i]
  BY <1>1, <1>2
<1>5. ReleaseTypes'
  <2>1. ASSUME NEW i \in 1..Len(releases')
        PROVE  /\ releases'[i].revision \in 1..Len(revisions)
               /\ releases'[i].previous \in 1..Len(revisions)
               /\ releases'[i].canary <= Len(releases')
    <3>1. CASE i \in 1..Len(releases)
      <4>1. releases'[i] = releases[i] /\ releases[i] \in StoredRelease
        BY <3>1, <1>4, StoresTyped DEF ReleaseInv
      <4>2. releases[i].canary \in Nat BY <4>1 DEF StoredRelease
      <4> QED BY <3>1, <4>1, <4>2, <1>2, <1>4 DEF ReleaseInv, ReleaseTypes
    <3>2. CASE i = Len(releases) + 1
      <4>1. x.canary \in Nat BY DEF StoredRelease
      <4> QED BY <3>2, <4>1, <1>2, <1>4
    <3> QED BY <3>1, <3>2, <1>2, <1>4
  <2> QED BY <1>3, <1>4, <2>1 DEF ReleaseInv, ReleaseTypes
<1>6. Grows(c) BY <1>2, <1>3, <1>4 DEF Grows
<1>7. AllCanaried(activeRevision)'
  <2>1. PICK a : a = activeRevision OBVIOUS
  <2>2. AllCanaried(a)'
    BY <2>1, <1>5, <1>6, StayCanaried DEF ReleaseInv, ReleaseTypes
  <2> QED BY <2>1, <2>2
<1>8. \A j \in 1..Len(revisions') :
        j > Len(revisions) => revisions'[j].parent = activeRevision
  BY <1>2
<1> QED BY <1>2, <1>3, <1>4, <1>5, <1>6, <1>7, <1>8, Onward

LEMMA CanaryReleaseKeeps ==
  ASSUME ReleaseInv, NEW c \in Commands, SaveCanaryRelease(c)
  PROVE  ReleaseInv'
<1>1. /\ pc[c] = "prepared" /\ SaveRelease(c, CanaryRelease(c)) /\ Goto(c, "saved")
      /\ UNCHANGED <<revisions, activeRevision, runs, proposal, by, revision>>
  BY DEF SaveCanaryRelease, At
<1>2. proposal[c] \in Approved /\ StagedOver(revision[c], proposal[c])
  BY <1>1 DEF ReleaseInv, ReleaseTypes, CommandHolds
<1>3. Len(revisions) \in Nat /\ Len(releases) \in Nat BY StoreLengths DEF ReleaseInv
<1> DEFINE x == CanaryRelease(c)
<1>4. /\ x.proposal = proposal[c] /\ x.status = "canary" /\ x.revision = revision[c]
      /\ x.previous = revisions[revision[c]].parent /\ x.target = proposal[c]
      /\ x.canary = 0
  BY DEF CanaryRelease
<1>5. x \in StoredRelease
  <2>1. BaseOf[proposal[c]] \in Contents /\ proposal[c] \in Contents
    BY <1>2, ReleaseAssumption DEF Contents
  <2>2. revision[c] \in Nat /\ revisions[revision[c]].parent \in Nat
    BY <1>2, <1>3 DEF StagedOver
  <2> QED BY <1>2, <2>1, <2>2 DEF CanaryRelease, StoredRelease
<1>6. x.revision \in 1..Len(revisions) /\ x.previous \in 1..Len(revisions)
  BY <1>2, <1>4 DEF StagedOver
<1>7. x.canary <= Len(releases) /\ SaveRelease(c, x) BY <1>1, <1>3, <1>4
<1>8. x.status # "failed" BY <1>4
<1> HIDE DEF x
<1>9. /\ ReleaseTypes' /\ Grows(c) /\ pc'[c] = "saved"
      /\ release'[c] = Len(releases) + 1 /\ releases'[Len(releases) + 1] = x
      /\ Len(releases') = Len(releases) + 1
      /\ CommandHolds(c)' => ReleaseInv'
  BY <1>1, <1>5, <1>6, <1>7, <1>8, SaveAdds DEF Steps
<1>10. StagedOver(revision[c], proposal[c])' BY <1>1, <1>2 DEF StagedOver
<1>11. IsRelease(release[c], proposal[c], "canary")'
  BY <1>1, <1>3, <1>4, <1>9 DEF IsRelease
<1>12. releases'[release'[c]].target = proposal'[c]
       /\ releases'[release'[c]].revision = revision'[c]
  BY <1>1, <1>4, <1>9
<1>13. ~FailedAt(release[c])'
  <2> SUFFICES ASSUME NEW f \in 1..Len(releases'), releases'[f].status = "failed",
                      releases'[f].canary = Len(releases) + 1
               PROVE  FALSE
    BY <1>9 DEF FailedAt
  <2>1. f \in 1..Len(releases) BY <1>3, <1>8, <1>9
  <2>2. releases'[f] = releases[f] /\ releases[f].canary <= Len(releases)
    BY <1>9, <2>1 DEF Grows, ReleaseInv, ReleaseTypes
  <2> QED BY <1>3, <2>2
<1> QED
  BY <1>9, <1>10, <1>11, <1>12, <1>13 DEF CommandHolds, Promoting, CanaryOpen

\* A copy of a release under another status, referring to its canary.
LEMMA Copies ==
  ASSUME NEW r \in StoredRelease, NEW s \in {"failed", "active"}, NEW n \in Nat
  PROVE  LET x == [r EXCEPT !.status = s, !.canary = n]
         IN  /\ x \in StoredRelease /\ x.status = s /\ x.canary = n
             /\ x.proposal = r.proposal /\ x.target = r.target
             /\ x.revision = r.revision /\ x.previous = r.previous
<1> DEFINE y == [r EXCEPT !.status = s]
<1>1. /\ y \in StoredRelease /\ y.status = s
      /\ y.proposal = r.proposal /\ y.target = r.target
      /\ y.revision = r.revision /\ y.previous = r.previous
  BY DEF StoredRelease
<1>2. [r EXCEPT !.status = s, !.canary = n] = [y EXCEPT !.canary = n] OBVIOUS
<1> HIDE DEF y
<1>3. /\ [y EXCEPT !.canary = n] \in StoredRelease
      /\ [y EXCEPT !.canary = n].status = y.status
      /\ [y EXCEPT !.canary = n].canary = n
      /\ [y EXCEPT !.canary = n].proposal = y.proposal
      /\ [y EXCEPT !.canary = n].target = y.target
      /\ [y EXCEPT !.canary = n].revision = y.revision
      /\ [y EXCEPT !.canary = n].previous = y.previous
  BY <1>1 DEF StoredRelease
<1> QED BY <1>1, <1>2, <1>3

LEMMA FailedReleaseKeeps ==
  ASSUME ReleaseInv, NEW c \in Commands, SaveFailedRelease(c)
  PROVE  ReleaseInv'
<1> DEFINE r == releases[release[c]]
           x == [r EXCEPT !.status = "failed", !.canary = release[c]]
<1>1. /\ pc[c] = "refused" /\ SaveRelease(c, x) /\ Goto(c, "failing")
      /\ UNCHANGED <<revisions, activeRevision, runs, proposal, by, revision>>
  BY DEF SaveFailedRelease, At
<1>2. IsRelease(release[c], proposal[c], "canary") /\ r.revision = revision[c]
  BY <1>1 DEF ReleaseInv, CommandHolds, Promoting, CanaryOpen
<1>3. /\ Len(releases) \in Nat /\ release[c] \in 1..Len(releases) /\ release[c] \in Nat
      /\ release[c] <= Len(releases)
  BY <1>2, StoreLengths DEF ReleaseInv, IsRelease
<1>4. r \in StoredRelease BY <1>3, StoresTyped DEF ReleaseInv
<1>5. r.revision \in 1..Len(revisions) /\ r.previous \in 1..Len(revisions)
  BY <1>3 DEF ReleaseInv, ReleaseTypes
<1>6. /\ x \in StoredRelease /\ x.status = "failed" /\ x.canary = release[c]
      /\ x.proposal = r.proposal /\ x.target = r.target
      /\ x.revision = r.revision /\ x.previous = r.previous
  BY <1>3, <1>4, Copies
<1>7. r.proposal = proposal[c] BY <1>2 DEF IsRelease
<1> HIDE DEF r, x
<1>8. /\ pc'[c] = "failing" /\ release'[c] = Len(releases) + 1
      /\ releases'[Len(releases) + 1] = x /\ Len(releases') = Len(releases) + 1
      /\ CommandHolds(c)' => ReleaseInv'
  BY <1>1, <1>3, <1>5, <1>6, SaveAdds DEF Steps
<1>9. IsRelease(release[c], proposal[c], "failed")'
  BY <1>1, <1>3, <1>6, <1>7, <1>8 DEF IsRelease
<1> QED BY <1>8, <1>9 DEF CommandHolds, Promoting, CanaryOpen

LEMMA ActiveReleaseKeeps ==
  ASSUME ReleaseInv, NEW c \in Commands, SaveActiveRelease(c)
  PROVE  ReleaseInv'
<1> DEFINE r == releases[release[c]]
           x == [r EXCEPT !.status = "active", !.canary = release[c]]
<1>1. /\ pc[c] = "activated" /\ SaveRelease(c, x) /\ Goto(c, "released")
      /\ UNCHANGED <<revisions, activeRevision, runs, proposal, by, revision>>
  BY DEF SaveActiveRelease, At
<1>2. /\ IsRelease(release[c], proposal[c], "canary") /\ r.revision = revision[c]
      /\ r.target = proposal[c] /\ StagedOver(revision[c], proposal[c])
  BY <1>1 DEF ReleaseInv, CommandHolds, Promoting, CanaryOpen
<1>3. /\ Len(releases) \in Nat /\ release[c] \in 1..Len(releases) /\ release[c] \in Nat
      /\ release[c] <= Len(releases)
  BY <1>2, StoreLengths DEF ReleaseInv, IsRelease
<1>4. r \in StoredRelease BY <1>3, StoresTyped DEF ReleaseInv
<1>5. r.revision \in 1..Len(revisions) /\ r.previous \in 1..Len(revisions)
  BY <1>3 DEF ReleaseInv, ReleaseTypes
<1>6. /\ x \in StoredRelease /\ x.status = "active" /\ x.canary = release[c]
      /\ x.proposal = r.proposal /\ x.target = r.target
      /\ x.revision = r.revision /\ x.previous = r.previous
  BY <1>3, <1>4, Copies
<1>7. r.proposal = proposal[c] /\ proposal[c] \in Approved
  BY <1>1, <1>2 DEF IsRelease, ReleaseInv, ReleaseTypes
<1> HIDE DEF r, x
<1>8. /\ ReleaseTypes' /\ Grows(c)
      /\ pc'[c] = "released" /\ release'[c] = Len(releases) + 1
      /\ releases'[Len(releases) + 1] = x /\ Len(releases') = Len(releases) + 1
      /\ CommandHolds(c)' => ReleaseInv'
  BY <1>1, <1>3, <1>5, <1>6, SaveAdds DEF Steps
<1>9. PICK i : i = revision[c] OBVIOUS
<1>10. revisions[i].targets[TargetOf[proposal[c]]] = proposal[c]
  <2> DEFINE k == revisions[i].parent
  <2>1. k \in 1..Len(revisions)
        /\ revisions[i].targets = [revisions[k].targets EXCEPT
                                     ![TargetOf[proposal[c]]] = proposal[c]]
    BY <1>2, <1>9 DEF StagedOver
  <2>2. revisions[k] \in StoredRevision BY <2>1, StoresTyped DEF ReleaseInv
  <2>3. TargetOf[proposal[c]] \in DOMAIN revisions[k].targets
    BY <1>7, <2>2, ReleaseAssumption DEF StoredRevision
  <2> QED BY <2>1, <2>3
<1>11. PICK n : n = release[c] OBVIOUS
<1>12. IsRelease(n, proposal[c], "canary")'
  <2>1. PICK p : p = proposal[c] OBVIOUS
  <2>2. IsRelease(n, p, "canary")' BY <1>2, <1>8, <1>11, <2>1, StaysReleased DEF ReleaseInv
  <2> QED BY <1>1, <2>1, <2>2
<1>13. releases'[release'[c]] = x BY <1>8
<1>14. IsRelease(release[c], proposal[c], "active")'
  BY <1>1, <1>3, <1>6, <1>7, <1>8 DEF IsRelease
<1>15. /\ x.target = proposal[c] /\ x.revision = i /\ x.canary = n
       /\ i \in 1..Len(revisions)
  BY <1>2, <1>5, <1>6, <1>9, <1>11
<1>16. IsRelease(releases[release[c]].canary, proposal[c], "canary")'
  BY <1>12, <1>13, <1>15
<1>17. Standing(release[c], proposal[c])'
  BY <1>1, <1>10, <1>13, <1>14, <1>15, <1>16 DEF Standing
<1> QED BY <1>8, <1>17 DEF CommandHolds, Promoting, CanaryOpen

\* The release that undoes r, field by field.
LEMMA Undoes ==
  ASSUME NEW r \in StoredRelease, NEW n \in Nat
  PROVE  LET x == RollbackRelease(r, n)
         IN  /\ x \in StoredRelease /\ x.status = "active" /\ x.proposal = r.proposal
             /\ x.revision = n /\ x.previous = r.revision /\ x.canary = r.canary
<1> DEFINE u == [r EXCEPT !.status = "active"]
           v == [u EXCEPT !.revision = n]
           w == [v EXCEPT !.previous = r.revision]
           y == [w EXCEPT !.target = r.previousTarget]
           z == [y EXCEPT !.previousTarget = r.target]
<1>1. RollbackRelease(r, n) = z BY DEF RollbackRelease
<1>2. /\ r.revision \in Nat /\ r.target \in Contents /\ r.previousTarget \in Contents
  BY DEF StoredRelease
<1>3. u \in StoredRelease /\ u.status = "active" /\ u.proposal = r.proposal
      /\ u.canary = r.canary
  BY DEF StoredRelease
<1> HIDE DEF u
<1>4. v \in StoredRelease /\ v.status = u.status /\ v.proposal = u.proposal
      /\ v.canary = u.canary /\ v.revision = n
  BY <1>3 DEF StoredRelease
<1> HIDE DEF v
<1>5. w \in StoredRelease /\ w.status = v.status /\ w.proposal = v.proposal
      /\ w.canary = v.canary /\ w.revision = v.revision /\ w.previous = r.revision
  BY <1>2, <1>4 DEF StoredRelease
<1> HIDE DEF w
<1>6. y \in StoredRelease /\ y.status = w.status /\ y.proposal = w.proposal
      /\ y.canary = w.canary /\ y.revision = w.revision /\ y.previous = w.previous
  BY <1>2, <1>5 DEF StoredRelease
<1> HIDE DEF y
<1>7. z \in StoredRelease /\ z.status = y.status /\ z.proposal = y.proposal
      /\ z.canary = y.canary /\ z.revision = y.revision /\ z.previous = y.previous
  BY <1>2, <1>6 DEF StoredRelease
<1> HIDE DEF z
<1> QED BY <1>1, <1>3, <1>4, <1>5, <1>6, <1>7

LEMMA RollbackReleaseKeeps ==
  ASSUME ReleaseInv, NEW c \in Commands, SaveRollbackRelease(c)
  PROVE  ReleaseInv'
<1> DEFINE r == releases[release[c]]
           x == RollbackRelease(r, revision[c])
<1>1. /\ pc[c] = "undone" /\ SaveRelease(c, x) /\ Goto(c, "recorded")
      /\ UNCHANGED <<revisions, activeRevision, runs, proposal, by, revision>>
  BY DEF SaveRollbackRelease, At
<1>2. /\ release[c] \in 1..Len(releases) /\ r.proposal = proposal[c]
      /\ revision[c] \in 1..Len(revisions)
  BY <1>1 DEF ReleaseInv, CommandHolds
<1>3. /\ Len(releases) \in Nat /\ Len(revisions) \in Nat
  BY StoreLengths DEF ReleaseInv
<1>4. r \in StoredRelease BY <1>2, StoresTyped DEF ReleaseInv
<1>5. /\ r.revision \in 1..Len(revisions) /\ r.previous \in 1..Len(revisions)
      /\ r.canary <= Len(releases)
  BY <1>2 DEF ReleaseInv, ReleaseTypes
<1> HIDE DEF r
<1>6. revision[c] \in Nat BY <1>2, <1>3
<1>7. /\ x \in StoredRelease /\ x.status = "active" /\ x.proposal = r.proposal
      /\ x.revision = revision[c] /\ x.previous = r.revision /\ x.canary = r.canary
  BY <1>4, <1>6, Undoes
<1> HIDE DEF x
<1>8. /\ pc'[c] = "recorded" /\ release'[c] = Len(releases) + 1
      /\ releases'[Len(releases) + 1] = x /\ Len(releases') = Len(releases) + 1
      /\ CommandHolds(c)' => ReleaseInv'
  BY <1>1, <1>2, <1>5, <1>7, SaveAdds DEF Steps
<1>9. IsRelease(release[c], proposal[c], "active")'
  BY <1>1, <1>2, <1>3, <1>7, <1>8 DEF IsRelease
<1> QED BY <1>8, <1>9 DEF CommandHolds, Promoting, CanaryOpen

---------------------------------------------------------------------------
(* Releases: the results *)

LEMMA ReleaseStarts == ReleaseInit => ReleaseInv
<1> SUFFICES ASSUME ReleaseInit PROVE ReleaseInv OBVIOUS
<1> DEFINE first == [parent |-> 0, targets |-> [t \in Targets |-> Original]]
<1>1. revisions = <<first>> /\ releases = <<>> BY DEF ReleaseInit
<1>2. first.parent = 0 /\ \A t \in Targets : first.targets[t] = Original OBVIOUS
<1>3. first \in StoredRevision
  <2>1. Original \in Contents BY DEF Contents
  <2> QED BY <2>1 DEF StoredRevision
<1> HIDE DEF first
<1>4. /\ Len(revisions) = 1 /\ revisions[1] = first /\ Len(releases) = 0
      /\ revisions \in Seq(StoredRevision) /\ releases \in Seq(StoredRelease)
  BY <1>1, <1>3
<1>5. /\ activeRevision = 1 /\ DOMAIN runs = Approved
      /\ pc = [c \in Commands |-> "idle"]
      /\ proposal = [c \in Commands |-> NoProposal]
      /\ revision = [c \in Commands |-> 0] /\ release = [c \in Commands |-> 0]
      /\ \A p \in Approved : runs[p].state = "scoped"
  BY DEF ReleaseInit
<1>6. \A c \in Commands : pc[c] = "idle" BY <1>5
<1>7. ReleaseTypes
  <2>1. /\ pc \in [Commands -> Steps]
        /\ proposal \in [Commands -> Approved \cup {NoProposal}]
        /\ revision \in [Commands -> Nat] /\ release \in [Commands -> Nat]
    BY <1>5 DEF Steps
  <2> QED BY <2>1, <1>4, <1>5, <1>6 DEF ReleaseTypes
<1>8. AncestorsInv BY <1>2, <1>4 DEF AncestorsInv
<1>9. AllCanaried(activeRevision) BY <1>2, <1>4, <1>5 DEF AllCanaried
<1>10. \A c \in Commands : CommandHolds(c)
  BY <1>6 DEF CommandHolds, Promoting, CanaryOpen
<1>11. ApartInv BY <1>6 DEF ApartInv, Promoting, CanaryOpen
<1>12. \A p \in Approved : RunStands(p) BY <1>5 DEF RunStands
<1> QED BY <1>7, <1>8, <1>9, <1>10, <1>11, <1>12 DEF ReleaseInv

LEMMA ReleaseKeeps == ReleaseInv /\ [ReleaseNext]_releaseVars => ReleaseInv'
<1> SUFFICES ASSUME ReleaseInv, [ReleaseNext]_releaseVars PROVE ReleaseInv' OBVIOUS
<1>1. CASE \E p \in Approved : ReachReview(p) BY <1>1, ReviewKeeps
<1>2. CASE \E c \in Commands : Command(c)
  <2> PICK c \in Commands : Command(c) BY <1>2
  <2> QED
    BY BeginPromoteKeeps, PrepareKeeps, CanaryReleaseKeeps, CanaryRunKeeps,
       RunCanaryKeeps, FailedReleaseKeeps, FailedRunKeeps, StartActivationKeeps,
       ActivationRefusedKeeps, CommitKeeps, ActiveReleaseKeeps, PromotedRunKeeps,
       BeginRollbackKeeps, StartRollbackKeeps, CommitRollbackKeeps,
       RollbackReleaseKeeps, RolledBackRunKeeps, AbandonKeeps
    DEF Command
<1>3. CASE UNCHANGED releaseVars
  <2>1. UNCHANGED <<revisions, activeRevision, releases, runs, pc, proposal, revision, release>>
    BY <1>3 DEF releaseVars, store, frame
  <2>2. ReleaseTypes' /\ ApartInv' BY <2>1 DEF ReleaseInv, ReleaseTypes, ApartInv
  <2>3. AncestorsInv' /\ AllCanaried(activeRevision)'
    BY <2>1 DEF ReleaseInv, AncestorsInv, AllCanaried, Canaried, IsRelease, FailedAt
  <2>4. \A c \in Commands : CommandHolds(c)'
    BY <2>1, SameStores DEF ReleaseInv
  <2>5. \A p \in Approved : RunStands(p)'
    BY <2>1 DEF ReleaseInv, RunStands, Standing, IsRelease
  <2> QED BY <2>2, <2>3, <2>4, <2>5 DEF ReleaseInv
<1> QED BY <1>1, <1>2, <1>3 DEF ReleaseNext

THEOREM ReleaseInvariant == ReleaseSpec => []ReleaseInv
  BY ReleaseStarts, ReleaseKeeps, PTL DEF ReleaseSpec

\* What a run's file says of its release is in the release store, over every
\* overlap and early end of promotions and rollbacks.
THEOREM ReleasesAreBehindRuns == ReleaseSpec => []ReleaseBehindRun
<1>1. ReleaseInv => ReleaseBehindRun
  BY DEF ReleaseInv, RunStands, Standing, ReleaseBehindRun
<1> QED BY <1>1, ReleaseInvariant, PTL

\* A candidate the agent runs on had a canary that did not fail.
THEOREM CanariesComeFirst == ReleaseSpec => []CanariedBeforeActive
<1>1. ReleaseInv => CanariedBeforeActive
  BY DEF ReleaseInv, AllCanaried, Canaried, FailedAt, CanariedBeforeActive, Content
<1> QED BY <1>1, ReleaseInvariant, PTL

---------------------------------------------------------------------------
(* Releases: types and bounds *)

\* The numbers the stores and the commands hold, and who the commands are of.
BoundsInv ==
  /\ Len(revisions) <= MaxRevisions /\ Len(releases) <= MaxReleases
  /\ runs \in [Approved -> ReleaseRun]
  /\ by \in [Commands -> Releasers]
  /\ \A c \in Commands : revision[c] <= Len(revisions) /\ release[c] <= Len(releases)

LEMMA BoundsStart == ReleaseInit => BoundsInv
<1> SUFFICES ASSUME ReleaseInit PROVE BoundsInv OBVIOUS
<1>1. Len(revisions) = 1 /\ Len(releases) = 0 BY DEF ReleaseInit
<1>2. runs \in [Approved -> ReleaseRun]
  <2>1. [state |-> "scoped", release |-> 0] \in ReleaseRun
    BY ReleaseAssumption DEF ReleaseRun
  <2> HIDE DEF ReleaseRun
  <2> QED BY <2>1 DEF ReleaseInit
<1>3. by \in [Commands -> Releasers] BY ReleaseAssumption DEF ReleaseInit
<1>4. \A c \in Commands : revision[c] = 0 /\ release[c] = 0 BY DEF ReleaseInit
<1> QED BY <1>1, <1>2, <1>3, <1>4, ReleaseAssumption DEF BoundsInv

\* What a command does to the stores and to what it holds, one kind of change
\* at a time.
LEMMA StoresChange ==
  ASSUME NEW c \in Commands, Command(c)
  PROVE  /\ \/ revisions' = revisions
            \/ /\ Len(revisions) < MaxRevisions
               /\ revisions' = Append(revisions, Staged(proposal[c]))
         /\ \/ releases' = releases
            \/ /\ Len(releases) < MaxReleases
               /\ \E r : SaveRelease(c, r)
<1>1. \/ revisions' = revisions
      \/ /\ Len(revisions) < MaxRevisions
         /\ revisions' = Append(revisions, Staged(proposal[c]))
  BY DEF Command, BeginPromote, Prepare, SaveCanaryRelease, SaveCanaryRun, RunCanary,
         SaveFailedRelease, SaveFailedRun, StartActivation, ActivationRefused, Commit,
         SaveActiveRelease, SavePromotedRun, BeginRollback, StartRollback, CommitRollback,
         SaveRollbackRelease, SaveRolledBackRun, Abandon, Stage, store
<1>2. \/ releases' = releases
      \/ /\ Len(releases) < MaxReleases
         /\ \E r : SaveRelease(c, r)
  BY DEF Command, BeginPromote, Prepare, SaveCanaryRelease, SaveCanaryRun, RunCanary,
         SaveFailedRelease, SaveFailedRun, StartActivation, ActivationRefused, Commit,
         SaveActiveRelease, SavePromotedRun, BeginRollback, StartRollback, CommitRollback,
         SaveRollbackRelease, SaveRolledBackRun, Abandon, SaveRelease, store
<1> QED BY <1>1, <1>2

LEMMA RunsChange ==
  ASSUME NEW c \in Commands, Command(c)
  PROVE  \/ runs' = runs
         \/ \E s \in {"canary", "promoted", "failed", "rolled-back"}, n \in {0, release[c]} :
              SaveRun(proposal[c], s, n)
  BY DEF Command, BeginPromote, Prepare, SaveCanaryRelease, SaveCanaryRun, RunCanary,
         SaveFailedRelease, SaveFailedRun, StartActivation, ActivationRefused, Commit,
         SaveActiveRelease, SavePromotedRun, BeginRollback, StartRollback, CommitRollback,
         SaveRollbackRelease, SaveRolledBackRun, Abandon, store

LEMMA HeldChange ==
  ASSUME NEW c \in Commands, Command(c)
  PROVE  /\ \/ by' = by
            \/ \E who \in Releasers : by' = [by EXCEPT ![c] = who]
         /\ \/ revision' = revision
            \/ revision' = [revision EXCEPT ![c] = 0]
            \/ \E i \in 1..Len(revisions') : revision' = [revision EXCEPT ![c] = i]
            \/ /\ revisions' = revisions
               /\ \E r \in 1..Len(releases) :
                    revision' = [revision EXCEPT ![c] = releases[r].previous]
         /\ \/ release' = release
            \/ release' = [release EXCEPT ![c] = 0]
            \/ \E r : SaveRelease(c, r)
            \/ /\ releases' = releases
               /\ \E r \in 1..Len(releases) : release' = [release EXCEPT ![c] = r]
<1>1. Owner \in Releasers BY ReleaseAssumption
<1>2. \/ by' = by
      \/ \E who \in Releasers : by' = [by EXCEPT ![c] = who]
  BY <1>1
  DEF Command, BeginPromote, Prepare, SaveCanaryRelease, SaveCanaryRun, RunCanary,
         SaveFailedRelease, SaveFailedRun, StartActivation, ActivationRefused, Commit,
         SaveActiveRelease, SavePromotedRun, BeginRollback, StartRollback, CommitRollback,
         SaveRollbackRelease, SaveRolledBackRun, Abandon, Return, frame
<1>3. \/ revision' = revision
      \/ revision' = [revision EXCEPT ![c] = 0]
      \/ \E i \in 1..Len(revisions') : revision' = [revision EXCEPT ![c] = i]
      \/ /\ revisions' = revisions
         /\ \E r \in 1..Len(releases) :
              revision' = [revision EXCEPT ![c] = releases[r].previous]
  BY DEF Command, BeginPromote, Prepare, SaveCanaryRelease, SaveCanaryRun, RunCanary,
         SaveFailedRelease, SaveFailedRun, StartActivation, ActivationRefused, Commit,
         SaveActiveRelease, SavePromotedRun, BeginRollback, StartRollback, CommitRollback,
         SaveRollbackRelease, SaveRolledBackRun, Abandon, Return, frame, store
<1>4. \/ release' = release
      \/ release' = [release EXCEPT ![c] = 0]
      \/ \E r : SaveRelease(c, r)
      \/ /\ releases' = releases
         /\ \E r \in 1..Len(releases) : release' = [release EXCEPT ![c] = r]
  BY DEF Command, BeginPromote, Prepare, SaveCanaryRelease, SaveCanaryRun, RunCanary,
         SaveFailedRelease, SaveFailedRun, StartActivation, ActivationRefused, Commit,
         SaveActiveRelease, SavePromotedRun, BeginRollback, StartRollback, CommitRollback,
         SaveRollbackRelease, SaveRolledBackRun, Abandon, Return, frame, store
<1> QED BY <1>2, <1>3, <1>4

LEMMA BoundsKept ==
  ASSUME ReleaseInv, BoundsInv, [ReleaseNext]_releaseVars
  PROVE  BoundsInv'
<1>0. ReleaseTypes BY DEF ReleaseInv
<1>1. Len(revisions) \in Nat /\ Len(releases) \in Nat BY <1>0, StoreLengths
<1>2. /\ revision \in [Commands -> Nat] /\ release \in [Commands -> Nat]
      /\ by \in [Commands -> Releasers] /\ runs \in [Approved -> ReleaseRun]
  BY <1>0 DEF ReleaseTypes, BoundsInv
<1>3. ASSUME NEW c \in Commands, Command(c) PROVE BoundsInv'
  <2>1. /\ Len(revisions) <= Len(revisions') /\ Len(revisions') <= MaxRevisions
        /\ Len(revisions') \in Nat
    BY <1>0, <1>1, <1>3, StoresChange, ReleaseAssumption DEF ReleaseTypes, BoundsInv
  <2>2. /\ Len(releases) <= Len(releases') /\ Len(releases') <= MaxReleases
        /\ Len(releases') \in Nat
        /\ \A r : SaveRelease(c, r) => Len(releases') = Len(releases) + 1
    BY <1>0, <1>1, <1>3, StoresChange, ReleaseAssumption DEF ReleaseTypes, BoundsInv, SaveRelease
  <2>3. runs' \in [Approved -> ReleaseRun]
    <3>1. \A s \in {"canary", "promoted", "failed", "rolled-back"}, n \in {0, release[c]} :
            [state |-> s, release |-> n] \in ReleaseRun
      BY <1>1, <1>2, ReleaseAssumption DEF BoundsInv, ReleaseRun
    <3> QED BY <1>2, <1>3, <3>1, RunsChange, SMTT(60) DEF SaveRun
  <2>4. by' \in [Commands -> Releasers] BY <1>2, <1>3, HeldChange
  <2>5. ASSUME NEW d \in Commands PROVE revision'[d] <= Len(revisions')
    <3>1. revision[d] <= Len(revisions) /\ revision[d] \in Nat BY <1>2 DEF BoundsInv
    <3>2. \A r \in 1..Len(releases) : releases[r].previous \in 1..Len(revisions)
      BY <1>0 DEF ReleaseTypes
    <3>3. \/ revision'[d] = revision[d] \/ revision'[d] = 0
          \/ revision'[d] \in 1..Len(revisions')
      BY <1>2, <1>3, <3>2, HeldChange
    <3> QED BY <1>1, <2>1, <3>1, <3>3
  <2>6. ASSUME NEW d \in Commands PROVE release'[d] <= Len(releases')
    <3>1. release[d] <= Len(releases) /\ release[d] \in Nat BY <1>2 DEF BoundsInv
    <3>2. \/ release'[d] = release[d] \/ release'[d] = 0
          \/ release'[d] \in 1..Len(releases')
      BY <1>1, <1>2, <1>3, <2>2, HeldChange DEF SaveRelease
    <3> QED BY <1>1, <2>2, <3>1, <3>2
  <2> QED BY <2>1, <2>2, <2>3, <2>4, <2>5, <2>6 DEF BoundsInv
<1>4. ASSUME NEW p \in Approved, ReachReview(p) PROVE BoundsInv'
  <2>1. [state |-> "awaiting-review", release |-> 0] \in ReleaseRun
    BY ReleaseAssumption DEF ReleaseRun
  <2>2. runs' \in [Approved -> ReleaseRun] BY <1>2, <1>4, <2>1 DEF ReachReview, SaveRun
  <2> QED BY <1>4, <2>2 DEF ReachReview, frame, BoundsInv
<1>5. CASE UNCHANGED releaseVars BY <1>5 DEF releaseVars, store, frame, BoundsInv
<1> QED BY <1>3, <1>4, <1>5 DEF ReleaseNext

\* With a proposal to release, the release stores, the runs' files and what
\* each command holds are of their types and within their bounds
\* (releases.save, RuntimeRevisionStore.stage).
THEOREM ReleasesAreTyped ==
  ASSUME Approved # {}
  PROVE  ReleaseSpec => []ReleaseTypeOK
<1>1. ReleaseInv /\ BoundsInv => ReleaseTypeOK
  <2> SUFFICES ASSUME ReleaseInv, BoundsInv PROVE ReleaseTypeOK OBVIOUS
  <2>0. ReleaseTypes BY DEF ReleaseInv
  <2>1. Len(revisions) \in Nat /\ Len(releases) \in Nat BY <2>0, StoreLengths
  <2>2. \A i \in 1..Len(revisions) : revisions[i] \in Revision
    <3> SUFFICES ASSUME NEW i \in 1..Len(revisions) PROVE revisions[i] \in Revision
      OBVIOUS
    <3>1. revisions[i] \in StoredRevision BY <2>0, StoresTyped
    <3>2. revisions[i].parent \in 0..MaxRevisions
      BY <2>1, <3>1, ReleaseAssumption DEF ReleaseInv, AncestorsInv, BoundsInv, StoredRevision
    <3> QED BY <3>1, <3>2 DEF StoredRevision, Revision
  <2>3. \A i \in 1..Len(releases) : releases[i] \in Release
    <3> SUFFICES ASSUME NEW i \in 1..Len(releases) PROVE releases[i] \in Release
      OBVIOUS
    <3>1. releases[i] \in StoredRelease BY <2>0, StoresTyped
    <3>2. /\ releases[i].revision \in 1..MaxRevisions
          /\ releases[i].previous \in 1..MaxRevisions
          /\ releases[i].canary \in 0..MaxReleases
      BY <2>0, <2>1, <3>1, ReleaseAssumption DEF ReleaseTypes, BoundsInv, StoredRelease
    <3> QED BY <3>1, <3>2 DEF StoredRelease, Release
  <2>4. revisions \in Seq(Revision)
    <3>1. revisions \in Seq(StoredRevision) BY <2>0 DEF ReleaseTypes
    <3> QED BY <3>1, <2>1, <2>2
  <2>5. releases \in Seq(Release) BY <2>0, <2>1, <2>3, SMTT(60) DEF ReleaseTypes
  <2>6. NoProposal \in Approved BY DEF NoProposal
  <2>7. /\ proposal \in [Commands -> Approved] /\ pc \in [Commands -> Steps]
        /\ activeRevision \in 1..Len(revisions)
    BY <2>0, <2>6 DEF ReleaseTypes
  <2>8. /\ revision \in [Commands -> 0..Len(revisions)]
        /\ release \in [Commands -> 0..Len(releases)]
    <3>1. revision \in [Commands -> Nat] /\ release \in [Commands -> Nat]
      BY <2>0 DEF ReleaseTypes
    <3>2. \A c \in Commands : /\ revision[c] \in 0..Len(revisions)
                              /\ release[c] \in 0..Len(releases)
      BY <2>1, <3>1 DEF BoundsInv
    <3> QED BY <3>1, <3>2
  <2> QED BY <2>4, <2>5, <2>7, <2>8 DEF BoundsInv, ReleaseTypeOK
<1>2. ReleaseInv /\ BoundsInv /\ [ReleaseNext]_releaseVars => BoundsInv' BY BoundsKept
<1> QED BY <1>1, <1>2, BoundsStart, ReleaseInvariant, PTL DEF ReleaseSpec

---------------------------------------------------------------------------
(* Releases: commands that run alone *)

\* What a command that has run alone so far knows of the stores it read.
LoneHolds(c) ==
  /\ pc[c] \in {"intent", "prepared", "saved"} =>
       runs[proposal[c]].state = "awaiting-review"
  /\ pc[c] = "activating" => revisions[revision[c]].parent = activeRevision
  /\ pc[c] = "undoing" => revisions[activeRevision].parent = revision[c]

LoneInv ==
  /\ ReleaseInv
  /\ \A c \in alone : c \in Commands /\ Busy = {c} /\ LoneHolds(c)

\* A command moves nobody else, ends at another step than it began, and
\* begins only as a promotion or a rollback.
LEMMA CommandMoves ==
  ASSUME ReleaseTypes, NEW c \in Commands, Command(c)
  PROVE  /\ \A d \in Commands \ {c} : pc'[d] = pc[d]
         /\ pc[c] = "idle" => BeginPromote(c) \/ BeginRollback(c)
         /\ BeginPromote(c) \/ BeginRollback(c) => pc[c] = "idle" /\ pc'[c] # "idle"
<1>1. pc \in [Commands -> Steps] BY DEF ReleaseTypes
<1>2. \E s : Goto(c, s)
  BY DEF Command, BeginPromote, Prepare, SaveCanaryRelease, SaveCanaryRun, RunCanary,
         SaveFailedRelease, SaveFailedRun, StartActivation, ActivationRefused, Commit,
         SaveActiveRelease, SavePromotedRun, BeginRollback, StartRollback, CommitRollback,
         SaveRollbackRelease, SaveRolledBackRun, Abandon, Return
<1>3. \A d \in Commands \ {c} : pc'[d] = pc[d] BY <1>1, <1>2 DEF Goto
<1>4. pc[c] = "idle" => BeginPromote(c) \/ BeginRollback(c)
  BY DEF Command, At, Prepare, SaveCanaryRelease, SaveCanaryRun, RunCanary,
         SaveFailedRelease, SaveFailedRun, StartActivation, ActivationRefused, Commit,
         SaveActiveRelease, SavePromotedRun, StartRollback, CommitRollback,
         SaveRollbackRelease, SaveRolledBackRun, Abandon
<1>5. BeginPromote(c) \/ BeginRollback(c) => pc[c] = "idle" /\ pc'[c] # "idle"
  BY <1>1 DEF BeginPromote, BeginRollback, At, Goto
<1> QED BY <1>3, <1>4, <1>5

\* Only c moves while it is alone.
LEMMA OnlyTheLone ==
  ASSUME ReleaseTypes, NEW c \in Commands, NEW d \in Commands, Command(d),
         Busy' = {c}, Busy = {c} \/ c \notin Busy
  PROVE  d = c
<1>1. SUFFICES ASSUME d # c PROVE FALSE OBVIOUS
<1>2. pc'[c] = pc[c] BY <1>1, CommandMoves
<1>3. pc[d] = "idle" => pc'[d] # "idle" BY CommandMoves
<1>4. pc'[c] # "idle" /\ pc'[d] = "idle" BY <1>1 DEF Busy, At
<1>5. pc[c] # "idle" /\ pc[d] = "idle" BY <1>1, <1>2, <1>4 DEF Busy, At
<1> QED BY <1>3, <1>4, <1>5

\* What a lone command does keeps what it knows.
LEMMA LoneCommandKeeps ==
  ASSUME ReleaseInv, NEW c \in Commands, Command(c), pc[c] # "idle" => LoneHolds(c)
  PROVE  LoneHolds(c)'
<1>1. /\ pc \in [Commands -> Steps] /\ proposal \in [Commands -> Approved \cup {NoProposal}]
      /\ revision \in [Commands -> Nat]
  BY DEF ReleaseInv, ReleaseTypes
<1>2. CASE BeginPromote(c)
  <2>1. PICK p \in Approved : /\ runs[p].state = "awaiting-review"
                              /\ proposal' = [proposal EXCEPT ![c] = p]
    BY <1>2 DEF BeginPromote, PromotionEligible
  <2>2. proposal'[c] = p /\ pc'[c] = "intent" /\ runs' = runs
    BY <1>1, <1>2, <2>1 DEF BeginPromote, Goto, store
  <2> QED BY <2>1, <2>2 DEF LoneHolds
<1>3. CASE Prepare(c) \/ SaveCanaryRelease(c)
  <2>1. pc[c] \in {"intent", "prepared"} /\ pc'[c] \in {"prepared", "saved"}
        /\ runs' = runs /\ proposal' = proposal
    BY <1>1, <1>3 DEF Prepare, SaveCanaryRelease, At, Goto
  <2> QED BY <2>1 DEF LoneHolds
<1>4. CASE StartActivation(c)
  <2>1. /\ pc'[c] = "activating" /\ UNCHANGED <<revisions, revision, activeRevision>>
        /\ revisions[revision[c]] = Staged(proposal[c])
    BY <1>1, <1>4 DEF StartActivation, Goto, store, frame
  <2> QED BY <2>1 DEF LoneHolds, Staged
<1>5. CASE StartRollback(c)
  <2>1. /\ pc'[c] = "undoing" /\ UNCHANGED <<revisions, revision, activeRevision>>
        /\ revisions[activeRevision].parent = revision[c]
    BY <1>1, <1>5 DEF StartRollback, Goto, store, frame
  <2> QED BY <2>1 DEF LoneHolds
<1>6. CASE ~(BeginPromote(c) \/ Prepare(c) \/ SaveCanaryRelease(c) \/ StartActivation(c)
             \/ StartRollback(c))
  <2>1. pc'[c] \notin {"intent", "prepared", "saved", "activating", "undoing"}
    BY <1>1, <1>6
    DEF Command, SaveCanaryRun, RunCanary, SaveFailedRelease, SaveFailedRun,
        ActivationRefused, Commit, SaveActiveRelease, SavePromotedRun, BeginRollback,
        CommitRollback, SaveRollbackRelease, SaveRolledBackRun, Abandon, Return, Goto
  <2> QED BY <2>1 DEF LoneHolds
<1> QED BY <1>2, <1>3, <1>4, <1>5, <1>6

\* A run that reaches review meanwhile is not the command's.
LEMMA ReviewKeepsLone ==
  ASSUME ReleaseInv, NEW c \in Commands, pc[c] # "idle", LoneHolds(c),
         NEW p \in Approved, ReachReview(p)
  PROVE  LoneHolds(c)'
<1>1. /\ UNCHANGED <<revisions, activeRevision, pc, proposal, revision>>
      /\ runs[p].state = "scoped"
      /\ runs' = [runs EXCEPT ![p] = [state |-> "awaiting-review", release |-> 0]]
  BY DEF ReachReview, SaveRun, frame
<1>2. \A q : q # p => runs'[q] = runs[q] BY <1>1
<1> QED BY <1>1, <1>2 DEF LoneHolds

LEMMA LoneStarts == LoneInit => LoneInv
  BY ReleaseStarts DEF LoneInit, LoneInv

LEMMA LoneKeeps == LoneInv /\ [LoneNext]_<<releaseVars, alone>> => LoneInv'
<1> SUFFICES ASSUME LoneInv, [LoneNext]_<<releaseVars, alone>> PROVE LoneInv' OBVIOUS
<1>1. ReleaseInv /\ ReleaseInv' BY ReleaseKeeps DEF LoneInv, LoneNext
<1>2. CASE UNCHANGED <<releaseVars, alone>>
  <2>1. UNCHANGED <<revisions, activeRevision, runs, pc, proposal, revision, alone>>
    BY <1>2 DEF releaseVars, store, frame
  <2> QED BY <1>1, <2>1 DEF LoneInv, LoneHolds, Busy, At
<1>3. CASE LoneNext
  <2> SUFFICES ASSUME NEW c \in alone' PROVE c \in Commands /\ Busy' = {c} /\ LoneHolds(c)'
    BY <1>1 DEF LoneInv
  <2>1. /\ c \in Commands /\ Busy' = {c}
        /\ c \in alone \/ c \notin Busy
    BY <1>3 DEF LoneNext, Busy
  <2>2. c \in alone => Busy = {c} /\ pc[c] # "idle" /\ LoneHolds(c)
    BY <2>1 DEF LoneInv, Busy, At
  <2>3. pc[c] # "idle" => c \in alone BY <2>1 DEF Busy, At
  <2>4. CASE \E p \in Approved : ReachReview(p)
    <3>1. pc' = pc BY <2>4 DEF ReachReview
    <3>2. pc[c] # "idle" BY <2>1, <3>1 DEF Busy, At
    <3> QED BY <1>1, <2>1, <2>2, <2>3, <2>4, <3>2, ReviewKeepsLone
  <2>5. CASE \E d \in Commands : Command(d)
    <3>1. PICK d \in Commands : Command(d) BY <2>5
    <3>2. d = c BY <1>1, <2>1, <2>2, <3>1, OnlyTheLone DEF ReleaseInv
    <3> QED BY <1>1, <2>1, <2>2, <2>3, <3>1, <3>2, LoneCommandKeeps
  <2> QED BY <1>3, <2>1, <2>4, <2>5 DEF LoneNext, ReleaseNext
<1> QED BY <1>2, <1>3

\* A promotion that ran alone activates a child of the active revision, and
\* a rollback that did its parent.
THEOREM ActivationsAreChained == LoneSpec => ChainedActivations
<1>1. LoneInv /\ [LoneNext]_<<releaseVars, alone>> =>
        [activeRevision' # activeRevision /\ (\E c \in alone : pc'[c] # pc[c]) =>
           \/ revisions[activeRevision'].parent = activeRevision
           \/ revisions[activeRevision].parent = activeRevision']_releaseVars
  <2> SUFFICES ASSUME LoneInv, [LoneNext]_<<releaseVars, alone>>,
                      activeRevision' # activeRevision,
                      NEW c \in alone, pc'[c] # pc[c]
               PROVE  \/ revisions[activeRevision'].parent = activeRevision
                      \/ revisions[activeRevision].parent = activeRevision'
    OBVIOUS
  <2>1. c \in Commands /\ LoneHolds(c) /\ ReleaseTypes BY DEF LoneInv, ReleaseInv
  <2>2. PICK d \in Commands : Command(d)
    BY DEF LoneNext, ReleaseNext, ReachReview, releaseVars, store
  <2>3. d = c BY <2>1, <2>2, CommandMoves
  <2>4. Commit(c) \/ CommitRollback(c)
    BY <2>2, <2>3
    DEF Command, BeginPromote, Prepare, SaveCanaryRelease, SaveCanaryRun, RunCanary,
        SaveFailedRelease, SaveFailedRun, StartActivation, ActivationRefused,
        SaveActiveRelease, SavePromotedRun, BeginRollback, StartRollback,
        SaveRollbackRelease, SaveRolledBackRun, Abandon, store
  <2> QED BY <2>1, <2>4 DEF Commit, CommitRollback, At, LoneHolds
<1> QED BY <1>1, LoneStarts, LoneKeeps, PTL DEF LoneSpec, ChainedActivations

\* A command that ran alone moves its run along the transition table.
THEOREM RunsMoveLegally == LoneSpec => LegalReleaseMoves
<1>1. LoneInv /\ [LoneNext]_<<releaseVars, alone>> =>
        [\A c \in alone :
           LET p == proposal[c] IN
             runs'[p].state # runs[p].state /\ runs[p].state # "scoped" =>
               runs'[p].state \in TransitionTargets(runs[p].state)]_releaseVars
  <2> SUFFICES ASSUME LoneInv, [LoneNext]_<<releaseVars, alone>>, NEW c \in alone, NEW p,
                      p = proposal[c], runs'[p].state # runs[p].state, runs[p].state # "scoped"
               PROVE  runs'[p].state \in TransitionTargets(runs[p].state)
    OBVIOUS
  <2>1. /\ c \in Commands /\ Busy = {c} /\ LoneHolds(c) /\ ReleaseTypes
        /\ p \in Approved /\ DOMAIN runs = Approved /\ pc[c] # "idle"
    BY DEF LoneInv, ReleaseInv, ReleaseTypes, Busy, At
  <2>2. ASSUME NEW q \in Approved, ReachReview(q) PROVE FALSE
    <3>1. runs[q].state = "scoped" /\ \E r : runs' = [runs EXCEPT ![q] = r]
      BY <2>2 DEF ReachReview, SaveRun
    <3> QED BY <3>1, <2>1
  <2>3. PICK d \in Commands : Command(d)
    BY <2>2 DEF LoneNext, ReleaseNext, releaseVars, store
  <2>4. d = c
    <3>1. SUFFICES ASSUME d # c PROVE FALSE OBVIOUS
    <3>2. pc[d] = "idle" BY <2>1, <3>1 DEF Busy, At
    <3>3. runs' = runs
      BY <2>1, <2>3, <3>2, CommandMoves DEF BeginPromote, BeginRollback, store
    <3> QED BY <3>3
  <2>5. CASE SaveCanaryRun(c)
    <3>1. runs[p].state = "awaiting-review" BY <2>1, <2>5 DEF SaveCanaryRun, At, LoneHolds
    <3>2. runs'[p].state = "canary" BY <2>1, <2>5 DEF SaveCanaryRun, SaveRun
    <3> QED BY <3>1, <3>2 DEF TransitionTargets
  <2>6. CASE SaveFailedRun(c) \/ SavePromotedRun(c) \/ SaveRolledBackRun(c)
    BY <2>1, <2>6 DEF SaveFailedRun, SavePromotedRun, SaveRolledBackRun, SaveRun, CanTransition
  <2>7. CASE ~(SaveCanaryRun(c) \/ SaveFailedRun(c) \/ SavePromotedRun(c) \/ SaveRolledBackRun(c))
    <3>1. runs' = runs
      BY <2>3, <2>4, <2>7
      DEF Command, BeginPromote, Prepare, SaveCanaryRelease, RunCanary, SaveFailedRelease,
          StartActivation, ActivationRefused, Commit, SaveActiveRelease, BeginRollback,
          StartRollback, CommitRollback, SaveRollbackRelease, Abandon, store
    <3> QED BY <3>1
  <2> QED BY <2>5, <2>6, <2>7
<1> QED BY <1>1, LoneStarts, LoneKeeps, PTL DEF LoneSpec, LegalReleaseMoves

---------------------------------------------------------------------------
(* Measures and the acceptance audit: what an answer says, for every input *)

Harness == INSTANCE EvolutionMeasures
Audit == INSTANCE EvolutionAcceptance

\* No gate behind one that was reached and failed is reached.
LEMMA FailedGateBlocks ==
  ASSUME NEW n \in Nat, NEW stages, DOMAIN stages = 1..n, NEW i \in Harness!Reached(stages),
         ~ stages[i].answer.passed, NEW j \in 1..n, j > i
  PROVE  j \notin Harness!Reached(stages)
  BY DEF Harness!Reached, Harness!Blocked

\* Once a gate has failed, what the gates behind it would have answered
\* changes nothing, and no applicable one of them counts as passed
\* (benchmarks/ladder.ts, runBenchmarkLadder).
THEOREM FailedGateEndsTheLadder ==
  ASSUME NEW n \in Nat, NEW stages, NEW others,
         DOMAIN stages = 1..n, DOMAIN others = 1..n,
         NEW i \in Harness!Reached(stages), ~ stages[i].answer.passed,
         \A j \in 1..i : others[j] = stages[j],
         \A j \in 1..n : others[j].applicable = stages[j].applicable
  PROVE  /\ Harness!LadderFails(others) <=> Harness!LadderFails(stages)
         /\ Harness!LadderResults(others) = Harness!LadderResults(stages)
         /\ \A j \in 1..n : j > i /\ stages[j].applicable =>
              ~ Harness!LadderResults(stages)[j].passed
<1>0. i \in 1..n BY DEF Harness!Reached
<1>1. \A j \in 1..i : Harness!Blocked(others, j) <=> Harness!Blocked(stages, j)
  <2> SUFFICES ASSUME NEW j \in 1..i
               PROVE  Harness!Blocked(others, j) <=> Harness!Blocked(stages, j)
    OBVIOUS
  <2>1. \A k \in 1..(j - 1) : others[k] = stages[k] BY <1>0
  <2> QED BY <2>1 DEF Harness!Blocked
<1>2. i \in Harness!Reached(others) /\ ~ others[i].answer.passed
  BY <1>0, <1>1 DEF Harness!Reached
<1>3. \A j \in Harness!Reached(stages) \union Harness!Reached(others) : j \in 1..i
  <2>1. \A j \in 1..n : j > i => j \notin Harness!Reached(stages)
    BY FailedGateBlocks
  <2>2. \A j \in 1..n : j > i => j \notin Harness!Reached(others)
    BY <1>2, FailedGateBlocks
  <2>3. Harness!Reached(stages) \subseteq 1..n /\ Harness!Reached(others) \subseteq 1..n
    BY DEF Harness!Reached
  <2> QED BY <1>0, <2>1, <2>2, <2>3
<1>4. Harness!Reached(others) = Harness!Reached(stages)
  BY <1>0, <1>1, <1>3 DEF Harness!Reached
<1>5. \A j \in Harness!Reached(stages) : others[j] = stages[j] BY <1>3
<1>6. Harness!LadderFails(others) <=> Harness!LadderFails(stages)
  BY <1>4, <1>5 DEF Harness!LadderFails
<1>7. Harness!LadderResults(others) = Harness!LadderResults(stages)
  BY <1>4, <1>5 DEF Harness!LadderResults
<1>8. ASSUME NEW j \in 1..n, j > i, stages[j].applicable
      PROVE  ~ Harness!LadderResults(stages)[j].passed
  <2>1. j \notin Harness!Reached(stages) BY <1>8, FailedGateBlocks
  <2>2. Harness!LadderResults(stages)[j] = Harness!Unreached("skipped")
    BY <1>8, <2>1 DEF Harness!LadderResults
  <2>3. ("skipped" = "not-applicable") = FALSE OBVIOUS
  <2>4. Harness!Unreached("skipped").passed = ("skipped" = "not-applicable")
    BY Zenon DEF Harness!Unreached
  <2> QED BY <2>2, <2>3, <2>4
<1> QED BY <1>6, <1>7, <1>8

\* An evaluation that passed compared the run's own candidate with the
\* baseline, each measured on every split by a snapshot of its own, judged by
\* somebody else than its author, with every applicable gate asked and passed
\* (evaluation/harness.ts).
THEOREM PassedWasMeasured ==
  ASSUME NEW p, NEW before, NEW after, NEW significant,
         Harness!Evaluate(p, before, after, significant) = "passed"
  PROVE  /\ Harness!PlanBound(p) /\ p.author # p.judge
         /\ Harness!CasesHold(p, p.baseline, before)
         /\ Harness!CasesHold(p, p.snapshot, after)
         /\ \A i \in DOMAIN p.metrics : \A split \in Harness!EvaluationSplits :
              /\ Harness!Values(before, split, p.metrics[i].name) # {}
              /\ Harness!Values(after, split, p.metrics[i].name) # {}
         /\ \A i \in DOMAIN p.stages : p.stages[i].applicable =>
              /\ i \in Harness!Reached(p.stages)
              /\ p.stages[i].answer.passed /\ p.stages[i].answer.ref = p.stages[i].ref
<1> DEFINE results == Harness!LadderResults(p.stages)
<1>1. /\ Harness!PlanBound(p) /\ p.author # p.judge
      /\ Harness!CasesHold(p, p.baseline, before)
      /\ Harness!CasesHold(p, p.snapshot, after)
      /\ ~ Harness!LadderFails(p.stages)
      /\ Harness!FitnessPasses(p.metrics, before, after)
      /\ \A i \in DOMAIN results : results[i].passed
  BY DEF Harness!Evaluate
<1>2. ASSUME NEW i \in DOMAIN p.stages, p.stages[i].applicable
      PROVE  /\ i \in Harness!Reached(p.stages)
             /\ p.stages[i].answer.passed /\ p.stages[i].answer.ref = p.stages[i].ref
  <2>1. results[i].passed BY <1>1, <1>2 DEF Harness!LadderResults
  <2>2. i \in Harness!Reached(p.stages)
    BY <1>2, <2>1 DEF Harness!LadderResults, Harness!Unreached
  <2>3. results[i].passed = p.stages[i].answer.passed
    BY <1>2, <2>2 DEF Harness!LadderResults
  <2> QED BY <1>1, <2>1, <2>2, <2>3 DEF Harness!LadderFails
<1> QED BY <1>1, <1>2 DEF Harness!FitnessPasses, Harness!MetricPasses

\* What an accepted manifest says of one of its releases, against the stores.
LEMMA AcceptedHasNoFinding ==
  ASSUME NEW m, NEW reader, Audit!Accepted(m, reader), NEW i \in DOMAIN m.releases
  PROVE  /\ Audit!AuditLineage(m, reader, m.releases[i]) = {}
         /\ Audit!AuditReleases(m) = {} /\ Audit!AuditGlobal(m) = {}
<1>1. Audit!Findings(m, reader) = {} BY DEF Audit!Accepted
<1>2. /\ UNION {Audit!AuditLineage(m, reader, m.releases[j]) : j \in DOMAIN m.releases} = {}
      /\ Audit!AuditReleases(m) = {} /\ Audit!AuditGlobal(m) = {}
  BY <1>1 DEF Audit!Findings
<1>3. Audit!AuditLineage(m, reader, m.releases[i]) = {} BY <1>2, Zenon
<1> QED BY <1>2, <1>3

LEMMA SameCount ==
  ASSUME NEW S
  PROVE  Audit!Cardinality(S) = Cardinality(S)
  BY DEF Audit!Cardinality, Cardinality

LEMMA LineageHolds ==
  ASSUME NEW m, NEW reader, NEW e, Audit!AuditLineage(m, reader, e) = {}
  PROVE  LET a == Audit!Artifacts(reader, e) IN
         /\ \A k \in DOMAIN a : a[k] # Audit!None
         /\ Audit!ReleasesMatch(e, a) /\ Audit!RollbackMatches(e, a)
         /\ Audit!RunAndCandidateMatch(e, a) /\ Audit!ProposalMatches(e, a)
         /\ Audit!ReportMatches(m, e, a) /\ Audit!SnapshotsMatch(e, a)
         /\ Audit!DatasetMatches(e, a) /\ e.lineageDigest = a
<1> DEFINE a == Audit!Artifacts(reader, e)
           missing == {k \in DOMAIN a : a[k] = Audit!None}
<1>1. missing = {} /\ Audit!LineageFindings(m, e, a) = {}
  <2>1. CASE missing = {} BY <2>1 DEF Audit!AuditLineage
  <2>2. CASE missing # {}
    <3>1. {<<"release", e.targetClass, k>> : k \in missing} = {}
      BY <2>2 DEF Audit!AuditLineage
    <3> QED BY <3>1, <2>2
  <2> QED BY <2>1, <2>2
<1> HIDE DEF a
<1>2. /\ Audit!Unless(Audit!ReleasesMatch(e, a), <<"release", e.targetClass, "lineage">>) = {}
      /\ Audit!Unless(Audit!RollbackMatches(e, a), <<"release", e.targetClass, "rollback">>) = {}
      /\ Audit!Unless(Audit!RunAndCandidateMatch(e, a), <<"release", e.targetClass, "run-candidate">>) = {}
      /\ Audit!Unless(Audit!ProposalMatches(e, a), <<"release", e.targetClass, "proposal">>) = {}
      /\ Audit!Unless(Audit!ReportMatches(m, e, a), <<"release", e.targetClass, "evaluation">>) = {}
      /\ Audit!Unless(Audit!SnapshotsMatch(e, a), <<"release", e.targetClass, "snapshots">>) = {}
      /\ Audit!Unless(Audit!DatasetMatches(e, a), <<"release", e.targetClass, "dataset">>) = {}
      /\ Audit!Unless(e.lineageDigest = a, <<"release", e.targetClass, "lineage-digest">>) = {}
  BY <1>1 DEF Audit!LineageFindings
<1>3. /\ Audit!ReleasesMatch(e, a) /\ Audit!RollbackMatches(e, a)
      /\ Audit!RunAndCandidateMatch(e, a) /\ Audit!ProposalMatches(e, a)
      /\ Audit!ReportMatches(m, e, a) /\ Audit!SnapshotsMatch(e, a)
      /\ Audit!DatasetMatches(e, a) /\ e.lineageDigest = a
  BY <1>2 DEF Audit!Unless
<1> QED BY <1>1, <1>3 DEF a

\* Of every release that an accepted manifest claims, whatever the manifest
\* and the stores: the content that was evaluated, approved and activated is
\* the candidate of the claimed run, made from the content the run began with;
\* enough people approved it and its author is none of them; the report came
\* over another route than the one it was written over; and it was taken back
\* to what was there before (acceptance/audit.ts, lineage-checks.ts).
THEOREM AcceptedReleasesWereProven ==
  ASSUME NEW m, NEW reader, Audit!Accepted(m, reader), NEW i \in DOMAIN m.releases
  PROVE  LET e == m.releases[i]
             a == Audit!Artifacts(reader, e)
         IN  /\ \A k \in DOMAIN a : a[k] # Audit!None
             /\ a.release.targetDigest = Audit!Materialized(a.candidate)
             /\ a.proposal.candidateDigest = Audit!Materialized(a.candidate)
             /\ a.releaseSnapshot.targets[e.targetRef] = Audit!Materialized(a.candidate)
             /\ a.report.candidateId = a.candidate.id /\ a.candidate.runId = a.run.id
             /\ a.report.candidateSnapshotId = a.proposal.candidateSnapshotId
             /\ a.report.holdoutDigest = a.dataset.holdoutDigest
             /\ a.candidate.targetDigest = a.dataset.targetDigest
             /\ a.proposal.baselineDigest = a.dataset.targetDigest
             /\ a.proposal.author \notin a.proposal.approvers
             /\ Cardinality(a.proposal.approvers) >= Audit!RequiredReviews(a.run.riskClass)
             /\ a.report.authoringRoute # a.report.evaluationRoute
             /\ a.run.state = "rolled-back"
             /\ a.rollbackRelease.targetDigest = a.release.previousTargetDigest
<1> DEFINE e == m.releases[i]
           a == Audit!Artifacts(reader, e)
<1>1. Audit!AuditLineage(m, reader, e) = {} /\ Audit!AuditGlobal(m) = {}
  BY AcceptedHasNoFinding
<1>2. m.routes.authoring # m.routes.evaluation
  <2>1. Audit!Unless(/\ m.routes.authoring # m.routes.evaluation
                     /\ m.routes.authorized = {"authoring", "evaluation"},
                     <<"routes", "separation">>) = {}
    BY <1>1 DEF Audit!AuditGlobal
  <2> QED BY <2>1 DEF Audit!Unless
<1>3. /\ \A k \in DOMAIN a : a[k] # Audit!None
      /\ Audit!ReleasesMatch(e, a) /\ Audit!RollbackMatches(e, a)
      /\ Audit!RunAndCandidateMatch(e, a) /\ Audit!ProposalMatches(e, a)
      /\ Audit!ReportMatches(m, e, a) /\ Audit!SnapshotsMatch(e, a)
      /\ Audit!DatasetMatches(e, a)
  BY <1>1, LineageHolds
<1> HIDE DEF a, e
<1>4. /\ a.release.targetDigest = e.targetDigest
      /\ a.candidate.candidateDigest = e.targetDigest
      /\ Audit!Materialized(a.candidate) = a.candidate.candidateDigest
      /\ a.proposal.candidateDigest = e.targetDigest
      /\ a.releaseSnapshot.targets[e.targetRef] = e.targetDigest
  BY <1>3 DEF Audit!ReleasesMatch, Audit!Agree, Audit!RunAndCandidateMatch,
              Audit!ProposalMatches, Audit!SnapshotsMatch
<1>5. /\ a.report.candidateId = a.candidate.id /\ a.candidate.runId = a.run.id
      /\ a.report.candidateSnapshotId = a.proposal.candidateSnapshotId
      /\ a.report.holdoutDigest = a.dataset.holdoutDigest
      /\ a.report.authoringRoute # a.report.evaluationRoute
  BY <1>2, <1>3 DEF Audit!ReportMatches, Audit!Agree, Audit!RunAndCandidateMatch,
              Audit!ProposalMatches
<1>6. /\ a.candidate.targetDigest = a.dataset.targetDigest
      /\ a.proposal.baselineDigest = a.dataset.targetDigest
  BY <1>3 DEF Audit!RunAndCandidateMatch, Audit!ProposalMatches, Audit!DatasetMatches
<1>7. a.proposal.riskClass = e.riskClass /\ a.run.riskClass = e.riskClass
  BY <1>3 DEF Audit!RunAndCandidateMatch, Audit!ProposalMatches, Audit!Agree
<1>8. /\ a.proposal.author \notin a.proposal.approvers
      /\ Cardinality(a.proposal.approvers) >= Audit!RequiredReviews(a.run.riskClass)
  <2>0. Audit!ProposalMatches(e, a) BY <1>3
  <2>1. a.proposal.author \notin a.proposal.approvers
    BY <2>0 DEF Audit!ProposalMatches
  <2>4. Cardinality(a.proposal.approvers)
             \in Audit!RequiredReviews(a.proposal.riskClass) .. e.reviewRecords
    BY <2>0, SameCount DEF Audit!ProposalMatches
  <2>2. Audit!RequiredReviews(a.run.riskClass) = Audit!RequiredReviews(a.proposal.riskClass)
    BY <1>7
  <2>3. Audit!RequiredReviews(a.proposal.riskClass) \in Int BY DEF Audit!RequiredReviews
  <2> QED BY <2>1, <2>2, <2>3, <2>4
<1>9. a.run.state = "rolled-back" /\ a.rollbackRelease.targetDigest = a.release.previousTargetDigest
  BY <1>3 DEF Audit!RollbackMatches
<1> QED BY <1>3, <1>4, <1>5, <1>6, <1>8, <1>9 DEF a, e
===============================================================================
