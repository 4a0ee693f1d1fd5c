--------------------------- MODULE ProposalReviews ---------------------------
(***************************************************************************)
(* Proposals on file and the decisions of their reviewers: the store       *)
(* (src/learning/proposals), the approve and reject commands that read it  *)
(* before an await and write it after (src/learning/evolution/application),*)
(* and the promotion that relies on what they decided                      *)
(* (src/learning/evolution/release).                                       *)
(*                                                                         *)
(* A decision reads the proposal, computes its successor and checks it     *)
(* against the store in one step, then awaits the record of the decision   *)
(* (the audit log settles appends in order, RecordAppender), then writes   *)
(* proposal.yaml in place, and changes the store's own copy last.  Nothing *)
(* compares again after the awaits.                                        *)
(*                                                                         *)
(* Writing in place truncates first, and a write that fails or that a      *)
(* crash cuts off leaves the beginning of its text.  The status comes      *)
(* before the approvers and these before the evolution metadata, and the   *)
(* reader takes the last two as optional: many a beginning is read as a    *)
(* proposal with that status and with less behind it.  A store with a      *)
(* directory that cannot be read does not open.                            *)
(***************************************************************************)
EXTENDS Naturals, Sequences, FiniteSets

CONSTANTS
  Proposals,      \* proposals that may be authored
  Principals,     \* who may author, review and promote
  Names,          \* what a file may give as the name of an approver
  Begins,         \* what may be left of a name that is cut short
  AuthorOf,       \* the author of a proposal
  RiskClass,      \* its risk class
  Reviewers,      \* principals with the capability proposal.approve
  Promoters,      \* principals with the capability release.promote
  Calls,          \* decisions under way at once
  MaxBoots        \* bound: starts of the process

Risks == {"C1", "C2", "C3", "C4"}

ASSUME ShapeAssumption ==
  /\ AuthorOf \in [Proposals -> Principals]
  /\ RiskClass \in [Proposals -> Risks]
  /\ Principals \subseteq Names /\ Begins \in [Names -> SUBSET Names]
  /\ Reviewers \subseteq Principals /\ Promoters \subseteq Principals
  /\ MaxBoots \in Nat \ {0}

Verdicts == {"approved", "rejected"}
Statuses == {"authored", "awaiting-review"} \union Verdicts
Principal(s) == {s[i] : i \in DOMAIN s}

\* The evolution metadata (risk class, run, candidate and, last, the digest of
\* the dataset) is whole, ends in a digest cut short, or is not there.
Evolutions == {"whole", "short", "none"}
Metadata == [status : Statuses, approvers : Seq(Names), evolution : Evolutions]
Fresh == [status |-> "authored", approvers |-> <<>>, evolution |-> "whole"]

Torn == [status |-> "torn"]         \* a proposal.yaml that cannot be read

\* What the record of a decision says.
Records == [status : Statuses, approvers : Seq(Names)]
RecordOf(m) == [status |-> m.status, approvers |-> m.approvers]

Idle == [step |-> "idle"]
\* "by": the field approver. "raced": another decision of the proposal wrote
\* the file at the same time.
Decisions == [step : {"recording", "writing"}, proposal : Proposals,
              next : Metadata, by : Principals, raced : BOOLEAN]

VARIABLES
  directory,      \* proposal -> "none", "partial" or "whole"
  file,           \* proposal.yaml of a proposal
  memory,         \* FileProposalStore.#proposals of the running process
  open,           \* the store is open
  call,           \* the decisions under way
  waiting,        \* those whose record has not settled, in order
  recorded,       \* durable records of decisions
  promotions,     \* promotions that passed the eligibility check
  contested,      \* history: proposals on which two decisions overlapped
  cut,            \* history: those of which a write of the file failed
  boots

vars == <<directory, file, memory, open, call, waiting, recorded, promotions,
          contested, cut, boots>>
disk == <<directory, file, recorded>>

Init ==
  /\ directory = [p \in Proposals |-> "none"]
  /\ file = [p \in Proposals |-> Torn]
  /\ memory = <<>> /\ open = TRUE
  /\ call = [c \in Calls |-> Idle]
  /\ waiting = <<>> /\ recorded = {}
  /\ promotions = {} /\ contested = {} /\ cut = {}
  /\ boots = 1

Known == DOMAIN memory
Put(p, m) == [q \in Known \union {p} |-> IF q = p THEN m ELSE memory[q]]
Deciding(p) == {c \in Calls : call[c].step # "idle" /\ call[c].proposal = p}
Writers(p) == {c \in Deciding(p) : call[c].step = "writing"}

-----------------------------------------------------------------------------
(* Authoring: the files are created together, the directory first.          *)

StartAuthor(p) ==
  /\ open /\ directory[p] = "none"
  /\ directory' = [directory EXCEPT ![p] = "partial"]
  /\ UNCHANGED <<file, memory, open, call, waiting, recorded, promotions,
                 contested, cut, boots>>

EndAuthor(p) ==
  /\ open /\ directory[p] = "partial" /\ p \notin Known
  /\ directory' = [directory EXCEPT ![p] = "whole"]
  /\ file' = [file EXCEPT ![p] = Fresh]
  /\ memory' = Put(p, Fresh)
  /\ UNCHANGED <<open, call, waiting, recorded, promotions, contested, cut, boots>>

\* A write fails or is cut off: the directory cannot be read, or what was
\* written is enough to be read, as a proposal without its metadata too.
FailAuthor(p) ==
  /\ open /\ directory[p] = "partial" /\ p \notin Known
  /\ \E e \in Evolutions : file' = [file EXCEPT ![p] = [Fresh EXCEPT !.evolution = e]]
  /\ directory' = [directory EXCEPT ![p] = "whole"]
  /\ cut' = cut \union {p}
  /\ UNCHANGED <<memory, open, call, waiting, recorded, promotions, contested, boots>>

-----------------------------------------------------------------------------
(* Decisions.                                                               *)

\* Mutant: the higher risk class alone takes two reviews.
RequiredForC4(p, m) == IF m.evolution # "none" /\ RiskClass[p] = "C4" THEN 2 ELSE 1

\* A proposal without evolution metadata has no risk class.
RequiredReviews(p, m) ==
  IF m.evolution # "none" /\ RiskClass[p] \in {"C3", "C4"} THEN 2 ELSE 1

\* What an approval or a rejection makes of a proposal.
Outcome(p, m, reviewer, verdict) ==
  LET approvers == Append(m.approvers, reviewer) IN
  IF verdict = "rejected"
  THEN [status |-> "rejected",
        approvers |-> IF m.approvers = <<>> THEN <<reviewer>> ELSE m.approvers,
        evolution |-> m.evolution]
  ELSE [status |-> IF Len(approvers) >= RequiredReviews(p, m)
                   THEN "approved" ELSE "awaiting-review",
        approvers |-> approvers,
        evolution |-> m.evolution]

\* Both verdicts take the capability proposal.approve.
MayDecide(reviewer) == reviewer \in Reviewers

Permitted(p, m, reviewer, verdict) ==
  verdict = "approved" =>
    /\ reviewer # AuthorOf[p]
    /\ reviewer \notin Principal(m.approvers)

\* Mutant: any proposal may be decided.
UndecidedOrApproved(m) == m.status # "rejected"

Undecided(m) == m.status \in {"authored", "awaiting-review"}

\* What the store accepts as a successor of the copy it holds.
Successors(m) ==
  CASE m.status \in {"authored", "awaiting-review"} ->
         {"awaiting-review", "approved", "rejected"}
    [] m.status = "approved" -> {"rejected"}
    [] OTHER -> {}
ReviewsComplete(p, m) ==
  /\ Cardinality(Principal(m.approvers)) = Len(m.approvers)
  /\ AuthorOf[p] \notin Principal(m.approvers)
  /\ m.status = "awaiting-review" =>
       Len(m.approvers) \in 1..(RequiredReviews(p, m) - 1)
  /\ m.status = "approved" => Len(m.approvers) >= RequiredReviews(p, m)
Acceptable(p, m) ==
  m.status \in Successors(memory[p]) /\ ReviewsComplete(p, m)

\* The handler up to its first await: read, decide, check, ask for the record.
Decide(c, p, reviewer, verdict) ==
  /\ open /\ call[c] = Idle
  /\ p \in Known /\ MayDecide(reviewer)
  /\ Undecided(memory[p])
  /\ Permitted(p, memory[p], reviewer, verdict)
  /\ LET next == Outcome(p, memory[p], reviewer, verdict) IN
     /\ Acceptable(p, next)
     /\ call' = [call EXCEPT ![c] =
                   [step |-> "recording", proposal |-> p, next |-> next,
                    by |-> reviewer, raced |-> FALSE]]
  /\ waiting' = Append(waiting, c)
  /\ contested' = contested \union {q \in {p} : Deciding(p) # {}}
  /\ UNCHANGED <<directory, file, memory, open, recorded, promotions, cut, boots>>

\* Opening the file truncates it.
StartWrite(c) ==
  LET p == call[c].proposal
      others == Writers(p) IN
  /\ file' = [file EXCEPT ![p] = Torn]
  /\ call' = [d \in Calls |->
       IF d = c THEN [call[d] EXCEPT !.step = "writing", !.raced = others # {}]
       ELSE IF d \in others THEN [call[d] EXCEPT !.raced = TRUE]
       ELSE call[d]]

\* The oldest record is durable, and its decision begins to write the file.
Recorded ==
  /\ waiting # <<>>
  /\ LET c == Head(waiting) IN
     /\ recorded' = recorded \union {<<call[c].proposal, RecordOf(call[c].next)>>}
     /\ StartWrite(c)
  /\ waiting' = Tail(waiting)
  /\ UNCHANGED <<directory, memory, open, promotions, contested, cut, boots>>

\* Mutant: the file is written although its record was refused.
RefusedButWritten ==
  /\ waiting # <<>>
  /\ LET c == Head(waiting) IN
     StartWrite(c)
  /\ waiting' = Tail(waiting)
  /\ UNCHANGED <<directory, memory, open, recorded, promotions, contested, cut, boots>>

\* The append throws, or the file does not open after it, and so does the
\* command: the record may be durable.
Refused ==
  /\ waiting # <<>>
  /\ LET c == Head(waiting) IN
     /\ recorded' \in {recorded,
                       recorded \union {<<call[c].proposal, RecordOf(call[c].next)>>}}
     /\ call' = [call EXCEPT ![c] = Idle]
  /\ waiting' = Tail(waiting)
  /\ UNCHANGED <<directory, file, memory, open, promotions, contested, cut, boots>>

\* The approvers that a beginning of the text shows: none, the one of the
\* field approver, the first of the list, the last name of each cut short.
ApproversLeft(m, by) ==
  LET Heads == [k \in 0..Len(m.approvers) |-> SubSeq(m.approvers, 1, k)] IN
  {Heads[k] : k \in DOMAIN Heads} \union {<<n>> : n \in {by} \union Begins[by]}
    \union UNION {{Append(Heads[k - 1], n) :
                     n \in Begins[m.approvers[k]] \ Principal(Heads[k - 1])} :
                   k \in DOMAIN m.approvers}

\* What a write that ends early leaves of its text: nothing that can be read,
\* all of it, all but the end of the last digest, or no more than the approvers.
Beginnings(m, by) ==
  {Torn, m}
    \union {[m EXCEPT !.evolution = "short"] : e \in {m.evolution} \ {"none"}}
    \union {[status |-> m.status, approvers |-> l, evolution |-> "none"] :
              l \in ApproversLeft(m, by)}

\* Behind it the text of another writer may go on.
LeftBy(c) ==
  LET p == call[c].proposal
      next == call[c].next
      others == ({file[p]} \ {Torn}) \union {call[d].next : d \in Writers(p) \ {c}} IN
  Beginnings(next, call[c].by)
    \union IF call[c].raced
           THEN {file[p]} \union {[o EXCEPT !.status = next.status] : o \in others}
           ELSE {}

\* Of two writers of one file either text may stand when the second ends, or
\* a mixture of both that cannot be read.
WrittenBy(c) ==
  LET p == call[c].proposal IN
  IF call[c].raced THEN {call[c].next, file[p], Torn} ELSE {call[c].next}

EndWrite(c) ==
  /\ call[c].step = "writing"
  /\ \E text \in WrittenBy(c) :
       file' = [file EXCEPT ![call[c].proposal] = text]
  /\ memory' = Put(call[c].proposal, call[c].next)
  /\ call' = [call EXCEPT ![c] = Idle]
  /\ UNCHANGED <<directory, open, waiting, recorded, promotions, contested, cut, boots>>

\* Mutant: the store believes a write that failed.
FailWriteRemembered(c) ==
  /\ call[c].step = "writing"
  /\ memory' = Put(call[c].proposal, call[c].next)
  /\ file' = [file EXCEPT ![call[c].proposal] = memory[call[c].proposal]]
  /\ call' = [call EXCEPT ![c] = Idle]
  /\ UNCHANGED <<directory, open, waiting, recorded, promotions, contested, cut, boots>>

FailWrite(c) ==
  /\ call[c].step = "writing"
  /\ \E text \in LeftBy(c) :
       file' = [file EXCEPT ![call[c].proposal] = text]
  /\ cut' = cut \union {call[c].proposal}
  /\ call' = [call EXCEPT ![c] = Idle]
  /\ UNCHANGED <<directory, memory, open, waiting, recorded, promotions,
                 contested, boots>>

-----------------------------------------------------------------------------
(* Promotion: eligibility is decided on the proposal as the store holds it. *)

\* A digest cut short is not the one of the report.
Promotable(p, m) ==
  /\ m.status = "approved" /\ m.evolution = "whole"
  /\ Len(m.approvers) >= RequiredReviews(p, m)
ApprovalStands(p) == Promotable(p, memory[p])

Separated(p, promoter) ==
  /\ promoter # AuthorOf[p]
  /\ promoter \notin Principal(memory[p].approvers)

Promote(p, promoter) ==
  /\ open /\ p \in Known /\ promoter \in Promoters
  /\ ApprovalStands(p) /\ Separated(p, promoter)
  /\ promotions' = promotions \union {<<p, promoter>>}
  /\ UNCHANGED <<disk, memory, open, call, waiting, contested, cut, boots>>

-----------------------------------------------------------------------------
(* The process ends anywhere and is started again.                          *)

\* What a crash leaves of the file of a proposal.
Left(p) ==
  IF Writers(p) = {} THEN {file[p]} ELSE UNION {LeftBy(c) : c \in Writers(p)}

Crash ==
  /\ open /\ boots < MaxBoots
  /\ \E left \in [Proposals -> UNION {Left(p) : p \in Proposals}] :
       /\ \A p \in Proposals : left[p] \in Left(p)
       /\ file' = left
  /\ cut' = cut \union {p \in Proposals : Writers(p) # {}}
  /\ open' = FALSE
  /\ memory' = <<>> /\ waiting' = <<>>
  /\ call' = [c \in Calls |-> Idle]
  /\ UNCHANGED <<directory, recorded, promotions, contested, boots>>

Readable(p) == directory[p] = "whole" /\ file[p] # Torn
Stored == {p \in Proposals : directory[p] # "none"}

\* One directory that cannot be read keeps the store from opening.
Reload ==
  /\ ~open
  /\ \A p \in Stored : Readable(p)
  /\ open' = TRUE /\ boots' = boots + 1
  /\ memory' = [p \in Stored |-> file[p]]
  /\ UNCHANGED <<disk, call, waiting, promotions, contested, cut>>

Next ==
  \/ \E p \in Proposals : StartAuthor(p) \/ EndAuthor(p) \/ FailAuthor(p)
  \/ \E c \in Calls :
       \/ \E p \in Proposals, r \in Principals, v \in Verdicts : Decide(c, p, r, v)
       \/ EndWrite(c) \/ FailWrite(c)
  \/ Recorded \/ Refused
  \/ \E p \in Proposals, r \in Principals : Promote(p, r)
  \/ Crash \/ Reload

Spec == Init /\ [][Next]_vars

-----------------------------------------------------------------------------
(* Properties.                                                              *)

TypeOK ==
  /\ directory \in [Proposals -> {"none", "partial", "whole"}]
  /\ file \in [Proposals -> Metadata \union {Torn}]
  /\ Known \subseteq Proposals /\ \A p \in Known : memory[p] \in Metadata
  /\ open \in BOOLEAN /\ boots \in 1..MaxBoots
  /\ call \in [Calls -> {Idle} \union Decisions]
  /\ waiting \in Seq(Calls)
  /\ recorded \subseteq Proposals \X Records
  /\ promotions \subseteq Proposals \X Promoters
  /\ contested \subseteq Proposals /\ cut \subseteq Proposals

\* A proposal as the store and as its readable file show it.
Versions(p) ==
  {memory[q] : q \in Known \intersect {p}} \union ({file[p]} \ {Torn})

\* Two writers of its file met and one of them failed: the file may show the
\* decision of the one and the approvers of the other.
Mixed == cut \intersect contested

\* An approved proposal was approved by as many principals as its risk asks
\* for, all different, none its author: a high risk takes two.
Backed(p, m) ==
  m.status = "approved" =>
    Cardinality((Principal(m.approvers) \intersect Principals) \ {AuthorOf[p]})
      >= IF RiskClass[p] \in {"C1", "C2"} THEN 1 ELSE 2

\* However decisions overlap, fail and are read back, no approval stands on
\* fewer reviews than its risk class takes, neither in the store nor on disk
\* (reviews.ts: "Proposal does not have every required review"), but for what
\* is left of a cut text without its metadata or of two texts; and of these
\* none that a promotion accepts.
ApprovedHasQuorum ==
  /\ TypeOK
  /\ \A p \in Proposals : \A m \in Versions(p) :
       \/ Promotable(p, m)
       \/ m.evolution # "none" /\ p \notin Mixed
       => Backed(p, m)

\* A decision that the store or the disk shows has its durable record, with
\* the approvers it shows: the append is awaited before the write. What is
\* left of a text that was cut shows a decision that is on record for the
\* proposal, with fewer approvers or with those of the other text.
OnRecord(p, m) ==
  m.status # "authored" =>
    IF m.evolution # "none" /\ p \notin Mixed
    THEN <<p, RecordOf(m)>> \in recorded
    ELSE p \in cut /\ \E r \in recorded : r[1] = p /\ r[2].status = m.status
DecisionsRecorded == \A p \in Proposals : \A m \in Versions(p) : OnRecord(p, m)

\* The store and the disk agree, after reloads too, unless two decisions of
\* the proposal overlapped. While a decision writes, and after a write that
\* failed, the file cannot be read or it is ahead: it shows a decision while
\* the store still has the proposal undecided.
DiskAgrees ==
  \A p \in Known \ contested :
    \/ file[p] = memory[p]
    \/ /\ Undecided(memory[p]) /\ (Writers(p) # {} \/ p \in cut)
       /\ file[p] = Torn \/ file[p].status # "authored"

\* A proposal that was promoted stays approved, and its promoter never becomes
\* one of its reviewers ("author, approver, and promoter must be distinct"),
\* unless two decisions of the proposal overlapped.
PromotionsStand ==
  \A p \in Known \ contested, promoter \in Promoters :
    <<p, promoter>> \in promotions =>
      /\ memory[p].status = "approved"
      /\ promoter \notin Principal(memory[p].approvers) \union {AuthorOf[p]}

\* What the assertion of reviews.ts suggests, and an update keeps: whatever the
\* store holds as approved has its reviews. A reload does not look at them.
ApprovalsAreComplete == \A p \in Known : Backed(p, memory[p])
=============================================================================
