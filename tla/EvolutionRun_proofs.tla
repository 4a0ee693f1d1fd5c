------------------------ MODULE EvolutionRun_proofs ------------------------
(***************************************************************************)
(* Type correctness of EvolutionRun, its evidence invariants, and what     *)
(* commands that run alone keep to, for any number of commands, candidates *)
(* and datasets.                                                           *)
(***************************************************************************)
EXTENDS EvolutionRun, TLAPS

----------------------------------------------------------------------------
(***************************************************************************)
(* Type correctness                                                        *)
(***************************************************************************)
\* The constructors build runs.
LEMMA RunConstructors ==
  /\ \A s \in RunStates \cup {"none"}, d \in Datasets \cup {Nil} :
       Plain(s, d) \in Run
  /\ \A d \in Datasets \cup {Nil}, b \in BOOLEAN : Optimizing(d, b) \in Run
  /\ \A d \in Datasets \cup {Nil}, cs \in SUBSET Candidates :
       Shortlisted(d, cs) \in Run
  /\ \A d \in Datasets \cup {Nil}, r \in Reports : Evaluated(d, r) \in Run
  /\ \A d \in Datasets \cup {Nil}, n \in 0..MaxProposals :
       AwaitingReview(d, n) \in Run
  BY ConstantsAssumption
     DEF Run, Plain, Optimizing, Shortlisted, Evaluated, AwaitingReview,
         RunStates, TerminalStates

\* Reading the run keeps a command well typed.
LEMMA TypeGet ==
  ASSUME TypeOK, NEW c \in Calls, NEW step \in Steps, Get(c, step)
  PROVE  pc' \in [Calls -> Steps] /\ run' \in [Calls -> Run]
  BY DEF TypeOK, Get, Goto, Hold

\* So does returning.
LEMMA TypeReturn ==
  ASSUME TypeOK, NEW c \in Calls, Return(c)
  PROVE  /\ pc' \in [Calls -> Steps]
         /\ run' \in [Calls -> Run]
         /\ batch' \in [Calls -> SUBSET Candidates]
         /\ paused' \in [Calls -> BOOLEAN]
         /\ report' \in [Calls -> Reports \cup {Nil}]
<1>1. Plain("none", Nil) \in Run
  BY RunConstructors
<1>2. QED
  BY <1>1 DEF TypeOK, Return, Goto, Hold, Steps

\* And saving a run and returning.
LEMMA TypeSave ==
  ASSUME TypeOK, NEW c \in Calls, NEW r \in Run, SaveAndReturn(c, r)
  PROVE  TypeOK'
<1>1. Return(c)
  BY DEF SaveAndReturn
<1>2. stored' \in Run /\ UNCHANGED <<stores, job>>
  BY DEF SaveAndReturn, Save
<1>3. QED
  BY <1>1, <1>2, TypeReturn DEF TypeOK, stores

\* A command that only moves on, with the engine's job in some state.
LEMMA TypeGoto ==
  ASSUME TypeOK, NEW c \in Calls, NEW step \in Steps, Goto(c, step),
         job' \in {"none", "running", "paused", "stopped"},
         UNCHANGED <<stored, stores, run, Results>>
  PROVE  TypeOK'
  BY DEF TypeOK, Goto, stores, Results

\* The outcome of an optimization is a run.
LEMMA OutcomeType ==
  ASSUME NEW d \in Datasets \cup {Nil}, NEW cs \in SUBSET Candidates
  PROVE  Outcome(d, cs) \in Run
<1>1. Shortlist(cs) \in SUBSET Candidates
  BY DEF Shortlist
<1>2. {"budget-exhausted", "rejected"} \subseteq RunStates
  BY DEF RunStates, TerminalStates
<1>3. QED
  BY <1>1, <1>2, RunConstructors DEF Outcome

\* A command that holds a report holds one from the evaluator.
HasReport ==
  \A c \in Calls :
    pc[c] \in {"judged", "reported", "propose", "author"} => report[c] # Nil

\* Every step keeps every variable in its type.
LEMMA TypeStep == TypeOK /\ HasReport /\ [Next]_vars => TypeOK'
<1> SUFFICES ASSUME TypeOK, HasReport, [Next]_vars PROVE TypeOK'
  OBVIOUS
<1>s. \A s \in {"none", "detected", "scoped", "dataset-ready", "cancelled",
                "budget-exhausted"} : s \in RunStates \cup {"none"}
  BY DEF RunStates, TerminalStates
<1>r. \A c \in Calls : /\ run[c] \in Run
                       /\ run[c].dataset \in Datasets \cup {Nil}
  BY DEF TypeOK, Run
<1>g. ASSUME NEW c \in Calls, NEW step \in Steps, Get(c, step),
             job' \in {"none", "running", "paused", "stopped"},
             UNCHANGED <<stored, stores, Results>>
      PROVE  TypeOK'
  BY <1>g, TypeGet DEF TypeOK, stores, Results
<1>j. job \in {"none", "running", "paused", "stopped"}
  BY DEF TypeOK
<1>1. ASSUME NEW c \in Calls, Command(c) PROVE TypeOK'
  <2>1. CASE Scope(c)
    <3>1. Plain("detected", Nil) \in Run
      BY <1>s, RunConstructors
    <3>2. QED
      BY <2>1, <3>1
         DEF Scope, Save, Hold, Goto, TypeOK, Steps, stores, Results
  <2>2. CASE SaveScoped(c)
    BY <2>2, <1>s, RunConstructors, TypeSave DEF SaveScoped
  <2>3. CASE Attach(c)
    BY <2>3, <1>g, <1>j DEF Attach, Steps
  <2>4. CASE SaveDataset(c)
    BY <2>4, <1>s, RunConstructors, TypeSave DEF SaveDataset
  <2>5. CASE Optimize(c)
    BY <2>5, <1>g, <1>j DEF Optimize, Steps
  <2>6. CASE BeginOptimization(c)
    <3>1. Optimizing(run[c].dataset, FALSE) \in Run
      BY <1>r, RunConstructors
    <3>2. QED
      BY <2>6, <3>1
         DEF BeginOptimization, Save, Hold, Goto, TypeOK, Steps, stores,
             Results
  <2>7. CASE Expire(c)
    BY <2>7, <1>j, TypeGoto DEF Expire, Steps
  <2>8. CASE CancelExpired(c)
    BY <2>8, <1>j, TypeGoto DEF CancelExpired, Killed, Steps
  <2>9. CASE SaveExpired(c)
    BY <2>9, <1>s, <1>r, RunConstructors, TypeSave DEF SaveExpired
  <2>10. CASE Resume(c)
    BY <2>10, <1>g DEF Resume, Steps
  <2>11. CASE Answer(c)
    BY <2>11 DEF Answer, Goto, TypeOK, Steps, stores
  <2>12. CASE StoreCandidates(c)
    <3>1. candidates' \in SUBSET Candidates
      BY <2>12 DEF StoreCandidates, TypeOK
    <3>2. QED
      BY <2>12, <3>1 DEF StoreCandidates, Goto, TypeOK, Steps
  <2>13. CASE StoreSomeAndFail(c)
    <3>1. candidates' \in SUBSET Candidates
      BY <2>13 DEF StoreSomeAndFail, TypeOK
    <3>2. Return(c) /\ UNCHANGED <<stored, reports, proposals, job>>
      BY <2>13 DEF StoreSomeAndFail
    <3>3. QED
      BY <3>1, <3>2, TypeReturn DEF TypeOK
  <2>14. CASE SavePausedAnswer(c)
    BY <2>14, <1>r, RunConstructors, TypeSave DEF SavePausedAnswer
  <2>15. CASE SaveOutcome(c)
    <3>1. Outcome(run[c].dataset, batch[c]) \in Run
      BY <1>r, OutcomeType DEF TypeOK
    <3>2. SaveAndReturn(c, Outcome(run[c].dataset, batch[c]))
      BY <2>15 DEF SaveOutcome
    <3>3. QED
      BY <3>1, <3>2, TypeSave
  <2>16. CASE Pause(c)
    BY <2>16, <1>g, <1>j DEF Pause, Steps
  <2>17. CASE AskPause(c)
    BY <2>17, <1>j, TypeGoto DEF AskPause, Steps
  <2>18. CASE EnginePaused(c)
    BY <2>18, <1>j, TypeGoto DEF EnginePaused, Steps
  <2>19. CASE SavePaused(c)
    BY <2>19, <1>r, RunConstructors, TypeSave DEF SavePaused
  <2>20. CASE Cancel(c)
    BY <2>20, <1>g, <1>j DEF Cancel, Steps
  <2>21. CASE EngineCancelled(c)
    BY <2>21, <1>j, TypeGoto DEF EngineCancelled, Killed, Steps
  <2>22. CASE SaveCancelled(c)
    BY <2>22, <1>s, <1>r, RunConstructors, TypeSave DEF SaveCancelled
  <2>23. CASE Compare(c)
    BY <2>23, <1>g, <1>j DEF Compare, Steps
  <2>24. CASE Judge(c)
    <3>1. PICK chosen \in candidates, passed \in BOOLEAN :
            /\ run[c].dataset \in Datasets
            /\ report' = [report EXCEPT ![c] =
                            [candidate |-> chosen,
                             dataset |-> run[c].dataset, passed |-> passed]]
      BY <2>24 DEF Judge
    <3>2. [candidate |-> chosen, dataset |-> run[c].dataset,
           passed |-> passed] \in Reports
      BY <3>1 DEF TypeOK, Reports
    <3>3. QED
      BY <2>24, <3>1, <3>2 DEF Judge, Goto, TypeOK, Steps, stores
  <2>25. CASE StoreReport(c)
    <3>1. report[c] \in Reports
      BY <2>25 DEF StoreReport, At, HasReport, TypeOK
    <3>2. QED
      BY <2>25, <3>1
         DEF StoreReport, Hold, Goto, TypeOK, Steps, Results
  <2>26. CASE SaveEvaluated(c)
    <3>1. report[c] \in Reports
      BY <2>26 DEF SaveEvaluated, At, HasReport, TypeOK
    <3>2. Evaluated(run[c].dataset, report[c]) \in Run
      BY <1>r, <3>1, RunConstructors
    <3>3. QED
      BY <2>26, <3>2, TypeSave DEF SaveEvaluated
  <2>27. CASE Propose(c)
    <3>1. Get(c, "propose") /\ UNCHANGED <<stored, stores, job, paused>>
      BY <2>27 DEF Propose
    <3>2. pc' \in [Calls -> Steps] /\ run' \in [Calls -> Run]
      BY <3>1, TypeGet DEF Steps
    <3>3. batch' \in [Calls -> SUBSET Candidates]
      BY <2>27 DEF Propose, TypeOK
    <3>4. report' \in [Calls -> Reports \cup {Nil}]
      BY <2>27 DEF Propose, TypeOK
    <3>5. QED
      BY <3>1, <3>2, <3>3, <3>4 DEF TypeOK, stores
  <2>28. CASE ReadForProposal(c)
    BY <2>28 DEF ReadForProposal, Hold, Goto, TypeOK, Steps, stores, Results
  <2>29. CASE Author(c)
    <3>1. report[c] \in Reports
      BY <2>29 DEF Author, At, HasReport, TypeOK
    <3>2. PICK named \in batch[c] :
            proposals' = Append(proposals, [candidate |-> named,
                                            report |-> report[c]])
      BY <2>29 DEF Author
    <3>3. [candidate |-> named, report |-> report[c]] \in Proposal
      BY <3>1, <3>2 DEF TypeOK, Proposal
    <3>4. /\ Len(proposals) < MaxProposals
          /\ Hold(c, AwaitingReview(run[c].dataset, Len(proposals) + 1))
          /\ Goto(c, "authored")
          /\ UNCHANGED <<stored, candidates, reports, job, Results>>
      BY <2>29 DEF Author
    <3>5. proposals' \in Seq(Proposal) /\ Len(proposals') <= MaxProposals
      BY <3>2, <3>3, <3>4, ConstantsAssumption DEF TypeOK
    <3>6. Len(proposals) + 1 \in 0..MaxProposals
      BY <3>4, ConstantsAssumption DEF TypeOK
    <3>7. AwaitingReview(run[c].dataset, Len(proposals) + 1) \in Run
      BY <1>r, <3>6, RunConstructors
    <3>8. run' \in [Calls -> Run] /\ pc' \in [Calls -> Steps]
      BY <3>4, <3>7 DEF Hold, Goto, TypeOK, Steps
    <3>9. QED
      BY <3>4, <3>5, <3>8 DEF TypeOK, Results
  <2>30. CASE SaveAwaitingReview(c)
    BY <2>30, <1>r, TypeSave DEF SaveAwaitingReview
  <2>31. CASE Abandon(c)
    <3>1. Return(c) /\ UNCHANGED <<stored, stores, job>>
      BY <2>31 DEF Abandon
    <3>2. QED
      BY <3>1, TypeReturn DEF TypeOK, stores
  <2>32. QED
    BY <1>1, <2>1, <2>2, <2>3, <2>4, <2>5, <2>6, <2>7, <2>8, <2>9, <2>10,
       <2>11, <2>12, <2>13, <2>14, <2>15, <2>16, <2>17, <2>18, <2>19, <2>20,
       <2>21, <2>22, <2>23, <2>24, <2>25, <2>26, <2>27, <2>28, <2>29, <2>30,
       <2>31 DEF Command
<1>2. CASE SliceEnds
  BY <1>2 DEF SliceEnds, TypeOK, stores, Results
<1>3. CASE UNCHANGED vars
  BY <1>3 DEF vars, TypeOK, stores
<1>4. QED
  BY <1>1, <1>2, <1>3 DEF Next

\* No step leaves a command at a step that uses a report without one.
LEMMA ReportStep == TypeOK /\ HasReport /\ [Next]_vars => HasReport'
<1> SUFFICES ASSUME TypeOK, HasReport, [Next]_vars PROVE HasReport'
  OBVIOUS
<1>f. /\ pc \in [Calls -> Steps]
      /\ report \in [Calls -> Reports \cup {Nil}]
  BY DEF TypeOK
<1>m. ASSUME NEW c \in Calls, NEW step, Goto(c, step),
             step \notin {"judged", "reported", "propose", "author"},
             UNCHANGED report
      PROVE  HasReport'
  BY <1>f, <1>m DEF HasReport, Goto
<1>r. ASSUME NEW c \in Calls, Return(c) PROVE HasReport'
  BY <1>f, <1>r DEF HasReport, Return, Goto
<1>1. ASSUME NEW c \in Calls, Command(c) PROVE HasReport'
  <2>1. CASE \/ Scope(c) \/ Attach(c) \/ Optimize(c) \/ BeginOptimization(c)
             \/ Expire(c) \/ CancelExpired(c) \/ Resume(c) \/ Answer(c)
             \/ StoreCandidates(c) \/ Pause(c) \/ AskPause(c)
             \/ EnginePaused(c) \/ Cancel(c) \/ EngineCancelled(c)
             \/ Compare(c) \/ Author(c)
    <3>1. /\ UNCHANGED report
          /\ \E step \in Steps \ {"judged", "reported", "propose", "author"} :
               Goto(c, step)
      BY <2>1
         DEF Scope, Attach, Optimize, BeginOptimization, Expire, Steps,
             CancelExpired, Resume, Answer, StoreCandidates, Pause, AskPause,
             EnginePaused, Cancel, EngineCancelled, Compare, Author, Get,
             Results
    <3>2. QED
      BY <3>1, <1>m
  <2>2. CASE \/ SaveScoped(c) \/ SaveDataset(c) \/ SaveExpired(c)
             \/ StoreSomeAndFail(c) \/ SavePausedAnswer(c) \/ SaveOutcome(c)
             \/ SavePaused(c) \/ SaveCancelled(c) \/ SaveEvaluated(c)
             \/ SaveAwaitingReview(c) \/ Abandon(c)
    <3>1. Return(c)
      BY <2>2
         DEF SaveScoped, SaveDataset, SaveExpired, StoreSomeAndFail,
             SavePausedAnswer, SaveOutcome, SavePaused, SaveCancelled,
             SaveEvaluated, SaveAwaitingReview, Abandon, SaveAndReturn
    <3>2. QED
      BY <3>1, <1>r
  <2>3. CASE Judge(c)
    <3>1. PICK chosen \in candidates, passed \in BOOLEAN :
            /\ run[c].dataset \in Datasets
            /\ report' = [report EXCEPT ![c] =
                            [candidate |-> chosen,
                             dataset |-> run[c].dataset, passed |-> passed]]
      BY <2>3 DEF Judge
    <3>2. [candidate |-> chosen, dataset |-> run[c].dataset,
           passed |-> passed] \in Reports
      BY <3>1 DEF TypeOK, Reports
    <3>3. QED
      BY <2>3, <3>1, <3>2, <1>f, NilAssumption DEF Judge, Goto, HasReport
  <2>4. CASE StoreReport(c) \/ ReadForProposal(c)
    BY <2>4, <1>f
       DEF StoreReport, ReadForProposal, At, Goto, HasReport, Results
  <2>5. CASE Propose(c)
    <3>1. stored.report # Nil
      BY <2>5, NilAssumption DEF Propose, TypeOK
    <3>2. QED
      BY <2>5, <3>1, <1>f DEF Propose, Get, Goto, HasReport
  <2>6. QED
    BY <1>1, <2>1, <2>2, <2>3, <2>4, <2>5 DEF Command
<1>2. CASE SliceEnds
  BY <1>2 DEF SliceEnds, HasReport, Results
<1>3. CASE UNCHANGED vars
  BY <1>3 DEF vars, HasReport
<1>4. QED
  BY <1>1, <1>2, <1>3 DEF Next

\* The initial state is well typed and no command holds a report.
LEMMA TypeInit == Init => TypeOK /\ HasReport
<1> SUFFICES ASSUME Init PROVE TypeOK /\ HasReport
  OBVIOUS
<1>1. Plain("none", Nil) \in Run
  BY RunConstructors
<1>2. proposals \in Seq(Proposal) /\ Len(proposals) <= MaxProposals
  BY ConstantsAssumption DEF Init
<1>3. TypeOK
  BY <1>1, <1>2 DEF Init, TypeOK, Steps
<1>4. HasReport
  BY DEF Init, HasReport
<1>5. QED
  BY <1>3, <1>4

\* Every variable keeps its type, whatever commands overlap.
THEOREM TypeCorrect == Spec => []TypeOK
<1>1. TypeOK /\ HasReport /\ [Next]_vars => (TypeOK /\ HasReport)'
  BY TypeStep, ReportStep
<1>2. QED
  BY <1>1, TypeInit, PTL DEF Spec

----------------------------------------------------------------------------
(***************************************************************************)
(* The evidence invariants.  The inductive invariant says of the run a     *)
(* command holds what the property says of the file: its evidence is       *)
(* stored.  Nothing is ever removed from the stores, so what was there     *)
(* when the run was read is there when it is saved, however stale the run  *)
(* is by then.  The stores are parameters: cs candidates, rs reports and n *)
(* proposals.                                                              *)
(***************************************************************************)
SoundBy(r, cs, rs) == r \in rs /\ r.candidate \in cs \cap Eligible

EvidencedBy(r, cs, rs, n) ==
  /\ r.state = "shortlisted" => r.shortlist \subseteq cs \cap Eligible
  /\ r.state = "evaluated" =>
       SoundBy(r.report, cs, rs) /\ r.report.dataset = r.dataset
  /\ r.state = "awaiting-review" => r.proposal \in 1..n

\* What a command at a step holds: the run, the candidates and the report.
HeldBy(step, r, b, rep, cs, rs, n) ==
  /\ EvidencedBy(r, cs, rs, n)
  /\ step = "listed" => b \subseteq cs
  /\ step \in {"propose", "author"} => b \subseteq cs /\ SoundBy(rep, cs, rs)
  /\ step = "reported" => SoundBy(rep, cs, rs) /\ rep.dataset = r.dataset
  /\ step = "authored" => r.state = "awaiting-review"

Held(c) == HeldBy(pc[c], run[c], batch[c], report[c],
                  candidates, reports, Len(proposals))

IInv ==
  /\ TypeOK
  /\ HasReport
  /\ EvidencedBy(stored, candidates, reports, Len(proposals))
  /\ \A c \in Calls : Held(c)
  /\ ProposalsRestOnEvidence

\* Evidence is kept when the stores grow.
LEMMA EvidenceGrows ==
  ASSUME NEW r, NEW cs, NEW rs, NEW n \in Nat, NEW cs2, NEW rs2,
         NEW n2 \in Nat, cs \subseteq cs2, rs \subseteq rs2, n <= n2,
         EvidencedBy(r, cs, rs, n)
  PROVE  EvidencedBy(r, cs2, rs2, n2)
<1>1. r.state = "awaiting-review" => r.proposal \in 1..n2
  BY DEF EvidencedBy
<1>2. r.state = "shortlisted" => r.shortlist \subseteq cs2 \cap Eligible
  BY DEF EvidencedBy
<1>3. r.state = "evaluated" =>
        SoundBy(r.report, cs2, rs2) /\ r.report.dataset = r.dataset
  BY DEF EvidencedBy, SoundBy
<1>4. QED
  BY <1>1, <1>2, <1>3 DEF EvidencedBy

\* And so is what a command holds.
LEMMA HeldGrows ==
  ASSUME NEW step, NEW r, NEW b, NEW rep, NEW cs, NEW rs, NEW n \in Nat,
         NEW cs2, NEW rs2, NEW n2 \in Nat,
         cs \subseteq cs2, rs \subseteq rs2, n <= n2,
         HeldBy(step, r, b, rep, cs, rs, n)
  PROVE  HeldBy(step, r, b, rep, cs2, rs2, n2)
<1>1. EvidencedBy(r, cs2, rs2, n2)
  BY EvidenceGrows DEF HeldBy
<1>2. SoundBy(rep, cs, rs) => SoundBy(rep, cs2, rs2)
  BY DEF SoundBy
<1>3. b \subseteq cs => b \subseteq cs2
  OBVIOUS
<1>4. QED
  BY <1>1, <1>2, <1>3 DEF HeldBy

\* A run that carries no evidence needs none.
LEMMA NothingToShow ==
  ASSUME NEW cs, NEW rs, NEW n
  PROVE  /\ \A s, d : s \notin {"shortlisted", "evaluated", "awaiting-review"}
                      => EvidencedBy(Plain(s, d), cs, rs, n)
         /\ \A d, t : EvidencedBy(Optimizing(d, t), cs, rs, n)
  BY DEF EvidencedBy, Plain, Optimizing

\* The stores only grow.
LEMMA StoresGrow ==
  ASSUME IInv, [Next]_vars
  PROVE  /\ candidates \subseteq candidates'
         /\ reports \subseteq reports'
         /\ Len(proposals) \in Nat
         /\ Len(proposals') \in Nat
         /\ Len(proposals) <= Len(proposals')
<1>1. TypeOK /\ TypeOK'
  BY TypeStep DEF IInv
<1>2. Len(proposals) \in Nat /\ Len(proposals') \in Nat
  BY <1>1 DEF TypeOK
<1>u. CASE UNCHANGED stores
  BY <1>u, <1>2 DEF stores
<1>3. ASSUME NEW c \in Calls, Command(c), ~UNCHANGED stores
      PROVE  \/ StoreCandidates(c) \/ StoreSomeAndFail(c)
             \/ StoreReport(c) \/ Author(c)
  BY <1>3
     DEF Command, Scope, SaveScoped, Attach, SaveDataset, Optimize,
         BeginOptimization, Expire, CancelExpired, SaveExpired, Resume,
         Answer, SavePausedAnswer, SaveOutcome, Pause, AskPause, EnginePaused,
         SavePaused, Cancel, EngineCancelled, SaveCancelled, Compare, Judge,
         SaveEvaluated, Propose, ReadForProposal, SaveAwaitingReview, Abandon,
         SaveAndReturn, stores
<1>4. ASSUME NEW c \in Calls,
             StoreCandidates(c) \/ StoreSomeAndFail(c) \/ StoreReport(c)
      PROVE  /\ candidates \subseteq candidates'
             /\ reports \subseteq reports'
             /\ proposals' = proposals
  BY <1>4 DEF StoreCandidates, StoreSomeAndFail, StoreReport
<1>5. ASSUME NEW c \in Calls, Author(c)
      PROVE  /\ UNCHANGED <<candidates, reports>>
             /\ Len(proposals') = Len(proposals) + 1
  <2>1. PICK p : proposals' = Append(proposals, p)
    BY <1>5 DEF Author
  <2>2. QED
    BY <1>5, <2>1, <1>1 DEF Author, TypeOK
<1>6. CASE \E c \in Calls : Command(c)
  BY <1>u, <1>2, <1>3, <1>4, <1>5, <1>6
<1>7. CASE SliceEnds \/ UNCHANGED vars
  BY <1>u, <1>7 DEF SliceEnds, vars
<1>8. QED
  BY <1>6, <1>7 DEF Next

\* A step that leaves the file, the other commands and the proposals alone
\* has to show only what its own command holds.
LEMMA OwnCommand ==
  ASSUME IInv, [Next]_vars, NEW c \in Calls,
         stored' = stored \/ EvidencedBy(stored', candidates, reports,
                                        Len(proposals)),
         \A d \in Calls \ {c} : /\ pc'[d] = pc[d]
                                 /\ run'[d] = run[d]
                                 /\ batch'[d] = batch[d]
                                 /\ report'[d] = report[d],
         Held(c)'
  PROVE  /\ EvidencedBy(stored, candidates, reports, Len(proposals))'
         /\ \A d \in Calls : Held(d)'
<1>g. /\ candidates \subseteq candidates'
      /\ reports \subseteq reports'
      /\ Len(proposals) \in Nat
      /\ Len(proposals') \in Nat
      /\ Len(proposals) <= Len(proposals')
  BY StoresGrow
<1>1. EvidencedBy(stored', candidates, reports, Len(proposals))
  BY DEF IInv
<1>2. EvidencedBy(stored', candidates', reports', Len(proposals'))
  BY <1>1, <1>g, EvidenceGrows
<1>3. ASSUME NEW d \in Calls \ {c} PROVE Held(d)'
  <2>1. HeldBy(pc[d], run[d], batch[d], report[d], candidates, reports,
               Len(proposals))
    BY DEF IInv, Held
  <2>2. HeldBy(pc[d], run[d], batch[d], report[d], candidates', reports',
               Len(proposals'))
    BY <2>1, <1>g, HeldGrows
  <2>3. QED
    BY <2>2 DEF Held
<1>4. QED
  BY <1>2, <1>3

\* The evidence of what a command that returned holds: none is needed.
LEMMA ReturnHolds ==
  ASSUME TypeOK, NEW c \in Calls, Return(c)
  PROVE  /\ Held(c)'
         /\ \A d \in Calls \ {c} : /\ pc'[d] = pc[d]
                                   /\ run'[d] = run[d]
                                   /\ batch'[d] = batch[d]
                                   /\ report'[d] = report[d]
<1>1. /\ pc'[c] = "idle"
      /\ run'[c] = Plain("none", Nil)
  BY DEF Return, Goto, Hold, TypeOK
<1>2. EvidencedBy(Plain("none", Nil), candidates', reports', Len(proposals'))
  BY NothingToShow
<1>3. Held(c)'
  BY <1>1, <1>2 DEF Held, HeldBy
<1>4. QED
  BY <1>3 DEF Return, Goto, Hold, TypeOK

\* What a passing proposal rests on stays stored, and a new one is written
\* only on what its command holds.
LEMMA ProposalsStep ==
  ASSUME IInv, [Next]_vars
  PROVE  ProposalsRestOnEvidence'
<1>g. candidates \subseteq candidates' /\ reports \subseteq reports'
  BY StoresGrow
<1>t. TypeOK
  BY DEF IInv
<1>1. CASE proposals' = proposals
  BY <1>1, <1>g DEF IInv, ProposalsRestOnEvidence
<1>2. ASSUME NEW c \in Calls, Author(c) PROVE ProposalsRestOnEvidence'
  <2>1. PICK named \in batch[c] :
          /\ Supports(report[c], named, run[c])
          /\ proposals' = Append(proposals, [candidate |-> named,
                                            report |-> report[c]])
    BY <1>2 DEF Author
  <2>2. SoundBy(report[c], candidates, reports)
    BY <1>2 DEF Author, At, IInv, Held, HeldBy
  <2>3. report[c].candidate = named /\ report[c].passed
    BY <2>1 DEF Supports
  <2>4. proposals \in Seq(Proposal)
    BY <1>t DEF TypeOK
  <2>5. ASSUME NEW n \in 1..Len(proposals')
        PROVE  LET p == proposals'[n] IN
                 /\ p.report \in reports'
                 /\ p.report.passed
                 /\ p.report.candidate = p.candidate
                 /\ p.candidate \in candidates' \cap Eligible
    <3>1. CASE n \in 1..Len(proposals)
      <4>1. proposals'[n] = proposals[n]
        BY <2>1, <2>4, <3>1
      <4>2. QED
        BY <3>1, <4>1, <1>g DEF IInv, ProposalsRestOnEvidence
    <3>2. CASE n = Len(proposals) + 1
      <4>1. proposals'[n] = [candidate |-> named, report |-> report[c]]
        BY <2>1, <2>4, <3>2
      <4>2. QED
        BY <4>1, <2>2, <2>3, <1>g DEF SoundBy
    <3>3. QED
      BY <2>1, <2>4, <3>1, <3>2
  <2>6. QED
    BY <2>5 DEF ProposalsRestOnEvidence
<1>3. ASSUME NEW c \in Calls, Command(c), proposals' # proposals
      PROVE  Author(c)
  BY <1>3
     DEF Command, Scope, SaveScoped, Attach, SaveDataset, Optimize,
         BeginOptimization, Expire, CancelExpired, SaveExpired, Resume,
         Answer, StoreCandidates, StoreSomeAndFail, SavePausedAnswer,
         SaveOutcome, Pause, AskPause, EnginePaused, SavePaused, Cancel,
         EngineCancelled, SaveCancelled, Compare, Judge, StoreReport,
         SaveEvaluated, Propose, ReadForProposal, SaveAwaitingReview, Abandon,
         SaveAndReturn, stores
<1>4. CASE SliceEnds \/ UNCHANGED vars
  BY <1>1, <1>4 DEF SliceEnds, vars, stores
<1>5. QED
  BY <1>1, <1>2, <1>3, <1>4 DEF Next

\* What the others hold does not change.
OthersKeep(c) ==
  \A d \in Calls \ {c} : /\ pc'[d] = pc[d]
                         /\ run'[d] = run[d]
                         /\ batch'[d] = batch[d]
                         /\ report'[d] = report[d]

EvidenceHolds ==
  /\ EvidencedBy(stored, candidates, reports, Len(proposals))
  /\ \A d \in Calls : Held(d)

\* A save of a run whose evidence is stored keeps every run's evidence.
LEMMA SaveHolds ==
  ASSUME IInv, [Next]_vars, NEW c \in Calls, NEW r, SaveAndReturn(c, r),
         EvidencedBy(r, candidates, reports, Len(proposals))
  PROVE  EvidenceHolds'
<1>1. Return(c) /\ stored' = r
  BY DEF SaveAndReturn, Save
<1>2. Held(c)' /\ OthersKeep(c)
  BY <1>1, ReturnHolds DEF IInv, OthersKeep
<1>3. QED
  BY <1>1, <1>2, OwnCommand DEF OthersKeep, EvidenceHolds

\* So does a command that moves on with a run whose evidence is stored to a
\* step that asks for nothing else.
LEMMA MoveHolds ==
  ASSUME IInv, [Next]_vars, NEW c \in Calls,
         stored' = stored \/ EvidencedBy(stored', candidates, reports,
                                        Len(proposals)),
         EvidencedBy(run'[c], candidates, reports, Len(proposals)),
         pc'[c] \notin {"listed", "propose", "author", "reported",
                        "authored"},
         OthersKeep(c)
  PROVE  EvidenceHolds'
<1>1. EvidencedBy(run'[c], candidates', reports', Len(proposals'))
  BY StoresGrow, EvidenceGrows
<1>2. Held(c)'
  BY <1>1 DEF Held, HeldBy
<1>3. QED
  BY <1>2, OwnCommand DEF OthersKeep, EvidenceHolds

\* The outcome of an optimization shows only candidates it was given.
LEMMA OutcomeHolds ==
  ASSUME NEW d, NEW b, NEW cs, NEW rs, NEW n, b \subseteq cs
  PROVE  EvidencedBy(Outcome(d, b), cs, rs, n)
<1>1. Shortlist(b) \subseteq cs \cap Eligible
  BY DEF Shortlist
<1>2. EvidencedBy(Shortlisted(d, Shortlist(b)), cs, rs, n)
  BY <1>1 DEF EvidencedBy, Shortlisted
<1>3. /\ EvidencedBy(Plain("budget-exhausted", d), cs, rs, n)
      /\ EvidencedBy(Plain("rejected", d), cs, rs, n)
  BY NothingToShow
<1>4. QED
  BY <1>2, <1>3 DEF Outcome

\* Every command keeps the evidence, action by action.
LEMMA CommandHolds ==
  ASSUME IInv, [Next]_vars, NEW c \in Calls, Command(c)
  PROVE  EvidenceHolds'
<1>t. /\ TypeOK
      /\ EvidencedBy(stored, candidates, reports, Len(proposals))
      /\ HeldBy(pc[c], run[c], batch[c], report[c], candidates, reports,
                Len(proposals))
  BY DEF IInv, Held
<1>f. /\ pc \in [Calls -> Steps]
      /\ run \in [Calls -> Run]
      /\ batch \in [Calls -> SUBSET Candidates]
      /\ report \in [Calls -> Reports \cup {Nil}]
  BY <1>t DEF TypeOK
<1>r. EvidencedBy(run[c], candidates, reports, Len(proposals))
  BY <1>t DEF HeldBy
<1>1. CASE Scope(c)
  <2>1. /\ stored' = Plain("detected", Nil)
        /\ run'[c] = Plain("detected", Nil)
        /\ pc'[c] = "scope"
        /\ OthersKeep(c)
    BY <1>1, <1>f DEF Scope, Save, Hold, Goto, Results, OthersKeep
  <2>2. QED
    BY <2>1, MoveHolds, NothingToShow
<1>2. CASE BeginOptimization(c)
  <2>1. /\ stored' = Optimizing(run[c].dataset, FALSE)
        /\ run'[c] = Optimizing(run[c].dataset, FALSE)
        /\ pc'[c] = "optimize"
        /\ OthersKeep(c)
    BY <1>2, <1>f
       DEF BeginOptimization, Save, Hold, Goto, Results, OthersKeep
  <2>2. EvidencedBy(Optimizing(run[c].dataset, FALSE), candidates, reports,
                    Len(proposals))
    BY NothingToShow
  <2>3. QED
    BY <2>1, <2>2, MoveHolds
<1>3. CASE \/ Attach(c) \/ Optimize(c) \/ Resume(c) \/ Pause(c) \/ Cancel(c)
           \/ Compare(c)
  <2>1. /\ stored' = stored
        /\ run'[c] = stored
        /\ pc'[c] \in {"attach", "start", "resume", "pause", "cancel",
                       "compare"}
        /\ OthersKeep(c)
    BY <1>3, <1>f
       DEF Attach, Optimize, Resume, Pause, Cancel, Compare, Get, Goto, Hold,
           Results, OthersKeep
  <2>2. QED
    BY <2>1, <1>t, MoveHolds
<1>4. CASE \/ Expire(c) \/ CancelExpired(c) \/ AskPause(c) \/ EnginePaused(c)
           \/ EngineCancelled(c) \/ Answer(c) \/ Judge(c)
  <2>1. stored' = stored /\ run'[c] = run[c]
    BY <1>4
       DEF Expire, CancelExpired, AskPause, EnginePaused, EngineCancelled,
           Answer, Judge
  <2>2. pc'[c] \in {"expire", "expired", "pausing", "paused", "cancelled",
                    "answered", "judged"}
    BY <1>4, <1>f
       DEF Expire, CancelExpired, AskPause, EnginePaused, EngineCancelled,
           Answer, Judge, Goto
  <2>3. OthersKeep(c)
    <3>1. CASE Answer(c)
      BY <3>1, <1>f DEF Answer, Goto, OthersKeep
    <3>2. CASE Judge(c)
      BY <3>2, <1>f DEF Judge, Goto, OthersKeep
    <3>3. CASE \/ Expire(c) \/ CancelExpired(c) \/ AskPause(c)
               \/ EnginePaused(c) \/ EngineCancelled(c)
      BY <3>3, <1>f
         DEF Expire, CancelExpired, AskPause, EnginePaused, EngineCancelled,
             Goto, Results, OthersKeep
    <3>4. QED
      BY <1>4, <3>1, <3>2, <3>3
  <2>4. QED
    BY <2>1, <2>2, <2>3, <1>r, MoveHolds
<1>p. ASSUME NEW s, NEW d, SaveAndReturn(c, Plain(s, d)),
             s \notin {"shortlisted", "evaluated", "awaiting-review"}
      PROVE  EvidenceHolds'
  BY <1>p, NothingToShow, SaveHolds
<1>o. ASSUME NEW d, NEW t, SaveAndReturn(c, Optimizing(d, t))
      PROVE  EvidenceHolds'
  BY <1>o, NothingToShow, SaveHolds
<1>5. CASE \/ SaveScoped(c) \/ SaveDataset(c) \/ SaveExpired(c)
           \/ SavePausedAnswer(c) \/ SavePaused(c) \/ SaveCancelled(c)
  <2>1. CASE SaveScoped(c)
    BY <2>1, <1>p DEF SaveScoped
  <2>2. CASE SaveDataset(c)
    BY <2>2, <1>p DEF SaveDataset
  <2>3. CASE SaveExpired(c)
    BY <2>3, <1>p DEF SaveExpired
  <2>4. CASE SavePausedAnswer(c)
    BY <2>4, <1>o DEF SavePausedAnswer
  <2>5. CASE SavePaused(c)
    BY <2>5, <1>o DEF SavePaused
  <2>6. CASE SaveCancelled(c)
    BY <2>6, <1>p DEF SaveCancelled
  <2>7. QED
    BY <1>5, <2>1, <2>2, <2>3, <2>4, <2>5, <2>6
<1>6. CASE SaveOutcome(c)
  <2>1. batch[c] \subseteq candidates
    BY <1>6, <1>t DEF SaveOutcome, At, HeldBy
  <2>2. SaveAndReturn(c, Outcome(run[c].dataset, batch[c]))
    BY <1>6 DEF SaveOutcome
  <2>3. EvidencedBy(Outcome(run[c].dataset, batch[c]), candidates, reports,
                    Len(proposals))
    BY <2>1, OutcomeHolds
  <2>4. QED
    BY <2>2, <2>3, SaveHolds
<1>7. CASE SaveEvaluated(c)
  <2>1. SoundBy(report[c], candidates, reports)
        /\ report[c].dataset = run[c].dataset
    BY <1>7, <1>t DEF SaveEvaluated, At, HeldBy
  <2>2. EvidencedBy(Evaluated(run[c].dataset, report[c]), candidates,
                    reports, Len(proposals))
    BY <2>1 DEF EvidencedBy, Evaluated
  <2>3. QED
    BY <1>7, <2>2, SaveHolds DEF SaveEvaluated
<1>8. CASE SaveAwaitingReview(c)
  BY <1>8, <1>r, SaveHolds DEF SaveAwaitingReview
<1>9. CASE StoreSomeAndFail(c) \/ Abandon(c)
  <2>1. Return(c) /\ stored' = stored
    BY <1>9 DEF StoreSomeAndFail, Abandon
  <2>2. Held(c)' /\ OthersKeep(c)
    BY <2>1, <1>t, ReturnHolds DEF OthersKeep
  <2>3. QED
    BY <2>1, <2>2, OwnCommand DEF OthersKeep, EvidenceHolds
<1>10. CASE StoreCandidates(c)
  <2>1. /\ stored' = stored
        /\ run'[c] = run[c]
        /\ pc'[c] = "listed"
        /\ batch'[c] = candidates'
        /\ OthersKeep(c)
    BY <1>10, <1>f DEF StoreCandidates, Goto, OthersKeep
  <2>2. EvidencedBy(run'[c], candidates', reports', Len(proposals'))
    BY <2>1, <1>r, StoresGrow, EvidenceGrows
  <2>3. Held(c)'
    BY <2>1, <2>2 DEF Held, HeldBy
  <2>4. QED
    BY <2>1, <2>3, OwnCommand DEF OthersKeep, EvidenceHolds
<1>11. CASE StoreReport(c)
  <2>1. /\ stored' = stored
        /\ run'[c] = stored
        /\ pc'[c] = "reported"
        /\ report'[c] = report[c]
        /\ OthersKeep(c)
    BY <1>11, <1>f DEF StoreReport, Hold, Goto, Results, OthersKeep
  <2>2. report[c].candidate \in candidates \cap Eligible
        /\ report[c].dataset = stored.dataset
    BY <1>11, <1>t DEF StoreReport, Binds, EvidencedBy
  <2>3. SoundBy(report[c], candidates', reports')
    BY <1>11, <2>2 DEF StoreReport, SoundBy
  <2>4. EvidencedBy(run'[c], candidates', reports', Len(proposals'))
    BY <2>1, <1>t, StoresGrow, EvidenceGrows
  <2>5. Held(c)'
    BY <2>1, <2>2, <2>3, <2>4 DEF Held, HeldBy
  <2>6. QED
    BY <2>1, <2>5, OwnCommand DEF OthersKeep, EvidenceHolds
<1>12. CASE Propose(c)
  <2>1. PICK named \in candidates :
          batch' = [batch EXCEPT ![c] = {named}]
    BY <1>12 DEF Propose
  <2>2. /\ stored' = stored
        /\ stored.state = "evaluated"
        /\ UNCHANGED stores
        /\ report' = [report EXCEPT ![c] = stored.report]
        /\ Get(c, "propose")
    BY <1>12 DEF Propose
  <2>3. /\ run'[c] = stored
        /\ pc'[c] = "propose"
        /\ batch'[c] = {named}
        /\ report'[c] = stored.report
        /\ OthersKeep(c)
    BY <2>1, <2>2, <1>f DEF Get, Hold, Goto, OthersKeep
  <2>4. SoundBy(stored.report, candidates', reports')
    BY <2>2, <1>t DEF EvidencedBy, stores
  <2>5. batch'[c] \subseteq candidates'
    BY <2>1, <2>2, <2>3 DEF stores
  <2>6. EvidencedBy(run'[c], candidates', reports', Len(proposals'))
    BY <2>3, <1>t, StoresGrow, EvidenceGrows
  <2>7. Held(c)'
    BY <2>3, <2>4, <2>5, <2>6 DEF Held, HeldBy
  <2>8. QED
    BY <2>2, <2>3, <2>7, OwnCommand DEF OthersKeep, EvidenceHolds
<1>13. CASE ReadForProposal(c)
  <2>1. /\ stored' = stored
        /\ UNCHANGED stores
        /\ run'[c] = stored
        /\ pc'[c] = "author"
        /\ batch'[c] = batch[c]
        /\ report'[c] = report[c]
        /\ OthersKeep(c)
    BY <1>13, <1>f DEF ReadForProposal, Hold, Goto, Results, OthersKeep
  <2>2. /\ batch[c] \subseteq candidates
        /\ SoundBy(report[c], candidates, reports)
    BY <1>13, <1>t DEF ReadForProposal, At, HeldBy
  <2>3. EvidencedBy(run'[c], candidates', reports', Len(proposals'))
    BY <2>1, <1>t, StoresGrow, EvidenceGrows
  <2>4. Held(c)'
    BY <2>1, <2>2, <2>3 DEF Held, HeldBy, stores
  <2>5. QED
    BY <2>1, <2>4, OwnCommand DEF OthersKeep, EvidenceHolds
<1>14. CASE Author(c)
  <2>1. PICK p : proposals' = Append(proposals, p)
    BY <1>14 DEF Author
  <2>2. Len(proposals') = Len(proposals) + 1 /\ Len(proposals) \in Nat
    BY <2>1, <1>t DEF TypeOK
  <2>3. /\ stored' = stored
        /\ run'[c] = AwaitingReview(run[c].dataset, Len(proposals) + 1)
        /\ pc'[c] = "authored"
        /\ OthersKeep(c)
    BY <1>14, <1>f DEF Author, Hold, Goto, Results, OthersKeep
  <2>4. /\ run'[c].state = "awaiting-review"
        /\ run'[c].proposal = Len(proposals')
    BY <2>2, <2>3 DEF AwaitingReview
  <2>5. EvidencedBy(run'[c], candidates', reports', Len(proposals'))
    BY <2>2, <2>4 DEF EvidencedBy
  <2>6. Held(c)'
    BY <2>3, <2>4, <2>5 DEF Held, HeldBy
  <2>7. QED
    BY <2>3, <2>6, OwnCommand DEF OthersKeep, EvidenceHolds
<1>15. QED
  BY <1>1, <1>2, <1>3, <1>4, <1>5, <1>6, <1>7, <1>8, <1>9, <1>10, <1>11,
     <1>12, <1>13, <1>14 DEF Command

\* A step of no command leaves everything that carries evidence alone.
LEMMA QuietHolds ==
  ASSUME IInv, SliceEnds \/ UNCHANGED vars
  PROVE  EvidenceHolds'
<1>1. /\ UNCHANGED <<stored, candidates, reports, proposals>>
      /\ UNCHANGED <<pc, run, batch, report>>
  BY DEF SliceEnds, vars, stores, Results
<1>2. EvidencedBy(stored', candidates', reports', Len(proposals'))
  BY <1>1 DEF IInv
<1>3. ASSUME NEW d \in Calls PROVE Held(d)'
  BY <1>1, <1>3 DEF IInv, Held
<1>4. QED
  BY <1>2, <1>3 DEF EvidenceHolds

\* The inductive invariant holds at the start and is kept by every step.
LEMMA InvInit == Init => IInv
<1> SUFFICES ASSUME Init PROVE IInv
  OBVIOUS
<1>1. TypeOK /\ HasReport
  BY TypeInit
<1>2. EvidencedBy(Plain("none", Nil), candidates, reports, Len(proposals))
  BY NothingToShow
<1>3. \A c \in Calls : Held(c)
  BY <1>2 DEF Init, Held, HeldBy
<1>4. ProposalsRestOnEvidence
  BY DEF Init, ProposalsRestOnEvidence
<1>5. QED
  BY <1>1, <1>2, <1>3, <1>4 DEF Init, IInv

\* The inductive step.
LEMMA InvStep == IInv /\ [Next]_vars => IInv'
<1> SUFFICES ASSUME IInv, [Next]_vars PROVE IInv'
  OBVIOUS
<1>1. TypeOK' /\ HasReport'
  BY TypeStep, ReportStep DEF IInv
<1>2. ProposalsRestOnEvidence'
  BY ProposalsStep
<1>3. EvidenceHolds'
  BY CommandHolds, QuietHolds DEF Next
<1>4. QED
  BY <1>1, <1>2, <1>3 DEF IInv, EvidenceHolds

\* What the run's file says happened has its evidence stored.
THEOREM EvidenceStored == Spec => []EvidenceBehindState
<1>1. IInv => EvidenceBehindState
  BY DEF IInv, EvidencedBy, SoundBy, EvidenceBehindState
<1>2. QED
  BY <1>1, InvInit, InvStep, PTL DEF Spec

\* Every proposal rests on a stored, passing evaluation of its candidate.
THEOREM ProposalsSound == Spec => []ProposalsRestOnEvidence
<1>1. IInv => ProposalsRestOnEvidence
  BY DEF IInv
<1>2. QED
  BY <1>1, InvInit, InvStep, PTL DEF Spec

----------------------------------------------------------------------------
(***************************************************************************)
(* Commands that run alone.  Until it saves, such a command holds the run  *)
(* that is on file, so a check on the run it read is a check on the run    *)
(* that is replaced.                                                       *)
(***************************************************************************)
\* What a command that has run alone so far knows: the run it holds is the
\* file, except just before the one save that skips a state.
LoneHolds(c) ==
  /\ pc[c] # "authored" => run[c] = stored
  /\ pc[c] = "authored" =>
       stored.state = "evaluated" /\ run[c].state = "awaiting-review"
  /\ pc[c] = "scope" => stored.state = "detected"
  /\ pc[c] \in {"optimize", "resume", "answered", "listed"} =>
       stored.state = "optimizing"
  /\ pc[c] = "listed" => batch[c] = candidates

LoneInv ==
  /\ TypeOK /\ HasReport
  /\ \A c \in alone : c \in Calls /\ Busy = {c} /\ LoneHolds(c)

\* The commands that begin, and those that are over with their step.
Begins(c) ==
  \/ Scope(c) \/ Attach(c) \/ Optimize(c) \/ Resume(c) \/ Pause(c) \/ Cancel(c)
  \/ Compare(c) \/ Propose(c)
Ends(c) ==
  \/ SaveScoped(c) \/ SaveDataset(c) \/ SaveExpired(c) \/ StoreSomeAndFail(c)
  \/ SavePausedAnswer(c) \/ SaveOutcome(c) \/ SavePaused(c) \/ SaveCancelled(c)
  \/ SaveEvaluated(c) \/ SaveAwaitingReview(c) \/ Abandon(c)
GoesOn(c) ==
  \/ BeginOptimization(c) \/ Expire(c) \/ CancelExpired(c) \/ Answer(c)
  \/ StoreCandidates(c) \/ AskPause(c) \/ EnginePaused(c) \/ EngineCancelled(c)
  \/ Judge(c) \/ StoreReport(c) \/ ReadForProposal(c) \/ Author(c)

LEMMA CommandSplits ==
  ASSUME NEW c, Command(c)
  PROVE  Begins(c) \/ Ends(c) \/ GoesOn(c)
  BY DEF Command, Begins, Ends, GoesOn

\* A command moves nobody else, and begins only where it is idle.
LEMMA CommandMoves ==
  ASSUME TypeOK, NEW c \in Calls, Command(c)
  PROVE  /\ \A d \in Calls \ {c} : pc'[d] = pc[d]
         /\ pc[c] = "idle" => Begins(c)
         /\ Begins(c) => pc[c] = "idle" /\ pc'[c] # "idle"
         /\ Ends(c) => pc'[c] = "idle"
<1>1. pc \in [Calls -> Steps] BY DEF TypeOK
<1>2. Begins(c) => pc[c] = "idle" /\ \E s : s # "idle" /\ Goto(c, s)
  BY DEF Begins, Scope, Attach, Optimize, Resume, Pause, Cancel, Compare, Propose, Get, At
<1>3. Ends(c) => Goto(c, "idle") /\ pc[c] # "idle"
  BY DEF Ends, SaveScoped, SaveDataset, SaveExpired, StoreSomeAndFail, SavePausedAnswer,
         SaveOutcome, SavePaused, SaveCancelled, SaveEvaluated, SaveAwaitingReview,
         Abandon, SaveAndReturn, Return, At
<1>4. GoesOn(c) => (\E s : Goto(c, s)) /\ pc[c] # "idle"
  BY DEF GoesOn, BeginOptimization, Expire, CancelExpired, Answer, StoreCandidates,
         AskPause, EnginePaused, EngineCancelled, Judge, StoreReport, ReadForProposal,
         Author, At
<1>5. \E s : Goto(c, s) BY <1>2, <1>3, <1>4, CommandSplits
<1>6. \A d \in Calls \ {c} : pc'[d] = pc[d] BY <1>1, <1>5 DEF Goto
<1>7. Begins(c) => pc'[c] # "idle" BY <1>1, <1>2 DEF Goto
<1>8. Ends(c) => pc'[c] = "idle" BY <1>1, <1>3 DEF Goto
<1> QED BY <1>2, <1>3, <1>4, <1>6, <1>7, <1>8, CommandSplits

\* Only c moves while it is alone.
LEMMA OnlyTheLone ==
  ASSUME TypeOK, NEW c \in Calls, NEW d \in Calls, Command(d),
         Busy' = {c}, Busy = {c} \/ c \notin Busy
  PROVE  d = c
<1>1. SUFFICES ASSUME d # c PROVE FALSE OBVIOUS
<1>2. pc'[c] = pc[c] BY <1>1, CommandMoves
<1>3. pc[d] = "idle" => pc'[d] # "idle" BY CommandMoves
<1>4. pc'[c] # "idle" /\ pc'[d] = "idle" BY <1>1 DEF Busy, At
<1>5. pc[c] # "idle" /\ pc[d] = "idle" BY <1>1, <1>2, <1>4 DEF Busy, At
<1> QED BY <1>3, <1>4, <1>5

\* What a lone command does keeps what it knows.
LEMMA LoneBegins ==
  ASSUME TypeOK, NEW c \in Calls, Begins(c)
  PROVE  LoneHolds(c)'
<1>1. pc \in [Calls -> Steps] /\ run \in [Calls -> Run] BY DEF TypeOK
<1>2. CASE Scope(c)
  <2>1. pc'[c] = "scope" /\ run'[c] = Plain("detected", Nil) /\ stored' = Plain("detected", Nil)
    BY <1>1, <1>2 DEF Scope, Save, Hold, Goto
  <2> QED BY <2>1 DEF LoneHolds, Plain
<1>3. CASE Resume(c)
  <2>1. pc'[c] = "resume" /\ run'[c] = stored /\ stored' = stored /\ stored.state = "optimizing"
    BY <1>1, <1>3 DEF Resume, Get, Hold, Goto
  <2> QED BY <2>1 DEF LoneHolds
<1>4. CASE ~(Scope(c) \/ Resume(c))
  <2>1. /\ pc'[c] \in {"attach", "start", "pause", "cancel", "compare", "propose"}
        /\ run'[c] = stored /\ stored' = stored
    BY <1>1, <1>4 DEF Begins, Attach, Optimize, Pause, Cancel, Compare, Propose, Get, Hold, Goto
  <2> QED BY <2>1 DEF LoneHolds
<1> QED BY <1>2, <1>3, <1>4

LEMMA LoneGoesOn ==
  ASSUME TypeOK, NEW c \in Calls, GoesOn(c), LoneHolds(c)
  PROVE  LoneHolds(c)'
<1>1. /\ pc \in [Calls -> Steps] /\ run \in [Calls -> Run]
      /\ batch \in [Calls -> SUBSET Candidates]
  BY DEF TypeOK
<1>2. CASE BeginOptimization(c)
  <2>1. /\ pc'[c] = "optimize" /\ run'[c] = stored' /\ stored'.state = "optimizing"
    BY <1>1, <1>2 DEF BeginOptimization, Save, Hold, Goto, Optimizing
  <2> QED BY <2>1 DEF LoneHolds
<1>3. CASE Answer(c)
  <2>1. /\ pc[c] \in {"optimize", "resume"} /\ pc'[c] = "answered"
        /\ run' = run /\ stored' = stored
    BY <1>1, <1>3 DEF Answer, Goto
  <2> QED BY <2>1 DEF LoneHolds
<1>4. CASE StoreCandidates(c)
  <2>1. /\ pc[c] = "answered" /\ pc'[c] = "listed" /\ run' = run /\ stored' = stored
        /\ batch'[c] = candidates'
    BY <1>1, <1>4 DEF StoreCandidates, At, Goto
  <2> QED BY <2>1 DEF LoneHolds
<1>5. CASE StoreReport(c) \/ ReadForProposal(c)
  <2>1. pc'[c] \in {"reported", "author"} /\ run'[c] = stored /\ stored' = stored
    BY <1>1, <1>5 DEF StoreReport, ReadForProposal, Hold, Goto
  <2> QED BY <2>1 DEF LoneHolds
<1>6. CASE Author(c)
  <2>1. /\ pc[c] = "author" /\ pc'[c] = "authored" /\ stored' = stored
        /\ run'[c].state = "awaiting-review" /\ run[c].state = "evaluated"
    BY <1>1, <1>6 DEF Author, At, Goto, Hold, AwaitingReview, Supports
  <2> QED BY <2>1 DEF LoneHolds
<1>7. CASE \/ Expire(c) \/ CancelExpired(c) \/ AskPause(c) \/ EnginePaused(c)
           \/ EngineCancelled(c) \/ Judge(c)
  <2>1. /\ pc[c] # "authored" /\ run' = run /\ stored' = stored
        /\ pc'[c] \in {"expire", "expired", "pausing", "paused", "cancelled", "judged"}
    BY <1>1, <1>7
    DEF Expire, CancelExpired, AskPause, EnginePaused, EngineCancelled, Judge, At, Goto
  <2> QED BY <2>1 DEF LoneHolds
<1> QED BY <1>2, <1>3, <1>4, <1>5, <1>6, <1>7 DEF GoesOn

LEMMA LoneStarts == LoneInit => LoneInv
  BY TypeInit DEF LoneInit, LoneInv

LEMMA LoneKeeps == LoneInv /\ [LoneNext]_<<vars, alone>> => LoneInv'
<1> SUFFICES ASSUME LoneInv, [LoneNext]_<<vars, alone>> PROVE LoneInv' OBVIOUS
<1>1. TypeOK /\ HasReport /\ TypeOK' /\ HasReport'
  BY TypeStep, ReportStep DEF LoneInv, LoneNext
<1>2. CASE UNCHANGED <<vars, alone>>
  BY <1>1, <1>2 DEF LoneInv, LoneHolds, Busy, At, vars, stores
<1>3. CASE LoneNext
  <2> SUFFICES ASSUME NEW c \in alone' PROVE c \in Calls /\ Busy' = {c} /\ LoneHolds(c)'
    BY <1>1 DEF LoneInv
  <2>1. c \in Calls /\ Busy' = {c} /\ (c \in alone \/ c \notin Busy)
    BY <1>3 DEF LoneNext, Busy
  <2>2. c \in alone => Busy = {c} /\ pc[c] # "idle" /\ LoneHolds(c)
    BY <2>1 DEF LoneInv, Busy, At
  <2>3. pc[c] # "idle" => c \in alone BY <2>1 DEF Busy, At
  <2>4. CASE SliceEnds
    <3>1. UNCHANGED <<stored, candidates, pc, run, batch>>
      BY <2>4 DEF SliceEnds, stores, Results
    <3>2. pc[c] # "idle" BY <2>1, <3>1 DEF Busy, At
    <3> QED BY <2>1, <2>2, <2>3, <3>1, <3>2 DEF LoneHolds
  <2>5. CASE \E d \in Calls : Command(d)
    <3>1. PICK d \in Calls : Command(d) BY <2>5
    <3>2. d = c BY <1>1, <2>1, <2>2, <3>1, OnlyTheLone
    <3>3. pc'[c] # "idle" BY <2>1 DEF Busy, At
    <3>4. Begins(c) \/ (GoesOn(c) /\ pc[c] # "idle")
      BY <1>1, <3>1, <3>2, <3>3, CommandMoves, CommandSplits
    <3> QED BY <1>1, <2>1, <2>2, <2>3, <3>4, LoneBegins, LoneGoesOn
  <2> QED BY <1>3, <2>1, <2>4, <2>5 DEF LoneNext, Next
<1> QED BY <1>2, <1>3

\* The file changes at a command's step only: its first, the one that begins
\* an optimization, or its last.
LEMMA Writes ==
  ASSUME [LoneNext]_<<vars, alone>>, stored' # stored
  PROVE  \E d \in Calls : Command(d) /\ (Scope(d) \/ BeginOptimization(d) \/ Ends(d))
<1>1. PICK d \in Calls : Command(d)
  BY DEF LoneNext, Next, SliceEnds, vars
<1>2. Begins(d) => Scope(d)
  BY DEF Begins, Attach, Optimize, Resume, Pause, Cancel, Compare, Propose
<1>3. GoesOn(d) => BeginOptimization(d)
  BY DEF GoesOn, Expire, CancelExpired, Answer, StoreCandidates, AskPause, EnginePaused,
         EngineCancelled, Judge, StoreReport, ReadForProposal, Author
<1> QED BY <1>1, <1>2, <1>3, CommandSplits

\* Every save of a command that ran alone is a move of the table.
LEMMA LoneSaves ==
  ASSUME NEW c \in Calls, LoneHolds(c), stored' # stored,
         Scope(c) \/ BeginOptimization(c) \/ Ends(c)
  PROVE  \/ stored'.state = stored.state
         \/ stored'.state \in TransitionTargets(stored.state)
         \/ stored.state = "none" /\ stored'.state = "detected"
         \/ stored.state = "evaluated" /\ stored'.state = "awaiting-review"
<1>1. \A to, within : CanTransition(run[c].state, to, TRUE, TRUE, within)
                        => to \in TransitionTargets(run[c].state)
  BY DEF CanTransition
<1>2. CASE Scope(c) BY <1>2 DEF Scope, Save, Plain
<1>3. CASE BeginOptimization(c)
  <2>1. run[c] = stored BY <1>3 DEF BeginOptimization, At, LoneHolds
  <2> QED BY <1>1, <1>3, <2>1 DEF BeginOptimization, Save, Optimizing, OwnerMove
<1>4. CASE SaveScoped(c)
  <2>1. stored.state = "detected" /\ stored'.state = "scoped"
    BY <1>4 DEF SaveScoped, At, LoneHolds, SaveAndReturn, Save, Plain
  <2> QED BY <2>1 DEF TransitionTargets
<1>5. CASE SavePausedAnswer(c)
  BY <1>5 DEF SavePausedAnswer, At, LoneHolds, SaveAndReturn, Save, Optimizing
<1>6. CASE SaveAwaitingReview(c)
  BY <1>6 DEF SaveAwaitingReview, At, LoneHolds, SaveAndReturn, Save
<1>7. CASE SaveOutcome(c)
  <2>1. run[c] = stored BY <1>7 DEF SaveOutcome, At, LoneHolds
  <2>2. CanTransition(run[c].state, stored'.state, TRUE, TRUE, Cardinality(batch[c]) <= MaxCandidates)
    BY <1>7 DEF SaveOutcome, SaveAndReturn, Save
  <2> QED BY <1>1, <2>1, <2>2
<1>8. CASE SaveDataset(c) \/ SaveExpired(c) \/ SavePaused(c) \/ SaveCancelled(c) \/ SaveEvaluated(c)
  <2>1. run[c] = stored
    BY <1>8 DEF SaveDataset, SaveExpired, SavePaused, SaveCancelled, SaveEvaluated, At, LoneHolds
  <2>2. OwnerMove(run[c].state, stored'.state)
    BY <1>8 DEF SaveDataset, SaveExpired, SavePaused, SaveCancelled, SaveEvaluated,
                SaveAndReturn, Save, Plain, Optimizing, Evaluated
  <2> QED BY <1>1, <2>1, <2>2 DEF OwnerMove
<1>9. CASE StoreSomeAndFail(c) \/ Abandon(c) BY <1>9 DEF StoreSomeAndFail, Abandon
<1> QED BY <1>2, <1>3, <1>4, <1>5, <1>6, <1>7, <1>8, <1>9 DEF Ends

\* Every save of a command that ran alone moves the run along the table.
THEOREM LoneCommandsMoveLegally == LoneSpec => AloneMovesLegally
<1>1. LoneInv /\ [LoneNext]_<<vars, alone>> =>
        [stored'.state # stored.state /\ (\E c \in alone : pc'[c] # pc[c]) =>
           \/ stored'.state \in TransitionTargets(stored.state)
           \/ stored.state = "none" /\ stored'.state = "detected"
           \/ stored.state = "evaluated" /\ stored'.state = "awaiting-review"]_vars
  <2> SUFFICES ASSUME LoneInv, [LoneNext]_<<vars, alone>>, stored'.state # stored.state,
                      NEW c \in alone, pc'[c] # pc[c]
               PROVE  \/ stored'.state \in TransitionTargets(stored.state)
                      \/ stored.state = "none" /\ stored'.state = "detected"
                      \/ stored.state = "evaluated" /\ stored'.state = "awaiting-review"
    OBVIOUS
  <2>1. c \in Calls /\ LoneHolds(c) /\ TypeOK BY DEF LoneInv
  <2>2. PICK d \in Calls : Command(d) /\ (Scope(d) \/ BeginOptimization(d) \/ Ends(d)) BY Writes
  <2>3. d = c BY <2>1, <2>2, CommandMoves
  <2> QED BY <2>1, <2>2, <2>3, LoneSaves
<1> QED BY <1>1, LoneStarts, LoneKeeps, PTL DEF LoneSpec, AloneMovesLegally

\* The candidate budget holds over all answers of the engine.
THEOREM BudgetIsKept == LoneSpec => SealedWithinBudget
<1>1. LoneInv /\ [LoneNext]_<<vars, alone>> =>
        [\A c \in alone :
           At(c, "listed") /\ stored'.state = "shortlisted" /\ stored' # stored =>
             Cardinality(candidates) <= MaxCandidates]_vars
  <2> SUFFICES ASSUME LoneInv, [LoneNext]_<<vars, alone>>, NEW c \in alone, At(c, "listed"),
                      stored'.state = "shortlisted", stored' # stored
               PROVE  Cardinality(candidates) <= MaxCandidates
    OBVIOUS
  <2>1. c \in Calls /\ Busy = {c} /\ LoneHolds(c) /\ TypeOK BY DEF LoneInv
  <2>2. PICK d \in Calls : Command(d) /\ (Scope(d) \/ BeginOptimization(d) \/ Ends(d)) BY Writes
  <2>3. ~Scope(d) BY DEF Scope, Save, Plain
  <2>4. d = c
    <3>1. SUFFICES ASSUME d # c PROVE FALSE OBVIOUS
    <3>2. pc[d] = "idle" BY <2>1, <3>1 DEF Busy, At
    <3> QED
      BY <2>2, <2>3, <3>2
      DEF BeginOptimization, Ends, SaveScoped, SaveDataset, SaveExpired, StoreSomeAndFail,
          SavePausedAnswer, SaveOutcome, SavePaused, SaveCancelled, SaveEvaluated,
          SaveAwaitingReview, Abandon, At
  <2>5. SaveOutcome(c)
    BY <2>2, <2>3, <2>4
    DEF At, BeginOptimization, Ends, SaveScoped, SaveDataset, SaveExpired, StoreSomeAndFail,
        SavePausedAnswer, SavePaused, SaveCancelled, SaveEvaluated, SaveAwaitingReview,
        Abandon, SaveAndReturn, Save, Optimizing
  <2>6. CanTransition(run[c].state, "shortlisted", TRUE, TRUE, Cardinality(batch[c]) <= MaxCandidates)
    BY <2>5 DEF SaveOutcome, SaveAndReturn, Save
  <2>7. Cardinality(batch[c]) <= MaxCandidates BY <2>6 DEF CanTransition
  <2> QED BY <2>1, <2>7 DEF LoneHolds, At
<1> QED BY <1>1, LoneStarts, LoneKeeps, PTL DEF LoneSpec, SealedWithinBudget
=============================================================================
