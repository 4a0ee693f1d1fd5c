-------------------------- MODULE Scheduling_proofs --------------------------
(***************************************************************************)
(* Proofs about what runs without a person: the gate of the campaigns of   *)
(* continuous evolution, and the worker processes of the optimizer.        *)
(***************************************************************************)
EXTENDS ContinuousEvolution, OptimizerJobs, FiniteSetTheorems, TLAPS

(***************************************************************************)
(* Campaigns.  The reservations of the gate are exactly the targets of the *)
(* fires in a campaign; that, and not the order in which the gate lets     *)
(* them decide, keeps one target from two campaigns.                       *)
(***************************************************************************)
\* The reservations are the targets in a campaign, one each, and no more than
\* the gate admits.
GateInv ==
  /\ reserved = {Target(f) : f \in InCampaign}
  /\ \A f, g \in InCampaign : Target(f) = Target(g) => f = g
  /\ Cardinality(reserved) <= MaxConcurrent

\* Runs are opened one by one.
FiniteInv ==
  IsFiniteSet(open) /\ IsFiniteSet(gate.listed) /\ IsFiniteSet(reserved)

CampaignInv == TypeOK /\ FiniteInv /\ GateInv

LEMMA FireShapes ==
  ASSUME NEW f \in Fires, fires \in [Fires -> Fire \cup {Idle}],
         fires[f].step # "idle"
  PROVE  /\ fires[f] \in Fire /\ fires[f].job \in Jobs
         /\ Target(f) \in Targets
  BY JobsAssumption DEF Fire, Idle, Target

LEMMA Gotos ==
  ASSUME NEW f \in Fires, fires \in [Fires -> Fire \cup {Idle}], fires[f] \in Fire,
         NEW s \in {"benchmark", "gate", "listed", "campaign", "run", "schedule"},
         Goto(f, s)
  PROVE  \E e \in Fire : e.step = s /\ e.job = fires[f].job
                         /\ fires' = [fires EXCEPT ![f] = e]
<1> DEFINE e == [job |-> fires[f].job, step |-> s, ok |-> fires[f].ok,
                 retry |-> fires[f].retry]
<1>1. e \in Fire BY DEF Fire
<1>2. [fires[f] EXCEPT !.step = s] = e BY DEF Fire
<1>3. fires' = [fires EXCEPT ![f] = e] BY <1>2 DEF Goto
<1> QED BY <1>1, <1>3

LEMMA Settles ==
  ASSUME NEW f \in Fires, fires \in [Fires -> Fire \cup {Idle}], fires[f] \in Fire,
         NEW ok \in BOOLEAN, Settle(f, ok)
  PROVE  \E e \in Fire : e.step = "complete" /\ fires' = [fires EXCEPT ![f] = e]
<1> DEFINE p == [job |-> fires[f].job, step |-> "complete", ok |-> fires[f].ok,
                 retry |-> fires[f].retry]
           e == [job |-> fires[f].job, step |-> "complete", ok |-> ok,
                 retry |-> fires[f].retry]
<1>1. p = [fires[f] EXCEPT !.step = "complete"] BY DEF Fire
<1>2. e \in Fire BY DEF Fire
<1>3. p \in Fire /\ p.step = "complete" /\ p.job = fires[f].job
      /\ p.retry = fires[f].retry
  BY DEF Fire
<1>4. e.step = "complete" OBVIOUS
<1> HIDE DEF p
<1>5. [p EXCEPT !.ok = ok] = e BY <1>3 DEF Fire
<1>6. [fires EXCEPT ![f].step = "complete"] = [fires EXCEPT ![f] = p] BY <1>1
<1>7. fires' = [[fires EXCEPT ![f] = p] EXCEPT ![f].ok = ok]
  BY <1>6 DEF Settle
<1>8. [[fires EXCEPT ![f] = p] EXCEPT ![f].ok = ok]
        = [fires EXCEPT ![f] = [p EXCEPT !.ok = ok]]
  OBVIOUS
<1> HIDE DEF e
<1>9. fires' = [fires EXCEPT ![f] = e] BY <1>5, <1>7, <1>8
<1> QED BY <1>2, <1>4, <1>9

\* A fire moves among the steps outside of a campaign.
LEMMA MovesOutside ==
  ASSUME CampaignInv, NEW f \in Fires,
         ~At(f, "campaign"), ~At(f, "run"),
         NEW e \in Fire \cup {Idle}, e.step \notin {"campaign", "run"},
         fires' = [fires EXCEPT ![f] = e], UNCHANGED reserved
  PROVE  GateInv' /\ fires' \in [Fires -> Fire \cup {Idle}]
<1>1. fires \in [Fires -> Fire \cup {Idle}] BY DEF CampaignInv, TypeOK
<1>2. fires' \in [Fires -> Fire \cup {Idle}] BY <1>1
<1>3. fires'[f] = e /\ \A g \in Fires \ {f} : fires'[g] = fires[g] BY <1>1
<1>4. InCampaign' = InCampaign BY <1>3 DEF InCampaign, At
<1>5. \A g \in InCampaign : Target(g)' = Target(g)
  BY <1>3 DEF InCampaign, At, Target
<1> QED BY <1>2, <1>4, <1>5 DEF GateInv, CampaignInv

LEMMA LeavesCampaign ==
  ASSUME CampaignInv, NEW f \in InCampaign,
         NEW e \in Fire, e.step = "complete",
         fires' = [fires EXCEPT ![f] = e],
         reserved' = reserved \ {Target(f)}
  PROVE  /\ GateInv' /\ fires' \in [Fires -> Fire \cup {Idle}]
         /\ reserved' \subseteq Targets /\ IsFiniteSet(reserved')
<1>1. fires \in [Fires -> Fire \cup {Idle}] /\ f \in Fires
  BY DEF CampaignInv, TypeOK, InCampaign
<1>2. fires' \in [Fires -> Fire \cup {Idle}] BY <1>1
<1>3. fires'[f] = e /\ \A g \in Fires \ {f} : fires'[g] = fires[g] BY <1>1
<1>4. InCampaign' = InCampaign \ {f} BY <1>3 DEF InCampaign, At
<1>5. \A g \in InCampaign \ {f} : Target(g)' = Target(g)
  BY <1>3 DEF InCampaign, At, Target
<1>6. reserved' = {Target(g) : g \in InCampaign \ {f}}
  BY DEF CampaignInv, GateInv
<1>7. reserved' = {Target(g)' : g \in InCampaign'}
  BY <1>4, <1>5, <1>6
<1>8. Cardinality(reserved') <= MaxConcurrent /\ IsFiniteSet(reserved')
  BY FS_Subset, FS_CardinalityType, JobsAssumption DEF CampaignInv, FiniteInv, GateInv
<1>9. \A g, h \in InCampaign' : Target(g)' = Target(h)' => g = h
  BY <1>4, <1>5 DEF CampaignInv, GateInv
<1> QED BY <1>2, <1>7, <1>8, <1>9 DEF GateInv, CampaignInv, TypeOK

\* Only the rows change.
LEMMA Deletes ==
  ASSUME CampaignInv, NEW j \in Jobs, Delete(j)
  PROVE  rows' \in [Jobs -> Row]
<1>1. Absent \in Row BY JobsAssumption DEF Absent, Row
<1> QED BY <1>1 DEF Delete, CampaignInv, TypeOK

LEMMA NewRows ==
  ASSUME NEW due \in BOOLEAN, NEW retry \in 0..MaxRetries
  PROVE  NewRow(due, retry) \in Row
  BY DEF NewRow, Row

LEMMA Clocks ==
  ASSUME CampaignInv
  PROVE  /\ NoTick \in Tick /\ NewTick \in Tick
         /\ Reject => clock' \in {"off", "starting", "on", "failed"}
  BY DEF NoTick, NewTick, Tick, Reject, CampaignInv, TypeOK

LEMMA RowsChange ==
  ASSUME CampaignInv, rows' \in [Jobs -> Row], open' \subseteq Targets, IsFiniteSet(open'),
         broken' \subseteq Targets, clock' \in {"off", "starting", "on", "failed"},
         tick' \in Tick, boots' \in 0..MaxBoots, changes' \in 0..MaxChanges,
         UNCHANGED <<fires, reserved, gate>>
  PROVE  CampaignInv'
<1>1. InCampaign' = InCampaign /\ \A f : Target(f)' = Target(f)
  BY DEF InCampaign, At, Target
<1>2. GateInv' BY <1>1 DEF CampaignInv, GateInv
<1> QED BY <1>2 DEF CampaignInv, TypeOK, FiniteInv

LEMMA TimeInv ==
  ASSUME CampaignInv, NEW j \in Jobs, FallDue(j) \/ Expire(j)
  PROVE  CampaignInv'
<1>1. rows \in [Jobs -> Row] BY DEF CampaignInv, TypeOK
<1>2. rows' \in [Jobs -> Row]
  <2>1. /\ [rows[j] EXCEPT !.due = TRUE] \in Row
        /\ [rows[j] EXCEPT !.lease = "expired"] \in Row
    BY <1>1 DEF Row
  <2>2. \/ rows' = [rows EXCEPT ![j] = [rows[j] EXCEPT !.due = TRUE]]
        \/ rows' = [rows EXCEPT ![j] = [rows[j] EXCEPT !.lease = "expired"]]
    BY DEF FallDue, Expire
  <2> QED BY <1>1, <2>1, <2>2
<1> QED BY <1>2, RowsChange DEF FallDue, Expire, process, CampaignInv, TypeOK, FiniteInv

LEMMA RefreshInv ==
  ASSUME CampaignInv, NEW t \in Targets, Refresh(t) PROVE CampaignInv'
<1>1. rows \in [Jobs -> Row] /\ 0 \in 0..MaxRetries
  BY JobsAssumption DEF CampaignInv, TypeOK
<1>2. NewRow(FALSE, 0) \in Row BY <1>1, NewRows
<1>3. PICK changed \in BOOLEAN :
       /\ changed => changes < MaxChanges
       /\ changes' = IF changed THEN changes + 1 ELSE changes
       /\ rows' = [j \in Jobs |->
            IF /\ TargetOf[j] = t
               /\ ~rows[j].present \/ (changed /\ rows[j].lease = "none")
              THEN NewRow(FALSE, 0) ELSE rows[j]]
  BY DEF Refresh
<1>4. rows' \in [Jobs -> Row] BY <1>1, <1>2, <1>3
<1>5. changes' \in 0..MaxChanges BY <1>3, JobsAssumption DEF CampaignInv, TypeOK
<1>6. tick' \in Tick BY DEF Refresh, Tick, CampaignInv, TypeOK
<1> QED BY <1>4, <1>5, <1>6, RowsChange DEF Refresh, CampaignInv, TypeOK, FiniteInv

LEMMA OperateInv ==
  ASSUME CampaignInv, NEW t \in Targets, Operate(t) \/ Edit(t)
  PROVE  CampaignInv'
<1>1. CASE Operate(t)
  <2>1. IsFiniteSet(open) /\ open \subseteq Targets BY DEF CampaignInv, FiniteInv, TypeOK
  <2>2. IsFiniteSet(open \cup {t}) BY <2>1, FS_AddElement
  <2>3. IsFiniteSet(open \ {t}) BY <2>1, FS_RemoveElement
  <2>4. open' = open \cup {t} \/ open' = open \ {t} BY <1>1 DEF Operate
  <2>5. IsFiniteSet(open') /\ open' \subseteq Targets BY <2>1, <2>2, <2>3, <2>4
  <2> QED BY <1>1, <2>5, RowsChange DEF Operate, process, CampaignInv, TypeOK
<1>2. CASE Edit(t)
  BY <1>2, RowsChange DEF Edit, CampaignInv, TypeOK, FiniteInv
<1> QED BY <1>1, <1>2

LEMMA ClockInv ==
  ASSUME CampaignInv, Boot \/ Started \/ BeginTick \/ TickThrows
  PROVE  CampaignInv'
<1>1. clock' \in {"off", "starting", "on", "failed"} /\ tick' \in Tick
  BY Clocks DEF Boot, Started, BeginTick, TickThrows, CampaignInv, TypeOK
<1>2. boots' \in 0..MaxBoots
  BY JobsAssumption DEF Boot, Started, BeginTick, TickThrows, CampaignInv, TypeOK
<1> QED
  BY <1>1, <1>2, RowsChange
  DEF Boot, Started, BeginTick, TickThrows, CampaignInv, TypeOK, FiniteInv

LEMMA HaltInv ==
  ASSUME CampaignInv, Halt PROVE CampaignInv'
<1>1. fires' \in [Fires -> Fire \cup {Idle}] /\ InCampaign' = {}
  BY DEF Halt, InCampaign, At, Idle
<1>2. GateInv'
  BY <1>1, FS_EmptySet, JobsAssumption DEF Halt, GateInv
<1>3. FiniteInv' BY FS_EmptySet DEF Halt, FiniteInv, CampaignInv, FreeGate
<1>4. TypeOK' BY <1>1, Clocks DEF Halt, CampaignInv, TypeOK, FreeGate, Gate
<1> QED BY <1>2, <1>3, <1>4 DEF CampaignInv

LEMMA LeaseDueInv ==
  ASSUME CampaignInv, LeaseDue PROVE CampaignInv'
<1> DEFINE due == {j \in Jobs : Leasable(j)}
           free == {f \in Fires : At(f, "idle")}
<1>1. PICK leased \in SUBSET due :
        /\ rows' = [j \in Jobs |-> IF j \in leased
                                    THEN [rows[j] EXCEPT !.lease = "live"]
                                    ELSE rows[j]]
        /\ \E fire \in Injection(leased, free) :
            fires' = [f \in Fires |->
              IF \E j \in leased : fire[j] = f
                THEN LET j == CHOOSE j \in leased : fire[j] = f IN
                       [job |-> j, step |-> "start", ok |-> FALSE,
                        retry |-> rows[j].retry]
                ELSE fires[f]]
        /\ tick' = NoTick
        /\ UNCHANGED <<open, broken, clock, boots, changes, reserved, gate>>
  BY DEF LeaseDue
<1>2. PICK fire \in Injection(leased, free) :
            fires' = [f \in Fires |->
              IF \E j \in leased : fire[j] = f
                THEN LET j == CHOOSE j \in leased : fire[j] = f IN
                       [job |-> j, step |-> "start", ok |-> FALSE,
                        retry |-> rows[j].retry]
                ELSE fires[f]]
  BY <1>1
<1>3. rows \in [Jobs -> Row] /\ fires \in [Fires -> Fire \cup {Idle}]
  BY DEF CampaignInv, TypeOK
<1>4. rows' \in [Jobs -> Row]
  <2>1. \A j \in Jobs : [rows[j] EXCEPT !.lease = "live"] \in Row BY <1>3 DEF Row
  <2> QED BY <2>1, <1>1, <1>3
<1>5. \A j \in leased : j \in Jobs /\ fire[j] \in free
  BY <1>2 DEF Injection
<1>6. ASSUME NEW f \in Fires
      PROVE  /\ fires'[f] \in Fire \cup {Idle}
             /\ f \notin free => fires'[f] = fires[f]
             /\ f \in free => fires'[f].step \in {"start", "idle"}
  <2>1. CASE \E j \in leased : fire[j] = f
    <3> DEFINE k == CHOOSE j \in leased : fire[j] = f
               e == [job |-> k, step |-> "start", ok |-> FALSE, retry |-> rows[k].retry]
    <3>1. k \in leased /\ fire[k] = f BY <2>1
    <3>2. fires'[f] = e BY <2>1, <1>2
    <3>3. f \in free /\ k \in Jobs BY <3>1, <1>5
    <3>4. rows[k].retry \in 0..MaxRetries BY <3>3, <1>3 DEF Row
    <3> HIDE DEF k
    <3>5. e \in Fire /\ e.step = "start" BY <3>3, <3>4 DEF Fire
    <3> QED BY <3>2, <3>3, <3>5
  <2>2. CASE ~ \E j \in leased : fire[j] = f
    <3>1. fires'[f] = fires[f] BY <2>2, <1>2
    <3> QED BY <3>1, <1>3 DEF At
  <2> QED BY <2>1, <2>2
<1>7. fires' \in [Fires -> Fire \cup {Idle}]
  <2>1. \E g : fires' = [f \in Fires |-> g[f]]
    <3>1. fires' = [f \in Fires |-> fires'[f]] BY <1>2
    <3> QED BY <3>1
  <2> QED BY <2>1, <1>6
<1>8. InCampaign' = InCampaign /\ \A f \in InCampaign : Target(f)' = Target(f)
  BY <1>6 DEF InCampaign, At, Target
<1>9. GateInv' BY <1>1, <1>8 DEF CampaignInv, GateInv
<1> QED BY <1>1, <1>4, <1>7, <1>9, Clocks DEF CampaignInv, TypeOK, FiniteInv

LEMMA FireInv ==
  ASSUME CampaignInv, NEW f \in Fires,
         Block(f) \/ Record(f) \/ Benchmark(f) \/ EnterGate(f) \/ Skip(f)
           \/ Complete(f) \/ Schedule(f) \/ Duplicate(f)
  PROVE  CampaignInv'
<1>1. /\ fires \in [Fires -> Fire \cup {Idle}] /\ rows \in [Jobs -> Row]
      /\ fires[f].step \in {"start", "benchmark", "gate", "listed", "complete", "schedule"}
  BY DEF CampaignInv, TypeOK, At, Block, Record, Benchmark, EnterGate, Skip, Complete,
         Schedule, Duplicate
<1>2. fires[f] \in Fire /\ fires[f].job \in Jobs BY <1>1, FireShapes
<1>3. \E e \in Fire \cup {Idle} : e.step \notin {"campaign", "run"}
                                  /\ fires' = [fires EXCEPT ![f] = e]
  <2> SUFFICES ASSUME TRUE
               PROVE \E e \in Fire \cup {Idle} : e.step \notin {"campaign", "run"}
                                  /\ fires' = [fires EXCEPT ![f] = e]
    OBVIOUS
  <2>1. ASSUME NEW s \in {"benchmark", "gate", "listed", "schedule"}, Goto(f, s)
        PROVE  \E e \in Fire \cup {Idle} : e.step \notin {"campaign", "run"}
                                  /\ fires' = [fires EXCEPT ![f] = e]
    BY <2>1, <1>1, <1>2, Gotos
  <2>2. ASSUME NEW ok \in BOOLEAN, Settle(f, ok)
        PROVE  \E e \in Fire \cup {Idle} : e.step \notin {"campaign", "run"}
                                  /\ fires' = [fires EXCEPT ![f] = e]
    BY <2>2, <1>1, <1>2, Settles
  <2>3. ASSUME End(f)
        PROVE  \E e \in Fire \cup {Idle} : e.step \notin {"campaign", "run"}
                                  /\ fires' = [fires EXCEPT ![f] = e]
    <3>1. Idle.step \notin {"campaign", "run"} BY DEF Idle
    <3> QED BY <3>1, <2>3 DEF End
  <2> QED BY <2>1, <2>2, <2>3
      DEF Block, Record, Benchmark, EnterGate, Skip, Complete, Schedule, Duplicate
<1>4. PICK e \in Fire \cup {Idle} : e.step \notin {"campaign", "run"}
                                  /\ fires' = [fires EXCEPT ![f] = e]
  BY <1>3
<1>5. /\ UNCHANGED <<open, broken, tick, boots, changes, reserved>>
      /\ clock' \in {"off", "starting", "on", "failed"}
  BY Clocks DEF process, CampaignInv, TypeOK, Block, Record, Benchmark, EnterGate, Skip, Complete, Schedule, Duplicate
<1>6. GateInv' /\ fires' \in [Fires -> Fire \cup {Idle}]
  BY <1>1, <1>4, <1>5, MovesOutside DEF At
<1>7. rows' \in [Jobs -> Row]
  <2>1. CASE UNCHANGED rows BY <2>1, <1>1
  <2>2. CASE Delete(fires[f].job) BY <2>2, <1>2, Deletes
  <2>3. CASE Schedule(f)
    <3>1. NextRetry(fires[f]) \in 0..MaxRetries
      BY <1>2, JobsAssumption DEF NextRetry, Fire
    <3>2. \A d \in BOOLEAN : NewRow(d, NextRetry(fires[f])) \in Row
      BY <3>1, NewRows
    <3> QED BY <2>3, <3>2, <1>1 DEF Schedule
  <2> QED BY <2>1, <2>2, <2>3
      DEF Block, Record, Benchmark, EnterGate, Skip, Complete, Duplicate
<1>8. gate' \in Gate /\ IsFiniteSet(gate'.listed)
  <2>1. CASE UNCHANGED gate BY <2>1 DEF CampaignInv, TypeOK, FiniteInv
  <2>2. CASE gate' = FreeGate BY <2>2, FS_EmptySet DEF FreeGate, Gate
  <2>3. CASE gate' = [busy |-> TRUE, listed |-> open]
    BY <2>3 DEF CampaignInv, TypeOK, FiniteInv, Gate
  <2> QED BY <2>1, <2>2, <2>3
      DEF Block, Record, Benchmark, EnterGate, Skip, Complete, Schedule, Duplicate
<1> QED BY <1>5, <1>6, <1>7, <1>8 DEF CampaignInv, TypeOK, FiniteInv

\* The gate admits a target that is in no campaign, while there is room.
LEMMA AdmitInv ==
  ASSUME CampaignInv, NEW f \in Fires, Admit(f) PROVE CampaignInv'
<1>1. fires \in [Fires -> Fire \cup {Idle}] /\ fires[f].step = "listed"
  BY DEF CampaignInv, TypeOK, Admit, At
<1>2. fires[f] \in Fire /\ Target(f) \in Targets BY <1>1, FireShapes
<1>3. PICK e \in Fire : e.step = "campaign" /\ e.job = fires[f].job
                        /\ fires' = [fires EXCEPT ![f] = e]
  BY <1>1, <1>2, Gotos DEF Admit
<1>4. fires' \in [Fires -> Fire \cup {Idle}] BY <1>1, <1>3
<1>5. fires'[f] = e /\ \A g \in Fires \ {f} : fires'[g] = fires[g] BY <1>1, <1>3
<1>6. InCampaign' = InCampaign \cup {f} BY <1>3, <1>5 DEF InCampaign, At
<1>7. \A g \in InCampaign' : Target(g)' = Target(g)
  BY <1>3, <1>5 DEF InCampaign, At, Target
<1>8. /\ reserved' = reserved \cup {Target(f)} /\ Target(f) \notin reserved
      /\ Cardinality(gate.listed) + Cardinality(reserved) < MaxConcurrent
      /\ gate' = FreeGate /\ UNCHANGED <<rows, open, process>>
  BY DEF Admit, Admissible
<1>9. IsFiniteSet(reserved') /\ Cardinality(reserved') = Cardinality(reserved) + 1
  BY <1>8, FS_AddElement DEF CampaignInv, FiniteInv
<1>10. Cardinality(reserved') <= MaxConcurrent
  BY <1>8, <1>9, FS_CardinalityType, JobsAssumption DEF CampaignInv, FiniteInv
<1>11. reserved' = {Target(g) : g \in InCampaign'}
  BY <1>6, <1>8 DEF CampaignInv, GateInv
<1>12. reserved' = {Target(g)' : g \in InCampaign'} BY <1>7, <1>11
<1>13. \A g \in InCampaign : Target(g) # Target(f)
  BY <1>8 DEF CampaignInv, GateInv
<1>14. \A g, h \in InCampaign' : Target(g)' = Target(h)' => g = h
  <2>1. \A g, h \in InCampaign' : Target(g) = Target(h) => g = h
    BY <1>6, <1>13 DEF CampaignInv, GateInv
  <2> QED BY <2>1, <1>7
<1>15. GateInv' BY <1>10, <1>12, <1>14 DEF GateInv
<1>16. FiniteInv'
  BY <1>8, <1>9, FS_EmptySet DEF CampaignInv, FiniteInv, FreeGate
<1>17. TypeOK'
  BY <1>2, <1>4, <1>8 DEF CampaignInv, TypeOK, FreeGate, Gate, process
<1> QED BY <1>15, <1>16, <1>17 DEF CampaignInv

LEMMA OpenRunInv ==
  ASSUME CampaignInv, NEW f \in Fires, OpenRun(f) PROVE CampaignInv'
<1>1. fires \in [Fires -> Fire \cup {Idle}] /\ fires[f].step = "campaign"
  BY DEF CampaignInv, TypeOK, OpenRun, At
<1>2. fires[f] \in Fire /\ Target(f) \in Targets BY <1>1, FireShapes
<1>3. PICK e \in Fire : e.step = "run" /\ e.job = fires[f].job
                        /\ fires' = [fires EXCEPT ![f] = e]
  BY <1>1, <1>2, Gotos DEF OpenRun
<1>4. fires' \in [Fires -> Fire \cup {Idle}] BY <1>1, <1>3
<1>5. fires'[f] = e /\ \A g \in Fires \ {f} : fires'[g] = fires[g] BY <1>1, <1>3
<1>6. InCampaign' = InCampaign BY <1>1, <1>3, <1>5 DEF InCampaign, At
<1>7. \A g \in InCampaign : Target(g)' = Target(g)
  BY <1>3, <1>5 DEF InCampaign, At, Target
<1>8. open' = open \cup {Target(f)} /\ UNCHANGED <<rows, process, reserved, gate>>
  BY DEF OpenRun
<1>9. GateInv' BY <1>6, <1>7, <1>8 DEF CampaignInv, GateInv
<1>10. FiniteInv' BY <1>8, FS_AddElement DEF CampaignInv, FiniteInv
<1> QED BY <1>2, <1>4, <1>8, <1>9, <1>10 DEF CampaignInv, TypeOK, process

LEMMA EndCampaignInv ==
  ASSUME CampaignInv, NEW f \in Fires, FailCampaign(f) \/ EndRun(f)
  PROVE  CampaignInv'
<1>1. /\ fires \in [Fires -> Fire \cup {Idle}] /\ fires[f].step \in {"campaign", "run"}
      /\ f \in InCampaign
  BY DEF CampaignInv, TypeOK, FailCampaign, EndRun, At, InCampaign
<1>2. fires[f] \in Fire /\ Target(f) \in Targets BY <1>1, FireShapes
<1>3. \E ok \in BOOLEAN : Settle(f, ok) BY DEF FailCampaign, EndRun
<1>4. PICK e \in Fire : e.step = "complete" /\ fires' = [fires EXCEPT ![f] = e]
  BY <1>1, <1>2, <1>3, Settles
<1>5. /\ reserved' = reserved \ {Target(f)} /\ open' \in {open, open \ {Target(f)}}
      /\ UNCHANGED <<rows, process, gate>>
  BY DEF FailCampaign, EndRun
<1>6. /\ GateInv' /\ fires' \in [Fires -> Fire \cup {Idle}]
      /\ reserved' \subseteq Targets /\ IsFiniteSet(reserved')
  BY <1>1, <1>4, <1>5, LeavesCampaign
<1>7. IsFiniteSet(open') /\ open' \subseteq Targets
  BY <1>5, FS_RemoveElement DEF CampaignInv, FiniteInv, TypeOK
<1> QED BY <1>5, <1>6, <1>7 DEF CampaignInv, TypeOK, FiniteInv, process

LEMMA CampaignInit == Init => CampaignInv
<1> SUFFICES ASSUME Init PROVE CampaignInv OBVIOUS
<1>1. InCampaign = {} BY DEF Init, InCampaign, At, Idle
<1>2. Absent \in Row BY JobsAssumption DEF Absent, Row
<1>3. TypeOK
  <2>1. FreeGate \in Gate BY DEF FreeGate, Gate
  <2>2. 0 \in 0..MaxBoots /\ 0 \in 0..MaxChanges BY JobsAssumption
  <2>3. rows \in [Jobs -> Row] /\ fires \in [Fires -> Fire \cup {Idle}]
        /\ NoTick \in Tick
    BY <1>2 DEF Init, NoTick, Tick
  <2> QED BY <2>1, <2>2, <2>3 DEF Init, TypeOK
<1>4. FiniteInv BY FS_EmptySet DEF Init, FiniteInv, FreeGate
<1>5. GateInv BY <1>1, FS_EmptySet, JobsAssumption DEF Init, GateInv
<1> QED BY <1>3, <1>4, <1>5 DEF CampaignInv

LEMMA CampaignNext == CampaignInv /\ [Next]_vars => CampaignInv'
<1> SUFFICES ASSUME CampaignInv, [Next]_vars PROVE CampaignInv' OBVIOUS
<1>1. CASE Boot \/ Started \/ Halt \/ BeginTick \/ TickThrows \/ LeaseDue
  BY <1>1, ClockInv, HaltInv, LeaseDueInv
<1>2. ASSUME NEW t \in Targets, Operate(t) \/ Edit(t) \/ Refresh(t)
      PROVE  CampaignInv'
  BY <1>2, OperateInv, RefreshInv
<1>3. ASSUME NEW j \in Jobs, FallDue(j) \/ Expire(j) PROVE CampaignInv'
  BY <1>3, TimeInv
<1>4. ASSUME NEW f \in Fires, Step(f) PROVE CampaignInv'
  BY <1>4, FireInv, AdmitInv, OpenRunInv, EndCampaignInv DEF Step
<1>5. CASE UNCHANGED vars
  BY <1>5 DEF vars, process, CampaignInv, TypeOK, FiniteInv, GateInv, InCampaign, At, Target
<1> QED BY <1>1, <1>2, <1>3, <1>4, <1>5 DEF Next

\* However often jobs are leased again while their fires run, and runs open and
\* close meanwhile, a target is in one campaign at a time, and no more campaigns
\* run than are allowed (ContinuousEvolutionGate.admit and release).
THEOREM CampaignsAreGated == Spec => []CampaignGateHolds
<1>1. Init => CampaignInv BY CampaignInit
<1>2. CampaignInv /\ [Next]_vars => CampaignInv' BY CampaignNext
<1>3. CampaignInv => CampaignGateHolds
  <2> SUFFICES ASSUME CampaignInv PROVE CampaignGateHolds OBVIOUS
  <2> DEFINE t == [f \in InCampaign |-> Target(f)]
  <2>1. t \in Injection(InCampaign, reserved)
    BY DEF CampaignInv, GateInv, Injection, IsInjective
  <2>2. IsFiniteSet(reserved) BY DEF CampaignInv, FiniteInv
  <2>3. IsFiniteSet(InCampaign) /\ Cardinality(InCampaign) <= Cardinality(reserved)
    BY <2>1, <2>2, FS_Injection
  <2>4. Cardinality(InCampaign) <= MaxConcurrent
    BY <2>2, <2>3, FS_CardinalityType, JobsAssumption DEF CampaignInv, GateInv
  <2> QED BY <2>4 DEF CampaignInv, GateInv, CampaignGateHolds
<1> QED BY <1>1, <1>2, <1>3, PTL DEF Spec

(***************************************************************************)
(* Workers.  The call that works on a job is the head of the line at its   *)
(* gate, so nobody else touches the job between its steps.                 *)
Holding == {"slicing", "reading", "killing"}

\* Workers are numbered as they are spawned.
SpawnInv == \E n \in 0..MaxSpawned : Spawned = 1..n

\* What the tables lead to has been spawned and is not cleaned up.
TableInv ==
  /\ \A r \in Runs : byRunId[r] # None =>
       /\ byRunId[r] \in JobIds /\ job[byRunId[r]] \in JobStates
       /\ job[byRunId[r]].run = r
  /\ \A j \in byToken : j \in JobIds /\ job[j] \in JobStates

\* A call that is past the start gate has a job, which is there while it waits.
CallInv ==
  \A c \in Calls : call[c] # NoCall /\ call[c].step # "starting" =>
    /\ call[c].job \in JobIds /\ job[call[c].job] \in JobStates
    /\ call[c].run = job[call[c].job].run

\* A call at work on a job is the one the gate of the job has let in.
HolderInv ==
  \A c \in Calls : call[c] # NoCall =>
    /\ call[c].step \in Holding =>
         jobGate[call[c].job] # <<>> /\ Head(jobGate[call[c].job]) = c
    /\ call[c].step = "reading" => job[call[c].job].child \notin Alive
    /\ call[c].step = "killing" => job[call[c].job].child \notin Live

LiveInv ==
  \A j \in LiveJobs :
    /\ byRunId[job[j].run] = j /\ j \in byToken /\ job[j].root
    /\ job[j].paused => job[j].child = "stopped"

CountInv == Cardinality(LiveJobs) <= MaxJobs

\* A live worker of an unwanted run has its cancel at the gate.
CancelInv ==
  /\ \A j \in LiveJobs : job[j].run \in unwanted =>
       \E c \in Calls : /\ call[c] # NoCall /\ call[c].op = "cancel"
                        /\ call[c].step = "queued" /\ call[c].job = j
  /\ \A c \in Calls : call[c] # NoCall /\ call[c].step = "starting" =>
       call[c].run \notin unwanted

JobsInv ==
  /\ JobsTypeOK /\ SpawnInv /\ TableInv /\ CallInv /\ HolderInv
  /\ LiveInv /\ CountInv /\ RunsAttended /\ CancelInv

---------------------------------------------------------------------------
LEMMA JobShapes ==
  ASSUME NEW j \in JobIds, job \in [JobIds -> JobStates \union {Unspawned, Gone}]
  PROVE  /\ job[j] \in JobStates <=> job[j] # Unspawned /\ job[j] # Gone
         /\ job[j].child \in Alive => job[j] \in JobStates
         /\ job[j].child \in Live => job[j] \in JobStates /\ j \in LiveJobs
  BY DEF JobStates, Unspawned, Gone, Alive, Live, LiveJobs, Spawned

LEMMA CallShapes ==
  ASSUME NEW c \in Calls, call \in [Calls -> CallStates \union {NoCall}]
  PROVE  /\ call[c].step \in Steps => call[c] \in CallStates
         /\ call[c] # NoCall => call[c] \in CallStates
         /\ NoCall \notin CallStates
         /\ c \in Busy <=> call[c] # NoCall
  BY DEF CallStates, NoCall, Steps, Busy

LEMMA EnterShape ==
  ASSUME NEW c \in Calls, call \in [Calls -> CallStates \union {NoCall}],
         call[c] \in CallStates, NEW s \in Steps, Enter(c, s)
  PROVE  \E e \in CallStates :
           /\ e.step = s /\ e.op = call[c].op
           /\ e.run = call[c].run /\ e.job = call[c].job
           /\ call' = [call EXCEPT ![c] = e]
<1> DEFINE e == [step |-> s, op |-> call[c].op, run |-> call[c].run, job |-> call[c].job]
<1>1. e \in CallStates BY DEF CallStates
<1>2. [call[c] EXCEPT !.step = s] = e BY DEF CallStates
<1>3. call' = [call EXCEPT ![c] = e] BY <1>2 DEF Enter
<1> QED BY <1>1, <1>3

LEMMA PausedShape ==
  ASSUME NEW q \in JobStates, NEW x \in Alive \union {"exited"}, NEW y \in BOOLEAN
  PROVE  [q EXCEPT !.child = x, !.paused = y]
           = [run |-> q.run, child |-> x, paused |-> y,
              expired |-> q.expired, root |-> q.root]
<1> DEFINE p == [run |-> q.run, child |-> x, paused |-> q.paused,
                 expired |-> q.expired, root |-> q.root]
<1>1. p = [q EXCEPT !.child = x] BY DEF JobStates
<1>2. p \in JobStates /\ p.run = q.run /\ p.child = x
      /\ p.expired = q.expired /\ p.root = q.root
  BY DEF JobStates
<1> HIDE DEF p
<1>3. [p EXCEPT !.paused = y]
        = [run |-> q.run, child |-> x, paused |-> y,
           expired |-> q.expired, root |-> q.root]
  BY <1>2 DEF JobStates
<1>4. [q EXCEPT !.child = x, !.paused = y]
        = [[q EXCEPT !.child = x] EXCEPT !.paused = y]
  OBVIOUS
<1> QED BY <1>1, <1>3, <1>4

LEMMA ExpiredShape ==
  ASSUME NEW q \in JobStates, NEW x \in Alive \union {"exited"}, NEW y \in BOOLEAN
  PROVE  [q EXCEPT !.child = x, !.expired = y]
           = [run |-> q.run, child |-> x, paused |-> q.paused,
              expired |-> y, root |-> q.root]
<1> DEFINE p == [run |-> q.run, child |-> x, paused |-> q.paused,
                 expired |-> q.expired, root |-> q.root]
<1>1. p = [q EXCEPT !.child = x] BY DEF JobStates
<1>2. p \in JobStates /\ p.run = q.run /\ p.child = x
      /\ p.paused = q.paused /\ p.root = q.root
  BY DEF JobStates
<1> HIDE DEF p
<1>3. [p EXCEPT !.expired = y]
        = [run |-> q.run, child |-> x, paused |-> q.paused,
           expired |-> y, root |-> q.root]
  BY <1>2 DEF JobStates
<1>4. [q EXCEPT !.child = x, !.expired = y]
        = [[q EXCEPT !.child = x] EXCEPT !.expired = y]
  OBVIOUS
<1> QED BY <1>1, <1>3, <1>4

LEMMA RootShape ==
  ASSUME NEW q \in JobStates, NEW y \in BOOLEAN
  PROVE  [q EXCEPT !.root = y]
           = [run |-> q.run, child |-> q.child, paused |-> q.paused,
              expired |-> q.expired, root |-> y]
  BY DEF JobStates

LEMMA Signals ==
  ASSUME NEW x \in Alive \union {"exited"}
  PROVE  /\ Stopped(x) \in Alive \union {"exited"}
         /\ Continued(x) \in Alive \union {"exited"}
         /\ Killed(x) \in Alive \union {"exited"}
  BY DEF Stopped, Continued, Killed, Alive

\* A job in the hands of the call at its gate takes a new state of the same run.
LEMMA JobMoves ==
  ASSUME JobsInv, NEW j \in JobIds, NEW o \in JobStates, job[j] \in JobStates,
         o.run = job[j].run, o.root = job[j].root,
         o.child \in Live => job[j].child \in Live,
         o.child \in Live => (o.paused => o.child = "stopped"),
         job' = [job EXCEPT ![j] = o], UNCHANGED <<byRunId, byToken>>
  PROVE  /\ job' \in [JobIds -> JobStates \union {Unspawned, Gone}]
         /\ Spawned' = Spawned /\ SpawnInv' /\ TableInv' /\ LiveInv' /\ CountInv'
         /\ LiveJobs' \subseteq LiveJobs
         /\ \A k \in JobIds \ {j} : job'[k] = job[k]
         /\ job'[j] = o
         /\ \A k \in JobIds : job[k] \in JobStates =>
              job'[k] \in JobStates /\ job'[k].run = job[k].run
<1> USE DEF JobsInv
<1>1. job \in [JobIds -> JobStates \union {Unspawned, Gone}] BY DEF JobsTypeOK
<1>2. /\ \A k \in JobIds \ {j} : job'[k] = job[k]
      /\ job'[j] = o
  BY <1>1
<1>3. job' \in [JobIds -> JobStates \union {Unspawned, Gone}] BY <1>1
<1>4. o # Unspawned /\ o # Gone /\ job[j] # Unspawned
  BY DEF JobStates, Unspawned, Gone, Alive
<1>5. Spawned' = Spawned BY <1>2, <1>4 DEF Spawned
<1>6. LiveJobs' \subseteq LiveJobs BY <1>2, <1>5 DEF LiveJobs, Spawned
<1>7. SpawnInv' BY <1>5 DEF SpawnInv
<1>8. \A k \in JobIds : job[k] \in JobStates =>
              job'[k] \in JobStates /\ job'[k].run = job[k].run BY <1>2
<1>9. TableInv' BY <1>8 DEF TableInv
<1>10. LiveInv'
  <2> SUFFICES ASSUME NEW k \in LiveJobs'
               PROVE /\ byRunId[job'[k].run] = k /\ k \in byToken /\ job'[k].root
                     /\ job'[k].paused => job'[k].child = "stopped"
    BY DEF LiveInv
  <2>1. k \in LiveJobs /\ k \in JobIds BY <1>6 DEF LiveJobs, Spawned
  <2>2. job'[k].child \in Live BY DEF LiveJobs
  <2>3. CASE k = j BY <2>1, <2>2, <2>3, <1>2 DEF LiveInv
  <2>4. CASE k # j BY <2>1, <2>4, <1>2 DEF LiveInv
  <2> QED BY <2>3, <2>4
<1>11. CountInv'
  <2>1. IsFiniteSet(1..MaxSpawned) BY MaxJobsAssumption, FS_Interval
  <2>2. IsFiniteSet(LiveJobs)
    BY <2>1, FS_Subset DEF LiveJobs, Spawned, JobIds
  <2>3. Cardinality(LiveJobs') <= Cardinality(LiveJobs) /\ IsFiniteSet(LiveJobs')
    BY <2>2, <1>6, FS_Subset
  <2> QED BY <2>2, <2>3, FS_CardinalityType, MaxJobsAssumption DEF CountInv
<1> QED BY <1>2, <1>3, <1>5, <1>6, <1>7, <1>8, <1>9, <1>10, <1>11
---------------------------------------------------------------------------
\* A call changes its state and no job does.
LEMMA CallMoves ==
  ASSUME JobsInv, NEW c \in Calls, NEW e \in CallStates \union {NoCall},
         call' = [call EXCEPT ![c] = e], UNCHANGED <<job, byRunId, byToken>>,
         startGate' \in Seq(Calls), jobGate' \in [JobIds -> Seq(Calls)],
         unwanted' \subseteq Runs
  PROVE  /\ JobsTypeOK' /\ SpawnInv' /\ TableInv' /\ LiveInv' /\ CountInv'
         /\ LiveJobs' = LiveJobs /\ job' = job
         /\ \A d \in Calls \ {c} : call'[d] = call[d]
         /\ call'[c] = e
<1> USE DEF JobsInv
<1>1. call \in [Calls -> CallStates \union {NoCall}] BY DEF JobsTypeOK
<1>2. Spawned' = Spawned /\ LiveJobs' = LiveJobs BY DEF Spawned, LiveJobs
<1>3. JobsTypeOK' BY <1>1, <1>2 DEF JobsTypeOK
<1>4. SpawnInv' /\ CountInv' BY <1>2 DEF SpawnInv, CountInv
<1>5. TableInv' BY DEF TableInv
<1>6. LiveInv' BY <1>2 DEF LiveInv
<1> QED BY <1>1, <1>2, <1>3, <1>4, <1>5, <1>6

LEMMA OptimizeInv ==
  ASSUME JobsInv, NEW c \in Calls, NEW r \in Runs, Optimize(c, r)
  PROVE  JobsInv'
<1> DEFINE e == [step |-> "starting", op |-> "optimize", run |-> r, job |-> None]
<1>1. e \in CallStates /\ e.step = "starting" /\ e.run = r
  BY DEF CallStates, Steps, Operations
<1>2. call' = [call EXCEPT ![c] = e] BY DEF Optimize
<1> HIDE DEF e
<1>3. startGate' \in Seq(Calls) /\ jobGate' = jobGate /\ unwanted' = unwanted \ {r}
      /\ jobGate' \in [JobIds -> Seq(Calls)] /\ unwanted' \subseteq Runs
  BY DEF Optimize, JobsInv, JobsTypeOK
<1>4. UNCHANGED <<job, byRunId, byToken>> BY DEF Optimize
<1>5. /\ JobsTypeOK' /\ SpawnInv' /\ TableInv' /\ LiveInv' /\ CountInv'
      /\ LiveJobs' = LiveJobs /\ job' = job
      /\ \A d \in Calls \ {c} : call'[d] = call[d]
      /\ call'[c] = e
  BY <1>1, <1>2, <1>3, <1>4, CallMoves
<1>6. call[c] = NoCall /\ NoCall \notin CallStates
  BY DEF Optimize, CallStates, NoCall
<1>7. CallInv' BY <1>1, <1>5 DEF CallInv, JobsInv
<1>8. HolderInv' BY <1>1, <1>3, <1>5 DEF HolderInv, JobsInv, Holding
<1>9. RunsAttended'
  BY <1>1, <1>3, <1>5, <1>6 DEF RunsAttended, JobsInv, Busy
<1>10. CancelInv'
  BY <1>1, <1>3, <1>5, <1>6 DEF CancelInv, JobsInv
<1> QED BY <1>5, <1>7, <1>8, <1>9, <1>10 DEF JobsInv

LEMMA HeadOfAppend ==
  ASSUME NEW s \in Seq(Calls), NEW c \in Calls
  PROVE  /\ Append(s, c) # <<>>
         /\ s # <<>> => Head(Append(s, c)) = Head(s)
<1>1. Append(s, c) # <<>>
  <2>1. Len(Append(s, c)) = Len(s) + 1 /\ Len(s) \in Nat OBVIOUS
  <2>2. Len(<<>>) = 0 OBVIOUS
  <2> QED BY <2>1, <2>2
<1>2. ASSUME s # <<>> PROVE Head(Append(s, c)) = Head(s) BY <1>2
<1> QED BY <1>1, <1>2

\* Joining a line leaves the one at its head where it is.
LEMMA Appends ==
  ASSUME JobsInv, NEW c \in Calls, NEW j \in JobIds,
         jobGate' = [jobGate EXCEPT ![j] = Append(@, c)]
  PROVE  /\ jobGate' \in [JobIds -> Seq(Calls)] /\ jobGate'[j] # <<>>
         /\ \A k \in JobIds : jobGate[k] # <<>> =>
              jobGate'[k] # <<>> /\ Head(jobGate'[k]) = Head(jobGate[k])
<1>1. jobGate \in [JobIds -> Seq(Calls)] BY DEF JobsInv, JobsTypeOK
<1>2. /\ jobGate' \in [JobIds -> Seq(Calls)]
      /\ jobGate'[j] = Append(jobGate[j], c)
      /\ \A k \in JobIds \ {j} : jobGate'[k] = jobGate[k]
  BY <1>1
<1>3. jobGate[j] \in Seq(Calls) BY <1>1
<1>4. /\ Append(jobGate[j], c) # <<>>
      /\ jobGate[j] # <<>> => Head(Append(jobGate[j], c)) = Head(jobGate[j])
  BY <1>3, HeadOfAppend
<1> QED BY <1>2, <1>4

\* A call comes to the end of the line at the gate of a job that is there.
LEMMA JoinInv ==
  ASSUME JobsInv, NEW c \in Calls, NEW op \in Operations, NEW j \in JobIds,
         job[j] \in JobStates, call[c] = NoCall,
         Join(c, op, j), unwanted' \subseteq Runs,
         \A k \in LiveJobs : job[k].run \in unwanted' \ unwanted => op = "cancel" /\ k = j,
         \A d \in Calls : call[d] # NoCall /\ call[d].step = "starting"
                            => call[d].run \notin unwanted' \ unwanted,
         UNCHANGED <<job, byRunId, byToken, startGate>>
  PROVE  JobsInv'
<1> DEFINE e == [step |-> "queued", op |-> op, run |-> job[j].run, job |-> j]
<1>1. e \in CallStates /\ e.step = "queued" /\ e.run = job[j].run /\ e.job = j
      /\ e.op = op
  BY DEF CallStates, Steps, Operations, JobStates
<1>2. call' = [call EXCEPT ![c] = e] BY DEF Join
<1> HIDE DEF e
<1>3. jobGate \in [JobIds -> Seq(Calls)] /\ startGate' \in Seq(Calls)
  BY DEF JobsInv, JobsTypeOK
<1>4. jobGate' = [jobGate EXCEPT ![j] = Append(jobGate[j], c)] BY DEF Join
<1>5. jobGate' \in [JobIds -> Seq(Calls)] BY <1>3, <1>4
<1>6. \A k \in JobIds : jobGate[k] # <<>> =>
         jobGate'[k] # <<>> /\ Head(jobGate'[k]) = Head(jobGate[k])
  BY <1>4, Appends
<1>7. /\ JobsTypeOK' /\ SpawnInv' /\ TableInv' /\ LiveInv' /\ CountInv'
      /\ LiveJobs' = LiveJobs /\ job' = job
      /\ \A d \in Calls \ {c} : call'[d] = call[d]
      /\ call'[c] = e
  BY <1>1, <1>2, <1>3, <1>5, CallMoves
<1>8. NoCall \notin CallStates BY DEF CallStates, NoCall
<1>9. CallInv' BY <1>1, <1>7 DEF CallInv, JobsInv
<1>10. HolderInv'
  <2> SUFFICES ASSUME NEW d \in Calls, call'[d] # NoCall
               PROVE  /\ call'[d].step \in Holding =>
                           jobGate'[call'[d].job] # <<>> /\ Head(jobGate'[call'[d].job]) = d
                      /\ call'[d].step = "reading" => job[call'[d].job].child \notin Alive
                      /\ call'[d].step = "killing" => job[call'[d].job].child \notin Live
    BY <1>7 DEF HolderInv
  <2>1. CASE d = c BY <2>1, <1>1, <1>7 DEF Holding
  <2>2. CASE d # c
    <3>1. call'[d] = call[d] BY <2>2, <1>7
    <3>2. call[d].step \in Holding => call[d].job \in JobIds
      BY <3>1 DEF JobsInv, CallInv, Holding
    <3> QED BY <3>1, <3>2, <1>6 DEF JobsInv, HolderInv
  <2> QED BY <2>1, <2>2
<1>11. RunsAttended'
  <2> SUFFICES ASSUME NEW k \in LiveJobs
               PROVE \/ jobGate'[k] # <<>>
                     \/ \E d \in Busy' : call'[d].step = "started" /\ call'[d].job = k
                     \/ job[k].child = "stopped" /\ job[k].paused
    BY <1>7 DEF RunsAttended
  <2>1. k \in JobIds BY DEF LiveJobs, Spawned
  <2>2. CASE \E d \in Busy : call[d].step = "started" /\ call[d].job = k
    <3>1. PICK d \in Busy : call[d].step = "started" /\ call[d].job = k BY <2>2
    <3>2. d \in Calls \ {c} /\ call[d] # NoCall BY DEF Busy
    <3> QED BY <3>1, <3>2, <1>7 DEF Busy
  <2> QED BY <2>1, <2>2, <1>6 DEF JobsInv, RunsAttended
<1>12. CancelInv'
  <2>1. ASSUME NEW k \in LiveJobs, job[k].run \in unwanted'
        PROVE \E d \in Calls : /\ call'[d] # NoCall /\ call'[d].op = "cancel"
                               /\ call'[d].step = "queued" /\ call'[d].job = k
    <3>1. CASE job[k].run \in unwanted
      <4>1. PICK d \in Calls : /\ call[d] # NoCall /\ call[d].op = "cancel"
                               /\ call[d].step = "queued" /\ call[d].job = k
        BY <3>1 DEF JobsInv, CancelInv
      <4>2. call'[d] = call[d] BY <4>1, <1>7
      <4> QED BY <4>1, <4>2
    <3>2. CASE job[k].run \notin unwanted
      <4>1. op = "cancel" /\ k = j BY <2>1, <3>2
      <4>2. call'[c] # NoCall BY <1>1, <1>7, <1>8
      <4> QED BY <4>1, <4>2, <1>1, <1>7
    <3> QED BY <3>1, <3>2
  <2>2. ASSUME NEW d \in Calls, call'[d] # NoCall, call'[d].step = "starting"
        PROVE call'[d].run \notin unwanted'
    <3>1. d # c BY <2>2, <1>1, <1>7
    <3>2. call'[d] = call[d] BY <3>1, <1>7
    <3> QED BY <3>2, <2>2 DEF JobsInv, CancelInv
  <2> QED BY <2>1, <2>2, <1>7 DEF CancelInv
<1> QED BY <1>7, <1>9, <1>10, <1>11, <1>12 DEF JobsInv

LEMMA ResumeInv ==
  ASSUME JobsInv, NEW c \in Calls, NEW j \in JobIds, Resume(c, j)
  PROVE  JobsInv'
<1>1. job[j] \in JobStates BY DEF Resume, JobsInv, TableInv
<1>2. unwanted' = unwanted /\ unwanted' \subseteq Runs
  BY DEF Resume, JobsInv, JobsTypeOK
<1> QED BY <1>1, <1>2, JoinInv, "resume" \in Operations DEF Resume, Operations

LEMMA PauseInv ==
  ASSUME JobsInv, NEW c \in Calls, NEW r \in Runs, Pause(c, r)
  PROVE  JobsInv'
<1>1. byRunId[r] \in JobIds /\ job[byRunId[r]] \in JobStates
  BY DEF Pause, JobsInv, TableInv
<1>2. unwanted' = unwanted /\ unwanted' \subseteq Runs
  BY DEF Pause, JobsInv, JobsTypeOK
<1>3. "pause" \in Operations BY DEF Operations
<1>4. Join(c, "pause", byRunId[r]) /\ call[c] = NoCall
      /\ UNCHANGED <<job, byRunId, byToken, startGate>> BY DEF Pause
<1> QED BY <1>1, <1>2, <1>3, <1>4, JoinInv

LEMMA Unwanted ==
  ASSUME JobsInv, NEW r \in Runs, Unwant(r)
  PROVE  /\ unwanted' \subseteq Runs
         /\ \A d \in Calls : call[d] # NoCall /\ call[d].step = "starting"
                            => call[d].run \notin unwanted' \ unwanted
         /\ unwanted' \ unwanted \subseteq {r}
<1>1. unwanted' \subseteq Runs /\ unwanted' \ unwanted \subseteq {r}
  BY DEF Unwant, JobsInv, JobsTypeOK
<1>2. r \in unwanted' \ unwanted => ~ Spawning(r) BY DEF Unwant
<1> QED BY <1>1, <1>2 DEF Spawning, Busy

LEMMA CancelKeeps ==
  ASSUME JobsInv, NEW c \in Calls, NEW r \in Runs, Cancel(c, r)
  PROVE  JobsInv'
<1>1. byRunId[r] \in JobIds /\ job[byRunId[r]] \in JobStates
  BY DEF Cancel, JobsInv, TableInv
<1>2. Unwant(r) BY DEF Cancel
<1>3. "cancel" \in Operations BY DEF Operations
<1>4. Join(c, "cancel", byRunId[r]) /\ call[c] = NoCall
      /\ UNCHANGED <<job, byRunId, byToken, startGate>> BY DEF Cancel
<1>5. \A k \in LiveJobs : job[k].run \in unwanted' \ unwanted => k = byRunId[r]
  BY <1>2, Unwanted DEF JobsInv, LiveInv
<1> QED BY <1>1, <1>2, <1>3, <1>4, <1>5, JoinInv, Unwanted

LEMMA CancelUnknownInv ==
  ASSUME JobsInv, NEW c \in Calls, NEW r \in Runs, CancelUnknown(c, r)
  PROVE  JobsInv'
<1>1. Unwant(r) /\ byRunId[r] = None
      /\ UNCHANGED <<job, byRunId, byToken, startGate, jobGate, call>>
  BY DEF CancelUnknown
<1>2. \A k \in LiveJobs : job[k].run # r
  <2> SUFFICES ASSUME NEW k \in LiveJobs, job[k].run = r PROVE FALSE OBVIOUS
  <2>1. byRunId[r] = k BY DEF JobsInv, LiveInv
  <2> QED BY <2>1, <1>1 DEF None, LiveJobs, Spawned, JobIds
<1>3. LiveJobs' = LiveJobs /\ Spawned' = Spawned /\ Busy' = Busy
  BY <1>1 DEF LiveJobs, Spawned, Busy
<1>4. JobsTypeOK' BY <1>1, <1>3, Unwanted DEF JobsInv, JobsTypeOK
<1>5. SpawnInv' /\ TableInv' /\ CallInv' /\ HolderInv' /\ LiveInv' /\ CountInv'
      /\ RunsAttended'
  BY <1>1, <1>3
  DEF JobsInv, SpawnInv, TableInv, CallInv, HolderInv, LiveInv, CountInv,
      RunsAttended, IsAlive
<1>6. CancelInv'
  BY <1>1, <1>2, <1>3, Unwanted DEF JobsInv, CancelInv
<1> QED BY <1>4, <1>5, <1>6 DEF JobsInv
LEMMA Tails ==
  ASSUME NEW s \in Seq(Calls), s # <<>>
  PROVE  Tail(s) \in Seq(Calls)
  OBVIOUS

\* The call that the gate of a job has let in works on the job, and goes on
\* or leaves the gate to the next.
LEMMA WorkInv ==
  ASSUME JobsInv, NEW c \in Calls, NEW j \in JobIds, call[c] \in CallStates,
         call[c].step # "starting", call[c].step # "started", call[c].job = j,
         jobGate[j] # <<>>, Head(jobGate[j]) = c,
         NEW o \in JobStates, job[j] \in JobStates,
         o.run = job[j].run, o.root = job[j].root,
         o.child \in Live => job[j].child \in Live,
         o.child \in Live => (o.paused => o.child = "stopped"),
         job' = [job EXCEPT ![j] = o],
         NEW e \in CallStates \union {NoCall}, call' = [call EXCEPT ![c] = e],
         e # NoCall =>
           /\ jobGate' = jobGate
           /\ e.step \in Holding /\ e.job = j /\ e.run = call[c].run
           /\ e.step = "reading" => o.child \notin Alive
           /\ e.step = "killing" => o.child \notin Live,
         e = NoCall =>
           /\ Release(j)
           /\ o.child \in Live => o.child = "stopped" /\ o.paused,
         call[c].op = "cancel" /\ call[c].step = "queued" => o.child \notin Live,
         UNCHANGED <<byRunId, byToken, startGate, unwanted>>
  PROVE  JobsInv'
<1>1. /\ call \in [Calls -> CallStates \union {NoCall}]
      /\ jobGate \in [JobIds -> Seq(Calls)]
      /\ NoCall \notin CallStates
  BY DEF JobsInv, JobsTypeOK, CallStates, NoCall
<1>2. /\ job' \in [JobIds -> JobStates \union {Unspawned, Gone}]
      /\ Spawned' = Spawned /\ SpawnInv' /\ TableInv' /\ LiveInv' /\ CountInv'
      /\ LiveJobs' \subseteq LiveJobs
      /\ \A k \in JobIds \ {j} : job'[k] = job[k]
      /\ job'[j] = o
      /\ \A k \in JobIds : job[k] \in JobStates =>
           job'[k] \in JobStates /\ job'[k].run = job[k].run
  BY JobMoves
<1>3. /\ \A d \in Calls \ {c} : call'[d] = call[d]
      /\ call'[c] = e
      /\ call' \in [Calls -> CallStates \union {NoCall}]
  BY <1>1
<1>4. /\ jobGate' \in [JobIds -> Seq(Calls)]
      /\ \A k \in JobIds \ {j} : jobGate'[k] = jobGate[k]
      /\ e # NoCall => jobGate'[j] = jobGate[j]
  <2>1. CASE e # NoCall BY <2>1, <1>1
  <2>2. CASE e = NoCall
    <3>1. Tail(jobGate[j]) \in Seq(Calls) BY <1>1, Tails
    <3>2. jobGate' = [jobGate EXCEPT ![j] = Tail(jobGate[j])] BY <2>2 DEF Release
    <3> QED BY <3>1, <3>2, <2>2, <1>1
  <2> QED BY <2>1, <2>2
<1>5. JobsTypeOK' BY <1>2, <1>3, <1>4 DEF JobsInv, JobsTypeOK
<1>6. CallInv'
  <2> SUFFICES ASSUME NEW d \in Calls, call'[d] # NoCall, call'[d].step # "starting"
               PROVE  /\ call'[d].job \in JobIds /\ job'[call'[d].job] \in JobStates
                      /\ call'[d].run = job'[call'[d].job].run
    BY DEF CallInv
  <2>1. CASE d = c
    <3>1. call[c].run = job[j].run BY <1>1 DEF JobsInv, CallInv
    <3> QED BY <2>1, <3>1, <1>2, <1>3
  <2>2. CASE d # c
    <3>1. call'[d] = call[d] BY <2>2, <1>3
    <3>2. call[d].job \in JobIds /\ job[call[d].job] \in JobStates
          /\ call[d].run = job[call[d].job].run
      BY <3>1 DEF JobsInv, CallInv
    <3> QED BY <3>1, <3>2, <1>2
  <2> QED BY <2>1, <2>2
<1>7. HolderInv'
  <2> SUFFICES ASSUME NEW d \in Calls, call'[d] # NoCall
               PROVE  /\ call'[d].step \in Holding =>
                           jobGate'[call'[d].job] # <<>> /\ Head(jobGate'[call'[d].job]) = d
                      /\ call'[d].step = "reading" => job'[call'[d].job].child \notin Alive
                      /\ call'[d].step = "killing" => job'[call'[d].job].child \notin Live
    BY DEF HolderInv
  <2>1. CASE d = c BY <2>1, <1>2, <1>3, <1>4
  <2>2. CASE d # c
    <3>1. call'[d] = call[d] BY <2>2, <1>3
    <3>2. SUFFICES ASSUME call[d].step \in Holding
                   PROVE  /\ jobGate'[call[d].job] # <<>> /\ Head(jobGate'[call[d].job]) = d
                          /\ call[d].step = "reading" => job'[call[d].job].child \notin Alive
                          /\ call[d].step = "killing" => job'[call[d].job].child \notin Live
      BY <3>1 DEF Holding
    <3>3. call[d].job \in JobIds BY <3>1, <3>2 DEF JobsInv, CallInv, Holding
    <3>4. jobGate[call[d].job] # <<>> /\ Head(jobGate[call[d].job]) = d
      BY <3>1, <3>2 DEF JobsInv, HolderInv
    <3>5. call[d].job # j BY <3>4, <2>2
    <3> QED BY <3>1, <3>3, <3>4, <3>5, <1>2, <1>4 DEF JobsInv, HolderInv
  <2> QED BY <2>1, <2>2
<1>8. RunsAttended'
  <2> SUFFICES ASSUME NEW k \in LiveJobs'
               PROVE \/ jobGate'[k] # <<>>
                     \/ \E d \in Busy' : call'[d].step = "started" /\ call'[d].job = k
                     \/ job'[k].child = "stopped" /\ job'[k].paused
    BY DEF RunsAttended
  <2>1. k \in JobIds /\ k \in LiveJobs /\ job'[k].child \in Live
    BY <1>2 DEF LiveJobs, Spawned
  <2>2. CASE k = j BY <2>1, <2>2, <1>2, <1>4
  <2>3. CASE k # j
    <3>1. CASE \E d \in Busy : call[d].step = "started" /\ call[d].job = k
      <4>1. PICK d \in Busy : call[d].step = "started" /\ call[d].job = k BY <3>1
      <4>2. d \in Calls \ {c} /\ call[d] # NoCall BY <4>1 DEF Busy
      <4> QED BY <4>1, <4>2, <1>3 DEF Busy
    <3>2. CASE jobGate[k] # <<>> BY <3>2, <2>1, <2>3, <1>2, <1>4
    <3>3. CASE job[k].child = "stopped" /\ job[k].paused BY <3>3, <2>1, <2>3, <1>2, <1>4
    <3> QED BY <3>1, <3>2, <3>3, <2>1 DEF JobsInv, RunsAttended
  <2> QED BY <2>2, <2>3
<1>9. CancelInv'
  <2>1. ASSUME NEW k \in LiveJobs', job'[k].run \in unwanted'
        PROVE \E d \in Calls : /\ call'[d] # NoCall /\ call'[d].op = "cancel"
                               /\ call'[d].step = "queued" /\ call'[d].job = k
    <3>1. k \in JobIds /\ k \in LiveJobs /\ job'[k].child \in Live
      BY <1>2 DEF LiveJobs, Spawned
    <3>2. job[k].run \in unwanted BY <2>1, <3>1, <1>2
    <3>3. PICK d \in Calls : /\ call[d] # NoCall /\ call[d].op = "cancel"
                             /\ call[d].step = "queued" /\ call[d].job = k
      BY <3>1, <3>2 DEF JobsInv, CancelInv
    <3>4. d # c BY <3>1, <3>3, <1>2
    <3> QED BY <3>3, <3>4, <1>3
  <2>2. ASSUME NEW d \in Calls, call'[d] # NoCall, call'[d].step = "starting"
        PROVE call'[d].run \notin unwanted'
    <3>1. d # c BY <2>2, <1>3 DEF Holding
    <3> QED BY <3>1, <2>2, <1>3 DEF JobsInv, CancelInv
  <2> QED BY <2>1, <2>2 DEF CancelInv
<1> QED BY <1>2, <1>5, <1>6, <1>7, <1>8, <1>9 DEF JobsInv

LEMMA TurnFacts ==
  ASSUME JobsInv, NEW c \in Calls, NEW op \in Operations, Turn(c, op)
  PROVE  /\ call[c] \in CallStates /\ call[c].step = "queued" /\ call[c].op = op
         /\ call[c].job \in JobIds /\ job[call[c].job] \in JobStates
         /\ jobGate[call[c].job] # <<>> /\ Head(jobGate[call[c].job]) = c
<1>1. call[c] \in CallStates /\ call[c] # NoCall
  BY CallShapes DEF Turn, Steps, JobsInv, JobsTypeOK
<1> QED BY <1>1 DEF Turn, AtGate, JobsInv, CallInv

LEMMA HoldFacts ==
  ASSUME JobsInv, NEW c \in Calls, call[c].step \in Holding
  PROVE  /\ call[c] \in CallStates /\ call[c] # NoCall
         /\ call[c].job \in JobIds /\ job[call[c].job] \in JobStates
         /\ jobGate[call[c].job] # <<>> /\ Head(jobGate[call[c].job]) = c
<1>1. call[c] \in CallStates /\ call[c] # NoCall
  BY CallShapes DEF Steps, Holding, JobsInv, JobsTypeOK
<1> QED BY <1>1 DEF JobsInv, CallInv, HolderInv, Holding

LEMMA TakePauseInv ==
  ASSUME JobsInv, NEW c \in Calls, TakePause(c)
  PROVE  JobsInv'
<1> DEFINE j == call[c].job
           q == job[j]
           o == IF IsAlive(j) /\ ~job[j].paused
                THEN [run |-> q.run, child |-> Stopped(q.child), paused |-> TRUE,
                      expired |-> q.expired, root |-> q.root]
                ELSE q
<1>1. Turn(c, "pause") /\ Release(j) /\ call' = [call EXCEPT ![c] = NoCall]
      /\ UNCHANGED <<byRunId, byToken, startGate, unwanted>>
  BY DEF TakePause, Answer
<1>2. /\ call[c] \in CallStates /\ call[c].step = "queued" /\ call[c].op = "pause"
      /\ j \in JobIds /\ q \in JobStates
      /\ jobGate[j] # <<>> /\ Head(jobGate[j]) = c
  BY <1>1, TurnFacts, "pause" \in Operations DEF Operations
<1>3. o \in JobStates /\ o.run = q.run /\ o.root = q.root
  BY <1>2 DEF JobStates, Stopped, Alive, IsAlive
<1>4. /\ o.child \in Live => q.child \in Live
      /\ o.child \in Live => o.child = "stopped" /\ o.paused
  <2>1. q.child \in Live => j \in LiveJobs /\ (q.paused => q.child = "stopped")
    BY <1>2, JobShapes DEF JobsInv, LiveInv, JobsTypeOK
  <2>2. q.child \in Live => IsAlive(j) BY DEF Live, Alive, IsAlive
  <2>3. o.child = "running" => o = q
    BY DEF Stopped
  <2>4. CASE o = q BY <2>1, <2>2, <2>4, <1>2 DEF JobStates, Live
  <2>5. CASE o # q
    BY <2>5, <2>2 DEF Stopped, Live, IsAlive, Alive
  <2> QED BY <2>4, <2>5
<1>5. job \in [JobIds -> JobStates \union {Unspawned, Gone}]
  BY DEF JobsInv, JobsTypeOK
<1>6. job' = [job EXCEPT ![j] = o]
  <2>1. [job[j] EXCEPT !.child = Stopped(@), !.paused = TRUE]
          = [run |-> q.run, child |-> Stopped(q.child), paused |-> TRUE,
             expired |-> q.expired, root |-> q.root]
    <3>1. q \in JobStates /\ q.child \in Alive \union {"exited"}
      BY <1>2 DEF JobStates
    <3>2. Stopped(q.child) \in Alive \union {"exited"} BY <3>1, Signals
    <3> QED BY <3>1, <3>2, PausedShape
  <2> QED BY <2>1, <1>2, <1>5 DEF TakePause
<1> HIDE DEF o, q, j
<1>7. call[c].job = j /\ job[j] = q BY DEF j, q
<1> QED BY <1>1, <1>2, <1>3, <1>4, <1>6, <1>7, WorkInv

LEMMA AwakeFacts ==
  ASSUME JobsInv, NEW c \in Calls, NEW j \in JobIds, job[j] \in JobStates
  PROVE  /\ Awake(c, j) \in JobStates
         /\ Awake(c, j).run = job[j].run /\ Awake(c, j).root = job[j].root
         /\ Awake(c, j).child \in Live => job[j].child \in Live
         /\ Awake(c, j).child \in Live => (Awake(c, j).paused => Awake(c, j).child = "stopped")
<1> DEFINE q == job[j]
           o == [run |-> q.run, child |-> Continued(q.child), paused |-> FALSE,
                      expired |-> q.expired, root |-> q.root]
<1>1. [job[j] EXCEPT !.child = Continued(@), !.paused = FALSE] = o
  <2>1. q \in JobStates /\ q.child \in Alive \union {"exited"} BY DEF JobStates
  <2>2. Continued(q.child) \in Alive \union {"exited"} BY <2>1, Signals
  <2> QED BY <2>1, <2>2, PausedShape
<1>2. o \in JobStates BY DEF JobStates, Continued, Alive
<1>3. o.child \in Live => q.child \in Live BY DEF Continued, Live
<1>4. q.child \in Live => (q.paused => q.child = "stopped")
  BY JobShapes DEF JobsInv, LiveInv, JobsTypeOK
<1>5. Awake(c, j) = o \/ Awake(c, j) = q BY <1>1 DEF Awake
<1>6. /\ o.run = q.run /\ o.root = q.root /\ o.paused = FALSE OBVIOUS
<1> HIDE DEF o
<1>7. CASE Awake(c, j) = o BY <1>2, <1>3, <1>6, <1>7
<1>8. CASE Awake(c, j) = q BY <1>4, <1>8
<1> QED BY <1>5, <1>7, <1>8

LEMMA TakeSliceInv ==
  ASSUME JobsInv, NEW c \in Calls, TakeSlice(c)
  PROVE  JobsInv'
<1> DEFINE j == call[c].job
           o == Awake(c, j)
<1>1. PICK op \in {"optimize", "resume"} : Turn(c, op) BY DEF TakeSlice
<1>2. /\ call[c] \in CallStates /\ call[c].step = "queued" /\ call[c].op = op
      /\ j \in JobIds /\ job[j] \in JobStates
      /\ jobGate[j] # <<>> /\ Head(jobGate[j]) = c
  BY <1>1, TurnFacts, op \in Operations DEF Operations
<1>3. Enter(c, "slicing") /\ job' = [job EXCEPT ![j] = o] /\ jobGate' = jobGate
      /\ UNCHANGED <<byRunId, byToken, startGate, unwanted>>
  BY DEF TakeSlice
<1>4. "slicing" \in Steps BY DEF Steps
<1>5. call \in [Calls -> CallStates \union {NoCall}] BY DEF JobsInv, JobsTypeOK
<1>6. PICK e \in CallStates :
           /\ e.step = "slicing" /\ e.op = call[c].op
           /\ e.run = call[c].run /\ e.job = call[c].job
           /\ call' = [call EXCEPT ![c] = e]
  BY <1>2, <1>3, <1>4, <1>5, EnterShape
<1>7. e # NoCall BY DEF CallStates, NoCall
<1>8. /\ o \in JobStates /\ o.run = job[j].run /\ o.root = job[j].root
      /\ o.child \in Live => job[j].child \in Live
      /\ o.child \in Live => (o.paused => o.child = "stopped")
  BY <1>2, AwakeFacts
<1>9. call[c].job = j OBVIOUS
<1>10. op # "cancel" OBVIOUS
<1> HIDE DEF o, j
<1> QED BY <1>2, <1>3, <1>6, <1>7, <1>8, <1>9, <1>10, WorkInv, ZenonT(60) DEF Holding

LEMMA TakeExpiredInv ==
  ASSUME JobsInv, NEW c \in Calls, TakeExpired(c)
  PROVE  JobsInv'
<1> DEFINE j == call[c].job
           q == Awake(c, j)
           o == [run |-> q.run, child |-> Killed(q.child), paused |-> q.paused,
                 expired |-> TRUE, root |-> q.root]
<1>1. PICK op \in {"optimize", "resume"} : Turn(c, op) BY DEF TakeExpired
<1>2. /\ call[c] \in CallStates /\ call[c].step = "queued" /\ call[c].op = op
      /\ j \in JobIds /\ job[j] \in JobStates
      /\ jobGate[j] # <<>> /\ Head(jobGate[j]) = c
  BY <1>1, TurnFacts, op \in Operations DEF Operations
<1>3. q \in JobStates /\ q.run = job[j].run /\ q.root = job[j].root
  BY <1>2, AwakeFacts
<1>4. Enter(c, "killing") /\ job' = [job EXCEPT ![j] = o] /\ jobGate' = jobGate
      /\ UNCHANGED <<byRunId, byToken, startGate, unwanted>>
  <2>1. [Awake(c, j) EXCEPT !.child = Killed(@), !.expired = TRUE] = o
    <3>1. q \in JobStates /\ q.child \in Alive \union {"exited"}
      BY <1>3 DEF JobStates
    <3>2. Killed(q.child) \in Alive \union {"exited"} BY <3>1, Signals
    <3> QED BY <3>1, <3>2, ExpiredShape
  <2> QED BY <2>1 DEF TakeExpired
<1>5. o \in JobStates /\ o.run = job[j].run /\ o.root = job[j].root
      /\ o.child \notin Live
  BY <1>3 DEF JobStates, Killed, Live, Alive
<1>6. call \in [Calls -> CallStates \union {NoCall}] /\ "killing" \in Steps
  BY DEF JobsInv, JobsTypeOK, Steps
<1>7. PICK e \in CallStates :
           /\ e.step = "killing" /\ e.op = call[c].op
           /\ e.run = call[c].run /\ e.job = call[c].job
           /\ call' = [call EXCEPT ![c] = e]
  BY <1>2, <1>4, <1>6, EnterShape
<1>8. e # NoCall BY DEF CallStates, NoCall
<1>9. call[c].job = j OBVIOUS
<1> HIDE DEF o, q, j
<1>10. /\ call[c].step \notin {"starting", "started"}
       /\ e.step \in Holding /\ e.step # "reading" /\ e.job = j
  BY <1>2, <1>7, <1>9 DEF Holding
<1> QED BY <1>2, <1>4, <1>5, <1>7, <1>8, <1>9, <1>10, WorkInv

LEMMA TakeCancelInv ==
  ASSUME JobsInv, NEW c \in Calls, TakeCancel(c)
  PROVE  JobsInv'
<1> DEFINE j == call[c].job
           q == job[j]
           o == [run |-> q.run, child |-> Killed(q.child), paused |-> q.paused,
                 expired |-> q.expired, root |-> q.root]
<1>1. Turn(c, "cancel") BY DEF TakeCancel
<1>2. /\ call[c] \in CallStates /\ call[c].step = "queued"
      /\ j \in JobIds /\ job[j] \in JobStates
      /\ jobGate[j] # <<>> /\ Head(jobGate[j]) = c
  BY <1>1, TurnFacts, "cancel" \in Operations DEF Operations
<1>3. job \in [JobIds -> JobStates \union {Unspawned, Gone}]
  BY DEF JobsInv, JobsTypeOK
<1>4. Enter(c, "killing") /\ job' = [job EXCEPT ![j] = o] /\ jobGate' = jobGate
      /\ UNCHANGED <<byRunId, byToken, startGate, unwanted>>
  <2>1. [job[j] EXCEPT !.child = Killed(@)] = o BY <1>2 DEF JobStates
  <2>2. job' = [job EXCEPT ![j] = [job[j] EXCEPT !.child = Killed(@)]]
    BY <1>2, <1>3 DEF TakeCancel
  <2> QED BY <2>1, <2>2 DEF TakeCancel
<1>5. o \in JobStates /\ o.run = job[j].run /\ o.root = job[j].root
      /\ o.child \notin Live
  BY <1>2 DEF JobStates, Killed, Live, Alive
<1>6. call \in [Calls -> CallStates \union {NoCall}] /\ "killing" \in Steps
  BY DEF JobsInv, JobsTypeOK, Steps
<1>7. PICK e \in CallStates :
           /\ e.step = "killing" /\ e.op = call[c].op
           /\ e.run = call[c].run /\ e.job = call[c].job
           /\ call' = [call EXCEPT ![c] = e]
  BY <1>2, <1>4, <1>6, EnterShape
<1>8. e # NoCall BY DEF CallStates, NoCall
<1>9. call[c].job = j OBVIOUS
<1> HIDE DEF o, q, j
<1>10. /\ call[c].step \notin {"starting", "started"}
       /\ e.step \in Holding /\ e.step # "reading" /\ e.job = j
  BY <1>2, <1>7, <1>9 DEF Holding
<1> QED BY <1>2, <1>4, <1>5, <1>7, <1>8, <1>9, <1>10, WorkInv
LEMMA SliceOverInv ==
  ASSUME JobsInv, NEW c \in Calls, SliceOver(c)
  PROVE  JobsInv'
<1> DEFINE j == call[c].job
           q == job[j]
           o == [run |-> q.run, child |-> Stopped(q.child), paused |-> TRUE,
                 expired |-> q.expired, root |-> q.root]
<1>1. Release(j) /\ call' = [call EXCEPT ![c] = NoCall] /\ q.child \in Alive
      /\ call[c].step = "slicing"
      /\ UNCHANGED <<byRunId, byToken, startGate, unwanted>>
  BY DEF SliceOver, Answer, IsAlive
<1>2. /\ call[c] \in CallStates /\ j \in JobIds /\ q \in JobStates
      /\ jobGate[j] # <<>> /\ Head(jobGate[j]) = c
  BY <1>1, HoldFacts DEF Holding
<1>3. o \in JobStates /\ o.run = q.run /\ o.root = q.root
      /\ (o.child \in Live => q.child \in Live /\ o.child = "stopped" /\ o.paused)
  BY <1>1, <1>2 DEF JobStates, Stopped, Alive, Live
<1>4. job' = [job EXCEPT ![j] = o]
  <2>1. q.child \in Alive \union {"exited"} BY <1>2 DEF JobStates
  <2>2. [q EXCEPT !.child = Stopped(q.child), !.paused = TRUE] = o
    BY <1>2, <2>1, Signals, PausedShape
  <2>3. job' = [job EXCEPT ![j] = [q EXCEPT !.child = Stopped(q.child), !.paused = TRUE]]
    BY <1>2 DEF SliceOver, JobsInv, JobsTypeOK
  <2> QED BY <2>2, <2>3
<1> HIDE DEF o, q, j
<1>6. call[c].job = j /\ job[j] = q BY DEF j, q
<1> QED BY <1>1, <1>2, <1>3, <1>4, <1>6, WorkInv

LEMMA WorkerEndedInv ==
  ASSUME JobsInv, NEW c \in Calls, WorkerEnded(c)
  PROVE  JobsInv'
<1> DEFINE j == call[c].job
<1>1. Enter(c, "reading") /\ job[j].child \notin Alive
      /\ call[c].step = "slicing"
      /\ UNCHANGED <<job, byRunId, byToken, startGate, jobGate, unwanted>>
  BY DEF WorkerEnded, IsAlive
<1>2. /\ call[c] \in CallStates /\ j \in JobIds /\ job[j] \in JobStates
      /\ jobGate[j] # <<>> /\ Head(jobGate[j]) = c
  BY <1>1, HoldFacts DEF Holding
<1>3. call \in [Calls -> CallStates \union {NoCall}] /\ "reading" \in Steps
      /\ job \in [JobIds -> JobStates \union {Unspawned, Gone}]
  BY DEF JobsInv, JobsTypeOK, Steps
<1>4. PICK e \in CallStates :
           /\ e.step = "reading" /\ e.op = call[c].op
           /\ e.run = call[c].run /\ e.job = call[c].job
           /\ call' = [call EXCEPT ![c] = e]
  BY <1>1, <1>2, <1>3, EnterShape
<1>5. e # NoCall BY DEF CallStates, NoCall
<1>6. job' = [job EXCEPT ![j] = job[j]] BY <1>1, <1>3
<1>7. job[j].child \notin Live BY <1>1 DEF Alive, Live
<1>8. call[c].job = j OBVIOUS
<1> HIDE DEF j
<1> QED BY <1>1, <1>2, <1>4, <1>5, <1>6, <1>7, <1>8, WorkInv DEF Holding

LEMMA RefuseStartInv ==
  ASSUME JobsInv, NEW c \in Calls, RefuseStart(c)
  PROVE  JobsInv'
<1>1. call[c].step = "starting" /\ startGate # <<>> /\ startGate' = Tail(startGate)
      /\ call' = [call EXCEPT ![c] = NoCall]
      /\ UNCHANGED <<job, byRunId, byToken, jobGate, unwanted>>
  BY DEF RefuseStart, Answer, AtStart
<1>2. startGate' \in Seq(Calls) BY <1>1, Tails DEF JobsInv, JobsTypeOK
<1>3. jobGate' \in [JobIds -> Seq(Calls)] /\ unwanted' \subseteq Runs
  BY <1>1 DEF JobsInv, JobsTypeOK
<1>4. /\ JobsTypeOK' /\ SpawnInv' /\ TableInv' /\ LiveInv' /\ CountInv'
      /\ LiveJobs' = LiveJobs /\ job' = job
      /\ \A d \in Calls \ {c} : call'[d] = call[d]
      /\ call'[c] = NoCall
  BY <1>1, <1>2, <1>3, CallMoves
<1>5. CallInv' BY <1>4 DEF CallInv, JobsInv
<1>6. HolderInv' BY <1>1, <1>4 DEF HolderInv, JobsInv
<1>7. RunsAttended'
  BY <1>1, <1>4 DEF RunsAttended, JobsInv, Busy
<1>8. CancelInv'
  BY <1>1, <1>4 DEF CancelInv, JobsInv
<1> QED BY <1>4, <1>5, <1>6, <1>7, <1>8 DEF JobsInv

LEMMA JoinStartedInv ==
  ASSUME JobsInv, NEW c \in Calls, JoinStarted(c)
  PROVE  JobsInv'
<1> DEFINE j == call[c].job
<1>1. call[c].step = "started" /\ Enter(c, "queued")
      /\ jobGate' = [jobGate EXCEPT ![j] = Append(@, c)]
      /\ UNCHANGED <<job, byRunId, byToken, startGate, unwanted>>
  BY DEF JoinStarted
<1>2. call \in [Calls -> CallStates \union {NoCall}] /\ "queued" \in Steps
      /\ startGate' \in Seq(Calls) /\ unwanted' \subseteq Runs
  BY <1>1 DEF JobsInv, JobsTypeOK, Steps
<1>3. call[c] \in CallStates /\ call[c] # NoCall BY <1>1, <1>2, CallShapes DEF Steps
<1>4. j \in JobIds /\ job[j] \in JobStates /\ call[c].run = job[j].run
  BY <1>1, <1>3 DEF JobsInv, CallInv
<1>5. PICK e \in CallStates :
           /\ e.step = "queued" /\ e.op = call[c].op
           /\ e.run = call[c].run /\ e.job = call[c].job
           /\ call' = [call EXCEPT ![c] = e]
  BY <1>1, <1>2, <1>3, EnterShape
<1>6. /\ jobGate' \in [JobIds -> Seq(Calls)] /\ jobGate'[j] # <<>>
      /\ \A k \in JobIds : jobGate[k] # <<>> =>
              jobGate'[k] # <<>> /\ Head(jobGate'[k]) = Head(jobGate[k])
  BY <1>1, <1>4, Appends
<1>7. /\ JobsTypeOK' /\ SpawnInv' /\ TableInv' /\ LiveInv' /\ CountInv'
      /\ LiveJobs' = LiveJobs /\ job' = job
      /\ \A d \in Calls \ {c} : call'[d] = call[d]
      /\ call'[c] = e
  BY <1>1, <1>2, <1>5, <1>6, CallMoves
<1>8. CallInv' BY <1>4, <1>5, <1>7 DEF CallInv, JobsInv
<1>9. HolderInv'
  <2> SUFFICES ASSUME NEW d \in Calls, call'[d] # NoCall
               PROVE  /\ call'[d].step \in Holding =>
                           jobGate'[call'[d].job] # <<>> /\ Head(jobGate'[call'[d].job]) = d
                      /\ call'[d].step = "reading" => job[call'[d].job].child \notin Alive
                      /\ call'[d].step = "killing" => job[call'[d].job].child \notin Live
    BY <1>7 DEF HolderInv
  <2>1. CASE d = c BY <2>1, <1>5, <1>7 DEF Holding
  <2>2. CASE d # c
    <3>1. call'[d] = call[d] BY <2>2, <1>7
    <3>2. call[d].step \in Holding => call[d].job \in JobIds
      BY <3>1 DEF JobsInv, CallInv, Holding
    <3> QED BY <3>1, <3>2, <1>6 DEF JobsInv, HolderInv
  <2> QED BY <2>1, <2>2
<1>10. RunsAttended'
  <2> SUFFICES ASSUME NEW k \in LiveJobs
               PROVE \/ jobGate'[k] # <<>>
                     \/ \E d \in Busy' : call'[d].step = "started" /\ call'[d].job = k
                     \/ job[k].child = "stopped" /\ job[k].paused
    BY <1>7 DEF RunsAttended
  <2>1. k \in JobIds BY DEF LiveJobs, Spawned
  <2>2. CASE \E d \in Busy : call[d].step = "started" /\ call[d].job = k
    <3>1. PICK d \in Busy : call[d].step = "started" /\ call[d].job = k BY <2>2
    <3>2. CASE d = c BY <3>1, <3>2, <1>6
    <3>3. CASE d # c
      <4>1. d \in Calls \ {c} /\ call[d] # NoCall BY <3>3 DEF Busy
      <4> QED BY <3>1, <4>1, <1>7 DEF Busy
    <3> QED BY <3>2, <3>3
  <2> QED BY <2>1, <2>2, <1>6 DEF JobsInv, RunsAttended
<1>11. CancelInv'
  <2>1. \A d \in Calls : call'[d] # NoCall /\ call'[d].step = "starting" =>
          d # c /\ call'[d] = call[d]
    BY <1>5, <1>7
  <2>2. \A d \in Calls : call[d] # NoCall /\ call[d].step = "queued" =>
          d # c /\ call'[d] = call[d]
    BY <1>1, <1>7
  <2>3. unwanted' = unwanted BY <1>1
  <2>4. \A k \in LiveJobs : job[k].run \in unwanted =>
         \E d \in Calls : /\ call'[d] # NoCall /\ call'[d].op = "cancel"
                          /\ call'[d].step = "queued" /\ call'[d].job = k
    BY <2>2 DEF CancelInv, JobsInv
  <2>5. \A d \in Calls : call'[d] # NoCall /\ call'[d].step = "starting" =>
          call'[d].run \notin unwanted
    BY <2>1 DEF CancelInv, JobsInv
  <2> QED BY <2>3, <2>4, <2>5, <1>7 DEF CancelInv
<1> HIDE DEF j
<1> QED BY <1>7, <1>8, <1>9, <1>10, <1>11 DEF JobsInv

LEMMA WorkerExitsInv ==
  ASSUME JobsInv, NEW j \in JobIds, WorkerExits(j)
  PROVE  JobsInv'
<1> DEFINE q == job[j]
           o == [run |-> q.run, child |-> "exited", paused |-> q.paused,
                 expired |-> q.expired, root |-> q.root]
<1>1. q.child \in Alive
      /\ UNCHANGED <<byRunId, byToken, startGate, jobGate, call, unwanted>>
  BY DEF WorkerExits, Alive
<1>2. job \in [JobIds -> JobStates \union {Unspawned, Gone}]
  BY DEF JobsInv, JobsTypeOK
<1>3. q \in JobStates BY <1>1, <1>2, JobShapes
<1>4. o \in JobStates /\ o.run = q.run /\ o.root = q.root /\ o.child \notin Alive
      /\ o.child \notin Live
  BY <1>3 DEF JobStates, Alive, Live
<1>5. job' = [job EXCEPT ![j] = o]
  <2>1. [job[j] EXCEPT !.child = "exited"] = o BY <1>3 DEF JobStates
  <2>2. job' = [job EXCEPT ![j] = [job[j] EXCEPT !.child = "exited"]]
    BY <1>2 DEF WorkerExits
  <2> QED BY <2>1, <2>2
<1> HIDE DEF o, q
<1>6. job[j] = q BY DEF q
<1>7. /\ job' \in [JobIds -> JobStates \union {Unspawned, Gone}]
      /\ Spawned' = Spawned /\ SpawnInv' /\ TableInv' /\ LiveInv' /\ CountInv'
      /\ LiveJobs' \subseteq LiveJobs
      /\ \A k \in JobIds \ {j} : job'[k] = job[k]
      /\ job'[j] = o
      /\ \A k \in JobIds : job[k] \in JobStates =>
           job'[k] \in JobStates /\ job'[k].run = job[k].run
  BY <1>1, <1>3, <1>4, <1>5, <1>6, JobMoves
<1>8. JobsTypeOK' BY <1>1, <1>7 DEF JobsInv, JobsTypeOK
<1>9. CallInv' BY <1>1, <1>7 DEF JobsInv, CallInv
<1>10. HolderInv'
  <2> SUFFICES ASSUME NEW d \in Calls, call[d] # NoCall
               PROVE  /\ call[d].step \in Holding =>
                           jobGate[call[d].job] # <<>> /\ Head(jobGate[call[d].job]) = d
                      /\ call[d].step = "reading" => job'[call[d].job].child \notin Alive
                      /\ call[d].step = "killing" => job'[call[d].job].child \notin Live
    BY <1>1 DEF HolderInv
  <2>1. call[d].step \in Holding => call[d].job \in JobIds
    BY DEF JobsInv, CallInv, Holding
  <2> QED BY <2>1, <1>4, <1>7 DEF JobsInv, HolderInv, Holding
<1>11. \A k \in LiveJobs' : k \in LiveJobs /\ k \in JobIds \ {j} /\ job'[k] = job[k]
  BY <1>4, <1>7 DEF LiveJobs, Spawned
<1>12. RunsAttended' BY <1>1, <1>11 DEF JobsInv, RunsAttended, Busy
<1>13. CancelInv' BY <1>1, <1>11 DEF JobsInv, CancelInv
<1> QED BY <1>7, <1>8, <1>9, <1>10, <1>12, <1>13 DEF JobsInv

LEMMA SpawnKeeps ==
  ASSUME JobsInv, NEW c \in Calls, NEW j \in JobIds, Spawn(c, j)
  PROVE  JobsInv'
<1> DEFINE r == call[c].run
           o == [run |-> r, child |-> "running", paused |-> FALSE,
                 expired |-> FALSE, root |-> TRUE]
           e == [step |-> "started", op |-> call[c].op, run |-> r, job |-> j]
<1> USE DEF JobsInv
<1>1. /\ call \in [Calls -> CallStates \union {NoCall}]
      /\ job \in [JobIds -> JobStates \union {Unspawned, Gone}]
      /\ byRunId \in [Runs -> Spawned \union {None}] /\ byToken \subseteq Spawned
      /\ NoCall \notin CallStates
  <2>1. NoCall \notin CallStates BY DEF CallStates, NoCall
  <2> QED BY <2>1 DEF JobsTypeOK
<1>2. /\ call[c].step = "starting" /\ startGate # <<>> /\ MayStart(r)
      /\ j = Cardinality(Spawned) + 1
      /\ job' = [job EXCEPT ![j] = o]
      /\ byRunId' = [byRunId EXCEPT ![r] = j]
      /\ byToken' = byToken \union {j}
      /\ startGate' = Tail(startGate)
      /\ UNCHANGED <<jobGate, unwanted>>
  BY DEF Spawn, AtStart
<1>3. call[c] \in CallStates /\ call[c] # NoCall
  BY <1>1, <1>2, CallShapes DEF Steps
<1>4. call' = [call EXCEPT ![c] = e]
  <2> DEFINE p == [step |-> "started", op |-> call[c].op, run |-> r, job |-> call[c].job]
  <2>1. p = [call[c] EXCEPT !.step = "started"] BY <1>3 DEF CallStates
  <2>2. p \in CallStates /\ p.step = "started" /\ p.op = call[c].op /\ p.run = r
    BY <1>3 DEF CallStates, Steps
  <2> HIDE DEF p
  <2>3. [p EXCEPT !.job = j] = e BY <2>2 DEF CallStates
  <2>4. [[call EXCEPT ![c] = p] EXCEPT ![c] = [p EXCEPT !.job = j]]
          = [call EXCEPT ![c] = [p EXCEPT !.job = j]]
    BY <1>1
  <2>5. [call EXCEPT ![c].step = "started"] = [call EXCEPT ![c] = p]
    BY <2>1, <1>1
  <2>6. call' = [[call EXCEPT ![c] = p] EXCEPT ![c].job = j]
    BY <2>5, <1>1 DEF Spawn
  <2> QED BY <2>3, <2>4, <2>6, <1>1
<1>5. o \in JobStates /\ o.run = r /\ o.child = "running" /\ ~o.paused /\ o.root
  BY <1>3 DEF JobStates, CallStates, Alive
<1>6. e \in CallStates /\ e.step = "started" /\ e.run = r /\ e.job = j /\ r \in Runs
  BY <1>3 DEF CallStates, Steps
<1> HIDE DEF o, e, r
<1>7. PICK n \in 0..MaxSpawned : Spawned = 1..n BY DEF SpawnInv
<1>8. Cardinality(Spawned) = n /\ IsFiniteSet(Spawned)
  BY <1>7, FS_Interval, MaxJobsAssumption
<1>9. j = n + 1 /\ j \notin Spawned /\ n + 1 \in 0..MaxSpawned
  BY <1>2, <1>7, <1>8 DEF JobIds
<1>10. job[j] = Unspawned /\ j \in Nat BY <1>9 DEF Spawned, JobIds
<1>11. /\ \A k \in JobIds \ {j} : job'[k] = job[k]
       /\ job'[j] = o /\ o # Unspawned
  BY <1>1, <1>2, <1>5 DEF JobStates, Unspawned
<1>12. Spawned' = Spawned \union {j} /\ SpawnInv'
  <2>1. Spawned' = Spawned \union {j} BY <1>11 DEF Spawned
  <2>2. Spawned' = 1..(n + 1) BY <2>1, <1>7, <1>9, <1>10
  <2> QED BY <2>1, <2>2, <1>9 DEF SpawnInv
<1>13. /\ \A d \in Calls \ {c} : call'[d] = call[d]
       /\ call'[c] = e /\ call' \in [Calls -> CallStates \union {NoCall}]
  BY <1>1, <1>4, <1>6
<1>14. /\ byRunId' \in [Runs -> Spawned' \union {None}] /\ byToken' \subseteq Spawned'
       /\ byRunId'[r] = j /\ \A q \in Runs \ {r} : byRunId'[q] = byRunId[q]
  BY <1>1, <1>2, <1>6, <1>12
<1>15. JobsTypeOK'
  <2>1. startGate' \in Seq(Calls) BY <1>2, Tails DEF JobsTypeOK
  <2>2. job' \in [JobIds -> JobStates \union {Unspawned, Gone}]
    BY <1>1, <1>2, <1>5
  <2> QED BY <2>1, <2>2, <1>2, <1>13, <1>14 DEF JobsTypeOK
<1>16. \A k \in JobIds : job[k] \in JobStates => k # j
  BY <1>10 DEF JobStates, Unspawned
<1>17. TableInv'
  BY <1>2, <1>5, <1>11, <1>14, <1>16 DEF TableInv
<1>18. CallInv'
  <2> SUFFICES ASSUME NEW d \in Calls, call'[d] # NoCall, call'[d].step # "starting"
               PROVE  /\ call'[d].job \in JobIds /\ job'[call'[d].job] \in JobStates
                      /\ call'[d].run = job'[call'[d].job].run
    BY DEF CallInv
  <2>1. CASE d = c BY <2>1, <1>5, <1>6, <1>11, <1>13
  <2>2. CASE d # c
    <3>1. call'[d] = call[d] BY <2>2, <1>13
    <3>2. call[d].job \in JobIds /\ job[call[d].job] \in JobStates
          /\ call[d].run = job[call[d].job].run
      BY <3>1 DEF CallInv
    <3> QED BY <3>1, <3>2, <1>11, <1>16
  <2> QED BY <2>1, <2>2
<1>19. HolderInv'
  <2> SUFFICES ASSUME NEW d \in Calls, call'[d] # NoCall
               PROVE  /\ call'[d].step \in Holding =>
                           jobGate[call'[d].job] # <<>> /\ Head(jobGate[call'[d].job]) = d
                      /\ call'[d].step = "reading" => job'[call'[d].job].child \notin Alive
                      /\ call'[d].step = "killing" => job'[call'[d].job].child \notin Live
    BY <1>2 DEF HolderInv
  <2>1. CASE d = c BY <2>1, <1>6, <1>13 DEF Holding
  <2>2. CASE d # c
    <3>1. call'[d] = call[d] BY <2>2, <1>13
    <3>2. call[d].step \in Holding =>
            /\ call[d].job \in JobIds
            /\ job'[call[d].job] = job[call[d].job]
      BY <3>1, <1>11, <1>16 DEF CallInv, Holding
    <3> QED BY <3>1, <3>2 DEF HolderInv, Holding
  <2> QED BY <2>1, <2>2
<1>20. LiveJobs' = LiveJobs \union {j} /\ j \notin LiveJobs
       /\ \A k \in LiveJobs : k \in JobIds \ {j} /\ job'[k] = job[k]
  <2>1. j \notin LiveJobs BY <1>9 DEF LiveJobs
  <2>2. \A k \in LiveJobs : k \in JobIds \ {j} /\ job'[k] = job[k]
    BY <2>1, <1>11 DEF LiveJobs, Spawned
  <2>3. \A k \in LiveJobs : k \in LiveJobs' BY <2>2, <1>12 DEF LiveJobs
  <2>4. j \in LiveJobs' BY <1>5, <1>11, <1>12 DEF LiveJobs, Live
  <2>5. \A k \in LiveJobs' : k # j => k \in LiveJobs
    BY <1>11, <1>12 DEF LiveJobs, Spawned
  <2> QED BY <2>1, <2>2, <2>3, <2>4, <2>5
\* The run had no worker: what is live elsewhere is of other runs.
<1>21. \A k \in LiveJobs : job[k].run # r
  <2> SUFFICES ASSUME NEW k \in LiveJobs, job[k].run = r PROVE FALSE OBVIOUS
  <2>1. byRunId[r] = k /\ k \in JobIds /\ job[k].child \in Live
    BY DEF LiveInv, LiveJobs, Spawned
  <2>2. byRunId[r] # None /\ IsAlive(byRunId[r])
    BY <2>1 DEF None, JobIds, IsAlive, Live, Alive
  <2> QED BY <2>2, <1>2 DEF MayStart, HasWorker
<1>22. \A k \in LiveJobs : job[k].run \in Runs
  BY <1>1, JobShapes DEF JobStates, LiveJobs, Spawned
<1>23. LiveInv'
  <2>1. \A k \in LiveJobs : byRunId'[job[k].run] = byRunId[job[k].run]
    BY <1>14, <1>21, <1>22
  <2> QED BY <2>1, <1>2, <1>5, <1>11, <1>14, <1>20 DEF LiveInv
<1>24. Cardinality(LiveJobs) < MaxJobs /\ IsFiniteSet(LiveJobs)
  <2>1. IsFiniteSet(JobIds) BY FS_Interval, MaxJobsAssumption DEF JobIds
  <2>2. IsFiniteSet(Active)
    <3> DEFINE f == [q \in Active |-> byRunId[q]]
    <3>1. \A q \in Active : byRunId[q] \in JobIds /\ job[byRunId[q]].run = q
      BY DEF Active, TableInv
    <3>2. f \in Injection(Active, JobIds)
      BY <3>1 DEF Injection, IsInjective
    <3> QED BY <2>1, <3>2, FS_Injection
  <2>3. Cardinality(LiveJobs) <= Cardinality(Active)
    <3> DEFINE f == [k \in LiveJobs |-> job[k].run]
    <3>1. \A k \in LiveJobs : job[k].run \in Active /\ byRunId[job[k].run] = k
      <4> SUFFICES ASSUME NEW k \in LiveJobs
                   PROVE  job[k].run \in Active /\ byRunId[job[k].run] = k
        OBVIOUS
      <4>1. byRunId[job[k].run] = k /\ k \in JobIds /\ job[k].child \in Live
        BY DEF LiveInv, LiveJobs, Spawned
      <4> QED BY <4>1, <1>22 DEF Active, None, JobIds, IsAlive, Live, Alive
    <3>2. f \in Injection(LiveJobs, Active)
      BY <3>1 DEF Injection, IsInjective
    <3> QED BY <2>2, <3>2, FS_Injection
  <2>4. IsFiniteSet(LiveJobs) BY <1>8, FS_Subset DEF LiveJobs
  <2>5. Cardinality(Active) < MaxJobs BY <1>2 DEF MayStart
  <2> QED BY <2>2, <2>3, <2>4, <2>5, FS_CardinalityType, MaxJobsAssumption
<1>25. CountInv'
  <2>1. Cardinality(LiveJobs') = Cardinality(LiveJobs) + 1
    BY <1>20, <1>24, FS_AddElement
  <2> QED BY <2>1, <1>24, FS_CardinalityType, MaxJobsAssumption DEF CountInv
<1>26. RunsAttended'
  <2>1. c \in Busy' BY <1>1, <1>6, <1>13 DEF Busy
  <2>2. \A d \in Busy : call[d].step = "started" => d \in Busy' /\ call'[d] = call[d]
    BY <1>2, <1>13 DEF Busy
  <2> QED BY <2>1, <2>2, <1>2, <1>6, <1>13, <1>20 DEF RunsAttended
<1>27. CancelInv'
  <2>1. r \notin unwanted BY <1>2, <1>3 DEF CancelInv, r
  <2>2. \A d \in Calls : call'[d] # NoCall /\ call'[d].step = "starting" =>
          call'[d] = call[d]
    BY <1>6, <1>13
  <2>3. \A d \in Calls : call[d] # NoCall /\ call[d].step = "queued" =>
          call'[d] = call[d]
    BY <1>2, <1>13
  <2> QED BY <2>1, <2>2, <2>3, <1>2, <1>5, <1>11, <1>20 DEF CancelInv
<1> QED BY <1>12, <1>15, <1>17, <1>18, <1>19, <1>23, <1>25, <1>26, <1>27

\* The job of a call that is through has no live worker: its entries go, and
\* its directory with the last call that waits for it.
LEMMA CleanupKeeps ==
  ASSUME JobsInv, NEW c \in Calls, call[c].step \in {"reading", "killing"},
         Cleanup(c), UNCHANGED <<startGate, unwanted>>
  PROVE  JobsInv'
<1> DEFINE j == call[c].job
           q == job[j]
           others == {d \in Busy \ {c} : call[d].job = j}
           kept == [run |-> q.run, child |-> q.child, paused |-> q.paused,
                    expired |-> q.expired, root |-> FALSE]
           o == IF others = {} THEN Gone ELSE kept
<1> USE DEF JobsInv
<1>1. /\ call \in [Calls -> CallStates \union {NoCall}]
      /\ job \in [JobIds -> JobStates \union {Unspawned, Gone}]
      /\ byRunId \in [Runs -> Spawned \union {None}] /\ byToken \subseteq Spawned
      /\ jobGate \in [JobIds -> Seq(Calls)]
  BY DEF JobsTypeOK
<1>2. /\ call[c] \in CallStates /\ call[c] # NoCall /\ j \in JobIds /\ q \in JobStates
      /\ jobGate[j] # <<>> /\ Head(jobGate[j]) = c
  BY HoldFacts DEF Holding
<1>3. q.child \notin Live BY <1>2 DEF HolderInv, Alive, Live
<1>4. /\ byRunId' = Forget(j) /\ byToken' = byToken \ {j}
      /\ job' = [job EXCEPT ![j] = o]
      /\ jobGate' = [jobGate EXCEPT ![j] = Tail(jobGate[j])]
      /\ call' = [call EXCEPT ![c] = NoCall]
      /\ UNCHANGED <<startGate, unwanted>>
  <2>1. [q EXCEPT !.root = FALSE] = kept BY <1>2, RootShape
  <2>2. job' = [job EXCEPT ![j] = IF others = {} THEN Gone
                                  ELSE [q EXCEPT !.root = FALSE]]
    BY <1>1 DEF Cleanup
  <2> QED BY <2>1, <2>2 DEF Cleanup, Release, Answer
<1>5. /\ o # Gone => o \in JobStates /\ o.run = q.run
      /\ o.child \notin Live /\ o \in JobStates \union {Gone} /\ o # Unspawned
      /\ o # Gone => o.child = q.child
  BY <1>2, <1>3 DEF JobStates, Gone, Unspawned, Live, Alive
<1>6. o = Gone => \A d \in Calls \ {c} : call[d] # NoCall => call[d].job # j
  BY DEF Busy, Gone, JobStates
<1> HIDE DEF o, q, others, kept, j
<1>7. call[c].job = j /\ job[j] = q BY DEF j, q
<1>8. /\ \A k \in JobIds \ {j} : job'[k] = job[k]
      /\ job'[j] = o /\ q # Unspawned
      /\ job' \in [JobIds -> JobStates \union {Unspawned, Gone}]
  <2>1. q # Unspawned BY <1>2 DEF JobStates, Unspawned
  <2> QED BY <2>1, <1>1, <1>2, <1>4, <1>5
<1>9. Spawned' = Spawned BY <1>2, <1>5, <1>7, <1>8 DEF Spawned
<1>10. LiveJobs' = LiveJobs /\ j \notin LiveJobs
  BY <1>3, <1>5, <1>7, <1>8, <1>9 DEF LiveJobs, Spawned
<1>11. /\ byRunId' \in [Runs -> Spawned \union {None}]
       /\ \A r \in Runs : byRunId'[r] # None => byRunId'[r] = byRunId[r] /\ byRunId[r] # j
       /\ \A r \in Runs : byRunId[r] # j => byRunId'[r] = byRunId[r]
  <2>1. q.run \in Runs BY <1>2 DEF JobStates
  <2>2. /\ \A r \in Runs \ {q.run} : byRunId'[r] = byRunId[r]
        /\ byRunId'[q.run] = IF byRunId[q.run] = j THEN None ELSE byRunId[q.run]
    BY <2>1, <1>1, <1>4, <1>7 DEF Forget
  <2>3. byRunId' \in [Runs -> Spawned \union {None}]
    BY <2>1, <1>1, <1>4, <1>7 DEF Forget
  <2>4. \A r \in Runs \ {q.run} : byRunId[r] # j
    BY <1>2, <1>7 DEF TableInv, JobIds, None
  <2> QED BY <2>1, <2>2, <2>3, <2>4
<1>12. /\ \A d \in Calls \ {c} : call'[d] = call[d]
       /\ call'[c] = NoCall /\ call' \in [Calls -> CallStates \union {NoCall}]
  BY <1>1, <1>4
<1>13. /\ jobGate' \in [JobIds -> Seq(Calls)]
       /\ \A k \in JobIds \ {j} : jobGate'[k] = jobGate[k]
  BY <1>1, <1>2, <1>4, Tails
<1>14. JobsTypeOK'
  BY <1>4, <1>8, <1>9, <1>11, <1>12, <1>13 DEF JobsTypeOK
<1>15. SpawnInv' BY <1>9 DEF SpawnInv
<1>16. CountInv' BY <1>10 DEF CountInv
<1>17. TableInv'
  BY <1>4, <1>8, <1>11 DEF TableInv
<1>18. CallInv'
  <2> SUFFICES ASSUME NEW d \in Calls, call'[d] # NoCall, call'[d].step # "starting"
               PROVE  /\ call'[d].job \in JobIds /\ job'[call'[d].job] \in JobStates
                      /\ call'[d].run = job'[call'[d].job].run
    BY DEF CallInv
  <2>1. d # c /\ call'[d] = call[d] BY <1>12
  <2>2. /\ call[d].job \in JobIds /\ job[call[d].job] \in JobStates
        /\ call[d].run = job[call[d].job].run
    BY <2>1 DEF CallInv
  <2>3. CASE call[d].job = j BY <2>1, <2>2, <2>3, <1>5, <1>6, <1>7, <1>8
  <2>4. CASE call[d].job # j BY <2>1, <2>2, <2>4, <1>8
  <2> QED BY <2>3, <2>4
<1>19. HolderInv'
  <2> SUFFICES ASSUME NEW d \in Calls, call'[d] # NoCall, call'[d].step \in Holding
               PROVE  /\ jobGate'[call'[d].job] # <<>> /\ Head(jobGate'[call'[d].job]) = d
                      /\ call'[d].step = "reading" => job'[call'[d].job].child \notin Alive
                      /\ call'[d].step = "killing" => job'[call'[d].job].child \notin Live
    BY DEF HolderInv, Holding
  <2>1. d # c /\ call'[d] = call[d] BY <1>12
  <2>2. call[d].job \in JobIds BY <2>1 DEF CallInv, Holding
  <2>3. jobGate[call[d].job] # <<>> /\ Head(jobGate[call[d].job]) = d
    BY <2>1 DEF HolderInv
  <2>4. call[d].job # j BY <2>1, <2>3, <1>2
  <2> QED BY <2>1, <2>2, <2>3, <2>4, <1>8, <1>13 DEF HolderInv
<1>20. \A k \in LiveJobs : k \in JobIds \ {j} /\ job'[k] = job[k] /\ job[k].run \in Runs
  <2>1. \A k \in LiveJobs : k \in JobIds \ {j} /\ job'[k] = job[k]
    BY <1>8, <1>10 DEF LiveJobs, Spawned
  <2>2. \A k \in LiveJobs : job[k].run \in Runs
    BY <1>1, JobShapes DEF JobStates, LiveJobs, Spawned
  <2> QED BY <2>1, <2>2
<1>21. LiveInv'
  BY <1>4, <1>10, <1>11, <1>20 DEF LiveInv
<1>22. \A d \in Busy : call[d].step \in {"started", "queued"} =>
          d \in Busy' /\ call'[d] = call[d] /\ d \in Calls /\ call'[d] # NoCall
  BY <1>12 DEF Busy
<1>23. RunsAttended'
  BY <1>10, <1>13, <1>20, <1>22 DEF RunsAttended
<1>24. CancelInv'
  <2>1. \A k \in LiveJobs : job[k].run \in unwanted =>
         \E d \in Calls : /\ call'[d] # NoCall /\ call'[d].op = "cancel"
                          /\ call'[d].step = "queued" /\ call'[d].job = k
    BY <1>22 DEF CancelInv, Busy
  <2>2. \A d \in Calls : call'[d] # NoCall => call'[d] = call[d] BY <1>12
  <2> QED BY <2>1, <2>2, <1>4, <1>10, <1>20 DEF CancelInv
<1> QED BY <1>14, <1>15, <1>16, <1>17, <1>18, <1>19, <1>21, <1>23, <1>24

LEMMA ReadResultInv ==
  ASSUME JobsInv, NEW c \in Calls, ReadResult(c) \/ EndKill(c)
  PROVE  JobsInv'
  BY CleanupKeeps DEF ReadResult, EndKill

---------------------------------------------------------------------------
LEMMA JobsInitInv == JobsInit => JobsInv
<1> SUFFICES ASSUME JobsInit PROVE JobsInv OBVIOUS
<1> USE DEF JobsInit
<1>1. Spawned = {} BY DEF Spawned
<1>2. LiveJobs = {} BY <1>1 DEF LiveJobs
<1>3. <<>> \in Seq(Calls) OBVIOUS
<1>4. JobsTypeOK BY <1>1, <1>3 DEF JobsTypeOK
<1>5. SpawnInv
  <2>1. 0 \in 0..MaxSpawned /\ 1..0 = {} BY MaxJobsAssumption
  <2> QED BY <2>1, <1>1 DEF SpawnInv
<1>6. CountInv BY <1>2, FS_EmptySet, MaxJobsAssumption DEF CountInv
<1>7. TableInv /\ CallInv /\ HolderInv BY DEF TableInv, CallInv, HolderInv
<1>8. LiveInv /\ RunsAttended /\ CancelInv
  BY <1>2 DEF LiveInv, RunsAttended, CancelInv
<1> QED BY <1>4, <1>5, <1>6, <1>7, <1>8 DEF JobsInv

LEMMA JobsNextInv == JobsInv /\ [JobsNext]_jobsVars => JobsInv'
<1> SUFFICES ASSUME JobsInv, [JobsNext]_jobsVars PROVE JobsInv' OBVIOUS
<1>1. ASSUME NEW c \in Calls, NEW r \in Runs,
             Optimize(c, r) \/ Pause(c, r) \/ Cancel(c, r) \/ CancelUnknown(c, r)
      PROVE  JobsInv'
  BY <1>1, OptimizeInv, PauseInv, CancelKeeps, CancelUnknownInv
<1>2. ASSUME NEW c \in Calls, NEW j \in JobIds, Resume(c, j) \/ Spawn(c, j)
      PROVE  JobsInv'
  BY <1>2, ResumeInv, SpawnKeeps
<1>3. ASSUME NEW c \in Calls, RefuseStart(c) \/ JoinStarted(c) \/ TakePause(c) \/ TakeSlice(c)
      PROVE  JobsInv'
  BY <1>3, RefuseStartInv, JoinStartedInv, TakePauseInv, TakeSliceInv
<1>4. ASSUME NEW c \in Calls, TakeExpired(c) \/ TakeCancel(c) \/ SliceOver(c) \/ WorkerEnded(c)
      PROVE  JobsInv'
  BY <1>4, TakeExpiredInv, TakeCancelInv, SliceOverInv, WorkerEndedInv
<1>5. ASSUME NEW c \in Calls, ReadResult(c) \/ EndKill(c) PROVE JobsInv'
  BY <1>5, ReadResultInv
<1>6. ASSUME NEW j \in JobIds, WorkerExits(j) PROVE JobsInv'
  BY <1>6, WorkerExitsInv
<1>7. CASE UNCHANGED jobsVars
  <2>1. /\ job' = job /\ byRunId' = byRunId /\ byToken' = byToken /\ startGate' = startGate
        /\ jobGate' = jobGate /\ call' = call /\ unwanted' = unwanted
    BY <1>7 DEF jobsVars
  <2>2. Spawned' = Spawned /\ LiveJobs' = LiveJobs /\ Busy' = Busy
    BY <2>1 DEF Spawned, LiveJobs, Busy
  <2>3. JobsTypeOK' BY <2>1, <2>2 DEF JobsInv, JobsTypeOK
  <2>4. SpawnInv' /\ CountInv' BY <2>2 DEF JobsInv, SpawnInv, CountInv
  <2>5. TableInv' BY <2>1 DEF JobsInv, TableInv
  <2>6. CallInv' BY <2>1 DEF JobsInv, CallInv
  <2>7. HolderInv' BY <2>1 DEF JobsInv, HolderInv
  <2>8. LiveInv' BY <2>1, <2>2 DEF JobsInv, LiveInv
  <2>9. RunsAttended' BY <2>1, <2>2 DEF JobsInv, RunsAttended
  <2>10. CancelInv' BY <2>1, <2>2 DEF JobsInv, CancelInv
  <2> QED BY <2>3, <2>4, <2>5, <2>6, <2>7, <2>8, <2>9, <2>10 DEF JobsInv
<1> QED BY <1>1, <1>2, <1>3, <1>4, <1>5, <1>6, <1>7 DEF JobsNext, Ask, Proceed

\* Every state of the optimizer service satisfies the inductive invariant.
THEOREM JobsInvariant == JobsSpec => []JobsInv
<1>1. JobsInit => JobsInv BY JobsInitInv
<1>2. JobsInv /\ [JobsNext]_jobsVars => JobsInv' BY JobsNextInv
<1> QED BY <1>1, <1>2, PTL DEF JobsSpec

\* A live worker is where its run and its token lead, and there are never more
\* than the service allows (JobController.start, resume, cancel, #cleanup).
THEOREM WorkersAreKept == JobsSpec => []WorkersKept
<1>1. JobsInv => WorkersKept BY DEF JobsInv, WorkersKept, CountInv, LiveInv
<1> QED BY <1>1, JobsInvariant, PTL

\* A worker that no call waits for is stopped and known to be paused
\* (JobController.#awaitOrPause).
THEOREM WorkersAreAttended == JobsSpec => []RunsAttended
<1>1. JobsInv => RunsAttended BY DEF JobsInv
<1> QED BY <1>1, JobsInvariant, PTL

\* A run that is not wanted has no live worker but one whose cancel is under way
\* (JobController.cancel).
THEOREM CancelledRunsStayDown == JobsSpec => []CancelHolds
<1>1. JobsInv => CancelHolds
  <2> SUFFICES ASSUME JobsInv, NEW j \in LiveJobs, job[j].run \in unwanted
               PROVE  \E c \in Busy : call[c].op = "cancel" /\ call[c].run = job[j].run
    BY DEF CancelHolds
  <2>1. PICK c \in Calls : /\ call[c] # NoCall /\ call[c].op = "cancel"
                           /\ call[c].step = "queued" /\ call[c].job = j
    BY DEF JobsInv, CancelInv
  <2>2. call[c].run = job[j].run BY <2>1 DEF JobsInv, CallInv
  <2> QED BY <2>1, <2>2 DEF Busy
<1> QED BY <1>1, JobsInvariant, PTL
=============================================================================
