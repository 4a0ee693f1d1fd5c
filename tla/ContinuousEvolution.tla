------------------------ MODULE ContinuousEvolution ------------------------
(***************************************************************************)
(* Continuous evolution: recurring jobs in a lease table (scheduler/       *)
(* index.ts over memory/session-store), the 30-second tick that refreshes  *)
(* and fires them, and the gate that admits their campaigns (runtime/      *)
(* evolution-scheduler.ts, continuous/operator.ts).                        *)
(*                                                                         *)
(* A lease lasts 60 seconds and is not renewed, all fires of a process     *)
(* have one owner, and nothing bounds how long a fire takes: a job is      *)
(* leased again while an earlier fire of it runs.  Time is abstract: a row *)
(* falls due and a lease runs out at some moment.  A tick leases only when *)
(* it has resolved every target; the start waits for its first tick, and   *)
(* only then sets the timer.                                               *)
(***************************************************************************)
EXTENDS Naturals, FiniteSets, Functions

CONSTANTS
  Jobs,           \* recurring jobs
  Campaigns,      \* those that run a campaign; the others benchmark
  Targets,        \* evolution targets
  TargetOf,       \* a job's target
  MaxConcurrent,  \* continuous.maximumConcurrentRuns
  MaxRetries,     \* recurrence.maximumRetryAttempts
  Fires,          \* bound: the fires in progress at once
  MaxChanges,     \* bound: changes of a job's payload
  MaxBoots        \* bound: starts of the process

ASSUME JobsAssumption ==
  /\ Campaigns \subseteq Jobs
  /\ TargetOf \in [Jobs -> Targets]
  \* One campaign job per target, as the job's id is made from the target.
  /\ \A j, k \in Campaigns : TargetOf[j] = TargetOf[k] => j = k
  /\ MaxConcurrent \in Nat \ {0}
  /\ MaxRetries \in Nat
  /\ MaxChanges \in Nat
  /\ MaxBoots \in Nat \ {0}

VARIABLES
  rows,      \* the job table, in SQLite
  open,      \* targets with a run in an active state, in files
  broken,    \* targets whose files do not resolve
  clock,     \* the service: off, starting, with its timer, or not started
  tick,      \* the refresh of a tick, and the targets it has resolved
  boots,     \* how often it started
  changes,   \* how often a target changed under its job
  fires,     \* the fires in progress
  reserved,  \* reservedTargets of the gate
  gate       \* who decides, and the active runs it listed

process == <<broken, clock, tick, boots, changes>>
vars == <<rows, open, process, fires, reserved, gate>>

Row == [present : BOOLEAN, due : BOOLEAN,
        lease : {"none", "live", "expired"}, retry : 0..MaxRetries]
Absent == [present |-> FALSE, due |-> FALSE, lease |-> "none", retry |-> 0]
NewRow(due, retry) ==
  [present |-> TRUE, due |-> due, lease |-> "none", retry |-> retry]

Fire == [job : Jobs,
         step : {"start", "benchmark", "gate", "listed", "campaign", "run",
                 "complete", "schedule"},
         ok : BOOLEAN, retry : 0..MaxRetries]
\* A fire that is not in progress.
Idle == [step |-> "idle"]

Gate == [busy : BOOLEAN, listed : SUBSET Targets]
FreeGate == [busy |-> FALSE, listed |-> {}]

Tick == [busy : BOOLEAN, resolved : SUBSET Targets]
NoTick == [busy |-> FALSE, resolved |-> {}]
NewTick == [busy |-> TRUE, resolved |-> {}]

TypeOK ==
  /\ rows \in [Jobs -> Row]
  /\ open \subseteq Targets
  /\ broken \subseteq Targets
  /\ clock \in {"off", "starting", "on", "failed"}
  /\ tick \in Tick
  /\ boots \in 0..MaxBoots
  /\ changes \in 0..MaxChanges
  /\ fires \in [Fires -> Fire \cup {Idle}]
  /\ reserved \subseteq Targets
  /\ gate \in Gate

Init ==
  /\ rows = [j \in Jobs |-> Absent]
  /\ open = {}
  /\ broken = {}
  /\ clock = "off"
  /\ tick = NoTick
  /\ boots = 0
  /\ changes = 0
  /\ fires = [f \in Fires |-> Idle]
  /\ reserved = {}
  /\ gate = FreeGate

Target(f) == TargetOf[fires[f].job]
At(f, step) == fires[f].step = step
Goto(f, step) == fires' = [fires EXCEPT ![f].step = step]
\* The executor returned or threw.
Settle(f, ok) ==
  fires' = [fires EXCEPT ![f].step = "complete", ![f].ok = ok]
End(f) == fires' = [fires EXCEPT ![f] = Idle]

(***************************************************************************)
(* Time, targets, and the process                                          *)
(***************************************************************************)
FallDue(j) ==
  /\ rows[j].present /\ ~rows[j].due
  /\ rows' = [rows EXCEPT ![j].due = TRUE]
  /\ UNCHANGED <<open, process, fires, reserved, gate>>

\* A lease runs out; whether its fire is still in progress does not matter.
Expire(j) ==
  /\ rows[j].lease = "live"
  /\ rows' = [rows EXCEPT ![j].lease = "expired"]
  /\ UNCHANGED <<open, process, fires, reserved, gate>>

\* An operator opens a run of a target, or cancels or finishes one.
Operate(t) ==
  /\ open' \in {open \cup {t}, open \ {t}}
  /\ UNCHANGED <<rows, process, fires, reserved, gate>>

\* Somebody breaks the files of a target, or mends them.
Edit(t) ==
  /\ broken' \in {broken \cup {t}, broken \ {t}}
  /\ UNCHANGED <<rows, open, clock, tick, boots, changes, fires, reserved, gate>>

\* start: the targets are resolved and scheduled as its tick does again.
Boot ==
  /\ clock = "off"
  /\ boots < MaxBoots
  /\ clock' = "starting"
  /\ tick' = NewTick
  /\ boots' = boots + 1
  /\ UNCHANGED <<rows, open, broken, changes, fires, reserved, gate>>

\* The first tick and all its fires ended: the timer is set.
Started ==
  /\ clock = "starting"
  /\ ~tick.busy
  /\ \A f \in Fires : At(f, "idle")
  /\ clock' = "on"
  /\ UNCHANGED <<rows, open, broken, tick, boots, changes, fires, reserved, gate>>

\* A tick rejects.  The timer counts that; a start fails, and the runtime
\* goes on without the timer.
Reject == clock' = IF clock = "starting" THEN "failed" ELSE clock

\* A crash, or stop(): it closes the table under the fires.
Halt ==
  /\ clock # "off"
  /\ boots < MaxBoots
  /\ clock' = "off"
  /\ tick' = NoTick
  /\ fires' = [f \in Fires |-> Idle]
  /\ reserved' = {}
  /\ gate' = FreeGate
  /\ UNCHANGED <<rows, open, broken, boots, changes>>

(***************************************************************************)
(* The tick: refreshScheduledTargets, then leaseDue                        *)
(***************************************************************************)
BeginTick ==
  /\ clock = "on"
  /\ ~tick.busy
  /\ tick' = NewTick
  /\ UNCHANGED <<rows, open, broken, clock, boots, changes, fires, reserved, gate>>

\* replaceScheduledIfPayloadChanged: a missing row is inserted.  Where the
\* target changed, the payload has another digest and the row starts anew,
\* but not while it has a lease, one that ran out included.
Refresh(t) ==
  /\ tick.busy
  /\ t \notin broken \cup tick.resolved
  /\ tick' = [tick EXCEPT !.resolved = @ \cup {t}]
  /\ \E changed \in BOOLEAN :
       /\ changed => changes < MaxChanges
       /\ changes' = IF changed THEN changes + 1 ELSE changes
       /\ rows' = [j \in Jobs |->
            IF /\ TargetOf[j] = t
               /\ ~rows[j].present \/ (changed /\ rows[j].lease = "none")
              THEN NewRow(FALSE, 0) ELSE rows[j]]
  /\ UNCHANGED <<open, broken, clock, boots, fires, reserved, gate>>

\* A target does not resolve: the tick throws before it leases anything.
TickThrows ==
  /\ tick.busy
  /\ broken \ tick.resolved # {}
  /\ tick' = NoTick
  /\ Reject
  /\ UNCHANGED <<rows, open, broken, boots, changes, fires, reserved, gate>>

\* Mutant: a row that has a lease is never leased again.
Leasable_Once(j) ==
  rows[j].present /\ rows[j].due /\ rows[j].lease = "none"

Leasable(j) ==
  rows[j].present /\ rows[j].due /\ rows[j].lease # "live"

\* leaseDue, at the end of a refresh that did not throw: the rows that are
\* due and not under a live lease are leased, up to a limit, and each is
\* fired.
LeaseDue ==
  LET due == {j \in Jobs : Leasable(j)}
      free == {f \in Fires : At(f, "idle")}
  IN \E leased \in SUBSET due :
       /\ tick.busy
       /\ tick.resolved = Targets
       /\ tick' = NoTick
       /\ leased = due \/ Cardinality(leased) = Cardinality(free)
       /\ rows' = [j \in Jobs |-> IF j \in leased
                                    THEN [rows[j] EXCEPT !.lease = "live"]
                                    ELSE rows[j]]
       /\ \E fire \in Injection(leased, free) :
            fires' = [f \in Fires |->
              IF \E j \in leased : fire[j] = f
                THEN LET j == CHOOSE j \in leased : fire[j] = f IN
                       [job |-> j, step |-> "start", ok |-> FALSE,
                        retry |-> rows[j].retry]
                ELSE fires[f]]
       /\ UNCHANGED <<open, broken, clock, boots, changes, reserved, gate>>

(***************************************************************************)
(* Scheduler.#fire                                                         *)
(***************************************************************************)
\* complete: whichever fire leased the row last, it has the same owner.
Delete(j) ==
  rows' = IF rows[j].lease # "none" THEN [rows EXCEPT ![j] = Absent] ELSE rows

\* Its capabilities are not granted when it fires: the job is dropped until
\* the next refresh; a refused record drops the fire only, and rejects the
\* tick.
Block(f) ==
  /\ At(f, "start")
  /\ \/ Delete(fires[f].job) /\ UNCHANGED clock
     \/ UNCHANGED rows /\ Reject
  /\ End(f)
  /\ UNCHANGED <<open, broken, tick, boots, changes, reserved, gate>>

\* The fire is recorded before it has effects.
Record(f) ==
  /\ At(f, "start")
  /\ \/ Goto(f, IF fires[f].job \in Campaigns THEN "gate" ELSE "benchmark")
     \/ Settle(f, FALSE)
  /\ UNCHANGED <<rows, open, process, reserved, gate>>

Benchmark(f) ==
  /\ At(f, "benchmark")
  /\ \E ok \in BOOLEAN : Settle(f, ok)
  /\ UNCHANGED <<rows, open, process, reserved, gate>>

\* decide: one at a time; the runs are listed first.
EnterGate(f) ==
  /\ At(f, "gate")
  /\ ~gate.busy
  /\ gate' = [busy |-> TRUE, listed |-> open]
  /\ Goto(f, "listed")
  /\ UNCHANGED <<rows, open, process, reserved>>

Admissible(t) ==
  /\ Cardinality(gate.listed) + Cardinality(reserved) < MaxConcurrent
  /\ t \notin gate.listed \cup reserved

Admit(f) ==
  /\ At(f, "listed")
  /\ Admissible(Target(f))
  /\ reserved' = reserved \cup {Target(f)}
  /\ gate' = FreeGate
  /\ Goto(f, "campaign")
  /\ UNCHANGED <<rows, open, process>>

\* Mutant: a fire that is skipped releases its target, as if it were admitted.
Skip_Releases(f) ==
  /\ At(f, "listed")
  /\ \E ok \in BOOLEAN : Settle(f, ok)
  /\ gate' = FreeGate
  /\ reserved' = reserved \ {Target(f)}
  /\ UNCHANGED <<rows, open, process>>

\* Skipped, for another target's signal, a cooldown or none: that is a
\* success.  A spent month's budget, or an error, is a failure.
Skip(f) ==
  /\ At(f, "listed")
  /\ \E ok \in BOOLEAN : Settle(f, ok)
  /\ gate' = FreeGate
  /\ UNCHANGED <<rows, open, process, reserved>>

\* The target is what the payload says; the run is scoped.
OpenRun(f) ==
  /\ At(f, "campaign")
  /\ open' = open \cup {Target(f)}
  /\ Goto(f, "run")
  /\ UNCHANGED <<rows, process, reserved, gate>>

\* Stale, or an error before there is a run.
FailCampaign(f) ==
  /\ At(f, "campaign")
  /\ reserved' = reserved \ {Target(f)}
  /\ Settle(f, FALSE)
  /\ UNCHANGED <<rows, open, process, gate>>

\* The campaign ends well or with an error, and leaves the run finished or
\* in an active state: a failing report does.
EndRun(f) ==
  /\ At(f, "run")
  /\ open' \in {open, open \ {Target(f)}}
  /\ reserved' = reserved \ {Target(f)}
  /\ \E ok \in BOOLEAN : Settle(f, ok)
  /\ UNCHANGED <<rows, process, gate>>

(***************************************************************************)
(* settleScheduledJob                                                      *)
(***************************************************************************)
Complete(f) ==
  /\ At(f, "complete")
  /\ Delete(fires[f].job)
  /\ Goto(f, "schedule")
  /\ UNCHANGED <<open, process, reserved, gate>>

\* recurringJob
NextRetry(fire) ==
  IF ~fire.ok /\ fire.retry < MaxRetries THEN fire.retry + 1 ELSE 0

\* The next time counts from the tick that fired the job: it may be past.
Schedule(f) ==
  /\ At(f, "schedule")
  /\ ~rows[fires[f].job].present
  /\ \E due \in BOOLEAN :
       rows' = [rows EXCEPT ![fires[f].job] = NewRow(due, NextRetry(fires[f]))]
  /\ End(f)
  /\ UNCHANGED <<open, process, reserved, gate>>

\* The row is there again.  A success is settled once more, as a failure;
\* a failure rejects the tick.
Duplicate(f) ==
  /\ At(f, "schedule")
  /\ rows[fires[f].job].present
  /\ \/ fires[f].ok /\ Settle(f, FALSE) /\ UNCHANGED clock
     \/ ~fires[f].ok /\ End(f) /\ Reject
  /\ UNCHANGED <<rows, open, broken, tick, boots, changes, reserved, gate>>

Step(f) ==
  \/ Block(f) \/ Record(f) \/ Benchmark(f)
  \/ EnterGate(f) \/ Admit(f) \/ Skip(f) \/ OpenRun(f)
  \/ FailCampaign(f) \/ EndRun(f) \/ Complete(f)
  \/ Schedule(f) \/ Duplicate(f)

Next ==
  \/ Boot \/ Started \/ Halt
  \/ BeginTick \/ TickThrows \/ LeaseDue
  \/ \E t \in Targets : Operate(t) \/ Edit(t) \/ Refresh(t)
  \/ \E j \in Jobs : FallDue(j) \/ Expire(j)
  \/ \E f \in Fires : Step(f)

Spec == Init /\ [][Next]_vars

\* The process is started again, its timer ticks, a tick goes on as far as
\* it can, and time passes.  No fire need ever end, no file need be mended.
FairSpec ==
  /\ Spec
  /\ WF_vars(Boot) /\ WF_vars(Started)
  /\ WF_vars(BeginTick) /\ WF_vars(TickThrows) /\ WF_vars(LeaseDue)
  /\ \A t \in Targets : WF_vars(Refresh(t))
  /\ \A j \in Jobs : WF_vars(FallDue(j)) /\ WF_vars(Expire(j))

----------------------------------------------------------------------------
(***************************************************************************)
(* Properties                                                              *)
(***************************************************************************)
InCampaign == {f \in Fires : At(f, "campaign") \/ At(f, "run")}

\* A target is in one campaign at a time, although its job is leased again
\* and fired again while a campaign of it runs, and runs and reservations
\* change between the gate's listing and its decision.
\* No more campaigns run at once than the configuration allows.
CampaignGateHolds ==
  /\ TypeOK
  /\ \A f, g \in InCampaign : Target(f) = Target(g) => f = g
  /\ Cardinality(InCampaign) <= MaxConcurrent

\* The timer is set, and every target resolves.
TicksGoThrough == clock = "on" /\ broken = {}

\* Where from some time on the timer is set and every target resolves, a job
\* is never lost for good: after a fire that was blocked, a crash between
\* the deletion of its row and its next schedule, or a lost race of two
\* fires, it is in the table again.
\* It also fires again, whatever became of the fire that leased it: it
\* crashed, hangs, or lost its row to another.  (Unless as many fires hang
\* as the bound allows.)  One target that does not resolve stops the jobs
\* of all, and so does a start that failed or waits for a fire that hangs.
JobsGoOn ==
  <>[]TicksGoThrough =>
    \A j \in Jobs :
      /\ ~rows[j].present ~> rows[j].present
      /\ rows[j].lease # "live" ~>
           \/ rows[j].lease = "live"
           \/ \A f \in Fires : ~At(f, "idle")
=============================================================================
