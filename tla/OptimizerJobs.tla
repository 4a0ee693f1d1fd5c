---------------------------- MODULE OptimizerJobs ----------------------------
(***************************************************************************)
(* The optimizer service: worker processes of optimization runs behind an  *)
(* HTTP endpoint (darwin/runtime, darwin/optimizers).                      *)
(*                                                                         *)
(* A request is refused outright when as many are under way as jobs are    *)
(* allowed.  Starts go one at a time through a gate; what concerns one job *)
(* goes one at a time through the gate of the job.  A start or a resume    *)
(* keeps the gate for a slice of time: then it stops the worker's process  *)
(* group and answers with the token to resume it, unless the worker ended  *)
(* first and its result is the answer.  The deadline of a job is looked at *)
(* only when a slice begins.                                               *)
(***************************************************************************)
EXTENDS Naturals, Sequences, FiniteSets

CONSTANTS
  Runs,       \* evolution runs that ask for a worker
  MaxSpawned, \* bound: workers that are ever spawned
  Calls,      \* clients of the endpoint
  MaxJobs     \* maximumJobs

ASSUME MaxJobsAssumption == MaxJobs \in Nat \ {0} /\ MaxSpawned \in Nat

JobIds == 1..MaxSpawned

None == 0
Alive == {"running", "stopped", "killed"}    \* exitCode is null
Live == {"running", "stopped"}               \* nobody has killed it
Unspawned == [child |-> "none"]
Gone == [child |-> "gone"]                   \* cleaned up, and nobody waits for it
JobStates == [run : Runs, child : Alive \union {"exited"}, paused : BOOLEAN,
              expired : BOOLEAN, root : BOOLEAN]

NoCall == [step |-> "idle"]
Operations == {"optimize", "resume", "pause", "cancel"}
Steps == {"starting", "started", "queued", "slicing", "reading",
          "killing"}
CallStates ==
  [step : Steps, op : Operations, run : Runs, job : JobIds \union {None}]

VARIABLES
  job,          \* every job ever spawned
  byRunId,      \* JobController.#byRunId
  byToken,      \* jobs in JobController.#byToken
  startGate,    \* calls that wait for or hold the start gate
  jobGate,      \* calls that wait for or hold the gate of a job
  call,         \* requests under way
  unwanted      \* history: runs that were cancelled with no start asked since

jobsVars == <<job, byRunId, byToken, startGate, jobGate, call, unwanted>>

JobsInit ==
  /\ job = [j \in JobIds |-> Unspawned]
  /\ byRunId = [r \in Runs |-> None] /\ byToken = {}
  /\ startGate = <<>> /\ jobGate = [j \in JobIds |-> <<>>]
  /\ call = [c \in Calls |-> NoCall]
  /\ unwanted = {}

Busy == {c \in Calls : call[c] # NoCall}
Accepted == Cardinality(Busy) < MaxJobs
IsAlive(j) == job[j].child \in Alive
Spawned == {j \in JobIds : job[j] # Unspawned}
Active == {r \in Runs : byRunId[r] # None /\ IsAlive(byRunId[r])}

\* SIGSTOP and SIGCONT of the process group; a dead one takes no signal.
Stopped(child) == IF child = "running" THEN "stopped" ELSE child
Continued(child) == IF child = "stopped" THEN "running" ELSE child
Killed(child) == IF child \in Live THEN "killed" ELSE child

Enter(c, step) == call' = [call EXCEPT ![c].step = step]
Answer(c) == call' = [call EXCEPT ![c] = NoCall]
Release(j) == jobGate' = [jobGate EXCEPT ![j] = Tail(@)]

\* A cancel concerns the starts before it; one on its way to spawn a worker is
\* not yet found by it.
Spawning(r) ==
  \E c \in Busy : call[c].run = r /\ call[c].step = "starting"
Unwant(r) == unwanted' = unwanted \union {q \in {r} : ~Spawning(q)}

-----------------------------------------------------------------------------
(* Requests.                                                                *)

Optimize(c, r) ==
  /\ call[c] = NoCall /\ Accepted
  /\ call' = [call EXCEPT ![c] = [step |-> "starting", op |-> "optimize",
                                  run |-> r, job |-> None]]
  /\ startGate' = Append(startGate, c)
  /\ unwanted' = unwanted \ {r}
  /\ UNCHANGED <<job, byRunId, byToken, jobGate>>

Join(c, op, j) ==
  /\ call' = [call EXCEPT ![c] = [step |-> "queued", op |-> op,
                                  run |-> job[j].run, job |-> j]]
  /\ jobGate' = [jobGate EXCEPT ![j] = Append(@, c)]

\* Resume with the token of a job, pause or cancel by the run.  A job that is
\* not found is an error of the first two and an empty answer of the last.
Resume(c, j) ==
  /\ call[c] = NoCall /\ Accepted
  /\ j \in byToken /\ Join(c, "resume", j)
  /\ UNCHANGED <<job, byRunId, byToken, startGate, unwanted>>

Pause(c, r) ==
  /\ call[c] = NoCall /\ Accepted
  /\ byRunId[r] # None /\ Join(c, "pause", byRunId[r])
  /\ UNCHANGED <<job, byRunId, byToken, startGate, unwanted>>

Cancel(c, r) ==
  /\ call[c] = NoCall /\ Accepted
  /\ byRunId[r] # None /\ Join(c, "cancel", byRunId[r])
  /\ Unwant(r)
  /\ UNCHANGED <<job, byRunId, byToken, startGate>>

CancelUnknown(c, r) ==
  /\ call[c] = NoCall /\ Accepted
  /\ byRunId[r] = None
  /\ Unwant(r)
  /\ UNCHANGED <<job, byRunId, byToken, startGate, jobGate, call>>

-----------------------------------------------------------------------------
(* The start gate.                                                          *)

AtStart(c) == startGate # <<>> /\ Head(startGate) = c

HasWorker(r) == byRunId[r] # None /\ IsAlive(byRunId[r])
MayStart(r) == ~HasWorker(r) /\ Cardinality(Active) < MaxJobs

\* Mutant: the gate is kept by a start that was refused.
RefuseStart_Holding(c) ==
  /\ call[c].step = "starting" /\ AtStart(c)
  /\ Answer(c)
  /\ UNCHANGED <<job, byRunId, byToken, startGate, jobGate, unwanted>>

\* A request that does not decode, a run with a worker, no room for another,
\* or a spawn that fails: the gate is left and the call answered.
RefuseStart(c) ==
  /\ call[c].step = "starting" /\ AtStart(c)
  /\ Answer(c) /\ startGate' = Tail(startGate)
  /\ UNCHANGED <<job, byRunId, byToken, jobGate, unwanted>>

\* Request file, process and the entries of both tables.  The gate is held
\* from the check to the entries, so that no other start comes between them.
Spawn(c, j) ==
  /\ call[c].step = "starting" /\ AtStart(c)
  /\ MayStart(call[c].run)
  /\ j = Cardinality(Spawned) + 1
  /\ job' = [job EXCEPT ![j] =
       [run |-> call[c].run, child |-> "running", paused |-> FALSE,
        expired |-> FALSE, root |-> TRUE]]
  /\ byRunId' = [byRunId EXCEPT ![call[c].run] = j]
  /\ byToken' = byToken \union {j}
  /\ startGate' = Tail(startGate)
  /\ call' = [call EXCEPT ![c].step = "started", ![c].job = j]
  /\ UNCHANGED <<jobGate, unwanted>>

JoinStarted(c) ==
  /\ call[c].step = "started"
  /\ Enter(c, "queued")
  /\ jobGate' = [jobGate EXCEPT ![call[c].job] = Append(@, c)]
  /\ UNCHANGED <<job, byRunId, byToken, startGate, unwanted>>

-----------------------------------------------------------------------------
(* The gate of a job.                                                       *)

AtGate(c, j) == call[c].job = j /\ jobGate[j] # <<>> /\ Head(jobGate[j]) = c
Turn(c, op) ==
  /\ call[c].step = "queued" /\ call[c].op = op /\ AtGate(c, call[c].job)

TakePause(c) ==
  /\ Turn(c, "pause")
  /\ LET j == call[c].job IN
     /\ job' = IF IsAlive(j) /\ ~job[j].paused
               THEN [job EXCEPT ![j].child = Stopped(@), ![j].paused = TRUE]
               ELSE job
     /\ Release(j)
  /\ Answer(c)
  /\ UNCHANGED <<byRunId, byToken, startGate, unwanted>>

\* A resume continues the worker before the deadline is looked at.
Awake(c, j) ==
  IF call[c].op = "resume" /\ IsAlive(j) /\ job[j].paused
  THEN [job[j] EXCEPT !.child = Continued(@), !.paused = FALSE]
  ELSE job[j]

TakeSlice(c) ==
  /\ Turn(c, "optimize") \/ Turn(c, "resume")
  /\ LET j == call[c].job IN
     /\ ~job[j].expired
     /\ job' = [job EXCEPT ![j] = Awake(c, j)]
  /\ Enter(c, "slicing")
  /\ UNCHANGED <<byRunId, byToken, startGate, jobGate, unwanted>>

\* The deadline has passed, at any time before: nothing else looks at it.  The
\* worker is killed if it still runs.
TakeExpired(c) ==
  /\ Turn(c, "optimize") \/ Turn(c, "resume")
  /\ LET j == call[c].job IN
     job' = [job EXCEPT ![j] =
               [Awake(c, j) EXCEPT !.child = Killed(@), !.expired = TRUE]]
  /\ Enter(c, "killing")
  /\ UNCHANGED <<byRunId, byToken, startGate, jobGate, unwanted>>

\* Mutant: a cancel leaves a paused worker to the deadline.
TakeCancel_Paused(c) ==
  /\ Turn(c, "cancel")
  /\ LET j == call[c].job IN
     IF job[j].paused
     THEN Release(j) /\ Answer(c) /\ UNCHANGED job
     ELSE /\ job' = [job EXCEPT ![j].child = Killed(@)]
          /\ Enter(c, "killing") /\ UNCHANGED jobGate
  /\ UNCHANGED <<byRunId, byToken, startGate, unwanted>>

TakeCancel(c) ==
  /\ Turn(c, "cancel")
  /\ job' = [job EXCEPT ![call[c].job].child = Killed(@)]
  /\ Enter(c, "killing")
  /\ UNCHANGED <<byRunId, byToken, startGate, jobGate, unwanted>>

\* Mutant: a slice that is over does not stop the worker.
SliceOver_Running(c) ==
  /\ call[c].step = "slicing" /\ IsAlive(call[c].job)
  /\ LET j == call[c].job IN
     /\ job' = [job EXCEPT ![j].paused = TRUE]
     /\ Release(j)
  /\ Answer(c)
  /\ UNCHANGED <<byRunId, byToken, startGate, unwanted>>

SliceOver(c) ==
  /\ call[c].step = "slicing" /\ IsAlive(call[c].job)
  /\ LET j == call[c].job IN
     /\ job' = [job EXCEPT ![j].child = Stopped(@), ![j].paused = TRUE]
     /\ Release(j)
  /\ Answer(c)
  /\ UNCHANGED <<byRunId, byToken, startGate, unwanted>>

WorkerEnded(c) ==
  /\ call[c].step = "slicing" /\ ~IsAlive(call[c].job)
  /\ Enter(c, "reading")
  /\ UNCHANGED <<job, byRunId, byToken, startGate, jobGate, unwanted>>

\* Mutant: the run's entry goes whichever job it names.
ForgetRun(j) == [byRunId EXCEPT ![job[j].run] = None]

\* The run's entry goes only if no later job of the run has taken it.
Forget(j) ==
  [byRunId EXCEPT ![job[j].run] = IF @ = j THEN None ELSE @]

Cleanup(c) ==
  LET j == call[c].job
      others == {d \in Busy \ {c} : call[d].job = j} IN
  /\ byRunId' = Forget(j)
  /\ byToken' = byToken \ {j}
  /\ job' = [job EXCEPT ![j] = IF others = {} THEN Gone
                               ELSE [@ EXCEPT !.root = FALSE]]
  /\ Release(j) /\ Answer(c)

\* The result is read, or found missing, too large or not to decode.
ReadResult(c) ==
  /\ call[c].step = "reading" /\ Cleanup(c)
  /\ UNCHANGED <<startGate, unwanted>>

\* The killed worker is gone; a cancel gives up waiting after two seconds.
EndKill(c) ==
  /\ call[c].step = "killing"
  /\ IsAlive(call[c].job) => call[c].op = "cancel"
  /\ Cleanup(c)
  /\ UNCHANGED <<startGate, unwanted>>

-----------------------------------------------------------------------------
(* Workers.                                                                 *)

\* A worker ends by itself, with a result file, an error in it, or neither.
WorkerExits(j) ==
  /\ job[j].child \in {"running", "killed"}
  /\ job' = [job EXCEPT ![j].child = "exited"]
  /\ UNCHANGED <<byRunId, byToken, startGate, jobGate, call, unwanted>>

Ask(c) ==
  \/ \E r \in Runs : Optimize(c, r) \/ Pause(c, r) \/ Cancel(c, r) \/ CancelUnknown(c, r)
  \/ \E j \in JobIds : Resume(c, j)

Proceed(c) ==
  \/ RefuseStart(c) \/ (\E j \in JobIds : Spawn(c, j))
  \/ JoinStarted(c)
  \/ TakePause(c) \/ TakeSlice(c) \/ TakeExpired(c) \/ TakeCancel(c)
  \/ SliceOver(c) \/ WorkerEnded(c) \/ ReadResult(c) \/ EndKill(c)

JobsNext ==
  \/ \E c \in Calls : Ask(c) \/ Proceed(c)
  \/ \E j \in JobIds : WorkerExits(j)

\* Timers fire, file operations end, and a killed process dies; a worker need
\* not end by itself, nor a client ask.
JobsFairness ==
  /\ \A c \in Calls : WF_jobsVars(Proceed(c))
  /\ \A j \in JobIds : WF_jobsVars(job[j].child = "killed" /\ WorkerExits(j))

JobsSpec == JobsInit /\ [][JobsNext]_jobsVars /\ JobsFairness

-----------------------------------------------------------------------------
(* Properties.                                                              *)

JobsTypeOK ==
  /\ job \in [JobIds -> JobStates \union {Unspawned, Gone}]
  /\ byRunId \in [Runs -> Spawned \union {None}]
  /\ byToken \subseteq Spawned
  /\ startGate \in Seq(Calls) /\ jobGate \in [JobIds -> Seq(Calls)]
  /\ call \in [Calls -> CallStates \union {NoCall}]
  /\ unwanted \subseteq Runs

LiveJobs == {j \in Spawned : job[j].child \in Live}

\* However starts, cancels and late results of a run overlap, a live worker is
\* the one its run and its token lead to, with its directory in place, and
\* there are never more of them than jobs are allowed, stopped ones included
\* (controller.test.ts: "serializes concurrent starts against the global
\* limit").
WorkersKept ==
  /\ JobsTypeOK
  /\ Cardinality(LiveJobs) <= MaxJobs
  /\ \A j \in LiveJobs :
       byRunId[job[j].run] = j /\ j \in byToken /\ job[j].root

\* A worker runs only while some call waits for it: with no call at its gate
\* it is stopped and known to be paused, so that a resume continues it.
RunsAttended ==
  \A j \in LiveJobs :
    \/ jobGate[j] # <<>>
    \/ \E c \in Busy : call[c].step = "started" /\ call[c].job = j
    \/ job[j].child = "stopped" /\ job[j].paused

\* A run that was cancelled, with no start asked since, has no live worker once
\* its cancels are answered, whatever was queued at the gates of its jobs.
CancelHolds ==
  \A j \in LiveJobs : job[j].run \in unwanted =>
    \E c \in Busy : call[c].op = "cancel" /\ call[c].run = job[j].run

\* Every request that was let in is answered: neither gate is kept by a call
\* that was refused, failed or given up.
CallsAnswered == \A c \in Calls : call[c] # NoCall ~> call[c] = NoCall
=============================================================================
