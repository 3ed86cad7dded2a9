------------------------ MODULE AutomationScheduler ------------------------
(***************************************************************************)
(* One scheduled automation (src/src/automation/scheduler.ts, validate.ts, *)
(* cron.ts; src/src/db/automation-repositories.ts;                         *)
(* src/src/routes/automations.ts): its row, the runs it fired and the      *)
(* workflow jobs these launched.                                           *)
(*                                                                         *)
(* A tick of the scheduler fires the due occurrence and then reconciles    *)
(* the open runs; each is an action here, because each reads its rows anew *)
(* and writes only its own.  A callback with several writes leaves them in *)
(* `pending` and no other callback starts before they are executed; any of *)
(* them may throw, or the process may die before it.  A callback with one  *)
(* write is one action.  The jobs move as JobLifecycle allows.             *)
(*                                                                         *)
(* Time is counted in minutes, the grain of the occurrence keys.  The      *)
(* grace period of a run without a job and the time budget of a run may    *)
(* be over at any moment.                                                  *)
(***************************************************************************)
EXTENDS Integers, Sequences, FiniteSets

CONSTANTS
  Schedules,   \* the schedules users choose: [kind, at, every]
  ClockSkew,   \* how far in the past a one-time schedule may lie (5)
  Horizon,     \* bound: the last minute the clock shows
  ManualRuns,  \* bound: the manual runs that may be triggered
  ManualAlone, \* bound: whether only in the last minute, nothing fired or due
  MaxRecoveryAttempts,  \* MAX_RECOVERY_ATTEMPTS
  MaxFaults,   \* bound: crashes and statements that throw
  Never        \* next_run_at IS NULL, or a run without job_id

Kinds == {"once", "cron", "interval"}

ASSUME AutomationAssumption ==
  /\ Horizon \in Nat /\ MaxFaults \in Nat /\ MaxRecoveryAttempts \in Nat \ {0}
  /\ ClockSkew \in Nat /\ IsFiniteSet(ManualRuns) /\ ManualAlone \in BOOLEAN
  /\ \A s \in Schedules : s.kind \in Kinds /\ s.at \in Nat /\ s.every \in Nat \ {0}
  /\ Never \notin Nat

VARIABLES
  autoStatus, \* automations.status, "deleted" once the row is gone
  schedule,   \* automations.schedule_json
  nextRunAt,  \* automations.next_run_at
  runs,       \* automation_runs, by idempotency key
  job,        \* execution_jobs.status of the launches
  now,        \* the clock
  pending,    \* the statements the running callback still executes
  firing,     \* whether they are inside the try block of fireDue
  faults      \* crashes and throwing statements so far

autoVars       == <<autoStatus, schedule, nextRunAt>>
callVars       == <<pending, firing, faults>>
automationVars == <<autoVars, runs, job, now, callVars>>

\* The idempotency keys: one for each minute an occurrence may be due at, one
\* for each manual trigger.
OccurrenceKey(minute) == <<"occ", minute>>
Occurrences == {OccurrenceKey(m) : m \in 0 .. Horizon}
RunKeys     == Occurrences \cup {<<"manual", m>> : m \in ManualRuns}

OpenRun    == {"queued", "running"}
SettledRun == {"completed", "failed", "cancelled", "skipped"}
RunStatus  == {"none"} \cup OpenRun \cup SettledRun

\* Each launch is numbered by the attempt of its run, which is raised before
\* every launch but the first.
Attempts == 1 .. MaxRecoveryAttempts
Launches == RunKeys \X Attempts

\* What reconcileRun tells apart: a job that is retrying counts as running, and
\* one that timed out as failed.
LiveJob  == {"queued", "running"}
JobEnd   == {"completed", "failed", "cancelled"}

NoRow == [status |-> "none", attempt |-> 1, jobId |-> Never, createdAt |-> 0]
Open(k)    == runs[k].status \in OpenRun
JobOf(k)   == <<k, runs[k].jobId>>
HasJob(k)  == runs[k].jobId # Never

\* A statement: operation, run, the status and the time it writes.
SqlStatement(op, k, to, at) == [op |-> op, run |-> k, to |-> to, at |-> at]
OnRun(op, k)  == SqlStatement(op, k, "none", Never)
Settle(k, to) == SqlStatement("run_settle", k, to, Never)
OnAutomation(op, to, at) == SqlStatement(op, Never, to, at)

Idle == pending = <<>>
-----------------------------------------------------------------------------
(* Schedules.                                                              *)

\* cronNextAfter: the next matching minute, strictly later.
CronNextAfter(from, every) == ((from \div every) + 1) * every

\* firstOccurrence
FirstOccurrence(s) ==
  CASE s.kind = "once"     -> s.at
    [] s.kind = "cron"     -> CronNextAfter(now, s.every)
    [] s.kind = "interval" -> now + s.every

\* Mutant: an interval does not skip the occurrences missed during downtime.
NextAfterBackfilling(from) ==
  CASE schedule.kind = "once"     -> Never
    [] schedule.kind = "cron"     -> CronNextAfter(from, schedule.every)
    [] schedule.kind = "interval" -> from + schedule.every

\* advance: the occurrence after `from`.  An interval skips what has passed
\* since, a cron schedule does not.
NextAfter(from) ==
  CASE schedule.kind = "once"     -> Never
    [] schedule.kind = "cron"     -> CronNextAfter(from, schedule.every)
    [] schedule.kind = "interval" ->
         from + schedule.every * ((now - from) \div schedule.every + 1)

Advance(from) == OnAutomation("advance", "none", NextAfter(from))

AutomationInit ==
  /\ autoStatus = "active"
  /\ schedule \in Schedules
  /\ now = 0
  /\ nextRunAt = FirstOccurrence(schedule)
  /\ runs = [k \in RunKeys |-> NoRow]
  /\ job = [l \in Launches |-> "none"]
  /\ pending = <<>> /\ firing = FALSE /\ faults = 0

-----------------------------------------------------------------------------
(* Callbacks of the scheduler.                                             *)

Start(list, inFireDue) ==
  /\ pending' = list
  /\ firing' = inFireDue
  /\ UNCHANGED <<autoVars, runs, job, now, faults>>

\* launchRun and launchRunByIds: enqueue a workflow, attach it to the run.
Launch(k) == << OnRun("job_enqueue", k), OnRun("run_attach", k) >>

Due == autoStatus = "active" /\ nextRunAt # Never /\ nextRunAt <= now

\* fireDue and fireAutomation: the run is inserted first, under the key of its
\* occurrence; a condition that does not hold skips it, an owner without
\* credits is paused, and otherwise the run is launched.  Conditions and
\* credits are inputs.
FireDue ==
  LET k      == OccurrenceKey(nextRunAt)
      insert == << OnRun("run_insert", k) >>
  IN  /\ Idle /\ Due
      /\ IF runs[k] # NoRow
         THEN Start(<< Advance(nextRunAt) >>, TRUE)
         ELSE \/ Start(insert \o << Settle(k, "skipped"), Advance(nextRunAt) >>, TRUE)
              \/ Start(insert \o << Settle(k, "skipped"),
                         OnAutomation("set_status", "paused", Never) >>, TRUE)
              \/ Start(insert \o Launch(k) \o << Advance(nextRunAt) >>, TRUE)

\* Mutant: a run that has its job is recovered as well.
RelaunchAttached(k) ==
  /\ Idle /\ Open(k)
  /\ IF runs[k].attempt >= MaxRecoveryAttempts
     THEN Start(<< Settle(k, "failed") >>, FALSE)
     ELSE Start(<< OnRun("run_bump", k) >> \o Launch(k), FALSE)

\* Mutant: a run out of recovery attempts is dropped without being settled.
RelaunchForgets(k) ==
  /\ Idle /\ Open(k) /\ ~HasJob(k)
  /\ runs[k].attempt < MaxRecoveryAttempts
  /\ Start(<< OnRun("run_bump", k) >> \o Launch(k), FALSE)

\* reconcileRun on a run without a job, its grace period over.
Relaunch(k) ==
  /\ Idle /\ Open(k) /\ ~HasJob(k)
  /\ IF runs[k].attempt >= MaxRecoveryAttempts
     THEN Start(<< Settle(k, "failed") >>, FALSE)
     ELSE Start(<< OnRun("run_bump", k) >> \o Launch(k), FALSE)

SetRun(k, to) ==
  /\ runs' = [runs EXCEPT ![k].status = to]
  /\ UNCHANGED <<autoVars, job, now, callVars>>

\* The run still counts as queued while its job has started.
StartedUnnoticed(k) ==
  runs[k].status = "queued" /\ job[JobOf(k)] = "running"

MarkRunning(k) ==
  /\ Idle /\ Open(k) /\ HasJob(k) /\ StartedUnnoticed(k)
  /\ SetRun(k, "running")

\* The run settles as its job did.
SettleRun(k) ==
  /\ Idle /\ Open(k) /\ HasJob(k)
  /\ job[JobOf(k)] \in JobEnd
  /\ SetRun(k, job[JobOf(k)])

\* The budget of the automation is over: its job is cancelled, and the run
\* settles with the job at a later tick.
TimeOut(k) ==
  /\ Idle /\ Open(k) /\ HasJob(k)
  /\ job[JobOf(k)] \in LiveJob /\ ~StartedUnnoticed(k)
  /\ job' = [job EXCEPT ![JobOf(k)] = "cancelled"]
  /\ UNCHANGED <<autoVars, runs, now, callVars>>

ReconcileRun(k) == Relaunch(k) \/ MarkRunning(k) \/ SettleRun(k) \/ TimeOut(k)

-----------------------------------------------------------------------------
(* Requests of the owner.                                                  *)

\* triggerManualRun, not refused for its cooldown or for lack of credits.
TriggerManualRun(k) ==
  /\ Idle /\ autoStatus # "deleted"
  /\ ManualAlone => now = Horizon /\ ~Due /\ \A e \in Occurrences : runs[e] = NoRow
  /\ runs[k] = NoRow /\ \A n \in Attempts : job[<<k, n>>] = "none"
  /\ Start(<< OnRun("run_insert", k) >> \o Launch(k), FALSE)

\* What cancelling the open run k executes.
CancelPlan(k) ==
  (IF HasJob(k) THEN << OnRun("job_cancel", k) >> ELSE <<>>)
    \o << Settle(k, "cancelled") >>

\* POST /:id/runs/:runId/cancel
CancelRun(k) ==
  /\ Idle /\ Open(k)
  /\ Start(CancelPlan(k), FALSE)

SetAutomation(s, next) ==
  /\ autoStatus' = s
  /\ nextRunAt' = next
  /\ UNCHANGED <<schedule, runs, job, now, callVars>>

\* POST /:id/pause
Pause ==
  /\ Idle /\ autoStatus = "active"
  /\ SetAutomation("paused", Never)

\* POST /:id/resume
Resume ==
  /\ Idle /\ autoStatus = "paused"
  /\ SetAutomation("active", FirstOccurrence(schedule))

\* PATCH /:id.  A one-time schedule lies in the future, or almost so.
Edit(s) ==
  /\ Idle /\ autoStatus # "deleted"
  /\ s.kind = "once" => s.at + ClockSkew >= now
  /\ schedule' = s
  /\ nextRunAt' = IF autoStatus = "active" THEN FirstOccurrence(s) ELSE Never
  /\ UNCHANGED <<autoStatus, runs, job, now, callVars>>

\* Mutant: the row is deleted and its runs with it, no job is cancelled.
DeleteAutomationOnly ==
  /\ Idle /\ autoStatus # "deleted"
  /\ Start(<< OnAutomation("delete", "deleted", Never) >>, FALSE)

\* DELETE /:id: cancels the open runs, then deletes the row.
DeleteAutomation ==
  /\ Idle /\ autoStatus # "deleted"
  /\ Start(<< OnAutomation("cancel_open", "cancelled", Never),
              OnAutomation("delete", "deleted", Never) >>, FALSE)

-----------------------------------------------------------------------------
(* Statements, each committed on its own.                                  *)

Done == /\ pending' = Tail(pending)
        /\ firing' = (firing /\ Len(pending) > 1)
        /\ UNCHANGED <<now, faults>>

\* The loop of DELETE /:id over the open runs, newest first.  Nothing else
\* runs meanwhile, so that the list it read is the list of those still open.
CancelOpenRuns ==
  /\ \/ /\ \A k \in RunKeys : ~Open(k)
        /\ pending' = Tail(pending)
     \/ \E k \in RunKeys :
          /\ Open(k)
          /\ \A j \in RunKeys : Open(j) => runs[j].createdAt <= runs[k].createdAt
          /\ pending' = CancelPlan(k) \o pending
  /\ UNCHANGED <<autoVars, runs, job, now, firing, faults>>

\* INSERT INTO automation_runs; the key is free, the callback has looked.
InsertRun(k) ==
  /\ runs' = [runs EXCEPT ![k] = [NoRow EXCEPT !.status = "queued", !.createdAt = now]]
  /\ UNCHANGED <<autoVars, job>> /\ Done

\* settleAutomationRun: only an open run is settled.
SettleAutomationRun(k, to) ==
  /\ runs' = IF Open(k) THEN [runs EXCEPT ![k].status = to] ELSE runs
  /\ UNCHANGED <<autoVars, job>> /\ Done

BumpRunAttempt(k) ==
  /\ runs' = [runs EXCEPT ![k].attempt = @ + 1]
  /\ UNCHANGED <<autoVars, job>> /\ Done

\* enqueueWorkflow of a new workflow.
EnqueueWorkflow(k) ==
  /\ job' = [job EXCEPT ![<<k, runs[k].attempt>>] = "queued"]
  /\ UNCHANGED <<autoVars, runs>> /\ Done

\* attachRunExecution
AttachRunExecution(k) ==
  /\ runs' = IF runs[k].status = "queued"
             THEN [runs EXCEPT ![k].jobId = runs[k].attempt] ELSE runs
  /\ UNCHANGED <<autoVars, job>> /\ Done

\* cancelJob: nothing happens to a job that has ended.
CancelJob(k) ==
  /\ job' = IF job[JobOf(k)] \in LiveJob
            THEN [job EXCEPT ![JobOf(k)] = "cancelled"] ELSE job
  /\ UNCHANGED <<autoVars, runs>> /\ Done

\* The UPDATE of advance, and setAutomationStatus of the automatic pause.
UpdateAutomation(s, next) ==
  /\ autoStatus' = s
  /\ nextRunAt' = next
  /\ UNCHANGED <<schedule, runs, job>> /\ Done

\* DELETE FROM automations; the runs go with it (ON DELETE CASCADE).
DeleteAutomationRow ==
  /\ autoStatus' = "deleted"
  /\ nextRunAt' = Never
  /\ runs' = [k \in RunKeys |-> NoRow]
  /\ UNCHANGED <<schedule, job>> /\ Done

Statement ==
  /\ pending # <<>>
  /\ LET s == Head(pending) IN
     \/ s.op = "run_insert"  /\ InsertRun(s.run)
     \/ s.op = "run_settle"  /\ SettleAutomationRun(s.run, s.to)
     \/ s.op = "run_bump"    /\ BumpRunAttempt(s.run)
     \/ s.op = "job_enqueue" /\ EnqueueWorkflow(s.run)
     \/ s.op = "run_attach"  /\ AttachRunExecution(s.run)
     \/ s.op = "job_cancel"  /\ CancelJob(s.run)
     \/ s.op = "advance"     /\ UpdateAutomation(autoStatus, s.at)
     \/ s.op = "set_status"  /\ UpdateAutomation(s.to, s.at)
     \/ s.op = "cancel_open" /\ CancelOpenRuns
     \/ s.op = "delete"      /\ DeleteAutomationRow

\* The next statement throws.  fireDue catches it and advances past the
\* occurrence; elsewhere the rest of the callback is dropped.
Throw ==
  /\ pending # <<>> /\ faults < MaxFaults
  /\ faults' = faults + 1
  /\ pending' = IF firing THEN << Advance(now) >> ELSE <<>>
  /\ firing' = FALSE
  /\ UNCHANGED <<autoVars, runs, job, now>>

\* The process dies in the middle of a callback and is started again.  Between
\* callbacks the scheduler keeps nothing in memory that it could lose.
ProcessDies ==
  /\ pending # <<>> /\ faults < MaxFaults
  /\ faults' = faults + 1
  /\ pending' = <<>>
  /\ firing' = FALSE
  /\ UNCHANGED <<autoVars, runs, job, now>>

-----------------------------------------------------------------------------
(* The world around the scheduler.                                         *)

\* The execution engine moves the job of a run as JobLifecycle says, whatever
\* number of attempts it has; a user may cancel the job itself.  A job that is
\* attached to no run is not followed: nothing here reads it again.
EngineStep(k) ==
  /\ Idle /\ HasJob(k)
  /\ \E s \in {"queued", "running"} \cup JobEnd :
       /\ \/ job[JobOf(k)] = "queued" /\ s \in {"running", "cancelled"}
          \/ job[JobOf(k)] = "running" /\ s # "running"
       /\ job' = [job EXCEPT ![JobOf(k)] = s]
  /\ UNCHANGED <<autoVars, runs, now, callVars>>

Tick ==
  /\ Idle /\ now < Horizon /\ autoStatus # "deleted"
  /\ now' = now + 1
  /\ UNCHANGED <<autoVars, runs, job, callVars>>

AutomationNext ==
  \/ FireDue
  \/ \E k \in RunKeys : ReconcileRun(k) \/ CancelRun(k) \/ EngineStep(k)
  \/ \E k \in RunKeys \ Occurrences : TriggerManualRun(k)
  \/ Pause \/ Resume \/ DeleteAutomation
  \/ \E s \in Schedules : Edit(s)
  \/ Statement \/ Throw \/ ProcessDies
  \/ Tick

\* A synchronous callback is executed to its end, and the timer ticks for ever:
\* whatever comes between, a due automation is fired and some open run
\* reconciled again and again.  Nothing is assumed of the engine, of users and
\* of faults.
Fairness ==
  /\ WF_automationVars(Statement)
  /\ SF_automationVars(FireDue)
  /\ SF_automationVars(\E k \in RunKeys : ReconcileRun(k))

AutomationSpec == AutomationInit /\ [][AutomationNext]_automationVars
FairSpec       == AutomationSpec /\ Fairness
-----------------------------------------------------------------------------
(* Properties.                                                             *)

\* The statements that wait to be executed, by what they are about.
RunOps        == {"run_insert", "run_settle", "run_bump", "job_enqueue",
                  "run_attach", "job_cancel"}
AutomationOps == {"advance", "set_status", "cancel_open", "delete"}

\* Types; in particular no run is recovered beyond its budget.
AutomationTypeOK ==
  /\ autoStatus \in {"active", "paused", "deleted"}
  /\ schedule \in Schedules
  /\ nextRunAt \in Nat \cup {Never}
  /\ runs \in [RunKeys -> [status : RunStatus, attempt : Attempts,
                          jobId : Attempts \cup {Never}, createdAt : 0 .. Horizon]]
  /\ job \in [Launches -> {"none"} \cup LiveJob \cup JobEnd]
  /\ now \in 0 .. Horizon
  /\ \A i \in 1 .. Len(pending) :
       \/ pending[i].op \in RunOps /\ pending[i].run \in RunKeys
       \/ pending[i].op \in AutomationOps /\ pending[i].at \in Nat \cup {Never}
  /\ firing \in BOOLEAN
  /\ faults \in 0 .. MaxFaults

LaunchesOf(k) == {n \in Attempts : job[<<k, n>>] # "none"}
Owned(l)      == Open(l[1]) /\ runs[l[1]].jobId = l[2]
Unowned       == {l \in Launches : job[l] \in LiveJob /\ ~Owned(l)}

\* A workflow that is queued or running belongs to an open run, through every
\* cancellation, timeout, recovery and the deletion of the automation; only a
\* fault between enqueueing and attaching loses one, and each fault at most one.
LiveJobIsOwned == Idle => Cardinality(Unowned) <= faults

\* An occurrence is launched once; a further launch needs a further fault.
LaunchedOnce == \A k \in RunKeys : Cardinality(LaunchesOf(k)) <= 1 + faults

\* What a settled run says is true of its job: completed and failed runs have
\* such a job, a cancelled run has none that goes on, and a skipped run never
\* had one.
SettledRunIsTrue ==
  \A k \in RunKeys :
    /\ runs[k].status = "completed" => HasJob(k) /\ job[JobOf(k)] = "completed"
    /\ runs[k].status = "failed" /\ HasJob(k)
         => job[JobOf(k)] = "failed"
    /\ runs[k].status = "cancelled" /\ HasJob(k) => job[JobOf(k)] \in JobEnd
    /\ runs[k].status = "skipped" => LaunchesOf(k) = {}

\* Runs and jobs never tell different stories, no job goes on for nobody, and
\* no run is recovered beyond its budget (the types).
RunsMatchJobs == AutomationTypeOK /\ LiveJobIsOwned /\ SettledRunIsTrue

\* Occurrences missed during downtime are not fired one by one: an interval
\* fires none that was due when an earlier one was fired.  Cron schedules do
\* (advance steps from the occurrence, not from now); a one-time schedule has
\* one occurrence, which the owner may choose in the past.
NoBackfill ==
  [][\A m \in 0 .. Horizon :
       LET k == OccurrenceKey(m)
       IN  runs[k] = NoRow /\ runs'[k] # NoRow /\ schedule.kind = "interval"
             => \A e \in Occurrences :
                  runs[e].status # "none" => m > runs[e].createdAt]_automationVars

\* An automation that is due is advanced in the end, paused or deleted: no
\* crash leaves it due for ever, fired already and in the way of the next.
DueIsServed == []<>~Due

\* Every open run is settled in the end, whatever the engine does with its
\* job and wherever its launch was interrupted.
RunsSettle == []<>(\A k \in RunKeys : ~Open(k))

\* Nothing stays due and nothing stays open.
SchedulerServes == DueIsServed /\ RunsSettle
=============================================================================
