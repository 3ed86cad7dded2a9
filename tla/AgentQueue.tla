----------------------------- MODULE AgentQueue -----------------------------
(***************************************************************************)
(* The persistent execution engine for agent jobs                          *)
(* (src/src/orchestrator/{queue,executor,task-reconciler,recovery}.ts over *)
(* src/src/db/{queue-repositories,repositories}.ts).                       *)
(*                                                                         *)
(* A task has one agent execution and one job, so all three are indexed by *)
(* the task.  The server is one process with one event loop: a callback    *)
(* runs to its next await without interleaving, but its SQL statements are *)
(* persisted one by one and the process may crash between any two.  So an  *)
(* action that stands for a callback evaluates the callback's conditions   *)
(* and leaves in `stmts` the statements it goes on to execute; each        *)
(* statement is a step, no callback starts before `stmts` is empty, and a  *)
(* crash drops the rest.                                                   *)
(***************************************************************************)
EXTENDS CreditLedger, Sequences

CONSTANTS
  ResearchTasks,   \* tasks of the web-research agent (its own executor path)
  UnlimitedTasks,  \* tasks of an owner account, which consume no credit
  MaxAttempts,     \* max_attempts of every job
  Concurrency,     \* ExecutionQueueOptions.concurrency
  MaxBoots         \* bound on the times the server process is started

ASSUME QueueAssumption ==
  /\ ResearchTasks \subseteq Tasks
  /\ UnlimitedTasks \subseteq Tasks
  /\ MaxAttempts \in Nat \ {0}
  /\ Concurrency \in Nat \ {0}
  /\ MaxBoots \in Nat \ {0}

VARIABLES
  task,           \* tasks.status
  output,         \* the tasks whose output_data was stored
  exec,           \* agent_executions.status
  job,            \* execution_jobs.status
  attempts,       \* execution_jobs.attempts
  lockedBy,       \* execution_jobs.locked_by: the boot of the worker, 0 = NULL
  attemptRow,     \* job_attempts.status, by task and attempt number
  emergencyStop,  \* the platform-wide emergency stop switch
  run,            \* in memory: the dispatch promise of each attempt
  stmts,          \* in memory: what the running callback has yet to execute
  boot,           \* number of the current process
  phase,          \* how far the process has started
  ahead           \* history: the tasks settled ahead of a job that lives on

rowVars  == <<task, output, exec, job, attempts, lockedBy, attemptRow,
              emergencyStop>>
procVars == <<run, stmts, boot, phase, ahead>>
vars     == <<ledgerVars, rowVars, procVars>>

NonTerminalTask == {"created", "running"}
TaskStatus      == {"none", "completed", "failed", "cancelled"}
                     \cup NonTerminalTask
ExecStatus      == {"none", "queued", "running", "completed", "failed"}
ClaimableJob    == {"queued", "retrying"}
ActiveJob       == ClaimableJob \cup {"running"}
TerminalJob     == {"completed", "failed", "timed_out", "cancelled"}
JobStatus       == {"none"} \cup ActiveJob \cup TerminalJob
AttemptStatus   == {"none", "started", "completed", "failed", "timed_out",
                    "cancelled"}
\* A dispatch promise is awaited by its job's handler until it settles or the
\* step timeout wins the race; then it is late: nobody awaits it any more.
RunState        == {"none", "awaited", "late"}
\* Recovery works through jobs, executions and tasks before serving starts.
Phases          == {"jobs", "executions", "tasks", "serving"}
AttemptNumber   == 1 .. MaxAttempts

\* A statement: operation, task, and the status it writes.
Stmt(op, t, to) == [op |-> op, task |-> t, to |-> to]

Init ==
  /\ LedgerInit
  /\ task = [t \in Tasks |-> "none"]
  /\ output = {}
  /\ exec = [t \in Tasks |-> "none"]
  /\ job = [t \in Tasks |-> "none"]
  /\ attempts = [t \in Tasks |-> 0]
  /\ lockedBy = [t \in Tasks |-> 0]
  /\ attemptRow = [t \in Tasks |-> [n \in AttemptNumber |-> "none"]]
  /\ emergencyStop = FALSE
  /\ run = [t \in Tasks |-> [n \in AttemptNumber |-> "none"]]
  /\ stmts = <<>>
  /\ boot = 1
  /\ phase = "jobs"
  /\ ahead = {}

\* The event loop is free: the server is up and no callback is running.
Idle == phase = "serving" /\ stmts = <<>>

Awaited(t) == \E n \in AttemptNumber : run[t][n] = "awaited"
\* The keys of the in-memory `active` map.
ActiveRuns == {t \in Tasks : Awaited(t)}
-----------------------------------------------------------------------------
(* Error classification (errors.ts).  One representative is kept of each   *)
(* group of codes the classification tells apart.                          *)

PermanentErrorCodes == {"verification_failed", "emergency_stop"}

\* What an execution may fail with.  Only ProviderCallError carries an
\* explicit retryable flag; it wins over the code.
RunErrors ==
  { [code |-> "verification_failed",  retryable |-> "unset"],
    [code |-> "execution_failed",     retryable |-> "unset"],
    [code |-> "provider_call_failed", retryable |-> "yes"],
    [code |-> "provider_call_failed", retryable |-> "no"] }

Retryable(error) ==
  IF error.retryable = "unset"
  THEN error.code \notin PermanentErrorCodes
  ELSE error.retryable = "yes"

\* runJob's handler-level catch keeps the message of the error and drops its
\* code, so classification falls back to 'execution_failed'.
HandlerError == [code |-> "execution_failed", retryable |-> "unset"]

-----------------------------------------------------------------------------
(* What a callback goes on to execute.                                     *)

\* Mutant: a failure settles the task whether or not the job is retried.
FailurePlanEager(t, n, error, finally) ==
  << IF Retryable(error) /\ n < MaxAttempts
     THEN Stmt("job_retry", t, "retrying") ELSE Stmt("job_finish", t, finally),
     Stmt("attempt_finish", t, finally), Stmt("task_settle", t, "failed") >>

\* handleJobFailure for attempt n that failed with `error`; `finally` is the
\* status the job settles with.
FailurePlan(t, n, error, finally) ==
  IF Retryable(error) /\ n < MaxAttempts
  THEN << Stmt("job_retry", t, "retrying"),
          Stmt("attempt_finish", t, finally) >>
  ELSE << Stmt("job_finish", t, finally),
          Stmt("attempt_finish", t, finally),
          Stmt("task_settle", t, "failed") >>

\* The same, behind the cancellation checks of runAgentJob and
\* handleJobFailure.
HandleJobFailure(t, n, error, finally) ==
  IF job[t] = "cancelled"
  THEN << Stmt("attempt_finish", t, "cancelled") >>
  ELSE FailurePlan(t, n, error, finally)

\* The synchronous part of an attempt that finds its agent: it ends in an
\* await.
StartRun(t) == << Stmt("exec_set", t, "running"), Stmt("task_run", t, "running"),
                  Stmt("await", t, "awaited") >>

\* The agent is not visible to the user any more (its marketplace listing was
\* withdrawn after the submission): failExecution settles the task at once
\* although the queue still owns the retry decision.
AgentMissing(t, n) ==
  << Stmt("exec_set", t, "running"), Stmt("task_run", t, "running"),
     Stmt("exec_set", t, "failed"), Stmt("task_settle", t, "failed") >>
  \o FailurePlan(t, n, HandlerError, "failed")

\* An execution that returned a verified result, and the handler after it.  A
\* research run records its result before it looks at the cancellation, the
\* others after.  If the attempt is late nobody reads what the dispatch
\* returns.
SuccessPlan(t, awaited) ==
  LET cancelled == job[t] = "cancelled"
  IN  (IF cancelled /\ t \notin ResearchTasks THEN <<>>
       ELSE << Stmt("exec_set", t, "completed") >>)
      \o (IF cancelled THEN <<>>
          ELSE << Stmt("task_complete", t, "completed") >>)
      \o (IF ~awaited THEN <<>>
          ELSE IF cancelled
          THEN << Stmt("attempt_finish", t, "cancelled") >>
          ELSE << Stmt("job_finish", t, "completed"),
                  Stmt("attempt_finish", t, "completed") >>)

-----------------------------------------------------------------------------
(* Callbacks of the serving process.                                       *)

\* createAgentTask or createResearchTask, then enqueueAgentExecution: one
\* request handler without an await.  The reservation cannot fail here: the
\* balance was checked in the same callback.
Submit(t) ==
  /\ Idle
  /\ task[t] = "none"
  /\ ~emergencyStop
  /\ t \in UnlimitedTasks \/ HasCredit
  /\ stmts' = << Stmt("task_insert", t, "created") >>
              \o (IF t \in UnlimitedTasks THEN <<>>
                  ELSE << Stmt("credit_consume", t, "none") >>)
              \o << Stmt("exec_insert", t, "queued"),
                    Stmt("job_insert", t, "queued") >>
  /\ UNCHANGED <<ledgerVars, rowVars, run, boot, phase, ahead>>

\* tick: claimNextDueJob commits, then runJob inserts the attempt row and
\* runs the dispatch up to its first await.  Backoff is abstracted: a
\* retrying job may be due at any time.
ClaimNextDueJob(t) ==
  /\ Idle
  /\ Cardinality(ActiveRuns) < Concurrency
  /\ job[t] \in ClaimableJob
  /\ job' = [job EXCEPT ![t] = "running"]
  /\ lockedBy' = [lockedBy EXCEPT ![t] = boot]
  /\ attempts' = [attempts EXCEPT ![t] = @ + 1]
  /\ \E plan \in
       IF emergencyStop
       THEN { FailurePlan(t, attempts'[t], HandlerError, "failed") }
       ELSE {StartRun(t)} \cup
            (IF t \in ResearchTasks THEN {} ELSE {AgentMissing(t, attempts'[t])}) :
       /\ stmts' = << Stmt("attempt_insert", t, "started") >> \o plan
       /\ ahead' = IF plan = AgentMissing(t, attempts'[t])
                   THEN ahead \cup {t} ELSE ahead
  /\ UNCHANGED <<ledgerVars, task, output, exec, attemptRow, emergencyStop,
                 run, boot, phase>>

\* The awaited work of attempt n returned a verified result.
RunSucceeds(t, n) ==
  /\ Idle
  /\ run[t][n] # "none"
  /\ run' = [run EXCEPT ![t][n] = "none"]
  /\ stmts' = SuccessPlan(t, run[t][n] = "awaited")
  /\ UNCHANGED <<ledgerVars, rowVars, boot, phase, ahead>>

\* The awaited work of attempt n threw: failExecution with deferTaskFailure,
\* then the handler decides between retry and settlement.
RunFails(t, n, error) ==
  /\ Idle
  /\ run[t][n] # "none"
  /\ t \in ResearchTasks => error.retryable = "unset"
  /\ run' = [run EXCEPT ![t][n] = "none"]
  /\ stmts' = << Stmt("exec_set", t, "failed") >>
              \o (IF run[t][n] = "awaited"
                  THEN HandleJobFailure(t, n, error, "failed") ELSE <<>>)
  /\ UNCHANGED <<ledgerVars, rowVars, boot, phase, ahead>>

\* The step timer wins raceWithTimeout.
StepTimeout(t, n) ==
  /\ Idle
  /\ run[t][n] = "awaited"
  /\ run' = [run EXCEPT ![t][n] = "late"]
  /\ stmts' = << Stmt("exec_timeout", t, "failed") >>
              \o HandleJobFailure(t, n,
                   [code |-> "timed_out", retryable |-> "yes"], "timed_out")
  /\ UNCHANGED <<ledgerVars, rowVars, boot, phase, ahead>>

\* Mutant: the job row is cancelled before the task.
CancelJobRowFirst(t) ==
  /\ Idle
  /\ job[t] \in ActiveJob
  /\ task[t] \in NonTerminalTask
  /\ stmts' = << Stmt("job_cancel", t, "cancelled"),
                 Stmt("task_settle", t, "cancelled") >>
  /\ UNCHANGED <<ledgerVars, rowVars, run, boot, phase, ahead>>

\* cancelJob, by a user (cancelTask) or an administrator (adminCancelAll).
\* Nothing happens unless the job is active and its task non-terminal.
CancelJob(t) ==
  /\ Idle
  /\ job[t] \in ActiveJob
  /\ task[t] \in NonTerminalTask
  /\ stmts' = << Stmt("task_settle", t, "cancelled"),
                 Stmt("job_cancel", t, "cancelled") >>
  /\ UNCHANGED <<ledgerVars, rowVars, run, boot, phase, ahead>>

\* POST and DELETE of the emergency stop.
SetEmergencyStop(on) ==
  /\ Idle
  /\ emergencyStop # on
  /\ emergencyStop' = on
  /\ UNCHANGED <<ledgerVars, task, output, exec, job, attempts, lockedBy,
                 attemptRow, procVars>>

-----------------------------------------------------------------------------
(* Statements.  Executing(op, t): the head of the running callback.        *)

Executing(op, t) ==
  stmts # <<>> /\ Head(stmts).op = op /\ Head(stmts).task = t
To   == Head(stmts).to
Done == stmts' = Tail(stmts) /\ UNCHANGED <<boot, phase, ahead>>

CreateTask(t) ==
  /\ Executing("task_insert", t)
  /\ task' = [task EXCEPT ![t] = To]
  /\ UNCHANGED <<ledgerVars, output, exec, job, attempts, lockedBy,
                 attemptRow, emergencyStop, run>> /\ Done

ReserveTaskCredit(t) ==
  /\ Executing("credit_consume", t)
  /\ ConsumeTaskCredit(t)
  /\ UNCHANGED <<rowVars, run>> /\ Done

CreateAgentExecution(t) ==
  /\ Executing("exec_insert", t)
  /\ exec' = [exec EXCEPT ![t] = To]
  /\ UNCHANGED <<ledgerVars, task, output, job, attempts, lockedBy,
                 attemptRow, emergencyStop, run>> /\ Done

InsertJob(t) ==
  /\ Executing("job_insert", t)
  /\ job' = [job EXCEPT ![t] = To]
  /\ UNCHANGED <<ledgerVars, task, output, exec, attempts, lockedBy,
                 attemptRow, emergencyStop, run>> /\ Done

InsertJobAttempt(t) ==
  /\ Executing("attempt_insert", t)
  /\ attemptRow' = [attemptRow EXCEPT ![t][attempts[t]] = To]
  /\ UNCHANGED <<ledgerVars, task, output, exec, job, attempts, lockedBy,
                 emergencyStop, run>> /\ Done

\* finishJobAttempt on the latest attempt row; unguarded.
FinishJobAttempt(t) ==
  /\ Executing("attempt_finish", t)
  /\ attemptRow' = [attemptRow EXCEPT ![t][attempts[t]] = To]
  /\ UNCHANGED <<ledgerVars, task, output, exec, job, attempts, lockedBy,
                 emergencyStop, run>> /\ Done

\* updateAgentExecutionStatus; unguarded.
SetExecution(t) ==
  /\ Executing("exec_set", t)
  /\ exec' = [exec EXCEPT ![t] = To]
  /\ UNCHANGED <<ledgerVars, task, output, job, attempts, lockedBy,
                 attemptRow, emergencyStop, run>> /\ Done

\* markExecutionTimedOut: guarded by a non-terminal execution.
MarkExecutionTimedOut(t) ==
  /\ Executing("exec_timeout", t)
  /\ exec' = IF exec[t] \in {"queued", "running"}
             THEN [exec EXCEPT ![t] = To] ELSE exec
  /\ UNCHANGED <<ledgerVars, task, output, job, attempts, lockedBy,
                 attemptRow, emergencyStop, run>> /\ Done

\* The executor's updateTaskStatus to 'running': no expectedStatuses guard.
RunTask(t) ==
  /\ Executing("task_run", t)
  /\ task' = [task EXCEPT ![t] = To]
  /\ UNCHANGED <<ledgerVars, output, exec, job, attempts, lockedBy,
                 attemptRow, emergencyStop, run>> /\ Done

\* Mutant: the completion without expectedStatuses.
CompleteTaskUnguarded(t) ==
  /\ Executing("task_complete", t)
  /\ task' = [task EXCEPT ![t] = To]
  /\ stmts' = << Stmt("task_output", t, "none") >> \o Tail(stmts)
  /\ UNCHANGED <<ledgerVars, output, exec, job, attempts, lockedBy,
                 attemptRow, emergencyStop, run, boot, phase, ahead>>

\* The guarded completion; the output is stored by a statement of its own,
\* and only if the completion applied.
CompleteTask(t) ==
  /\ Executing("task_complete", t)
  /\ IF task[t] \in NonTerminalTask
     THEN /\ task' = [task EXCEPT ![t] = To]
          /\ stmts' = << Stmt("task_output", t, "none") >> \o Tail(stmts)
     ELSE /\ stmts' = Tail(stmts)
          /\ UNCHANGED task
  /\ UNCHANGED <<ledgerVars, output, exec, job, attempts, lockedBy,
                 attemptRow, emergencyStop, run, boot, phase, ahead>>

UpdateTaskOutput(t) ==
  /\ Executing("task_output", t)
  /\ output' = output \cup {t}
  /\ UNCHANGED <<ledgerVars, task, exec, job, attempts, lockedBy, attemptRow,
                 emergencyStop, run>> /\ Done

\* Mutant: only a cancellation gives the credit back.
SettleTaskNoRefund(t) ==
  /\ Executing("task_settle", t)
  /\ IF task[t] \in NonTerminalTask /\ To = "cancelled"
     THEN /\ task' = [task EXCEPT ![t] = To]
          /\ stmts' = << Stmt("credit_refund", t, "none") >> \o Tail(stmts)
     ELSE /\ stmts' = Tail(stmts)
          /\ task' = IF task[t] \in NonTerminalTask
                     THEN [task EXCEPT ![t] = To] ELSE task
  /\ UNCHANGED <<ledgerVars, output, exec, job, attempts, lockedBy,
                 attemptRow, emergencyStop, run, boot, phase, ahead>>

\* reconcileTaskFailed and reconcileTaskCancelled: a guarded flip of the
\* status, then the refund as a transaction of its own.
SettleTask(t) ==
  /\ Executing("task_settle", t)
  /\ IF task[t] \in NonTerminalTask
     THEN /\ task' = [task EXCEPT ![t] = To]
          /\ stmts' = << Stmt("credit_refund", t, "none") >> \o Tail(stmts)
     ELSE /\ stmts' = Tail(stmts)
          /\ UNCHANGED task
  /\ UNCHANGED <<ledgerVars, output, exec, job, attempts, lockedBy,
                 attemptRow, emergencyStop, run, boot, phase, ahead>>

RefundCredit(t) ==
  /\ Executing("credit_refund", t)
  /\ RefundTaskCredit(t)
  /\ UNCHANGED <<rowVars, run>> /\ Done

\* finishJob: guarded by 'running'.
FinishJob(t) ==
  /\ Executing("job_finish", t)
  /\ job' = IF job[t] = "running" THEN [job EXCEPT ![t] = To] ELSE job
  /\ UNCHANGED <<ledgerVars, task, output, exec, attempts, lockedBy,
                 attemptRow, emergencyStop, run>> /\ Done

\* scheduleJobRetry and requeueStaleJob: guarded by 'running'; both release
\* the lock.
ReleaseJob(t) ==
  /\ Executing("job_retry", t)
  /\ IF job[t] = "running"
     THEN /\ job' = [job EXCEPT ![t] = To]
          /\ lockedBy' = [lockedBy EXCEPT ![t] = 0]
     ELSE UNCHANGED <<job, lockedBy>>
  /\ UNCHANGED <<ledgerVars, task, output, exec, attempts, attemptRow,
                 emergencyStop, run>> /\ Done

\* cancelJobRow: guarded by an active status.
CancelJobRow(t) ==
  /\ Executing("job_cancel", t)
  /\ job' = IF job[t] \in ActiveJob THEN [job EXCEPT ![t] = To] ELSE job
  /\ UNCHANGED <<ledgerVars, task, output, exec, attempts, lockedBy,
                 attemptRow, emergencyStop, run>> /\ Done

\* The dispatch reaches its first await: control returns to the event loop.
AwaitRun(t) ==
  /\ Executing("await", t)
  /\ run' = [run EXCEPT ![t][attempts[t]] = To]
  /\ UNCHANGED <<ledgerVars, rowVars>> /\ Done

Statement(t) ==
  \/ CreateTask(t) \/ ReserveTaskCredit(t) \/ CreateAgentExecution(t)
  \/ InsertJob(t) \/ InsertJobAttempt(t) \/ FinishJobAttempt(t)
  \/ SetExecution(t) \/ MarkExecutionTimedOut(t) \/ RunTask(t)
  \/ CompleteTask(t) \/ UpdateTaskOutput(t) \/ SettleTask(t)
  \/ RefundCredit(t) \/ FinishJob(t) \/ ReleaseJob(t) \/ CancelJobRow(t)
  \/ AwaitRun(t)

-----------------------------------------------------------------------------
(* Crash and recovery (recovery.ts): stale jobs, then executions and tasks *)
(* that no active job owns, then the server starts serving.                *)

\* The cancellations that would still have to mark the job.
CutShort ==
  {t \in Tasks : /\ task[t] = "cancelled"
                 /\ \E i \in DOMAIN stmts :
                      stmts[i].op = "job_cancel" /\ stmts[i].task = t}

Crash ==
  /\ boot < MaxBoots
  /\ ahead' = ahead \cup CutShort
  /\ boot' = boot + 1
  /\ phase' = "jobs"
  /\ stmts' = <<>>
  /\ run' = [t \in Tasks |-> [n \in AttemptNumber |-> "none"]]
  /\ UNCHANGED <<ledgerVars, rowVars>>

Recovering(p) == phase = p /\ stmts = <<>>

\* Mutant: recovery looks only for jobs that may still be retried.
StaleJobsWithBudget == {t \in Tasks : /\ job[t] = "running"
                                      /\ lockedBy[t] # boot
                                      /\ attempts[t] < MaxAttempts}
\* Mutant: recovery looks only for tasks that were started.
OrphanTasksStarted == {t \in Tasks : /\ task[t] = "running"
                                     /\ job[t] \notin ActiveJob}

StaleJobs == {t \in Tasks : job[t] = "running" /\ lockedBy[t] # boot}
OrphanExecutions == {t \in Tasks : /\ exec[t] \in {"queued", "running"}
                                   /\ job[t] \notin ActiveJob}
OrphanTasks == {t \in Tasks : /\ task[t] \in NonTerminalTask
                              /\ job[t] \notin ActiveJob}

\* Mutant: recovery does not look at the attempts.
RecoverStaleJobAlways(t) ==
  /\ Recovering("jobs")
  /\ t \in StaleJobs
  /\ stmts' = << Stmt("job_retry", t, "queued") >>
  /\ UNCHANGED <<ledgerVars, rowVars, run, boot, phase, ahead>>

RecoverStaleJob(t) ==
  /\ Recovering("jobs")
  /\ t \in StaleJobs
  /\ stmts' = IF attempts[t] < MaxAttempts
              THEN << Stmt("job_retry", t, "queued") >>
              ELSE << Stmt("job_finish", t, "failed"),
                      Stmt("task_settle", t, "failed") >>
  /\ UNCHANGED <<ledgerVars, rowVars, run, boot, phase, ahead>>

RecoverOrphanExecution(t) ==
  /\ Recovering("executions")
  /\ t \in OrphanExecutions
  /\ stmts' = << Stmt("exec_set", t, "failed") >>
  /\ UNCHANGED <<ledgerVars, rowVars, run, boot, phase, ahead>>

RecoverOrphanTask(t) ==
  /\ Recovering("tasks")
  /\ t \in OrphanTasks
  /\ stmts' = << Stmt("task_settle", t, "failed") >>
  /\ UNCHANGED <<ledgerVars, rowVars, run, boot, phase, ahead>>

\* A recovery pass is over: go on to the next, and after the last serve.
NextPass ==
  /\ \/ Recovering("jobs") /\ StaleJobs = {} /\ phase' = "executions"
     \/ Recovering("executions") /\ OrphanExecutions = {} /\ phase' = "tasks"
     \/ Recovering("tasks") /\ OrphanTasks = {} /\ phase' = "serving"
  /\ UNCHANGED <<ledgerVars, rowVars, run, stmts, boot, ahead>>

Recover == \/ NextPass
           \/ \E t \in Tasks : \/ RecoverStaleJob(t)
                               \/ RecoverOrphanExecution(t)
                               \/ RecoverOrphanTask(t)

-----------------------------------------------------------------------------
RunSettles(t, n) == RunSucceeds(t, n) \/ \E e \in RunErrors : RunFails(t, n, e)

Next ==
  \/ \E t \in Tasks :
       \/ Submit(t) \/ ClaimNextDueJob(t) \/ CancelJob(t) \/ Statement(t)
       \/ \E n \in AttemptNumber : RunSettles(t, n) \/ StepTimeout(t, n)
  \/ \E on \in BOOLEAN : SetEmergencyStop(on)
  \/ Crash
  \/ Recover

\* The callback that runs is never suspended, recovery and the timer of an
\* awaited step run in every process that stays up, and the poll loop claims
\* every due job in time (jobs are claimed oldest first and there are
\* finitely many).  Users, administrators, providers and crashes owe nothing.
Fairness ==
  /\ WF_vars(\E t \in Tasks : Statement(t))
  /\ WF_vars(Recover)
  /\ \A t \in Tasks : SF_vars(ClaimNextDueJob(t))
  /\ \A t \in Tasks, n \in AttemptNumber : WF_vars(StepTimeout(t, n))

Spec     == Init /\ [][Next]_vars
FairSpec == Spec /\ Fairness

-----------------------------------------------------------------------------
(* Properties.                                                             *)

TerminalTask == {"completed", "failed", "cancelled"}
Consumed(t)  == consumedFrom[t] # NoPool

Lifecycle == INSTANCE JobLifecycle
               WITH Jobs <- Tasks, status <- job, used <- attempts

\* What each kind of statement may write.
Writes ==
  [ task_insert |-> {"created"}, task_run |-> {"running"},
    task_complete |-> {"completed"}, task_settle |-> {"failed", "cancelled"},
    exec_insert |-> {"queued"}, exec_timeout |-> {"failed"},
    exec_set |-> {"running", "completed", "failed"},
    job_insert |-> {"queued"}, job_retry |-> ClaimableJob,
    job_finish |-> TerminalJob \ {"cancelled"}, job_cancel |-> {"cancelled"},
    attempt_insert |-> {"started"}, attempt_finish |-> TerminalJob,
    await |-> {"awaited"}, task_output |-> {"none"},
    credit_consume |-> {"none"}, credit_refund |-> {"none"} ]
Written == UNION {Writes[op] : op \in DOMAIN Writes}
Stmts == {s \in [op : DOMAIN Writes, task : Tasks, to : Written] :
            s.to \in Writes[s.op]}

QueueTypeOK ==
  /\ task \in [Tasks -> TaskStatus]
  /\ output \subseteq Tasks
  /\ exec \in [Tasks -> ExecStatus]
  /\ job \in [Tasks -> JobStatus]
  /\ attempts \in [Tasks -> 0 .. MaxAttempts]
  /\ lockedBy \in [Tasks -> 0 .. MaxBoots]
  /\ attemptRow \in [Tasks -> [AttemptNumber -> AttemptStatus]]
  /\ emergencyStop \in BOOLEAN
  /\ run \in [Tasks -> [AttemptNumber -> RunState]]
  /\ stmts \in Seq(Stmts)
  /\ boot \in 1 .. MaxBoots
  /\ phase \in Phases

\* Types; a job never counts more attempts than max_attempts, and a statement
\* writes only what its column may hold.
TypeOK == LedgerTypeOK /\ QueueTypeOK /\ ahead \subseteq Tasks

\* The queue never spends more attempts on a job than it was given: a job
\* that waits to be claimed has one left.  claimNextDueJob does not look at
\* attempts, so this rests on every path that puts a job back to the queue:
\* handleJobFailure, the restart recovery, and a crash anywhere between.
ClaimableHasBudget ==
  \A t \in Tasks : job[t] \in ClaimableJob => attempts[t] < MaxAttempts

\* Jobs move as JobLifecycle promises, whatever crashes, timers, late
\* results and cancellations do to them (queue.ts, header).
JobRowsFollowLifecycle == Lifecycle!LifecycleSpec

\* At most one attempt of a job is waited for, it is the one whose number the
\* job row carries, and the job was not settled under it: only a cancellation
\* may overtake a running attempt (runAgentJob, latestAttemptId).
OneLiveAttempt ==
  \A t \in Tasks : \A n \in AttemptNumber :
    run[t][n] = "awaited" => n = attempts[t] /\ job[t] \in {"running", "cancelled"}

\* No job is stranded: whenever the server is idle, a job marked running is
\* being waited for by this very process.  A handler that forgot the job, or
\* a recovery that missed it, would leave it running for ever.
NoStrandedJob ==
  Idle => \A t \in Tasks : job[t] = "running" =>
            /\ run[t][attempts[t]] = "awaited"
            /\ lockedBy[t] = boot

\* No task is orphaned: whenever the server is idle, a task that is not
\* settled has a job that will still settle it, even if the process crashed
\* between the statements of a submission, a completion or a cancellation.
NoOrphanTask ==
  Idle => \A t \in Tasks : task[t] \in NonTerminalTask => job[t] \in ActiveJob

\* No crash and no withheld answer leaves a job or a task to nobody.
NothingLeftBehind == NoStrandedJob /\ NoOrphanTask

\* A job is only marked cancelled when the cancellation is complete: the task
\* is cancelled and stays so, and its credit is back.  cancelJob does it in
\* this order "so credits are refunded exactly once" (queue.ts:213-214).
CancelledJobIsRefunded ==
  \A t \in Tasks : job[t] = "cancelled" =>
    task[t] = "cancelled" /\ (Consumed(t) => t \in refunded)

\* A job is only marked completed once its task is completed and the output
\* is stored, although these are three statements and a late attempt may
\* complete the task under a later one.
CompletedJobDelivered ==
  \A t \in Tasks : job[t] = "completed" => task[t] = "completed" /\ t \in output

\* What a settled job says of its task is true, whatever raced to settle it.
JobAgreesWithTask == CancelledJobIsRefunded /\ CompletedJobDelivered

\* Credits and task status agree while the process has not crashed: at rest
\* a failed or cancelled task has its credit back (queue.ts:43-45).
UnsuccessfulTaskRefunded ==
  Idle /\ boot = 1 => \A t \in Tasks :
    task[t] \in {"failed", "cancelled"} /\ Consumed(t) => t \in refunded

\* A credit is only given back for work that is not delivered: nothing
\* completes a refunded task, be it a late attempt, a retry, or the recovery
\* of its job after a crash.  Excepted are the tasks that the code settles
\* ahead of a job that lives on: those whose agent was withdrawn and those
\* whose cancellation a crash cut short (`ahead`; owner-analytics.ts:477).
RefundedIsNotDelivered ==
  \A t \in refunded \ ahead : task[t] \in {"failed", "cancelled"}

\* Once a job and its task are both settled nothing moves the task again:
\* no late attempt, no timer, no recovery after a restart.
SettledStaysSettled ==
  [][\A t \in Tasks : job[t] \in TerminalJob /\ task[t] \in TerminalTask
                       => task'[t] = task[t]]_vars

\* Every submitted task is settled in the end and stays so, and so is its
\* job, in spite of crashes, withheld answers and an emergency stop.
TasksSettle ==
  \A t \in Tasks :
    task[t] # "none" ~> [](task[t] \in TerminalTask /\ job[t] \notin ActiveJob)

-----------------------------------------------------------------------------
(* What comments of the repository say and the code does not do.           *)

\* "every terminal transition is guarded by the current task status, so races
\* ... can never double-refund, double-complete or overwrite each other"
\* (task-reconciler.ts:15-18).  The executors' switch to 'running' is not
\* guarded: a retry reopens a task that a late attempt completed.
TerminalTaskFinal ==
  [][\A t \in Tasks : task[t] \in TerminalTask => task'[t] = task[t]]_vars
=============================================================================
