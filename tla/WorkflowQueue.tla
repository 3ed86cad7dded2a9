---------------------------- MODULE WorkflowQueue ----------------------------
(***************************************************************************)
(* One multi-step workflow on the execution engine: runWorkflow in         *)
(* src/src/orchestrator/workflow-runner.ts under the workflow half of      *)
(* queue.ts, with recovery.ts after a crash.  Workflows share no row but   *)
(* the credit account, so one stands for all.                              *)
(*                                                                         *)
(* Each run of the workflow creates a new task for a step it dispatches,   *)
(* so a task is named by the attempt and the step.  Callbacks, statements  *)
(* and crashes are treated as in AgentQueue; what that module says of      *)
(* attempt rows, worker locks and outputs is not repeated here.            *)
(***************************************************************************)
EXTENDS CreditLedger, Sequences

CONSTANTS
  StepCount,       \* the number of steps
  DependsOn,       \* workflow_steps.depends_on, as the set of steps it names
  AgentlessSteps,  \* steps whose agent is not in the registry
  Unlimited,       \* the owner's account consumes no credit
  MaxAttempts,     \* max_attempts of the job
  MaxBoots         \* bound on the times the server process is started

Steps         == 1 .. StepCount
AttemptNumber == 1 .. MaxAttempts

ASSUME WorkflowAssumption ==
  /\ StepCount \in Nat \ {0} /\ MaxAttempts \in Nat \ {0}
  /\ MaxBoots \in Nat \ {0}
  /\ DependsOn \in [Steps -> SUBSET Steps]
  /\ AgentlessSteps \subseteq Steps /\ Unlimited \in BOOLEAN
  /\ Tasks = AttemptNumber \X Steps

VARIABLES
  workflow,  \* workflows.status
  step,      \* workflow_steps.status
  stepTask,  \* workflow_steps.task_id: the attempt that created it, 0 = NULL
  task,      \* tasks.status
  exec,      \* agent_executions.status
  job,       \* execution_jobs.status
  attempts,  \* execution_jobs.attempts
  runner,    \* in memory: the call of runWorkflow
  late,      \* in memory: the dispatches that lost to their step timer
  stmts,     \* in memory: what the running callback has yet to execute
  boot,      \* number of the current process
  phase      \* how far the process has started

rowVars  == <<workflow, step, stepTask, task, exec, job, attempts>>
procVars == <<runner, late, stmts, boot, phase>>
vars     == <<ledgerVars, rowVars, procVars>>

ActiveWorkflow   == {"planned", "running"}
TerminalWorkflow == {"completed", "failed", "cancelled"}
StepStatus       == {"pending", "running", "completed", "failed", "skipped",
                     "cancelled"}
NonTerminalTask  == {"created", "running"}
TaskStatus       == {"none", "completed", "failed", "cancelled"}
                      \cup NonTerminalTask
ExecStatus       == {"none", "queued", "running", "completed", "failed"}
ClaimableJob     == {"queued", "retrying"}
ActiveJob        == ClaimableJob \cup {"running"}
TerminalJob      == {"completed", "failed", "timed_out", "cancelled"}
Phases           == {"jobs", "executions", "tasks", "steps", "workflows",
                     "serving"}

\* runWorkflow is in its loop at step `at`, or awaits the dispatch of that
\* step, or the synthesis of the final result.  `completed` is its local map,
\* `failed` and `cancelled` are its flags, `retryable` is the class of the
\* error it will report; `watched` says that the job's handler still waits.
Runners  == [pc : {"none", "loop", "step", "synthesis"},
             at : 0 .. StepCount + 1, completed : SUBSET Steps,
             failed : BOOLEAN, cancelled : BOOLEAN, retryable : BOOLEAN,
             watched : BOOLEAN]
NoRunner == [pc |-> "none", at |-> 0, completed |-> {}, failed |-> FALSE,
             cancelled |-> FALSE, retryable |-> FALSE, watched |-> FALSE]

\* A statement: operation, the task or (its second half) the step it is
\* about, and the status it writes.
Stmt(op, t, to) == [op |-> op, task |-> t, to |-> to]
RowStmt(op, to) == Stmt(op, <<1, 1>>, to)

Init ==
  /\ LedgerInit
  /\ workflow = "planned"
  /\ step = [s \in Steps |-> "pending"]
  /\ stepTask = [s \in Steps |-> 0]
  /\ task = [t \in Tasks |-> "none"]
  /\ exec = [t \in Tasks |-> "none"]
  /\ job = "none" /\ attempts = 0
  /\ runner = NoRunner /\ late = {} /\ stmts = <<>>
  /\ boot = 1 /\ phase = "jobs"

\* The event loop is free: the server is up and no callback is running.
Idle == phase = "serving" /\ stmts = <<>> /\ runner.pc # "loop"

\* isCancelled(): the in-memory set only repeats the row.
JobCancelled == job = "cancelled"

\* The task that the run has for its current step, and whether it awaits t.
CurrentTask == <<attempts, runner.at>>
Awaited(t)  == runner.pc = "step" /\ t = CurrentTask

\* workflow_steps.task_id names t.
Linked(t) == stepTask[t[2]] = t[1]

RunnerGoes(r) == runner' = r /\ UNCHANGED <<ledgerVars, rowVars, late, boot, phase>>

-----------------------------------------------------------------------------
(* The loop of runWorkflow: iterations are parts of one callback.          *)

AtStep(s) == phase = "serving" /\ stmts = <<>> /\ runner.pc = "loop" /\ runner.at = s

ToNextStep == [runner EXCEPT !.at = @ + 1]

\* An earlier run completed the step.
ResumeStep(s) ==
  /\ AtStep(s) /\ step[s] = "completed"
  /\ RunnerGoes([ToNextStep EXCEPT !.completed = @ \cup {s}])
  /\ UNCHANGED stmts

\* The step may be tried: not done, not blocked, with an agent.  The
\* cancellation probe before it finds nothing: no await separates it from the
\* claim of the job or from the probe behind the step before.
Runnable(s) ==
  /\ step[s] # "completed"
  /\ DependsOn[s] \subseteq runner.completed
  /\ s \notin AgentlessSteps

SkipStep(s) ==
  /\ AtStep(s) /\ step[s] # "completed" /\ ~Runnable(s)
  /\ RunnerGoes(ToNextStep)
  /\ stmts' = << Stmt("step_set", <<1, s>>, "skipped") >>

\* createAgentTask throws: no credit, or for reasons left open (emergency
\* stop, inactive account, an agent the owner may not see).
RefuseStep(s) ==
  /\ AtStep(s) /\ Runnable(s)
  /\ RunnerGoes([runner EXCEPT !.pc = "synthesis", !.failed = TRUE,
                               !.retryable = TRUE])
  /\ stmts' = << Stmt("step_set", <<1, s>>, "running"),
                 Stmt("step_set", <<1, s>>, "failed") >>

\* createAgentTask, the link of step and task, the dispatch to its await.
DispatchStep(s) ==
  LET t == <<attempts, s>>
  IN /\ AtStep(s) /\ Runnable(s)
     /\ Unlimited \/ HasCredit
     /\ RunnerGoes([runner EXCEPT !.pc = "step"])
     /\ stmts' = << Stmt("step_set", t, "running"),
                    Stmt("task_insert", t, "created") >>
          \o (IF Unlimited THEN <<>> ELSE << Stmt("credit_consume", t, "none") >>)
          \o << Stmt("exec_insert", t, "queued"), Stmt("step_link", t, "none"),
                Stmt("exec_set", t, "running"), Stmt("task_run", t, "running") >>

\* After the last step: on to synthesizeFinalResult.
LeaveLoop ==
  /\ AtStep(StepCount + 1)
  /\ RunnerGoes([runner EXCEPT !.pc = "synthesis"])
  /\ UNCHANGED stmts

Loop == \/ LeaveLoop
        \/ \E s \in Steps : \/ ResumeStep(s) \/ SkipStep(s)
                            \/ RefuseStep(s) \/ DispatchStep(s)

-----------------------------------------------------------------------------
(* Callbacks of the serving process.                                       *)

EnqueueWorkflow ==
  /\ Idle /\ job = "none"
  /\ stmts' = << RowStmt("job_insert", "queued") >>
  /\ UNCHANGED <<ledgerVars, rowVars, runner, late, boot, phase>>

\* tick, and the start of runWorkflow.  Its switch to 'running' is not
\* guarded: a retry reopens a failed workflow.
ClaimNextDueJob ==
  /\ Idle /\ job \in ClaimableJob
  /\ job' = "running"
  /\ attempts' = attempts + 1
  /\ runner' = [NoRunner EXCEPT !.pc = "loop", !.at = 1, !.watched = TRUE]
  /\ stmts' = << RowStmt("workflow_run", "running") >>
  /\ UNCHANGED <<ledgerVars, workflow, step, stepTask, task, exec, late, boot,
                 phase>>

\* The dispatch of t settles with these writes, and runWorkflow goes on with
\* runner r and these writes if it awaits it; nobody reads a late one.
DispatchSettles(t, writes, r, stepWrites) ==
  /\ Idle
  /\ \/ /\ t \in late
        /\ late' = late \ {t} /\ stmts' = writes /\ UNCHANGED runner
     \/ /\ Awaited(t)
        /\ runner' = r /\ stmts' = writes \o stepWrites /\ UNCHANGED late
  /\ UNCHANGED <<ledgerVars, rowVars, boot, phase>>

\* Mutant: the cancellation is not probed.
DispatchSucceedsUnprobed(t) ==
  DispatchSettles(t,
    << Stmt("exec_set", t, "completed"), Stmt("task_complete", t, "completed") >>,
    [ToNextStep EXCEPT !.pc = "loop", !.completed = @ \cup {t[2]}],
    << Stmt("step_set", t, "completed") >>)

\* The work returned a verified result; the step drops it if the job was
\* cancelled meanwhile.
DispatchSucceeds(t) ==
  DispatchSettles(t,
    << Stmt("exec_set", t, "completed"), Stmt("task_complete", t, "completed") >>,
    IF JobCancelled
    THEN [runner EXCEPT !.pc = "synthesis", !.cancelled = TRUE]
    ELSE [ToNextStep EXCEPT !.pc = "loop", !.completed = @ \cup {t[2]}],
    << Stmt("step_set", t, IF JobCancelled THEN "cancelled" ELSE "completed") >>)

\* The work threw: failExecution settles the task at once.
DispatchFails(t) ==
  \E retryable \in BOOLEAN :
    DispatchSettles(t,
      << Stmt("exec_set", t, "failed"), Stmt("task_settle", t, "failed") >>,
      [runner EXCEPT !.pc = "synthesis", !.failed = TRUE,
                     !.retryable = retryable],
      << Stmt("step_set", t, "failed") >>)

\* Mutant: the step is marked without its task.
StepTimeoutNoRefund ==
  /\ Idle /\ runner.pc = "step"
  /\ runner' = [runner EXCEPT !.pc = "synthesis", !.failed = TRUE,
                              !.retryable = TRUE]
  /\ late' = late \cup {CurrentTask}
  /\ stmts' = << Stmt("exec_set", CurrentTask, "failed"),
                 Stmt("step_set", CurrentTask, "failed") >>
  /\ UNCHANGED <<ledgerVars, rowVars, boot, phase>>

\* The step timer wins withStepTimeout.  Its message holds "timed_out", not
\* one of the words classifyExecutionError knows, hence it is retryable.
StepTimeout ==
  /\ Idle /\ runner.pc = "step"
  /\ runner' = [runner EXCEPT !.pc = "synthesis", !.failed = TRUE,
                              !.retryable = TRUE]
  /\ late' = late \cup {CurrentTask}
  /\ stmts' = << Stmt("exec_set", CurrentTask, "failed"),
                 Stmt("task_settle", CurrentTask, "failed"),
                 Stmt("step_set", CurrentTask, "failed") >>
  /\ UNCHANGED <<ledgerVars, rowVars, boot, phase>>

\* Mutant: a failure is left to a retry that may not come.
HandlerPlanForgets ==
  IF runner.cancelled \/ JobCancelled THEN <<>>
  ELSE IF ~runner.failed THEN << RowStmt("job_finish", "completed") >>
  ELSE IF runner.retryable /\ attempts = MaxAttempts THEN <<>>
  ELSE IF runner.retryable THEN << RowStmt("job_retry", "retrying") >>
  ELSE << RowStmt("job_finish", "failed") >>

\* runWorkflowJob after runWorkflow returned, and handleJobFailure.
HandlerPlan ==
  IF runner.cancelled \/ JobCancelled THEN <<>>
  ELSE IF ~runner.failed THEN << RowStmt("job_finish", "completed") >>
  ELSE IF runner.retryable /\ attempts < MaxAttempts
  THEN << RowStmt("job_retry", "retrying") >>
  ELSE << RowStmt("job_finish", "failed") >>

\* The final result is there; runWorkflow writes the final status and returns.
\* A cancelled run leaves the status to the cancellation.
SynthesisEnds ==
  /\ Idle /\ runner.pc = "synthesis"
  /\ runner' = NoRunner
  /\ stmts' =
       (IF runner.cancelled THEN <<>>
        ELSE << RowStmt("workflow_finish",
                        IF runner.failed THEN "failed" ELSE "completed") >>)
       \o (IF runner.watched THEN HandlerPlan ELSE <<>>)
  /\ UNCHANGED <<ledgerVars, rowVars, late, boot, phase>>

\* What the handler of an overall timeout writes for a step it finds running.
TimeoutPlan(s) ==
  IF stepTask[s] = 0 THEN <<>>
  ELSE << Stmt("task_settle", <<stepTask[s], s>>, "failed"),
          Stmt("step_set", <<1, s>>, "failed") >>

\* The timer of the whole workflow wins raceWithTimeout: the handler settles
\* workflow, one running step and job, and runWorkflow goes on unwatched.
WorkflowTimeout ==
  LET runningSteps == {s \in Steps : step[s] = "running"}
      stepPlans    == IF runningSteps = {} THEN {<<>>}
                      ELSE {TimeoutPlan(s) : s \in runningSteps}
  IN /\ Idle /\ runner.watched
     /\ runner' = [runner EXCEPT !.watched = FALSE]
     /\ \E plan \in stepPlans :
          stmts' = << RowStmt("workflow_finish", "failed") >> \o plan
            \o (IF JobCancelled THEN <<>>
                ELSE << RowStmt("job_finish", "timed_out") >>)
     /\ UNCHANGED <<ledgerVars, rowVars, late, boot, phase>>

\* Mutant: the job row first.
CancelWorkflowJobFirst ==
  /\ Idle /\ job \in ActiveJob
  /\ stmts' = << RowStmt("job_cancel", "cancelled"),
                 RowStmt("workflow_finish", "cancelled"),
                 RowStmt("cancel_steps", "none") >>
  /\ UNCHANGED <<ledgerVars, rowVars, runner, late, boot, phase>>

\* cancelWorkflow, cancelTask of a linked step's task, adminCancelAll.
CancelWorkflow ==
  /\ Idle /\ job \in ActiveJob
  /\ stmts' = << RowStmt("workflow_finish", "cancelled"),
                 RowStmt("cancel_steps", "none"),
                 RowStmt("job_cancel", "cancelled") >>
  /\ UNCHANGED <<ledgerVars, rowVars, runner, late, boot, phase>>

\* Mutant: the task is cancelled without a look at the workflow it is in.
CancelTaskDirectly(t) ==
  /\ Idle /\ task[t] \in NonTerminalTask
  /\ stmts' = << Stmt("task_settle", t, "cancelled") >>
  /\ UNCHANGED <<ledgerVars, rowVars, runner, late, boot, phase>>

\* cancelTask of a task that no active job owns.
CancelTask(t) ==
  /\ Idle /\ task[t] \in NonTerminalTask
  /\ ~(Linked(t) /\ job \in ActiveJob)
  /\ stmts' = << Stmt("task_settle", t, "cancelled") >>
  /\ UNCHANGED <<ledgerVars, rowVars, runner, late, boot, phase>>

-----------------------------------------------------------------------------
(* Statements.  Executing(op): the head of the running callback.           *)

Executing(op) == stmts # <<>> /\ Head(stmts).op = op
TaskId == Head(stmts).task
StepId == TaskId[2]
To     == Head(stmts).to
Done   == stmts' = Tail(stmts) /\ UNCHANGED <<runner, late, boot, phase>>
Then(s) == stmts' = << s >> \o Tail(stmts) /\ UNCHANGED <<runner, late, boot, phase>>

\* updateWorkflowStepStatus; unguarded.
SetStep ==
  /\ Executing("step_set")
  /\ step' = [step EXCEPT ![StepId] = To]
  /\ UNCHANGED <<ledgerVars, workflow, stepTask, task, exec, job, attempts>> /\ Done

\* The same with a task id: the link to an earlier task is overwritten.
LinkStep ==
  /\ Executing("step_link")
  /\ stepTask' = [stepTask EXCEPT ![StepId] = TaskId[1]]
  /\ UNCHANGED <<ledgerVars, workflow, step, task, exec, job, attempts>> /\ Done

\* createTask, and the executor's unguarded switch to 'running'.
SetTask ==
  /\ Executing("task_insert") \/ Executing("task_run")
  /\ task' = [task EXCEPT ![TaskId] = To]
  /\ UNCHANGED <<ledgerVars, workflow, step, stepTask, exec, job, attempts>> /\ Done

ReserveCredit ==
  /\ Executing("credit_consume")
  /\ ConsumeTaskCredit(TaskId)
  /\ UNCHANGED rowVars /\ Done

\* createAgentExecution, and updateAgentExecutionStatus; unguarded.
SetExecution ==
  /\ Executing("exec_insert") \/ Executing("exec_set")
  /\ exec' = [exec EXCEPT ![TaskId] = To]
  /\ UNCHANGED <<ledgerVars, workflow, step, stepTask, task, job, attempts>> /\ Done

CompleteTask ==
  /\ Executing("task_complete")
  /\ task' = IF task[TaskId] \in NonTerminalTask
             THEN [task EXCEPT ![TaskId] = To] ELSE task
  /\ UNCHANGED <<ledgerVars, workflow, step, stepTask, exec, job, attempts>> /\ Done

\* reconcileTaskFailed and reconcileTaskCancelled: a guarded flip, and the
\* refund in a transaction of its own.
SettleTask ==
  /\ Executing("task_settle")
  /\ IF task[TaskId] \in NonTerminalTask
     THEN /\ task' = [task EXCEPT ![TaskId] = To]
          /\ Then(Stmt("credit_refund", TaskId, "none"))
     ELSE UNCHANGED task /\ Done
  /\ UNCHANGED <<ledgerVars, workflow, step, stepTask, exec, job, attempts>>

RefundCredit ==
  /\ Executing("credit_refund")
  /\ RefundTaskCredit(TaskId)
  /\ UNCHANGED rowVars /\ Done

\* runWorkflow's start is unguarded; every settlement of the workflow is
\* guarded by 'planned' or 'running'.
SetWorkflow ==
  /\ Executing("workflow_run") \/ Executing("workflow_finish")
  /\ workflow' = IF Executing("workflow_run") \/ workflow \in ActiveWorkflow
                 THEN To ELSE workflow
  /\ UNCHANGED <<ledgerVars, step, stepTask, task, exec, job, attempts>> /\ Done

\* The job row: an insert, and updates guarded by the status each may leave.
JobLeaves == [job_insert |-> {"none"}, job_cancel |-> ActiveJob,
              job_finish |-> {"running"}, job_retry |-> {"running"}]
SetJob ==
  /\ \E op \in DOMAIN JobLeaves :
       /\ Executing(op)
       /\ job' = IF job \in JobLeaves[op] THEN To ELSE job
  /\ UNCHANGED <<ledgerVars, workflow, step, stepTask, task, exec, attempts>> /\ Done

\* cancelRunningStepTask: step by step, in no order the query fixes.
CancelSteps ==
  /\ Executing("cancel_steps")
  /\ \/ \E s \in Steps :
          /\ step[s] = "running"
          /\ step' = [step EXCEPT ![s] = "cancelled"]
          /\ stmts' = (IF stepTask[s] = 0 THEN <<>>
                       ELSE << Stmt("task_settle", <<stepTask[s], s>>,
                                    "cancelled") >>) \o stmts
          /\ UNCHANGED <<runner, late, boot, phase>>
     \/ \E s \in Steps :
          /\ step[s] = "pending"
          /\ step' = [step EXCEPT ![s] = "skipped"]
          /\ UNCHANGED procVars
     \/ /\ \A s \in Steps : step[s] \notin {"pending", "running"}
        /\ UNCHANGED step /\ Done
  /\ UNCHANGED <<ledgerVars, workflow, stepTask, task, exec, job, attempts>>

Statement ==
  \/ SetStep \/ LinkStep \/ SetTask \/ ReserveCredit \/ SetExecution
  \/ CompleteTask \/ SettleTask \/ RefundCredit \/ SetWorkflow \/ SetJob
  \/ CancelSteps

-----------------------------------------------------------------------------
(* Crash and recovery (recovery.ts), pass by pass before the server serves. *)

Crash ==
  /\ boot < MaxBoots
  /\ boot' = boot + 1 /\ phase' = "jobs"
  /\ runner' = NoRunner /\ late' = {} /\ stmts' = <<>>
  /\ UNCHANGED <<ledgerVars, rowVars>>

OrphanExecutions == {t \in Tasks : exec[t] \in {"queued", "running"}}
OrphanTasks      == {t \in Tasks : /\ task[t] \in NonTerminalTask
                                   /\ ~(job \in ActiveJob /\ Linked(t))}
OrphanWorkflow   == workflow = "running" /\ job \notin ActiveJob
OrphanSteps      == IF OrphanWorkflow
                    THEN {s \in Steps : step[s] = "running"} ELSE {}

\* Every running job is stale: its worker died with the process.
RecoverStaleJob ==
  IF attempts < MaxAttempts THEN << RowStmt("job_retry", "queued") >>
  ELSE << RowStmt("job_finish", "failed"), RowStmt("workflow_finish", "failed") >>

\* What is left to do in a pass.
PassWork(p) ==
  CASE p = "jobs"       -> IF job = "running" THEN {RecoverStaleJob} ELSE {}
    [] p = "executions" -> { << Stmt("exec_set", t, "failed") >> :
                             t \in OrphanExecutions }
    [] p = "tasks"      -> { << Stmt("task_settle", t, "failed") >> :
                             t \in OrphanTasks }
    [] p = "steps"      -> { << Stmt("step_set", <<1, s>>, "failed") >> :
                             s \in OrphanSteps }
    [] p = "workflows"  -> IF OrphanWorkflow
                           THEN { << RowStmt("workflow_finish", "failed") >> }
                           ELSE {}
NextPass == [jobs |-> "executions", executions |-> "tasks", tasks |-> "steps",
             steps |-> "workflows", workflows |-> "serving"]

Recover ==
  /\ phase # "serving" /\ stmts = <<>>
  /\ IF PassWork(phase) = {}
     THEN phase' = NextPass[phase] /\ UNCHANGED stmts
     ELSE stmts' \in PassWork(phase) /\ UNCHANGED phase
  /\ UNCHANGED <<ledgerVars, rowVars, runner, late, boot>>

-----------------------------------------------------------------------------
Next ==
  \/ Loop \/ EnqueueWorkflow \/ ClaimNextDueJob
  \/ \E t \in Tasks : DispatchSucceeds(t) \/ DispatchFails(t) \/ CancelTask(t)
  \/ StepTimeout \/ WorkflowTimeout \/ SynthesisEnds \/ CancelWorkflow
  \/ Statement \/ Crash \/ Recover

\* The callback that runs is never suspended, recovery and the timers of a
\* handler that waits run in every process that stays up, and the poll loop
\* claims a due job.  Users, providers and crashes owe nothing.
Fairness ==
  /\ WF_vars(Statement) /\ WF_vars(Loop) /\ WF_vars(Recover)
  /\ SF_vars(ClaimNextDueJob) /\ WF_vars(WorkflowTimeout)

Spec     == Init /\ [][Next]_vars
FairSpec == Spec /\ Fairness

-----------------------------------------------------------------------------
(* Properties.                                                             *)

Lifecycle == INSTANCE JobLifecycle
               WITH Jobs <- {"workflow"},
                    status <- [j \in {"workflow"} |-> job],
                    used   <- [j \in {"workflow"} |-> attempts]

\* What each statement may write.
Writes ==
  [step_set |-> StepStatus, step_link |-> {"none"}, cancel_steps |-> {"none"},
   task_insert |-> {"created"}, task_run |-> {"running"},
   task_complete |-> {"completed"}, task_settle |-> {"failed", "cancelled"},
   exec_insert |-> {"queued"}, exec_set |-> {"running", "completed", "failed"},
   credit_consume |-> {"none"}, credit_refund |-> {"none"},
   workflow_run |-> {"running"}, workflow_finish |-> TerminalWorkflow,
   job_insert |-> {"queued"}, job_retry |-> ClaimableJob,
   job_finish |-> TerminalJob \ {"cancelled"}, job_cancel |-> {"cancelled"}]
Written == UNION {Writes[op] : op \in DOMAIN Writes}
Stmts == {s \in [op : DOMAIN Writes, task : Tasks, to : Written] :
            s.to \in Writes[s.op]}

\* Types; the job never counts more attempts than max_attempts.
RowsTypeOK ==
  /\ workflow \in ActiveWorkflow \cup TerminalWorkflow
  /\ step \in [Steps -> StepStatus]
  /\ stepTask \in [Steps -> 0 .. MaxAttempts]
  /\ task \in [Tasks -> TaskStatus] /\ exec \in [Tasks -> ExecStatus]
  /\ job \in {"none"} \cup ActiveJob \cup TerminalJob
  /\ attempts \in 0 .. MaxAttempts
WorkflowTypeOK ==
  /\ LedgerTypeOK /\ RowsTypeOK
  /\ runner \in Runners /\ late \subseteq Tasks /\ stmts \in Seq(Stmts)
  /\ boot \in 1 .. MaxBoots /\ phase \in Phases

\* The job row moves as JobLifecycle promises, although cancellation, timers,
\* recovery and an unwatched run all write it (queue.ts, header).
JobRowFollowsLifecycle == Lifecycle!LifecycleSpec

\* A workflow never runs twice at once: a job that may be claimed has no
\* runWorkflow still going on in this process.  Nothing stops the loser of
\* raceWithTimeout, so this rests on an overall timeout not being retried.
OneRunAtATime == job \in ClaimableJob => runner.pc = "none"

\* A step marked completed was delivered by the task it names, although step
\* and task are written apart and dispatches answer late.  An overall timeout
\* is the exception: it does not stop the run that lost against it, which goes
\* on to write its steps.
CompletedStepDelivered ==
  Idle /\ job # "timed_out" =>
    \A s \in Steps : step[s] = "completed" => task[<<stepTask[s], s>>] = "completed"

\* A completed step had all the steps it depends on completed, in whatever
\* attempts they ran.
DependenciesFirst ==
  \A s \in Steps : step[s] = "completed" =>
    \A d \in DependsOn[s] : step[d] = "completed"

\* A step marked completed was done, and in its turn.
CompletedStepsAreSound == CompletedStepDelivered /\ DependenciesFirst

\* A user pays for a step at most once, however often it is tried: while the
\* process has not crashed at most one task of a step holds a credit at rest.
StepPaidOnce ==
  Idle /\ boot = 1 => \A s \in Steps :
    Cardinality({n \in AttemptNumber : /\ consumedFrom[<<n, s>>] # NoPool
                                       /\ <<n, s>> \notin refunded}) <= 1

\* Recovery after restarts looks for running workflows only (recovery.ts:128).
\* If the process dies in every attempt before it marked the workflow, and once
\* more between the two writes that give job and workflow up, nobody settles
\* the workflow any more: it stays planned under a failed job.
LostWorkflow ==
  /\ job = "failed" /\ workflow = "planned"
  /\ attempts = MaxAttempts /\ boot > MaxAttempts + 1

\* A settled job leaves its workflow settled or lost, and a completed job means
\* a completed workflow, over every crash between the two writes.
JobAndWorkflowAgree ==
  Idle => /\ job \in TerminalJob => workflow \in TerminalWorkflow \/ LostWorkflow
          /\ job = "completed" => workflow = "completed"

\* When the server is idle a running job has a run that its handler awaits.
NoStrandedJob == Idle /\ job = "running" => runner.pc # "none" /\ runner.watched

\* While the process has not crashed, the job is only marked cancelled once
\* every task of the workflow is settled, at whatever point the cancellation
\* met the run; the one dispatch a cancelled run awaits changes nothing.
CancelledWorkflowHasNoLiveTask ==
  boot = 1 /\ job = "cancelled" => \A t \in Tasks : task[t] \notin NonTerminalTask

\* A settled job left nothing of its workflow open.
SettledJobClosesWorkflow == JobAndWorkflowAgree /\ CancelledWorkflowHasNoLiveTask

\* A cancelled workflow spends no further credit: the probe between the steps
\* meets the job row that the cancellation wrote last.
CancelStopsSpending ==
  [][job = "cancelled" => consumedFrom' = consumedFrom]_vars

\* Once job and workflow are settled the workflow keeps its status, although
\* an unwatched run or a cancelled one is still to write its own.
SettledWorkflowStays ==
  [][(job \in TerminalJob /\ workflow \in TerminalWorkflow)
       => (workflow' = workflow)]_vars

\* What was cancelled or settled has no further effect.
SettledIsFinal == CancelStopsSpending /\ SettledWorkflowStays

\* The job settles in the end, and the workflow with it unless it is lost,
\* although providers may never answer and the process may crash.
WorkflowSettles ==
  job # "none" ~> [](/\ job \in TerminalJob
                     /\ workflow \in TerminalWorkflow \/ LostWorkflow)
=============================================================================
