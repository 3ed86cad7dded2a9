------------------------- MODULE WorkflowQueueProofs -------------------------
(***************************************************************************)
(* What a workflow on the execution engine promises for every set of       *)
(* steps and dependencies, every max_attempts and any number of restarts:  *)
(* it touches credits only through the ledger, its rows keep their types,  *)
(* it never runs twice at once, its job is never left without a run that   *)
(* will settle it, job and workflow settle together and for good, steps    *)
(* are completed in their turn by the task they name, a cancellation       *)
(* closes every task before the job, and a step is paid at most once.      *)
(***************************************************************************)
EXTENDS WorkflowQueue, CreditLedgerProofs

-----------------------------------------------------------------------------
(* The inductive invariant.                                                *)

\* Statements that put the job in a state from which it may be claimed, and
\* those that take it out of 'running'.
OpensJob(s) == s.op \in {"job_insert", "job_retry"}
EndsJob(s)  == s.op \in {"job_finish", "job_retry"}

ProcessTypeOK ==
  /\ runner \in Runners /\ late \subseteq Tasks /\ stmts \in Seq(Stmts)
  /\ boot \in 1 .. MaxBoots /\ phase \in Phases

\* What runWorkflow remembers fits the rows: it belongs to a claimed attempt,
\* awaits a step of the workflow, and stopped for a cancellation only if there
\* was one.  Recovery has no run, and no run keeps no memory.
RunnerFitsRows ==
  /\ runner.pc # "none" => attempts \in AttemptNumber
  /\ runner.pc = "step" => runner.at \in Steps
  /\ runner.pc = "none" => runner = NoRunner
  /\ runner.cancelled => job = "cancelled"
  /\ phase # "serving" => runner.pc = "none"

\* The job may be claimed, now or after a statement that is still to come,
\* only while no run goes on and an attempt is left.
OpenJobIsFree ==
  job \in {"none"} \cup ClaimableJob \/ (\E s \in Range(stmts) : OpensJob(s))
    => runner.pc = "none" /\ attempts < MaxAttempts

\* A running job has a run that its handler awaits, a statement to come that
\* ends it, or the first recovery pass ahead.
RunningJobIsHeld ==
  job = "running" => \/ runner.pc # "none" /\ runner.watched
                     \/ \E s \in Range(stmts) : EndsJob(s)
                     \/ phase = "jobs"

WorkflowInv == /\ RowsTypeOK /\ ProcessTypeOK /\ RunnerFitsRows
               /\ OpenJobIsFree /\ RunningJobIsHeld

-----------------------------------------------------------------------------
(* The types of the statements a callback may leave.                       *)

LEMMA WritesValues ==
  /\ DOMAIN Writes =
       {"step_set", "step_link", "cancel_steps", "task_insert", "task_run",
        "task_complete", "task_settle", "exec_insert", "exec_set",
        "credit_consume", "credit_refund", "workflow_run", "workflow_finish",
        "job_insert", "job_retry", "job_finish", "job_cancel"}
  /\ Writes["step_set"] = StepStatus /\ Writes["step_link"] = {"none"}
  /\ Writes["cancel_steps"] = {"none"} /\ Writes["task_insert"] = {"created"}
  /\ Writes["task_run"] = {"running"} /\ Writes["task_complete"] = {"completed"}
  /\ Writes["task_settle"] = {"failed", "cancelled"}
  /\ Writes["exec_insert"] = {"queued"}
  /\ Writes["exec_set"] = {"running", "completed", "failed"}
  /\ Writes["credit_consume"] = {"none"} /\ Writes["credit_refund"] = {"none"}
  /\ Writes["workflow_run"] = {"running"}
  /\ Writes["workflow_finish"] = TerminalWorkflow
  /\ Writes["job_insert"] = {"queued"} /\ Writes["job_retry"] = ClaimableJob
  /\ Writes["job_finish"] = TerminalJob \ {"cancelled"}
  /\ Writes["job_cancel"] = {"cancelled"}
BY DEF Writes

LEMMA StmtType ==
  \A op \in DOMAIN Writes, t \in Tasks : \A to \in Writes[op] :
    LET s == Stmt(op, t, to) IN s \in Stmts /\ s.op = op
<1>  SUFFICES ASSUME NEW op \in DOMAIN Writes, NEW t \in Tasks,
                     NEW to \in Writes[op]
              PROVE  Stmt(op, t, to) \in Stmts /\ Stmt(op, t, to).op = op
  OBVIOUS
<1>1. to \in Written  BY DEF Written
<1>  QED  BY <1>1 DEF Stmt, Stmts

LEMMA StmtFields ==
  ASSUME NEW s \in Stmts
  PROVE  /\ s.op \in DOMAIN Writes /\ s.to \in Writes[s.op]
         /\ s.task \in Tasks
         /\ s.task[1] \in AttemptNumber /\ s.task[2] \in Steps
BY WorkflowAssumption DEF Stmts

\* Every step has a task in each attempt, and the first attempt exists.
LEMMA TaskNames ==
  /\ \A s \in Steps, n \in AttemptNumber : <<n, s>> \in Tasks
  /\ 1 \in AttemptNumber /\ 1 \in Steps /\ <<1, 1>> \in Tasks
  /\ \A t \in Tasks : t[1] \in AttemptNumber /\ t[2] \in Steps
                       /\ t = <<t[1], t[2]>>
<1>1. Tasks = AttemptNumber \X Steps /\ 1 \in AttemptNumber /\ 1 \in Steps
  BY WorkflowAssumption DEF AttemptNumber, Steps
<1>  QED  BY <1>1

\* A plan whose statements leave the job row alone.
Plain(q) == q \in Seq(Stmts) /\ \A s \in Range(q) : ~OpensJob(s)

\* The statements about steps, tasks and executions, and the cancellation of
\* the job.
LEMMA PlainStatement ==
  \A op \in DOMAIN Writes \ {"job_insert", "job_retry"}, t \in Tasks :
    \A to \in Writes[op] : Plain(<< Stmt(op, t, to) >>)
<1>  SUFFICES ASSUME NEW op \in DOMAIN Writes \ {"job_insert", "job_retry"},
                     NEW t \in Tasks, NEW to \in Writes[op]
              PROVE  Plain(<< Stmt(op, t, to) >>)
  OBVIOUS
<1>  DEFINE s == Stmt(op, t, to)
<1>1. s \in Stmts /\ s.op = op  BY StmtType
<1>2. ~OpensJob(s)  BY <1>1 DEF OpensJob
<1>  HIDE DEF s
<1>3. <<s>> \in Seq(Stmts) /\ Range(<<s>>) = {s}  BY <1>1, TupleRange
<1>  QED  BY <1>2, <1>3 DEF Plain, s

LEMMA PlainConcat ==
  ASSUME NEW p, NEW q, Plain(p), Plain(q)
  PROVE  Plain(p \o q) /\ Range(p \o q) = Range(p) \cup Range(q)
BY ConcatRange DEF Plain

LEMMA PlainTuple ==
  /\ Plain(<<>>)
  /\ \A a, b : Plain(<<a>>) /\ Plain(<<b>>) => Plain(<<a, b>>)
  /\ \A a, b, c : Plain(<<a>>) /\ Plain(<<b>>) /\ Plain(<<c>>)
       => Plain(<<a, b, c>>)
  /\ \A a, b, c, d : Plain(<<a>>) /\ Plain(<<b>>) /\ Plain(<<c>>) /\ Plain(<<d>>)
       => Plain(<<a, b, c, d>>)
<1>1. \A a : Plain(<<a>>) => a \in Stmts /\ ~OpensJob(a)
  BY TupleRange DEF Plain
<1>2. Plain(<<>>)  BY TupleRange DEF Plain
<1>3. ASSUME NEW a, NEW b, Plain(<<a>>), Plain(<<b>>) PROVE Plain(<<a, b>>)
  <2>1. \A s \in {a, b} : s \in Stmts /\ ~OpensJob(s)  BY <1>1, <1>3
  <2>2. <<a, b>> \in Seq(Stmts)  BY <2>1
  <2>3. Range(<<a, b>>) = {a, b}  BY TupleRange
  <2>  QED  BY <2>1, <2>2, <2>3 DEF Plain
<1>4. ASSUME NEW a, NEW b, NEW c, Plain(<<a>>), Plain(<<b>>), Plain(<<c>>)
      PROVE  Plain(<<a, b, c>>)
  <2>1. \A s \in {a, b, c} : s \in Stmts /\ ~OpensJob(s)  BY <1>1, <1>4
  <2>2. <<a, b, c>> \in Seq(Stmts)  BY <2>1
  <2>3. Range(<<a, b, c>>) = {a, b, c}  BY TupleRange
  <2>  QED  BY <2>1, <2>2, <2>3 DEF Plain
<1>5. ASSUME NEW a, NEW b, NEW c, NEW d,
             Plain(<<a>>), Plain(<<b>>), Plain(<<c>>), Plain(<<d>>)
      PROVE  Plain(<<a, b, c, d>>)
  <2>1. \A s \in {a, b, c, d} : s \in Stmts /\ ~OpensJob(s)  BY <1>1, <1>5
  <2>2. <<a, b, c, d>> \in Seq(Stmts)  BY <2>1
  <2>3. Range(<<a, b, c, d>>) = {a, b, c, d}  BY TupleRange
  <2>  QED  BY <2>1, <2>2, <2>3 DEF Plain
<1>  QED  BY <1>2, <1>3, <1>4, <1>5

-----------------------------------------------------------------------------
(* Callbacks.                                                              *)

\* A callback that leaves the rows alone, writes plain statements, and leaves
\* runWorkflow where it is or moves it on.
LEMMA CallbackKeepsInv ==
  ASSUME WorkflowInv, phase = "serving", stmts = <<>>,
         rowVars' = rowVars, boot' = boot, phase' = phase,
         late' \subseteq Tasks, Plain(stmts'), runner' \in Runners,
         \/ runner' = runner
         \/ /\ runner.pc # "none" /\ runner'.pc # "none"
            /\ (runner'.watched <=> runner.watched)
            /\ runner'.cancelled => job = "cancelled"
            /\ runner'.pc = "step" => runner'.at \in Steps
  PROVE  WorkflowInv'
<1>  USE DEF WorkflowInv, rowVars
<1>1. RowsTypeOK'  BY DEF RowsTypeOK
<1>2. ProcessTypeOK'  BY DEF ProcessTypeOK, Plain
<1>3. RunnerFitsRows'  BY DEF RunnerFitsRows
<1>4. OpenJobIsFree'  BY DEF OpenJobIsFree, Plain
<1>5. \A s \in Range(stmts) : FALSE  BY TupleRange
<1>6. RunningJobIsHeld'  BY <1>5 DEF RunningJobIsHeld
<1>  QED  BY <1>1, <1>2, <1>3, <1>4, <1>6

\* The plain statements of the callbacks, by name.
LEMMA StepPlans ==
  ASSUME NEW t \in Tasks
  PROVE  /\ \A to \in StepStatus : Plain(<< Stmt("step_set", t, to) >>)
         /\ Plain(<< Stmt("step_link", t, "none") >>)
         /\ Plain(<< Stmt("task_insert", t, "created") >>)
         /\ Plain(<< Stmt("task_run", t, "running") >>)
         /\ Plain(<< Stmt("task_complete", t, "completed") >>)
         /\ Plain(<< Stmt("task_settle", t, "failed") >>)
         /\ Plain(<< Stmt("task_settle", t, "cancelled") >>)
         /\ Plain(<< Stmt("exec_insert", t, "queued") >>)
         /\ \A to \in {"running", "completed", "failed"} :
              Plain(<< Stmt("exec_set", t, to) >>)
         /\ Plain(<< Stmt("credit_consume", t, "none") >>)
         /\ Plain(<< Stmt("credit_refund", t, "none") >>)
BY PlainStatement, WritesValues

LEMMA RowPlans ==
  /\ Plain(<< RowStmt("workflow_run", "running") >>)
  /\ \A to \in TerminalWorkflow : Plain(<< RowStmt("workflow_finish", to) >>)
  /\ \A to \in TerminalJob \ {"cancelled"} : Plain(<< RowStmt("job_finish", to) >>)
  /\ Plain(<< RowStmt("job_cancel", "cancelled") >>)
  /\ Plain(<< RowStmt("cancel_steps", "none") >>)
BY PlainStatement, WritesValues, TaskNames DEF RowStmt

\* One iteration of the loop of runWorkflow.
LEMMA LoopKeepsInv ==
  ASSUME WorkflowInv, Loop
  PROVE  WorkflowInv'
<1>1. /\ runner \in Runners /\ late \subseteq Tasks
      /\ runner.pc = "loop" /\ phase = "serving" /\ stmts = <<>>
      /\ attempts \in AttemptNumber /\ StepCount \in Nat
  BY WorkflowAssumption DEF Loop, LeaveLoop, ResumeStep, SkipStep, RefuseStep, DispatchStep,
     AtStep, WorkflowInv, ProcessTypeOK, RunnerFitsRows
<1>0. runner.cancelled => job = "cancelled"
  BY DEF WorkflowInv, RunnerFitsRows
<1>2. rowVars' = rowVars /\ late' = late /\ boot' = boot /\ phase' = phase
  BY DEF Loop, LeaveLoop, ResumeStep, SkipStep, RefuseStep, DispatchStep,
     RunnerGoes
<1>3. \A s \in Steps : s + 1 \in 0 .. StepCount + 1 /\ s \in 0 .. StepCount + 1
  BY <1>1 DEF Steps
<1>4. CASE LeaveLoop
  <2>1. /\ runner' = [runner EXCEPT !.pc = "synthesis"] /\ stmts' = <<>>
    BY <1>1, <1>4 DEF LeaveLoop, RunnerGoes
  <2>2. /\ runner' \in Runners /\ runner'.pc = "synthesis"
        /\ (runner'.watched <=> runner.watched)
        /\ (runner'.cancelled => job = "cancelled")
    BY <1>0, <1>1, <2>1 DEF Runners
  <2>  QED  BY <1>1, <1>2, <2>1, <2>2, PlainTuple, CallbackKeepsInv
<1>5. ASSUME NEW s \in Steps, ResumeStep(s) PROVE WorkflowInv'
  <2>1. /\ runner' = [ToNextStep EXCEPT !.completed = @ \cup {s}]
        /\ stmts' = <<>> /\ runner.at = s
    BY <1>1, <1>5 DEF ResumeStep, RunnerGoes, AtStep
  <2>2. /\ runner' \in Runners /\ runner'.pc = "loop"
        /\ (runner'.watched <=> runner.watched)
        /\ (runner'.cancelled => job = "cancelled")
    BY <1>0, <1>1, <1>3, <2>1 DEF Runners, ToNextStep
  <2>  QED  BY <1>1, <1>2, <2>1, <2>2, PlainTuple, CallbackKeepsInv
<1>6. ASSUME NEW s \in Steps, SkipStep(s) PROVE WorkflowInv'
  <2>1. /\ runner' = ToNextStep /\ runner.at = s
        /\ stmts' = << Stmt("step_set", <<1, s>>, "skipped") >>
    BY <1>6 DEF SkipStep, RunnerGoes, AtStep
  <2>2. /\ runner' \in Runners /\ runner'.pc = "loop"
        /\ (runner'.watched <=> runner.watched)
        /\ (runner'.cancelled => job = "cancelled")
    BY <1>0, <1>1, <1>3, <2>1 DEF Runners, ToNextStep
  <2>3. <<1, s>> \in Tasks /\ "skipped" \in StepStatus
    BY TaskNames DEF StepStatus
  <2>4. Plain(stmts')
    BY <2>1, <2>3, StepPlans
  <2>  QED  BY <1>1, <1>2, <2>2, <2>4, CallbackKeepsInv
<1>7. ASSUME NEW s \in Steps, RefuseStep(s) PROVE WorkflowInv'
  <2>  DEFINE a == Stmt("step_set", <<1, s>>, "running")
              b == Stmt("step_set", <<1, s>>, "failed")
  <2>1. /\ runner' = [runner EXCEPT !.pc = "synthesis", !.failed = TRUE,
                                    !.retryable = TRUE]
        /\ stmts' = <<a, b>>
    BY <1>7 DEF RefuseStep, RunnerGoes
  <2>2. /\ runner' \in Runners /\ runner'.pc = "synthesis"
        /\ (runner'.watched <=> runner.watched)
        /\ (runner'.cancelled => job = "cancelled")
    BY <1>0, <1>1, <2>1 DEF Runners
  <2>3. <<1, s>> \in Tasks /\ "running" \in StepStatus /\ "failed" \in StepStatus
    BY TaskNames DEF StepStatus
  <2>4. Plain(<<a>>) /\ Plain(<<b>>)
    BY <2>3, StepPlans
  <2>  HIDE DEF a, b
  <2>5. Plain(stmts')
    BY <2>1, <2>4, PlainTuple
  <2>  QED  BY <1>1, <1>2, <2>2, <2>5, CallbackKeepsInv
<1>8. ASSUME NEW s \in Steps, DispatchStep(s) PROVE WorkflowInv'
  <2>  DEFINE t == <<attempts, s>>
              a == Stmt("step_set", t, "running")
              b == Stmt("task_insert", t, "created")
              c == Stmt("credit_consume", t, "none")
              d == Stmt("exec_insert", t, "queued")
              e == Stmt("step_link", t, "none")
              f == Stmt("exec_set", t, "running")
              g == Stmt("task_run", t, "running")
              p == IF Unlimited THEN <<>> ELSE <<c>>
  <2>1. /\ runner' = [runner EXCEPT !.pc = "step"] /\ runner.at = s
        /\ stmts' = <<a, b>> \o p \o <<d, e, f, g>>
    BY <1>8 DEF DispatchStep, RunnerGoes, AtStep
  <2>2. /\ runner' \in Runners /\ runner'.pc = "step" /\ runner'.at = s
        /\ (runner'.watched <=> runner.watched)
        /\ (runner'.cancelled => job = "cancelled")
    BY <1>0, <1>1, <2>1 DEF Runners
  <2>  HIDE DEF a, b, c, d, e, f, g
  <2>3. t \in Tasks /\ "running" \in StepStatus
    BY <1>1, TaskNames DEF StepStatus
  <2>4. /\ Plain(<<a>>) /\ Plain(<<b>>) /\ Plain(<<c>>) /\ Plain(<<d>>)
        /\ Plain(<<e>>) /\ Plain(<<f>>) /\ Plain(<<g>>)
    BY <2>3, StepPlans DEF a, b, c, d, e, f, g
  <2>5. Plain(<<a, b>>) /\ Plain(p) /\ Plain(<<d, e, f, g>>)
    BY <2>4, PlainTuple
  <2>  HIDE DEF p
  <2>6. Plain(<<a, b>> \o p)
    BY <2>5, PlainConcat
  <2>7. Plain(stmts')
    BY <2>1, <2>5, <2>6, PlainConcat
  <2>  QED  BY <1>1, <1>2, <2>2, <2>7, CallbackKeepsInv
<1>  QED  BY <1>4, <1>5, <1>6, <1>7, <1>8 DEF Loop

\* A dispatch settles, on time or late.
LEMMA DispatchKeepsInv ==
  ASSUME WorkflowInv, NEW t \in Tasks,
         DispatchSucceeds(t) \/ DispatchFails(t)
  PROVE  WorkflowInv'
<1>0. runner.cancelled => job = "cancelled"
  BY DEF WorkflowInv, RunnerFitsRows
<1>1. /\ phase = "serving" /\ stmts = <<>> /\ runner \in Runners
      /\ late \subseteq Tasks /\ rowVars' = rowVars /\ boot' = boot
      /\ phase' = phase
  BY DEF DispatchSucceeds, DispatchFails, DispatchSettles, Idle, WorkflowInv,
     ProcessTypeOK
<1>2. ASSUME NEW writes, NEW r, NEW stepWrites,
             DispatchSettles(t, writes, r, stepWrites),
             Plain(writes), Plain(stepWrites),
             runner.pc = "step" /\ t[2] = runner.at =>
               /\ r \in Runners /\ r.pc \in {"loop", "synthesis"}
               /\ (r.watched <=> runner.watched)
               /\ r.cancelled => job = "cancelled"
      PROVE  WorkflowInv'
  <2>1. CASE t \in late /\ late' = late \ {t} /\ stmts' = writes /\ runner' = runner
    <3>1. late' \subseteq Tasks
      BY <1>1, <2>1
    <3>  QED  BY <1>1, <1>2, <2>1, <3>1, CallbackKeepsInv
  <2>2. CASE Awaited(t) /\ runner' = r /\ stmts' = writes \o stepWrites /\ late' = late
    <3>1. Plain(stmts')
      BY <1>2, <2>2, PlainConcat
    <3>2. runner.pc = "step" /\ t[2] = runner.at
      BY <2>2 DEF Awaited, CurrentTask
    <3>  QED  BY <1>1, <1>2, <2>2, <3>1, <3>2, CallbackKeepsInv
  <2>  QED  BY <1>2, <2>1, <2>2 DEF DispatchSettles
<1>3. /\ t[2] \in Steps
      /\ runner.at \in Steps => runner.at + 1 \in 0 .. StepCount + 1
  BY TaskNames, WorkflowAssumption DEF Steps
<1>4. CASE DispatchSucceeds(t)
  <2>  DEFINE a == Stmt("exec_set", t, "completed")
              b == Stmt("task_complete", t, "completed")
              c == Stmt("step_set", t, IF JobCancelled THEN "cancelled"
                                                       ELSE "completed")
              r == IF JobCancelled
                   THEN [runner EXCEPT !.pc = "synthesis", !.cancelled = TRUE]
                   ELSE [ToNextStep EXCEPT !.pc = "loop",
                                           !.completed = @ \cup {t[2]}]
  <2>1. DispatchSettles(t, <<a, b>>, r, <<c>>)
    BY <1>4 DEF DispatchSucceeds
  <2>2. ASSUME runner.pc = "step" /\ t[2] = runner.at
        PROVE  /\ r \in Runners /\ r.pc \in {"loop", "synthesis"}
               /\ (r.watched <=> runner.watched)
               /\ r.cancelled => job = "cancelled"
    <3>1. CASE JobCancelled
      BY <1>1, <3>1 DEF Runners, JobCancelled
    <3>2. CASE ~JobCancelled
      BY <1>0, <1>1, <1>3, <2>2, <3>2 DEF Runners, ToNextStep
    <3>  QED  BY <3>1, <3>2
  <2>3. Plain(<<a>>) /\ Plain(<<b>>) /\ Plain(<<c>>)
    <3>1. "completed" \in StepStatus /\ "cancelled" \in StepStatus
      BY DEF StepStatus
    <3>  QED  BY <3>1, StepPlans
  <2>  HIDE DEF a, b, c, r
  <2>4. Plain(<<a, b>>)
    BY <2>3, PlainTuple
  <2>  QED  BY <1>2, <2>1, <2>2, <2>3, <2>4
<1>5. CASE DispatchFails(t)
  <2>1. PICK retryable \in BOOLEAN :
          DispatchSettles(t,
            << Stmt("exec_set", t, "failed"), Stmt("task_settle", t, "failed") >>,
            [runner EXCEPT !.pc = "synthesis", !.failed = TRUE,
                           !.retryable = retryable],
            << Stmt("step_set", t, "failed") >>)
    BY <1>5 DEF DispatchFails
  <2>  DEFINE a == Stmt("exec_set", t, "failed")
              b == Stmt("task_settle", t, "failed")
              c == Stmt("step_set", t, "failed")
              r == [runner EXCEPT !.pc = "synthesis", !.failed = TRUE,
                                  !.retryable = retryable]
  <2>2. /\ r \in Runners /\ r.pc \in {"loop", "synthesis"}
        /\ (r.watched <=> runner.watched)
        /\ r.cancelled => job = "cancelled"
    BY <1>0, <1>1, <2>1 DEF Runners
  <2>3. Plain(<<a>>) /\ Plain(<<b>>) /\ Plain(<<c>>)
    <3>1. "failed" \in StepStatus
      BY DEF StepStatus
    <3>  QED  BY <3>1, StepPlans
  <2>4. DispatchSettles(t, <<a, b>>, r, <<c>>)
    BY <2>1
  <2>  HIDE DEF a, b, c, r
  <2>5. Plain(<<a, b>>)
    BY <2>3, PlainTuple
  <2>  QED  BY <1>2, <2>2, <2>3, <2>4, <2>5
<1>  QED  BY <1>4, <1>5

\* The step timer.
LEMMA StepTimeoutKeepsInv ==
  ASSUME WorkflowInv, StepTimeout
  PROVE  WorkflowInv'
<1>  DEFINE t == CurrentTask
            a == Stmt("exec_set", t, "failed")
            b == Stmt("task_settle", t, "failed")
            c == Stmt("step_set", t, "failed")
<1>0. runner.cancelled => job = "cancelled"
  BY DEF WorkflowInv, RunnerFitsRows
<1>1. /\ phase = "serving" /\ stmts = <<>> /\ runner \in Runners
      /\ runner.pc = "step" /\ runner.at \in Steps /\ attempts \in AttemptNumber
      /\ late \subseteq Tasks /\ rowVars' = rowVars /\ boot' = boot
      /\ phase' = phase
  BY DEF StepTimeout, Idle, WorkflowInv, ProcessTypeOK, RunnerFitsRows
<1>2. t \in Tasks
  BY <1>1, TaskNames DEF CurrentTask
<1>3. /\ runner' = [runner EXCEPT !.pc = "synthesis", !.failed = TRUE,
                                  !.retryable = TRUE]
      /\ late' = late \cup {t} /\ stmts' = <<a, b, c>>
  BY DEF StepTimeout
<1>4. /\ runner' \in Runners /\ runner'.pc = "synthesis"
      /\ (runner'.watched <=> runner.watched)
      /\ (runner'.cancelled => job = "cancelled")
  BY <1>0, <1>1, <1>3 DEF Runners
<1>5. Plain(<<a>>) /\ Plain(<<b>>) /\ Plain(<<c>>)
  <2>1. "failed" \in StepStatus
    BY DEF StepStatus
  <2>  QED  BY <1>2, <2>1, StepPlans
<1>  HIDE DEF a, b, c
<1>6. late' \subseteq Tasks
  BY <1>1, <1>2, <1>3
<1>7. Plain(stmts')
  BY <1>3, <1>5, PlainTuple
<1>  QED  BY <1>1, <1>4, <1>6, <1>7, CallbackKeepsInv

\* The cancellations.
LEMMA CancelKeepsInv ==
  ASSUME WorkflowInv, CancelWorkflow \/ \E t \in Tasks : CancelTask(t)
  PROVE  WorkflowInv'
<1>1. /\ phase = "serving" /\ stmts = <<>> /\ runner \in Runners
      /\ late \subseteq Tasks /\ rowVars' = rowVars /\ boot' = boot
      /\ phase' = phase /\ runner' = runner /\ late' = late
  BY DEF CancelWorkflow, CancelTask, Idle, WorkflowInv, ProcessTypeOK
<1>2. CASE CancelWorkflow
  <2>  DEFINE a == RowStmt("workflow_finish", "cancelled")
              b == RowStmt("cancel_steps", "none")
              c == RowStmt("job_cancel", "cancelled")
  <2>1. stmts' = <<a, b, c>>
    BY <1>2 DEF CancelWorkflow
  <2>2. "cancelled" \in TerminalWorkflow
    BY DEF TerminalWorkflow
  <2>3. Plain(<<a>>) /\ Plain(<<b>>) /\ Plain(<<c>>)
    BY <2>2, RowPlans
  <2>  HIDE DEF a, b, c
  <2>4. Plain(stmts')
    BY <2>1, <2>3, PlainTuple
  <2>  QED  BY <1>1, <2>4, CallbackKeepsInv
<1>3. ASSUME NEW t \in Tasks, CancelTask(t) PROVE WorkflowInv'
  <2>1. Plain(stmts')
    BY <1>3, StepPlans DEF CancelTask
  <2>  QED  BY <1>1, <2>1, CallbackKeepsInv
<1>  QED  BY <1>2, <1>3

\* A statement about the job row has its type, and what it does to the job.
LEMMA JobStatements ==
  /\ RowStmt("job_insert", "queued") \in Stmts
  /\ OpensJob(RowStmt("job_insert", "queued"))
  /\ \A to \in ClaimableJob : /\ RowStmt("job_retry", to) \in Stmts
                              /\ OpensJob(RowStmt("job_retry", to))
                              /\ EndsJob(RowStmt("job_retry", to))
  /\ \A to \in TerminalJob \ {"cancelled"} :
       EndsJob(RowStmt("job_finish", to))
BY StmtType, WritesValues, TaskNames DEF RowStmt, OpensJob, EndsJob

\* The job of the workflow is enqueued once, while no run can go on.
LEMMA EnqueueKeepsInv ==
  ASSUME WorkflowInv, EnqueueWorkflow
  PROVE  WorkflowInv'
<1>  DEFINE a == RowStmt("job_insert", "queued")
<1>1. /\ stmts' = <<a>> /\ job = "none" /\ rowVars' = rowVars
      /\ runner' = runner /\ late' = late /\ boot' = boot /\ phase' = phase
  BY DEF EnqueueWorkflow
<1>2. a \in Stmts  BY JobStatements
<1>  HIDE DEF a
<1>3. stmts' \in Seq(Stmts)  BY <1>1, <1>2
<1>4. RowsTypeOK'  BY <1>1 DEF WorkflowInv, RowsTypeOK, rowVars
<1>5. ProcessTypeOK'  BY <1>1, <1>3 DEF WorkflowInv, ProcessTypeOK
<1>6. RunnerFitsRows'  BY <1>1 DEF WorkflowInv, RunnerFitsRows, rowVars
<1>7. OpenJobIsFree'  BY <1>1 DEF WorkflowInv, OpenJobIsFree, rowVars
<1>8. RunningJobIsHeld'  BY <1>1 DEF RunningJobIsHeld, rowVars
<1>  QED  BY <1>4, <1>5, <1>6, <1>7, <1>8 DEF WorkflowInv

\* A claim uses one of the attempts that are left and starts the only run.
LEMMA ClaimKeepsInv ==
  ASSUME WorkflowInv, ClaimNextDueJob
  PROVE  WorkflowInv'
<1>  DEFINE a == RowStmt("workflow_run", "running")
<1>1. /\ job \in ClaimableJob /\ phase = "serving"
      /\ job' = "running" /\ attempts' = attempts + 1
      /\ runner' = [NoRunner EXCEPT !.pc = "loop", !.at = 1, !.watched = TRUE]
      /\ stmts' = <<a>> /\ late' = late /\ boot' = boot /\ phase' = phase
      /\ UNCHANGED <<workflow, step, stepTask, task, exec>>
  BY DEF ClaimNextDueJob, Idle
<1>2. attempts \in 0 .. MaxAttempts /\ attempts < MaxAttempts
      /\ MaxAttempts \in Nat
  BY <1>1, WorkflowAssumption DEF WorkflowInv, RowsTypeOK, OpenJobIsFree
<1>3. attempts' \in 0 .. MaxAttempts /\ attempts' \in AttemptNumber
  BY <1>1, <1>2 DEF AttemptNumber
<1>4. Plain(<<a>>)  BY RowPlans
<1>  HIDE DEF a
<1>5. /\ runner' \in Runners /\ runner'.pc = "loop" /\ runner'.watched
      /\ ~runner'.cancelled
  <2>1. 1 \in 0 .. StepCount + 1 /\ 0 \in 0 .. StepCount + 1
    BY WorkflowAssumption
  <2>  QED  BY <1>1, <2>1 DEF NoRunner, Runners
<1>6. RowsTypeOK'
  BY <1>1, <1>3 DEF WorkflowInv, RowsTypeOK, ActiveJob
<1>7. ProcessTypeOK'
  BY <1>1, <1>4, <1>5 DEF WorkflowInv, ProcessTypeOK, Plain
<1>8. RunnerFitsRows'
  BY <1>1, <1>3, <1>5 DEF RunnerFitsRows
<1>9. OpenJobIsFree'
  BY <1>1, <1>4 DEF OpenJobIsFree, Plain, ClaimableJob
<1>10. RunningJobIsHeld'
  BY <1>5 DEF RunningJobIsHeld
<1>  QED  BY <1>6, <1>7, <1>8, <1>9, <1>10 DEF WorkflowInv

\* What the handler writes after a run ends a running job, and retries it only
\* while an attempt is left.
LEMMA HandlerPlanType ==
  ASSUME runner \in Runners
  PROVE  /\ HandlerPlan \in Seq(Stmts)
         /\ (\E s \in Range(HandlerPlan) : OpensJob(s)) => attempts < MaxAttempts
         /\ ~runner.cancelled /\ ~JobCancelled =>
              \E s \in Range(HandlerPlan) : EndsJob(s)
<1>  DEFINE a == RowStmt("job_finish", "completed")
            b == RowStmt("job_retry", "retrying")
            c == RowStmt("job_finish", "failed")
<1>1. /\ b \in Stmts /\ EndsJob(a) /\ EndsJob(b) /\ EndsJob(c)
      /\ Plain(<<a>>) /\ Plain(<<c>>)
  BY JobStatements, RowPlans DEF ClaimableJob, TerminalJob
<1>2. HandlerPlan =
        IF runner.cancelled \/ JobCancelled THEN <<>>
        ELSE IF ~runner.failed THEN <<a>>
        ELSE IF runner.retryable /\ attempts < MaxAttempts THEN <<b>> ELSE <<c>>
  BY DEF HandlerPlan
<1>  HIDE DEF a, b, c
<1>3. /\ <<>> \in Seq(Stmts) /\ Range(<<>>) = {}
      /\ <<a>> \in Seq(Stmts) /\ Range(<<a>>) = {a} /\ ~OpensJob(a)
      /\ <<b>> \in Seq(Stmts) /\ Range(<<b>>) = {b}
      /\ <<c>> \in Seq(Stmts) /\ Range(<<c>>) = {c} /\ ~OpensJob(c)
  <2>1. /\ Range(<<>>) = {} /\ Range(<<a>>) = {a} /\ Range(<<b>>) = {b}
        /\ Range(<<c>>) = {c}
    BY TupleRange
  <2>2. <<>> \in Seq(Stmts) /\ <<b>> \in Seq(Stmts)
    BY <1>1
  <2>  QED  BY <1>1, <2>1, <2>2 DEF Plain
<1>4. CASE runner.cancelled \/ JobCancelled
  BY <1>2, <1>3, <1>4
<1>5. CASE ~(runner.cancelled \/ JobCancelled) /\ ~runner.failed
  BY <1>1, <1>2, <1>3, <1>5
<1>6. CASE ~(runner.cancelled \/ JobCancelled) /\ runner.failed
  <2>1. CASE runner.retryable /\ attempts < MaxAttempts
    <3>1. HandlerPlan = <<b>>  BY <1>2, <1>6, <2>1
    <3>  QED  BY <1>1, <1>3, <2>1, <3>1
  <2>2. CASE ~(runner.retryable /\ attempts < MaxAttempts)
    <3>1. HandlerPlan = <<c>>  BY <1>2, <1>6, <2>2
    <3>  QED  BY <1>1, <1>3, <3>1
  <2>  QED  BY <2>1, <2>2
<1>  QED  BY <1>4, <1>5, <1>6

\* runWorkflow returns and the handler goes on.
LEMMA SynthesisKeepsInv ==
  ASSUME WorkflowInv, SynthesisEnds
  PROVE  WorkflowInv'
<1>  DEFINE p == IF runner.cancelled THEN <<>>
                 ELSE << RowStmt("workflow_finish",
                           IF runner.failed THEN "failed" ELSE "completed") >>
            q == IF runner.watched THEN HandlerPlan ELSE <<>>
<1>1. /\ runner' = NoRunner /\ stmts' = p \o q /\ rowVars' = rowVars
      /\ late' = late /\ boot' = boot /\ phase' = phase
      /\ phase = "serving" /\ stmts = <<>> /\ runner.pc = "synthesis"
  BY DEF SynthesisEnds, Idle
<1>2. Plain(p)
  <2>1. "failed" \in TerminalWorkflow /\ "completed" \in TerminalWorkflow
    BY DEF TerminalWorkflow
  <2>  QED  BY <2>1, RowPlans, PlainTuple
<1>3. /\ q \in Seq(Stmts)
      /\ (\E s \in Range(q) : OpensJob(s)) => attempts < MaxAttempts
      /\ ~runner.cancelled /\ ~JobCancelled /\ runner.watched =>
           \E s \in Range(q) : EndsJob(s)
  <2>1. runner \in Runners
    BY DEF WorkflowInv, ProcessTypeOK
  <2>2. CASE runner.watched
    BY <2>1, <2>2, HandlerPlanType
  <2>3. CASE ~runner.watched
    BY <2>3, PlainTuple, TupleRange DEF Plain
  <2>  QED  BY <2>2, <2>3
<1>  HIDE DEF p, q
<1>4. stmts' \in Seq(Stmts) /\ Range(stmts') = Range(p) \cup Range(q)
  BY <1>1, <1>2, <1>3, ConcatRange DEF Plain
<1>5. NoRunner \in Runners /\ NoRunner.pc = "none" /\ ~NoRunner.cancelled
  <2>1. 0 \in 0 .. StepCount + 1
    BY WorkflowAssumption
  <2>  QED  BY <2>1 DEF NoRunner, Runners
<1>6. RowsTypeOK'
  BY <1>1 DEF WorkflowInv, RowsTypeOK, rowVars
<1>7. ProcessTypeOK'
  BY <1>1, <1>4, <1>5 DEF WorkflowInv, ProcessTypeOK
<1>8. RunnerFitsRows'
  BY <1>1, <1>5 DEF WorkflowInv, RunnerFitsRows
<1>9. OpenJobIsFree'
  <2>1. job \notin {"none"} \cup ClaimableJob
    BY <1>1 DEF WorkflowInv, OpenJobIsFree
  <2>2. runner'.pc = "none" /\ job' = job /\ attempts' = attempts
    BY <1>1, <1>5 DEF rowVars
  <2>3. (\E s \in Range(stmts') : OpensJob(s)) => attempts < MaxAttempts
    BY <1>2, <1>3, <1>4 DEF Plain
  <2>  QED  BY <2>1, <2>2, <2>3 DEF OpenJobIsFree
<1>10. RunningJobIsHeld'
  <2>1. ASSUME job = "running"
        PROVE  \E s \in Range(q) : EndsJob(s)
    <3>1. runner.watched
      BY <1>1, <2>1, TupleRange DEF WorkflowInv, RunningJobIsHeld
    <3>2. ~runner.cancelled
      BY <2>1 DEF WorkflowInv, RunnerFitsRows
    <3>  QED  BY <1>3, <2>1, <3>1, <3>2 DEF JobCancelled
  <2>  QED  BY <1>1, <1>4, <2>1 DEF RunningJobIsHeld, rowVars
<1>  QED  BY <1>6, <1>7, <1>8, <1>9, <1>10 DEF WorkflowInv

\* The timer of the whole workflow: whatever step it settles, it ends the job
\* for good, so the run it leaves behind is the last one.
LEMMA WorkflowTimeoutKeepsInv ==
  ASSUME WorkflowInv, WorkflowTimeout
  PROVE  WorkflowInv'
<1>  DEFINE a == RowStmt("workflow_finish", "failed")
            b == RowStmt("job_finish", "timed_out")
            q == IF JobCancelled THEN <<>> ELSE <<b>>
<1>1. /\ runner' = [runner EXCEPT !.watched = FALSE] /\ rowVars' = rowVars
      /\ late' = late /\ boot' = boot /\ phase' = phase
      /\ phase = "serving" /\ stmts = <<>> /\ runner.watched
      /\ runner \in Runners
  BY DEF WorkflowTimeout, Idle, WorkflowInv, ProcessTypeOK
<1>2. PICK plan : /\ stmts' = <<a>> \o plan \o q
                  /\ plan = <<>> \/ \E s \in Steps : plan = TimeoutPlan(s)
  BY DEF WorkflowTimeout
<1>3. Plain(<<a>>) /\ Plain(<<b>>) /\ Plain(<<>>) /\ EndsJob(b)
  BY RowPlans, PlainTuple, JobStatements DEF TerminalJob, TerminalWorkflow
<1>4. Plain(plan)
  <2>1. ASSUME NEW s \in Steps PROVE Plain(TimeoutPlan(s))
    <3>1. CASE stepTask[s] = 0
      BY <1>3, <3>1 DEF TimeoutPlan
    <3>2. CASE stepTask[s] # 0
      <4>  DEFINE c == Stmt("task_settle", <<stepTask[s], s>>, "failed")
                  d == Stmt("step_set", <<1, s>>, "failed")
      <4>1. stepTask[s] \in AttemptNumber
        BY <3>2, WorkflowAssumption
        DEF WorkflowInv, RowsTypeOK, AttemptNumber
      <4>2. <<stepTask[s], s>> \in Tasks /\ <<1, s>> \in Tasks
        BY <4>1, TaskNames
      <4>3. Plain(<<c>>) /\ Plain(<<d>>)
        BY <4>2, StepPlans DEF StepStatus
      <4>4. TimeoutPlan(s) = <<c, d>>
        BY <3>2 DEF TimeoutPlan
      <4>  HIDE DEF c, d
      <4>  QED  BY <4>3, <4>4, PlainTuple
    <3>  QED  BY <3>1, <3>2
  <2>  QED  BY <1>2, <1>3, <2>1
<1>5. Plain(q) /\ (~JobCancelled => b \in Range(q))
  <2>1. Range(<<b>>) = {b}  BY TupleRange
  <2>  QED  BY <1>3, <2>1
<1>  HIDE DEF a, b, q
<1>6. Plain(<<a>> \o plan)
  BY <1>3, <1>4, PlainConcat
<1>7. Plain(stmts') /\ Range(q) \subseteq Range(stmts')
  BY <1>2, <1>5, <1>6, PlainConcat
<1>8. runner.pc # "none"
  BY <1>1 DEF WorkflowInv, RunnerFitsRows, NoRunner
<1>9. runner.cancelled => job = "cancelled"
  BY DEF WorkflowInv, RunnerFitsRows
<1>10. /\ runner' \in Runners /\ runner'.pc = runner.pc
       /\ runner'.at = runner.at
       /\ (runner'.cancelled => job = "cancelled")
  BY <1>1, <1>9 DEF Runners
<1>11. RowsTypeOK'
  BY <1>1 DEF WorkflowInv, RowsTypeOK, rowVars
<1>12. ProcessTypeOK'
  BY <1>1, <1>7, <1>10 DEF WorkflowInv, ProcessTypeOK, Plain
<1>13. RunnerFitsRows'
  BY <1>1, <1>8, <1>10 DEF WorkflowInv, RunnerFitsRows, rowVars
<1>14. OpenJobIsFree'
  BY <1>1, <1>7, <1>10 DEF WorkflowInv, OpenJobIsFree, Plain, rowVars
<1>15. RunningJobIsHeld'
  BY <1>1, <1>3, <1>5, <1>7 DEF RunningJobIsHeld, rowVars, JobCancelled
<1>  QED  BY <1>11, <1>12, <1>13, <1>14, <1>15 DEF WorkflowInv

\* A crash: nothing in memory is left, and the first pass is ahead.
LEMMA CrashKeepsInv ==
  ASSUME WorkflowInv, Crash
  PROVE  WorkflowInv'
<1>1. /\ runner' = NoRunner /\ late' = {} /\ stmts' = <<>>
      /\ boot' = boot + 1 /\ boot < MaxBoots /\ phase' = "jobs"
      /\ rowVars' = rowVars
  BY DEF Crash
<1>2. NoRunner \in Runners /\ NoRunner.pc = "none" /\ ~NoRunner.cancelled
  <2>1. 0 \in 0 .. StepCount + 1
    BY WorkflowAssumption
  <2>  QED  BY <2>1 DEF NoRunner, Runners
<1>3. boot' \in 1 .. MaxBoots
  BY <1>1, WorkflowAssumption DEF WorkflowInv, ProcessTypeOK
<1>4. /\ stmts' \in Seq(Stmts) /\ \A s \in Range(stmts') : FALSE
  BY <1>1, PlainTuple, TupleRange DEF Plain
<1>5. RowsTypeOK'
  BY <1>1 DEF WorkflowInv, RowsTypeOK, rowVars
<1>6. ProcessTypeOK'
  BY <1>1, <1>2, <1>3, <1>4 DEF WorkflowInv, ProcessTypeOK, Phases
<1>7. RunnerFitsRows'
  BY <1>1, <1>2 DEF RunnerFitsRows
<1>8. OpenJobIsFree'
  BY <1>1, <1>2, <1>4 DEF WorkflowInv, OpenJobIsFree, rowVars
<1>9. RunningJobIsHeld'
  BY <1>1 DEF RunningJobIsHeld
<1>  QED  BY <1>5, <1>6, <1>7, <1>8, <1>9 DEF WorkflowInv

\* A recovery pass finds its rows, and leaves 'jobs' only when no job runs.
LEMMA RecoverKeepsInv ==
  ASSUME WorkflowInv, Recover
  PROVE  WorkflowInv'
<1>1. /\ phase # "serving" /\ stmts = <<>> /\ rowVars' = rowVars
      /\ runner' = runner /\ late' = late /\ boot' = boot
      /\ runner.pc = "none" /\ phase \in Phases
  BY DEF Recover, WorkflowInv, RunnerFitsRows, ProcessTypeOK
<1>2. job = "running" => phase = "jobs"
  BY <1>1, TupleRange DEF WorkflowInv, RunningJobIsHeld
<1>3. RowsTypeOK'
  BY <1>1 DEF WorkflowInv, RowsTypeOK, rowVars
<1>4. RunnerFitsRows'
  BY <1>1 DEF WorkflowInv, RunnerFitsRows, rowVars
<1>5. CASE PassWork(phase) = {} /\ phase' = NextPass[phase] /\ stmts' = stmts
  <2>1. phase' \in Phases
    BY <1>1, <1>5 DEF NextPass, Phases
  <2>2. job # "running"
    BY <1>2, <1>5 DEF PassWork
  <2>3. ProcessTypeOK'
    BY <1>1, <1>5, <2>1 DEF WorkflowInv, ProcessTypeOK
  <2>4. OpenJobIsFree'
    BY <1>1, <1>5 DEF WorkflowInv, OpenJobIsFree, rowVars
  <2>5. RunningJobIsHeld'
    BY <1>1, <2>2 DEF RunningJobIsHeld, rowVars
  <2>  QED  BY <1>3, <1>4, <2>3, <2>4, <2>5 DEF WorkflowInv
<1>6. CASE stmts' \in PassWork(phase) /\ phase' = phase
  <2>1. /\ stmts' \in Seq(Stmts)
        /\ (\E s \in Range(stmts') : OpensJob(s)) => attempts < MaxAttempts
    <3>1. CASE phase = "jobs"
      <4>  DEFINE a == RowStmt("job_retry", "queued")
                  b == RowStmt("job_finish", "failed")
                  c == RowStmt("workflow_finish", "failed")
      <4>1. stmts' = IF attempts < MaxAttempts THEN <<a>> ELSE <<b, c>>
        BY <1>6, <3>1 DEF PassWork, RecoverStaleJob
      <4>2. a \in Stmts /\ Plain(<<b>>) /\ Plain(<<c>>)
        BY JobStatements, RowPlans DEF ClaimableJob, TerminalJob, TerminalWorkflow
      <4>  HIDE DEF a, b, c
      <4>3. <<a>> \in Seq(Stmts) /\ Plain(<<b, c>>)
        BY <4>2, PlainTuple
      <4>  QED  BY <4>1, <4>3 DEF Plain
    <3>2. CASE phase = "executions"
      <4>1. PICK t \in Tasks : stmts' = << Stmt("exec_set", t, "failed") >>
        BY <1>6, <3>2 DEF PassWork, OrphanExecutions
      <4>  QED  BY <4>1, StepPlans DEF Plain
    <3>3. CASE phase = "tasks"
      <4>1. PICK t \in Tasks : stmts' = << Stmt("task_settle", t, "failed") >>
        BY <1>6, <3>3 DEF PassWork, OrphanTasks
      <4>  QED  BY <4>1, StepPlans DEF Plain
    <3>4. CASE phase = "steps"
      <4>1. PICK s \in Steps : stmts' = << Stmt("step_set", <<1, s>>, "failed") >>
        BY <1>6, <3>4 DEF PassWork, OrphanSteps
      <4>2. <<1, s>> \in Tasks /\ "failed" \in StepStatus
        BY TaskNames DEF StepStatus
      <4>  QED  BY <4>1, <4>2, StepPlans DEF Plain
    <3>5. CASE phase = "workflows"
      <4>1. stmts' = << RowStmt("workflow_finish", "failed") >>
        BY <1>6, <3>5 DEF PassWork
      <4>  QED  BY <4>1, RowPlans DEF Plain, TerminalWorkflow
    <3>  QED  BY <1>1, <3>1, <3>2, <3>3, <3>4, <3>5 DEF Phases
  <2>2. ProcessTypeOK'
    BY <1>1, <1>6, <2>1 DEF WorkflowInv, ProcessTypeOK
  <2>3. OpenJobIsFree'
    BY <1>1, <2>1 DEF WorkflowInv, OpenJobIsFree, rowVars
  <2>4. RunningJobIsHeld'
    BY <1>1, <1>2, <1>6 DEF RunningJobIsHeld, rowVars
  <2>  QED  BY <1>3, <1>4, <2>2, <2>3, <2>4 DEF WorkflowInv
<1>  QED  BY <1>5, <1>6 DEF Recover

-----------------------------------------------------------------------------
(* Statements.                                                             *)

\* The head of the running callback and what is left after it.
LEMMA HeadFacts ==
  ASSUME WorkflowInv, stmts # <<>>
  PROVE  /\ Head(stmts) \in Stmts /\ Head(stmts) \in Range(stmts)
         /\ To \in Writes[Head(stmts).op] /\ Head(stmts).op \in DOMAIN Writes
         /\ TaskId \in Tasks /\ TaskId[1] \in AttemptNumber /\ StepId \in Steps
         /\ Tail(stmts) \in Seq(Stmts)
         /\ Range(stmts) = {Head(stmts)} \cup Range(Tail(stmts))
<1>1. stmts \in Seq(Stmts)
  BY DEF WorkflowInv, ProcessTypeOK
<1>2. /\ Head(stmts) \in Stmts /\ Head(stmts) \in Range(stmts)
      /\ Tail(stmts) \in Seq(Stmts)
      /\ Range(stmts) = {Head(stmts)} \cup Range(Tail(stmts))
  BY <1>1, TailRange
<1>  QED  BY <1>2, StmtFields DEF To, TaskId, StepId

\* A statement that leaves the job row alone, and opens no job.
LEMMA RowStatementKeepsInv ==
  ASSUME WorkflowInv, stmts # <<>>, Head(stmts).op \notin DOMAIN JobLeaves,
         RowsTypeOK', job' = job, attempts' = attempts,
         runner' = runner, late' = late, boot' = boot, phase' = phase,
         stmts' \in Seq(Stmts),
         \A s \in Range(stmts') : OpensJob(s) => s \in Range(stmts),
         Range(Tail(stmts)) \subseteq Range(stmts')
  PROVE  WorkflowInv'
<1>1. ProcessTypeOK'
  BY DEF WorkflowInv, ProcessTypeOK
<1>2. RunnerFitsRows'
  BY DEF WorkflowInv, RunnerFitsRows
<1>3. OpenJobIsFree'
  BY DEF WorkflowInv, OpenJobIsFree
<1>4. DOMAIN JobLeaves = {"job_insert", "job_cancel", "job_finish", "job_retry"}
  BY DEF JobLeaves
<1>5. ASSUME NEW s \in Range(stmts), EndsJob(s)
      PROVE  s \in Range(stmts')
  BY <1>4, <1>5, HeadFacts DEF EndsJob
<1>6. RunningJobIsHeld'
  BY <1>5 DEF WorkflowInv, RunningJobIsHeld
<1>  QED  BY <1>1, <1>2, <1>3, <1>6 DEF WorkflowInv

\* The same when nothing but the rest of the callback is left.
LEMMA DoneKeepsInv ==
  ASSUME WorkflowInv, stmts # <<>>, Head(stmts).op \notin DOMAIN JobLeaves,
         Done, RowsTypeOK', job' = job, attempts' = attempts
  PROVE  WorkflowInv'
<1>1. /\ stmts' = Tail(stmts) /\ runner' = runner /\ late' = late
      /\ boot' = boot /\ phase' = phase
  BY DEF Done
<1>2. stmts' \in Seq(Stmts) /\ Range(stmts') \subseteq Range(stmts)
  BY <1>1, HeadFacts
<1>  QED  BY <1>1, <1>2, RowStatementKeepsInv

\* The statements on steps, tasks, executions, credits and the workflow.
LEMMA PlainStatementKeepsInv ==
  ASSUME WorkflowInv,
         \/ SetStep \/ LinkStep \/ SetTask \/ ReserveCredit \/ SetExecution
         \/ CompleteTask \/ RefundCredit \/ SetWorkflow
  PROVE  WorkflowInv'
<1>  DEFINE op == Head(stmts).op
<1>1. stmts # <<>> /\ Done /\ job' = job /\ attempts' = attempts
  BY DEF SetStep, LinkStep, SetTask, ReserveCredit, SetExecution, CompleteTask,
     RefundCredit, SetWorkflow, Executing, rowVars
<1>2. op \notin DOMAIN JobLeaves
  BY DEF SetStep, LinkStep, SetTask, ReserveCredit, SetExecution, CompleteTask,
     RefundCredit, SetWorkflow, Executing, JobLeaves
<1>3. /\ To \in Writes[op] /\ TaskId \in Tasks /\ StepId \in Steps
      /\ TaskId[1] \in 0 .. MaxAttempts
  BY <1>1, HeadFacts, WorkflowAssumption DEF AttemptNumber
<1>4. RowsTypeOK
  BY DEF WorkflowInv
<1>  HIDE DEF op
<1>5. CASE SetStep
  <2>1. To \in StepStatus
    BY <1>3, <1>5, WritesValues DEF SetStep, Executing, op
  <2>  QED  BY <1>3, <1>4, <1>5, <2>1, <1>1, <1>2, DoneKeepsInv
            DEF SetStep, RowsTypeOK, op
<1>6. CASE LinkStep
  BY <1>3, <1>4, <1>6, <1>1, <1>2, DoneKeepsInv DEF LinkStep, RowsTypeOK, op
<1>7. CASE SetTask
  <2>1. To \in TaskStatus
    BY <1>3, <1>7, WritesValues
    DEF SetTask, Executing, op, TaskStatus, NonTerminalTask
  <2>  QED  BY <1>3, <1>4, <1>7, <2>1, <1>1, <1>2, DoneKeepsInv
            DEF SetTask, RowsTypeOK, op
<1>8. CASE SetExecution
  <2>1. To \in ExecStatus
    BY <1>3, <1>8, WritesValues DEF SetExecution, Executing, op, ExecStatus
  <2>  QED  BY <1>3, <1>4, <1>8, <2>1, <1>1, <1>2, DoneKeepsInv
            DEF SetExecution, RowsTypeOK, op
<1>9. CASE CompleteTask
  <2>1. To \in TaskStatus
    BY <1>3, <1>9, WritesValues DEF CompleteTask, Executing, op, TaskStatus
  <2>  QED  BY <1>3, <1>4, <1>9, <2>1, <1>1, <1>2, DoneKeepsInv
            DEF CompleteTask, RowsTypeOK, op
<1>10. CASE SetWorkflow
  <2>1. To \in ActiveWorkflow \cup TerminalWorkflow
    BY <1>3, <1>10, WritesValues
    DEF SetWorkflow, Executing, op, ActiveWorkflow, TerminalWorkflow
  <2>  QED  BY <1>3, <1>4, <1>10, <2>1, <1>1, <1>2, DoneKeepsInv
            DEF SetWorkflow, RowsTypeOK, op
<1>11. CASE ReserveCredit \/ RefundCredit
  BY <1>4, <1>11, <1>1, <1>2, DoneKeepsInv
  DEF ReserveCredit, RefundCredit, RowsTypeOK, rowVars, op
<1>  QED  BY <1>5, <1>6, <1>7, <1>8, <1>9, <1>10, <1>11

\* The flip of a task, and the refund that follows it.
LEMMA SettleTaskKeepsInv ==
  ASSUME WorkflowInv, SettleTask
  PROVE  WorkflowInv'
<1>  DEFINE a == Stmt("credit_refund", TaskId, "none")
<1>1. /\ stmts # <<>> /\ Head(stmts).op = "task_settle"
      /\ job' = job /\ attempts' = attempts
      /\ UNCHANGED <<workflow, step, stepTask, exec>>
  BY DEF SettleTask, Executing
<1>2. Head(stmts).op \notin DOMAIN JobLeaves
  BY <1>1 DEF JobLeaves
<1>3. To \in TaskStatus /\ TaskId \in Tasks
  BY <1>1, HeadFacts, WritesValues DEF TaskStatus
<1>4. Plain(<<a>>)
  BY <1>3, StepPlans
<1>  HIDE DEF a
<1>5. CASE task' = [task EXCEPT ![TaskId] = To] /\ Then(a)
  <2>1. RowsTypeOK'
    BY <1>1, <1>3, <1>5 DEF WorkflowInv, RowsTypeOK
  <2>2. /\ stmts' = <<a>> \o Tail(stmts) /\ runner' = runner /\ late' = late
        /\ boot' = boot /\ phase' = phase
    BY <1>5 DEF Then
  <2>3. /\ stmts' \in Seq(Stmts)
        /\ Range(stmts') = Range(<<a>>) \cup Range(Tail(stmts))
    <3>1. <<a>> \in Seq(Stmts) /\ Tail(stmts) \in Seq(Stmts)
      BY <1>1, <1>4, HeadFacts DEF Plain
    <3>  QED  BY <2>2, <3>1, ConcatRange
  <2>4. \A s \in Range(stmts') : OpensJob(s) => s \in Range(stmts)
    BY <1>1, <1>4, <2>3, HeadFacts DEF Plain
  <2>  QED  BY <1>1, <1>2, <2>1, <2>2, <2>3, <2>4, RowStatementKeepsInv
<1>6. CASE task' = task /\ Done
  <2>1. RowsTypeOK'
    BY <1>1, <1>6 DEF WorkflowInv, RowsTypeOK
  <2>  QED  BY <1>1, <1>2, <1>6, <2>1, DoneKeepsInv
<1>  QED  BY <1>5, <1>6 DEF SettleTask, a

\* The cancellation of the steps, one by one.
LEMMA CancelStepsKeepsInv ==
  ASSUME WorkflowInv, CancelSteps
  PROVE  WorkflowInv'
<1>1. /\ stmts # <<>> /\ Head(stmts).op = "cancel_steps"
      /\ job' = job /\ attempts' = attempts
      /\ UNCHANGED <<workflow, stepTask, task, exec>>
  BY DEF CancelSteps, Executing
<1>2. Head(stmts).op \notin DOMAIN JobLeaves
  BY <1>1 DEF JobLeaves
<1>3. /\ RowsTypeOK /\ "cancelled" \in StepStatus /\ "skipped" \in StepStatus
      /\ stmts \in Seq(Stmts)
  BY DEF StepStatus, WorkflowInv, ProcessTypeOK
<1>4. ASSUME NEW s \in Steps, step' = [step EXCEPT ![s] = "cancelled"],
             stmts' = (IF stepTask[s] = 0 THEN <<>>
                       ELSE << Stmt("task_settle", <<stepTask[s], s>>,
                                    "cancelled") >>) \o stmts,
             UNCHANGED <<runner, late, boot, phase>>
      PROVE  WorkflowInv'
  <2>  DEFINE p == IF stepTask[s] = 0 THEN <<>>
                   ELSE << Stmt("task_settle", <<stepTask[s], s>>, "cancelled") >>
  <2>1. Plain(p)
    <3>1. CASE stepTask[s] = 0
      BY <3>1, PlainTuple
    <3>2. CASE stepTask[s] # 0
      <4>1. stepTask[s] \in AttemptNumber
        BY <1>3, <3>2, WorkflowAssumption DEF RowsTypeOK, AttemptNumber
      <4>2. <<stepTask[s], s>> \in Tasks
        BY <4>1, TaskNames
      <4>  QED  BY <3>2, <4>2, StepPlans
    <3>  QED  BY <3>1, <3>2
  <2>2. stmts' = p \o stmts
    BY <1>4
  <2>  HIDE DEF p
  <2>3. stmts' \in Seq(Stmts) /\ Range(stmts') = Range(p) \cup Range(stmts)
    BY <1>3, <2>1, <2>2, ConcatRange DEF Plain
  <2>4. \A r \in Range(stmts') : OpensJob(r) => r \in Range(stmts)
    BY <2>1, <2>3 DEF Plain
  <2>5. Range(Tail(stmts)) \subseteq Range(stmts')
    BY <1>1, <2>3, HeadFacts
  <2>6. RowsTypeOK'
    BY <1>1, <1>3, <1>4 DEF RowsTypeOK
  <2>7. runner' = runner /\ late' = late /\ boot' = boot /\ phase' = phase
    BY <1>4
  <2>  QED  BY <1>1, <1>2, <2>3, <2>4, <2>5, <2>6, <2>7, RowStatementKeepsInv
<1>5. ASSUME NEW s \in Steps, step' = [step EXCEPT ![s] = "skipped"],
             UNCHANGED procVars
      PROVE  WorkflowInv'
  <2>1. /\ runner' = runner /\ late' = late /\ boot' = boot /\ phase' = phase
        /\ stmts' = stmts
    BY <1>5 DEF procVars
  <2>2. RowsTypeOK'
    BY <1>1, <1>3, <1>5 DEF RowsTypeOK
  <2>3. Range(Tail(stmts)) \subseteq Range(stmts')
    BY <1>1, <2>1, HeadFacts
  <2>  QED  BY <1>1, <1>2, <1>3, <2>1, <2>2, <2>3, RowStatementKeepsInv
<1>6. CASE step' = step /\ Done
  <2>1. RowsTypeOK'
    BY <1>1, <1>3, <1>6 DEF RowsTypeOK
  <2>  QED  BY <1>1, <1>2, <1>6, <2>1, DoneKeepsInv
<1>  QED  BY <1>4, <1>5, <1>6 DEF CancelSteps

\* The statements on the job row.
LEMMA SetJobKeepsInv ==
  ASSUME WorkflowInv, SetJob
  PROVE  WorkflowInv'
<1>  DEFINE h == Head(stmts)
<1>1. /\ stmts # <<>> /\ h.op \in DOMAIN JobLeaves
      /\ job' = IF job \in JobLeaves[h.op] THEN To ELSE job
      /\ UNCHANGED <<workflow, step, stepTask, task, exec, attempts>>
      /\ stmts' = Tail(stmts) /\ runner' = runner /\ late' = late
      /\ boot' = boot /\ phase' = phase
  BY DEF SetJob, Executing, Done
<1>2. /\ To \in Writes[h.op] /\ h \in Range(stmts) /\ stmts' \in Seq(Stmts)
      /\ Range(stmts) = {h} \cup Range(stmts')
  BY <1>1, HeadFacts
<1>  HIDE DEF h
<1>3. RowsTypeOK /\ ProcessTypeOK
  BY DEF WorkflowInv
<1>4. \/ h.op = "job_insert" /\ JobLeaves[h.op] = {"none"} /\ To = "queued"
      \/ h.op = "job_retry" /\ JobLeaves[h.op] = {"running"} /\ To \in ClaimableJob
      \/ /\ h.op = "job_finish" /\ JobLeaves[h.op] = {"running"}
         /\ To \in TerminalJob \ {"cancelled"}
      \/ h.op = "job_cancel" /\ JobLeaves[h.op] = ActiveJob /\ To = "cancelled"
  BY <1>1, <1>2, WritesValues DEF JobLeaves
<1>5. job' = job \/ OpensJob(h) \/ job' \in TerminalJob
  BY <1>1, <1>4 DEF OpensJob, TerminalJob
<1>6. EndsJob(h) => job' # "running"
  BY <1>1, <1>4 DEF EndsJob, ClaimableJob, TerminalJob
<1>7. job' = "running" => job = "running"
  BY <1>1, <1>4 DEF ClaimableJob, TerminalJob
<1>8. RowsTypeOK'
  BY <1>1, <1>3, <1>4 DEF RowsTypeOK, ActiveJob, ClaimableJob, TerminalJob
<1>9. ProcessTypeOK'
  BY <1>1, <1>2, <1>3 DEF ProcessTypeOK
<1>10. RunnerFitsRows'
  <2>1. runner.cancelled => job' = "cancelled"
    BY <1>1, <1>4 DEF WorkflowInv, RunnerFitsRows, ActiveJob, ClaimableJob
  <2>  QED  BY <1>1, <2>1 DEF WorkflowInv, RunnerFitsRows
<1>11. OpenJobIsFree'
  <2>1. CASE OpensJob(h) \/ \E s \in Range(stmts') : OpensJob(s)
    BY <1>1, <1>2, <2>1 DEF WorkflowInv, OpenJobIsFree
  <2>2. CASE ~OpensJob(h) /\ job' = job /\ ~\E s \in Range(stmts') : OpensJob(s)
    BY <1>1, <2>2 DEF WorkflowInv, OpenJobIsFree
  <2>3. CASE job' \in TerminalJob /\ ~\E s \in Range(stmts') : OpensJob(s)
    BY <2>3 DEF OpenJobIsFree, TerminalJob, ClaimableJob
  <2>  QED  BY <1>5, <2>1, <2>2, <2>3
<1>12. RunningJobIsHeld'
  <2>1. ASSUME job' = "running", NEW s \in Range(stmts), EndsJob(s)
        PROVE  s \in Range(stmts')
    BY <1>2, <1>6, <2>1
  <2>  QED  BY <1>1, <1>7, <2>1 DEF WorkflowInv, RunningJobIsHeld
<1>  QED  BY <1>8, <1>9, <1>10, <1>11, <1>12 DEF WorkflowInv

-----------------------------------------------------------------------------
(* The invariant holds.                                                    *)

LEMMA WorkflowInvInit == Init => WorkflowInv
<1>  SUFFICES ASSUME Init PROVE WorkflowInv  OBVIOUS
<1>1. NoRunner \in Runners /\ NoRunner.pc = "none" /\ ~NoRunner.cancelled
  <2>1. 0 \in 0 .. StepCount + 1
    BY WorkflowAssumption
  <2>  QED  BY <2>1 DEF NoRunner, Runners
<1>2. 0 \in 0 .. MaxAttempts /\ 0 < MaxAttempts /\ 1 \in 1 .. MaxBoots
  BY WorkflowAssumption
<1>3. RowsTypeOK
  BY <1>2 DEF Init, RowsTypeOK, ActiveWorkflow, StepStatus, TaskStatus, ExecStatus
<1>4. ProcessTypeOK
  BY <1>1, <1>2, PlainTuple DEF Init, ProcessTypeOK, Plain, Phases
<1>5. RunnerFitsRows
  BY <1>1 DEF Init, RunnerFitsRows
<1>6. OpenJobIsFree
  BY <1>1, <1>2 DEF Init, OpenJobIsFree
<1>7. RunningJobIsHeld
  BY DEF Init, RunningJobIsHeld
<1>  QED  BY <1>3, <1>4, <1>5, <1>6, <1>7 DEF WorkflowInv

LEMMA WorkflowInvStep ==
  ASSUME WorkflowInv, [Next]_vars
  PROVE  WorkflowInv'
<1>1. CASE UNCHANGED vars
  <2>1. UNCHANGED <<workflow, step, stepTask, task, exec, job, attempts>>
        /\ UNCHANGED <<runner, late, stmts, boot, phase>>
    BY <1>1 DEF vars, rowVars, procVars
  <2>  QED  BY <2>1 DEF WorkflowInv, RowsTypeOK, ProcessTypeOK, RunnerFitsRows,
            OpenJobIsFree, RunningJobIsHeld
<1>2. CASE Loop
  BY <1>2, LoopKeepsInv
<1>3. CASE EnqueueWorkflow
  BY <1>3, EnqueueKeepsInv
<1>4. CASE ClaimNextDueJob
  BY <1>4, ClaimKeepsInv
<1>5. ASSUME NEW t \in Tasks, DispatchSucceeds(t) \/ DispatchFails(t)
      PROVE  WorkflowInv'
  BY <1>5, DispatchKeepsInv
<1>6. CASE CancelWorkflow \/ \E t \in Tasks : CancelTask(t)
  BY <1>6, CancelKeepsInv
<1>7. CASE StepTimeout
  BY <1>7, StepTimeoutKeepsInv
<1>8. CASE WorkflowTimeout
  BY <1>8, WorkflowTimeoutKeepsInv
<1>9. CASE SynthesisEnds
  BY <1>9, SynthesisKeepsInv
<1>10. CASE Statement
  BY <1>10, PlainStatementKeepsInv, SettleTaskKeepsInv, CancelStepsKeepsInv,
     SetJobKeepsInv DEF Statement
<1>11. CASE Crash
  BY <1>11, CrashKeepsInv
<1>12. CASE Recover
  BY <1>12, RecoverKeepsInv
<1>  QED  BY <1>1, <1>2, <1>3, <1>4, <1>5, <1>6, <1>7, <1>8, <1>9, <1>10,
          <1>11, <1>12 DEF Next

LEMMA WorkflowInvariant == Spec => []WorkflowInv
BY WorkflowInvInit, WorkflowInvStep, PTL DEF Spec

-----------------------------------------------------------------------------
(* The workflow implements the ledger.                                     *)

LEMMA WorkflowStepUsesLedger ==
  ASSUME WorkflowInv, [Next]_vars
  PROVE  [LedgerNext]_ledgerVars
<1>1. CASE UNCHANGED vars
  BY <1>1 DEF vars
<1>2. CASE Loop
  BY <1>2 DEF Loop, LeaveLoop, ResumeStep, SkipStep, RefuseStep, DispatchStep,
     RunnerGoes
<1>3. CASE EnqueueWorkflow \/ ClaimNextDueJob \/ StepTimeout \/ WorkflowTimeout
           \/ SynthesisEnds \/ CancelWorkflow \/ Crash \/ Recover
  BY <1>3 DEF EnqueueWorkflow, ClaimNextDueJob, StepTimeout, WorkflowTimeout,
     SynthesisEnds, CancelWorkflow, Crash, Recover, ledgerVars
<1>4. ASSUME NEW t \in Tasks,
             DispatchSucceeds(t) \/ DispatchFails(t) \/ CancelTask(t)
      PROVE  UNCHANGED ledgerVars
  BY <1>4 DEF DispatchSucceeds, DispatchFails, DispatchSettles, CancelTask,
     ledgerVars
<1>5. CASE Statement
  <2>1. CASE ReserveCredit \/ RefundCredit
    <3>1. TaskId \in Tasks
      BY <2>1, HeadFacts DEF ReserveCredit, RefundCredit, Executing
    <3>  QED  BY <2>1, <3>1 DEF ReserveCredit, RefundCredit, LedgerNext
  <2>2. CASE SetStep \/ LinkStep \/ SetTask \/ SetExecution \/ CompleteTask
             \/ SettleTask \/ SetWorkflow \/ SetJob \/ CancelSteps
    BY <2>2 DEF SetStep, LinkStep, SetTask, SetExecution, CompleteTask,
       SettleTask, SetWorkflow, SetJob, CancelSteps, ledgerVars
  <2>  QED  BY <1>5, <2>1, <2>2 DEF Statement
<1>  QED  BY <1>1, <1>2, <1>3, <1>4, <1>5 DEF Next

\* A workflow moves credits by consumeTaskCredit and refundTaskCredit only,
\* whatever it is cut off by (workflow-runner.ts, queue.ts, recovery.ts).
LEMMA WorkflowImplementsLedger == Spec => LedgerSpec
<1>1. Init => LedgerInit  BY DEF Init
<1>  QED  BY <1>1, WorkflowInvariant, WorkflowStepUsesLedger, PTL
          DEF Spec, LedgerSpec

\* So no timeout, retry, cancellation or crash of a workflow creates or loses
\* a credit: each is on the account or held by exactly one task.
THEOREM WorkflowConservesCredits == Spec => []Conservation
BY WorkflowImplementsLedger, LedgerConserves, PTL

\* Rows, memory and pending statements keep their types; the job never counts
\* more attempts than max_attempts.
THEOREM WorkflowTypeCorrect == Spec => []WorkflowTypeOK
<1>1. Spec => []LedgerTypeOK
  BY WorkflowImplementsLedger, LedgerTypeCorrect, PTL
<1>2. LedgerTypeOK /\ WorkflowInv => WorkflowTypeOK
  BY DEF WorkflowInv, ProcessTypeOK, WorkflowTypeOK
<1>  QED  BY <1>1, <1>2, WorkflowInvariant, PTL

\* A workflow never runs twice at once, although nothing stops the run that
\* lost to the timer of the whole workflow (queue.ts:395-448).
THEOREM WorkflowRunsOnce == Spec => []OneRunAtATime
<1>1. WorkflowInv => OneRunAtATime
  BY DEF WorkflowInv, OpenJobIsFree, OneRunAtATime
<1>  QED  BY <1>1, WorkflowInvariant, PTL

\* When the server is idle no job is left running without a run that its
\* handler awaits (queue.ts:320-353, recovery.ts:43-75).
THEOREM WorkflowJobNotStranded == Spec => []NoStrandedJob
<1>1. WorkflowInv => NoStrandedJob
  BY TupleRange DEF WorkflowInv, RunningJobIsHeld, NoStrandedJob, Idle
<1>  QED  BY <1>1, WorkflowInvariant, PTL

-----------------------------------------------------------------------------
(* The job row implements JobLifecycle.                                    *)

\* A step of the workflow is a step of the abstract job or a stutter.
LEMMA JobStepRefines ==
  ASSUME WorkflowInv, [Next]_vars
  PROVE  [Lifecycle!LifecycleNext]_(Lifecycle!lifecycleVars)
<1>  DEFINE j == "workflow"
            st == [k \in {"workflow"} |-> job]
            us == [k \in {"workflow"} |-> attempts]
<1>  USE DEF Lifecycle!Become
<1>1. ASSUME job' = job, attempts' = attempts
      PROVE  UNCHANGED Lifecycle!lifecycleVars
  BY <1>1 DEF Lifecycle!lifecycleVars
<1>2. /\ st[j] = job /\ us[j] = attempts
      /\ \A s : job' = s => st' = [st EXCEPT ![j] = s]
      /\ attempts' = attempts => us' = us
      /\ attempts' = attempts + 1 => us' = [us EXCEPT ![j] = @ + 1]
  OBVIOUS
<1>  HIDE DEF st, us
<1>3. CASE ClaimNextDueJob
  <2>1. /\ job \in ClaimableJob /\ job' = "running" /\ attempts' = attempts + 1
        /\ attempts < MaxAttempts
    BY <1>3 DEF ClaimNextDueJob, WorkflowInv, OpenJobIsFree
  <2>2. Lifecycle!Claim(j)
    BY <1>2, <2>1 DEF Lifecycle!Claim, Lifecycle!Waiting, ClaimableJob, st, us
  <2>  QED  BY <2>2 DEF Lifecycle!LifecycleNext
<1>4. CASE SetJob /\ job' # job
  <2>  DEFINE h == Head(stmts)
  <2>1. /\ stmts # <<>> /\ h.op \in DOMAIN JobLeaves
        /\ job \in JobLeaves[h.op] /\ job' = To /\ attempts' = attempts
    BY <1>4 DEF SetJob, Executing
  <2>2. To \in Writes[h.op] /\ h \in Range(stmts)
    BY <2>1, HeadFacts
  <2>3. OpensJob(h) => attempts < MaxAttempts
    BY <2>2 DEF WorkflowInv, OpenJobIsFree
  <2>  HIDE DEF h
  <2>4. CASE h.op = "job_insert"
    <3>1. job = "none" /\ job' = "queued"
      BY <2>1, <2>2, <2>4, WritesValues DEF JobLeaves
    <3>2. Lifecycle!Enqueue(j)
      BY <1>2, <2>1, <3>1 DEF Lifecycle!Enqueue, st, us
    <3>  QED  BY <3>2 DEF Lifecycle!LifecycleNext
  <2>5. CASE h.op = "job_retry"
    <3>1. job = "running" /\ job' \in ClaimableJob /\ attempts < MaxAttempts
      BY <2>1, <2>2, <2>3, <2>5, WritesValues DEF JobLeaves, OpensJob
    <3>2. Lifecycle!BackToQueue(j)
      BY <1>2, <2>1, <3>1
      DEF Lifecycle!BackToQueue, Lifecycle!Waiting, ClaimableJob, st, us
    <3>  QED  BY <3>2 DEF Lifecycle!LifecycleNext
  <2>6. CASE h.op = "job_finish"
    <3>1. job = "running" /\ job' \in TerminalJob \ {"cancelled"}
      BY <2>1, <2>2, <2>6, WritesValues DEF JobLeaves
    <3>2. Lifecycle!Finish(j)
      BY <1>2, <2>1, <3>1
      DEF Lifecycle!Finish, Lifecycle!Final, TerminalJob, st, us
    <3>  QED  BY <3>2 DEF Lifecycle!LifecycleNext
  <2>7. CASE h.op = "job_cancel"
    <3>1. job \in ActiveJob /\ job' = "cancelled"
      BY <2>1, <2>2, <2>7, WritesValues DEF JobLeaves
    <3>2. Lifecycle!Cancel(j)
      BY <1>2, <2>1, <3>1 DEF Lifecycle!Cancel, Lifecycle!Active,
         Lifecycle!Waiting, ActiveJob, ClaimableJob, st, us
    <3>  QED  BY <3>2 DEF Lifecycle!LifecycleNext
  <2>  QED  BY <2>1, <2>4, <2>5, <2>6, <2>7 DEF JobLeaves
<1>5. CASE SetJob /\ job' = job
  BY <1>1, <1>5 DEF SetJob
<1>6. CASE UNCHANGED vars
  BY <1>1, <1>6 DEF vars, rowVars
<1>7. CASE Loop
  BY <1>1, <1>7 DEF Loop, LeaveLoop, ResumeStep, SkipStep, RefuseStep,
     DispatchStep, RunnerGoes, rowVars
<1>8. CASE EnqueueWorkflow \/ StepTimeout \/ WorkflowTimeout \/ SynthesisEnds
           \/ CancelWorkflow \/ Crash \/ Recover
  BY <1>1, <1>8 DEF EnqueueWorkflow, StepTimeout, WorkflowTimeout,
     SynthesisEnds, CancelWorkflow, Crash, Recover, rowVars
<1>9. ASSUME NEW t \in Tasks,
             DispatchSucceeds(t) \/ DispatchFails(t) \/ CancelTask(t)
      PROVE  UNCHANGED Lifecycle!lifecycleVars
  BY <1>1, <1>9 DEF DispatchSucceeds, DispatchFails, DispatchSettles,
     CancelTask, rowVars
<1>10. CASE SetStep \/ LinkStep \/ SetTask \/ ReserveCredit \/ SetExecution
            \/ CompleteTask \/ SettleTask \/ RefundCredit \/ SetWorkflow
            \/ CancelSteps
  BY <1>1, <1>10 DEF SetStep, LinkStep, SetTask, ReserveCredit, SetExecution,
     CompleteTask, SettleTask, RefundCredit, SetWorkflow, CancelSteps, rowVars
<1>  QED  BY <1>3, <1>4, <1>5, <1>6, <1>7, <1>8, <1>9, <1>10 DEF Next, Statement

\* The job of a workflow is created once, claimed within its budget, and never
\* leaves a terminal status, whoever writes it.
THEOREM WorkflowJobImplementsLifecycle == Spec => JobRowFollowsLifecycle
<1>1. Init => Lifecycle!LifecycleInit
  BY DEF Init, Lifecycle!LifecycleInit
<1>  QED
  BY <1>1, WorkflowInvariant, JobStepRefines, PTL
     DEF Spec, JobRowFollowsLifecycle, Lifecycle!LifecycleSpec

-----------------------------------------------------------------------------
(* The statements a callback has left, and their order.                    *)

Pending(op) == \E r \in Range(stmts) : r.op = op

\* What a dispatch writes until it awaits its work, and what of it needs a run
\* that was not cancelled.
DispatchOps == {"step_set", "task_insert", "credit_consume", "exec_insert",
                "step_link", "exec_set", "task_run"}
SetUp       == {"task_insert", "credit_consume", "step_link", "task_run"}

Live(t)           == task[t] \in NonTerminalTask
StepsDone         == {s \in Steps : step[s] = "completed"}
PendingFor(op, t) == \E r \in Range(stmts) : r.op = op /\ r.task = t
CompletesStep(r)  == r.op = "step_set" /\ r.to = "completed"
StepToComplete(s) == \E r \in Range(stmts) : CompletesStep(r) /\ r.task[2] = s
StepToRun(s) ==
  \E r \in Range(stmts) : r.op = "step_set" /\ r.to = "running" /\ r.task[2] = s

\* Where statements stand in a callback: a completed step is the last thing it
\* writes, and so is the job row of a cancellation, right behind the steps; a
\* credit is reserved for a task that was inserted.
Before(r, s) ==
  /\ ~CompletesStep(r) /\ r.op # "job_cancel"
  /\ r.op = "cancel_steps" => s.op = "job_cancel"
  /\ r.op = "credit_consume" => s.op # "task_insert"
Ordered(q) == \A i, j \in DOMAIN q : i < j => Before(q[i], q[j])

LEMMA OrderedTail ==
  ASSUME NEW q \in Seq(Stmts), q # <<>>, Ordered(q)
  PROVE  /\ Ordered(Tail(q))
         /\ \A r \in Range(Tail(q)) : Before(Head(q), r)
<1>1. /\ Tail(q) \in Seq(Stmts) /\ Len(Tail(q)) = Len(q) - 1
      /\ \A i \in 1 .. Len(Tail(q)) : Tail(q)[i] = q[i + 1]
  BY HeadTailProperties
<1>2. /\ DOMAIN q = 1 .. Len(q) /\ Len(q) \in Nat \ {0} /\ Head(q) = q[1]
      /\ DOMAIN Tail(q) = 1 .. Len(Tail(q)) /\ Len(Tail(q)) \in Nat
  BY <1>1, LenProperties, EmptySeq
<1>3. Ordered(Tail(q))
  <2>  SUFFICES ASSUME NEW i \in DOMAIN Tail(q), NEW j \in DOMAIN Tail(q), i < j
                PROVE  Before(Tail(q)[i], Tail(q)[j])
    BY DEF Ordered
  <2>1. /\ i + 1 \in DOMAIN q /\ j + 1 \in DOMAIN q /\ i + 1 < j + 1
        /\ Tail(q)[i] = q[i + 1] /\ Tail(q)[j] = q[j + 1]
    BY <1>1, <1>2
  <2>  QED  BY <2>1 DEF Ordered
<1>4. ASSUME NEW r \in Range(Tail(q)) PROVE Before(Head(q), r)
  <2>1. PICK i \in DOMAIN Tail(q) : r = Tail(q)[i]
    BY DEF Range
  <2>2. i + 1 \in DOMAIN q /\ 1 \in DOMAIN q /\ 1 < i + 1 /\ r = q[i + 1]
    BY <1>1, <1>2, <2>1
  <2>  QED  BY <1>2, <2>2 DEF Ordered
<1>  QED  BY <1>3, <1>4

LEMMA OrderedConcat ==
  ASSUME NEW S, NEW p \in Seq(S), NEW q \in Seq(S), Ordered(p), Ordered(q),
         \A r \in Range(p), s \in Range(q) : Before(r, s)
  PROVE  Ordered(p \o q)
<1>1. /\ Len(p \o q) = Len(p) + Len(q)
      /\ \A i \in 1 .. Len(p) + Len(q) :
           (p \o q)[i] = IF i <= Len(p) THEN p[i] ELSE q[i - Len(p)]
      /\ p \o q \in Seq(S)
  BY ConcatProperties
<1>2. /\ DOMAIN p = 1 .. Len(p) /\ DOMAIN q = 1 .. Len(q)
      /\ DOMAIN (p \o q) = 1 .. Len(p) + Len(q)
      /\ Len(p) \in Nat /\ Len(q) \in Nat
  BY <1>1, LenProperties
<1>  SUFFICES ASSUME NEW i \in DOMAIN (p \o q), NEW j \in DOMAIN (p \o q), i < j
              PROVE  Before((p \o q)[i], (p \o q)[j])
  BY DEF Ordered
<1>3. CASE j <= Len(p)
  <2>1. /\ i \in DOMAIN p /\ j \in DOMAIN p
        /\ (p \o q)[i] = p[i] /\ (p \o q)[j] = p[j]
    BY <1>1, <1>2, <1>3
  <2>  QED  BY <2>1 DEF Ordered
<1>4. CASE i <= Len(p) /\ ~(j <= Len(p))
  <2>1. /\ i \in DOMAIN p /\ j - Len(p) \in DOMAIN q
        /\ (p \o q)[i] = p[i] /\ (p \o q)[j] = q[j - Len(p)]
    BY <1>1, <1>2, <1>4
  <2>2. p[i] \in Range(p) /\ q[j - Len(p)] \in Range(q)
    BY <2>1 DEF Range
  <2>  QED  BY <2>1, <2>2
<1>5. CASE ~(i <= Len(p))
  <2>1. /\ i - Len(p) \in DOMAIN q /\ j - Len(p) \in DOMAIN q
        /\ i - Len(p) < j - Len(p)
        /\ (p \o q)[i] = q[i - Len(p)] /\ (p \o q)[j] = q[j - Len(p)]
    BY <1>1, <1>2, <1>5
  <2>  QED  BY <2>1 DEF Ordered
<1>  QED  BY <1>2, <1>3, <1>4, <1>5

\* A plan of statements that may stand anywhere.
LEMMA OrderedFree ==
  ASSUME NEW q,
         \A r \in Range(q) :
           /\ ~CompletesStep(r)
           /\ r.op \notin {"job_cancel", "cancel_steps", "credit_consume"}
  PROVE  Ordered(q)
<1>1. \A i \in DOMAIN q : q[i] \in Range(q)
  BY DEF Range
<1>  QED  BY <1>1 DEF Ordered, Before

LEMMA OrderedTuples ==
  /\ Ordered(<<>>)
  /\ \A a : Ordered(<<a>>)
  /\ \A a, b : Before(a, b) => Ordered(<<a, b>>)
  /\ \A a, b, c : Before(a, b) /\ Before(a, c) /\ Before(b, c)
                  => Ordered(<<a, b, c>>)
<1>1. Ordered(<<>>)  BY DEF Ordered
<1>2. ASSUME NEW a PROVE Ordered(<<a>>)  BY DEF Ordered
<1>3. ASSUME NEW a, NEW b, Before(a, b) PROVE Ordered(<<a, b>>)
  <2>1. /\ DOMAIN <<a, b>> = {1, 2}
        /\ <<a, b>>[1] = a /\ <<a, b>>[2] = b
    OBVIOUS
  <2>  QED  BY <1>3, <2>1 DEF Ordered
<1>4. ASSUME NEW a, NEW b, NEW c, Before(a, b), Before(a, c), Before(b, c)
      PROVE  Ordered(<<a, b, c>>)
  <2>1. /\ DOMAIN <<a, b, c>> = {1, 2, 3} /\ <<a, b, c>>[1] = a
        /\ <<a, b, c>>[2] = b /\ <<a, b, c>>[3] = c
    OBVIOUS
  <2>  QED  BY <1>4, <2>1 DEF Ordered
<1>  QED  BY <1>1, <1>2, <1>3, <1>4

\* What a dispatch leaves to execute: all for the task of its step, and the task
\* is inserted, linked and its step marked running, in an order that fits.
LEMMA DispatchPlan ==
  ASSUME NEW s \in Steps, DispatchStep(s), NEW t, t = <<attempts, s>>
  PROVE  /\ Ordered(stmts')
         /\ \A r \in Range(stmts') :
              /\ r.op \in DispatchOps /\ r.task = t
              /\ r.op = "step_set" => r.to = "running"
         /\ PendingFor("task_insert", t)' /\ Pending("step_link")' /\ StepToRun(s)'
<1>  DEFINE a == Stmt("step_set", t, "running")
            b == Stmt("task_insert", t, "created")
            c == Stmt("credit_consume", t, "none")
            d == Stmt("exec_insert", t, "queued")
            e == Stmt("step_link", t, "none")
            f == Stmt("exec_set", t, "running")
            g == Stmt("task_run", t, "running")
            p == IF Unlimited THEN <<>> ELSE <<c>>
            all == {a, b, c, d, e, f, g}
            front == <<a, b>>
            back  == <<d, e, f, g>>
<1>1. stmts' = (front \o p) \o back
  BY DEF DispatchStep
<1>2. \A r \in all : /\ r.op \in DispatchOps /\ r.task = t
                     /\ r.op = "step_set" => r.to = "running"
  BY DEF Stmt, DispatchOps
<1>3. /\ a.op = "step_set" /\ a.to = "running" /\ b.op = "task_insert"
      /\ c.op = "credit_consume" /\ d.op = "exec_insert" /\ e.op = "step_link"
      /\ f.op = "exec_set" /\ g.op = "task_run" /\ t[2] = s
  BY DEF Stmt
<1>  HIDE DEF a, b, c, d, e, f, g
<1>4. /\ a \in all /\ b \in all /\ c \in all /\ d \in all
      /\ e \in all /\ f \in all /\ g \in all
  OBVIOUS
<1>5. /\ Range(front) = {a, b} /\ Range(back) = {d, e, f, g}
      /\ p = <<>> \/ p = <<c>>
  BY TupleRange
<1>6. Range(p) \subseteq {c} /\ Ordered(p)
  BY <1>5, TupleRange, OrderedTuples
<1>  HIDE DEF all
<1>7. front \in Seq(all) /\ back \in Seq(all)
  BY <1>4
<1>8. p \in Seq(all)
  BY <1>4
<1>  HIDE DEF front, back, p
<1>9. Ordered(front) /\ Ordered(back)
  BY <1>3, <1>5, OrderedFree DEF CompletesStep
<1>10. /\ \A x \in Range(front), y \in Range(p) : Before(x, y)
       /\ \A x \in Range(front) \cup Range(p), y \in Range(back) : Before(x, y)
  BY <1>3, <1>5, <1>6 DEF Before, CompletesStep
<1>11. /\ front \o p \in Seq(all)
       /\ Range(front \o p) = Range(front) \cup Range(p)
  BY <1>7, <1>8, ConcatRange
<1>12. Ordered(front \o p)
  BY <1>6, <1>7, <1>8, <1>9, <1>10, OrderedConcat
<1>13. Ordered(stmts')
  BY <1>1, <1>7, <1>9, <1>10, <1>11, <1>12, OrderedConcat
<1>14. /\ stmts' \in Seq(all)
       /\ Range(stmts') = Range(front \o p) \cup Range(back)
  <2>1. PICK u : u = front \o p
    OBVIOUS
  <2>2. u \in Seq(all) /\ back \in Seq(all)
    BY <1>7, <1>11, <2>1
  <2>3. /\ u \o back \in Seq(all)
        /\ Range(u \o back) = Range(u) \cup Range(back)
    BY <2>2, ConcatRange
  <2>4. stmts' = u \o back
    BY <1>1, <2>1
  <2>  QED  BY <2>1, <2>3, <2>4
<1>15. \A r \in Range(stmts') : r \in all
  BY <1>14, RangeOfSeq
<1>16. a \in Range(stmts') /\ b \in Range(stmts') /\ e \in Range(stmts')
  BY <1>5, <1>11, <1>14
<1>17. a.task = t /\ b.task = t
  BY <1>2, <1>4
<1>  QED  BY <1>2, <1>3, <1>13, <1>15, <1>16, <1>17
          DEF PendingFor, Pending, StepToRun

-----------------------------------------------------------------------------
(* How the workflow and its job settle together.                           *)

\* When s comes to settle the job, the workflow is settled, or will be by the
\* statement before s; only recovery writes the job row first.
WorkflowFirst(s) ==
  /\ \/ workflow \in TerminalWorkflow
     \/ Executing("workflow_finish")
     \/ /\ phase = "jobs" /\ s.op = "job_finish" /\ s.to = "failed"
        /\ attempts = MaxAttempts /\ Pending("workflow_finish")
  /\ s.op = "job_finish" /\ s.to = "completed" =>
       \/ workflow = "completed"
       \/ /\ Executing("workflow_finish") /\ To = "completed"
          /\ workflow \in ActiveWorkflow

\* What its callback knew when it left the statement s still holds.
Settles(s) ==
  /\ s.op = "workflow_run" =>
       job = "running" /\ \A r \in Range(stmts) : r.op = "workflow_run"
  /\ s.op \in SetUp =>
       job # "cancelled" /\ \A r \in Range(stmts) : r.op \in DispatchOps
  /\ s.op = "workflow_finish" =>
       \/ runner.pc = "none" \/ ~runner.watched \/ job # "running"
       \/ Pending("job_cancel")
  /\ s.op = "job_cancel" => runner.pc # "loop"
  /\ s.op = "job_finish" =>
       ~runner.watched /\ (s.to = "timed_out" \/ runner.pc = "none")
  /\ s.op \in {"job_finish", "job_cancel"} => WorkflowFirst(s)

\* A run goes on while its job runs, or is cancelled or timed out behind its
\* back; the workflow it runs is marked running.
RunnerFitsJob ==
  /\ runner.pc # "none" => job \in {"running", "cancelled", "timed_out"}
  /\ runner.watched => job # "timed_out"
  /\ runner.pc = "loop" => job # "cancelled"
  /\ runner.pc # "none" /\ runner.watched /\ job = "running" =>
       workflow = "running" \/ Pending("workflow_run") \/ Pending("job_cancel")

\* A settled job leaves a workflow that is settled, or that recovery settles,
\* or lost; a workflow stays planned only while each attempt crashed.
JobFitsWorkflow ==
  /\ job \in TerminalJob =>
       \/ workflow \in TerminalWorkflow \/ LostWorkflow
       \/ phase # "serving" /\ workflow = "running"
       \/ /\ phase = "jobs" /\ job = "failed" /\ attempts = MaxAttempts
          /\ Pending("workflow_finish")
  /\ job = "completed" => workflow = "completed"
  /\ workflow = "planned" =>
       attempts < boot \/ (attempts = boot /\ Pending("workflow_run"))

SettleInv == /\ \A s \in Range(stmts) : Settles(s)
             /\ RunnerFitsJob /\ JobFitsWorkflow

\* What a statement does to the rows of the workflow and its job, to credits
\* and to the rest of its callback.
LEMMA StatementShape ==
  ASSUME WorkflowInv, Statement
  PROVE  /\ stmts # <<>> /\ Head(stmts) \in Stmts
         /\ Head(stmts) \in Range(stmts)
         /\ To = Head(stmts).to /\ To \in Writes[Head(stmts).op]
         /\ runner' = runner /\ late' = late /\ boot' = boot /\ phase' = phase
         /\ attempts' = attempts
         /\ Range(stmts) = {Head(stmts)} \cup Range(Tail(stmts))
         /\ Range(Tail(stmts)) \subseteq Range(stmts')
         /\ \A s \in Range(stmts') :
              \/ s \in Range(Tail(stmts))
              \/ s.op \in {"credit_refund", "task_settle"}
              \/ s = Head(stmts) /\ s.op = "cancel_steps"
         /\ Head(stmts).op \notin {"task_settle", "cancel_steps"} =>
              stmts' = Tail(stmts)
         /\ Head(stmts).op # "credit_consume" => consumedFrom' = consumedFrom
<1>  DEFINE h == Head(stmts)
<1>1. stmts # <<>> /\ attempts' = attempts
  BY DEF Statement, SetStep, LinkStep, SetTask, ReserveCredit, SetExecution,
     CompleteTask, SettleTask, RefundCredit, SetWorkflow, SetJob, CancelSteps,
     Executing, rowVars
<1>2. /\ h \in Stmts /\ h \in Range(stmts) /\ To \in Writes[h.op]
      /\ TaskId \in Tasks /\ Tail(stmts) \in Seq(Stmts) /\ stmts \in Seq(Stmts)
      /\ Range(stmts) = {h} \cup Range(Tail(stmts))
  BY <1>1, HeadFacts DEF WorkflowInv, ProcessTypeOK
<1>3. CASE \/ SetStep \/ LinkStep \/ SetTask \/ ReserveCredit \/ SetExecution
           \/ CompleteTask \/ RefundCredit \/ SetWorkflow \/ SetJob
  <2>1. /\ stmts' = Tail(stmts) /\ runner' = runner /\ late' = late
        /\ boot' = boot /\ phase' = phase
    BY <1>3 DEF SetStep, LinkStep, SetTask, ReserveCredit, SetExecution,
       CompleteTask, RefundCredit, SetWorkflow, SetJob, Done
  <2>2. h.op # "credit_consume" => consumedFrom' = consumedFrom
    BY <1>3 DEF SetStep, LinkStep, SetTask, ReserveCredit, SetExecution,
       CompleteTask, RefundCredit, SetWorkflow, SetJob, Executing, ledgerVars,
       RefundTaskCredit
  <2>  QED  BY <1>1, <1>2, <2>1, <2>2 DEF To
<1>4. CASE SettleTask
  <2>  DEFINE a == Stmt("credit_refund", TaskId, "none")
  <2>1. /\ h.op = "task_settle" /\ consumedFrom' = consumedFrom
        /\ Then(a) \/ Done
    BY <1>4 DEF SettleTask, Executing, ledgerVars
  <2>2. a \in Stmts /\ a.op = "credit_refund"
    BY <1>2, StmtType, WritesValues
  <2>  HIDE DEF a
  <2>3. CASE Then(a)
    <3>1. /\ stmts' = <<a>> \o Tail(stmts) /\ runner' = runner /\ late' = late
          /\ boot' = boot /\ phase' = phase
      BY <2>3 DEF Then
    <3>2. <<a>> \in Seq(Stmts) /\ Tail(stmts) \in Seq(Stmts)
      BY <1>2, <2>2
    <3>3. Range(stmts') = Range(<<a>>) \cup Range(Tail(stmts))
      BY <3>1, <3>2, ConcatRange
    <3>4. Range(<<a>>) = {a}  BY TupleRange
    <3>  QED  BY <1>1, <1>2, <2>1, <2>2, <3>1, <3>3, <3>4 DEF To
  <2>4. CASE Done
    BY <1>1, <1>2, <2>1, <2>4 DEF Done, To
  <2>  QED  BY <2>1, <2>3, <2>4
<1>5. CASE CancelSteps
  <2>1. h.op = "cancel_steps" /\ consumedFrom' = consumedFrom
    BY <1>5 DEF CancelSteps, Executing, ledgerVars
  <2>2. ASSUME NEW s \in Steps,
               stmts' = (IF stepTask[s] = 0 THEN <<>>
                         ELSE << Stmt("task_settle", <<stepTask[s], s>>,
                                      "cancelled") >>) \o stmts,
               UNCHANGED <<runner, late, boot, phase>>
        PROVE  /\ \A r \in Range(stmts') :
                    r \in Range(stmts) \/ r.op = "task_settle"
               /\ Range(stmts) \subseteq Range(stmts')
    <3>  DEFINE a == Stmt("task_settle", <<stepTask[s], s>>, "cancelled")
                p == IF stepTask[s] = 0 THEN <<>> ELSE <<a>>
    <3>1. p \in Seq(Stmts) /\ \A r \in Range(p) : r.op = "task_settle"
      <4>1. CASE stepTask[s] = 0
        BY <4>1, TupleRange
      <4>2. CASE stepTask[s] # 0
        <5>1. stepTask[s] \in AttemptNumber
          BY <4>2, WorkflowAssumption DEF WorkflowInv, RowsTypeOK, AttemptNumber
        <5>2. a \in Stmts /\ a.op = "task_settle"
          BY <5>1, TaskNames, StmtType, WritesValues
        <5>  HIDE DEF a
        <5>3. <<a>> \in Seq(Stmts) /\ Range(<<a>>) = {a}
          BY <5>2, TupleRange
        <5>  QED  BY <4>2, <5>2, <5>3
      <4>  QED  BY <4>1, <4>2
    <3>2. stmts' = p \o stmts
      BY <2>2
    <3>  HIDE DEF p
    <3>  QED  BY <1>2, <3>1, <3>2, ConcatRange
  <2>3. CASE stmts' = stmts /\ UNCHANGED <<runner, late, boot, phase>>
    BY <1>1, <1>2, <2>1, <2>3 DEF To
  <2>4. CASE Done
    BY <1>1, <1>2, <2>1, <2>4 DEF Done, To
  <2>5. CASE \E s \in Steps :
               /\ stmts' = (IF stepTask[s] = 0 THEN <<>>
                            ELSE << Stmt("task_settle", <<stepTask[s], s>>,
                                         "cancelled") >>) \o stmts
               /\ UNCHANGED <<runner, late, boot, phase>>
    <3>1. /\ \A r \in Range(stmts') :
               r \in Range(stmts) \/ r.op = "task_settle"
          /\ Range(stmts) \subseteq Range(stmts')
      BY <2>2, <2>5
    <3>  QED  BY <1>1, <1>2, <2>1, <2>5, <3>1 DEF To
  <2>6. \/ \E s \in Steps :
             /\ stmts' = (IF stepTask[s] = 0 THEN <<>>
                          ELSE << Stmt("task_settle", <<stepTask[s], s>>,
                                       "cancelled") >>) \o stmts
             /\ UNCHANGED <<runner, late, boot, phase>>
        \/ stmts' = stmts /\ UNCHANGED <<runner, late, boot, phase>>
        \/ Done
    BY <1>5 DEF CancelSteps, procVars
  <2>  QED  BY <2>3, <2>4, <2>5, <2>6
<1>  QED  BY <1>3, <1>4, <1>5 DEF Statement

LEMMA StatementRows ==
  ASSUME Statement
  PROVE  /\ workflow' = IF \/ Head(stmts).op = "workflow_run"
                           \/ /\ Head(stmts).op = "workflow_finish"
                              /\ workflow \in ActiveWorkflow
                        THEN To ELSE workflow
         /\ job' = IF /\ Head(stmts).op \in DOMAIN JobLeaves
                      /\ job \in JobLeaves[Head(stmts).op]
                   THEN To ELSE job
<1>1. DOMAIN JobLeaves = {"job_insert", "job_cancel", "job_finish", "job_retry"}
  BY DEF JobLeaves
<1>2. CASE SetWorkflow
  BY <1>1, <1>2 DEF SetWorkflow, Executing
<1>3. CASE SetJob
  BY <1>1, <1>3 DEF SetJob, Executing
<1>4. CASE \/ SetStep \/ LinkStep \/ SetTask \/ ReserveCredit \/ SetExecution
           \/ CompleteTask \/ SettleTask \/ RefundCredit \/ CancelSteps
  <2>1. workflow' = workflow /\ job' = job
    BY <1>4 DEF SetStep, LinkStep, SetTask, ReserveCredit, SetExecution,
       CompleteTask, SettleTask, RefundCredit, CancelSteps, rowVars
  <2>2. Head(stmts).op \notin {"workflow_run", "workflow_finish", "job_insert",
                               "job_cancel", "job_finish", "job_retry"}
    BY <1>4 DEF SetStep, LinkStep, SetTask, ReserveCredit, SetExecution,
       CompleteTask, SettleTask, RefundCredit, CancelSteps, Executing
  <2>  QED  BY <1>1, <2>1, <2>2
<1>  QED  BY <1>2, <1>3, <1>4 DEF Statement

\* A statement keeps them together: it is the head of its callback, and what
\* was true of the rest stays true.
LEMMA StatementSettles ==
  ASSUME WorkflowInv, SettleInv, Statement
  PROVE  SettleInv'
<1>  DEFINE h == Head(stmts)
            rest == Range(Tail(stmts))
            mild == {"credit_refund", "task_settle", "cancel_steps"}
<1>1. /\ stmts # <<>> /\ h \in Range(stmts) /\ Range(stmts) = {h} \cup rest
      /\ runner' = runner /\ boot' = boot /\ phase' = phase
      /\ attempts' = attempts /\ rest \subseteq Range(stmts')
      /\ \A s \in Range(stmts') : s \in rest \/ s.op \in mild
      /\ h.op \notin {"task_settle", "cancel_steps"} => Range(stmts') = rest
      /\ To = h.to /\ To \in Writes[h.op]
  BY StatementShape
<1>2. /\ workflow' = IF \/ h.op = "workflow_run"
                        \/ h.op = "workflow_finish" /\ workflow \in ActiveWorkflow
                     THEN To ELSE workflow
      /\ job' = IF h.op \in DOMAIN JobLeaves /\ job \in JobLeaves[h.op]
                THEN To ELSE job
  BY StatementRows
<1>3. /\ DOMAIN JobLeaves = {"job_insert", "job_cancel", "job_finish", "job_retry"}
      /\ JobLeaves["job_insert"] = {"none"} /\ JobLeaves["job_cancel"] = ActiveJob
      /\ JobLeaves["job_finish"] = {"running"} /\ JobLeaves["job_retry"] = {"running"}
  BY DEF JobLeaves
<1>4. /\ h.op = "workflow_run" => To = "running"
      /\ h.op = "workflow_finish" => To \in TerminalWorkflow
      /\ h.op = "job_insert" => To = "queued"
      /\ h.op = "job_retry" => To \in ClaimableJob
      /\ h.op = "job_finish" => To \in {"completed", "failed", "timed_out"}
      /\ h.op = "job_cancel" => To = "cancelled"
  BY <1>1, WritesValues DEF TerminalJob
<1>5. /\ \A s \in Range(stmts) : Settles(s)
      /\ RunnerFitsJob /\ JobFitsWorkflow
  BY DEF SettleInv
<1>  HIDE DEF h, rest
\* What is pending stays so until it is executed.
<1>6. \A op : Pending(op) /\ op # h.op => Pending(op)'
  BY <1>1 DEF Pending
<1>7. \A op : Executing(op) <=> h.op = op
  BY <1>1 DEF Executing, h
<1>8. workflow \in ActiveWorkflow \cup TerminalWorkflow
  BY DEF WorkflowInv, RowsTypeOK
<1>9. workflow \in TerminalWorkflow /\ h.op # "workflow_run" => workflow' = workflow
  BY <1>2 DEF TerminalWorkflow, ActiveWorkflow
<1>10. h.op = "workflow_finish" => workflow' \in TerminalWorkflow
  BY <1>2, <1>4, <1>8
<1>11. ASSUME NEW s \in rest, s.op \in {"job_finish", "job_cancel"}
       PROVE  WorkflowFirst(s)'
  <2>1. WorkflowFirst(s) /\ h.op # "workflow_run"
    BY <1>1, <1>5, <1>11 DEF Settles
  <2>2. \/ workflow' \in TerminalWorkflow
        \/ /\ phase' = "jobs" /\ s.op = "job_finish" /\ s.to = "failed"
           /\ attempts' = MaxAttempts /\ Pending("workflow_finish")'
    BY <1>1, <1>6, <1>7, <1>9, <1>10, <2>1 DEF WorkflowFirst
  <2>3. s.op = "job_finish" /\ s.to = "completed" => workflow' = "completed"
    BY <1>2, <1>7, <1>9, <2>1 DEF WorkflowFirst, TerminalWorkflow
  <2>  QED  BY <2>2, <2>3 DEF WorkflowFirst
<1>12. ASSUME NEW s \in Range(stmts')
       PROVE  Settles(s)'
  <2>1. CASE s.op \in mild
    BY <2>1 DEF Settles, SetUp
  <2>2. CASE s \in rest
    <3>1. Settles(s)  BY <1>1, <1>5, <2>2
    <3>2. s.op = "workflow_run" =>
            job' = "running" /\ \A r \in Range(stmts') : r.op = "workflow_run"
      BY <1>1, <1>2, <1>3, <2>2, <3>1 DEF Settles
    <3>3. s.op \in SetUp =>
            /\ job' # "cancelled"
            /\ \A r \in Range(stmts') : r.op \in DispatchOps
      BY <1>1, <1>2, <1>3, <2>2, <3>1 DEF Settles, DispatchOps
    <3>4. s.op = "workflow_finish" =>
            \/ runner'.pc = "none" \/ ~runner'.watched \/ job' # "running"
            \/ Pending("job_cancel")'
      BY <1>1, <1>2, <1>3, <1>4, <1>6, <3>1
      DEF Settles, ClaimableJob, ActiveJob
    <3>5. s.op = "job_cancel" => runner'.pc # "loop"
      BY <1>1, <3>1 DEF Settles
    <3>6. s.op = "job_finish" =>
            ~runner'.watched /\ (s.to = "timed_out" \/ runner'.pc = "none")
      BY <1>1, <3>1 DEF Settles
    <3>  QED  BY <1>11, <2>2, <3>2, <3>3, <3>4, <3>5, <3>6 DEF Settles
  <2>  QED  BY <1>1, <2>1, <2>2
<1>13. RunnerFitsJob'
  <2>1. Settles(h)  BY <1>1, <1>5
  <2>2. OpensJob(h) => runner.pc = "none"
    BY <1>1 DEF WorkflowInv, OpenJobIsFree
  <2>3. \/ job' = job
        \/ h.op \in {"job_insert", "job_retry"} /\ runner.pc = "none"
        \/ h.op = "job_finish" /\ job' = To
        \/ h.op = "job_cancel" /\ job' = "cancelled"
    BY <1>2, <1>3, <1>4, <2>2 DEF OpensJob
  <2>4. runner.pc = "none" => ~runner.watched
    BY DEF WorkflowInv, RunnerFitsRows, NoRunner
  <2>5. runner'.pc # "none" => job' \in {"running", "cancelled", "timed_out"}
    BY <1>1, <1>5, <2>1, <2>3 DEF Settles, RunnerFitsJob
  <2>6. runner'.watched => job' # "timed_out"
    BY <1>1, <1>5, <2>1, <2>3, <2>4 DEF Settles, RunnerFitsJob
  <2>7. runner'.pc = "loop" => job' # "cancelled"
    BY <1>1, <1>4, <1>5, <2>1, <2>3 DEF Settles, RunnerFitsJob
  <2>8. ASSUME runner.pc # "none", runner.watched, job' = "running"
        PROVE  \/ workflow' = "running" \/ Pending("workflow_run")'
               \/ Pending("job_cancel")'
    <3>1. job = "running" /\ h.op # "job_cancel"
      BY <1>2, <1>3, <1>4, <2>1, <2>3, <2>8 DEF Settles, ActiveJob
    <3>2. h.op = "workflow_finish" => Pending("job_cancel")'
      BY <1>6, <2>1, <2>8, <3>1 DEF Settles
    <3>3. h.op = "workflow_run" => workflow' = "running"
      BY <1>2, <1>4
    <3>4. h.op \notin {"workflow_run", "workflow_finish"} => workflow' = workflow
      BY <1>2
    <3>  QED  BY <1>5, <1>6, <2>8, <3>1, <3>2, <3>3, <3>4 DEF RunnerFitsJob
  <2>  QED  BY <1>1, <2>5, <2>6, <2>7, <2>8 DEF RunnerFitsJob
<1>14. JobFitsWorkflow'
  <2>1. Settles(h)  BY <1>1, <1>5
  <2>2. CASE job' \in TerminalJob /\ job' # job
    <3>1. h.op \in {"job_finish", "job_cancel"} /\ job' = To
      BY <1>2, <1>3, <1>4, <2>2 DEF TerminalJob, ClaimableJob
    <3>2. WorkflowFirst(h) /\ workflow' = workflow
      BY <1>2, <2>1, <3>1 DEF Settles
    <3>3. \/ workflow' \in TerminalWorkflow
          \/ /\ phase' = "jobs" /\ job' = "failed" /\ attempts' = MaxAttempts
             /\ Pending("workflow_finish")'
      BY <1>1, <1>6, <1>7, <3>1, <3>2 DEF WorkflowFirst
    <3>4. job' = "completed" => workflow' = "completed"
      BY <1>1, <1>4, <1>7, <3>1, <3>2 DEF WorkflowFirst
    <3>5. workflow' = "planned" =>
            attempts' < boot' \/ (attempts' = boot' /\ Pending("workflow_run")')
      BY <1>1, <1>5, <1>6, <3>1, <3>2 DEF JobFitsWorkflow
    <3>  QED  BY <3>3, <3>4, <3>5 DEF JobFitsWorkflow
  <2>3. CASE job' \notin TerminalJob \/ job' = job
    <3>1. job' \in TerminalJob => h.op # "workflow_run" /\ job = job'
      BY <2>1, <2>3 DEF Settles, TerminalJob
    <3>2. job' \in TerminalJob =>
            \/ workflow' \in TerminalWorkflow \/ LostWorkflow'
            \/ phase' # "serving" /\ workflow' = "running"
            \/ /\ phase' = "jobs" /\ job' = "failed" /\ attempts' = MaxAttempts
               /\ Pending("workflow_finish")'
      <4>1. CASE h.op = "workflow_finish"
        BY <1>10, <4>1
      <4>2. CASE h.op # "workflow_finish"
        <5>1. job' \in TerminalJob => workflow' = workflow
          BY <1>2, <3>1, <4>2
        <5>  QED  BY <1>1, <1>5, <1>6, <3>1, <4>2, <5>1
                  DEF JobFitsWorkflow, LostWorkflow
      <4>  QED  BY <4>1, <4>2
    <3>3. job' = "completed" => workflow' = "completed"
      BY <1>5, <1>9, <3>1 DEF JobFitsWorkflow, TerminalJob, TerminalWorkflow
    <3>4. workflow' = "planned" =>
            attempts' < boot' \/ (attempts' = boot' /\ Pending("workflow_run")')
      <4>1. workflow' = "planned" => workflow = "planned" /\ h.op # "workflow_run"
        BY <1>2, <1>4, <1>8 DEF TerminalWorkflow
      <4>  QED  BY <1>1, <1>5, <1>6, <4>1 DEF JobFitsWorkflow
    <3>  QED  BY <3>2, <3>3, <3>4 DEF JobFitsWorkflow
  <2>  QED  BY <2>2, <2>3
<1>  QED  BY <1>12, <1>13, <1>14 DEF SettleInv

\* A callback that leaves the rows alone and writes statements on steps, tasks,
\* executions and credits only.
LEMMA TaskCallbackSettles ==
  ASSUME WorkflowInv, SettleInv, stmts = <<>>,
         rowVars' = rowVars, boot' = boot, phase' = phase,
         \A s \in Range(stmts') :
           s.op \in DispatchOps \cup {"task_complete", "task_settle"},
         \/ \A s \in Range(stmts') : s.op \notin SetUp
         \/ job # "cancelled" /\ \A s \in Range(stmts') : s.op \in DispatchOps,
         \/ runner' = runner
         \/ /\ runner.pc # "none"
            /\ (runner'.watched <=> runner.watched)
            /\ runner'.pc = "loop" => job # "cancelled"
  PROVE  SettleInv'
<1>1. \A op : ~Pending(op)
  BY TupleRange DEF Pending
<1>2. RunnerFitsJob /\ JobFitsWorkflow
  BY DEF SettleInv
<1>3. ASSUME NEW s \in Range(stmts') PROVE Settles(s)'
  BY DEF Settles, SetUp, DispatchOps, rowVars
<1>4. RunnerFitsJob'
  BY <1>1, <1>2 DEF RunnerFitsJob, rowVars
<1>5. JobFitsWorkflow'
  BY <1>1, <1>2 DEF JobFitsWorkflow, LostWorkflow, rowVars
<1>  QED  BY <1>3, <1>4, <1>5 DEF SettleInv

\* The loop writes of its steps, or what a dispatch writes.
LEMMA LoopWrites ==
  ASSUME Loop
  PROVE  /\ \A r \in Range(stmts') : r.op \in DispatchOps
         /\ \/ \A r \in Range(stmts') : r.op = "step_set"
            \/ \E s \in Steps : DispatchStep(s)
<1>1. CASE LeaveLoop \/ \E s \in Steps : ResumeStep(s)
  BY <1>1, TupleRange DEF LeaveLoop, ResumeStep, AtStep
<1>2. ASSUME NEW s \in Steps, SkipStep(s) \/ RefuseStep(s)
      PROVE  \A r \in Range(stmts') : r.op = "step_set"
  <2>  DEFINE a(to) == Stmt("step_set", <<1, s>>, to)
  <2>1. \A to : a(to).op = "step_set"
    BY DEF Stmt
  <2>2. stmts' = <<a("skipped")>> \/ stmts' = <<a("running"), a("failed")>>
    BY <1>2 DEF SkipStep, RefuseStep
  <2>  HIDE DEF a
  <2>3. \/ Range(stmts') = {a("skipped")}
        \/ Range(stmts') = {a("running"), a("failed")}
    BY <2>2, TupleRange
  <2>  QED  BY <2>1, <2>3
<1>3. ASSUME NEW s \in Steps, DispatchStep(s)
      PROVE  \A r \in Range(stmts') : r.op \in DispatchOps
  BY <1>3, DispatchPlan
<1>  QED  BY <1>1, <1>2, <1>3 DEF Loop, DispatchOps

LEMMA LoopSettles ==
  ASSUME WorkflowInv, SettleInv, Loop
  PROVE  SettleInv'
<1>1. /\ stmts = <<>> /\ runner.pc = "loop" /\ runner \in Runners
      /\ rowVars' = rowVars /\ boot' = boot /\ phase' = phase
  BY DEF Loop, LeaveLoop, ResumeStep, SkipStep, RefuseStep, DispatchStep,
     AtStep, RunnerGoes, WorkflowInv, ProcessTypeOK
<1>2. job # "cancelled"
  BY <1>1 DEF SettleInv, RunnerFitsJob
<1>3. runner'.watched <=> runner.watched
  BY <1>1 DEF Loop, LeaveLoop, ResumeStep, SkipStep, RefuseStep, DispatchStep,
     RunnerGoes, ToNextStep, Runners
<1>4. \A s \in Range(stmts') : s.op \in DispatchOps
  BY LoopWrites
<1>  QED  BY <1>1, <1>2, <1>3, <1>4, TaskCallbackSettles

\* The plans that callbacks put together.
LEMMA PlanRange ==
  \A a, b, c : Range(<<a, b>> \o <<c>>) = {a, b, c}
<1>1. ASSUME NEW a, NEW b, NEW c
      PROVE  Range(<<a, b>> \o <<c>>) = {a, b, c}
  <2>1. <<a, b>> \in Seq({a, b, c}) /\ <<c>> \in Seq({a, b, c})
    OBVIOUS
  <2>2. Range(<<a, b>> \o <<c>>) = Range(<<a, b>>) \cup Range(<<c>>)
    BY <2>1, ConcatRange
  <2>  QED  BY <2>2, TupleRange
<1>  QED  BY <1>1

LEMMA HeadOfConcat ==
  ASSUME NEW S, NEW p \in Seq(S), NEW q \in Seq(S), p # <<>>
  PROVE  p \o q # <<>> /\ Head(p \o q) = Head(p)
<1>1. Len(p) \in Nat \ {0} /\ Len(q) \in Nat /\ Head(p) = p[1]
  BY HeadTailProperties, LenProperties, EmptySeq
<1>2. /\ p \o q \in Seq(S) /\ Len(p \o q) = Len(p) + Len(q)
      /\ (p \o q)[1] = p[1]
  BY <1>1, ConcatProperties
<1>  QED  BY <1>1, <1>2, HeadTailProperties, LenProperties, EmptySeq

\* A dispatch settles: what it writes, and where runWorkflow goes.
LEMMA DispatchShape ==
  ASSUME WorkflowInv, NEW t \in Tasks, DispatchSucceeds(t) \/ DispatchFails(t)
  PROVE  /\ stmts = <<>> /\ phase = "serving" /\ runner.pc # "loop"
         /\ rowVars' = rowVars /\ boot' = boot /\ phase' = phase
         /\ \A s \in Range(stmts') :
              s.op \in {"exec_set", "task_complete", "task_settle", "step_set"}
         /\ \/ runner' = runner
            \/ /\ runner.pc = "step" /\ (runner'.watched <=> runner.watched)
               /\ runner'.pc = "loop" => job # "cancelled"
<1>1. /\ stmts = <<>> /\ phase = "serving" /\ runner.pc # "loop"
      /\ rowVars' = rowVars /\ boot' = boot /\ phase' = phase
      /\ runner \in Runners
  BY DEF DispatchSucceeds, DispatchFails, DispatchSettles, Idle, WorkflowInv,
     ProcessTypeOK
<1>2. ASSUME NEW a, NEW b, NEW c, NEW r,
             DispatchSettles(t, <<a, b>>, r, <<c>>)
      PROVE  \/ runner' = runner /\ Range(stmts') = {a, b}
             \/ /\ runner.pc = "step" /\ runner' = r
                /\ Range(stmts') = {a, b, c}
  BY <1>2, PlanRange, TupleRange DEF DispatchSettles, Awaited
<1>3. CASE DispatchSucceeds(t)
  <2>  DEFINE a == Stmt("exec_set", t, "completed")
              b == Stmt("task_complete", t, "completed")
              c == Stmt("step_set", t, IF JobCancelled THEN "cancelled"
                                                       ELSE "completed")
              r == IF JobCancelled
                   THEN [runner EXCEPT !.pc = "synthesis", !.cancelled = TRUE]
                   ELSE [ToNextStep EXCEPT !.pc = "loop",
                                           !.completed = @ \cup {t[2]}]
  <2>1. DispatchSettles(t, <<a, b>>, r, <<c>>)
    BY <1>3 DEF DispatchSucceeds
  <2>2. /\ (r.watched <=> runner.watched)
        /\ r.pc = "loop" => job # "cancelled"
    BY <1>1 DEF Runners, ToNextStep, JobCancelled
  <2>3. a.op = "exec_set" /\ b.op = "task_complete" /\ c.op = "step_set"
    BY DEF Stmt
  <2>  HIDE DEF a, b, c, r
  <2>  QED  BY <1>1, <1>2, <2>1, <2>2, <2>3
<1>4. CASE DispatchFails(t)
  <2>1. PICK retryable \in BOOLEAN :
          DispatchSettles(t,
            << Stmt("exec_set", t, "failed"), Stmt("task_settle", t, "failed") >>,
            [runner EXCEPT !.pc = "synthesis", !.failed = TRUE,
                           !.retryable = retryable],
            << Stmt("step_set", t, "failed") >>)
    BY <1>4 DEF DispatchFails
  <2>  DEFINE a == Stmt("exec_set", t, "failed")
              b == Stmt("task_settle", t, "failed")
              c == Stmt("step_set", t, "failed")
              r == [runner EXCEPT !.pc = "synthesis", !.failed = TRUE,
                                  !.retryable = retryable]
  <2>2. DispatchSettles(t, <<a, b>>, r, <<c>>)
    BY <2>1
  <2>3. r.pc = "synthesis" /\ (r.watched <=> runner.watched)
    BY <1>1 DEF Runners
  <2>4. a.op = "exec_set" /\ b.op = "task_settle" /\ c.op = "step_set"
    BY DEF Stmt
  <2>  HIDE DEF a, b, c, r
  <2>  QED  BY <1>1, <1>2, <2>2, <2>3, <2>4
<1>  QED  BY <1>3, <1>4

\* Dispatches, the step timer and the cancellation of one task.
LEMMA DispatchSettlesInv ==
  ASSUME WorkflowInv, SettleInv, NEW t \in Tasks,
         DispatchSucceeds(t) \/ DispatchFails(t) \/ CancelTask(t) \/ StepTimeout
  PROVE  SettleInv'
<1>1. CASE DispatchSucceeds(t) \/ DispatchFails(t)
  <2>1. /\ stmts = <<>> /\ rowVars' = rowVars /\ boot' = boot /\ phase' = phase
        /\ \A s \in Range(stmts') :
             s.op \in {"exec_set", "task_complete", "task_settle", "step_set"}
        /\ \/ runner' = runner
           \/ /\ runner.pc # "none" /\ (runner'.watched <=> runner.watched)
              /\ runner'.pc = "loop" => job # "cancelled"
    BY <1>1, DispatchShape
  <2>2. \A s \in Range(stmts') :
          /\ s.op \in DispatchOps \cup {"task_complete", "task_settle"}
          /\ s.op \notin SetUp
    BY <2>1 DEF DispatchOps, SetUp
  <2>  QED  BY <2>1, <2>2, TaskCallbackSettles
<1>2. CASE CancelTask(t)
  <2>1. /\ stmts = <<>> /\ rowVars' = rowVars /\ boot' = boot /\ phase' = phase
        /\ runner' = runner
        /\ stmts' = << Stmt("task_settle", t, "cancelled") >>
    BY <1>2 DEF CancelTask, Idle
  <2>2. \A s \in Range(stmts') : s.op = "task_settle"
    BY <2>1, TupleRange DEF Stmt
  <2>  QED  BY <2>1, <2>2, TaskCallbackSettles DEF SetUp
<1>3. CASE StepTimeout
  <2>  DEFINE a == Stmt("exec_set", CurrentTask, "failed")
              b == Stmt("task_settle", CurrentTask, "failed")
              c == Stmt("step_set", CurrentTask, "failed")
  <2>1. /\ stmts = <<>> /\ rowVars' = rowVars /\ boot' = boot /\ phase' = phase
        /\ runner.pc = "step" /\ runner \in Runners
        /\ runner' = [runner EXCEPT !.pc = "synthesis", !.failed = TRUE,
                                    !.retryable = TRUE]
        /\ stmts' = <<a, b, c>>
    BY <1>3 DEF StepTimeout, Idle, WorkflowInv, ProcessTypeOK
  <2>2. runner'.pc = "synthesis" /\ (runner'.watched <=> runner.watched)
    BY <2>1 DEF Runners
  <2>3. a.op = "exec_set" /\ b.op = "task_settle" /\ c.op = "step_set"
    BY DEF Stmt
  <2>  HIDE DEF a, b, c
  <2>4. \A s \in Range(stmts') : s.op \in {"exec_set", "task_settle", "step_set"}
    BY <2>1, <2>3, TupleRange
  <2>5. \A s \in Range(stmts') :
          /\ s.op \in DispatchOps \cup {"task_complete", "task_settle"}
          /\ s.op \notin SetUp
    BY <2>4 DEF DispatchOps, SetUp
  <2>  QED  BY <2>1, <2>2, <2>5, TaskCallbackSettles
<1>  QED  BY <1>1, <1>2, <1>3

LEMMA EnqueueSettles ==
  ASSUME WorkflowInv, SettleInv, EnqueueWorkflow
  PROVE  SettleInv'
<1>  DEFINE a == RowStmt("job_insert", "queued")
<1>1. /\ stmts = <<>> /\ stmts' = <<a>> /\ rowVars' = rowVars
      /\ runner' = runner /\ boot' = boot /\ phase' = phase
  BY DEF EnqueueWorkflow, Idle
<1>2. a.op = "job_insert"
  BY DEF RowStmt, Stmt
<1>  HIDE DEF a
<1>3. Range(stmts') = {a} /\ \A op : ~Pending(op)
  BY <1>1, TupleRange DEF Pending
<1>4. RunnerFitsJob /\ JobFitsWorkflow
  BY DEF SettleInv
<1>5. \A s \in Range(stmts') : Settles(s)'
  BY <1>2, <1>3 DEF Settles, SetUp
<1>6. RunnerFitsJob'
  BY <1>1, <1>3, <1>4 DEF RunnerFitsJob, rowVars
<1>7. JobFitsWorkflow'
  BY <1>1, <1>3, <1>4 DEF JobFitsWorkflow, LostWorkflow, rowVars
<1>  QED  BY <1>5, <1>6, <1>7 DEF SettleInv

LEMMA ClaimSettles ==
  ASSUME WorkflowInv, SettleInv, ClaimNextDueJob
  PROVE  SettleInv'
<1>  DEFINE a == RowStmt("workflow_run", "running")
<1>1. /\ stmts = <<>> /\ stmts' = <<a>> /\ job' = "running"
      /\ attempts' = attempts + 1 /\ workflow' = workflow
      /\ runner' = [NoRunner EXCEPT !.pc = "loop", !.at = 1, !.watched = TRUE]
      /\ boot' = boot /\ phase' = phase
  BY DEF ClaimNextDueJob, Idle
<1>2. a.op = "workflow_run"
  BY DEF RowStmt, Stmt
<1>  HIDE DEF a
<1>3. Range(stmts') = {a} /\ Pending("workflow_run")' /\ \A op : ~Pending(op)
  BY <1>1, <1>2, TupleRange DEF Pending
<1>4. runner'.pc = "loop" /\ runner'.watched
  BY <1>1 DEF NoRunner
<1>5. attempts \in Nat /\ boot \in Nat
  BY WorkflowAssumption DEF WorkflowInv, RowsTypeOK, ProcessTypeOK
<1>6. \A s \in Range(stmts') : Settles(s)'
  BY <1>1, <1>2, <1>3 DEF Settles, SetUp
<1>7. RunnerFitsJob'
  BY <1>1, <1>3, <1>4 DEF RunnerFitsJob
<1>8. JobFitsWorkflow'
  <2>1. workflow = "planned" => attempts < boot
    BY <1>3 DEF SettleInv, JobFitsWorkflow
  <2>  QED  BY <1>1, <1>3, <1>5, <2>1 DEF JobFitsWorkflow, TerminalJob
<1>  QED  BY <1>6, <1>7, <1>8 DEF SettleInv

LEMMA CancelWorkflowSettles ==
  ASSUME WorkflowInv, SettleInv, CancelWorkflow
  PROVE  SettleInv'
<1>  DEFINE a == RowStmt("workflow_finish", "cancelled")
            b == RowStmt("cancel_steps", "none")
            c == RowStmt("job_cancel", "cancelled")
<1>1. /\ stmts = <<>> /\ stmts' = <<a, b, c>> /\ rowVars' = rowVars
      /\ runner' = runner /\ boot' = boot /\ phase' = phase
      /\ runner.pc # "loop"
  BY DEF CancelWorkflow, Idle
<1>2. a.op = "workflow_finish" /\ b.op = "cancel_steps" /\ c.op = "job_cancel"
  BY DEF RowStmt, Stmt
<1>  HIDE DEF a, b, c
<1>3. Range(stmts') = {a, b, c} /\ stmts' # <<>> /\ Head(stmts') = a
  BY <1>1, TupleRange
<1>4. /\ Executing("workflow_finish")' /\ Pending("job_cancel")'
      /\ \A op : ~Pending(op)
  BY <1>1, <1>2, <1>3, TupleRange DEF Executing, Pending
<1>5. RunnerFitsJob /\ JobFitsWorkflow
  BY DEF SettleInv
<1>6. \A s \in Range(stmts') : Settles(s)'
  BY <1>1, <1>2, <1>3, <1>4 DEF Settles, WorkflowFirst, SetUp
<1>7. RunnerFitsJob'
  BY <1>1, <1>4, <1>5 DEF RunnerFitsJob, rowVars
<1>8. JobFitsWorkflow'
  BY <1>1, <1>4, <1>5 DEF JobFitsWorkflow, LostWorkflow, rowVars
<1>  QED  BY <1>6, <1>7, <1>8 DEF SettleInv

LEMMA CrashSettles ==
  ASSUME WorkflowInv, SettleInv, Crash
  PROVE  SettleInv'
<1>1. /\ runner' = NoRunner /\ stmts' = <<>> /\ boot' = boot + 1
      /\ phase' = "jobs" /\ rowVars' = rowVars
  BY DEF Crash
<1>2. /\ NoRunner.pc = "none" /\ ~NoRunner.watched /\ Range(stmts') = {}
      /\ attempts \in Nat /\ boot \in Nat /\ MaxAttempts \in Nat
      /\ workflow \in ActiveWorkflow \cup TerminalWorkflow
  BY <1>1, TupleRange, WorkflowAssumption
  DEF NoRunner, WorkflowInv, RowsTypeOK, ProcessTypeOK
<1>3. JobFitsWorkflow /\ \A s \in Range(stmts) : Settles(s)
  BY DEF SettleInv
<1>4. RunnerFitsJob'
  BY <1>1, <1>2 DEF RunnerFitsJob
<1>5. workflow = "planned" => attempts <= boot
  BY <1>2, <1>3 DEF JobFitsWorkflow
<1>6. ASSUME job \in TerminalJob, workflow \notin TerminalWorkflow,
             workflow # "running"
      PROVE  LostWorkflow'
  <2>1. workflow = "planned"
    BY <1>2, <1>6 DEF ActiveWorkflow
  <2>2. CASE LostWorkflow
    BY <1>1, <1>2, <2>2 DEF LostWorkflow, rowVars
  <2>3. CASE /\ job = "failed" /\ attempts = MaxAttempts
             /\ Pending("workflow_finish")
    <3>1. ~Pending("workflow_run")
      BY <1>3, <2>3 DEF Pending, Settles
    <3>2. attempts < boot
      BY <1>3, <2>1, <3>1 DEF JobFitsWorkflow
    <3>  QED  BY <1>1, <1>2, <2>1, <2>3, <3>2 DEF LostWorkflow, rowVars
  <2>  QED  BY <1>3, <1>6, <2>2, <2>3 DEF JobFitsWorkflow
<1>7. JobFitsWorkflow'
  BY <1>1, <1>2, <1>3, <1>5, <1>6 DEF JobFitsWorkflow, rowVars
<1>  QED  BY <1>2, <1>4, <1>7 DEF SettleInv

LEMMA SettleInvInit == Init => SettleInv
<1>  SUFFICES ASSUME Init PROVE SettleInv  OBVIOUS
<1>1. /\ stmts = <<>> /\ job = "none" /\ attempts = 0 /\ boot = 1
      /\ runner.pc = "none" /\ ~runner.watched
  BY DEF Init, NoRunner
<1>  QED  BY <1>1, TupleRange
          DEF SettleInv, RunnerFitsJob, JobFitsWorkflow, TerminalJob

\* runWorkflow returns: its final status goes first.
LEMMA SynthesisSettles ==
  ASSUME WorkflowInv, SettleInv, SynthesisEnds
  PROVE  SettleInv'
<1>  DEFINE a == RowStmt("workflow_finish",
                         IF runner.failed THEN "failed" ELSE "completed")
            b == IF ~runner.failed THEN RowStmt("job_finish", "completed")
                 ELSE IF runner.retryable /\ attempts < MaxAttempts
                 THEN RowStmt("job_retry", "retrying")
                 ELSE RowStmt("job_finish", "failed")
            p == IF runner.cancelled THEN <<>> ELSE <<a>>
            q == IF runner.watched THEN HandlerPlan ELSE <<>>
<1>1. /\ stmts = <<>> /\ stmts' = p \o q /\ rowVars' = rowVars
      /\ runner' = NoRunner /\ boot' = boot /\ phase' = phase
      /\ runner.pc = "synthesis"
  BY DEF SynthesisEnds, Idle
<1>2. q = IF runner.watched /\ ~runner.cancelled /\ job # "cancelled"
          THEN <<b>> ELSE <<>>
  BY DEF HandlerPlan, JobCancelled
<1>3. /\ a.op = "workflow_finish"
      /\ a.to = IF runner.failed THEN "failed" ELSE "completed"
      /\ b.op \in {"job_finish", "job_retry"}
      /\ b.op = "job_finish" /\ b.to = "completed" => ~runner.failed
  BY DEF RowStmt, Stmt
<1>  DEFINE both == {a, b}
<1>  HIDE DEF a, b, q, both
<1>4. p \in Seq(both) /\ q \in Seq(both)
  <2>1. a \in both /\ b \in both  BY DEF both
  <2>2. \A x \in both : <<x>> \in Seq(both)  OBVIOUS
  <2>3. <<>> \in Seq(both)  OBVIOUS
  <2>4. q = <<b>> \/ q = <<>>  BY <1>2
  <2>5. p = <<a>> \/ p = <<>>  OBVIOUS
  <2>  HIDE DEF p
  <2>  QED  BY <2>1, <2>2, <2>3, <2>4, <2>5
<1>5. /\ Range(stmts') = Range(p) \cup Range(q)
      /\ p # <<>> => stmts' # <<>> /\ Head(stmts') = Head(p)
  BY <1>1, <1>4, ConcatRange, HeadOfConcat
<1>6. RunnerFitsJob /\ JobFitsWorkflow /\ \A op : ~Pending(op)
  BY <1>1, TupleRange DEF SettleInv, Pending
<1>7. \A s \in Range(stmts') : s = a \/ s = b
  <2>1. Range(p) \subseteq both /\ Range(q) \subseteq both
    BY <1>4, RangeOfSeq
  <2>  QED  BY <1>5, <2>1 DEF both
<1>8. NoRunner.pc = "none" /\ ~NoRunner.watched
  BY DEF NoRunner
<1>9. b \in Range(stmts') =>
         \/ b = a
         \/ /\ ~runner.cancelled /\ runner.watched /\ job # "cancelled"
            /\ Head(stmts') = a /\ stmts' # <<>>
  BY <1>2, <1>5, TupleRange
<1>10. ASSUME NEW s \in Range(stmts'), s.op = "job_finish"
       PROVE  WorkflowFirst(s)'
  <2>1. /\ s = b /\ runner.watched /\ job # "cancelled"
        /\ stmts' # <<>> /\ Head(stmts') = a
    BY <1>3, <1>7, <1>9, <1>10
  <2>2. workflow = "running"
    BY <1>1, <1>6, <2>1 DEF RunnerFitsJob
  <2>  QED  BY <1>1, <1>3, <2>1, <2>2
            DEF WorkflowFirst, Executing, To, ActiveWorkflow, rowVars
<1>11. ASSUME NEW s \in Range(stmts') PROVE Settles(s)'
  <2>1. s.op \in {"workflow_finish", "job_finish", "job_retry"}
    BY <1>3, <1>7
  <2>  QED  BY <1>1, <1>8, <1>10, <2>1 DEF Settles, SetUp
<1>12. RunnerFitsJob'
  BY <1>1, <1>8 DEF RunnerFitsJob
<1>13. JobFitsWorkflow'
  BY <1>1, <1>6 DEF JobFitsWorkflow, LostWorkflow, rowVars
<1>  QED  BY <1>11, <1>12, <1>13 DEF SettleInv

\* The timer of the whole workflow: the same order.
LEMMA WorkflowTimeoutSettles ==
  ASSUME WorkflowInv, SettleInv, WorkflowTimeout
  PROVE  SettleInv'
<1>  DEFINE a == RowStmt("workflow_finish", "failed")
            b == RowStmt("job_finish", "timed_out")
            q == IF JobCancelled THEN <<>> ELSE <<b>>
            ops == {"workflow_finish", "job_finish", "task_settle", "step_set"}
<1>1. /\ stmts = <<>> /\ rowVars' = rowVars /\ runner \in Runners
      /\ runner' = [runner EXCEPT !.watched = FALSE]
      /\ boot' = boot /\ phase' = phase
  BY DEF WorkflowTimeout, Idle, WorkflowInv, ProcessTypeOK
<1>2. PICK plan : /\ stmts' = <<a>> \o plan \o q
                  /\ plan = <<>> \/ \E s \in Steps : plan = TimeoutPlan(s)
  BY DEF WorkflowTimeout
<1>3. /\ a.op = "workflow_finish" /\ b.op = "job_finish"
      /\ b.to = "timed_out"
  BY DEF RowStmt, Stmt
<1>  HIDE DEF a, b
<1>4. PICK c, d : /\ plan = <<>> \/ plan = <<c, d>>
                  /\ c.op = "task_settle" /\ d.op = "step_set"
  <2>1. ASSUME NEW s \in Steps
        PROVE  \E c, d : /\ TimeoutPlan(s) = <<>> \/ TimeoutPlan(s) = <<c, d>>
                         /\ c.op = "task_settle" /\ d.op = "step_set"
    <3>1. /\ Stmt("task_settle", <<stepTask[s], s>>, "failed").op = "task_settle"
          /\ Stmt("step_set", <<1, s>>, "failed").op = "step_set"
      BY DEF Stmt
    <3>  QED  BY <3>1 DEF TimeoutPlan
  <2>2. \E c, d : c.op = "task_settle" /\ d.op = "step_set"
    <3>1. /\ Stmt("task_settle", <<1, 1>>, "failed").op = "task_settle"
          /\ Stmt("step_set", <<1, 1>>, "failed").op = "step_set"
      BY DEF Stmt
    <3>  QED  BY <3>1
  <2>  QED  BY <1>2, <2>1, <2>2
<1>  DEFINE all == {a, b, c, d}
<1>5. <<a>> \in Seq(all) /\ <<a>> # <<>> /\ Head(<<a>>) = a
  OBVIOUS
<1>6. plan \in Seq(all) /\ q \in Seq(all)
  <2>1. b \in all /\ c \in all /\ d \in all  OBVIOUS
  <2>2. q = <<b>> \/ q = <<>>  OBVIOUS
  <2>  HIDE DEF q, all
  <2>3. /\ <<>> \in Seq(all) /\ \A x \in all : <<x>> \in Seq(all)
        /\ \A x, y \in all : <<x, y>> \in Seq(all)
    OBVIOUS
  <2>  QED  BY <1>4, <2>1, <2>2, <2>3
<1>  HIDE DEF q, all
<1>8. /\ <<a>> \o plan \in Seq(all) /\ <<a>> \o plan # <<>>
      /\ Head(<<a>> \o plan) = a
  BY <1>5, <1>6, ConcatRange, HeadOfConcat
<1>9. stmts' \in Seq(all) /\ stmts' # <<>> /\ Head(stmts') = a
  BY <1>2, <1>6, <1>8, ConcatRange, HeadOfConcat
<1>10. \A s \in Range(stmts') : s \in all
  BY <1>9, RangeOfSeq
<1>11. Executing("workflow_finish")'
  BY <1>3, <1>9 DEF Executing
<1>12. RunnerFitsJob /\ JobFitsWorkflow /\ \A op : ~Pending(op)
  BY <1>1, TupleRange DEF SettleInv, Pending
<1>13. runner'.pc = runner.pc /\ ~runner'.watched
  BY <1>1 DEF Runners
<1>14. \A s \in Range(stmts') : Settles(s)'
  BY <1>3, <1>4, <1>10, <1>11, <1>13 DEF Settles, SetUp, WorkflowFirst, all
<1>15. RunnerFitsJob'
  BY <1>1, <1>12, <1>13 DEF RunnerFitsJob, rowVars
<1>16. JobFitsWorkflow'
  BY <1>1, <1>12 DEF JobFitsWorkflow, LostWorkflow, rowVars
<1>  QED  BY <1>14, <1>15, <1>16 DEF SettleInv

\* Recovery: a job that was given up has its workflow settled in the same pass,
\* or by the last pass before the server serves.
LEMMA RecoverSettles ==
  ASSUME WorkflowInv, SettleInv, Recover
  PROVE  SettleInv'
<1>1. /\ phase # "serving" /\ stmts = <<>> /\ rowVars' = rowVars
      /\ runner' = runner /\ boot' = boot /\ runner.pc = "none"
      /\ ~runner.watched /\ phase \in Phases
  BY DEF Recover, WorkflowInv, RunnerFitsRows, ProcessTypeOK, NoRunner
<1>2. RunnerFitsJob /\ JobFitsWorkflow /\ \A op : ~Pending(op)
  BY <1>1, TupleRange DEF SettleInv, Pending
<1>3. RunnerFitsJob'
  BY <1>1 DEF RunnerFitsJob
<1>4. CASE PassWork(phase) = {} /\ phase' = NextPass[phase] /\ stmts' = stmts
  <2>1. Range(stmts') = {}
    BY <1>1, <1>4, TupleRange
  <2>2. phase' = "serving" => phase = "workflows"
    BY <1>1, <1>4 DEF NextPass, Phases
  <2>3. phase = "workflows" => ~OrphanWorkflow
    BY <1>4 DEF PassWork
  <2>4. job \in TerminalJob => job \notin ActiveJob
    BY DEF TerminalJob, ActiveJob, ClaimableJob
  <2>5. JobFitsWorkflow'
    BY <1>1, <1>2, <2>2, <2>3, <2>4
    DEF JobFitsWorkflow, LostWorkflow, OrphanWorkflow, rowVars
  <2>  QED  BY <1>3, <2>1, <2>5 DEF SettleInv
<1>5. CASE stmts' \in PassWork(phase) /\ phase' = phase
  <2>1. JobFitsWorkflow'
    BY <1>1, <1>2, <1>5 DEF JobFitsWorkflow, LostWorkflow, rowVars
  <2>2. \A s \in Range(stmts') : Settles(s)'
    <3>1. CASE phase = "jobs"
      <4>  DEFINE a == RowStmt("job_retry", "queued")
                  b == RowStmt("job_finish", "failed")
                  c == RowStmt("workflow_finish", "failed")
      <4>1. stmts' = IF attempts < MaxAttempts THEN <<a>> ELSE <<b, c>>
        BY <1>5, <3>1 DEF PassWork, RecoverStaleJob
      <4>2. /\ a.op = "job_retry" /\ b.op = "job_finish" /\ b.to = "failed"
            /\ c.op = "workflow_finish"
        BY DEF RowStmt, Stmt
      <4>  HIDE DEF a, b, c
      <4>3. CASE attempts < MaxAttempts
        <5>1. Range(stmts') = {a}  BY <4>1, <4>3, TupleRange
        <5>  QED  BY <4>2, <5>1 DEF Settles, SetUp
      <4>4. CASE ~(attempts < MaxAttempts)
        <5>1. attempts' = MaxAttempts
          BY <1>1, <4>4, WorkflowAssumption DEF WorkflowInv, RowsTypeOK, rowVars
        <5>2. Range(stmts') = {b, c}  BY <4>1, <4>4, TupleRange
        <5>3. Pending("workflow_finish")'  BY <4>2, <5>2 DEF Pending
        <5>4. WorkflowFirst(b)'
          BY <1>5, <3>1, <4>2, <5>1, <5>3 DEF WorkflowFirst
        <5>  QED  BY <1>1, <4>2, <5>2, <5>4 DEF Settles, SetUp
      <4>  QED  BY <4>3, <4>4
    <3>2. ASSUME phase # "jobs"
          PROVE  \E a : /\ stmts' = <<a>>
                        /\ a.op \in {"exec_set", "task_settle", "step_set",
                                     "workflow_finish"}
      <4>  DEFINE a(op, t) == Stmt(op, t, "failed")
                  ops == {"exec_set", "task_settle", "step_set", "workflow_finish"}
      <4>1. \E op \in ops : \E t : stmts' = << a(op, t) >>
        BY <1>1, <1>5, <3>2
        DEF PassWork, Phases, OrphanExecutions, OrphanTasks, OrphanSteps, RowStmt
      <4>2. \A op, t : a(op, t).op = op
        BY DEF Stmt
      <4>  HIDE DEF a
      <4>  QED  BY <4>1, <4>2
    <3>3. CASE phase # "jobs"
      <4>1. PICK a : /\ stmts' = <<a>>
                     /\ a.op \in {"exec_set", "task_settle", "step_set",
                                  "workflow_finish"}
        BY <3>2, <3>3
      <4>2. Range(stmts') = {a}  BY <4>1, TupleRange
      <4>  QED  BY <1>1, <4>1, <4>2 DEF Settles, SetUp
    <3>  QED  BY <3>1, <3>3
  <2>  QED  BY <1>3, <2>1, <2>2 DEF SettleInv
<1>  QED  BY <1>4, <1>5 DEF Recover

LEMMA SettleInvStep ==
  ASSUME WorkflowInv, SettleInv, [Next]_vars
  PROVE  SettleInv'
<1>1. CASE UNCHANGED vars
  <2>1. UNCHANGED <<workflow, job, attempts, runner, stmts, boot, phase>>
    BY <1>1 DEF vars, rowVars, procVars
  <2>  QED  BY <2>1 DEF SettleInv, Settles, WorkflowFirst, RunnerFitsJob,
            JobFitsWorkflow, LostWorkflow, Pending, Executing, To
<1>2. CASE \E t \in Tasks : DispatchSucceeds(t) \/ DispatchFails(t) \/ CancelTask(t)
  BY <1>2, DispatchSettlesInv
<1>3. CASE StepTimeout
  BY <1>3, TaskNames, DispatchSettlesInv
<1>  QED
  BY <1>1, <1>2, <1>3, LoopSettles, EnqueueSettles, ClaimSettles,
     WorkflowTimeoutSettles, SynthesisSettles, CancelWorkflowSettles,
     StatementSettles, CrashSettles, RecoverSettles DEF Next

LEMMA SettleInvariant == Spec => [](WorkflowInv /\ SettleInv)
<1>1. Spec => []SettleInv
  BY SettleInvInit, SettleInvStep, WorkflowInvariant, PTL DEF Spec
<1>  QED  BY <1>1, WorkflowInvariant, PTL

\* A settled job leaves its workflow settled or lost, and a completed job means
\* a completed workflow, over every crash between the two writes (queue.ts,
\* recovery.ts:43-75, 128).
THEOREM WorkflowAgreesWithJob == Spec => []JobAndWorkflowAgree
<1>1. SettleInv => JobAndWorkflowAgree
  BY TupleRange DEF SettleInv, JobFitsWorkflow, JobAndWorkflowAgree, Idle, Pending
<1>  QED  BY <1>1, SettleInvariant, PTL

\* A cancelled workflow spends no further credit, and once job and workflow are
\* settled the workflow keeps its status, although unwatched and cancelled runs
\* are still to write their own.
THEOREM WorkflowStaysSettled == Spec => SettledIsFinal
<1>1. ASSUME WorkflowInv, SettleInv, [Next]_vars
      PROVE  /\ job = "cancelled" => consumedFrom' = consumedFrom
             /\ job \in TerminalJob /\ workflow \in TerminalWorkflow =>
                  workflow' = workflow
  <2>1. CASE Statement
    <3>1. Settles(Head(stmts))
      BY <1>1, <2>1, StatementShape DEF SettleInv
    <3>2. job = "cancelled" => consumedFrom' = consumedFrom
      BY <1>1, <2>1, <3>1, StatementShape DEF Settles, SetUp
    <3>3. job \in TerminalJob /\ workflow \in TerminalWorkflow =>
            workflow' = workflow
      BY <2>1, <3>1, StatementRows
      DEF Settles, TerminalJob, TerminalWorkflow, ActiveWorkflow
    <3>  QED  BY <3>2, <3>3
  <2>2. CASE UNCHANGED vars
    BY <2>2 DEF vars, ledgerVars, rowVars
  <2>3. CASE Loop \/ EnqueueWorkflow \/ ClaimNextDueJob \/ StepTimeout
             \/ WorkflowTimeout \/ SynthesisEnds \/ CancelWorkflow \/ Crash
             \/ Recover
    BY <2>3 DEF Loop, LeaveLoop, ResumeStep, SkipStep, RefuseStep, DispatchStep,
       RunnerGoes, EnqueueWorkflow, ClaimNextDueJob, StepTimeout,
       WorkflowTimeout, SynthesisEnds, CancelWorkflow, Crash, Recover,
       ledgerVars, rowVars
  <2>4. CASE \E t \in Tasks :
               DispatchSucceeds(t) \/ DispatchFails(t) \/ CancelTask(t)
    BY <2>4 DEF DispatchSucceeds, DispatchFails, DispatchSettles, CancelTask,
       ledgerVars, rowVars
  <2>  QED  BY <1>1, <2>1, <2>2, <2>3, <2>4 DEF Next
<1>2. Spec => CancelStopsSpending
  BY <1>1, SettleInvariant, PTL DEF Spec, CancelStopsSpending
<1>3. Spec => SettledWorkflowStays
  BY <1>1, SettleInvariant, PTL DEF Spec, SettledWorkflowStays
<1>  QED  BY <1>2, <1>3 DEF SettledIsFinal

-----------------------------------------------------------------------------
(* How the steps of a workflow go together with their tasks.               *)

\* What a statement does to steps and tasks, and the order of what is left.
LEMMA StatementTasks ==
  ASSUME WorkflowInv, Statement, NEW h, h = Head(stmts)
  PROVE  /\ h.task \in Tasks /\ h.task[1] \in AttemptNumber /\ h.task[2] \in Steps
         /\ \A t \in Tasks :
              task'[t] = IF /\ t = h.task
                            /\ \/ h.op \in {"task_insert", "task_run"}
                               \/ h.op \in {"task_complete", "task_settle"} /\ Live(t)
                         THEN h.to ELSE task[t]
         /\ \A s \in Steps :
              stepTask'[s] = IF h.op = "step_link" /\ s = h.task[2]
                             THEN h.task[1] ELSE stepTask[s]
         /\ h.op # "cancel_steps" => \A s \in Steps :
              step'[s] = IF h.op = "step_set" /\ s = h.task[2]
                         THEN h.to ELSE step[s]
<1>1. stmts # <<>>
  BY DEF Statement, SetStep, LinkStep, SetTask, ReserveCredit, SetExecution,
     CompleteTask, SettleTask, RefundCredit, SetWorkflow, SetJob, CancelSteps,
     Executing
<1>2. /\ h.task \in Tasks /\ h.task[1] \in AttemptNumber /\ h.task[2] \in Steps
      /\ h.task = TaskId /\ h.task[2] = StepId /\ h.to = To
      /\ \A op : Executing(op) <=> h.op = op
  BY <1>1, HeadFacts, TaskNames DEF TaskId, StepId, To, Executing
<1>3. /\ task \in [Tasks -> TaskStatus] /\ step \in [Steps -> StepStatus]
      /\ stepTask \in [Steps -> 0 .. MaxAttempts]
  BY DEF WorkflowInv, RowsTypeOK
<1>4. CASE SetStep
  BY <1>2, <1>3, <1>4 DEF SetStep
<1>5. CASE LinkStep
  BY <1>2, <1>3, <1>5 DEF LinkStep
<1>6. CASE SetTask
  BY <1>2, <1>3, <1>6 DEF SetTask
<1>7. CASE CompleteTask
  BY <1>2, <1>3, <1>7 DEF CompleteTask, Live
<1>8. CASE SettleTask
  BY <1>2, <1>3, <1>8 DEF SettleTask, Live
<1>9. CASE ReserveCredit \/ RefundCredit \/ SetExecution \/ SetWorkflow \/ SetJob
  <2>1. UNCHANGED <<task, step, stepTask>>
    BY <1>9 DEF ReserveCredit, RefundCredit, SetExecution, SetWorkflow, SetJob,
       rowVars
  <2>2. h.op \notin {"task_insert", "task_run", "task_complete", "task_settle",
                     "step_link", "step_set"}
    BY <1>2, <1>9 DEF ReserveCredit, RefundCredit, SetExecution, SetWorkflow,
       SetJob, JobLeaves
  <2>  QED  BY <1>2, <2>1, <2>2
<1>10. CASE CancelSteps
  BY <1>2, <1>3, <1>10 DEF CancelSteps
<1>  QED  BY <1>4, <1>5, <1>6, <1>7, <1>8, <1>9, <1>10 DEF Statement

LEMMA StatementOrder ==
  ASSUME WorkflowInv, Statement, Ordered(stmts)
  PROVE  Ordered(stmts') /\ \A r \in Range(Tail(stmts)) : Before(Head(stmts), r)
<1>1. /\ stmts # <<>> /\ stmts \in Seq(Stmts) /\ Tail(stmts) \in Seq(Stmts)
      /\ TaskId \in Tasks
  BY StatementShape, HeadFacts DEF WorkflowInv, ProcessTypeOK
<1>2. /\ Ordered(Tail(stmts))
      /\ \A r \in Range(Tail(stmts)) : Before(Head(stmts), r)
  BY <1>1, OrderedTail
<1>3. CASE stmts' = Tail(stmts) \/ stmts' = stmts
  BY <1>2, <1>3
<1>4. ASSUME NEW a \in Stmts, NEW q \in Seq(Stmts), stmts' = <<a>> \o q,
             a.op \in {"credit_refund", "task_settle"}, Ordered(q)
      PROVE  Ordered(stmts')
  <2>1. <<a>> \in Seq(Stmts) /\ Range(<<a>>) = {a} /\ Ordered(<<a>>)
    BY TupleRange, OrderedTuples
  <2>2. \A r : Before(a, r)
    BY <1>4 DEF Before, CompletesStep
  <2>  QED  BY <1>4, <2>1, <2>2, OrderedConcat
<1>5. CASE SettleTask
  <2>  DEFINE a == Stmt("credit_refund", TaskId, "none")
  <2>1. a \in Stmts /\ a.op = "credit_refund"
    BY <1>1, StmtType, WritesValues
  <2>2. stmts' = <<a>> \o Tail(stmts) \/ stmts' = Tail(stmts)
    BY <1>5 DEF SettleTask, Then, Done
  <2>  HIDE DEF a
  <2>  QED  BY <1>1, <1>2, <1>3, <1>4, <2>1, <2>2
<1>6. CASE CancelSteps
  <2>1. CASE Done \/ UNCHANGED procVars
    BY <1>3, <2>1 DEF Done, procVars
  <2>2. ASSUME NEW s \in Steps,
               stmts' = (IF stepTask[s] = 0 THEN <<>>
                         ELSE << Stmt("task_settle", <<stepTask[s], s>>,
                                      "cancelled") >>) \o stmts
        PROVE  Ordered(stmts')
    <3>1. CASE stepTask[s] = 0
      <4>1. stmts' = <<>> \o stmts
        BY <2>2, <3>1
      <4>2. stmts' = stmts
        BY <1>1, <4>1, ConcatEmptySeq
      <4>  QED  BY <1>3, <4>2
    <3>2. CASE stepTask[s] # 0
      <4>  DEFINE a == Stmt("task_settle", <<stepTask[s], s>>, "cancelled")
      <4>1. stepTask[s] \in AttemptNumber
        BY <3>2, WorkflowAssumption DEF WorkflowInv, RowsTypeOK, AttemptNumber
      <4>2. a \in Stmts /\ a.op = "task_settle"
        BY <4>1, TaskNames, StmtType, WritesValues
      <4>3. stmts' = <<a>> \o stmts
        BY <2>2, <3>2
      <4>  HIDE DEF a
      <4>  QED  BY <1>1, <1>4, <4>2, <4>3
    <3>  QED  BY <3>1, <3>2
  <2>3. CASE \E s \in Steps :
               stmts' = (IF stepTask[s] = 0 THEN <<>>
                         ELSE << Stmt("task_settle", <<stepTask[s], s>>,
                                      "cancelled") >>) \o stmts
    <3>1. PICK s \in Steps :
            stmts' = (IF stepTask[s] = 0 THEN <<>>
                      ELSE << Stmt("task_settle", <<stepTask[s], s>>,
                                   "cancelled") >>) \o stmts
      BY <2>3
    <3>  QED  BY <1>2, <2>2, <3>1
  <2>4. \/ \E s \in Steps :
             stmts' = (IF stepTask[s] = 0 THEN <<>>
                       ELSE << Stmt("task_settle", <<stepTask[s], s>>,
                                    "cancelled") >>) \o stmts
        \/ Done \/ UNCHANGED procVars
    BY <1>6 DEF CancelSteps
  <2>  QED  BY <2>1, <2>3, <2>4
<1>7. CASE \/ SetStep \/ LinkStep \/ SetTask \/ ReserveCredit \/ SetExecution
           \/ CompleteTask \/ RefundCredit \/ SetWorkflow \/ SetJob
  <2>1. stmts' = Tail(stmts)
    BY <1>7 DEF SetStep, LinkStep, SetTask, ReserveCredit, SetExecution,
       CompleteTask, RefundCredit, SetWorkflow, SetJob, Done
  <2>  QED  BY <1>3, <2>1
<1>  QED  BY <1>2, <1>5, <1>6, <1>7 DEF Statement

\* What the cancellation of the steps and a settlement leave to execute.
LEMMA SettlingShape ==
  ASSUME WorkflowInv, Statement, NEW h, h = Head(stmts)
  PROVE  /\ h.op = "task_settle" /\ Live(h.task) => PendingFor("credit_refund", h.task)'
         /\ \A r \in Range(stmts') :
              \/ r \in Range(Tail(stmts)) \/ (r = h /\ h.op = "cancel_steps")
              \/ r.op = "credit_refund" /\ h.op = "task_settle"
              \/ r.op = "task_settle" /\ h.op = "cancel_steps"
         /\ h.op = "cancel_steps" => \A s \in Steps :
              \/ step'[s] = step[s]
              \/ step[s] \in {"pending", "running"} /\ step'[s] # "completed"
         /\ h.op = "cancel_steps" => \A s \in Steps :
              step[s] = "running" /\ step'[s] # "running" /\ stepTask[s] # 0
                => PendingFor("task_settle", <<stepTask[s], s>>)'
         /\ h.op = "cancel_steps" =>
              \/ stmts' = Tail(stmts) /\ \A s \in Steps : step[s] # "running"
              \/ h \in Range(stmts')
<1>1. /\ stmts # <<>> /\ h \in Stmts /\ h \in Range(stmts)
      /\ stmts \in Seq(Stmts) /\ Tail(stmts) \in Seq(Stmts)
      /\ Range(stmts) = {h} \cup Range(Tail(stmts))
      /\ TaskId \in Tasks /\ TaskId = h.task
  BY StatementShape, HeadFacts DEF WorkflowInv, ProcessTypeOK, TaskId
<1>2. CASE SettleTask
  <2>  DEFINE a == Stmt("credit_refund", TaskId, "none")
  <2>1. /\ a \in Stmts /\ a.op = "credit_refund" /\ a.task = TaskId
        /\ <<a>> \in Seq(Stmts)
    <3>1. a \in Stmts /\ a.op = "credit_refund"
      BY <1>1, StmtType, WritesValues
    <3>  QED  BY <3>1 DEF Stmt
  <2>2. /\ h.op = "task_settle"
        /\ Live(h.task) => stmts' = <<a>> \o Tail(stmts)
        /\ ~Live(h.task) => stmts' = Tail(stmts)
    BY <1>1, <1>2 DEF SettleTask, Executing, Then, Done, Live
  <2>  HIDE DEF a
  <2>3. CASE Live(h.task)
    <3>2. stmts' = <<a>> \o Tail(stmts)
      BY <2>2, <2>3
    <3>4. <<a>> \in Seq(Stmts) /\ Tail(stmts) \in Seq(Stmts)
      BY <1>1, <2>1
    <3>3. Range(stmts') = Range(<<a>>) \cup Range(Tail(stmts))
      BY <3>2, <3>4, ConcatRange
    <3>1. Range(stmts') = {a} \cup Range(Tail(stmts))
      BY <3>3, TupleRange
    <3>  QED  BY <1>1, <2>1, <2>2, <3>1 DEF PendingFor
  <2>4. CASE ~Live(h.task)
    BY <2>2, <2>4
  <2>  QED  BY <2>3, <2>4
<1>3. CASE CancelSteps
  <2>1. h.op = "cancel_steps" /\ step \in [Steps -> StepStatus]
    BY <1>1, <1>3 DEF CancelSteps, Executing, WorkflowInv, RowsTypeOK
  <2>2. ASSUME NEW s \in Steps, step[s] = "running",
               step' = [step EXCEPT ![s] = "cancelled"],
               stmts' = (IF stepTask[s] = 0 THEN <<>>
                         ELSE << Stmt("task_settle", <<stepTask[s], s>>,
                                      "cancelled") >>) \o stmts
        PROVE  /\ \A r \in Range(stmts') : r \in Range(stmts) \/ r.op = "task_settle"
               /\ h \in Range(stmts')
               /\ \A x \in Steps :
                    \/ step'[x] = step[x]
                    \/ /\ step[x] \in {"pending", "running"}
                       /\ step'[x] # "completed"
               /\ \A x \in Steps :
                    step[x] = "running" /\ step'[x] # "running" /\ stepTask[x] # 0
                      => PendingFor("task_settle", <<stepTask[x], x>>)'
    <3>1. \A x \in Steps : step'[x] = IF x = s THEN "cancelled" ELSE step[x]
      BY <2>1, <2>2
    <3>2. CASE stepTask[s] = 0
      <4>1. stmts' = <<>> \o stmts
        BY <2>2, <3>2
      <4>2. stmts' = stmts
        BY <1>1, <4>1, ConcatEmptySeq
      <4>  QED  BY <1>1, <2>2, <3>1, <3>2, <4>2
    <3>3. CASE stepTask[s] # 0
      <4>  DEFINE a == Stmt("task_settle", <<stepTask[s], s>>, "cancelled")
      <4>1. stepTask[s] \in AttemptNumber
        BY <3>3, WorkflowAssumption DEF WorkflowInv, RowsTypeOK, AttemptNumber
      <4>2. a \in Stmts /\ a.op = "task_settle"
        BY <4>1, TaskNames, StmtType, WritesValues
      <4>3. a.task = <<stepTask[s], s>> /\ stmts' = <<a>> \o stmts
        BY <2>2, <3>3 DEF Stmt
      <4>  HIDE DEF a
      <4>4. <<a>> \in Seq(Stmts) /\ stmts \in Seq(Stmts)
        BY <1>1, <4>2
      <4>10. stmts' = <<a>> \o stmts
        BY <4>3
      <4>7. Range(stmts') = Range(<<a>>) \cup Range(stmts)
        BY <4>4, <4>10, ConcatRange
      <4>5. Range(stmts') = {a} \cup Range(stmts)
        BY <4>7, TupleRange
      <4>6. PendingFor("task_settle", <<stepTask[s], s>>)'
        <5>1. \E r \in Range(stmts') :
                r.op = "task_settle" /\ r.task = <<stepTask[s], s>>
          BY <4>2, <4>3, <4>5
        <5>2. stepTask' = stepTask
          BY <1>3 DEF CancelSteps
        <5>  QED  BY <5>1, <5>2 DEF PendingFor
      <4>8. ASSUME NEW x \in Steps, step'[x] # step[x] PROVE x = s
        BY <3>1, <4>8
      <4>9. \A x \in Steps :
              step[x] = "running" /\ step'[x] # "running" /\ stepTask[x] # 0
                => PendingFor("task_settle", <<stepTask[x], x>>)'
        BY <4>6, <4>8
      <4>11. /\ \A r \in Range(stmts') : r \in Range(stmts) \/ r.op = "task_settle"
             /\ h \in Range(stmts')
        BY <1>1, <4>2, <4>5
      <4>12. \A x \in Steps :
               \/ step'[x] = step[x]
               \/ step[x] \in {"pending", "running"} /\ step'[x] # "completed"
        BY <2>2, <3>1
      <4>  QED  BY <4>9, <4>11, <4>12
    <3>  QED  BY <3>2, <3>3
  <2>3. ASSUME NEW s \in Steps, step[s] = "pending",
               step' = [step EXCEPT ![s] = "skipped"], UNCHANGED procVars
        PROVE  /\ stmts' = stmts
               /\ \A x \in Steps :
                    \/ step'[x] = step[x]
                    \/ step[x] = "pending" /\ step'[x] = "skipped"
    BY <2>1, <2>3 DEF procVars
  <2>4. CASE /\ \A s \in Steps : step[s] \notin {"pending", "running"}
             /\ step' = step /\ stmts' = Tail(stmts)
    BY <2>1, <2>4
  <2>5. CASE \E s \in Steps :
               /\ step[s] = "running" /\ step' = [step EXCEPT ![s] = "cancelled"]
               /\ stmts' = (IF stepTask[s] = 0 THEN <<>>
                            ELSE << Stmt("task_settle", <<stepTask[s], s>>,
                                         "cancelled") >>) \o stmts
    BY <1>1, <2>1, <2>2, <2>5
  <2>6. CASE \E s \in Steps :
               /\ step[s] = "pending" /\ step' = [step EXCEPT ![s] = "skipped"]
               /\ UNCHANGED procVars
    <3>1. /\ stmts' = stmts
          /\ \A x \in Steps : \/ step'[x] = step[x]
                              \/ step[x] = "pending" /\ step'[x] = "skipped"
      BY <2>3, <2>6
    <3>  QED  BY <1>1, <2>1, <3>1
  <2>  QED  BY <1>3, <2>4, <2>5, <2>6 DEF CancelSteps, Done
<1>4. CASE \/ SetStep \/ LinkStep \/ SetTask \/ ReserveCredit \/ SetExecution
           \/ CompleteTask \/ RefundCredit \/ SetWorkflow \/ SetJob
  <2>1. stmts' = Tail(stmts)
    BY <1>4 DEF SetStep, LinkStep, SetTask, ReserveCredit, SetExecution,
       CompleteTask, RefundCredit, SetWorkflow, SetJob, Done
  <2>2. h.op \notin {"task_settle", "cancel_steps"}
    BY <1>4 DEF SetStep, LinkStep, SetTask, ReserveCredit, SetExecution,
       CompleteTask, RefundCredit, SetWorkflow, SetJob, Executing, JobLeaves
  <2>  QED  BY <2>1, <2>2
<1>  QED  BY <1>2, <1>3, <1>4 DEF Statement

-----------------------------------------------------------------------------
(* The invariant of the steps.                                             *)

\* What a cancellation writes, and a delivery that completes its step.
CancelOps     == {"workflow_finish", "cancel_steps", "job_cancel",
                  "task_settle", "credit_refund"}
CompletionOps == {"exec_set", "task_complete", "step_set"}

\* What its callback knew of steps and tasks when it left s still holds.
KnowsSteps(s) ==
  /\ s.op \in SetUp =>
       /\ runner.pc = "step" /\ s.task = CurrentTask
       /\ \A r \in Range(stmts) : r.op = "step_set" => r.to = "running"
  /\ CompletesStep(s) =>
       /\ runner.pc # "step" /\ DependsOn[s.task[2]] \subseteq StepsDone
       /\ \A r \in Range(stmts) : r.op \in CompletionOps
       /\ job # "timed_out" =>
            /\ Linked(s.task)
            /\ \/ task[s.task] = "completed"
               \/ Live(s.task) /\ PendingFor("task_complete", s.task)
  /\ s.op = "step_set" /\ s.to # "completed" => s.task[2] \notin StepsDone
  /\ s.op = "cancel_steps" =>
       Pending("job_cancel") /\ \A r \in Range(stmts) : r.op \in CancelOps

\* A late dispatch is of an attempt before the one that runs a step.
LateDispatches ==
  \A t \in late : /\ t[1] <= attempts
                  /\ runner.pc \in {"loop", "step"} => t[1] < attempts

\* The step a run awaits comes after the steps it depends on.  While nothing
\* settles its job, its task is open and linked, or about to be, and nobody is
\* about to settle the task or to move the step.
StepAwaited ==
  /\ Live(CurrentTask) \/ PendingFor("task_insert", CurrentTask)
  /\ Linked(CurrentTask) \/ Pending("step_link")
  /\ step[runner.at] = "running" \/ StepToRun(runner.at)
  /\ \A r \in Range(stmts) :
       /\ r.op \in {"task_settle", "task_complete"} => r.task # CurrentTask
       /\ r.op = "step_set" => r.to = "running"
RunnerFitsSteps ==
  /\ \A s \in runner.completed : s \in StepsDone \/ StepToComplete(s)
  /\ runner.pc = "step" => /\ runner.at \notin StepsDone
                           /\ DependsOn[runner.at] \subseteq StepsDone
  /\ runner.pc = "step" /\ job = "running"
       => Pending("job_cancel") \/ Pending("job_finish") \/ StepAwaited

\* A completed step names the task that delivered it.
StepsDelivered ==
  job # "timed_out" => \A s \in StepsDone :
    stepTask[s] # 0 /\ task[<<stepTask[s], s>>] = "completed"

StepInv ==
  /\ Ordered(stmts) /\ \A s \in Range(stmts) : KnowsSteps(s)
  /\ LateDispatches /\ RunnerFitsSteps /\ DependenciesFirst /\ StepsDelivered

\* What a statement that executes changes for the rest of its callback.
LEMMA StatementContext ==
  ASSUME WorkflowInv, SettleInv, StepInv, Statement,
         NEW h, h = Head(stmts), NEW rest, rest = Range(Tail(stmts))
  PROVE  /\ h \in Range(stmts) /\ Range(stmts) = {h} \cup rest
         /\ Settles(h) /\ KnowsSteps(h) /\ \A r \in rest : Before(h, r)
         /\ runner' = runner /\ late' = late /\ attempts' = attempts
         /\ boot' = boot
         /\ \A op : Pending(op) /\ op # h.op => Pending(op)'
         /\ \A op, t : PendingFor(op, t) /\ ~(op = h.op /\ t = h.task)
                         => PendingFor(op, t)'
         /\ \A s : StepToComplete(s) /\ ~(CompletesStep(h) /\ s = h.task[2])
                     => StepToComplete(s)'
         /\ StepsDone \subseteq StepsDone'
         /\ \A s \in StepsDone' \ StepsDone : CompletesStep(h) /\ s = h.task[2]
         /\ CompletesStep(h) => h.task[2] \in StepsDone' /\ rest = {}
         /\ \A t \in Tasks : Live(t)' =>
              Live(t) \/ (h.op \in {"task_insert", "task_run"} /\ t = h.task)
         /\ job' # job =>
              /\ h.op \in {"job_insert", "job_cancel", "job_finish", "job_retry"}
              /\ job \notin TerminalJob /\ job' # "running"
              /\ h.op = "job_cancel" => job' = "cancelled"
         /\ job = "running" /\ h.op \in {"job_cancel", "job_finish"} =>
              job' # "running"
<1>1. /\ h \in Range(stmts) /\ h \in Stmts /\ Range(stmts) = {h} \cup rest
      /\ runner' = runner /\ late' = late /\ attempts' = attempts
      /\ boot' = boot /\ rest \subseteq Range(stmts')
      /\ To = h.to /\ To \in Writes[h.op]
  BY StatementShape
<1>2. /\ Settles(h) /\ KnowsSteps(h)
  BY <1>1 DEF SettleInv, StepInv
<1>3. \A r \in rest : Before(h, r)
  BY StatementOrder DEF StepInv
<1>4. /\ \A op : Pending(op) /\ op # h.op => Pending(op)'
      /\ \A op, t : PendingFor(op, t) /\ ~(op = h.op /\ t = h.task)
                      => PendingFor(op, t)'
      /\ \A s : StepToComplete(s) /\ ~(CompletesStep(h) /\ s = h.task[2])
                  => StepToComplete(s)'
  BY <1>1 DEF Pending, PendingFor, StepToComplete
<1>5. /\ h.task \in Tasks /\ h.task[2] \in Steps
      /\ \A t \in Tasks :
           task'[t] = IF /\ t = h.task
                         /\ \/ h.op \in {"task_insert", "task_run"}
                            \/ h.op \in {"task_complete", "task_settle"} /\ Live(t)
                      THEN h.to ELSE task[t]
      /\ h.op # "cancel_steps" => \A s \in Steps :
           step'[s] = IF h.op = "step_set" /\ s = h.task[2]
                      THEN h.to ELSE step[s]
  BY StatementTasks
<1>6. h.op = "cancel_steps" => \A s \in Steps :
        \/ step'[s] = step[s]
        \/ step[s] \in {"pending", "running"} /\ step'[s] # "completed"
  BY SettlingShape
<1>7. /\ StepsDone \subseteq StepsDone'
      /\ \A s \in StepsDone' \ StepsDone : CompletesStep(h) /\ s = h.task[2]
      /\ CompletesStep(h) => h.task[2] \in StepsDone'
  <2>1. CASE h.op = "cancel_steps"
    BY <1>6, <2>1 DEF StepsDone, CompletesStep
  <2>2. CASE h.op # "cancel_steps"
    <3>1. h.op = "step_set" /\ h.to # "completed" => h.task[2] \notin StepsDone
      BY <1>2 DEF KnowsSteps
    <3>  QED  BY <1>5, <2>2, <3>1 DEF StepsDone, CompletesStep
  <2>  QED  BY <2>1, <2>2
<1>8. CompletesStep(h) => rest = {}
  BY <1>3 DEF Before
<1>9. \A t \in Tasks : Live(t)' =>
        Live(t) \/ (h.op \in {"task_insert", "task_run"} /\ t = h.task)
  <2>1. /\ h.op = "task_complete" => h.to = "completed"
        /\ h.op = "task_settle" => h.to \in {"failed", "cancelled"}
    BY <1>1, WritesValues
  <2>2. ASSUME NEW t \in Tasks, Live(t)'
        PROVE  Live(t) \/ (h.op \in {"task_insert", "task_run"} /\ t = h.task)
    <3>1. /\ task'[t] = IF /\ t = h.task
                           /\ \/ h.op \in {"task_insert", "task_run"}
                              \/ /\ h.op \in {"task_complete", "task_settle"}
                                 /\ task[t] \in NonTerminalTask
                        THEN h.to ELSE task[t]
          /\ task'[t] \in NonTerminalTask
      BY <1>5, <2>2 DEF Live
    <3>  QED  BY <2>1, <3>1 DEF Live, NonTerminalTask
  <2>  QED  BY <2>2
<1>10. job' = IF h.op \in DOMAIN JobLeaves /\ job \in JobLeaves[h.op]
              THEN To ELSE job
  BY StatementRows
<1>11. /\ DOMAIN JobLeaves = {"job_insert", "job_cancel", "job_finish", "job_retry"}
       /\ JobLeaves["job_insert"] = {"none"} /\ JobLeaves["job_cancel"] = ActiveJob
       /\ JobLeaves["job_finish"] = {"running"} /\ JobLeaves["job_retry"] = {"running"}
  BY DEF JobLeaves
<1>12. /\ h.op = "job_insert" => To = "queued"
       /\ h.op = "job_retry" => To \in ClaimableJob
       /\ h.op = "job_finish" => To \in {"completed", "failed", "timed_out"}
       /\ h.op = "job_cancel" => To = "cancelled"
  BY <1>1, WritesValues DEF TerminalJob
<1>13. /\ job' # job =>
            /\ h.op \in {"job_insert", "job_cancel", "job_finish", "job_retry"}
            /\ job \notin TerminalJob /\ job' # "running"
            /\ h.op = "job_cancel" => job' = "cancelled"
       /\ job = "running" /\ h.op \in {"job_cancel", "job_finish"} =>
            job' # "running"
  BY <1>10, <1>11, <1>12 DEF TerminalJob, ActiveJob, ClaimableJob
<1>  QED  BY <1>1, <1>2, <1>3, <1>4, <1>7, <1>8, <1>9, <1>13

\* A statement keeps the steps in order: the callback that left it holds what it
\* needs, and what it does not touch stays.
LEMMA StatementKeepsSteps ==
  ASSUME WorkflowInv, SettleInv, StepInv, Statement
  PROVE  StepInv'
<1>1. PICK h, rest : h = Head(stmts) /\ rest = Range(Tail(stmts))
  OBVIOUS
<1>2. /\ h \in Range(stmts) /\ Range(stmts) = {h} \cup rest
      /\ Settles(h) /\ KnowsSteps(h) /\ \A r \in rest : Before(h, r)
      /\ runner' = runner /\ late' = late /\ attempts' = attempts
  BY <1>1, StatementContext
<1>3. /\ \A op : Pending(op) /\ op # h.op => Pending(op)'
      /\ \A op, t : PendingFor(op, t) /\ ~(op = h.op /\ t = h.task)
                      => PendingFor(op, t)'
      /\ \A s : StepToComplete(s) /\ ~(CompletesStep(h) /\ s = h.task[2])
                  => StepToComplete(s)'
  BY <1>1, StatementContext
<1>4. /\ StepsDone \subseteq StepsDone'
      /\ \A s \in StepsDone' \ StepsDone : CompletesStep(h) /\ s = h.task[2]
      /\ CompletesStep(h) => h.task[2] \in StepsDone' /\ rest = {}
  BY <1>1, StatementContext
<1>5. /\ job' # job =>
           /\ h.op \in {"job_insert", "job_cancel", "job_finish", "job_retry"}
           /\ job \notin TerminalJob /\ job' # "running"
      /\ job = "running" /\ h.op \in {"job_cancel", "job_finish"} =>
           job' # "running"
  BY <1>1, StatementContext
<1>6. \A r \in Range(stmts') :
        \/ r \in rest \/ (r = h /\ h.op = "cancel_steps")
        \/ r.op = "credit_refund" /\ h.op = "task_settle"
        \/ r.op = "task_settle" /\ h.op = "cancel_steps"
  BY <1>1, SettlingShape
<1>7. /\ h.task \in Tasks /\ h.task[1] \in AttemptNumber /\ h.task[2] \in Steps
      /\ \A t \in Tasks :
           task'[t] = IF /\ t = h.task
                         /\ \/ h.op \in {"task_insert", "task_run"}
                            \/ h.op \in {"task_complete", "task_settle"} /\ Live(t)
                      THEN h.to ELSE task[t]
      /\ \A s \in Steps :
           stepTask'[s] = IF h.op = "step_link" /\ s = h.task[2]
                          THEN h.task[1] ELSE stepTask[s]
      /\ h.op # "cancel_steps" => \A s \in Steps :
           step'[s] = IF h.op = "step_set" /\ s = h.task[2]
                      THEN h.to ELSE step[s]
  BY <1>1, StatementTasks
<1>8. /\ h.op = "task_complete" => h.to = "completed"
      /\ h.op = "task_insert" => h.to = "created"
      /\ h.op = "task_run" => h.to = "running"
  <2>1. h \in Stmts /\ h.to \in Writes[h.op]
    BY <1>1, StatementShape, StmtFields
  <2>  QED  BY <2>1, WritesValues
<1>9. /\ \A s \in Range(stmts) : KnowsSteps(s) /\ s \in Stmts
      /\ \A s \in rest : s.task \in Tasks /\ s.task[2] \in Steps
  <2>1. \A s \in Range(stmts) : KnowsSteps(s) /\ s \in Stmts
    BY RangeOfSeq DEF StepInv, WorkflowInv, ProcessTypeOK
  <2>  QED  BY <1>2, <2>1, StmtFields
<1>10. ASSUME NEW s \in rest, CompletesStep(s)
       PROVE  KnowsSteps(s)'
  <2>1. KnowsSteps(s) /\ h.op \in CompletionOps /\ Range(stmts') \subseteq rest
    BY <1>2, <1>6, <1>9, <1>10 DEF KnowsSteps, CompletionOps
  <2>2. /\ runner'.pc # "step" /\ DependsOn[s.task[2]] \subseteq StepsDone'
        /\ \A r \in Range(stmts') : r.op \in CompletionOps
    BY <1>2, <1>4, <1>10, <2>1 DEF KnowsSteps
  <2>3. ASSUME job' # "timed_out"
        PROVE  /\ Linked(s.task)'
               /\ \/ task'[s.task] = "completed"
                  \/ Live(s.task)' /\ PendingFor("task_complete", s.task)'
    <3>1. job' = job /\ stepTask'[s.task[2]] = stepTask[s.task[2]]
      BY <1>5, <1>7, <1>9, <2>1 DEF CompletionOps
    <3>2. Linked(s.task)'
      BY <1>10, <2>1, <2>3, <3>1 DEF KnowsSteps, Linked
    <3>3. CASE task[s.task] = "completed"
      BY <1>7, <1>9, <2>1, <3>2, <3>3 DEF CompletionOps, Live, NonTerminalTask
    <3>4. CASE Live(s.task) /\ PendingFor("task_complete", s.task)
      <4>1. CASE h.op = "task_complete" /\ h.task = s.task
        BY <1>7, <1>8, <3>2, <3>4, <4>1
      <4>2. CASE ~(h.op = "task_complete" /\ h.task = s.task)
        <5>1. task'[s.task] = task[s.task]
          BY <1>7, <1>9, <2>1, <4>2 DEF CompletionOps
        <5>2. PendingFor("task_complete", s.task)'
          BY <1>3, <3>4, <4>2
        <5>  QED  BY <3>2, <3>4, <5>1, <5>2 DEF Live
      <4>  QED  BY <4>1, <4>2
    <3>  QED  BY <1>10, <2>1, <2>3, <3>1, <3>3, <3>4 DEF KnowsSteps
  <2>4. s.op = "step_set" /\ s.to = "completed"
    BY <1>10 DEF CompletesStep
  <2>  QED  BY <2>2, <2>3, <2>4 DEF KnowsSteps, CompletesStep, SetUp
<1>11. ASSUME NEW s \in Range(stmts')
       PROVE  KnowsSteps(s)'
  <2>1. CASE s.op \in {"credit_refund", "task_settle"}
    BY <2>1 DEF KnowsSteps, SetUp, CompletesStep
  <2>2. ASSUME s \in Range(stmts), s \in rest \/ s = h, s.op = "cancel_steps"
        PROVE  KnowsSteps(s)'
    <3>1. Pending("job_cancel") /\ \A r \in Range(stmts) : r.op \in CancelOps
      BY <1>9, <2>2 DEF KnowsSteps
    <3>2. h.op # "job_cancel"
      BY <1>2, <2>2 DEF Before
    <3>3. Pending("job_cancel")'
      BY <1>3, <3>1, <3>2
    <3>4. \A r \in Range(stmts') : r.op \in CancelOps
      BY <1>2, <1>6, <3>1 DEF CancelOps
    <3>  QED  BY <2>2, <3>3, <3>4 DEF KnowsSteps, SetUp, CompletesStep
  <2>3. ASSUME s \in rest, s.op \in SetUp
        PROVE  KnowsSteps(s)'
    <3>1. /\ runner'.pc = "step" /\ s.task = CurrentTask'
          /\ \A r \in Range(stmts') : r.op = "step_set" => r.to = "running"
      BY <1>2, <1>6, <1>9, <2>3 DEF KnowsSteps, CurrentTask
    <3>  QED  BY <2>3, <3>1 DEF KnowsSteps, SetUp, CompletesStep
  <2>4. ASSUME s \in rest, s.op = "step_set", s.to # "completed"
        PROVE  KnowsSteps(s)'
    <3>1. s.task[2] \notin StepsDone'
      BY <1>2, <1>4, <1>9, <2>4 DEF KnowsSteps
    <3>  QED  BY <2>4, <3>1 DEF KnowsSteps, SetUp, CompletesStep
  <2>5. ASSUME s.op \notin SetUp \cup {"step_set", "cancel_steps"}
        PROVE  KnowsSteps(s)'
    BY <2>5 DEF KnowsSteps, CompletesStep
  <2>6. s \in rest \/ (s = h /\ s.op = "cancel_steps")
                   \/ s.op \in {"credit_refund", "task_settle"}
    BY <1>6
  <2>  QED  BY <1>2, <1>10, <2>1, <2>2, <2>3, <2>4, <2>5, <2>6 DEF CompletesStep
<1>12. LateDispatches'
  BY <1>2 DEF StepInv, LateDispatches
<1>13. RunnerFitsSteps'
  <2>1. RunnerFitsSteps  BY DEF StepInv
  <2>2. \A s \in runner'.completed : s \in StepsDone' \/ StepToComplete(s)'
    BY <1>2, <1>3, <1>4, <2>1 DEF RunnerFitsSteps
  <2>3. runner'.pc = "step" => /\ runner'.at \notin StepsDone'
                               /\ DependsOn[runner'.at] \subseteq StepsDone'
    BY <1>2, <1>4, <2>1 DEF RunnerFitsSteps, KnowsSteps
  <2>4. ASSUME runner.pc = "step", job' = "running",
               ~Pending("job_cancel")', ~Pending("job_finish")'
        PROVE  StepAwaited'
    <3>1. /\ job = "running" /\ h.op \notin {"job_cancel", "job_finish"}
      BY <1>5, <2>4
    <3>2. ~Pending("job_cancel") /\ ~Pending("job_finish")
      BY <1>3, <2>4, <3>1
    <3>3. StepAwaited
      BY <2>1, <2>4, <3>1, <3>2 DEF RunnerFitsSteps
    <3>4. h.op # "cancel_steps"
      BY <1>2, <3>2 DEF KnowsSteps
    <3>5. CurrentTask' = CurrentTask /\ CurrentTask[2] = runner.at
      BY <1>2 DEF CurrentTask
    <3>6. CurrentTask \in Tasks /\ runner.at \in Steps
      BY <2>4, TaskNames DEF WorkflowInv, RunnerFitsRows, CurrentTask
    <3>7. h.op \in SetUp => h.task = CurrentTask
      BY <1>2 DEF KnowsSteps
    <3>8. Live(CurrentTask)' \/ PendingFor("task_insert", CurrentTask)'
      <4>1. CASE h.op \in {"task_insert", "task_run"}
        <5>1. task'[CurrentTask] \in NonTerminalTask
          BY <1>7, <1>8, <3>7, <4>1 DEF SetUp, NonTerminalTask
        <5>  QED  BY <3>5, <5>1 DEF Live
      <4>2. CASE h.op \notin {"task_insert", "task_run"}
        <5>1. h.op \in {"task_complete", "task_settle"} => h.task # CurrentTask
          BY <1>2, <3>3 DEF StepAwaited
        <5>2. task'[CurrentTask] = task[CurrentTask]
          BY <1>7, <3>6, <4>2, <5>1
        <5>3. PendingFor("task_insert", CurrentTask)
                => PendingFor("task_insert", CurrentTask)'
          <6>1. \A t : PendingFor("task_insert", t) => PendingFor("task_insert", t)'
            BY <1>3, <4>2
          <6>  QED  BY <3>5, <6>1 DEF PendingFor
        <5>  QED  BY <3>3, <3>5, <5>2, <5>3 DEF StepAwaited, Live
      <4>  QED  BY <4>1, <4>2
    <3>9. Linked(CurrentTask)' \/ Pending("step_link")'
      <4>1. CASE h.op = "step_link"
        <5>1. stepTask'[runner.at] = CurrentTask[1]
          BY <1>7, <3>5, <3>6, <3>7, <4>1 DEF SetUp
        <5>  QED  BY <3>5, <5>1 DEF Linked
      <4>2. CASE h.op # "step_link"
        <5>1. stepTask'[runner.at] = stepTask[runner.at]
          BY <1>7, <3>6, <4>2
        <5>  QED  BY <1>3, <3>3, <3>5, <4>2, <5>1 DEF StepAwaited, Linked
      <4>  QED  BY <4>1, <4>2
    <3>10. step'[runner.at] = "running" \/ StepToRun(runner.at)'
      <4>1. h.op = "step_set" => h.to = "running"
        BY <1>2, <3>3 DEF StepAwaited
      <4>2. step[runner.at] = "running" => step'[runner.at] = "running"
        BY <1>7, <3>4, <3>6, <4>1
      <4>3. CASE StepToRun(runner.at)
        <5>1. PICK r \in Range(stmts) :
                r.op = "step_set" /\ r.to = "running" /\ r.task[2] = runner.at
          BY <4>3 DEF StepToRun
        <5>2. CASE r = h
          BY <1>7, <3>4, <3>6, <5>1, <5>2
        <5>3. CASE r # h
          <6>1. r \in Range(stmts')
            BY <1>1, <1>2, <5>3, StatementShape
          <6>  QED  BY <1>2, <5>1, <6>1 DEF StepToRun
        <5>  QED  BY <5>2, <5>3
      <4>  QED  BY <3>3, <4>2, <4>3 DEF StepAwaited
    <3>11. \A r \in Range(stmts') :
             /\ r.op \in {"task_settle", "task_complete"} => r.task # CurrentTask
             /\ r.op = "step_set" => r.to = "running"
      BY <1>2, <1>6, <3>3, <3>4 DEF StepAwaited
    <3>  QED  BY <1>2, <3>5, <3>8, <3>9, <3>10, <3>11 DEF StepAwaited
  <2>  QED  BY <1>2, <2>2, <2>3, <2>4 DEF RunnerFitsSteps
<1>14. DependenciesFirst'
  <2>1. \A s \in Steps : s \in StepsDone <=> step[s] = "completed"
    BY DEF StepsDone
  <2>3. \A s \in StepsDone : DependsOn[s] \subseteq StepsDone
    <3>1. \A s \in Steps : DependsOn[s] \subseteq Steps
      BY WorkflowAssumption
    <3>  QED  BY <2>1, <3>1 DEF StepInv, DependenciesFirst, StepsDone
  <2>4. \A s \in StepsDone' : DependsOn[s] \subseteq StepsDone'
    BY <1>2, <1>4, <2>3 DEF KnowsSteps
  <2>  QED  BY <2>4 DEF DependenciesFirst, StepsDone
<1>15. StepsDelivered'
  <2>  SUFFICES ASSUME job' # "timed_out", NEW s \in StepsDone'
                PROVE  /\ stepTask'[s] # 0
                       /\ task'[<<stepTask'[s], s>>] = "completed"
    BY DEF StepsDelivered
  <2>1. job # "timed_out" /\ s \in Steps
    BY <1>5 DEF StepsDone, TerminalJob
  <2>2. CASE s \in StepsDone
    <3>  DEFINE t == <<stepTask[s], s>>
    <3>1. stepTask[s] # 0 /\ task[t] = "completed"
      BY <2>1, <2>2 DEF StepInv, StepsDelivered
    <3>2. t \in Tasks /\ t[2] = s
      <4>1. stepTask[s] \in AttemptNumber
        BY <2>1, <3>1, WorkflowAssumption DEF WorkflowInv, RowsTypeOK, AttemptNumber
      <4>  QED  BY <2>1, <4>1, TaskNames
    <3>3. h.op \in SetUp => h.task[2] # s
      <4>1. h.op \in SetUp => runner.at \notin StepsDone /\ h.task[2] = runner.at
        BY <1>2 DEF KnowsSteps, CurrentTask, StepInv, RunnerFitsSteps
      <4>  QED  BY <2>2, <4>1
    <3>4. stepTask'[s] = stepTask[s]
      BY <1>7, <2>1, <3>3 DEF SetUp
    <3>5. task'[t] = task[t]
      <4>1. ~Live(t)  BY <3>1 DEF Live, NonTerminalTask
      <4>  HIDE DEF t
      <4>  QED  BY <1>7, <3>2, <3>3, <4>1 DEF SetUp
    <3>  QED  BY <3>1, <3>4, <3>5
  <2>3. CASE s \notin StepsDone
    <3>1. CompletesStep(h) /\ s = h.task[2] /\ rest = {}
      BY <1>4, <2>3
    <3>2. ~PendingFor("task_complete", h.task)
      BY <1>2, <3>1 DEF PendingFor, CompletesStep
    <3>3. Linked(h.task) /\ task[h.task] = "completed"
      BY <1>2, <2>1, <3>1, <3>2 DEF KnowsSteps
    <3>4. stepTask'[s] = stepTask[s] /\ task'[h.task] = task[h.task]
      BY <1>7, <2>1, <3>1 DEF CompletesStep
    <3>5. h.task = <<h.task[1], s>> /\ h.task[1] \in AttemptNumber
      BY <1>7, <3>1, TaskNames
    <3>6. stepTask'[s] = h.task[1]
      BY <3>1, <3>3, <3>4 DEF Linked
    <3>7. stepTask'[s] # 0
      BY <3>5, <3>6 DEF AttemptNumber
    <3>  QED  BY <3>3, <3>4, <3>5, <3>6, <3>7
  <2>  QED  BY <2>2, <2>3
<1>16. Ordered(stmts')
  BY StatementOrder DEF StepInv
<1>  QED
  BY <1>11, <1>12, <1>13, <1>14, <1>15, <1>16 DEF StepInv

\* A callback that leaves the rows alone and writes no dispatch, no cancellation
\* and no completed step.
LEMMA CallbackKeepsSteps ==
  ASSUME WorkflowInv, StepInv, stmts = <<>>, rowVars' = rowVars,
         \A s \in Range(stmts') :
           /\ s.op \notin SetUp \cup {"cancel_steps", "job_cancel"}
           /\ s.op = "step_set" =>
                s.to # "completed" /\ s.task[2] \notin StepsDone,
         LateDispatches',
         \/ /\ runner'.pc # "step"
            /\ runner'.completed \subseteq runner.completed \cup StepsDone
         \/ /\ runner'.pc = runner.pc /\ runner'.at = runner.at
            /\ runner'.completed = runner.completed
            /\ \/ job # "running" \/ Pending("job_finish")'
               \/ \A s \in Range(stmts') :
                    /\ s.op # "step_set"
                    /\ s.op \in {"task_settle", "task_complete"}
                         => s.task # CurrentTask
  PROVE  StepInv'
<1>1. /\ StepsDone' = StepsDone /\ step' = step /\ stepTask' = stepTask
      /\ task' = task /\ job' = job /\ attempts' = attempts
  BY DEF rowVars, StepsDone
<1>2. ASSUME NEW s \in Range(stmts') PROVE KnowsSteps(s)'
  BY <1>1 DEF KnowsSteps, CompletesStep
<1>3. Ordered(stmts')
  BY OrderedFree DEF CompletesStep, SetUp
<1>4. /\ \A op : ~Pending(op) /\ \A t : ~PendingFor(op, t)
      /\ \A s : ~StepToComplete(s) /\ ~StepToRun(s)
  BY TupleRange DEF Pending, PendingFor, StepToComplete, StepToRun
<1>5. runner'.completed \subseteq StepsDone
  BY <1>4 DEF StepInv, RunnerFitsSteps
<1>6. CASE runner'.pc # "step"
  <2>1. RunnerFitsSteps'
    BY <1>1, <1>5, <1>6 DEF RunnerFitsSteps
  <2>  QED  BY <1>1, <1>2, <1>3, <2>1
            DEF StepInv, DependenciesFirst, StepsDelivered
<1>7. CASE runner'.pc = "step"
  <2>1. /\ runner.pc = "step" /\ runner'.at = runner.at
        /\ CurrentTask' = CurrentTask
    BY <1>1, <1>7 DEF CurrentTask
  <2>2. job = "running" => StepAwaited
    BY <1>4, <2>1 DEF StepInv, RunnerFitsSteps
  <2>3. job' = "running" => Pending("job_finish")' \/ StepAwaited'
    <3>  SUFFICES ASSUME job = "running", ~Pending("job_finish")'
                  PROVE  StepAwaited'
      BY <1>1
    <3>1. \A s \in Range(stmts') :
            /\ s.op # "step_set"
            /\ s.op \in {"task_settle", "task_complete"} => s.task # CurrentTask
      BY <1>7
    <3>2. Live(CurrentTask) /\ Linked(CurrentTask) /\ step[runner.at] = "running"
      BY <1>4, <2>2 DEF StepAwaited
    <3>3. Live(CurrentTask)' /\ Linked(CurrentTask)' /\ step'[runner'.at] = "running"
      BY <1>1, <2>1, <3>2 DEF Live, Linked
    <3>  QED  BY <2>1, <3>1, <3>3 DEF StepAwaited
  <2>4. RunnerFitsSteps'
    BY <1>1, <1>5, <2>1, <2>3 DEF StepInv, RunnerFitsSteps
  <2>  QED  BY <1>1, <1>2, <1>3, <2>4
            DEF StepInv, DependenciesFirst, StepsDelivered
<1>  QED  BY <1>6, <1>7

LEMMA StepInvInit == Init => StepInv
<1>  SUFFICES ASSUME Init PROVE StepInv  OBVIOUS
<1>1. /\ stmts = <<>> /\ late = {} /\ runner.pc = "none" /\ runner.completed = {}
      /\ \A s \in Steps : step[s] # "completed"
  BY DEF Init, NoRunner
<1>2. StepsDone = {} /\ Range(stmts) = {} /\ Ordered(stmts)
  BY <1>1, TupleRange, OrderedTuples DEF StepsDone
<1>  QED  BY <1>1, <1>2 DEF StepInv, LateDispatches, RunnerFitsSteps,
          DependenciesFirst, StepsDelivered

LEMMA EnqueueKeepsSteps ==
  ASSUME WorkflowInv, SettleInv, StepInv, EnqueueWorkflow
  PROVE  StepInv'
<1>1. /\ stmts = <<>> /\ rowVars' = rowVars /\ runner' = runner /\ late' = late
      /\ stmts' = << RowStmt("job_insert", "queued") >> /\ job = "none"
  BY DEF EnqueueWorkflow, Idle
<1>2. \A s \in Range(stmts') : s.op = "job_insert"
  BY <1>1, TupleRange DEF RowStmt, Stmt
<1>3. LateDispatches'
  BY <1>1 DEF StepInv, LateDispatches, rowVars
<1>  QED  BY <1>1, <1>2, <1>3, CallbackKeepsSteps DEF SetUp

\* The attempt that starts is later than every dispatch that is still out.
LEMMA ClaimKeepsSteps ==
  ASSUME WorkflowInv, SettleInv, StepInv, ClaimNextDueJob
  PROVE  StepInv'
<1>1. /\ stmts = <<>> /\ stmts' = << RowStmt("workflow_run", "running") >>
      /\ job \in ClaimableJob /\ job' = "running"
      /\ attempts' = attempts + 1 /\ late' = late
      /\ runner' = [NoRunner EXCEPT !.pc = "loop", !.at = 1, !.watched = TRUE]
      /\ step' = step /\ stepTask' = stepTask /\ task' = task
  BY DEF ClaimNextDueJob, Idle
<1>2. /\ runner'.pc = "loop" /\ runner'.completed = {}
      /\ StepsDone' = StepsDone /\ job # "timed_out"
  BY <1>1 DEF NoRunner, StepsDone, ClaimableJob
<1>3. \A s \in Range(stmts') : s.op = "workflow_run"
  BY <1>1, TupleRange DEF RowStmt, Stmt
<1>4. \A s \in Range(stmts') : KnowsSteps(s)'
  BY <1>3 DEF KnowsSteps, SetUp, CompletesStep
<1>5. Ordered(stmts')
  BY <1>3, OrderedFree DEF CompletesStep
<1>6. LateDispatches'
  <2>1. attempts \in Nat /\ \A t \in late : t[1] \in Nat
    <3>1. \A t \in Tasks : t[1] \in AttemptNumber
      BY TaskNames
    <3>  QED  BY <3>1, WorkflowAssumption
              DEF WorkflowInv, RowsTypeOK, ProcessTypeOK, AttemptNumber
  <2>2. \A t \in late : t[1] <= attempts
    BY DEF StepInv, LateDispatches
  <2>  QED  BY <1>1, <2>1, <2>2 DEF LateDispatches
<1>7. RunnerFitsSteps'
  BY <1>2 DEF RunnerFitsSteps
<1>  QED  BY <1>1, <1>2, <1>4, <1>5, <1>6, <1>7
          DEF StepInv, DependenciesFirst, StepsDelivered

LEMMA CrashKeepsSteps ==
  ASSUME WorkflowInv, SettleInv, StepInv, Crash
  PROVE  StepInv'
<1>1. /\ runner' = NoRunner /\ stmts' = <<>> /\ late' = {} /\ rowVars' = rowVars
  BY DEF Crash
<1>2. /\ runner'.pc = "none" /\ runner'.completed = {} /\ Range(stmts') = {}
      /\ Ordered(stmts')
  BY <1>1, TupleRange, OrderedTuples DEF NoRunner
<1>  QED  BY <1>1, <1>2 DEF StepInv, LateDispatches, RunnerFitsSteps,
          DependenciesFirst, StepsDelivered, StepsDone, rowVars

\* Recovery writes of a step only that it failed, and only if it was running.
LEMMA RecoverWrites ==
  ASSUME WorkflowInv, Recover
  PROVE  \A s \in Range(stmts') :
           /\ s.op \notin SetUp \cup {"cancel_steps", "job_cancel", "task_complete"}
           /\ s.op = "step_set" =>
                s.to # "completed" /\ s.task[2] \notin StepsDone
<1>0. stmts = <<>> /\ phase \in Phases
  BY DEF Recover, WorkflowInv, ProcessTypeOK
<1>1. CASE stmts' = stmts
  BY <1>0, <1>1, TupleRange
<1>2. CASE stmts' \in PassWork("jobs")
  <2>  DEFINE a == RowStmt("job_retry", "queued")
              b == RowStmt("job_finish", "failed")
              c == RowStmt("workflow_finish", "failed")
  <2>1. stmts' = <<a>> \/ stmts' = <<b, c>>
    BY <1>2 DEF PassWork, RecoverStaleJob
  <2>2. /\ a.op = "job_retry" /\ b.op = "job_finish" /\ c.op = "workflow_finish"
    BY DEF RowStmt, Stmt
  <2>  HIDE DEF a, b, c
  <2>3. Range(stmts') = {a} \/ Range(stmts') = {b, c}
    BY <2>1, TupleRange
  <2>  QED  BY <2>2, <2>3 DEF SetUp
<1>3. CASE stmts' \in PassWork(phase) /\ phase # "jobs"
  <2>  DEFINE a(op, t) == Stmt(op, t, "failed")
  <2>1. \/ \E t : stmts' = << a("exec_set", t) >>
        \/ \E t : stmts' = << a("task_settle", t) >>
        \/ \E t : stmts' = << a("workflow_finish", t) >>
        \/ \E s \in Steps :
             step[s] = "running" /\ stmts' = << a("step_set", <<1, s>>) >>
    BY <1>0, <1>3
    DEF PassWork, Phases, OrphanExecutions, OrphanTasks, OrphanSteps, RowStmt,
        Recover
  <2>2. \A op, t : a(op, t).op = op /\ a(op, t).to = "failed" /\ a(op, t).task = t
    BY DEF Stmt
  <2>  HIDE DEF a
  <2>3. \A b : stmts' = <<b>> => Range(stmts') = {b}
    BY TupleRange
  <2>4. CASE \E s \in Steps :
               step[s] = "running" /\ stmts' = << a("step_set", <<1, s>>) >>
    BY <2>2, <2>3, <2>4 DEF SetUp, StepsDone
  <2>5. CASE \E op \in {"exec_set", "task_settle", "workflow_finish"} :
               \E t : stmts' = << a(op, t) >>
    <3>1. PICK op \in {"exec_set", "task_settle", "workflow_finish"} :
            \E t : stmts' = << a(op, t) >>
      BY <2>5
    <3>2. PICK t : stmts' = << a(op, t) >>
      BY <3>1
    <3>3. Range(stmts') = {a(op, t)}
      BY <2>3, <3>2
    <3>  QED  BY <2>2, <3>3 DEF SetUp
  <2>  QED  BY <2>1, <2>4, <2>5
<1>  QED  BY <1>0, <1>1, <1>2, <1>3 DEF Recover

LEMMA RecoverKeepsSteps ==
  ASSUME WorkflowInv, SettleInv, StepInv, Recover
  PROVE  StepInv'
<1>1. /\ stmts = <<>> /\ rowVars' = rowVars /\ runner' = runner
      /\ late' = late /\ runner.pc = "none"
  BY DEF Recover, WorkflowInv, RunnerFitsRows
<1>2. LateDispatches'
  BY <1>1 DEF StepInv, LateDispatches, rowVars
<1>  QED  BY <1>1, <1>2, RecoverWrites, CallbackKeepsSteps

\* When the event loop is free, the step that a run of a running job awaits is
\* marked running and linked to its open task.
LEMMA AwaitedStep ==
  ASSUME WorkflowInv, StepInv, stmts = <<>>, runner.pc = "step", job = "running"
  PROVE  /\ Live(CurrentTask) /\ Linked(CurrentTask)
         /\ step[runner.at] = "running"
<1>1. /\ \A op : ~Pending(op) /\ \A t : ~PendingFor(op, t)
      /\ \A s : ~StepToRun(s)
  BY TupleRange DEF Pending, PendingFor, StepToRun
<1>  QED  BY <1>1 DEF StepInv, RunnerFitsSteps, StepAwaited

LEMMA CancelTaskKeepsSteps ==
  ASSUME WorkflowInv, SettleInv, StepInv, NEW t \in Tasks, CancelTask(t)
  PROVE  StepInv'
<1>  DEFINE a == Stmt("task_settle", t, "cancelled")
<1>1. /\ stmts = <<>> /\ rowVars' = rowVars /\ runner' = runner /\ late' = late
      /\ stmts' = <<a>> /\ ~(Linked(t) /\ job \in ActiveJob)
  BY DEF CancelTask, Idle
<1>2. a.op = "task_settle" /\ a.task = t
  BY DEF Stmt
<1>  HIDE DEF a
<1>3. Range(stmts') = {a}
  BY <1>1, TupleRange
<1>4. runner.pc = "step" /\ job = "running" => t # CurrentTask
  BY <1>1, AwaitedStep DEF ActiveJob
<1>5. LateDispatches'
  BY <1>1 DEF StepInv, LateDispatches, rowVars
<1>  QED  BY <1>1, <1>2, <1>3, <1>4, <1>5, CallbackKeepsSteps DEF SetUp

LEMMA StepTimeoutKeepsSteps ==
  ASSUME WorkflowInv, SettleInv, StepInv, StepTimeout
  PROVE  StepInv'
<1>  DEFINE a == Stmt("exec_set", CurrentTask, "failed")
            b == Stmt("task_settle", CurrentTask, "failed")
            c == Stmt("step_set", CurrentTask, "failed")
<1>1. /\ stmts = <<>> /\ rowVars' = rowVars /\ runner.pc = "step"
      /\ runner \in Runners /\ late' = late \cup {CurrentTask}
      /\ runner' = [runner EXCEPT !.pc = "synthesis", !.failed = TRUE,
                                  !.retryable = TRUE]
      /\ stmts' = <<a, b, c>>
  BY DEF StepTimeout, Idle, WorkflowInv, ProcessTypeOK
<1>2. /\ runner'.pc = "synthesis" /\ runner'.completed = runner.completed
      /\ CurrentTask[1] = attempts /\ CurrentTask[2] = runner.at
      /\ attempts \in Nat /\ attempts' = attempts
  BY <1>1, WorkflowAssumption DEF Runners, CurrentTask, WorkflowInv, RowsTypeOK, rowVars
<1>3. /\ a.op = "exec_set" /\ b.op = "task_settle" /\ c.op = "step_set"
      /\ c.to = "failed" /\ c.task = CurrentTask
  BY DEF Stmt
<1>  HIDE DEF a, b, c
<1>4. Range(stmts') = {a, b, c}
  BY <1>1, TupleRange
<1>5. LateDispatches'
  BY <1>1, <1>2 DEF StepInv, LateDispatches
<1>6. runner.at \notin StepsDone
  BY <1>1 DEF StepInv, RunnerFitsSteps
<1>  QED  BY <1>1, <1>2, <1>3, <1>4, <1>5, <1>6, CallbackKeepsSteps DEF SetUp

\* The three ways a dispatch settles: too late, without a delivery for the run
\* that awaits it, and with one.
LateAnswer(t) ==
  /\ t \in late /\ runner' = runner /\ late' = late \ {t}
  /\ \A s \in Range(stmts') : s.op # "step_set"
NotDelivered(t) ==
  /\ runner.pc = "step" /\ t = CurrentTask /\ late' = late
  /\ runner'.pc = "synthesis" /\ runner'.completed = runner.completed
  /\ \A s \in Range(stmts') :
       /\ s.op = "step_set" => s.to # "completed"
       /\ s.op = "task_complete" => job = "cancelled"
Delivered(t) ==
  /\ runner.pc = "step" /\ t = CurrentTask /\ late' = late /\ job # "cancelled"
  /\ runner'.pc = "loop" /\ runner'.completed = runner.completed \cup {t[2]}
  /\ \E a, b, c : /\ stmts' = <<a, b>> \o <<c>>
                  /\ a.op = "exec_set" /\ b.op = "task_complete"
                  /\ CompletesStep(c) /\ c.task = t

LEMMA DispatchCases ==
  ASSUME WorkflowInv, NEW t \in Tasks, DispatchSucceeds(t) \/ DispatchFails(t)
  PROVE  /\ \A s \in Range(stmts') : s.task = t
         /\ \E s \in Range(stmts') : s.op \in {"task_settle", "task_complete"}
         /\ LateAnswer(t) \/ NotDelivered(t) \/ Delivered(t)
<1>1. runner \in Runners
  BY DEF WorkflowInv, ProcessTypeOK
<1>2. ASSUME NEW a, NEW b, NEW c, NEW r,
             DispatchSettles(t, <<a, b>>, r, <<c>>)
      PROVE  \/ /\ t \in late /\ late' = late \ {t} /\ runner' = runner
                /\ Range(stmts') = {a, b}
             \/ /\ runner.pc = "step" /\ t = CurrentTask
                /\ late' = late /\ runner' = r
                /\ stmts' = <<a, b>> \o <<c>> /\ Range(stmts') = {a, b, c}
  BY <1>2, PlanRange, TupleRange DEF DispatchSettles, Awaited
<1>3. CASE DispatchSucceeds(t)
  <2>  DEFINE a == Stmt("exec_set", t, "completed")
              b == Stmt("task_complete", t, "completed")
              c == Stmt("step_set", t, IF JobCancelled THEN "cancelled"
                                                       ELSE "completed")
              r == IF JobCancelled
                   THEN [runner EXCEPT !.pc = "synthesis", !.cancelled = TRUE]
                   ELSE [ToNextStep EXCEPT !.pc = "loop",
                                           !.completed = @ \cup {t[2]}]
  <2>1. DispatchSettles(t, <<a, b>>, r, <<c>>)
    BY <1>3 DEF DispatchSucceeds
  <2>2. IF job = "cancelled"
        THEN r.pc = "synthesis" /\ r.completed = runner.completed
        ELSE r.pc = "loop" /\ r.completed = runner.completed \cup {t[2]}
    BY <1>1 DEF Runners, ToNextStep, JobCancelled
  <2>3. /\ a.op = "exec_set" /\ b.op = "task_complete" /\ c.op = "step_set"
        /\ a.task = t /\ b.task = t /\ c.task = t
        /\ IF job = "cancelled" THEN c.to = "cancelled" ELSE c.to = "completed"
    BY DEF Stmt, JobCancelled
  <2>  HIDE DEF a, b, c, r
  <2>4. CASE /\ t \in late /\ late' = late \ {t} /\ runner' = runner
             /\ Range(stmts') = {a, b}
    BY <2>3, <2>4 DEF LateAnswer
  <2>5. CASE /\ runner.pc = "step" /\ t = CurrentTask
             /\ late' = late /\ runner' = r
             /\ stmts' = <<a, b>> \o <<c>> /\ Range(stmts') = {a, b, c}
    <3>1. CASE job = "cancelled"
      BY <2>2, <2>3, <2>5, <3>1 DEF NotDelivered
    <3>2. CASE job # "cancelled"
      <4>1. Delivered(t)
        BY <2>2, <2>3, <2>5, <3>2 DEF Delivered, CompletesStep
      <4>  QED  BY <2>3, <2>5, <4>1
    <3>  QED  BY <3>1, <3>2
  <2>  QED  BY <1>2, <2>1, <2>4, <2>5
<1>4. CASE DispatchFails(t)
  <2>1. PICK retryable \in BOOLEAN :
          DispatchSettles(t,
            << Stmt("exec_set", t, "failed"), Stmt("task_settle", t, "failed") >>,
            [runner EXCEPT !.pc = "synthesis", !.failed = TRUE,
                           !.retryable = retryable],
            << Stmt("step_set", t, "failed") >>)
    BY <1>4 DEF DispatchFails
  <2>  DEFINE a == Stmt("exec_set", t, "failed")
              b == Stmt("task_settle", t, "failed")
              c == Stmt("step_set", t, "failed")
              r == [runner EXCEPT !.pc = "synthesis", !.failed = TRUE,
                                  !.retryable = retryable]
  <2>2. DispatchSettles(t, <<a, b>>, r, <<c>>)
    BY <2>1
  <2>3. r.pc = "synthesis" /\ r.completed = runner.completed
    BY <1>1 DEF Runners
  <2>4. /\ a.op = "exec_set" /\ b.op = "task_settle" /\ c.op = "step_set"
        /\ a.task = t /\ b.task = t /\ c.task = t /\ c.to = "failed"
    BY DEF Stmt
  <2>  HIDE DEF a, b, c, r
  <2>5. CASE /\ t \in late /\ late' = late \ {t} /\ runner' = runner
             /\ Range(stmts') = {a, b}
    BY <2>4, <2>5 DEF LateAnswer
  <2>6. CASE /\ runner.pc = "step" /\ t = CurrentTask
             /\ late' = late /\ runner' = r
             /\ stmts' = <<a, b>> \o <<c>> /\ Range(stmts') = {a, b, c}
    BY <2>3, <2>4, <2>6 DEF NotDelivered
  <2>  QED  BY <1>2, <2>2, <2>5, <2>6
<1>  QED  BY <1>3, <1>4

\* A late answer is of an earlier attempt, and a delivery is of the task that
\* its step names.
LEMMA DispatchKeepsSteps ==
  ASSUME WorkflowInv, SettleInv, StepInv, NEW t \in Tasks,
         DispatchSucceeds(t) \/ DispatchFails(t)
  PROVE  StepInv'
<1>1. /\ stmts = <<>> /\ rowVars' = rowVars
      /\ \A s \in Range(stmts') :
           s.op \in {"exec_set", "task_complete", "task_settle", "step_set"}
      /\ \A s \in Range(stmts') : s.task = t
      /\ LateAnswer(t) \/ NotDelivered(t) \/ Delivered(t)
  BY DispatchShape, DispatchCases
<1>2. CurrentTask[1] = attempts /\ CurrentTask[2] = runner.at /\ attempts \in Nat
  BY WorkflowAssumption DEF CurrentTask, WorkflowInv, RowsTypeOK
<1>3. CASE LateAnswer(t)
  <2>1. LateDispatches'
    BY <1>1, <1>3 DEF LateAnswer, StepInv, LateDispatches, rowVars
  <2>2. runner.pc = "step" => t # CurrentTask
    BY <1>2, <1>3 DEF LateAnswer, StepInv, LateDispatches
  <2>3. \A s \in Range(stmts') :
          s.op \in {"exec_set", "task_complete", "task_settle"}
    BY <1>1, <1>3 DEF LateAnswer
  <2>  QED  BY <1>1, <1>3, <2>1, <2>2, <2>3, CallbackKeepsSteps
            DEF LateAnswer, SetUp
<1>4. runner.pc = "step" => /\ runner.at \notin StepsDone
                            /\ DependsOn[runner.at] \subseteq StepsDone
  BY DEF StepInv, RunnerFitsSteps
<1>5. CASE NotDelivered(t)
  <2>1. LateDispatches'
    BY <1>1, <1>5 DEF NotDelivered, StepInv, LateDispatches, rowVars
  <2>  QED  BY <1>1, <1>2, <1>4, <1>5, <2>1, CallbackKeepsSteps
            DEF NotDelivered, SetUp
<1>6. CASE Delivered(t)
  <2>1. PICK a, b, c : /\ stmts' = <<a, b>> \o <<c>>
                       /\ a.op = "exec_set" /\ b.op = "task_complete"
                       /\ CompletesStep(c) /\ c.task = t
    BY <1>6 DEF Delivered
  <2>2. Range(stmts') = {a, b, c}
    BY <2>1, PlanRange
  <2>3. Ordered(stmts')
    <3>1. Before(a, b) /\ Before(a, c) /\ Before(b, c)
      BY <2>1 DEF Before, CompletesStep
    <3>2. /\ Ordered(<<a, b>>) /\ Ordered(<<c>>)
          /\ Range(<<a, b>>) = {a, b} /\ Range(<<c>>) = {c}
      BY <3>1, OrderedTuples, TupleRange
    <3>3. <<a, b>> \in Seq({a, b, c}) /\ <<c>> \in Seq({a, b, c})
      OBVIOUS
    <3>  QED  BY <2>1, <3>1, <3>2, <3>3, OrderedConcat
  <2>4. /\ StepsDone' = StepsDone /\ job' = job /\ attempts' = attempts
        /\ task' = task /\ stepTask' = stepTask /\ step' = step
    BY <1>1 DEF rowVars, StepsDone
  <2>5. KnowsSteps(c)'
    <3>1. job # "timed_out" => Live(t) /\ Linked(t)
      BY <1>1, <1>6, AwaitedStep DEF Delivered, SettleInv, RunnerFitsJob
    <3>2. PendingFor("task_complete", t)'
      BY <1>1, <2>1, <2>2 DEF PendingFor
    <3>3. \A r \in Range(stmts') : r.op \in CompletionOps
      BY <2>1, <2>2 DEF CompletionOps, CompletesStep
    <3>4. DependsOn[t[2]] \subseteq StepsDone' /\ runner'.pc # "step"
      BY <1>2, <1>4, <1>6, <2>4 DEF Delivered
    <3>5. job' # "timed_out" => Live(t)' /\ Linked(t)'
      BY <2>4, <3>1 DEF Live, Linked
    <3>  QED  BY <2>1, <3>2, <3>3, <3>4, <3>5
              DEF KnowsSteps, CompletesStep, SetUp
  <2>6. \A s \in {a, b} : KnowsSteps(s)'
    BY <2>1 DEF KnowsSteps, CompletesStep, SetUp
  <2>7. LateDispatches'
    BY <1>6, <2>4 DEF Delivered, StepInv, LateDispatches
  <2>8. RunnerFitsSteps'
    <3>1. \A s \in runner.completed : s \in StepsDone
      <4>1. \A s : ~StepToComplete(s)
        BY <1>1, TupleRange DEF StepToComplete
      <4>  QED  BY <4>1 DEF StepInv, RunnerFitsSteps
    <3>2. StepToComplete(t[2])'
      BY <2>1, <2>2 DEF StepToComplete
    <3>3. \A s \in runner'.completed : s \in StepsDone' \/ StepToComplete(s)'
      <4>1. \A s \in runner'.completed : s \in StepsDone' \/ s = t[2]
        BY <1>6, <2>4, <3>1 DEF Delivered
      <4>  QED  BY <3>2, <4>1
    <3>  QED  BY <1>6, <3>3 DEF Delivered, RunnerFitsSteps
  <2>9. DependenciesFirst' /\ StepsDelivered'
    BY <2>4 DEF StepInv, DependenciesFirst, StepsDelivered
  <2>  QED  BY <2>2, <2>3, <2>5, <2>6, <2>7, <2>8, <2>9 DEF StepInv
<1>  QED  BY <1>1, <1>3, <1>5, <1>6

LEMMA SynthesisWrites ==
  ASSUME SynthesisEnds
  PROVE  \A s \in Range(stmts') :
           s.op \in {"workflow_finish", "job_finish", "job_retry"}
<1>  DEFINE a == RowStmt("workflow_finish",
                         IF runner.failed THEN "failed" ELSE "completed")
            b == RowStmt("job_finish", "completed")
            c == RowStmt("job_retry", "retrying")
            d == RowStmt("job_finish", "failed")
            p == IF runner.cancelled THEN <<>> ELSE <<a>>
            q == IF runner.watched THEN HandlerPlan ELSE <<>>
            all == {a, b, c, d}
<1>1. stmts' = p \o q
  BY DEF SynthesisEnds
<1>2. q = <<>> \/ q = <<b>> \/ q = <<c>> \/ q = <<d>>
  BY DEF HandlerPlan
<1>3. \A s \in all : s.op \in {"workflow_finish", "job_finish", "job_retry"}
  BY DEF RowStmt, Stmt
<1>4. a \in all /\ b \in all /\ c \in all /\ d \in all
  OBVIOUS
<1>  HIDE DEF a, b, c, d, q, all
<1>5. p \in Seq(all) /\ q \in Seq(all)
  <2>1. <<>> \in Seq(all) /\ \A x \in all : <<x>> \in Seq(all)
    OBVIOUS
  <2>2. p = <<>> \/ p = <<a>>  OBVIOUS
  <2>  HIDE DEF p
  <2>  QED  BY <1>2, <1>4, <2>1, <2>2
<1>6. stmts' \in Seq(all)
  <2>  HIDE DEF p
  <2>  QED  BY <1>1, <1>5, ConcatRange
<1>7. \A s \in Range(stmts') : s \in all
  BY <1>6, RangeOfSeq
<1>  QED  BY <1>3, <1>7

LEMMA SynthesisKeepsSteps ==
  ASSUME WorkflowInv, SettleInv, StepInv, SynthesisEnds
  PROVE  StepInv'
<1>1. /\ stmts = <<>> /\ rowVars' = rowVars /\ runner' = NoRunner /\ late' = late
      /\ runner'.pc = "none" /\ runner'.completed = {}
  BY DEF SynthesisEnds, Idle, NoRunner
<1>2. LateDispatches'
  BY <1>1 DEF StepInv, LateDispatches, rowVars
<1>  QED  BY <1>1, <1>2, SynthesisWrites, CallbackKeepsSteps DEF SetUp

\* The step that an overall timeout marks was running, hence not completed.
LEMMA WorkflowTimeoutWrites ==
  ASSUME WorkflowInv, WorkflowTimeout
  PROVE  /\ \A s \in Range(stmts') :
              /\ s.op \in {"workflow_finish", "task_settle", "step_set", "job_finish"}
              /\ s.op = "step_set" =>
                   s.to # "completed" /\ s.task[2] \notin StepsDone
         /\ job # "cancelled" => Pending("job_finish")'
<1>  DEFINE a == RowStmt("workflow_finish", "failed")
            b == RowStmt("job_finish", "timed_out")
            q == IF JobCancelled THEN <<>> ELSE <<b>>
            Fine(s) == /\ s.op \in {"workflow_finish", "task_settle", "step_set",
                                    "job_finish"}
                       /\ s.op = "step_set" =>
                            s.to # "completed" /\ s.task[2] \notin StepsDone
            fine == {s \in Stmts : Fine(s)}
<1>1. PICK plan : /\ stmts' = <<a>> \o plan \o q
                  /\ \/ plan = <<>>
                     \/ \E s \in Steps : step[s] = "running" /\ plan = TimeoutPlan(s)
  BY DEF WorkflowTimeout
<1>2. /\ a \in Stmts /\ a.op = "workflow_finish"
      /\ b \in Stmts /\ b.op = "job_finish"
  BY TaskNames, StmtType, WritesValues DEF RowStmt, TerminalWorkflow, TerminalJob
<1>3. a \in fine /\ b \in fine
  BY <1>2
<1>4. plan \in Seq(fine)
  <2>1. ASSUME NEW s \in Steps, step[s] = "running", stepTask[s] # 0
        PROVE  TimeoutPlan(s) \in Seq(fine)
    <3>  DEFINE c == Stmt("task_settle", <<stepTask[s], s>>, "failed")
                d == Stmt("step_set", <<1, s>>, "failed")
    <3>1. stepTask[s] \in AttemptNumber
      BY <2>1, WorkflowAssumption DEF WorkflowInv, RowsTypeOK, AttemptNumber
    <3>2. /\ c \in Stmts /\ c.op = "task_settle"
          /\ d \in Stmts /\ d.op = "step_set"
      BY <3>1, TaskNames, StmtType, WritesValues DEF StepStatus
    <3>3. d.to # "completed" /\ d.task[2] \notin StepsDone
      BY <2>1 DEF Stmt, StepsDone
    <3>4. TimeoutPlan(s) = <<c, d>>
      BY <2>1 DEF TimeoutPlan
    <3>  HIDE DEF c, d
    <3>5. c \in fine /\ d \in fine
      BY <3>2, <3>3
    <3>  HIDE DEF fine
    <3>  QED  BY <3>4, <3>5
  <2>2. ASSUME NEW s \in Steps, stepTask[s] = 0
        PROVE  TimeoutPlan(s) = <<>>
    BY <2>2 DEF TimeoutPlan
  <2>3. <<>> \in Seq(fine)
    OBVIOUS
  <2>  HIDE DEF fine
  <2>  QED  BY <1>1, <2>1, <2>2, <2>3
<1>5. q = <<b>> \/ q = <<>>
  OBVIOUS
<1>6. job # "cancelled" => q = <<b>>
  BY DEF JobCancelled
<1>  HIDE DEF a, b, q, Fine, fine
<1>7. <<a>> \in Seq(fine) /\ q \in Seq(fine)
  <2>1. <<>> \in Seq(fine) /\ \A x \in fine : <<x>> \in Seq(fine)
    OBVIOUS
  <2>  QED  BY <1>3, <1>5, <2>1
<1>8. <<a>> \o plan \in Seq(fine)
  BY <1>4, <1>7, ConcatRange
<1>9. /\ stmts' \in Seq(fine)
      /\ Range(stmts') = Range(<<a>> \o plan) \cup Range(q)
  <2>1. PICK u : u = <<a>> \o plan
    OBVIOUS
  <2>2. u \in Seq(fine) /\ q \in Seq(fine)
    BY <1>7, <1>8, <2>1
  <2>3. /\ u \o q \in Seq(fine)
        /\ Range(u \o q) = Range(u) \cup Range(q)
    BY <2>2, ConcatRange
  <2>4. stmts' = u \o q
    BY <1>1, <2>1
  <2>  QED  BY <2>1, <2>3, <2>4
<1>10. \A s \in Range(stmts') : Fine(s)
  BY <1>9, RangeOfSeq DEF fine
<1>11. job # "cancelled" => b \in Range(stmts')
  BY <1>6, <1>9, TupleRange
<1>  QED  BY <1>2, <1>10, <1>11 DEF Pending, Fine

LEMMA WorkflowTimeoutKeepsSteps ==
  ASSUME WorkflowInv, SettleInv, StepInv, WorkflowTimeout
  PROVE  StepInv'
<1>1. /\ stmts = <<>> /\ rowVars' = rowVars /\ late' = late
      /\ runner'.pc = runner.pc /\ runner'.at = runner.at
      /\ runner'.completed = runner.completed
  BY DEF WorkflowTimeout, Idle, WorkflowInv, ProcessTypeOK, Runners
<1>2. LateDispatches'
  BY <1>1 DEF StepInv, LateDispatches, rowVars
<1>3. /\ \A s \in Range(stmts') :
           /\ s.op \notin SetUp \cup {"cancel_steps", "job_cancel"}
           /\ s.op = "step_set" =>
                s.to # "completed" /\ s.task[2] \notin StepsDone
      /\ job # "running" \/ Pending("job_finish")'
  BY WorkflowTimeoutWrites DEF SetUp
<1>  QED  BY <1>1, <1>2, <1>3, CallbackKeepsSteps

LEMMA CancelWorkflowKeepsSteps ==
  ASSUME WorkflowInv, SettleInv, StepInv, CancelWorkflow
  PROVE  StepInv'
<1>  DEFINE a == RowStmt("workflow_finish", "cancelled")
            b == RowStmt("cancel_steps", "none")
            c == RowStmt("job_cancel", "cancelled")
<1>1. /\ stmts = <<>> /\ stmts' = <<a, b, c>> /\ rowVars' = rowVars
      /\ runner' = runner /\ late' = late
  BY DEF CancelWorkflow, Idle
<1>2. a.op = "workflow_finish" /\ b.op = "cancel_steps" /\ c.op = "job_cancel"
  BY DEF RowStmt, Stmt
<1>  HIDE DEF a, b, c
<1>3. Range(stmts') = {a, b, c}
  BY <1>1, TupleRange
<1>4. Ordered(stmts')
  <2>1. Before(a, b) /\ Before(a, c) /\ Before(b, c)
    BY <1>2 DEF Before, CompletesStep
  <2>  QED  BY <1>1, <2>1, OrderedTuples
<1>5. Pending("job_cancel")' /\ \A s \in Range(stmts') : s.op \in CancelOps
  BY <1>2, <1>3 DEF Pending, CancelOps
<1>6. \A s \in Range(stmts') : KnowsSteps(s)'
  BY <1>2, <1>3, <1>5 DEF KnowsSteps, CompletesStep, SetUp
<1>7. StepsDone' = StepsDone /\ \A s : ~StepToComplete(s)
  BY <1>1, TupleRange DEF StepsDone, StepToComplete, rowVars
<1>8. RunnerFitsSteps'
  BY <1>1, <1>5, <1>7 DEF StepInv, RunnerFitsSteps
<1>9. LateDispatches' /\ DependenciesFirst' /\ StepsDelivered'
  BY <1>1, <1>7 DEF StepInv, LateDispatches, DependenciesFirst, StepsDelivered,
     rowVars
<1>  QED  BY <1>4, <1>6, <1>8, <1>9 DEF StepInv

LEMMA LoopKeepsSteps ==
  ASSUME WorkflowInv, SettleInv, StepInv, Loop
  PROVE  StepInv'
<1>1. /\ stmts = <<>> /\ runner.pc = "loop" /\ runner \in Runners
      /\ rowVars' = rowVars /\ late' = late
  BY DEF Loop, LeaveLoop, ResumeStep, SkipStep, RefuseStep, DispatchStep,
     AtStep, RunnerGoes, WorkflowInv, ProcessTypeOK
<1>2. LateDispatches'
  BY <1>1 DEF StepInv, LateDispatches, rowVars
<1>3. CASE LeaveLoop \/ \E s \in Steps : ResumeStep(s)
  <2>1. stmts' = stmts
    BY <1>3 DEF LeaveLoop, ResumeStep
  <2>2. /\ runner'.pc # "step"
        /\ runner'.completed \subseteq runner.completed \cup StepsDone
    <3>1. CASE LeaveLoop
      BY <1>1, <3>1 DEF LeaveLoop, RunnerGoes, Runners
    <3>2. ASSUME NEW s \in Steps, ResumeStep(s)
          PROVE  /\ runner'.pc = "loop"
                 /\ runner'.completed = runner.completed \cup {s}
                 /\ s \in StepsDone
      BY <1>1, <3>2 DEF ResumeStep, RunnerGoes, ToNextStep, Runners, StepsDone
    <3>3. CASE \E s \in Steps : ResumeStep(s)
      BY <3>2, <3>3
    <3>  QED  BY <1>3, <3>1, <3>3
  <2>  QED  BY <1>1, <1>2, <2>1, <2>2, TupleRange, CallbackKeepsSteps
<1>4. ASSUME NEW s \in Steps, SkipStep(s) \/ RefuseStep(s)
      PROVE  StepInv'
  <2>  DEFINE a(to) == Stmt("step_set", <<1, s>>, to)
  <2>1. \A to : a(to).op = "step_set" /\ a(to).task[2] = s /\ a(to).to = to
    BY DEF Stmt
  <2>2. stmts' = <<a("skipped")>> \/ stmts' = <<a("running"), a("failed")>>
    BY <1>4 DEF SkipStep, RefuseStep
  <2>3. /\ runner'.pc # "step" /\ runner'.completed = runner.completed
        /\ s \notin StepsDone
    BY <1>1, <1>4 DEF SkipStep, RefuseStep, RunnerGoes, ToNextStep, Runners,
       StepsDone, Runnable
  <2>  HIDE DEF a
  <2>4. \/ Range(stmts') = {a("skipped")}
        \/ Range(stmts') = {a("running"), a("failed")}
    BY <2>2, TupleRange
  <2>5. \A r \in Range(stmts') :
          r.op = "step_set" /\ r.to # "completed" /\ r.task[2] \notin StepsDone
    BY <2>1, <2>3, <2>4
  <2>  QED  BY <1>1, <1>2, <2>3, <2>5, CallbackKeepsSteps DEF SetUp
<1>5. ASSUME NEW s \in Steps, DispatchStep(s)
      PROVE  StepInv'
  <2>  PICK t : t = <<attempts, s>>
    OBVIOUS
  <2>1. /\ runner'.pc = "step" /\ runner'.at = s
        /\ runner'.completed = runner.completed
        /\ s \notin StepsDone /\ DependsOn[s] \subseteq runner.completed
    BY <1>1, <1>5 DEF DispatchStep, AtStep, RunnerGoes, Runners, StepsDone, Runnable
  <2>2. /\ StepsDone' = StepsDone /\ CurrentTask' = t /\ job' = job
        /\ step' = step /\ stepTask' = stepTask /\ task' = task
    BY <1>1, <2>1 DEF rowVars, StepsDone, CurrentTask
  <2>3. runner.completed \subseteq StepsDone
    <3>1. \A x : ~StepToComplete(x)
      BY <1>1, TupleRange DEF StepToComplete
    <3>  QED  BY <3>1 DEF StepInv, RunnerFitsSteps
  <2>4. t[2] = s  OBVIOUS
  <2>5. /\ Ordered(stmts')
        /\ \A r \in Range(stmts') :
             /\ r.op \in DispatchOps /\ r.task = t
             /\ r.op = "step_set" => r.to = "running"
        /\ PendingFor("task_insert", t)' /\ Pending("step_link")' /\ StepToRun(s)'
    BY <1>5, DispatchPlan
  <2>6. \A r \in Range(stmts') : KnowsSteps(r)'
    <3>1. \A r \in Range(stmts') :
            /\ ~CompletesStep(r) /\ r.op # "cancel_steps"
            /\ r.task[2] \notin StepsDone'
      BY <2>1, <2>2, <2>4, <2>5 DEF CompletesStep, DispatchOps
    <3>  QED  BY <2>1, <2>2, <2>5, <3>1 DEF KnowsSteps, CompletesStep
  <2>7. StepAwaited'
    <3>1. \A r \in Range(stmts') : r.op \notin {"task_settle", "task_complete"}
      BY <2>5 DEF DispatchOps
    <3>2. PendingFor("task_insert", CurrentTask)'
      BY <2>2, <2>5 DEF PendingFor
    <3>3. StepToRun(runner.at)'
      BY <2>1, <2>5 DEF StepToRun
    <3>  QED  BY <2>5, <3>1, <3>2, <3>3 DEF StepAwaited
  <2>8. RunnerFitsSteps'
    BY <2>1, <2>2, <2>3, <2>7 DEF RunnerFitsSteps
  <2>9. DependenciesFirst' /\ StepsDelivered'
    BY <2>2 DEF StepInv, DependenciesFirst, StepsDelivered
  <2>  QED  BY <1>2, <2>5, <2>6, <2>8, <2>9 DEF StepInv
<1>  QED  BY <1>3, <1>4, <1>5 DEF Loop

LEMMA StepInvStep ==
  ASSUME WorkflowInv, SettleInv, StepInv, [Next]_vars
  PROVE  StepInv'
<1>1. CASE UNCHANGED vars
  <2>1. /\ UNCHANGED <<step, stepTask, task, job, attempts, runner, late, stmts>>
        /\ StepsDone' = StepsDone
    BY <1>1 DEF vars, rowVars, procVars, StepsDone
  <2>  QED  BY <2>1 DEF StepInv, KnowsSteps, LateDispatches, RunnerFitsSteps,
            StepAwaited, DependenciesFirst, StepsDelivered, Pending, PendingFor,
            StepToComplete, StepToRun, CurrentTask, Linked, Live
<1>2. CASE \E t \in Tasks : DispatchSucceeds(t) \/ DispatchFails(t) \/ CancelTask(t)
  BY <1>2, DispatchKeepsSteps, CancelTaskKeepsSteps
<1>  QED
  BY <1>1, <1>2, LoopKeepsSteps, EnqueueKeepsSteps, ClaimKeepsSteps,
     StepTimeoutKeepsSteps, WorkflowTimeoutKeepsSteps, SynthesisKeepsSteps,
     CancelWorkflowKeepsSteps, StatementKeepsSteps, CrashKeepsSteps,
     RecoverKeepsSteps DEF Next

LEMMA StepInvariant == Spec => [](WorkflowInv /\ SettleInv /\ StepInv)
<1>1. Spec => []StepInv
  BY StepInvInit, StepInvStep, SettleInvariant, PTL DEF Spec
<1>  QED  BY <1>1, SettleInvariant, PTL

\* A step marked completed was delivered by the task it names, unless an overall
\* timeout left the run behind, and had all the steps it depends on completed,
\* in whatever attempts they ran (workflow-runner.ts, queue-repositories.ts).
THEOREM StepsCompletedSoundly == Spec => []CompletedStepsAreSound
<1>1. StepInv => CompletedStepsAreSound
  BY DEF StepInv, StepsDelivered, StepsDone, CompletedStepsAreSound,
     CompletedStepDelivered
<1>  QED  BY <1>1, StepInvariant, PTL

-----------------------------------------------------------------------------
(* Without a crash: open tasks and the credits they hold.                  *)

\* An open task is the one a run awaits, or is about to be settled.  The
\* cancellation finds the awaited one by its step, and after its last step
\* nothing is open.
OpenTasksOwned ==
  /\ \A t \in Tasks : Live(t) =>
       \/ runner.pc = "step" /\ t = CurrentTask
       \/ PendingFor("task_settle", t) \/ PendingFor("task_complete", t)
  /\ Pending("cancel_steps") /\ runner.pc = "step" /\ Live(CurrentTask) =>
       \/ step[runner.at] = "running" /\ Linked(CurrentTask)
       \/ PendingFor("task_settle", CurrentTask)
  /\ \/ job = "cancelled"
     \/ Pending("job_cancel") /\ ~Pending("cancel_steps")
     => \A t \in Tasks : ~Live(t)
TaskInv == boot = 1 => OpenTasksOwned

LEMMA StatementKeepsTasks ==
  ASSUME WorkflowInv, SettleInv, StepInv, TaskInv, Statement
  PROVE  TaskInv'
<1>1. PICK h, rest : h = Head(stmts) /\ rest = Range(Tail(stmts))
  OBVIOUS
<1>2. /\ h \in Range(stmts) /\ Range(stmts) = {h} \cup rest
      /\ Settles(h) /\ KnowsSteps(h) /\ \A r \in rest : Before(h, r)
      /\ runner' = runner /\ attempts' = attempts /\ boot' = boot
  BY <1>1, StatementContext
<1>3. /\ \A op : Pending(op) /\ op # h.op => Pending(op)'
      /\ \A op, t : PendingFor(op, t) /\ ~(op = h.op /\ t = h.task)
                      => PendingFor(op, t)'
  BY <1>1, StatementContext
<1>4. /\ \A t \in Tasks : Live(t)' =>
           Live(t) \/ (h.op \in {"task_insert", "task_run"} /\ t = h.task)
      /\ job' # job /\ job' = "cancelled" => h.op = "job_cancel"
  <2>1. job' # job => h.op \in {"job_insert", "job_cancel", "job_finish", "job_retry"}
    BY <1>1, StatementContext
  <2>2. job' # job => job' = To /\ To \in Writes[h.op]
    BY <1>1, StatementRows, StatementShape
  <2>3. job' # job /\ job' = "cancelled" => h.op = "job_cancel"
    BY <2>1, <2>2, WritesValues DEF ClaimableJob
  <2>4. \A t \in Tasks : Live(t)' =>
          Live(t) \/ (h.op \in {"task_insert", "task_run"} /\ t = h.task)
    BY <1>1, StatementContext
  <2>  QED  BY <2>3, <2>4
<1>5. \A r \in Range(stmts') :
        \/ r \in rest \/ (r = h /\ h.op = "cancel_steps")
        \/ r.op \in {"credit_refund", "task_settle"}
  BY <1>1, SettlingShape
<1>6. /\ h.task \in Tasks
      /\ \A t \in Tasks :
           task'[t] = IF /\ t = h.task
                         /\ \/ h.op \in {"task_insert", "task_run"}
                            \/ h.op \in {"task_complete", "task_settle"} /\ Live(t)
                      THEN h.to ELSE task[t]
      /\ \A s \in Steps :
           stepTask'[s] = IF h.op = "step_link" /\ s = h.task[2]
                          THEN h.task[1] ELSE stepTask[s]
      /\ h.op # "cancel_steps" => \A s \in Steps :
           step'[s] = IF h.op = "step_set" /\ s = h.task[2]
                      THEN h.to ELSE step[s]
  BY <1>1, StatementTasks
\* What is settled is open no more.
<1>7. \A t \in Tasks : h.op \in {"task_settle", "task_complete"} /\ t = h.task
                         => ~Live(t)'
  <2>1. /\ h.op = "task_complete" => h.to = "completed"
        /\ h.op = "task_settle" => h.to \in {"failed", "cancelled"}
    BY <1>1, StatementShape, WritesValues
  <2>  QED  BY <1>6, <2>1 DEF Live, NonTerminalTask
<1>8. h.op \in {"task_insert", "task_run"} =>
        /\ runner.pc = "step" /\ h.task = CurrentTask /\ job # "cancelled"
        /\ ~Pending("cancel_steps") /\ ~Pending("job_cancel")
  BY <1>2 DEF KnowsSteps, Settles, SetUp, Pending, DispatchOps
<1>9. Pending("cancel_steps")' => Pending("cancel_steps")
  BY <1>2, <1>5 DEF Pending
<1>10. Pending("job_cancel")' => Pending("job_cancel") /\ h.op # "job_cancel"
  <2>1. ASSUME Pending("job_cancel")'
        PROVE  \E r \in rest : r.op = "job_cancel"
    BY <1>5, <2>1 DEF Pending
  <2>2. (\E r \in rest : r.op = "job_cancel") => h.op # "job_cancel"
    BY <1>2 DEF Before
  <2>  QED  BY <1>2, <2>1, <2>2 DEF Pending
<1>  SUFFICES ASSUME boot = 1 PROVE OpenTasksOwned'
  BY <1>2 DEF TaskInv
<1>11. OpenTasksOwned
  BY DEF TaskInv
<1>12. CurrentTask' = CurrentTask
  BY <1>2 DEF CurrentTask
<1>13. ASSUME NEW t \in Tasks, Live(t)'
       PROVE  \/ runner'.pc = "step" /\ t = CurrentTask'
              \/ PendingFor("task_settle", t)' \/ PendingFor("task_complete", t)'
  <2>1. CASE Live(t)
    BY <1>2, <1>3, <1>7, <1>11, <1>12, <1>13, <2>1 DEF OpenTasksOwned
  <2>2. CASE h.op \in {"task_insert", "task_run"} /\ t = h.task
    BY <1>2, <1>8, <1>12, <2>2
  <2>  QED  BY <1>4, <1>13, <2>1, <2>2
<1>14. ASSUME Pending("cancel_steps")', runner'.pc = "step", Live(CurrentTask)'
       PROVE  \/ step'[runner'.at] = "running" /\ Linked(CurrentTask)'
              \/ PendingFor("task_settle", CurrentTask)'
  <2>1. /\ runner.at \in Steps /\ CurrentTask \in Tasks
        /\ CurrentTask = <<attempts, runner.at>>
        /\ CurrentTask[1] = attempts /\ CurrentTask[2] = runner.at
        /\ attempts \in AttemptNumber
    BY <1>2, <1>14, TaskNames DEF WorkflowInv, RunnerFitsRows, CurrentTask
  <2>2. Pending("cancel_steps") /\ Live(CurrentTask)
    <3>1. Live(CurrentTask)' => task'[CurrentTask] \in NonTerminalTask
      BY <1>12 DEF Live
    <3>2. CurrentTask \in Tasks /\ task'[CurrentTask] \in NonTerminalTask
      BY <1>14, <2>1, <3>1
    <3>3. h.op \notin {"task_insert", "task_run"}
      BY <1>8, <1>9, <1>14
    <3>  QED  BY <1>4, <1>9, <1>14, <3>2, <3>3 DEF Live
  <2>3. h.op \in CancelOps
    BY <1>2, <2>2 DEF Pending, StepInv, KnowsSteps
  <2>4. \A s \in Steps : stepTask'[s] = stepTask[s]
    BY <1>6, <2>3 DEF CancelOps
  <2>5. Linked(CurrentTask)' <=> Linked(CurrentTask)
    BY <1>12, <2>1, <2>4 DEF Linked
  <2>6. CASE PendingFor("task_settle", CurrentTask)
    <3>1. ~(h.op = "task_settle" /\ h.task = CurrentTask)
      <4>1. task'[CurrentTask] \in NonTerminalTask
        BY <1>12, <1>14 DEF Live
      <4>  QED  BY <1>7, <2>1, <4>1 DEF Live
    <3>2. \A t : PendingFor("task_settle", t) /\ t # h.task
                   => PendingFor("task_settle", t)'
      BY <1>3
    <3>3. h.op # "task_settle" => \A t : PendingFor("task_settle", t)
                                           => PendingFor("task_settle", t)'
      BY <1>3
    <3>  QED  BY <1>12, <2>6, <3>1, <3>2, <3>3 DEF PendingFor
  <2>7. CASE step[runner.at] = "running" /\ Linked(CurrentTask)
    <3>1. CASE step'[runner.at] = "running"
      BY <1>2, <2>5, <2>7, <3>1
    <3>2. CASE step'[runner.at] # "running"
      <4>1. h.op = "cancel_steps"
        BY <1>6, <2>1, <2>3, <2>7, <3>2 DEF CancelOps
      <4>2. stepTask[runner.at] = attempts /\ attempts # 0
        BY <2>1, <2>7 DEF Linked, AttemptNumber
      <4>3. \A s \in Steps :
              step[s] = "running" /\ step'[s] # "running" /\ stepTask[s] # 0 =>
                \E r \in Range(stmts') :
                  r.op = "task_settle" /\ r.task = <<stepTask'[s], s>>
        BY <1>1, <4>1, SettlingShape DEF PendingFor
      <4>4. \E r \in Range(stmts') :
              r.op = "task_settle" /\ r.task = <<stepTask'[runner.at], runner.at>>
        BY <2>1, <2>7, <3>2, <4>2, <4>3
      <4>5. <<stepTask'[runner.at], runner.at>> = CurrentTask'
        BY <1>12, <2>1, <2>4, <4>2
      <4>  QED  BY <4>4, <4>5 DEF PendingFor
    <3>  QED  BY <3>1, <3>2
  <2>  QED  BY <1>2, <1>11, <1>14, <2>2, <2>6, <2>7 DEF OpenTasksOwned
<1>15. ASSUME NEW t \in Tasks, Live(t)', job' = "cancelled"
       PROVE  FALSE
  <2>1. h.op \in {"task_insert", "task_run"} => job = "cancelled"
    BY <1>4, <1>15
  <2>2. Live(t)
    BY <1>4, <1>8, <1>15, <2>1
  <2>3. h.op = "job_cancel"
    BY <1>4, <1>11, <1>15, <2>2 DEF OpenTasksOwned
  <2>4. Pending("job_cancel") /\ ~Pending("cancel_steps")
    BY <1>2, <2>3 DEF Pending, Before
  <2>  QED  BY <1>11, <2>2, <2>4 DEF OpenTasksOwned
<1>16. ASSUME NEW t \in Tasks, Live(t)',
              Pending("job_cancel")', ~Pending("cancel_steps")'
       PROVE  FALSE
  <2>1. Pending("job_cancel") /\ Live(t)
    BY <1>4, <1>8, <1>10, <1>16
  <2>2. Pending("cancel_steps") /\ h.op = "cancel_steps"
    BY <1>3, <1>11, <1>16, <2>1 DEF OpenTasksOwned
  <2>3. /\ \A s \in Steps : step[s] # "running"
        /\ \A r \in rest : r.op = "job_cancel"
    <3>1. h \notin Range(stmts')
      BY <1>16, <2>2 DEF Pending
    <3>2. \/ stmts' = Tail(stmts) /\ \A s \in Steps : step[s] # "running"
          \/ h \in Range(stmts')
      BY <1>1, <2>2, SettlingShape
    <3>  QED  BY <1>2, <2>2, <3>1, <3>2 DEF Before
  <2>4. /\ ~PendingFor("task_settle", t) /\ ~PendingFor("task_complete", t)
    BY <1>2, <2>2, <2>3 DEF PendingFor
  <2>5. runner.pc = "step" /\ t = CurrentTask
    BY <1>11, <2>1, <2>4 DEF OpenTasksOwned
  <2>6. runner.at \in Steps
    BY <2>5 DEF WorkflowInv, RunnerFitsRows
  <2>7. step[runner.at] = "running"
    <3>1. Live(CurrentTask) /\ ~PendingFor("task_settle", CurrentTask)
      BY <2>1, <2>4, <2>5
    <3>  QED  BY <1>11, <2>2, <2>5, <3>1 DEF OpenTasksOwned
  <2>  QED  BY <2>3, <2>6, <2>7
<1>  QED  BY <1>13, <1>14, <1>15, <1>16 DEF OpenTasksOwned

\* A callback that leaves the rows alone and cancels nothing: whoever stops
\* awaiting a task settles it.
LEMMA CallbackKeepsTasks ==
  ASSUME TaskInv, stmts = <<>>, rowVars' = rowVars, boot' = boot,
         \A s \in Range(stmts') : s.op \notin {"cancel_steps", "job_cancel"},
         \/ runner.pc # "step"
         \/ runner'.pc = "step" /\ runner'.at = runner.at
         \/ \E s \in Range(stmts') :
              s.op \in {"task_settle", "task_complete"} /\ s.task = CurrentTask
  PROVE  TaskInv'
<1>  SUFFICES ASSUME boot = 1 PROVE OpenTasksOwned'
  BY DEF TaskInv
<1>1. OpenTasksOwned /\ task' = task /\ attempts' = attempts /\ job' = job
  BY DEF TaskInv, rowVars
<1>2. \A op : ~Pending(op) /\ \A t : ~PendingFor(op, t)
  BY TupleRange DEF Pending, PendingFor
<1>3. ~Pending("cancel_steps")' /\ ~Pending("job_cancel")'
  BY DEF Pending
<1>4. job' = "cancelled" => \A t \in Tasks : ~Live(t)'
  BY <1>1 DEF OpenTasksOwned, Live
<1>5. ASSUME NEW t \in Tasks, Live(t)'
      PROVE  \/ runner'.pc = "step" /\ t = CurrentTask'
             \/ PendingFor("task_settle", t)' \/ PendingFor("task_complete", t)'
  <2>1. runner.pc = "step" /\ t = CurrentTask
    BY <1>1, <1>2, <1>5 DEF OpenTasksOwned, Live
  <2>2. CASE runner'.pc = "step" /\ runner'.at = runner.at
    BY <1>1, <2>1, <2>2 DEF CurrentTask
  <2>3. CASE \E s \in Range(stmts') :
               s.op \in {"task_settle", "task_complete"} /\ s.task = CurrentTask
    BY <2>1, <2>3 DEF PendingFor
  <2>  QED  BY <2>1, <2>2, <2>3
<1>  QED  BY <1>3, <1>4, <1>5 DEF OpenTasksOwned

\* A claim finds no open task, since no run awaits one.
LEMMA ClaimKeepsTasks ==
  ASSUME WorkflowInv, SettleInv, TaskInv, ClaimNextDueJob
  PROVE  TaskInv'
<1>  SUFFICES ASSUME boot = 1 PROVE OpenTasksOwned'
  BY DEF TaskInv, ClaimNextDueJob
<1>1. /\ stmts = <<>> /\ task' = task /\ job' = "running" /\ job \in ClaimableJob
      /\ stmts' = << RowStmt("workflow_run", "running") >>
  BY DEF ClaimNextDueJob, Idle
<1>2. runner.pc = "none"
  BY <1>1 DEF WorkflowInv, OpenJobIsFree
<1>3. \A t \in Tasks : ~Live(t)
  BY <1>1, <1>2, TupleRange DEF TaskInv, OpenTasksOwned, PendingFor
<1>4. \A s \in Range(stmts') : s.op = "workflow_run"
  BY <1>1, TupleRange DEF RowStmt, Stmt
<1>5. ~Pending("cancel_steps")'
  BY <1>4 DEF Pending
<1>6. \A t \in Tasks : ~Live(t)'
  BY <1>1, <1>3 DEF Live
<1>  QED  BY <1>5, <1>6 DEF OpenTasksOwned

\* A cancellation meets a run that awaits its step marked running.
LEMMA CancelWorkflowKeepsTasks ==
  ASSUME WorkflowInv, SettleInv, StepInv, TaskInv, CancelWorkflow
  PROVE  TaskInv'
<1>  DEFINE a == RowStmt("workflow_finish", "cancelled")
            b == RowStmt("cancel_steps", "none")
            c == RowStmt("job_cancel", "cancelled")
<1>1. /\ stmts = <<>> /\ stmts' = <<a, b, c>> /\ rowVars' = rowVars
      /\ runner' = runner /\ boot' = boot /\ job \in ActiveJob
  BY DEF CancelWorkflow, Idle
<1>2. b.op = "cancel_steps"
  BY DEF RowStmt, Stmt
<1>  HIDE DEF a, b, c
<1>3. Pending("cancel_steps")'
  BY <1>1, <1>2, TupleRange DEF Pending
<1>4. /\ task' = task /\ job' = job /\ step' = step /\ stepTask' = stepTask
      /\ CurrentTask' = CurrentTask
  BY <1>1 DEF rowVars, CurrentTask
<1>  SUFFICES ASSUME boot = 1 PROVE OpenTasksOwned'
  BY <1>1 DEF TaskInv
<1>5. \A t \in Tasks : Live(t) => runner.pc = "step" /\ t = CurrentTask
  BY <1>1, TupleRange DEF TaskInv, OpenTasksOwned, PendingFor
<1>6. runner.pc = "step" => step[runner.at] = "running" /\ Linked(CurrentTask)
  <2>1. runner.pc = "step" => job = "running"
    BY <1>1 DEF SettleInv, RunnerFitsJob, ActiveJob, ClaimableJob
  <2>  QED  BY <1>1, <2>1, AwaitedStep
<1>7. \A t \in Tasks : Live(t)' => runner'.pc = "step" /\ t = CurrentTask'
  BY <1>1, <1>4, <1>5 DEF Live
<1>8. runner'.pc = "step" => step'[runner'.at] = "running" /\ Linked(CurrentTask)'
  BY <1>1, <1>4, <1>6 DEF Linked
<1>9. job' # "cancelled"
  BY <1>1, <1>4 DEF ActiveJob, ClaimableJob
<1>  QED  BY <1>3, <1>7, <1>8, <1>9 DEF OpenTasksOwned

LEMMA TaskInvInit == Init => TaskInv
<1>  SUFFICES ASSUME Init PROVE TaskInv  OBVIOUS
<1>1. stmts = <<>> /\ \A t \in Tasks : ~Live(t)
  BY DEF Init, Live, NonTerminalTask
<1>2. \A op : ~Pending(op)
  BY <1>1, TupleRange DEF Pending
<1>  QED  BY <1>1, <1>2 DEF TaskInv, OpenTasksOwned

\* The callbacks of the serving process and recovery.
LEMMA CallbacksKeepTasks ==
  ASSUME WorkflowInv, SettleInv, StepInv, TaskInv,
         \/ Loop \/ EnqueueWorkflow \/ StepTimeout \/ WorkflowTimeout
         \/ SynthesisEnds \/ Recover
         \/ \E t \in Tasks : DispatchSucceeds(t) \/ DispatchFails(t) \/ CancelTask(t)
  PROVE  TaskInv'
<1>1. CASE Loop
  <2>1. /\ stmts = <<>> /\ rowVars' = rowVars /\ boot' = boot /\ runner.pc = "loop"
    BY <1>1 DEF Loop, LeaveLoop, ResumeStep, SkipStep, RefuseStep, DispatchStep,
       AtStep, RunnerGoes
  <2>2. \A s \in Range(stmts') : s.op \in DispatchOps
    BY <1>1, LoopWrites
  <2>  QED  BY <2>1, <2>2, CallbackKeepsTasks DEF DispatchOps
<1>2. CASE EnqueueWorkflow
  <2>1. /\ stmts = <<>> /\ rowVars' = rowVars /\ boot' = boot /\ runner' = runner
        /\ stmts' = << RowStmt("job_insert", "queued") >>
    BY <1>2 DEF EnqueueWorkflow, Idle
  <2>2. \A s \in Range(stmts') : s.op = "job_insert"
    BY <2>1, TupleRange DEF RowStmt, Stmt
  <2>  QED  BY <2>1, <2>2, CallbackKeepsTasks
<1>3. CASE StepTimeout
  <2>  DEFINE a == Stmt("exec_set", CurrentTask, "failed")
              b == Stmt("task_settle", CurrentTask, "failed")
              c == Stmt("step_set", CurrentTask, "failed")
  <2>1. /\ stmts = <<>> /\ rowVars' = rowVars /\ boot' = boot
        /\ stmts' = <<a, b, c>>
    BY <1>3 DEF StepTimeout, Idle
  <2>2. /\ a.op = "exec_set" /\ b.op = "task_settle" /\ c.op = "step_set"
        /\ b.task = CurrentTask
    BY DEF Stmt
  <2>  HIDE DEF a, b, c
  <2>3. Range(stmts') = {a, b, c}
    BY <2>1, TupleRange
  <2>  QED  BY <2>1, <2>2, <2>3, CallbackKeepsTasks
<1>4. CASE WorkflowTimeout
  <2>1. /\ stmts = <<>> /\ rowVars' = rowVars /\ boot' = boot
        /\ runner'.pc = runner.pc /\ runner'.at = runner.at
    BY <1>4 DEF WorkflowTimeout, Idle, WorkflowInv, ProcessTypeOK, Runners
  <2>2. \A s \in Range(stmts') : s.op \notin {"cancel_steps", "job_cancel"}
    BY <1>4, WorkflowTimeoutWrites
  <2>  QED  BY <2>1, <2>2, CallbackKeepsTasks
<1>5. CASE SynthesisEnds
  <2>1. /\ stmts = <<>> /\ rowVars' = rowVars /\ boot' = boot
        /\ runner.pc = "synthesis"
    BY <1>5 DEF SynthesisEnds, Idle
  <2>2. \A s \in Range(stmts') : s.op \notin {"cancel_steps", "job_cancel"}
    BY <1>5, SynthesisWrites
  <2>  QED  BY <2>1, <2>2, CallbackKeepsTasks
<1>6. CASE Recover
  <2>1. /\ stmts = <<>> /\ rowVars' = rowVars /\ boot' = boot /\ runner.pc = "none"
    BY <1>6 DEF Recover, WorkflowInv, RunnerFitsRows
  <2>2. \A s \in Range(stmts') : s.op \notin {"cancel_steps", "job_cancel"}
    BY <1>6, RecoverWrites DEF SetUp
  <2>  QED  BY <2>1, <2>2, CallbackKeepsTasks
<1>7. ASSUME NEW t \in Tasks, DispatchSucceeds(t) \/ DispatchFails(t)
      PROVE  TaskInv'
  <2>1. /\ stmts = <<>> /\ rowVars' = rowVars /\ boot' = boot
        /\ \A s \in Range(stmts') :
             s.op \in {"exec_set", "task_complete", "task_settle", "step_set"}
    BY <1>7, DispatchShape
  <2>2. \/ runner' = runner
        \/ /\ t = CurrentTask
           /\ \E s \in Range(stmts') :
                s.op \in {"task_settle", "task_complete"} /\ s.task = t
    BY <1>7, DispatchCases DEF LateAnswer, NotDelivered, Delivered
  <2>  QED  BY <2>1, <2>2, CallbackKeepsTasks
<1>8. ASSUME NEW t \in Tasks, CancelTask(t)
      PROVE  TaskInv'
  <2>1. /\ stmts = <<>> /\ rowVars' = rowVars /\ boot' = boot /\ runner' = runner
        /\ stmts' = << Stmt("task_settle", t, "cancelled") >>
    BY <1>8 DEF CancelTask, Idle
  <2>2. \A s \in Range(stmts') : s.op = "task_settle"
    BY <2>1, TupleRange DEF Stmt
  <2>  QED  BY <2>1, <2>2, CallbackKeepsTasks
<1>  QED  BY <1>1, <1>2, <1>3, <1>4, <1>5, <1>6, <1>7, <1>8

LEMMA TaskInvStep ==
  ASSUME WorkflowInv, SettleInv, StepInv, TaskInv, [Next]_vars
  PROVE  TaskInv'
<1>1. CASE UNCHANGED vars
  <2>1. UNCHANGED <<step, stepTask, task, job, attempts, runner, stmts, boot>>
    BY <1>1 DEF vars, rowVars, procVars
  <2>  QED  BY <2>1 DEF TaskInv, OpenTasksOwned, Pending, PendingFor,
            CurrentTask, Linked, Live
<1>2. CASE Crash
  <2>1. boot' = boot + 1 /\ boot \in Nat \ {0}
    BY <1>2, WorkflowAssumption DEF Crash, WorkflowInv, ProcessTypeOK
  <2>  QED  BY <2>1 DEF TaskInv
<1>  QED
  BY <1>1, <1>2, CallbacksKeepTasks, ClaimKeepsTasks, CancelWorkflowKeepsTasks,
     StatementKeepsTasks DEF Next

LEMMA TaskInvariant == Spec => []TaskInv
BY TaskInvInit, TaskInvStep, StepInvariant, PTL DEF Spec

\* While the process has not crashed, the job is only marked cancelled once
\* every task of the workflow is settled, at whatever point the cancellation
\* met the run; and a settled job leaves its workflow settled or lost
\* (queue.ts: cancelWorkflow, cancelRunningStepTask).
THEOREM WorkflowClosesWithJob == Spec => []SettledJobClosesWorkflow
<1>1. TaskInv => CancelledWorkflowHasNoLiveTask
  BY DEF TaskInv, OpenTasksOwned, CancelledWorkflowHasNoLiveTask, Live
<1>  QED  BY <1>1, TaskInvariant, WorkflowAgreesWithJob, PTL
          DEF SettledJobClosesWorkflow

-----------------------------------------------------------------------------
(* Credits without a crash.                                                *)

\* The task holds a credit, and holds it for good: it is open or delivered.
Holds(t) == consumedFrom[t] # NoPool /\ t \notin refunded
Firm(t)  == Holds(t) /\ (Live(t) \/ task[t] = "completed")

\* What a task holds it holds for good or gives back; a task that delivers
\* completes its step; hence no two tasks of a step hold a credit for good.
CreditsHeld ==
  /\ \A t \in Tasks : Holds(t) => Firm(t) \/ PendingFor("credit_refund", t)
  /\ \A r \in Range(stmts) :
       /\ r.op = "credit_consume" =>
            Live(r.task) \/ PendingFor("task_insert", r.task)
       /\ r.op = "task_complete" /\ Live(r.task) => StepToComplete(r.task[2])
  /\ \A t \in Tasks : task[t] = "completed" =>
       t[2] \in StepsDone \/ StepToComplete(t[2])
  /\ \A s \in Steps : \A m, n \in AttemptNumber :
       Firm(<<m, s>>) /\ Firm(<<n, s>>) => m = n
PaidInv == boot = 1 => CreditsHeld

\* A statement takes a credit only for its own task, and a refund leaves the
\* task with none.
LEMMA StatementCredits ==
  ASSUME WorkflowInv, LedgerTypeOK, Statement, NEW h, h = Head(stmts)
  PROVE  /\ \A t \in Tasks : Holds(t)' =>
              Holds(t) \/ (h.op = "credit_consume" /\ t = h.task)
         /\ h.op = "credit_refund" => ~(/\ consumedFrom'[h.task] # NoPool
                                        /\ h.task \notin refunded')
<1>1. /\ h.task = TaskId /\ h.task \in Tasks /\ consumedFrom \in [Tasks -> Pools \cup {NoPool}]
      /\ \A op : Executing(op) => h.op = op
  <2>1. stmts # <<>>  BY StatementShape
  <2>  QED  BY <2>1, HeadFacts DEF TaskId, Executing, LedgerTypeOK
<1>2. CASE ReserveCredit
  <2>1. h.op = "credit_consume" /\ ConsumeTaskCredit(h.task)
    BY <1>1, <1>2 DEF ReserveCredit
  <2>2. /\ refunded' = refunded
        /\ \/ consumedFrom' = consumedFrom
           \/ consumedFrom' = [consumedFrom EXCEPT ![h.task] = NextPool]
    BY <2>1 DEF ConsumeTaskCredit, ledgerVars
  <2>3. \A t \in Tasks : t # h.task => consumedFrom'[t] = consumedFrom[t]
    BY <1>1, <2>2
  <2>  QED  BY <2>1, <2>2, <2>3 DEF Holds
<1>3. CASE RefundCredit
  <2>1. h.op = "credit_refund" /\ RefundTaskCredit(h.task)
    BY <1>1, <1>3 DEF RefundCredit
  <2>2. /\ consumedFrom' = consumedFrom /\ refunded \subseteq refunded'
        /\ h.task \in refunded' \/ consumedFrom[h.task] = NoPool
    BY <2>1 DEF RefundTaskCredit, ledgerVars
  <2>  QED  BY <2>2 DEF Holds
<1>4. CASE \/ SetStep \/ LinkStep \/ SetTask \/ SetExecution \/ CompleteTask
           \/ SettleTask \/ SetWorkflow \/ SetJob \/ CancelSteps
  <2>1. consumedFrom' = consumedFrom /\ refunded' = refunded
    BY <1>4 DEF SetStep, LinkStep, SetTask, SetExecution, CompleteTask,
       SettleTask, SetWorkflow, SetJob, CancelSteps, ledgerVars
  <2>2. h.op # "credit_refund"
    BY <1>1, <1>4 DEF SetStep, LinkStep, SetTask, SetExecution, CompleteTask,
       SettleTask, SetWorkflow, SetJob, CancelSteps, JobLeaves
  <2>  QED  BY <2>1, <2>2 DEF Holds
<1>  QED  BY <1>2, <1>3, <1>4 DEF Statement

LEMMA StatementKeepsCredits ==
  ASSUME WorkflowInv, SettleInv, StepInv, TaskInv, PaidInv, LedgerTypeOK,
         Statement
  PROVE  PaidInv'
<1>1. PICK h, rest : h = Head(stmts) /\ rest = Range(Tail(stmts))
  OBVIOUS
<1>2. /\ h \in Range(stmts) /\ Range(stmts) = {h} \cup rest
      /\ Settles(h) /\ KnowsSteps(h) /\ \A r \in rest : Before(h, r)
      /\ runner' = runner /\ attempts' = attempts /\ boot' = boot
  BY <1>1, StatementContext
<1>3. /\ \A op, t : PendingFor(op, t) /\ ~(op = h.op /\ t = h.task)
                      => PendingFor(op, t)'
      /\ \A s : StepToComplete(s) /\ ~(CompletesStep(h) /\ s = h.task[2])
                  => StepToComplete(s)'
      /\ StepsDone \subseteq StepsDone'
      /\ CompletesStep(h) => h.task[2] \in StepsDone'
  BY <1>1, StatementContext
<1>4. \A t \in Tasks : Live(t)' =>
        Live(t) \/ (h.op \in {"task_insert", "task_run"} /\ t = h.task)
  BY <1>1, StatementContext
<1>5. \A r \in Range(stmts') :
        \/ r \in rest \/ (r = h /\ h.op = "cancel_steps")
        \/ r.op \in {"credit_refund", "task_settle"}
  BY <1>1, SettlingShape
<1>6. /\ h.task \in Tasks
      /\ \A t \in Tasks :
           task'[t] = IF /\ t = h.task
                         /\ \/ h.op \in {"task_insert", "task_run"}
                            \/ h.op \in {"task_complete", "task_settle"} /\ Live(t)
                      THEN h.to ELSE task[t]
  BY <1>1, StatementTasks
<1>7. /\ h.op = "task_insert" => h.to = "created"
      /\ h.op = "task_run" => h.to = "running"
      /\ h.op = "task_complete" => h.to = "completed"
      /\ h.op = "task_settle" => h.to \in {"failed", "cancelled"}
  BY <1>1, StatementShape, WritesValues
<1>8. /\ \A t \in Tasks : Holds(t)' =>
           Holds(t) \/ (h.op = "credit_consume" /\ t = h.task)
      /\ h.op = "credit_refund" => ~(/\ consumedFrom'[h.task] # NoPool
                                     /\ h.task \notin refunded')
  BY <1>1, StatementCredits
\* A dispatch that sets its task up is alone in its callback.
<1>9. h.op \in SetUp =>
        /\ runner.pc = "step" /\ h.task = CurrentTask
        /\ \A r \in Range(stmts) : /\ r.op \in DispatchOps
                                   /\ r.op = "step_set" => r.to = "running"
  BY <1>2 DEF KnowsSteps, Settles
<1>  SUFFICES ASSUME boot = 1 PROVE CreditsHeld'
  BY <1>2 DEF PaidInv
<1>10. CreditsHeld /\ OpenTasksOwned
  BY DEF PaidInv, TaskInv
\* An open or delivered task stays so unless it is settled.
<1>11. ASSUME NEW t \in Tasks, Live(t) \/ task[t] = "completed",
              ~(h.op = "task_settle" /\ h.task = t /\ Live(t))
       PROVE  task'[t] \in NonTerminalTask \/ task'[t] = "completed"
  BY <1>6, <1>7, <1>11 DEF Live, NonTerminalTask
<1>12. ASSUME NEW t \in Tasks, Holds(t)', ~PendingFor("credit_refund", t)'
       PROVE  task'[t] \in NonTerminalTask \/ task'[t] = "completed"
  <2>1. CASE h.op = "credit_consume" /\ t = h.task
    <3>1. ~PendingFor("task_insert", t)
      BY <1>2, <2>1 DEF PendingFor, Before
    <3>2. Live(t)
      BY <1>2, <1>10, <2>1, <3>1 DEF CreditsHeld
    <3>  QED  BY <1>11, <2>1, <3>2
  <2>2. CASE Holds(t) /\ ~(h.op = "credit_consume" /\ t = h.task)
    <3>1. CASE PendingFor("credit_refund", t)
      <4>1. h.op = "credit_refund" /\ t = h.task
        BY <1>3, <1>12, <3>1
      <4>  QED  BY <1>8, <1>12, <4>1 DEF Holds
    <3>2. CASE Firm(t)
      <4>1. ~(h.op = "task_settle" /\ h.task = t /\ Live(t))
        BY <1>1, <1>12, SettlingShape
      <4>  QED  BY <1>11, <3>2, <4>1 DEF Firm
    <3>  QED  BY <1>10, <2>2, <3>1, <3>2 DEF CreditsHeld
  <2>  QED  BY <1>8, <1>12, <2>1, <2>2
<1>13. ASSUME NEW r \in Range(stmts'), r.op = "credit_consume"
       PROVE  Live(r.task)' \/ PendingFor("task_insert", r.task)'
  <2>1. r \in rest
    BY <1>5, <1>13
  <2>2. /\ h.op \in DispatchOps /\ r.task = CurrentTask /\ CurrentTask \in Tasks
    <3>1. Settles(r) /\ KnowsSteps(r)
      BY <1>2, <2>1 DEF SettleInv, StepInv
    <3>2. /\ h.op \in DispatchOps /\ r.task = CurrentTask /\ runner.pc = "step"
      BY <1>2, <1>13, <2>1, <3>1 DEF Settles, KnowsSteps, SetUp
    <3>  QED  BY <3>2, TaskNames DEF WorkflowInv, RunnerFitsRows, CurrentTask
  <2>3. Live(r.task) \/ PendingFor("task_insert", r.task)
    BY <1>2, <1>10, <1>13, <2>1 DEF CreditsHeld
  <2>4. CASE h.op \in {"task_insert", "task_run"}
    BY <1>6, <1>7, <1>9, <2>2, <2>4 DEF SetUp, Live, NonTerminalTask
  <2>5. CASE h.op \notin {"task_insert", "task_run"}
    <3>1. task'[r.task] = task[r.task]
      BY <1>6, <2>2, <2>5 DEF DispatchOps
    <3>2. PendingFor("task_insert", r.task) => PendingFor("task_insert", r.task)'
      BY <1>3, <2>5
    <3>  QED  BY <2>3, <3>1, <3>2 DEF Live
  <2>  QED  BY <2>4, <2>5
<1>14. ASSUME NEW r \in Range(stmts'), r.op = "task_complete", Live(r.task)'
       PROVE  StepToComplete(r.task[2])'
  <2>1. r \in rest /\ r \in Range(stmts)
    BY <1>2, <1>5, <1>14
  <2>2. h.op \notin SetUp /\ r.task \in Tasks
    <3>1. h.op \notin SetUp
      BY <1>9, <1>14, <2>1 DEF DispatchOps
    <3>2. r \in Stmts
      BY <2>1, RangeOfSeq DEF WorkflowInv, ProcessTypeOK
    <3>  QED  BY <3>1, <3>2, StmtFields
  <2>3. Live(r.task)
    BY <1>4, <1>14, <2>2 DEF SetUp
  <2>4. StepToComplete(r.task[2])
    BY <1>10, <1>14, <2>1, <2>3 DEF CreditsHeld
  <2>5. ~CompletesStep(h)
    BY <1>2, <2>1 DEF Before
  <2>  QED  BY <1>3, <2>4, <2>5
<1>15. ASSUME NEW t \in Tasks, task'[t] = "completed"
       PROVE  t[2] \in StepsDone' \/ StepToComplete(t[2])'
  <2>1. t[2] \in StepsDone \/ StepToComplete(t[2])
    <3>1. CASE task[t] = "completed"
      BY <1>10, <3>1 DEF CreditsHeld
    <3>2. CASE task[t] # "completed"
      <4>1. h.op = "task_complete" /\ t = h.task /\ Live(t)
        BY <1>6, <1>7, <1>15, <3>2
      <4>  QED  BY <1>2, <1>10, <4>1 DEF CreditsHeld
    <3>  QED  BY <3>1, <3>2
  <2>  QED  BY <1>3, <2>1
\* The one way to hold a credit for good is the reservation of the current task.
<1>16. ASSUME NEW t \in Tasks, Firm(t)', ~Firm(t)
       PROVE  h.op = "credit_consume" /\ t = CurrentTask
  <2>1. Holds(t)' /\ (task'[t] \in NonTerminalTask \/ task'[t] = "completed")
    BY <1>16 DEF Firm, Live
  <2>2. CASE Holds(t)
    <3>1. task[t] \notin NonTerminalTask /\ task[t] # "completed"
      BY <1>16, <2>2 DEF Firm, Live
    <3>2. h.op \in {"task_insert", "task_run"} /\ t = h.task
      BY <1>6, <2>1, <3>1 DEF Live
    <3>3. PendingFor("credit_refund", t)
      BY <1>10, <1>16, <2>2 DEF CreditsHeld
    <3>  QED  BY <1>9, <3>2, <3>3 DEF PendingFor, SetUp, DispatchOps
  <2>3. CASE ~Holds(t)
    BY <1>8, <1>9, <2>1, <2>3 DEF SetUp
  <2>  QED  BY <2>2, <2>3
\* No other task of the current step is open or delivered then.
<1>17. ASSUME NEW t \in Tasks, Firm(t), h.op = "credit_consume",
              t[2] = CurrentTask[2]
       PROVE  t = CurrentTask
  <2>1. /\ runner.pc = "step" /\ CurrentTask[2] = runner.at
        /\ \A r \in Range(stmts) : /\ r.op \in DispatchOps
                                   /\ r.op = "step_set" => r.to = "running"
    BY <1>9, <1>17 DEF SetUp, CurrentTask
  <2>2. ~StepToComplete(runner.at)
    BY <2>1 DEF StepToComplete, CompletesStep
  <2>3. runner.at \notin StepsDone
    BY <2>1 DEF StepInv, RunnerFitsSteps
  <2>4. Live(t)
    BY <1>10, <1>17, <2>1, <2>2, <2>3 DEF CreditsHeld, Firm
  <2>5. ~PendingFor("task_settle", t) /\ ~PendingFor("task_complete", t)
    BY <2>1 DEF PendingFor, DispatchOps
  <2>  QED  BY <1>10, <2>4, <2>5 DEF OpenTasksOwned
<1>18. ASSUME NEW s \in Steps, NEW m \in AttemptNumber, NEW n \in AttemptNumber,
              Firm(<<m, s>>)', Firm(<<n, s>>)'
       PROVE  m = n
  <2>  PICK t, u : t = <<m, s>> /\ u = <<n, s>>
    OBVIOUS
  <2>1. /\ t \in Tasks /\ u \in Tasks /\ t[1] = m /\ u[1] = n
        /\ t[2] = s /\ u[2] = s /\ Firm(t)' /\ Firm(u)'
    BY <1>18, TaskNames
  <2>2. CASE Firm(t) /\ Firm(u)
    BY <1>10, <2>1, <2>2 DEF CreditsHeld
  <2>3. CASE ~Firm(t) \/ ~Firm(u)
    <3>1. h.op = "credit_consume" /\ (t = CurrentTask \/ u = CurrentTask)
      BY <1>16, <2>1, <2>3
    <3>2. t = CurrentTask /\ u = CurrentTask
      BY <1>16, <1>17, <2>1, <3>1
    <3>  QED  BY <2>1, <3>2
  <2>  QED  BY <2>2, <2>3
<1>19. \A t \in Tasks : Holds(t)' => Firm(t)' \/ PendingFor("credit_refund", t)'
  BY <1>12 DEF Firm, Live
<1>  QED  BY <1>13, <1>14, <1>15, <1>18, <1>19 DEF CreditsHeld

\* A callback that leaves tasks, steps and credits alone: what it completes it
\* completes for its step, and its reservations are for tasks it opens.
LEMMA CallbackKeepsCredits ==
  ASSUME PaidInv, stmts = <<>>, boot' = boot, ledgerVars' = ledgerVars,
         task' = task, step' = step,
         \A s \in Range(stmts') :
           /\ s.op = "credit_consume" => \E r \in Range(stmts') :
                r.op = "task_insert" /\ r.task = s.task
           /\ boot = 1 /\ s.op = "task_complete" /\ Live(s.task) =>
                \E r \in Range(stmts') : CompletesStep(r) /\ r.task = s.task
  PROVE  PaidInv'
<1>  SUFFICES ASSUME boot = 1 PROVE CreditsHeld'
  BY DEF PaidInv
<1>1. CreditsHeld /\ consumedFrom' = consumedFrom /\ refunded' = refunded
  BY DEF PaidInv, ledgerVars
<1>2. Range(stmts) = {}
  BY TupleRange
<1>3. \A t : Holds(t)' <=> Holds(t)
  BY <1>1 DEF Holds
<1>4. \A t : Live(t)' <=> Live(t)
  BY DEF Live
<1>5. \A t : Firm(t)' <=> Firm(t)
  BY <1>3, <1>4 DEF Firm
<1>6. \A t \in Tasks : Holds(t)' => Firm(t)'
  BY <1>1, <1>2, <1>3, <1>5 DEF CreditsHeld, PendingFor
<1>7. \A t \in Tasks : task'[t] = "completed" => t[2] \in StepsDone'
  BY <1>1, <1>2 DEF CreditsHeld, StepToComplete, StepsDone
<1>8. \A s \in Steps : \A m, n \in AttemptNumber :
        Firm(<<m, s>>)' /\ Firm(<<n, s>>)' => m = n
  <2>1. \A t : Firm(t)' => Firm(t)
    BY <1>5
  <2>2. ASSUME NEW s \in Steps, NEW m \in AttemptNumber, NEW n \in AttemptNumber,
               Firm(<<m, s>>)', Firm(<<n, s>>)'
        PROVE  m = n
    <3>  PICK t, u : t = <<m, s>> /\ u = <<n, s>>
      OBVIOUS
    <3>1. Firm(t)' /\ Firm(u)'
      BY <2>2
    <3>  QED  BY <1>1, <2>1, <3>1 DEF CreditsHeld
  <2>  QED  BY <2>2
<1>9. \A s \in Range(stmts') :
        /\ s.op = "credit_consume" => PendingFor("task_insert", s.task)'
        /\ s.op = "task_complete" /\ Live(s.task)' => StepToComplete(s.task[2])'
  BY <1>4 DEF PendingFor, StepToComplete
<1>  QED  BY <1>6, <1>7, <1>8, <1>9 DEF CreditsHeld

LEMMA CallbacksKeepCredits ==
  ASSUME WorkflowInv, SettleInv, StepInv, TaskInv, PaidInv,
         \/ Loop \/ EnqueueWorkflow \/ ClaimNextDueJob \/ StepTimeout
         \/ WorkflowTimeout \/ SynthesisEnds \/ CancelWorkflow \/ Recover
         \/ \E t \in Tasks : DispatchSucceeds(t) \/ DispatchFails(t) \/ CancelTask(t)
  PROVE  PaidInv'
<1>1. /\ stmts = <<>> /\ boot' = boot /\ ledgerVars' = ledgerVars
      /\ task' = task /\ step' = step
  BY DEF Loop, LeaveLoop, ResumeStep, SkipStep, RefuseStep, DispatchStep, AtStep,
     RunnerGoes, EnqueueWorkflow, ClaimNextDueJob, StepTimeout, WorkflowTimeout,
     SynthesisEnds, CancelWorkflow, Recover, DispatchSucceeds, DispatchFails,
     DispatchSettles, CancelTask, Idle, rowVars
<1>2. ASSUME \A s \in Range(stmts') : s.op \notin {"credit_consume", "task_complete"}
      PROVE  PaidInv'
  BY <1>1, <1>2, CallbackKeepsCredits
<1>3. CASE Loop
  <2>1. ASSUME NEW s \in Steps, DispatchStep(s)
        PROVE  PaidInv'
    <3>  PICK t : t = <<attempts, s>>
      OBVIOUS
    <3>1. \A r \in Range(stmts') : r.op \in DispatchOps /\ r.task = t
      BY <2>1, DispatchPlan
    <3>2. \E r \in Range(stmts') : r.op = "task_insert" /\ r.task = t
      <4>1. PendingFor("task_insert", t)'
        BY <2>1, DispatchPlan
      <4>  QED  BY <4>1 DEF PendingFor
    <3>  QED  BY <1>1, <3>1, <3>2, CallbackKeepsCredits DEF DispatchOps
  <2>  QED  BY <1>2, <1>3, <2>1, LoopWrites
<1>4. CASE EnqueueWorkflow \/ ClaimNextDueJob \/ \E t \in Tasks : CancelTask(t)
  <2>  DEFINE a == RowStmt("job_insert", "queued")
              b == RowStmt("workflow_run", "running")
              c(t) == Stmt("task_settle", t, "cancelled")
  <2>1. stmts' = <<a>> \/ stmts' = <<b>> \/ \E t \in Tasks : stmts' = <<c(t)>>
    BY <1>4 DEF EnqueueWorkflow, ClaimNextDueJob, CancelTask
  <2>2. /\ a.op = "job_insert" /\ b.op = "workflow_run"
        /\ \A t : c(t).op = "task_settle"
    BY DEF RowStmt, Stmt
  <2>  HIDE DEF a, b, c
  <2>3. \A s \in Range(stmts') : s = a \/ s = b \/ \E t : s = c(t)
    BY <2>1, TupleRange
  <2>  QED  BY <1>2, <2>2, <2>3
<1>5. CASE StepTimeout \/ CancelWorkflow
  <2>  DEFINE a == Stmt("exec_set", CurrentTask, "failed")
              b == Stmt("task_settle", CurrentTask, "failed")
              c == Stmt("step_set", CurrentTask, "failed")
              d == RowStmt("workflow_finish", "cancelled")
              e == RowStmt("cancel_steps", "none")
              f == RowStmt("job_cancel", "cancelled")
  <2>1. stmts' = <<a, b, c>> \/ stmts' = <<d, e, f>>
    BY <1>5 DEF StepTimeout, CancelWorkflow
  <2>2. /\ a.op = "exec_set" /\ b.op = "task_settle" /\ c.op = "step_set"
        /\ d.op = "workflow_finish" /\ e.op = "cancel_steps" /\ f.op = "job_cancel"
    BY DEF RowStmt, Stmt
  <2>  HIDE DEF a, b, c, d, e, f
  <2>3. Range(stmts') = {a, b, c} \/ Range(stmts') = {d, e, f}
    BY <2>1, TupleRange
  <2>  QED  BY <1>2, <2>2, <2>3
<1>6. CASE WorkflowTimeout \/ SynthesisEnds \/ Recover
  BY <1>2, <1>6, WorkflowTimeoutWrites, SynthesisWrites, RecoverWrites DEF SetUp
<1>7. ASSUME NEW t \in Tasks, DispatchSucceeds(t) \/ DispatchFails(t)
      PROVE  PaidInv'
  <2>1. /\ \A s \in Range(stmts') :
             /\ s.op \in {"exec_set", "task_complete", "task_settle", "step_set"}
             /\ s.task = t
        /\ LateAnswer(t) \/ NotDelivered(t) \/ Delivered(t)
    BY <1>7, DispatchCases, DispatchShape
  <2>2. ASSUME boot = 1, NEW s \in Range(stmts'), s.op = "task_complete", Live(t)
        PROVE  \E r \in Range(stmts') : CompletesStep(r) /\ r.task = t
    <3>1. OpenTasksOwned /\ Range(stmts) = {}
      BY <1>1, <2>2, TupleRange DEF TaskInv
    <3>2. runner.pc = "step" /\ t = CurrentTask /\ job # "cancelled"
      BY <2>2, <3>1 DEF OpenTasksOwned, PendingFor
    <3>3. t \notin late
      <4>1. CurrentTask[1] = attempts /\ attempts \in Nat
        BY WorkflowAssumption DEF CurrentTask, WorkflowInv, RowsTypeOK
      <4>  QED  BY <3>2, <4>1 DEF StepInv, LateDispatches
    <3>4. Delivered(t)
      BY <2>1, <2>2, <3>2, <3>3 DEF LateAnswer, NotDelivered
    <3>5. PICK a, b, c : stmts' = <<a, b>> \o <<c>> /\ CompletesStep(c) /\ c.task = t
      BY <3>4 DEF Delivered
    <3>6. Range(stmts') = {a, b, c}
      BY <3>5, PlanRange
    <3>  QED  BY <3>5, <3>6
  <2>  QED  BY <1>1, <2>1, <2>2, CallbackKeepsCredits
<1>  QED  BY <1>3, <1>4, <1>5, <1>6, <1>7

LEMMA PaidInvInit == Init => PaidInv
<1>  SUFFICES ASSUME Init PROVE CreditsHeld
  BY DEF PaidInv
<1>1. /\ Range(stmts) = {} /\ \A t \in Tasks : ~Holds(t) /\ task[t] # "completed"
  BY TupleRange DEF Init, LedgerInit, Holds
<1>2. \A s \in Steps : \A n \in AttemptNumber : <<n, s>> \in Tasks
  BY TaskNames
<1>  QED  BY <1>1, <1>2 DEF CreditsHeld, Firm

LEMMA PaidInvStep ==
  ASSUME WorkflowInv, SettleInv, StepInv, TaskInv, PaidInv, LedgerTypeOK,
         [Next]_vars
  PROVE  PaidInv'
<1>1. CASE UNCHANGED vars
  <2>1. UNCHANGED <<step, task, stmts, boot, consumedFrom, refunded>>
    BY <1>1 DEF vars, rowVars, procVars, ledgerVars
  <2>  QED  BY <2>1 DEF PaidInv, CreditsHeld, Holds, Firm, Live, PendingFor,
            StepToComplete, CompletesStep, StepsDone
<1>2. CASE Crash
  <2>1. boot' = boot + 1 /\ boot \in Nat \ {0}
    BY <1>2, WorkflowAssumption DEF Crash, WorkflowInv, ProcessTypeOK
  <2>  QED  BY <2>1 DEF PaidInv
<1>  QED  BY <1>1, <1>2, CallbacksKeepCredits, StatementKeepsCredits DEF Next

LEMMA PaidInvariant == Spec => []PaidInv
BY PaidInvInit, PaidInvStep, TaskInvariant, StepInvariant, SettleInvariant,
   WorkflowInvariant, WorkflowTypeCorrect, PTL DEF Spec, WorkflowTypeOK

\* A user pays for a step at most once, however often it is tried: while the
\* process has not crashed at most one task of a step holds a credit at rest
\* (queue.ts: handleJobFailure, reconcileTaskFailed; workflow-runner.ts).
THEOREM WorkflowPaysStepOnce == Spec => []StepPaidOnce
<1>1. ASSUME PaidInv PROVE StepPaidOnce
  <2>  SUFFICES ASSUME stmts = <<>>, boot = 1, NEW s \in Steps
                PROVE  Cardinality({n \in AttemptNumber :
                                      /\ consumedFrom[<<n, s>>] # NoPool
                                      /\ <<n, s>> \notin refunded}) <= 1
    BY DEF StepPaidOnce, Idle
  <2>  DEFINE paid == {n \in AttemptNumber : /\ consumedFrom[<<n, s>>] # NoPool
                                             /\ <<n, s>> \notin refunded}
  <2>1. CreditsHeld /\ Range(stmts) = {}
    BY <1>1, TupleRange DEF PaidInv
  <2>2. \A n \in paid : Firm(<<n, s>>)
    BY <2>1, TaskNames DEF CreditsHeld, Holds, PendingFor
  <2>3. \A m, n \in paid : m = n
    BY <2>1, <2>2 DEF CreditsHeld
  <2>  HIDE DEF paid
  <2>4. Cardinality(paid) <= 1
    <3>1. CASE paid = {}
      BY <3>1, FS_EmptySet
    <3>2. ASSUME NEW n \in paid PROVE Cardinality(paid) = 1
      <4>1. paid = {n}
        BY <2>3
      <4>  QED  BY <4>1, FS_Singleton
    <3>  QED  BY <3>1, <3>2
  <2>  QED  BY <2>4 DEF paid
<1>  QED  BY <1>1, PaidInvariant, PTL
=============================================================================
