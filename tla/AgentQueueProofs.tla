-------------------------- MODULE AgentQueueProofs --------------------------
(***************************************************************************)
(* What the execution engine promises for every set of tasks, every        *)
(* max_attempts, every concurrency and any number of restarts: it loses    *)
(* no credit, never exceeds a job's attempts, waits for one attempt of a   *)
(* job at a time, moves job rows as JobLifecycle says, settles a job only  *)
(* as its task is settled, delivers nothing it paid back, and leaves no    *)
(* job and no task to nobody.                                              *)
(***************************************************************************)
EXTENDS AgentQueue, CreditLedgerProofs

-----------------------------------------------------------------------------
(* The engine implements the ledger.                                       *)

\* Only two statements touch the ledger, and they are ledger operations.
LEMMA StatementUsesLedger ==
  ASSUME NEW t \in Tasks, Statement(t)
  PROVE  [LedgerNext]_ledgerVars
<1>1. CASE ReserveTaskCredit(t)
  BY <1>1 DEF ReserveTaskCredit, LedgerNext
<1>2. CASE RefundCredit(t)
  BY <1>2 DEF RefundCredit, LedgerNext
<1>3. CASE CreateTask(t) \/ CreateAgentExecution(t) \/ InsertJob(t)
           \/ InsertJobAttempt(t) \/ FinishJobAttempt(t) \/ SetExecution(t)
           \/ MarkExecutionTimedOut(t) \/ RunTask(t) \/ CompleteTask(t)
           \/ UpdateTaskOutput(t) \/ SettleTask(t) \/ FinishJob(t)
           \/ ReleaseJob(t) \/ CancelJobRow(t) \/ AwaitRun(t)
  BY <1>3 DEF CreateTask, CreateAgentExecution, InsertJob, InsertJobAttempt,
     FinishJobAttempt, SetExecution, MarkExecutionTimedOut, RunTask,
     CompleteTask, UpdateTaskOutput, SettleTask, FinishJob, ReleaseJob,
     CancelJobRow, AwaitRun, ledgerVars
<1>  QED  BY <1>1, <1>2, <1>3 DEF Statement

\* Every step of the engine is a ledger operation or leaves the ledger alone.
LEMMA StepUsesLedger ==
  ASSUME [Next]_vars
  PROVE  [LedgerNext]_ledgerVars
<1>1. CASE UNCHANGED vars
  BY <1>1 DEF vars
<1>2. ASSUME NEW t \in Tasks, Submit(t) \/ ClaimNextDueJob(t) \/ CancelJob(t)
      PROVE  UNCHANGED ledgerVars
  BY <1>2 DEF Submit, ClaimNextDueJob, CancelJob, ledgerVars
<1>3. ASSUME NEW t \in Tasks, NEW n \in AttemptNumber,
             RunSettles(t, n) \/ StepTimeout(t, n)
      PROVE  UNCHANGED ledgerVars
  BY <1>3 DEF RunSettles, RunSucceeds, RunFails, StepTimeout, ledgerVars
<1>4. ASSUME NEW on \in BOOLEAN, SetEmergencyStop(on)
      PROVE  UNCHANGED ledgerVars
  BY <1>4 DEF SetEmergencyStop, ledgerVars
<1>5. CASE Crash \/ Recover
  BY <1>5 DEF Crash, Recover, NextPass, RecoverStaleJob,
     RecoverOrphanExecution, RecoverOrphanTask, ledgerVars
<1>6. ASSUME NEW t \in Tasks, Statement(t)
      PROVE  [LedgerNext]_ledgerVars
  BY <1>6, StatementUsesLedger
<1>  QED  BY <1>1, <1>2, <1>3, <1>4, <1>5, <1>6 DEF Next

\* The execution engine implements the credit ledger: whatever crashes between
\* two of its statements, credits only move by consumeTaskCredit and
\* refundTaskCredit (queue.ts, executor.ts, task-reconciler.ts, recovery.ts).
LEMMA EngineImplementsLedger == Spec => LedgerSpec
<1>1. Init => LedgerInit  BY DEF Init
<1>2. [Next]_vars => [LedgerNext]_ledgerVars  BY StepUsesLedger
<1>  QED  BY <1>1, <1>2, PTL DEF Spec, LedgerSpec

\* So no interleaving, timeout, cancellation or crash creates or loses a
\* credit: each is on the account or held by exactly one task.
THEOREM EngineConservesCredits == Spec => []Conservation
BY EngineImplementsLedger, LedgerConserves, PTL

-----------------------------------------------------------------------------
(* The types of the statements a callback may leave.                       *)

LEMMA WritesValues ==
  /\ DOMAIN Writes =
       {"task_insert", "task_run", "task_complete", "task_settle",
        "exec_insert", "exec_timeout", "exec_set", "job_insert", "job_retry",
        "job_finish", "job_cancel", "attempt_insert", "attempt_finish",
        "await", "task_output", "credit_consume", "credit_refund"}
  /\ Writes["task_insert"] = {"created"} /\ Writes["task_run"] = {"running"}
  /\ Writes["task_complete"] = {"completed"}
  /\ Writes["task_settle"] = {"failed", "cancelled"}
  /\ Writes["exec_insert"] = {"queued"} /\ Writes["exec_timeout"] = {"failed"}
  /\ Writes["exec_set"] = {"running", "completed", "failed"}
  /\ Writes["job_insert"] = {"queued"}
  /\ Writes["job_retry"] = {"queued", "retrying"}
  /\ Writes["job_finish"] = {"completed", "failed", "timed_out"}
  /\ Writes["job_cancel"] = {"cancelled"}
  /\ Writes["attempt_insert"] = {"started"}
  /\ Writes["attempt_finish"] = {"completed", "failed", "timed_out", "cancelled"}
  /\ Writes["await"] = {"awaited"} /\ Writes["task_output"] = {"none"}
  /\ Writes["credit_consume"] = {"none"} /\ Writes["credit_refund"] = {"none"}
BY DEF Writes, ClaimableJob, TerminalJob

LEMMA StmtType ==
  \A op \in DOMAIN Writes, t \in Tasks : \A to \in Writes[op] :
    LET s == Stmt(op, t, to) IN s \in Stmts /\ s.op = op /\ s.task = t
<1>  SUFFICES ASSUME NEW op \in DOMAIN Writes, NEW t \in Tasks,
                     NEW to \in Writes[op]
              PROVE  /\ Stmt(op, t, to) \in Stmts
                     /\ Stmt(op, t, to).op = op /\ Stmt(op, t, to).task = t
  OBVIOUS
<1>1. to \in Written  BY DEF Written
<1>  QED  BY <1>1 DEF Stmt, Stmts

FailureOps == {"job_retry", "attempt_finish", "job_finish", "task_settle"}

\* A failure plan concerns its task only, and retries within the budget only.
LEMMA FailurePlanType ==
  ASSUME NEW t \in Tasks, NEW n, NEW error,
         NEW finally \in {"failed", "timed_out"}
  PROVE  /\ FailurePlan(t, n, error, finally) \in Seq(Stmts)
         /\ \A s \in Range(FailurePlan(t, n, error, finally)) :
              /\ s.task = t /\ s.op \in FailureOps
              /\ s.op = "job_retry" => n < MaxAttempts
<1>  DEFINE a == Stmt("job_retry", t, "retrying")
            b == Stmt("attempt_finish", t, finally)
            c == Stmt("job_finish", t, finally)
            d == Stmt("task_settle", t, "failed")
<1>1. /\ a \in Stmts /\ a.op = "job_retry" /\ a.task = t
      /\ b \in Stmts /\ b.op = "attempt_finish" /\ b.task = t
      /\ c \in Stmts /\ c.op = "job_finish" /\ c.task = t
      /\ d \in Stmts /\ d.op = "task_settle" /\ d.task = t
  BY StmtType, WritesValues
<1>2. FailurePlan(t, n, error, finally) =
        IF Retryable(error) /\ n < MaxAttempts THEN <<a, b>> ELSE <<c, b, d>>
  BY DEF FailurePlan
<1>  HIDE DEF a, b, c, d
<1>3. /\ <<a, b>> \in Seq(Stmts) /\ Range(<<a, b>>) = {a, b}
      /\ <<c, b, d>> \in Seq(Stmts) /\ Range(<<c, b, d>>) = {c, b, d}
  BY <1>1, TupleRange
<1>  QED  BY <1>1, <1>2, <1>3 DEF FailureOps

\* The same behind the cancellation check.
LEMMA HandleJobFailureType ==
  ASSUME NEW t \in Tasks, NEW n, NEW error,
         NEW finally \in {"failed", "timed_out"}
  PROVE  /\ HandleJobFailure(t, n, error, finally) \in Seq(Stmts)
         /\ \A s \in Range(HandleJobFailure(t, n, error, finally)) :
              /\ s.task = t /\ s.op \in FailureOps
              /\ s.op = "job_retry" => n < MaxAttempts
<1>1. CASE job[t] = "cancelled"
  <2>  DEFINE a == Stmt("attempt_finish", t, "cancelled")
  <2>1. a \in Stmts /\ a.op = "attempt_finish" /\ a.task = t
    BY StmtType, WritesValues
  <2>2. HandleJobFailure(t, n, error, finally) = <<a>>
    BY <1>1 DEF HandleJobFailure
  <2>  HIDE DEF a
  <2>3. <<a>> \in Seq(Stmts) /\ Range(<<a>>) = {a}
    BY <2>1, TupleRange
  <2>  QED  BY <2>1, <2>2, <2>3 DEF FailureOps
<1>2. CASE job[t] # "cancelled"
  <2>1. HandleJobFailure(t, n, error, finally) =
          FailurePlan(t, n, error, finally)
    BY <1>2 DEF HandleJobFailure
  <2>  QED  BY <2>1, FailurePlanType
<1>  QED  BY <1>1, <1>2

StartOps == {"attempt_insert", "exec_set", "task_run", "await"}

\* An attempt that starts its agent changes no job row before it awaits.
LEMMA StartRunType ==
  ASSUME NEW t \in Tasks
  PROVE  /\ StartRun(t) \in Seq(Stmts)
         /\ \A s \in Range(StartRun(t)) : s.task = t /\ s.op \in StartOps
<1>  DEFINE a == Stmt("exec_set", t, "running")
            b == Stmt("task_run", t, "running")
            c == Stmt("await", t, "awaited")
<1>1. /\ a \in Stmts /\ a.op = "exec_set" /\ a.task = t
      /\ b \in Stmts /\ b.op = "task_run" /\ b.task = t
      /\ c \in Stmts /\ c.op = "await" /\ c.task = t
  BY StmtType, WritesValues
<1>2. StartRun(t) = <<a, b, c>>  BY DEF StartRun
<1>  HIDE DEF a, b, c
<1>3. <<a, b, c>> \in Seq(Stmts) /\ Range(<<a, b, c>>) = {a, b, c}
  BY <1>1, TupleRange
<1>  QED  BY <1>1, <1>2, <1>3 DEF StartOps

\* An attempt that does not find its agent never awaits.
LEMMA AgentMissingType ==
  ASSUME NEW t \in Tasks, NEW n
  PROVE  /\ AgentMissing(t, n) \in Seq(Stmts)
         /\ \A s \in Range(AgentMissing(t, n)) :
              /\ s.task = t
              /\ s.op \in FailureOps \cup {"exec_set", "task_run"}
              /\ s.op = "job_retry" => n < MaxAttempts
<1>  DEFINE a == Stmt("exec_set", t, "running")
            b == Stmt("task_run", t, "running")
            c == Stmt("exec_set", t, "failed")
            d == Stmt("task_settle", t, "failed")
            f == FailurePlan(t, n, HandlerError, "failed")
<1>1. /\ a \in Stmts /\ a.op = "exec_set" /\ a.task = t
      /\ b \in Stmts /\ b.op = "task_run" /\ b.task = t
      /\ c \in Stmts /\ c.op = "exec_set" /\ c.task = t
      /\ d \in Stmts /\ d.op = "task_settle" /\ d.task = t
  BY StmtType, WritesValues
<1>2. /\ f \in Seq(Stmts)
      /\ \A s \in Range(f) : /\ s.task = t /\ s.op \in FailureOps
                             /\ s.op = "job_retry" => n < MaxAttempts
  BY FailurePlanType
<1>3. AgentMissing(t, n) = <<a, b, c, d>> \o f  BY DEF AgentMissing
<1>  HIDE DEF a, b, c, d, f
<1>  DEFINE g == <<a, b, c, d>>
<1>4. g \in Seq(Stmts) /\ Range(g) = {a, b, c, d}
  BY <1>1, TupleRange
<1>  HIDE DEF g
<1>5. g \o f \in Seq(Stmts) /\ Range(g \o f) = {a, b, c, d} \cup Range(f)
  BY <1>2, <1>4, ConcatRange
<1>6. AgentMissing(t, n) = g \o f  BY <1>3 DEF g
<1>  QED  BY <1>1, <1>2, <1>5, <1>6 DEF FailureOps

-----------------------------------------------------------------------------
(* The inductive invariant.                                                *)

JobOps == {"job_insert", "job_retry", "job_finish", "job_cancel"}

\* What the engine may rely on when it comes to execute s: the statements of a
\* callback were chosen from what the callback read, and nothing runs between.
PendingOK(s) ==
  /\ s.op = "job_insert" =>
       /\ job[s.task] = "none"
       /\ \/ task[s.task] # "none"
          \/ Head(stmts).op = "task_insert" /\ Head(stmts).task = s.task
  /\ s.op = "job_retry" => attempts[s.task] < MaxAttempts
  /\ s.op \in {"job_insert", "job_retry", "job_finish"} => ~Awaited(s.task)
  /\ s.op = "await" => job[s.task] = "running"

\* A callback that is going to await changes no job row before it does.
AwaitAlone ==
  \A r, s \in Range(stmts) : r.op = "await" => s.op \notin JobOps

\* The job is the last thing a submission inserts.
InsertLast(q) == \A i \in DOMAIN q : q[i].op = "job_insert" => i = Len(q)

FreshTask ==
  \A t \in Tasks : /\ task[t] = "none" => job[t] = "none"
                   /\ job[t] = "none" => attempts[t] = 0

QueueInv ==
  /\ QueueTypeOK
  /\ ClaimableHasBudget /\ OneLiveAttempt /\ FreshTask
  /\ \A s \in Range(stmts) : PendingOK(s)
  /\ AwaitAlone /\ InsertLast(stmts)

LEMMA InsertLastTail ==
  ASSUME NEW q \in Seq(Stmts), q # <<>>, InsertLast(q)
  PROVE  InsertLast(Tail(q)) /\ (Head(q).op = "job_insert" => Tail(q) = <<>>)
<1>1. /\ Tail(q) \in Seq(Stmts) /\ Len(Tail(q)) = Len(q) - 1
      /\ \A i \in 1 .. Len(Tail(q)) : Tail(q)[i] = q[i + 1]
  BY HeadTailProperties
<1>2. /\ DOMAIN q = 1 .. Len(q) /\ Len(q) \in Nat \ {0} /\ Head(q) = q[1]
      /\ DOMAIN Tail(q) = 1 .. Len(Tail(q)) /\ Len(Tail(q)) \in Nat
  BY <1>1, LenProperties, EmptySeq
<1>3. InsertLast(Tail(q))
  BY <1>1, <1>2 DEF InsertLast
<1>4. ASSUME Head(q).op = "job_insert" PROVE Tail(q) = <<>>
  <2>1. Len(q) = 1  BY <1>2, <1>4 DEF InsertLast
  <2>2. Len(Tail(q)) = 0  BY <1>1, <2>1
  <2>  QED  BY <1>1, <2>2, EmptySeq
<1>  QED  BY <1>3, <1>4

LEMMA InsertLastConcat ==
  ASSUME NEW p \in Seq(Stmts), NEW q \in Seq(Stmts), InsertLast(q),
         \A s \in Range(p) : s.op # "job_insert"
  PROVE  InsertLast(p \o q)
<1>1. /\ Len(p \o q) = Len(p) + Len(q)
      /\ \A i \in 1 .. Len(p) + Len(q) :
           (p \o q)[i] = IF i <= Len(p) THEN p[i] ELSE q[i - Len(p)]
      /\ p \o q \in Seq(Stmts)
  BY ConcatProperties
<1>2. /\ DOMAIN p = 1 .. Len(p) /\ DOMAIN q = 1 .. Len(q)
      /\ DOMAIN (p \o q) = 1 .. Len(p) + Len(q)
      /\ Len(p) \in Nat /\ Len(q) \in Nat
  BY <1>1, LenProperties
<1>3. ASSUME NEW i \in 1 .. Len(p) + Len(q), (p \o q)[i].op = "job_insert"
      PROVE  i = Len(p) + Len(q)
  <2>1. CASE i <= Len(p)
    <3>1. i \in DOMAIN p /\ (p \o q)[i] = p[i]  BY <1>1, <1>2, <2>1
    <3>2. p[i] \in Range(p)  BY <3>1 DEF Range
    <3>  QED  BY <1>3, <3>1, <3>2
  <2>2. CASE ~(i <= Len(p))
    <3>1. /\ i - Len(p) \in DOMAIN q
          /\ (p \o q)[i] = q[i - Len(p)]
      BY <1>1, <1>2, <2>2
    <3>2. i - Len(p) = Len(q)  BY <1>3, <3>1 DEF InsertLast
    <3>  QED  BY <1>2, <3>2
  <2>  QED  BY <2>1, <2>2
<1>  QED  BY <1>1, <1>2, <1>3 DEF InsertLast

LEMMA NoInsertIsLast ==
  ASSUME NEW q, \A s \in Range(q) : s.op # "job_insert"
  PROVE  InsertLast(q)
BY DEF InsertLast, Range

\* The invariant holds initially: nothing exists yet.
LEMMA QueueInvInit == Init => QueueInv
<1>  SUFFICES ASSUME Init PROVE QueueInv  OBVIOUS
<1>  USE QueueAssumption
<1>1. stmts = <<>> /\ Range(stmts) = {}
  BY TupleRange DEF Init
<1>2. QueueTypeOK
  <2>1. stmts \in Seq(Stmts)  BY <1>1
  <2>2. task \in [Tasks -> TaskStatus] /\ exec \in [Tasks -> ExecStatus]
    BY DEF Init, TaskStatus, ExecStatus
  <2>3. job \in [Tasks -> JobStatus] /\ output \subseteq Tasks
    BY DEF Init, JobStatus
  <2>4. attempts \in [Tasks -> 0 .. MaxAttempts]
        /\ lockedBy \in [Tasks -> 0 .. MaxBoots]
    BY DEF Init
  <2>5. attemptRow \in [Tasks -> [AttemptNumber -> AttemptStatus]]
        /\ run \in [Tasks -> [AttemptNumber -> RunState]]
    BY DEF Init, AttemptStatus, RunState
  <2>6. boot \in 1 .. MaxBoots /\ phase \in Phases
    BY DEF Init, Phases
  <2>7. emergencyStop \in BOOLEAN
    BY Zenon DEF Init
  <2>  QED  BY <2>1, <2>2, <2>3, <2>4, <2>5, <2>6, <2>7, Zenon DEF QueueTypeOK
<1>3. ClaimableHasBudget
  BY DEF Init, ClaimableHasBudget, ClaimableJob
<1>4. OneLiveAttempt
  BY DEF Init, OneLiveAttempt
<1>5. FreshTask
  BY DEF Init, FreshTask
<1>6. AwaitAlone /\ \A s \in Range(stmts) : PendingOK(s)
  BY <1>1 DEF AwaitAlone
<1>7. InsertLast(stmts)
  BY <1>1, NoInsertIsLast
<1>  QED  BY <1>2, <1>3, <1>4, <1>5, <1>6, <1>7 DEF QueueInv

-----------------------------------------------------------------------------
(* Statements keep the invariant.                                          *)

\* What is known of the statement that is executed.
LEMMA HeadFacts ==
  ASSUME QueueInv, NEW op \in DOMAIN Writes, NEW t \in Tasks, Executing(op, t)
  PROVE  /\ stmts # <<>> /\ stmts \in Seq(Stmts)
         /\ Head(stmts) \in Range(stmts) /\ Head(stmts) \in Stmts
         /\ Head(stmts).op = op /\ Head(stmts).task = t
         /\ To \in Writes[op] /\ PendingOK(Head(stmts))
         /\ Tail(stmts) \in Seq(Stmts)
         /\ Range(Tail(stmts)) \subseteq Range(stmts)
         /\ InsertLast(Tail(stmts))
         /\ op = "job_insert" => Tail(stmts) = <<>>
<1>1. stmts # <<>> /\ stmts \in Seq(Stmts)
  BY DEF Executing, QueueInv, QueueTypeOK
<1>2. /\ Head(stmts) \in Range(stmts) /\ Head(stmts) \in Stmts
      /\ Tail(stmts) \in Seq(Stmts)
      /\ Range(Tail(stmts)) \subseteq Range(stmts)
  BY <1>1, TailRange
<1>3. Head(stmts).op = op /\ Head(stmts).task = t
  BY DEF Executing
<1>4. To \in Writes[op]
  BY <1>2, <1>3 DEF To, Stmts
<1>5. InsertLast(Tail(stmts)) /\ (op = "job_insert" => Tail(stmts) = <<>>)
  BY <1>1, <1>3, InsertLastTail DEF QueueInv
<1>6. PendingOK(Head(stmts))
  BY <1>2 DEF QueueInv
<1>  QED  BY <1>1, <1>2, <1>3, <1>4, <1>5, <1>6

\* The elements of a pending sequence are statements.
LEMMA RangeAreStmts ==
  ASSUME NEW q \in Seq(Stmts), NEW s \in Range(q)
  PROVE  s \in Stmts /\ s.task \in Tasks
<1>1. PICK i \in DOMAIN q : s = q[i]  BY DEF Range
<1>2. s \in Stmts  BY <1>1, LenProperties, ElementOfSeq
<1>  QED  BY <1>2 DEF Stmts

\* A statement that changes no job row and creates no waiting keeps the
\* invariant; it may put one statement without job effect in its place.
LEMMA FrameStatement ==
  ASSUME QueueInv, NEW op \in DOMAIN Writes, NEW t \in Tasks, Executing(op, t),
         op \notin JobOps \cup {"await"},
         UNCHANGED <<job, attempts, run>>, QueueTypeOK',
         \A u \in Tasks : task'[u] = "none" => task[u] = "none",
         op = "task_insert" => task'[t] # "none",
         \/ stmts' = Tail(stmts)
         \/ \E x \in Stmts : /\ stmts' = <<x>> \o Tail(stmts)
                             /\ x.op \in {"task_output", "credit_refund"}
  PROVE  QueueInv'
<1>1. /\ stmts # <<>> /\ stmts \in Seq(Stmts)
      /\ Head(stmts).op = op /\ Head(stmts).task = t
      /\ Tail(stmts) \in Seq(Stmts)
      /\ Range(Tail(stmts)) \subseteq Range(stmts)
      /\ InsertLast(Tail(stmts))
  BY HeadFacts
<1>2. /\ \A s \in Range(stmts') :
           \/ s \in Range(stmts)
           \/ s.op \in {"task_output", "credit_refund"}
      /\ InsertLast(stmts')
  <2>1. CASE stmts' = Tail(stmts)
    BY <1>1, <2>1
  <2>2. CASE stmts' # Tail(stmts)
    <3>1. PICK x \in Stmts : /\ stmts' = <<x>> \o Tail(stmts)
                             /\ x.op \in {"task_output", "credit_refund"}
      BY <2>2
    <3>  DEFINE p == <<x>>
                r == Tail(stmts)
    <3>2. p \in Seq(Stmts) /\ Range(p) = {x}  BY TupleRange
    <3>3. stmts' = p \o r /\ r \in Seq(Stmts)  BY <1>1, <3>1
    <3>  HIDE DEF p, r
    <3>4. Range(p \o r) = {x} \cup Range(r)
      BY <3>2, <3>3, ConcatRange
    <3>5. InsertLast(stmts')
      BY <1>1, <3>1, <3>2, <3>3, InsertLastConcat DEF r
    <3>  QED  BY <1>1, <3>1, <3>3, <3>4, <3>5 DEF r
  <2>  QED  BY <2>1, <2>2
<1>3. ClaimableHasBudget' /\ OneLiveAttempt'
  BY DEF QueueInv, ClaimableHasBudget, OneLiveAttempt
<1>4. FreshTask'
  BY DEF QueueInv, FreshTask
<1>5. AwaitAlone'
  BY <1>2 DEF QueueInv, AwaitAlone, JobOps
<1>6. ASSUME NEW s \in Range(stmts') PROVE PendingOK(s)'
  <2>1. CASE s \notin Range(stmts)
    BY <1>2, <2>1 DEF PendingOK
  <2>2. CASE s \in Range(stmts)
    <3>1. PendingOK(s) /\ s.task \in Tasks
      BY <1>1, <2>2, RangeAreStmts DEF QueueInv
    <3>2. Awaited(s.task)' <=> Awaited(s.task)
      BY DEF Awaited
    <3>3. task[s.task] # "none" => task'[s.task] # "none"
      BY <3>1
    <3>4. s.op = "job_insert" => task'[s.task] # "none"
      BY <1>1, <3>1, <3>3 DEF PendingOK
    <3>  QED  BY <3>1, <3>2, <3>4 DEF PendingOK
  <2>  QED  BY <2>1, <2>2
<1>  QED  BY <1>2, <1>3, <1>4, <1>5, <1>6 DEF QueueInv

\* The statements that touch neither the job row nor the waiting: whatever
\* they write is of the right type.
LEMMA PlainStatements ==
  ASSUME QueueInv, NEW t \in Tasks,
         \/ CreateTask(t) \/ ReserveTaskCredit(t) \/ CreateAgentExecution(t)
         \/ InsertJobAttempt(t) \/ FinishJobAttempt(t) \/ SetExecution(t)
         \/ MarkExecutionTimedOut(t) \/ RunTask(t) \/ UpdateTaskOutput(t)
         \/ RefundCredit(t)
  PROVE  QueueInv'
<1>1. CASE CreateTask(t)
  <2>1. Executing("task_insert", t) /\ "task_insert" \in DOMAIN Writes
    BY <1>1, WritesValues DEF CreateTask
  <2>2. /\ stmts' = Tail(stmts)
        /\ UNCHANGED <<job, attempts, run>>
    BY <1>1 DEF CreateTask, Done, rowVars
  <2>3. To \in Writes["task_insert"] /\ Tail(stmts) \in Seq(Stmts)
    BY <2>1, HeadFacts
  <2>4. QueueTypeOK'
    BY <1>1, <2>2, <2>3, WritesValues
    DEF CreateTask, Done, rowVars, QueueInv, QueueTypeOK, TaskStatus, NonTerminalTask
  <2>  QED
    BY <1>1, <2>1, <2>2, <2>3, <2>4, FrameStatement, WritesValues
    DEF CreateTask, JobOps, rowVars, QueueInv, QueueTypeOK
<1>2. CASE ReserveTaskCredit(t)
  <2>1. Executing("credit_consume", t) /\ "credit_consume" \in DOMAIN Writes
    BY <1>2, WritesValues DEF ReserveTaskCredit
  <2>2. /\ stmts' = Tail(stmts)
        /\ UNCHANGED <<job, attempts, run>>
    BY <1>2 DEF ReserveTaskCredit, Done, rowVars
  <2>3. To \in Writes["credit_consume"] /\ Tail(stmts) \in Seq(Stmts)
    BY <2>1, HeadFacts
  <2>4. QueueTypeOK'
    BY <1>2, <2>2, <2>3, WritesValues
    DEF ReserveTaskCredit, Done, rowVars, QueueInv, QueueTypeOK
  <2>  QED
    BY <1>2, <2>1, <2>2, <2>3, <2>4, FrameStatement, WritesValues
    DEF ReserveTaskCredit, JobOps, rowVars, QueueInv, QueueTypeOK
<1>3. CASE CreateAgentExecution(t)
  <2>1. Executing("exec_insert", t) /\ "exec_insert" \in DOMAIN Writes
    BY <1>3, WritesValues DEF CreateAgentExecution
  <2>2. /\ stmts' = Tail(stmts)
        /\ UNCHANGED <<job, attempts, run>>
    BY <1>3 DEF CreateAgentExecution, Done, rowVars
  <2>3. To \in Writes["exec_insert"] /\ Tail(stmts) \in Seq(Stmts)
    BY <2>1, HeadFacts
  <2>4. QueueTypeOK'
    BY <1>3, <2>2, <2>3, WritesValues
    DEF CreateAgentExecution, Done, rowVars, QueueInv, QueueTypeOK, ExecStatus
  <2>  QED
    BY <1>3, <2>1, <2>2, <2>3, <2>4, FrameStatement, WritesValues
    DEF CreateAgentExecution, JobOps, rowVars, QueueInv, QueueTypeOK
<1>4. CASE InsertJobAttempt(t)
  <2>1. Executing("attempt_insert", t) /\ "attempt_insert" \in DOMAIN Writes
    BY <1>4, WritesValues DEF InsertJobAttempt
  <2>2. /\ stmts' = Tail(stmts)
        /\ UNCHANGED <<job, attempts, run>>
    BY <1>4 DEF InsertJobAttempt, Done, rowVars
  <2>3. To \in Writes["attempt_insert"] /\ Tail(stmts) \in Seq(Stmts)
    BY <2>1, HeadFacts
  <2>4. QueueTypeOK'
    BY <1>4, <2>2, <2>3, WritesValues
    DEF InsertJobAttempt, Done, rowVars, QueueInv, QueueTypeOK, AttemptStatus
  <2>  QED
    BY <1>4, <2>1, <2>2, <2>3, <2>4, FrameStatement, WritesValues
    DEF InsertJobAttempt, JobOps, rowVars, QueueInv, QueueTypeOK
<1>5. CASE FinishJobAttempt(t)
  <2>1. Executing("attempt_finish", t) /\ "attempt_finish" \in DOMAIN Writes
    BY <1>5, WritesValues DEF FinishJobAttempt
  <2>2. /\ stmts' = Tail(stmts)
        /\ UNCHANGED <<job, attempts, run>>
    BY <1>5 DEF FinishJobAttempt, Done, rowVars
  <2>3. To \in Writes["attempt_finish"] /\ Tail(stmts) \in Seq(Stmts)
    BY <2>1, HeadFacts
  <2>4. QueueTypeOK'
    BY <1>5, <2>2, <2>3, WritesValues
    DEF FinishJobAttempt, Done, rowVars, QueueInv, QueueTypeOK, AttemptStatus
  <2>  QED
    BY <1>5, <2>1, <2>2, <2>3, <2>4, FrameStatement, WritesValues
    DEF FinishJobAttempt, JobOps, rowVars, QueueInv, QueueTypeOK
<1>6. CASE SetExecution(t)
  <2>1. Executing("exec_set", t) /\ "exec_set" \in DOMAIN Writes
    BY <1>6, WritesValues DEF SetExecution
  <2>2. /\ stmts' = Tail(stmts)
        /\ UNCHANGED <<job, attempts, run>>
    BY <1>6 DEF SetExecution, Done, rowVars
  <2>3. To \in Writes["exec_set"] /\ Tail(stmts) \in Seq(Stmts)
    BY <2>1, HeadFacts
  <2>4. QueueTypeOK'
    BY <1>6, <2>2, <2>3, WritesValues
    DEF SetExecution, Done, rowVars, QueueInv, QueueTypeOK, ExecStatus
  <2>  QED
    BY <1>6, <2>1, <2>2, <2>3, <2>4, FrameStatement, WritesValues
    DEF SetExecution, JobOps, rowVars, QueueInv, QueueTypeOK
<1>7. CASE MarkExecutionTimedOut(t)
  <2>1. Executing("exec_timeout", t) /\ "exec_timeout" \in DOMAIN Writes
    BY <1>7, WritesValues DEF MarkExecutionTimedOut
  <2>2. /\ stmts' = Tail(stmts)
        /\ UNCHANGED <<job, attempts, run>>
    BY <1>7 DEF MarkExecutionTimedOut, Done, rowVars
  <2>3. To \in Writes["exec_timeout"] /\ Tail(stmts) \in Seq(Stmts)
    BY <2>1, HeadFacts
  <2>4. QueueTypeOK'
    BY <1>7, <2>2, <2>3, WritesValues
    DEF MarkExecutionTimedOut, Done, rowVars, QueueInv, QueueTypeOK, ExecStatus
  <2>  QED
    BY <1>7, <2>1, <2>2, <2>3, <2>4, FrameStatement, WritesValues
    DEF MarkExecutionTimedOut, JobOps, rowVars, QueueInv, QueueTypeOK
<1>8. CASE RunTask(t)
  <2>1. Executing("task_run", t) /\ "task_run" \in DOMAIN Writes
    BY <1>8, WritesValues DEF RunTask
  <2>2. /\ stmts' = Tail(stmts)
        /\ UNCHANGED <<job, attempts, run>>
    BY <1>8 DEF RunTask, Done, rowVars
  <2>3. To \in Writes["task_run"] /\ Tail(stmts) \in Seq(Stmts)
    BY <2>1, HeadFacts
  <2>4. QueueTypeOK'
    BY <1>8, <2>2, <2>3, WritesValues
    DEF RunTask, Done, rowVars, QueueInv, QueueTypeOK, TaskStatus, NonTerminalTask
  <2>  QED
    BY <1>8, <2>1, <2>2, <2>3, <2>4, FrameStatement, WritesValues
    DEF RunTask, JobOps, rowVars, QueueInv, QueueTypeOK
<1>9. CASE UpdateTaskOutput(t)
  <2>1. Executing("task_output", t) /\ "task_output" \in DOMAIN Writes
    BY <1>9, WritesValues DEF UpdateTaskOutput
  <2>2. /\ stmts' = Tail(stmts)
        /\ UNCHANGED <<job, attempts, run>>
    BY <1>9 DEF UpdateTaskOutput, Done, rowVars
  <2>3. To \in Writes["task_output"] /\ Tail(stmts) \in Seq(Stmts)
    BY <2>1, HeadFacts
  <2>4. QueueTypeOK'
    BY <1>9, <2>2, <2>3, WritesValues
    DEF UpdateTaskOutput, Done, rowVars, QueueInv, QueueTypeOK
  <2>  QED
    BY <1>9, <2>1, <2>2, <2>3, <2>4, FrameStatement, WritesValues
    DEF UpdateTaskOutput, JobOps, rowVars, QueueInv, QueueTypeOK
<1>10. CASE RefundCredit(t)
  <2>1. Executing("credit_refund", t) /\ "credit_refund" \in DOMAIN Writes
    BY <1>10, WritesValues DEF RefundCredit
  <2>2. /\ stmts' = Tail(stmts)
        /\ UNCHANGED <<job, attempts, run>>
    BY <1>10 DEF RefundCredit, Done, rowVars
  <2>3. To \in Writes["credit_refund"] /\ Tail(stmts) \in Seq(Stmts)
    BY <2>1, HeadFacts
  <2>4. QueueTypeOK'
    BY <1>10, <2>2, <2>3, WritesValues
    DEF RefundCredit, Done, rowVars, QueueInv, QueueTypeOK
  <2>  QED
    BY <1>10, <2>1, <2>2, <2>3, <2>4, FrameStatement, WritesValues
    DEF RefundCredit, JobOps, rowVars, QueueInv, QueueTypeOK
<1>  QED  BY <1>1, <1>2, <1>3, <1>4, <1>5, <1>6, <1>7, <1>8, <1>9, <1>10

\* A guarded change of the task that is followed by one more statement.
LEMMA GuardedTaskStatements ==
  ASSUME QueueInv, NEW t \in Tasks, CompleteTask(t) \/ SettleTask(t)
  PROVE  QueueInv'
<1>  DEFINE out == Stmt("task_output", t, "none")
            ref == Stmt("credit_refund", t, "none")
<1>1. /\ out \in Stmts /\ out.op = "task_output"
      /\ ref \in Stmts /\ ref.op = "credit_refund"
  BY StmtType, WritesValues
<1>2. CASE CompleteTask(t)
  <2>1. Executing("task_complete", t) /\ "task_complete" \in DOMAIN Writes
    BY <1>2, WritesValues DEF CompleteTask
  <2>2. \/ stmts' = <<out>> \o Tail(stmts)
        \/ stmts' = Tail(stmts)
    BY <1>2 DEF CompleteTask
  <2>  HIDE DEF out, ref
  <2>3. To = "completed" /\ Tail(stmts) \in Seq(Stmts)
    BY <2>1, HeadFacts, WritesValues
  <2>4. \/ task' = [task EXCEPT ![t] = "completed"]
        \/ task' = task
    BY <1>2, <2>3 DEF CompleteTask
  <2>5. /\ UNCHANGED <<job, attempts, run, output, exec, lockedBy, attemptRow>>
        /\ UNCHANGED <<emergencyStop, boot, phase>>
    BY <1>2 DEF CompleteTask
  <2>  DEFINE r == Tail(stmts)
  <2>6. <<out>> \in Seq(Stmts) /\ r \in Seq(Stmts)  BY <1>1, <2>3
  <2>  HIDE DEF r
  <2>7. <<out>> \o r \in Seq(Stmts)  BY <2>6, ConcatRange
  <2>8. stmts' \in Seq(Stmts)  BY <2>2, <2>6, <2>7 DEF r
  <2>9. QueueTypeOK'
    BY <2>4, <2>5, <2>8 DEF QueueInv, QueueTypeOK, TaskStatus
  <2>10. \A u \in Tasks : task'[u] = "none" => task[u] = "none"
    BY <2>4 DEF QueueInv, QueueTypeOK
  <2>  QED
    BY <1>1, <2>1, <2>2, <2>5, <2>9, <2>10, FrameStatement DEF JobOps
<1>3. CASE SettleTask(t)
  <2>1. Executing("task_settle", t) /\ "task_settle" \in DOMAIN Writes
    BY <1>3, WritesValues DEF SettleTask
  <2>2. \/ stmts' = <<ref>> \o Tail(stmts)
        \/ stmts' = Tail(stmts)
    BY <1>3 DEF SettleTask
  <2>  HIDE DEF out, ref
  <2>3. To \in {"failed", "cancelled"} /\ Tail(stmts) \in Seq(Stmts)
    BY <2>1, HeadFacts, WritesValues
  <2>4. \/ task' = [task EXCEPT ![t] = To]
        \/ task' = task
    BY <1>3 DEF SettleTask
  <2>5. /\ UNCHANGED <<job, attempts, run, output, exec, lockedBy, attemptRow>>
        /\ UNCHANGED <<emergencyStop, boot, phase>>
    BY <1>3 DEF SettleTask
  <2>  DEFINE r == Tail(stmts)
  <2>6. <<ref>> \in Seq(Stmts) /\ r \in Seq(Stmts)  BY <1>1, <2>3
  <2>  HIDE DEF r
  <2>7. <<ref>> \o r \in Seq(Stmts)  BY <2>6, ConcatRange
  <2>8. stmts' \in Seq(Stmts)  BY <2>2, <2>6, <2>7 DEF r
  <2>9. QueueTypeOK'
    BY <2>3, <2>4, <2>5, <2>8 DEF QueueInv, QueueTypeOK, TaskStatus
  <2>10. \A u \in Tasks : task'[u] = "none" => task[u] = "none"
    BY <2>3, <2>4 DEF QueueInv, QueueTypeOK
  <2>  QED
    BY <1>1, <2>1, <2>2, <2>5, <2>9, <2>10, FrameStatement DEF JobOps
<1>  QED  BY <1>2, <1>3

\* The statements that change a job row: the row's new status agrees with its
\* attempts, nobody waits for the job unless it is running or cancelled, and
\* the statements left of the callback do not depend on the old status.
LEMMA JobStatement ==
  ASSUME QueueInv, NEW t \in Tasks, NEW op \in JobOps, Executing(op, t),
         op = "job_insert" \/ job[t] # "none",
         NEW to \in JobStatus \ {"none"}, job' = [job EXCEPT ![t] = to],
         to \in ClaimableJob => attempts[t] < MaxAttempts,
         to \in {"running", "cancelled"} \/ ~Awaited(t), task[t] # "none",
         UNCHANGED <<attempts, run, task>>, QueueTypeOK', stmts' = Tail(stmts)
  PROVE  QueueInv'
<1>0. op \in DOMAIN Writes  BY WritesValues DEF JobOps
<1>1. /\ stmts # <<>> /\ stmts \in Seq(Stmts)
      /\ Head(stmts).op = op /\ Head(stmts).task = t
      /\ Head(stmts) \in Range(stmts)
      /\ Range(stmts') \subseteq Range(stmts) /\ InsertLast(stmts')
      /\ op = "job_insert" => stmts' = <<>>
  BY <1>0, HeadFacts
<1>2. /\ job'[t] = to
      /\ \A u \in Tasks : u # t => job'[u] = job[u]
  BY DEF QueueInv, QueueTypeOK
<1>3. ClaimableHasBudget'
  BY <1>2 DEF QueueInv, ClaimableHasBudget
<1>4. OneLiveAttempt'
  BY <1>2 DEF QueueInv, OneLiveAttempt, Awaited
<1>5. FreshTask'
  BY <1>2 DEF QueueInv, FreshTask
<1>6. AwaitAlone'
  BY <1>1 DEF QueueInv, AwaitAlone
<1>7. ASSUME NEW s \in Range(stmts') PROVE PendingOK(s)'
  <2>1. PendingOK(s) /\ s.task \in Tasks
    BY <1>1, RangeAreStmts DEF QueueInv
  <2>2. Awaited(s.task)' <=> Awaited(s.task)
    BY DEF Awaited
  <2>3. s.op # "await"
    BY <1>1 DEF QueueInv, AwaitAlone
  <2>4. CASE op = "job_insert"
    BY <1>1, <2>4, TupleRange
  <2>5. CASE op # "job_insert"
    <3>1. s.op = "job_insert" => s.task # t /\ task[s.task] # "none"
      BY <1>1, <2>1, <2>5 DEF PendingOK, JobOps
    <3>  QED  BY <1>2, <2>1, <2>2, <2>3, <3>1 DEF PendingOK
  <2>  QED  BY <2>4, <2>5
<1>  QED  BY <1>1, <1>3, <1>4, <1>5, <1>6, <1>7 DEF QueueInv

\* A statement whose guard fails changes nothing but the rest of the callback.
LEMMA UnchangedStatement ==
  ASSUME QueueInv, NEW t \in Tasks, NEW op \in DOMAIN Writes, Executing(op, t),
         UNCHANGED <<job, attempts, run, task>>, QueueTypeOK',
         stmts' = Tail(stmts), op \notin {"task_insert", "job_insert"}
  PROVE  QueueInv'
<1>1. /\ stmts # <<>> /\ stmts \in Seq(Stmts)
      /\ Head(stmts).op = op /\ InsertLast(stmts')
      /\ Range(stmts') \subseteq Range(stmts)
  BY HeadFacts
<1>2. ClaimableHasBudget' /\ OneLiveAttempt' /\ FreshTask'
  BY DEF QueueInv, ClaimableHasBudget, OneLiveAttempt, FreshTask
<1>3. AwaitAlone'
  BY <1>1 DEF QueueInv, AwaitAlone
<1>4. ASSUME NEW s \in Range(stmts') PROVE PendingOK(s)'
  <2>1. PendingOK(s)  BY <1>1 DEF QueueInv
  <2>2. Awaited(s.task)' <=> Awaited(s.task)  BY DEF Awaited
  <2>  QED  BY <1>1, <2>1, <2>2 DEF PendingOK
<1>  QED  BY <1>1, <1>2, <1>3, <1>4 DEF QueueInv

\* Each of them is such a change, or changes nothing because of its guard.
LEMMA JobStatements ==
  ASSUME QueueInv, NEW t \in Tasks,
         InsertJob(t) \/ FinishJob(t) \/ ReleaseJob(t) \/ CancelJobRow(t)
  PROVE  QueueInv'
<1>1. CASE InsertJob(t)
  <2>1. Executing("job_insert", t) /\ "job_insert" \in DOMAIN Writes
    BY <1>1, WritesValues DEF InsertJob
  <2>2. /\ Head(stmts).op = "job_insert" /\ Head(stmts).task = t
        /\ To = "queued" /\ PendingOK(Head(stmts))
        /\ Tail(stmts) \in Seq(Stmts)
    BY <2>1, HeadFacts, WritesValues
  <2>3. job[t] = "none" /\ task[t] # "none" /\ ~Awaited(t)
    BY <2>2 DEF PendingOK
  <2>4. attempts[t] < MaxAttempts
    BY <2>3, QueueAssumption DEF QueueInv, FreshTask
  <2>5. /\ job' = [job EXCEPT ![t] = "queued"] /\ stmts' = Tail(stmts)
        /\ UNCHANGED <<task, output, exec, attempts, lockedBy, attemptRow, run>>
        /\ UNCHANGED <<emergencyStop, boot, phase>>
    BY <1>1, <2>2 DEF InsertJob, Done
  <2>6. "queued" \in JobStatus \ {"none"} /\ "job_insert" \in JobOps
    BY DEF JobStatus, ActiveJob, ClaimableJob, JobOps
  <2>7. QueueTypeOK'
    BY <2>2, <2>5, <2>6 DEF QueueInv, QueueTypeOK
  <2>  QED  BY <2>1, <2>3, <2>4, <2>5, <2>6, <2>7, JobStatement
<1>2. CASE FinishJob(t)
  <2>1. Executing("job_finish", t) /\ "job_finish" \in DOMAIN Writes
    BY <1>2, WritesValues DEF FinishJob
  <2>2. /\ Head(stmts).op = "job_finish" /\ Head(stmts).task = t
        /\ To \in {"completed", "failed", "timed_out"}
        /\ PendingOK(Head(stmts)) /\ Tail(stmts) \in Seq(Stmts)
    BY <2>1, HeadFacts, WritesValues
  <2>3. ~Awaited(t)
    BY <2>2 DEF PendingOK
  <2>4. /\ stmts' = Tail(stmts)
        /\ UNCHANGED <<task, output, exec, attempts, lockedBy, attemptRow, run>>
        /\ UNCHANGED <<emergencyStop, boot, phase>>
    BY <1>2 DEF FinishJob, Done
  <2>5. "job_finish" \in JobOps  BY DEF JobOps
  <2>6. CASE job[t] = "running"
    <3>1. job' = [job EXCEPT ![t] = To]  BY <1>2, <2>6 DEF FinishJob
    <3>2. To \in JobStatus \ {"none"} /\ To \notin ClaimableJob
      BY <2>2 DEF JobStatus, TerminalJob, ClaimableJob
    <3>3. QueueTypeOK'
      BY <2>2, <2>4, <3>1, <3>2 DEF QueueInv, QueueTypeOK
    <3>4. task[t] # "none"  BY <2>6 DEF QueueInv, FreshTask
    <3>5. PICK to \in JobStatus \ {"none"} : to = To  BY <3>2
    <3>6. job' = [job EXCEPT ![t] = to] /\ to \notin ClaimableJob
      BY <3>1, <3>2, <3>5
    <3>  QED  BY <2>1, <2>3, <2>4, <2>5, <2>6, <3>3, <3>4, <3>6, JobStatement
  <2>7. CASE job[t] # "running"
    <3>1. job' = job  BY <1>2, <2>7 DEF FinishJob
    <3>2. QueueTypeOK'  BY <2>2, <2>4, <3>1 DEF QueueInv, QueueTypeOK
    <3>  QED  BY <2>1, <2>4, <3>1, <3>2, UnchangedStatement
  <2>  QED  BY <2>6, <2>7
<1>3. CASE ReleaseJob(t)
  <2>1. Executing("job_retry", t) /\ "job_retry" \in DOMAIN Writes
    BY <1>3, WritesValues DEF ReleaseJob
  <2>2. /\ Head(stmts).op = "job_retry" /\ Head(stmts).task = t
        /\ To \in {"queued", "retrying"}
        /\ PendingOK(Head(stmts)) /\ Tail(stmts) \in Seq(Stmts)
    BY <2>1, HeadFacts, WritesValues
  <2>3. ~Awaited(t) /\ attempts[t] < MaxAttempts
    BY <2>2 DEF PendingOK
  <2>4. /\ stmts' = Tail(stmts)
        /\ UNCHANGED <<task, output, exec, attempts, attemptRow, run>>
        /\ UNCHANGED <<emergencyStop, boot, phase>>
    BY <1>3 DEF ReleaseJob, Done
  <2>5. "job_retry" \in JobOps  BY DEF JobOps
  <2>6. CASE job[t] = "running"
    <3>1. /\ job' = [job EXCEPT ![t] = To]
          /\ lockedBy' = [lockedBy EXCEPT ![t] = 0]
      BY <1>3, <2>6 DEF ReleaseJob
    <3>2. To \in JobStatus \ {"none"}
      BY <2>2 DEF JobStatus, ActiveJob, ClaimableJob
    <3>3. QueueTypeOK'
      BY <2>2, <2>4, <3>1, <3>2, QueueAssumption DEF QueueInv, QueueTypeOK
    <3>4. task[t] # "none"  BY <2>6 DEF QueueInv, FreshTask
    <3>5. PICK to \in JobStatus \ {"none"} : to = To  BY <3>2
    <3>6. job' = [job EXCEPT ![t] = to]
      BY <3>1, <3>5
    <3>  QED  BY <2>1, <2>3, <2>4, <2>5, <2>6, <3>3, <3>4, <3>6, JobStatement
  <2>7. CASE job[t] # "running"
    <3>1. job' = job /\ lockedBy' = lockedBy  BY <1>3, <2>7 DEF ReleaseJob
    <3>2. QueueTypeOK'  BY <2>2, <2>4, <3>1 DEF QueueInv, QueueTypeOK
    <3>  QED  BY <2>1, <2>4, <3>1, <3>2, UnchangedStatement
  <2>  QED  BY <2>6, <2>7
<1>4. CASE CancelJobRow(t)
  <2>1. Executing("job_cancel", t) /\ "job_cancel" \in DOMAIN Writes
    BY <1>4, WritesValues DEF CancelJobRow
  <2>2. To = "cancelled" /\ Tail(stmts) \in Seq(Stmts)
    BY <2>1, HeadFacts, WritesValues
  <2>3. /\ stmts' = Tail(stmts)
        /\ UNCHANGED <<task, output, exec, attempts, lockedBy, attemptRow, run>>
        /\ UNCHANGED <<emergencyStop, boot, phase>>
    BY <1>4 DEF CancelJobRow, Done
  <2>4. "job_cancel" \in JobOps  BY DEF JobOps
  <2>5. CASE job[t] \in ActiveJob
    <3>1. job' = [job EXCEPT ![t] = "cancelled"]
      BY <1>4, <2>2, <2>5 DEF CancelJobRow
    <3>2. "cancelled" \in JobStatus \ {"none"} /\ "cancelled" \notin ClaimableJob
      BY DEF JobStatus, TerminalJob, ClaimableJob
    <3>3. QueueTypeOK'
      BY <2>2, <2>3, <3>1, <3>2 DEF QueueInv, QueueTypeOK
    <3>4. task[t] # "none" /\ job[t] # "none"
      BY <2>5 DEF QueueInv, FreshTask, ActiveJob, ClaimableJob
    <3>  QED  BY <2>1, <2>3, <2>4, <3>1, <3>2, <3>3, <3>4, JobStatement
  <2>6. CASE job[t] \notin ActiveJob
    <3>1. job' = job  BY <1>4, <2>6 DEF CancelJobRow
    <3>2. QueueTypeOK'  BY <2>2, <2>3, <3>1 DEF QueueInv, QueueTypeOK
    <3>  QED  BY <2>1, <2>3, <3>1, <3>2, UnchangedStatement
  <2>  QED  BY <2>5, <2>6
<1>  QED  BY <1>1, <1>2, <1>3, <1>4

\* The dispatch of the claimed attempt becomes awaited.
LEMMA AwaitStatement ==
  ASSUME QueueInv, NEW t \in Tasks, AwaitRun(t)
  PROVE  QueueInv'
<1>1. Executing("await", t) /\ "await" \in DOMAIN Writes
  BY WritesValues DEF AwaitRun
<1>2. /\ Head(stmts) \in Range(stmts) /\ stmts \in Seq(Stmts)
      /\ Head(stmts).op = "await" /\ Head(stmts).task = t
      /\ To = "awaited" /\ PendingOK(Head(stmts))
      /\ Tail(stmts) \in Seq(Stmts) /\ InsertLast(Tail(stmts))
      /\ Range(Tail(stmts)) \subseteq Range(stmts)
  BY <1>1, HeadFacts, WritesValues
<1>3. /\ run' = [run EXCEPT ![t][attempts[t]] = "awaited"]
      /\ stmts' = Tail(stmts)
      /\ UNCHANGED <<task, output, exec, job, attempts, lockedBy, attemptRow>>
      /\ UNCHANGED <<emergencyStop, boot, phase>>
  BY <1>2 DEF AwaitRun, Done, rowVars
<1>4. job[t] = "running"  BY <1>2 DEF PendingOK
<1>5. QueueTypeOK'
  BY <1>2, <1>3 DEF QueueInv, QueueTypeOK, RunState
<1>6. ClaimableHasBudget' /\ FreshTask'
  BY <1>3 DEF QueueInv, ClaimableHasBudget, FreshTask
<1>7. OneLiveAttempt'
  BY <1>3, <1>4 DEF QueueInv, QueueTypeOK, OneLiveAttempt
<1>8. AwaitAlone' /\ InsertLast(stmts')
  BY <1>2, <1>3 DEF QueueInv, AwaitAlone
<1>9. ASSUME NEW s \in Range(stmts') PROVE PendingOK(s)'
  <2>1. PendingOK(s) /\ s.op \notin JobOps
    BY <1>2, <1>3 DEF QueueInv, AwaitAlone
  <2>  QED  BY <1>3, <2>1 DEF PendingOK, JobOps
<1>  QED  BY <1>5, <1>6, <1>7, <1>8, <1>9 DEF QueueInv

\* So every statement keeps the invariant.
LEMMA StatementKeepsInv ==
  ASSUME QueueInv, NEW t \in Tasks, Statement(t)
  PROVE  QueueInv'
BY PlainStatements, GuardedTaskStatements, JobStatements, AwaitStatement
   DEF Statement

-----------------------------------------------------------------------------
(* Callbacks, recovery and crashes keep the invariant.                     *)

\* A process that recovers has not dispatched anything yet.
NoOneWaits == \A t \in Tasks : \A n \in AttemptNumber : run[t][n] # "awaited"

\* A callback that changes no row itself and only ends waits keeps the
\* invariant if what it leaves to execute is as PendingOK says.
LEMMA CallbackKeepsInv ==
  ASSUME QueueInv, QueueTypeOK', UNCHANGED <<task, job, attempts>>,
         \A t \in Tasks : \A n \in AttemptNumber :
           run'[t][n] = "awaited" => run[t][n] = "awaited",
         \A s \in Range(stmts') : s.op # "await" /\ PendingOK(s)',
         InsertLast(stmts')
  PROVE  QueueInv'
<1>1. ClaimableHasBudget' /\ OneLiveAttempt' /\ FreshTask'
  BY DEF QueueInv, ClaimableHasBudget, OneLiveAttempt, FreshTask
<1>2. AwaitAlone'
  BY DEF AwaitAlone
<1>  QED  BY <1>1, <1>2 DEF QueueInv

\* A statement that is neither on a job row nor an await needs nothing.
LEMMA HarmlessOK ==
  ASSUME NEW s, s.op \notin JobOps \cup {"await"}
  PROVE  PendingOK(s)'
BY DEF PendingOK, JobOps

LEMMA SubmitKeepsInv ==
  ASSUME QueueInv, NEW t \in Tasks, Submit(t)
  PROVE  QueueInv'
<1>  DEFINE a == Stmt("task_insert", t, "created")
            b == Stmt("credit_consume", t, "none")
            c == Stmt("exec_insert", t, "queued")
            d == Stmt("job_insert", t, "queued")
            p == <<a>>
            q == IF t \in UnlimitedTasks THEN <<>> ELSE <<b>>
            r == <<c, d>>
<1>1. /\ a \in Stmts /\ a.op = "task_insert" /\ a.task = t
      /\ b \in Stmts /\ b.op = "credit_consume" /\ b.task = t
      /\ c \in Stmts /\ c.op = "exec_insert" /\ c.task = t
      /\ d \in Stmts /\ d.op = "job_insert" /\ d.task = t
  BY StmtType, WritesValues
<1>2. /\ task[t] = "none" /\ stmts' = p \o q \o r
      /\ UNCHANGED <<task, output, exec, job, attempts, lockedBy, attemptRow>>
      /\ UNCHANGED <<emergencyStop, run, boot, phase>>
  BY DEF Submit, rowVars
<1>  HIDE DEF a, b, c, d
<1>3. /\ p \in Seq(Stmts) /\ Range(p) = {a} /\ Len(p) = 1 /\ p[1] = a
      /\ q \in Seq(Stmts) /\ Range(q) \subseteq {b}
      /\ r \in Seq(Stmts) /\ Range(r) = {c, d}
  <2>1. p \in Seq(Stmts) /\ Range(p) = {a} /\ Len(p) = 1 /\ p[1] = a
    BY <1>1, TupleRange
  <2>2. CASE t \in UnlimitedTasks
    <3>1. q = <<>>  BY <2>2
    <3>2. q \in Seq(Stmts) /\ Range(q) = {}  BY <3>1, TupleRange
    <3>3. r \in Seq(Stmts) /\ Range(r) = {c, d}  BY <1>1, TupleRange
    <3>  QED  BY <2>1, <3>2, <3>3
  <2>3. CASE t \notin UnlimitedTasks
    <3>1. q = <<b>>  BY <2>3
    <3>2. q \in Seq(Stmts) /\ Range(q) = {b}  BY <1>1, <3>1, TupleRange
    <3>3. r \in Seq(Stmts) /\ Range(r) = {c, d}  BY <1>1, TupleRange
    <3>  QED  BY <2>1, <3>2, <3>3
  <2>  QED  BY <2>2, <2>3
<1>4. InsertLast(r)
  BY <1>1 DEF InsertLast
<1>  HIDE DEF p, q, r
<1>5. /\ p \o q \in Seq(Stmts) /\ Range(p \o q) \subseteq {a, b}
      /\ (p \o q)[1] = a /\ Len(p \o q) \in Nat \ {0}
  <2>1. p \o q \in Seq(Stmts) /\ Range(p \o q) = Range(p) \cup Range(q)
    BY <1>3, ConcatRange
  <2>2. /\ Len(p \o q) = Len(p) + Len(q)
        /\ \A i \in 1 .. Len(p) + Len(q) :
             (p \o q)[i] = IF i <= Len(p) THEN p[i] ELSE q[i - Len(p)]
    BY <1>3, ConcatProperties
  <2>3. Len(q) \in Nat  BY <1>3, LenProperties
  <2>  QED  BY <1>3, <2>1, <2>2, <2>3
<1>  DEFINE pq == p \o q
<1>6. /\ pq \in Seq(Stmts) /\ Range(pq) \subseteq {a, b}
      /\ pq[1] = a /\ Len(pq) \in Nat \ {0} /\ stmts' = pq \o r
  BY <1>2, <1>5
<1>  HIDE DEF pq
<1>7. /\ stmts' \in Seq(Stmts) /\ Range(stmts') \subseteq {a, b, c, d}
      /\ InsertLast(stmts')
  <2>1. pq \o r \in Seq(Stmts) /\ Range(pq \o r) = Range(pq) \cup Range(r)
    BY <1>3, <1>6, ConcatRange
  <2>2. InsertLast(pq \o r)
    BY <1>1, <1>3, <1>4, <1>6, InsertLastConcat
  <2>  QED  BY <1>3, <1>6, <2>1, <2>2
<1>8. Head(stmts') = a
  <2>1. /\ Len(pq \o r) = Len(pq) + Len(r)
        /\ \A i \in 1 .. Len(pq) + Len(r) :
             (pq \o r)[i] = IF i <= Len(pq) THEN pq[i] ELSE r[i - Len(pq)]
    BY <1>3, <1>6, ConcatProperties
  <2>2. Len(r) \in Nat  BY <1>3, LenProperties
  <2>3. (pq \o r)[1] = a /\ pq \o r # <<>>
    BY <1>6, <2>1, <2>2
  <2>4. stmts'[1] = a /\ stmts' # <<>>  BY <1>6, <2>3
  <2>  QED  BY <1>7, <2>4
<1>9. QueueTypeOK'
  BY <1>2, <1>7 DEF QueueInv, QueueTypeOK
<1>10. ASSUME NEW s \in Range(stmts') PROVE s.op # "await" /\ PendingOK(s)'
  <2>1. CASE s \in {a, b, c}
    BY <1>1, <2>1, HarmlessOK DEF JobOps
  <2>2. CASE s = d
    <3>1. job[t] = "none"  BY <1>2 DEF QueueInv, FreshTask
    <3>2. ~Awaited(t)  BY <3>1 DEF QueueInv, OneLiveAttempt, Awaited
    <3>3. ~Awaited(t)'  BY <1>2, <3>2 DEF Awaited
    <3>4. job'[t] = "none"  BY <1>2, <3>1
    <3>  QED  BY <1>1, <1>8, <2>2, <3>3, <3>4 DEF PendingOK
  <2>  QED  BY <1>7, <2>1, <2>2
<1>11. \A u \in Tasks : \A n \in AttemptNumber :
         run'[u][n] = "awaited" => run[u][n] = "awaited"
  BY <1>2
<1>  QED  BY <1>2, <1>7, <1>9, <1>10, <1>11, CallbackKeepsInv

\* A settled run is not awaited any more, so a plan that touches the job row
\* finds nobody waiting for it.
LEMMA SettledNotAwaited ==
  ASSUME QueueInv, NEW t \in Tasks, NEW n \in AttemptNumber,
         NEW r \in {"none", "late"}, run' = [run EXCEPT ![t][n] = r]
  PROVE  /\ run' \in [Tasks -> [AttemptNumber -> RunState]]
         /\ \A u \in Tasks : \A m \in AttemptNumber :
              run'[u][m] = "awaited" => run[u][m] = "awaited"
         /\ run[t][n] = "awaited" => ~Awaited(t)' /\ n = attempts[t]
<1>1. run \in [Tasks -> [AttemptNumber -> RunState]]
  BY DEF QueueInv, QueueTypeOK
<1>2. /\ run' \in [Tasks -> [AttemptNumber -> RunState]]
      /\ \A u \in Tasks : \A m \in AttemptNumber :
           run'[u][m] = IF u = t /\ m = n THEN r ELSE run[u][m]
  BY <1>1 DEF RunState
<1>3. run[t][n] = "awaited" => ~Awaited(t)' /\ n = attempts[t]
  BY <1>2 DEF QueueInv, OneLiveAttempt, Awaited
<1>  QED  BY <1>2, <1>3

\* A plan for the end of an awaited attempt is as PendingOK says.
LEMMA EndPlanOK ==
  ASSUME NEW t \in Tasks, NEW n, n = attempts[t], ~Awaited(t)',
         attempts' = attempts, NEW s, s.task = t,
         s.op \notin {"job_insert", "await"},
         s.op = "job_retry" => n < MaxAttempts
  PROVE  PendingOK(s)'
BY DEF PendingOK

LEMMA ClaimKeepsInv ==
  ASSUME QueueInv, NEW t \in Tasks, ClaimNextDueJob(t)
  PROVE  QueueInv'
<1>  DEFINE n == attempts[t] + 1
            a == Stmt("attempt_insert", t, "started")
            e == FailurePlan(t, n, HandlerError, "failed")
<1>1. /\ job[t] \in ClaimableJob /\ stmts = <<>>
      /\ job' = [job EXCEPT ![t] = "running"]
      /\ lockedBy' = [lockedBy EXCEPT ![t] = boot]
      /\ attempts' = [attempts EXCEPT ![t] = @ + 1]
      /\ UNCHANGED <<task, output, exec, attemptRow>>
      /\ UNCHANGED <<emergencyStop, run, boot, phase>>
  BY DEF ClaimNextDueJob, Idle
<1>2. attempts[t] < MaxAttempts /\ attempts[t] \in Nat /\ attempts'[t] = n
  BY <1>1, QueueAssumption DEF QueueInv, QueueTypeOK, ClaimableHasBudget
<1>3. PICK plan \in {e, StartRun(t), AgentMissing(t, n)} :
        stmts' = <<a>> \o plan
  <2>1. \E plan \in
          IF emergencyStop
          THEN { FailurePlan(t, attempts'[t], HandlerError, "failed") }
          ELSE {StartRun(t)} \cup
               (IF t \in ResearchTasks THEN {}
                ELSE {AgentMissing(t, attempts'[t])}) :
          stmts' = <<a>> \o plan
    BY DEF ClaimNextDueJob
  <2>  HIDE DEF a
  <2>  QED  BY <1>2, <2>1
<1>4. a \in Stmts /\ a.op = "attempt_insert" /\ a.task = t
  BY StmtType, WritesValues
<1>5. /\ plan \in Seq(Stmts)
      /\ \A s \in Range(plan) :
           /\ s.task = t /\ s.op \notin {"job_insert", "job_cancel"}
           /\ s.op = "job_retry" => n < MaxAttempts
      /\ \A r, s \in Range(plan) : r.op = "await" => s.op \notin JobOps
  <2>1. CASE plan = e
    BY <2>1, FailurePlanType DEF FailureOps
  <2>2. CASE plan = StartRun(t)
    BY <2>2, StartRunType DEF StartOps, JobOps
  <2>3. CASE plan = AgentMissing(t, n)
    BY <2>3, AgentMissingType DEF FailureOps
  <2>  QED  BY <1>3, <2>1, <2>2, <2>3
<1>  DEFINE p == <<a>>
<1>  HIDE DEF a, e, n
<1>6. p \in Seq(Stmts) /\ Range(p) = {a}  BY <1>4, TupleRange
<1>7. stmts' = p \o plan  BY <1>3
<1>  HIDE DEF p
<1>8. stmts' \in Seq(Stmts) /\ Range(stmts') = {a} \cup Range(plan)
  <2>1. p \o plan \in Seq(Stmts) /\ Range(p \o plan) = Range(p) \cup Range(plan)
    BY <1>5, <1>6, ConcatRange
  <2>  QED  BY <1>6, <1>7, <2>1
<1>9. QueueTypeOK'
  <2>1. "running" \in JobStatus  BY DEF JobStatus, ActiveJob
  <2>2. n \in 0 .. MaxAttempts  BY <1>2, QueueAssumption DEF n
  <2>3. job' \in [Tasks -> JobStatus]
    BY <1>1, <2>1 DEF QueueInv, QueueTypeOK
  <2>4. attempts' \in [Tasks -> 0 .. MaxAttempts]
    BY <1>1, <2>2 DEF QueueInv, QueueTypeOK, n
  <2>5. lockedBy' \in [Tasks -> 0 .. MaxBoots]
    BY <1>1, QueueAssumption DEF QueueInv, QueueTypeOK
  <2>  QED  BY <1>1, <1>8, <2>3, <2>4, <2>5 DEF QueueInv, QueueTypeOK
<1>10. ~Awaited(t) /\ ~Awaited(t)'
  BY <1>1 DEF QueueInv, OneLiveAttempt, Awaited, ClaimableJob
<1>11. /\ job'[t] = "running"
       /\ \A u \in Tasks : u # t => job'[u] = job[u] /\ attempts'[u] = attempts[u]
  BY <1>1 DEF QueueInv, QueueTypeOK
<1>12. ClaimableHasBudget'
  BY <1>11 DEF QueueInv, ClaimableHasBudget, ClaimableJob
<1>13. OneLiveAttempt'
  BY <1>1, <1>10, <1>11 DEF QueueInv, OneLiveAttempt, Awaited
<1>14. FreshTask'
  BY <1>1, <1>11 DEF QueueInv, FreshTask, ClaimableJob
<1>15. AwaitAlone'
  BY <1>4, <1>5, <1>8 DEF AwaitAlone, JobOps
<1>16. InsertLast(stmts')
  BY <1>4, <1>5, <1>8, NoInsertIsLast
<1>17. ASSUME NEW s \in Range(stmts') PROVE PendingOK(s)'
  <2>1. CASE s = a
    BY <1>4, <2>1, HarmlessOK DEF JobOps
  <2>2. CASE s \in Range(plan)
    BY <1>2, <1>5, <1>10, <1>11, <2>2 DEF PendingOK
  <2>  QED  BY <1>8, <2>1, <2>2
<1>  QED  BY <1>9, <1>12, <1>13, <1>14, <1>15, <1>16, <1>17 DEF QueueInv

LEMMA RunSucceedsKeepsInv ==
  ASSUME QueueInv, NEW t \in Tasks, NEW n \in AttemptNumber, RunSucceeds(t, n)
  PROVE  QueueInv'
<1>  DEFINE cancelled == job[t] = "cancelled"
            awaited == run[t][n] = "awaited"
            a == Stmt("exec_set", t, "completed")
            b == Stmt("task_complete", t, "completed")
            c == Stmt("attempt_finish", t, "cancelled")
            d == Stmt("job_finish", t, "completed")
            e == Stmt("attempt_finish", t, "completed")
            x == IF cancelled /\ t \notin ResearchTasks THEN <<>> ELSE <<a>>
            y == IF cancelled THEN <<>> ELSE <<b>>
            z == IF ~awaited THEN <<>>
                 ELSE IF cancelled THEN <<c>> ELSE <<d, e>>
<1>1. /\ a \in Stmts /\ a.op = "exec_set" /\ a.task = t
      /\ b \in Stmts /\ b.op = "task_complete" /\ b.task = t
      /\ c \in Stmts /\ c.op = "attempt_finish" /\ c.task = t
      /\ d \in Stmts /\ d.op = "job_finish" /\ d.task = t
      /\ e \in Stmts /\ e.op = "attempt_finish" /\ e.task = t
  BY StmtType, WritesValues
<1>2. /\ stmts' = x \o y \o z
      /\ run' = [run EXCEPT ![t][n] = "none"]
      /\ UNCHANGED <<task, output, exec, job, attempts, lockedBy, attemptRow>>
      /\ UNCHANGED <<emergencyStop, boot, phase>>
  BY DEF RunSucceeds, SuccessPlan, rowVars
<1>  HIDE DEF a, b, c, d, e
<1>3. x \in Seq(Stmts) /\ Range(x) \subseteq {a}
  <2>1. <<a>> \in Seq(Stmts) /\ Range(<<a>>) = {a}  BY <1>1, TupleRange
  <2>2. <<>> \in Seq(Stmts) /\ Range(<<>>) = {}  BY TupleRange
  <2>3. x = <<>> \/ x = <<a>>  OBVIOUS
  <2>  QED  BY <2>1, <2>2, <2>3
<1>4. y \in Seq(Stmts) /\ Range(y) \subseteq {b}
  <2>1. <<b>> \in Seq(Stmts) /\ Range(<<b>>) = {b}  BY <1>1, TupleRange
  <2>2. <<>> \in Seq(Stmts) /\ Range(<<>>) = {}  BY TupleRange
  <2>3. y = <<>> \/ y = <<b>>  OBVIOUS
  <2>  QED  BY <2>1, <2>2, <2>3
<1>5. /\ z \in Seq(Stmts) /\ Range(z) \subseteq {c, d, e}
      /\ ~awaited => Range(z) = {}
  <2>1. /\ <<c>> \in Seq(Stmts) /\ Range(<<c>>) = {c}
        /\ <<d, e>> \in Seq(Stmts) /\ Range(<<d, e>>) = {d, e}
    BY <1>1, TupleRange
  <2>2. <<>> \in Seq(Stmts) /\ Range(<<>>) = {}  BY TupleRange
  <2>3. /\ z = <<>> \/ z = <<c>> \/ z = <<d, e>>
        /\ ~awaited => z = <<>>
    OBVIOUS
  <2>  QED  BY <2>1, <2>2, <2>3
<1>  HIDE DEF x, y, z
<1>6. /\ stmts' \in Seq(Stmts)
      /\ Range(stmts') \subseteq {a, b} \cup Range(z)
  <2>  DEFINE xy == x \o y
  <2>1. xy \in Seq(Stmts) /\ Range(xy) \subseteq {a, b}
    BY <1>3, <1>4, ConcatRange
  <2>2. stmts' = xy \o z  BY <1>2
  <2>  HIDE DEF xy
  <2>3. xy \o z \in Seq(Stmts) /\ Range(xy \o z) = Range(xy) \cup Range(z)
    BY <1>5, <2>1, ConcatRange
  <2>4. stmts' \in Seq(Stmts)  BY <2>2, <2>3
  <2>  QED  BY <2>1, <2>2, <2>3, <2>4
<1>7. /\ run' \in [Tasks -> [AttemptNumber -> RunState]]
      /\ \A u \in Tasks : \A m \in AttemptNumber :
           run'[u][m] = "awaited" => run[u][m] = "awaited"
      /\ awaited => ~Awaited(t)' /\ n = attempts[t]
  BY <1>2, SettledNotAwaited
<1>8. QueueTypeOK'
  BY <1>2, <1>6, <1>7 DEF QueueInv, QueueTypeOK
<1>9. ASSUME NEW s \in Range(stmts') PROVE s.op # "await" /\ PendingOK(s)'
  <2>1. CASE s \in {a, b}
    BY <1>1, <2>1, HarmlessOK DEF JobOps
  <2>2. CASE s \in Range(z)
    <3>1. awaited /\ s \in {c, d, e}  BY <1>5, <2>2
    <3>  QED  BY <1>1, <1>2, <1>7, <3>1, EndPlanOK
  <2>  QED  BY <1>6, <2>1, <2>2
<1>10. InsertLast(stmts')
  <2>1. \A s \in Range(stmts') : s.op # "job_insert"
    BY <1>1, <1>5, <1>6
  <2>  QED  BY <2>1, NoInsertIsLast
<1>  QED  BY <1>2, <1>7, <1>8, <1>9, <1>10, CallbackKeepsInv

\* A failing attempt and a timeout leave one statement on the execution row
\* and, if the attempt was awaited, handleJobFailure's plan.
LEMMA FailureKeepsInv ==
  ASSUME QueueInv, NEW t \in Tasks, NEW n \in AttemptNumber,
         NEW a \in Stmts, a.op \in {"exec_set", "exec_timeout"},
         NEW z \in Seq(Stmts), stmts' = <<a>> \o z,
         \A s \in Range(z) : /\ run[t][n] = "awaited"
                             /\ s.task = t /\ s.op \in FailureOps
                             /\ s.op = "job_retry" => n < MaxAttempts,
         NEW r \in {"none", "late"}, run' = [run EXCEPT ![t][n] = r],
         UNCHANGED <<rowVars, boot, phase>>
  PROVE  QueueInv'
<1>  DEFINE p == <<a>>
<1>1. p \in Seq(Stmts) /\ Range(p) = {a}  BY TupleRange
<1>2. stmts' = p \o z  OBVIOUS
<1>  HIDE DEF p
<1>3. p \o z \in Seq(Stmts) /\ Range(p \o z) = {a} \cup Range(z)
  BY <1>1, ConcatRange
<1>4. stmts' \in Seq(Stmts) /\ Range(stmts') = {a} \cup Range(z)
  BY <1>2, <1>3
<1>5. /\ run' \in [Tasks -> [AttemptNumber -> RunState]]
      /\ \A u \in Tasks : \A m \in AttemptNumber :
           run'[u][m] = "awaited" => run[u][m] = "awaited"
      /\ run[t][n] = "awaited" => ~Awaited(t)' /\ n = attempts[t]
  BY SettledNotAwaited
<1>6. /\ UNCHANGED <<task, output, exec, job, attempts, lockedBy, attemptRow>>
      /\ UNCHANGED <<emergencyStop, boot, phase>>
  BY DEF rowVars
<1>7. QueueTypeOK'
  BY <1>4, <1>5, <1>6 DEF QueueInv, QueueTypeOK
<1>8. ASSUME NEW s \in Range(stmts') PROVE s.op # "await" /\ PendingOK(s)'
  <2>1. CASE s = a
    BY <2>1, HarmlessOK DEF JobOps
  <2>2. CASE s \in Range(z)
    BY <1>5, <1>6, <2>2, EndPlanOK DEF FailureOps
  <2>  QED  BY <1>4, <2>1, <2>2
<1>9. InsertLast(stmts')
  <2>1. \A s \in Range(stmts') : s.op # "job_insert"
    BY <1>4 DEF FailureOps
  <2>  QED  BY <2>1, NoInsertIsLast
<1>  QED  BY <1>5, <1>6, <1>7, <1>8, <1>9, CallbackKeepsInv

LEMMA RunFailsKeepsInv ==
  ASSUME QueueInv, NEW t \in Tasks, NEW n \in AttemptNumber,
         NEW error \in RunErrors, RunFails(t, n, error)
  PROVE  QueueInv'
<1>  DEFINE a == Stmt("exec_set", t, "failed")
            z == IF run[t][n] = "awaited"
                 THEN HandleJobFailure(t, n, error, "failed") ELSE <<>>
<1>1. a \in Stmts /\ a.op = "exec_set"
  BY StmtType, WritesValues
<1>2. /\ stmts' = <<a>> \o z
      /\ run' = [run EXCEPT ![t][n] = "none"]
      /\ UNCHANGED <<rowVars, boot, phase>>
  BY DEF RunFails
<1>4. /\ z \in Seq(Stmts)
      /\ \A s \in Range(z) : /\ run[t][n] = "awaited"
                             /\ s.task = t /\ s.op \in FailureOps
                             /\ s.op = "job_retry" => n < MaxAttempts
  <2>1. CASE run[t][n] = "awaited"
    BY <2>1, HandleJobFailureType
  <2>2. CASE run[t][n] # "awaited"
    <3>1. z = <<>>  BY <2>2
    <3>2. <<>> \in Seq(Stmts) /\ Range(<<>>) = {}  BY TupleRange
    <3>  QED  BY <3>1, <3>2
  <2>  QED  BY <2>1, <2>2
<1>  HIDE DEF a, z
<1>  QED  BY <1>1, <1>2, <1>4, FailureKeepsInv

LEMMA StepTimeoutKeepsInv ==
  ASSUME QueueInv, NEW t \in Tasks, NEW n \in AttemptNumber, StepTimeout(t, n)
  PROVE  QueueInv'
<1>  DEFINE error == [code |-> "timed_out", retryable |-> "yes"]
            a == Stmt("exec_timeout", t, "failed")
            z == HandleJobFailure(t, n, error, "timed_out")
<1>1. a \in Stmts /\ a.op = "exec_timeout"
  BY StmtType, WritesValues
<1>2. /\ stmts' = <<a>> \o z /\ run[t][n] = "awaited"
      /\ run' = [run EXCEPT ![t][n] = "late"]
      /\ UNCHANGED <<rowVars, boot, phase>>
  BY DEF StepTimeout
<1>  HIDE DEF error
<1>4. /\ z \in Seq(Stmts)
      /\ \A s \in Range(z) : /\ s.task = t /\ s.op \in FailureOps
                             /\ s.op = "job_retry" => n < MaxAttempts
  BY HandleJobFailureType
<1>  HIDE DEF a, z
<1>  QED  BY <1>1, <1>2, <1>4, FailureKeepsInv

LEMMA CancelKeepsInv ==
  ASSUME QueueInv, NEW t \in Tasks, CancelJob(t)
  PROVE  QueueInv'
<1>  DEFINE a == Stmt("task_settle", t, "cancelled")
            b == Stmt("job_cancel", t, "cancelled")
<1>1. /\ a \in Stmts /\ a.op = "task_settle"
      /\ b \in Stmts /\ b.op = "job_cancel"
  BY StmtType, WritesValues
<1>2. /\ stmts' = <<a, b>>
      /\ UNCHANGED <<task, output, exec, job, attempts, lockedBy, attemptRow>>
      /\ UNCHANGED <<emergencyStop, run, boot, phase>>
  BY DEF CancelJob, rowVars
<1>  HIDE DEF a, b
<1>3. <<a, b>> \in Seq(Stmts) /\ Range(<<a, b>>) = {a, b}
  BY <1>1, TupleRange
<1>4. stmts' \in Seq(Stmts) /\ Range(stmts') = {a, b}
  BY <1>2, <1>3
<1>5. QueueTypeOK'
  BY <1>2, <1>4 DEF QueueInv, QueueTypeOK
<1>6. ASSUME NEW s \in Range(stmts') PROVE s.op # "await" /\ PendingOK(s)'
  BY <1>1, <1>4, <1>6 DEF PendingOK
<1>7. InsertLast(stmts')
  <2>1. \A s \in Range(stmts') : s.op # "job_insert"
    BY <1>1, <1>4
  <2>  QED  BY <2>1, NoInsertIsLast
<1>8. \A u \in Tasks : \A n \in AttemptNumber :
        run'[u][n] = "awaited" => run[u][n] = "awaited"
  BY <1>2
<1>  QED  BY <1>2, <1>5, <1>6, <1>7, <1>8, CallbackKeepsInv

\* The steps that leave no statement behind.
LEMMA QuietKeepsInv ==
  ASSUME QueueInv,
         Crash \/ NextPass \/ \E on \in BOOLEAN : SetEmergencyStop(on)
  PROVE  QueueInv'
<1>1. /\ stmts' = <<>>
      /\ UNCHANGED <<task, output, exec, job, attempts, lockedBy, attemptRow>>
  BY DEF Crash, NextPass, Recovering, SetEmergencyStop, Idle, rowVars, procVars
<1>2. emergencyStop' \in BOOLEAN
  <2>1. CASE Crash \/ NextPass
    <3>1. emergencyStop' = emergencyStop
      BY <2>1 DEF Crash, NextPass, rowVars
    <3>2. emergencyStop \in BOOLEAN
      BY DEF QueueInv, QueueTypeOK
    <3>  QED  BY <3>1, <3>2, Zenon
  <2>2. ASSUME NEW on \in BOOLEAN, SetEmergencyStop(on)
        PROVE  emergencyStop' \in BOOLEAN
    BY <2>2, Zenon DEF SetEmergencyStop
  <2>  QED  BY <2>1, <2>2
<1>3. /\ run' \in [Tasks -> [AttemptNumber -> RunState]]
      /\ \A t \in Tasks : \A n \in AttemptNumber :
           run'[t][n] = "awaited" => run[t][n] = "awaited"
      /\ boot' \in 1 .. MaxBoots /\ phase' \in Phases
  <2>0. /\ run \in [Tasks -> [AttemptNumber -> RunState]]
        /\ boot \in 1 .. MaxBoots /\ phase \in Phases
    BY DEF QueueInv, QueueTypeOK
  <2>1. CASE Crash
    BY <2>0, <2>1, QueueAssumption DEF Crash, RunState, Phases
  <2>2. CASE NextPass
    BY <2>0, <2>2 DEF NextPass, Phases
  <2>3. CASE \E on \in BOOLEAN : SetEmergencyStop(on)
    BY <2>0, <2>3 DEF SetEmergencyStop, procVars
  <2>  QED  BY <2>1, <2>2, <2>3
<1>4. stmts' \in Seq(Stmts) /\ Range(stmts') = {}
  BY <1>1, TupleRange
<1>5. QueueTypeOK'
  <2>1. /\ task' \in [Tasks -> TaskStatus] /\ output' \subseteq Tasks
        /\ exec' \in [Tasks -> ExecStatus] /\ job' \in [Tasks -> JobStatus]
        /\ attempts' \in [Tasks -> 0 .. MaxAttempts]
        /\ lockedBy' \in [Tasks -> 0 .. MaxBoots]
        /\ attemptRow' \in [Tasks -> [AttemptNumber -> AttemptStatus]]
    BY <1>1 DEF QueueInv, QueueTypeOK
  <2>  QED  BY <1>2, <1>3, <1>4, <2>1, Zenon DEF QueueTypeOK
<1>6. InsertLast(stmts')
  BY <1>4, NoInsertIsLast
<1>  QED  BY <1>1, <1>3, <1>4, <1>5, <1>6, CallbackKeepsInv

\* The recovery of one row leaves a plan for the row's task; no process that
\* could be waiting for a stale job is left.
LEMMA RecoverRowKeepsInv ==
  ASSUME QueueInv, NEW t \in Tasks, NoOneWaits,
         \/ RecoverStaleJob(t) \/ RecoverOrphanExecution(t)
         \/ RecoverOrphanTask(t)
  PROVE  QueueInv'
<1>  DEFINE a == Stmt("job_retry", t, "queued")
            b == Stmt("job_finish", t, "failed")
            c == Stmt("task_settle", t, "failed")
            d == Stmt("exec_set", t, "failed")
<1>1. /\ a \in Stmts /\ a.op = "job_retry" /\ a.task = t
      /\ b \in Stmts /\ b.op = "job_finish" /\ b.task = t
      /\ c \in Stmts /\ c.op = "task_settle" /\ c.task = t
      /\ d \in Stmts /\ d.op = "exec_set" /\ d.task = t
  BY StmtType, WritesValues
<1>2. /\ \/ stmts' = <<a>> /\ attempts[t] < MaxAttempts
         \/ stmts' = <<b, c>> \/ stmts' = <<c>> \/ stmts' = <<d>>
      /\ UNCHANGED <<task, output, exec, job, attempts, lockedBy, attemptRow>>
      /\ UNCHANGED <<emergencyStop, run, boot, phase>>
  BY DEF RecoverStaleJob, RecoverOrphanExecution, RecoverOrphanTask, rowVars
<1>  HIDE DEF a, b, c, d
<1>3. /\ <<a>> \in Seq(Stmts) /\ Range(<<a>>) = {a}
      /\ <<b, c>> \in Seq(Stmts) /\ Range(<<b, c>>) = {b, c}
      /\ <<c>> \in Seq(Stmts) /\ Range(<<c>>) = {c}
      /\ <<d>> \in Seq(Stmts) /\ Range(<<d>>) = {d}
  <2>1. <<a>> \in Seq(Stmts) /\ Range(<<a>>) = {a}  BY <1>1, TupleRange
  <2>2. <<b, c>> \in Seq(Stmts) /\ Range(<<b, c>>) = {b, c}
    BY <1>1, TupleRange
  <2>3. <<c>> \in Seq(Stmts) /\ Range(<<c>>) = {c}  BY <1>1, TupleRange
  <2>4. <<d>> \in Seq(Stmts) /\ Range(<<d>>) = {d}  BY <1>1, TupleRange
  <2>  QED  BY <2>1, <2>2, <2>3, <2>4
<1>4. /\ stmts' \in Seq(Stmts)
      /\ \A s \in Range(stmts') :
           /\ s \in {a, b, c, d}
           /\ s = a => attempts[t] < MaxAttempts
  BY <1>1, <1>2, <1>3
<1>5. QueueTypeOK'
  BY <1>2, <1>4 DEF QueueInv, QueueTypeOK
<1>6. ~Awaited(t)'
  BY <1>2 DEF NoOneWaits, Awaited
<1>7. ASSUME NEW s \in Range(stmts') PROVE s.op # "await" /\ PendingOK(s)'
  BY <1>1, <1>2, <1>4, <1>6, <1>7 DEF PendingOK
<1>8. InsertLast(stmts')
  <2>1. \A s \in Range(stmts') : s.op # "job_insert"
    BY <1>1, <1>4
  <2>  QED  BY <2>1, NoInsertIsLast
<1>9. \A u \in Tasks : \A n \in AttemptNumber :
        run'[u][n] = "awaited" => run[u][n] = "awaited"
  BY <1>2
<1>  QED  BY <1>2, <1>5, <1>7, <1>8, <1>9, CallbackKeepsInv

\* While a process recovers it awaits nothing and is not going to.
QuietRecovery ==
  phase # "serving" => NoOneWaits /\ \A s \in Range(stmts) : s.op # "await"

EngineInv == QueueInv /\ QuietRecovery

\* A statement leaves a part of the callback, or one statement more.
LEMMA StatementRest ==
  ASSUME QueueInv, NEW t \in Tasks, Statement(t)
  PROVE  /\ phase' = phase
         /\ \/ run' = run
            \/ \E s \in Range(stmts) : s.op = "await"
         /\ \A s \in Range(stmts') :
              s \in Range(stmts) \/ s.op \in {"task_output", "credit_refund"}
<1>1. stmts # <<>> /\ stmts \in Seq(Stmts)
  BY DEF QueueInv, QueueTypeOK, Statement, Executing, CreateTask,
     ReserveTaskCredit, CreateAgentExecution, InsertJob, InsertJobAttempt,
     FinishJobAttempt, SetExecution, MarkExecutionTimedOut, RunTask,
     CompleteTask, UpdateTaskOutput, SettleTask, RefundCredit, FinishJob,
     ReleaseJob, CancelJobRow, AwaitRun
<1>2. /\ Head(stmts) \in Range(stmts) /\ Tail(stmts) \in Seq(Stmts)
      /\ Range(Tail(stmts)) \subseteq Range(stmts)
  BY <1>1, TailRange
<1>3. CASE CreateTask(t) \/ ReserveTaskCredit(t) \/ CreateAgentExecution(t)
           \/ InsertJob(t) \/ InsertJobAttempt(t) \/ FinishJobAttempt(t)
           \/ SetExecution(t) \/ MarkExecutionTimedOut(t) \/ RunTask(t)
           \/ UpdateTaskOutput(t) \/ RefundCredit(t) \/ FinishJob(t)
           \/ ReleaseJob(t) \/ CancelJobRow(t)
  <2>1. stmts' = Tail(stmts) /\ phase' = phase /\ run' = run
    BY <1>3 DEF Done, CreateTask, ReserveTaskCredit, CreateAgentExecution,
       InsertJob, InsertJobAttempt, FinishJobAttempt, SetExecution,
       MarkExecutionTimedOut, RunTask, UpdateTaskOutput, RefundCredit,
       FinishJob, ReleaseJob, CancelJobRow
  <2>  QED  BY <1>2, <2>1
<1>4. CASE AwaitRun(t)
  <2>1. /\ stmts' = Tail(stmts) /\ phase' = phase
        /\ Head(stmts).op = "await"
    BY <1>4 DEF Done, AwaitRun, Executing
  <2>  QED  BY <1>2, <2>1
<1>5. CASE CompleteTask(t) \/ SettleTask(t)
  <2>  DEFINE out == Stmt("task_output", t, "none")
              ref == Stmt("credit_refund", t, "none")
              po  == <<out>>
              pr  == <<ref>>
              r   == Tail(stmts)
  <2>1. /\ out \in Stmts /\ out.op = "task_output"
        /\ ref \in Stmts /\ ref.op = "credit_refund"
    BY StmtType, WritesValues
  <2>2. /\ stmts' = po \o r \/ stmts' = pr \o r \/ stmts' = r
        /\ phase' = phase /\ run' = run
    BY <1>5 DEF CompleteTask, SettleTask
  <2>  HIDE DEF out, ref
  <2>3a. po \in Seq(Stmts) /\ Range(po) = {out}
    BY <2>1, TupleRange
  <2>3b. pr \in Seq(Stmts) /\ Range(pr) = {ref}
    BY <2>1, TupleRange
  <2>3c. r \in Seq(Stmts) /\ Range(r) \subseteq Range(stmts)
    BY <1>2
  <2>  HIDE DEF r, po, pr
  <2>4a. Range(po \o r) = {out} \cup Range(r)
    BY <2>3a, <2>3c, ConcatRange
  <2>4b. Range(pr \o r) = {ref} \cup Range(r)
    BY <2>3b, <2>3c, ConcatRange
  <2>5. Range(stmts') \subseteq {out, ref} \cup Range(r)
    BY <2>2, <2>4a, <2>4b
  <2>  QED  BY <2>1, <2>2, <2>3c, <2>5
<1>  QED  BY <1>3, <1>4, <1>5 DEF Statement

\* Recovery stays quiet until it is over.
LEMMA QuietRecoveryStep ==
  ASSUME QueueInv, QuietRecovery, [Next]_vars
  PROVE  QuietRecovery'
<1>1. CASE UNCHANGED vars
  BY <1>1 DEF vars, procVars, QuietRecovery, NoOneWaits, Range
<1>2. ASSUME NEW t \in Tasks, Statement(t) PROVE QuietRecovery'
  <2>1. /\ phase' = phase
        /\ run' = run \/ \E s \in Range(stmts) : s.op = "await"
        /\ \A s \in Range(stmts') :
             s \in Range(stmts) \/ s.op \in {"task_output", "credit_refund"}
    BY <1>2, StatementRest
  <2>  QED  BY <2>1 DEF QuietRecovery, NoOneWaits
<1>3. ASSUME NEW t \in Tasks,
             \/ Submit(t) \/ ClaimNextDueJob(t) \/ CancelJob(t)
             \/ \E n \in AttemptNumber : RunSettles(t, n) \/ StepTimeout(t, n)
      PROVE  QuietRecovery'
  <2>1. phase' = "serving"
    BY <1>3 DEF Submit, ClaimNextDueJob, CancelJob, RunSettles, RunSucceeds,
       RunFails, StepTimeout, Idle
  <2>  QED  BY <2>1 DEF QuietRecovery
<1>4. ASSUME NEW on \in BOOLEAN, SetEmergencyStop(on) PROVE QuietRecovery'
  BY <1>4 DEF SetEmergencyStop, Idle, procVars, QuietRecovery
<1>5. CASE Crash
  <2>1. stmts' = <<>> /\ Range(stmts') = {}
    BY <1>5, TupleRange DEF Crash
  <2>2. NoOneWaits'
    BY <1>5 DEF Crash, NoOneWaits
  <2>  QED  BY <2>1, <2>2 DEF QuietRecovery
<1>6. CASE NextPass
  BY <1>6 DEF NextPass, Recovering, QuietRecovery, NoOneWaits, Range
<1>7. ASSUME NEW t \in Tasks, \/ RecoverStaleJob(t) \/ RecoverOrphanTask(t)
                              \/ RecoverOrphanExecution(t)
      PROVE  QuietRecovery'
  <2>  DEFINE a == Stmt("job_retry", t, "queued")
              b == Stmt("job_finish", t, "failed")
              c == Stmt("task_settle", t, "failed")
              d == Stmt("exec_set", t, "failed")
  <2>1. a.op # "await" /\ b.op # "await" /\ c.op # "await" /\ d.op # "await"
    BY StmtType, WritesValues
  <2>2. /\ \/ stmts' = <<a>> \/ stmts' = <<b, c>>
           \/ stmts' = <<c>> \/ stmts' = <<d>>
        /\ run' = run /\ phase' = phase
    BY <1>7 DEF RecoverStaleJob, RecoverOrphanExecution, RecoverOrphanTask
  <2>  HIDE DEF a, b, c, d
  <2>3. \A s \in Range(stmts') : s.op # "await"
    BY <2>1, <2>2, TupleRange
  <2>  QED  BY <2>2, <2>3 DEF QuietRecovery, NoOneWaits
<1>  QED  BY <1>1, <1>2, <1>3, <1>4, <1>5, <1>6, <1>7 DEF Next, Recover

\* Every step keeps the engine's invariant.
LEMMA EngineInvStep ==
  ASSUME EngineInv, [Next]_vars
  PROVE  EngineInv'
<1>  USE DEF EngineInv
<1>1. QuietRecovery'
  BY QuietRecoveryStep
<1>2. CASE UNCHANGED vars
  <2>1. /\ UNCHANGED <<task, output, exec, job, attempts, lockedBy, attemptRow>>
        /\ UNCHANGED <<emergencyStop, run, stmts, boot, phase>>
    BY <1>2 DEF vars, rowVars, procVars
  <2>2. QueueTypeOK'
    BY <2>1 DEF QueueInv, QueueTypeOK
  <2>3. ClaimableHasBudget' /\ OneLiveAttempt' /\ FreshTask'
    BY <2>1 DEF QueueInv, ClaimableHasBudget, OneLiveAttempt, FreshTask
  <2>4. AwaitAlone' /\ InsertLast(stmts)'
    BY <2>1 DEF QueueInv, AwaitAlone, InsertLast, Range
  <2>5. \A s \in Range(stmts') : PendingOK(s)'
    BY <2>1 DEF QueueInv, PendingOK, Awaited
  <2>  QED  BY <1>1, <2>2, <2>3, <2>4, <2>5 DEF QueueInv
<1>3. ASSUME NEW t \in Tasks, Submit(t) PROVE QueueInv'
  BY <1>3, SubmitKeepsInv
<1>4. ASSUME NEW t \in Tasks, ClaimNextDueJob(t) PROVE QueueInv'
  BY <1>4, ClaimKeepsInv
<1>5. ASSUME NEW t \in Tasks, CancelJob(t) PROVE QueueInv'
  BY <1>5, CancelKeepsInv
<1>6. ASSUME NEW t \in Tasks, Statement(t) PROVE QueueInv'
  BY <1>6, StatementKeepsInv
<1>7. ASSUME NEW t \in Tasks, NEW n \in AttemptNumber, RunSettles(t, n)
      PROVE  QueueInv'
  BY <1>7, RunSucceedsKeepsInv, RunFailsKeepsInv DEF RunSettles
<1>8. ASSUME NEW t \in Tasks, NEW n \in AttemptNumber, StepTimeout(t, n)
      PROVE  QueueInv'
  BY <1>8, StepTimeoutKeepsInv
<1>9. CASE Crash \/ NextPass \/ \E on \in BOOLEAN : SetEmergencyStop(on)
  BY <1>1, <1>9, QuietKeepsInv
<1>10. ASSUME NEW t \in Tasks, \/ RecoverStaleJob(t) \/ RecoverOrphanTask(t)
                               \/ RecoverOrphanExecution(t)
       PROVE  QueueInv'
  <2>1. NoOneWaits
    BY <1>10 DEF RecoverStaleJob, RecoverOrphanTask, RecoverOrphanExecution,
       Recovering, QuietRecovery
  <2>  QED  BY <1>10, <2>1, RecoverRowKeepsInv
<1>  QED  BY <1>1, <1>2, <1>3, <1>4, <1>5, <1>6, <1>7, <1>8, <1>9, <1>10
     DEF Next, Recover

LEMMA EngineInvInit == Init => EngineInv
<1>1. Init => QuietRecovery
  BY TupleRange DEF Init, QuietRecovery, NoOneWaits
<1>  QED  BY <1>1, QueueInvInit DEF EngineInv

LEMMA EngineInvariant == Spec => []EngineInv
BY EngineInvInit, EngineInvStep, PTL DEF Spec

-----------------------------------------------------------------------------
(* The theorems.                                                           *)

AheadTypeOK == ahead \subseteq Tasks

LEMMA AheadType == Spec => []AheadTypeOK
<1>1. Init => AheadTypeOK
  BY DEF Init, AheadTypeOK
<1>2. AheadTypeOK /\ [Next]_vars => AheadTypeOK'
  <2>  SUFFICES ASSUME ahead \subseteq Tasks, [Next]_vars
                PROVE  ahead' \subseteq Tasks
    BY DEF AheadTypeOK
  <2>1. CASE UNCHANGED vars
    BY <2>1 DEF vars, procVars
  <2>2. ASSUME NEW t \in Tasks, ClaimNextDueJob(t)
        PROVE  ahead' \subseteq Tasks
    <3>1. ahead' = ahead \cup {t} \/ ahead' = ahead
      BY <2>2 DEF ClaimNextDueJob
    <3>  QED  BY <3>1
  <2>3. ASSUME NEW t \in Tasks, NEW n, Submit(t) \/ CancelJob(t)
                 \/ RunSettles(t, n) \/ StepTimeout(t, n)
        PROVE  ahead' \subseteq Tasks
    BY <2>3 DEF Submit, CancelJob, RunSettles, RunSucceeds, RunFails,
       StepTimeout
  <2>4. ASSUME NEW t \in Tasks, Statement(t) PROVE ahead' \subseteq Tasks
    BY <2>4 DEF Statement, Done, CreateTask, ReserveTaskCredit,
       CreateAgentExecution, InsertJob, InsertJobAttempt, FinishJobAttempt,
       SetExecution, MarkExecutionTimedOut, RunTask, CompleteTask,
       UpdateTaskOutput, SettleTask, RefundCredit, FinishJob, ReleaseJob,
       CancelJobRow, AwaitRun
  <2>5. CASE Crash
    BY <2>5 DEF Crash, CutShort
  <2>6. CASE Recover \/ \E on \in BOOLEAN : SetEmergencyStop(on)
    BY <2>6 DEF Recover, NextPass, RecoverStaleJob,
       RecoverOrphanExecution, RecoverOrphanTask, SetEmergencyStop, procVars
  <2>  QED  BY <2>1, <2>2, <2>3, <2>4, <2>5, <2>6 DEF Next
<1>  QED  BY <1>1, <1>2, PTL DEF Spec

\* Every row, in-memory entry and pending statement keeps its type; attempts
\* never exceed max_attempts although claimNextDueJob does not compare them.
THEOREM EngineTypeCorrect == Spec => []TypeOK
<1>1. Spec => []LedgerTypeOK
  BY EngineImplementsLedger, LedgerTypeCorrect, PTL
<1>2. EngineInv => QueueTypeOK
  BY DEF EngineInv, QueueInv
<1>3. LedgerTypeOK /\ QueueTypeOK /\ AheadTypeOK => TypeOK
  BY DEF TypeOK, AheadTypeOK
<1>  QED  BY <1>1, <1>2, <1>3, EngineInvariant, AheadType, PTL

\* A job that waits to be claimed has an attempt left.
THEOREM EngineKeepsBudget == Spec => []ClaimableHasBudget
<1>1. EngineInv => ClaimableHasBudget
  BY DEF EngineInv, QueueInv
<1>  QED  BY <1>1, EngineInvariant, PTL

\* The engine waits for one attempt of a job at a time, the latest, and
\* nothing but a cancellation settles the job under it.
THEOREM EngineOneLiveAttempt == Spec => []OneLiveAttempt
<1>1. EngineInv => OneLiveAttempt
  BY DEF EngineInv, QueueInv
<1>  QED  BY <1>1, EngineInvariant, PTL
-----------------------------------------------------------------------------
(* The job rows implement JobLifecycle.                                    *)

\* A statement that writes a job row is a step of the abstract job, or its
\* guard fails and it changes nothing.
LEMMA JobRowRefines ==
  ASSUME QueueInv, NEW t \in Tasks,
         InsertJob(t) \/ FinishJob(t) \/ ReleaseJob(t) \/ CancelJobRow(t)
  PROVE  [Lifecycle!LifecycleNext]_(Lifecycle!lifecycleVars)
<1>  USE DEF Lifecycle!Become
<1>0. /\ {"job_insert", "job_finish", "job_retry", "job_cancel"}
             \subseteq DOMAIN Writes
      /\ attempts' = attempts
  BY WritesValues DEF InsertJob, FinishJob, ReleaseJob, CancelJobRow
<1>1. CASE InsertJob(t)
  <2>1. PendingOK(Head(stmts)) /\ To = "queued"
        /\ Head(stmts).op = "job_insert" /\ Head(stmts).task = t
    BY <1>0, <1>1, HeadFacts, WritesValues DEF InsertJob
  <2>2. Lifecycle!Enqueue(t)
    BY <1>0, <1>1, <2>1 DEF InsertJob, PendingOK, Lifecycle!Enqueue
  <2>  QED  BY <2>2 DEF Lifecycle!LifecycleNext
<1>2. CASE FinishJob(t)
  <2>1. To \in {"completed", "failed", "timed_out"}
    BY <1>0, <1>2, HeadFacts, WritesValues DEF FinishJob
  <2>2. CASE job[t] = "running"
    <3>1. Lifecycle!Finish(t)
      BY <1>0, <1>2, <2>1, <2>2 DEF FinishJob, Lifecycle!Finish, Lifecycle!Final
    <3>  QED  BY <3>1 DEF Lifecycle!LifecycleNext
  <2>3. CASE job[t] # "running"
    BY <1>0, <1>2, <2>3 DEF FinishJob, Lifecycle!lifecycleVars
  <2>  QED  BY <2>2, <2>3
<1>3. CASE ReleaseJob(t)
  <2>1. PendingOK(Head(stmts)) /\ To \in {"queued", "retrying"}
        /\ Head(stmts).op = "job_retry" /\ Head(stmts).task = t
    BY <1>0, <1>3, HeadFacts, WritesValues DEF ReleaseJob
  <2>2. CASE job[t] = "running"
    <3>1. Lifecycle!BackToQueue(t)
      BY <1>0, <1>3, <2>1, <2>2
      DEF ReleaseJob, PendingOK, Lifecycle!BackToQueue, Lifecycle!Waiting
    <3>  QED  BY <3>1 DEF Lifecycle!LifecycleNext
  <2>3. CASE job[t] # "running"
    BY <1>0, <1>3, <2>3 DEF ReleaseJob, Lifecycle!lifecycleVars
  <2>  QED  BY <2>2, <2>3
<1>4. CASE CancelJobRow(t)
  <2>1. To = "cancelled"
    BY <1>0, <1>4, HeadFacts, WritesValues DEF CancelJobRow
  <2>2. CASE job[t] \in ActiveJob
    <3>1. Lifecycle!Cancel(t)
      BY <1>0, <1>4, <2>1, <2>2 DEF CancelJobRow, ActiveJob, ClaimableJob,
         Lifecycle!Cancel, Lifecycle!Active, Lifecycle!Waiting
    <3>  QED  BY <3>1 DEF Lifecycle!LifecycleNext
  <2>3. CASE job[t] \notin ActiveJob
    BY <1>0, <1>4, <2>3 DEF CancelJobRow, Lifecycle!lifecycleVars
  <2>  QED  BY <2>2, <2>3
<1>  QED  BY <1>1, <1>2, <1>3, <1>4

\* Every step of the engine moves one abstract job, or none.
LEMMA JobStepRefines ==
  ASSUME QueueInv, [Next]_vars
  PROVE  [Lifecycle!LifecycleNext]_(Lifecycle!lifecycleVars)
<1>1. ASSUME job' = job, attempts' = attempts
      PROVE  UNCHANGED Lifecycle!lifecycleVars
  BY <1>1 DEF Lifecycle!lifecycleVars
<1>2. ASSUME NEW t \in Tasks, ClaimNextDueJob(t)
      PROVE  Lifecycle!LifecycleNext
  <2>1. Lifecycle!Claim(t)
    BY <1>2 DEF ClaimNextDueJob, QueueInv, ClaimableHasBudget, ClaimableJob,
       Lifecycle!Claim, Lifecycle!Waiting, Lifecycle!Become
  <2>  QED  BY <2>1 DEF Lifecycle!LifecycleNext
<1>3. ASSUME NEW t \in Tasks, Statement(t)
      PROVE  [Lifecycle!LifecycleNext]_(Lifecycle!lifecycleVars)
  <2>1. CASE InsertJob(t) \/ FinishJob(t) \/ ReleaseJob(t) \/ CancelJobRow(t)
    BY <2>1, JobRowRefines
  <2>2. CASE ~(InsertJob(t) \/ FinishJob(t) \/ ReleaseJob(t) \/ CancelJobRow(t))
    <3>1. job' = job /\ attempts' = attempts
      BY <1>3, <2>2 DEF Statement, CreateTask, ReserveTaskCredit,
         CreateAgentExecution, InsertJobAttempt, FinishJobAttempt,
         SetExecution, MarkExecutionTimedOut, RunTask, CompleteTask,
         UpdateTaskOutput, SettleTask, RefundCredit, AwaitRun, rowVars
    <3>  QED  BY <1>1, <3>1
  <2>  QED  BY <2>1, <2>2
<1>4. ASSUME NEW t \in Tasks,
             \/ Submit(t) \/ CancelJob(t)
             \/ \E n \in AttemptNumber : RunSettles(t, n) \/ StepTimeout(t, n)
      PROVE  UNCHANGED Lifecycle!lifecycleVars
  <2>1. UNCHANGED rowVars
    BY <1>4 DEF Submit, CancelJob, RunSettles, RunSucceeds, RunFails,
       StepTimeout
  <2>  QED  BY <1>1, <2>1 DEF rowVars
<1>5. ASSUME NEW on \in BOOLEAN, SetEmergencyStop(on)
      PROVE  UNCHANGED Lifecycle!lifecycleVars
  BY <1>1, <1>5 DEF SetEmergencyStop
<1>6. CASE UNCHANGED vars \/ Crash \/ Recover
  <2>1. UNCHANGED rowVars
    BY <1>6 DEF vars, Crash, Recover, NextPass, RecoverStaleJob,
       RecoverOrphanExecution, RecoverOrphanTask
  <2>  QED  BY <1>1, <2>1 DEF rowVars
<1>  QED  BY <1>2, <1>3, <1>4, <1>5, <1>6 DEF Next

\* The row of every job moves as JobLifecycle promises: created once, claimed
\* within its budget, put back only while attempts remain, and never out of a
\* terminal status, whichever callback, timer or restart writes it (queue.ts,
\* header; recovery.ts:43-75).
THEOREM EngineImplementsLifecycle == Spec => JobRowsFollowLifecycle
<1>1. Init => Lifecycle!LifecycleInit
  BY DEF Init, Lifecycle!LifecycleInit
<1>2. EngineInv => QueueInv  BY DEF EngineInv
<1>  QED
  BY <1>1, <1>2, EngineInvariant, JobStepRefines, PTL
     DEF Spec, JobRowsFollowLifecycle, Lifecycle!LifecycleSpec

-----------------------------------------------------------------------------
(* What a settled job says of its task.                                    *)

\* Which statement may stand before which in a callback.
Before(r, s) ==
  /\ r.op \notin {"job_insert", "job_cancel", "await"}
  /\ s.op = "task_run" => r.op \in {"attempt_insert", "exec_set"}
  /\ s.op = "await" => r.op \in {"attempt_insert", "exec_set", "task_run"}
  /\ s.op = "task_complete" => r.op = "exec_set"
  /\ s.op = "job_cancel" => r.op \in {"task_settle", "credit_refund"}
  /\ s.op = "credit_consume" => r.op = "task_insert"
  /\ s.op = "job_finish" /\ s.to = "completed" =>
       r.op \in {"exec_set", "task_complete", "task_output"}

Ordered(q) == \A i, j \in DOMAIN q : i < j => Before(q[i], q[j])

Pending(op, t) == \E r \in Range(stmts) : r.op = op /\ r.task = t

Delivered(t)  == task[t] = "completed" /\ t \in output
OutputNext(t) == task[t] = "completed" /\ Executing("task_output", t)
Returned(t)   == task[t] = "cancelled" /\ (Consumed(t) => t \in refunded)
RefundNext(t) == task[t] = "cancelled" /\ Executing("credit_refund", t)
CancelNext(t) == /\ task[t] \in NonTerminalTask
                 /\ Executing("task_settle", t) /\ To = "cancelled"

\* What the callback read or did before it comes to execute s still holds.
Knows(s) ==
  /\ s.op = "task_run" => job[s.task] = "running"
  /\ s.op \in {"task_insert", "credit_consume"} => job[s.task] = "none"
  /\ s.op = "credit_consume" => task[s.task] \in {"none", "created"}
  /\ s.op = "task_settle" =>
       IF s.to = "cancelled" THEN Pending("job_cancel", s.task)
       ELSE ~Awaited(s.task)
  /\ s.op = "await" => task[s.task] = "running" \/ Pending("task_run", s.task)
  /\ s.op = "job_cancel" =>
       Returned(s.task) \/ RefundNext(s.task) \/ CancelNext(s.task)
  /\ s.op = "job_finish" /\ s.to = "completed" =>
       \/ Delivered(s.task) \/ OutputNext(s.task)
       \/ task[s.task] \in NonTerminalTask /\ Pending("task_complete", s.task)

\* The task of an attempt that is waited for is open, or a late attempt has
\* delivered it, or it is just being cancelled.
AwaitedTaskLives ==
  \A t \in Tasks : Awaited(t) /\ job[t] = "running" =>
    \/ task[t] \in NonTerminalTask \/ Delivered(t) \/ OutputNext(t)
    \/ Pending("job_cancel", t)

\* Only a crash can come between a task that was not delivered and its refund.
RefundOrNext ==
  boot = 1 => \A t \in Tasks :
    task[t] \in {"failed", "cancelled"} /\ Consumed(t) =>
      t \in refunded \/ Executing("credit_refund", t)

AgreeInv ==
  /\ CancelledJobIsRefunded /\ CompletedJobDelivered /\ AwaitedTaskLives
  /\ RefundOrNext
  /\ Ordered(stmts)
  /\ \A s \in Range(stmts) : Knows(s)

LEMMA OrderedTail ==
  ASSUME NEW q \in Seq(Stmts), q # <<>>, Ordered(q)
  PROVE  Ordered(Tail(q)) /\ \A s \in Range(Tail(q)) : Before(Head(q), s)
<1>1. /\ Tail(q) \in Seq(Stmts) /\ Len(Tail(q)) = Len(q) - 1
      /\ \A i \in 1 .. Len(Tail(q)) : Tail(q)[i] = q[i + 1]
  BY HeadTailProperties
<1>2. /\ DOMAIN q = 1 .. Len(q) /\ Len(q) \in Nat \ {0} /\ Head(q) = q[1]
      /\ DOMAIN Tail(q) = 1 .. Len(Tail(q)) /\ Len(Tail(q)) \in Nat
  BY <1>1, LenProperties, EmptySeq
<1>3. Ordered(Tail(q))
  BY <1>1, <1>2 DEF Ordered
<1>4. ASSUME NEW i \in DOMAIN Tail(q) PROVE Before(Head(q), Tail(q)[i])
  <2>1. 1 \in DOMAIN q /\ i + 1 \in DOMAIN q /\ 1 < i + 1
    BY <1>1, <1>2
  <2>  QED  BY <1>1, <1>2, <2>1 DEF Ordered
<1>  QED  BY <1>3, <1>4 DEF Range

LEMMA OrderedConcat ==
  ASSUME NEW p \in Seq(Stmts), NEW q \in Seq(Stmts), Ordered(p), Ordered(q),
         \A r \in Range(p), s \in Range(q) : Before(r, s)
  PROVE  Ordered(p \o q)
<1>1. /\ Len(p \o q) = Len(p) + Len(q)
      /\ \A i \in 1 .. Len(p) + Len(q) :
           (p \o q)[i] = IF i <= Len(p) THEN p[i] ELSE q[i - Len(p)]
      /\ p \o q \in Seq(Stmts)
  BY ConcatProperties
<1>2. /\ DOMAIN p = 1 .. Len(p) /\ DOMAIN q = 1 .. Len(q)
      /\ DOMAIN (p \o q) = 1 .. Len(p) + Len(q)
      /\ Len(p) \in Nat /\ Len(q) \in Nat
  BY <1>1, LenProperties
<1>3. ASSUME NEW i \in 1 .. Len(p) + Len(q), NEW j \in 1 .. Len(p) + Len(q),
             i < j
      PROVE  Before((p \o q)[i], (p \o q)[j])
  <2>1. CASE j <= Len(p)
    <3>1. /\ i \in DOMAIN p /\ j \in DOMAIN p
          /\ (p \o q)[i] = p[i] /\ (p \o q)[j] = p[j]
      BY <1>1, <1>2, <1>3, <2>1
    <3>  QED  BY <1>3, <3>1 DEF Ordered
  <2>2. CASE i <= Len(p) /\ ~(j <= Len(p))
    <3>1. /\ i \in DOMAIN p /\ j - Len(p) \in DOMAIN q
          /\ (p \o q)[i] = p[i] /\ (p \o q)[j] = q[j - Len(p)]
      BY <1>1, <1>2, <1>3, <2>2
    <3>2. p[i] \in Range(p) /\ q[j - Len(p)] \in Range(q)
      BY <3>1 DEF Range
    <3>  QED  BY <3>1, <3>2
  <2>3. CASE ~(i <= Len(p))
    <3>1. /\ i - Len(p) \in DOMAIN q /\ j - Len(p) \in DOMAIN q
          /\ (p \o q)[i] = q[i - Len(p)] /\ (p \o q)[j] = q[j - Len(p)]
          /\ i - Len(p) < j - Len(p)
      BY <1>1, <1>2, <1>3, <2>3
    <3>  QED  BY <3>1 DEF Ordered
  <2>  QED  BY <1>2, <1>3, <2>1, <2>2, <2>3
<1>  QED  BY <1>1, <1>2, <1>3 DEF Ordered

LEMMA OrderedTuples ==
  /\ Ordered(<<>>)
  /\ \A a : Ordered(<<a>>)
  /\ \A a, b : Before(a, b) => Ordered(<<a, b>>)
  /\ \A a, b, c : Before(a, b) /\ Before(a, c) /\ Before(b, c)
       => Ordered(<<a, b, c>>)
<1>1. Ordered(<<>>)  BY DEF Ordered
<1>2. ASSUME NEW a PROVE Ordered(<<a>>)  BY DEF Ordered
<1>3. ASSUME NEW a, NEW b, Before(a, b) PROVE Ordered(<<a, b>>)
  BY <1>3 DEF Ordered
<1>4. ASSUME NEW a, NEW b, NEW c, Before(a, b), Before(a, c), Before(b, c)
      PROVE  Ordered(<<a, b, c>>)
  BY <1>4 DEF Ordered
<1>  QED  BY <1>1, <1>2, <1>3, <1>4

\* What is known when a statement is executed: of it, and of those after it.
LEMMA HeadKnows ==
  ASSUME QueueInv, AgreeInv, NEW op \in DOMAIN Writes, NEW t \in Tasks,
         Executing(op, t)
  PROVE  /\ Knows(Head(stmts)) /\ Ordered(Tail(stmts))
         /\ Range(stmts) = {Head(stmts)} \cup Range(Tail(stmts))
         /\ \A s \in Range(Tail(stmts)) :
              /\ s \in Range(stmts) /\ s.task \in Tasks
              /\ Knows(s) /\ Before(Head(stmts), s)
         /\ \A o, u : Pending(o, u) /\ ~(o = op /\ u = t) =>
              \E s \in Range(Tail(stmts)) : s.op = o /\ s.task = u
         /\ \A o, u : Executing(o, u) => o = op /\ u = t
<1>1. /\ stmts # <<>> /\ stmts \in Seq(Stmts)
      /\ Head(stmts).op = op /\ Head(stmts).task = t
      /\ Head(stmts) \in Range(stmts)
  BY HeadFacts
<1>2. /\ Range(stmts) = {Head(stmts)} \cup Range(Tail(stmts))
      /\ Tail(stmts) \in Seq(Stmts)
  BY <1>1, TailRange
<1>3. /\ Ordered(Tail(stmts))
      /\ \A s \in Range(Tail(stmts)) : Before(Head(stmts), s)
  BY <1>1, OrderedTail DEF AgreeInv
<1>4. \A s \in Range(Tail(stmts)) : s.task \in Tasks
  BY <1>2, RangeAreStmts
<1>5. Knows(Head(stmts)) /\ \A s \in Range(Tail(stmts)) : Knows(s)
  BY <1>1, <1>2 DEF AgreeInv
<1>6. \A o, u : Pending(o, u) /\ ~(o = op /\ u = t) =>
        \E s \in Range(Tail(stmts)) : s.op = o /\ s.task = u
  BY <1>1, <1>2 DEF Pending
<1>7. \A o, u : Executing(o, u) => o = op /\ u = t
  BY <1>1 DEF Executing
<1>  QED  BY <1>1, <1>2, <1>3, <1>4, <1>5, <1>6, <1>7

\* A statement that writes no task, job or credit, or whose guard fails.
LEMMA PlainAgrees ==
  ASSUME QueueInv, AgreeInv, NEW t \in Tasks, NEW op \in DOMAIN Writes,
         op \notin {"task_insert", "task_run", "task_output", "await",
                    "credit_consume", "credit_refund", "job_insert"},
         op \in {"task_complete", "task_settle"} => task[t] \notin NonTerminalTask,
         op \in JobOps => job[t] # "running",
         Executing(op, t), stmts' = Tail(stmts),
         UNCHANGED <<task, output, job, run, consumedFrom, refunded, boot>>
  PROVE  AgreeInv'
<1>1. /\ Head(stmts).op = op /\ Ordered(stmts')
      /\ \A s \in Range(stmts') : Knows(s) /\ Before(Head(stmts), s)
      /\ \A o, u : Pending(o, u) /\ ~(o = op /\ u = t) => Pending(o, u)'
      /\ \A o, u : Executing(o, u) => o = op /\ u = t
  BY HeadKnows, HeadFacts DEF Pending
<1>2. CancelledJobIsRefunded' /\ CompletedJobDelivered'
  BY DEF AgreeInv, CancelledJobIsRefunded, CompletedJobDelivered, Consumed
<1>3. AwaitedTaskLives'
  BY <1>1
  DEF AgreeInv, AwaitedTaskLives, Awaited, Delivered, OutputNext, JobOps
<1>4. RefundOrNext'
  BY <1>1 DEF AgreeInv, RefundOrNext, Consumed
<1>5. ASSUME NEW s \in Range(stmts') PROVE Knows(s)'
  BY <1>1 DEF Knows, Before, Awaited, Delivered, OutputNext, Returned,
     RefundNext, CancelNext, Consumed
<1>  QED  BY <1>1, <1>2, <1>3, <1>4, <1>5 DEF AgreeInv

LEMMA CreateTaskAgrees ==
  ASSUME QueueInv, AgreeInv, NEW t \in Tasks, CreateTask(t)
  PROVE  AgreeInv'
<1>0. /\ Executing("task_insert", t) /\ "task_insert" \in DOMAIN Writes
      /\ UNCHANGED <<output, job, run, boot>> /\ stmts' = Tail(stmts)
      /\ UNCHANGED <<consumedFrom, refunded>>
  BY WritesValues DEF CreateTask, Done, ledgerVars
<1>1. /\ Head(stmts).op = "task_insert" /\ Head(stmts).task = t
      /\ Ordered(stmts') /\ To = "created"
      /\ Knows(Head(stmts))
      /\ \A s \in Range(stmts') : Knows(s) /\ Before(Head(stmts), s)
      /\ \A o, u : Pending(o, u) /\ o # "task_insert" => Pending(o, u)'
      /\ \A o, u : Executing(o, u) => o = "task_insert" /\ u = t
  BY <1>0, HeadKnows, HeadFacts, WritesValues DEF Pending
<1>2. /\ job[t] = "none" /\ task' = [task EXCEPT ![t] = "created"]
      /\ task'[t] = "created" /\ \A u \in Tasks : u # t => task'[u] = task[u]
  BY <1>1 DEF Knows, CreateTask, QueueInv, QueueTypeOK
<1>3. CancelledJobIsRefunded' /\ CompletedJobDelivered'
  BY <1>0, <1>2 DEF AgreeInv, CancelledJobIsRefunded, CompletedJobDelivered, Consumed
<1>4. AwaitedTaskLives'
  BY <1>0, <1>1, <1>2
  DEF AgreeInv, AwaitedTaskLives, Awaited, Delivered, OutputNext
<1>5. RefundOrNext'
  BY <1>0, <1>1, <1>2 DEF AgreeInv, RefundOrNext, Consumed
<1>6. ASSUME NEW s \in Range(stmts') PROVE Knows(s)'
  <2>1. s.task \in Tasks /\ Knows(s) /\ Before(Head(stmts), s)
    BY <1>0, <1>1, HeadKnows
  <2>  QED
    BY <1>0, <1>1, <1>2, <2>1 DEF Knows, Before, Awaited, Delivered,
       OutputNext, NonTerminalTask
<1>  QED  BY <1>1, <1>3, <1>4, <1>5, <1>6 DEF AgreeInv

\* The unguarded switch to 'running': the job is running, so no settled job
\* is contradicted.
LEMMA RunTaskAgrees ==
  ASSUME QueueInv, AgreeInv, NEW t \in Tasks, RunTask(t)
  PROVE  AgreeInv'
<1>0. /\ Executing("task_run", t) /\ "task_run" \in DOMAIN Writes
      /\ UNCHANGED <<output, job, run, boot>> /\ stmts' = Tail(stmts)
      /\ UNCHANGED <<consumedFrom, refunded>>
  BY WritesValues DEF RunTask, Done, ledgerVars
<1>1. /\ Head(stmts).op = "task_run" /\ Head(stmts).task = t
      /\ Ordered(stmts') /\ To = "running"
      /\ Knows(Head(stmts))
      /\ \A s \in Range(stmts') : Knows(s) /\ Before(Head(stmts), s)
      /\ \A o, u : Pending(o, u) /\ ~(o = "task_run" /\ u = t) => Pending(o, u)'
      /\ \A o, u : Executing(o, u) => o = "task_run" /\ u = t
  BY <1>0, HeadKnows, HeadFacts, WritesValues DEF Pending
<1>2. /\ job[t] = "running" /\ task' = [task EXCEPT ![t] = "running"]
      /\ task'[t] = "running" /\ \A u \in Tasks : u # t => task'[u] = task[u]
  BY <1>1 DEF Knows, RunTask, QueueInv, QueueTypeOK
<1>3. CancelledJobIsRefunded' /\ CompletedJobDelivered'
  BY <1>0, <1>2 DEF AgreeInv, CancelledJobIsRefunded, CompletedJobDelivered, Consumed
<1>4. AwaitedTaskLives'
  BY <1>0, <1>1, <1>2
  DEF AgreeInv, AwaitedTaskLives, Awaited, Delivered, OutputNext, NonTerminalTask
<1>5. RefundOrNext'
  BY <1>0, <1>1, <1>2 DEF AgreeInv, RefundOrNext, Consumed
<1>6. ASSUME NEW s \in Range(stmts') PROVE Knows(s)'
  <2>1. s.task \in Tasks /\ Knows(s) /\ Before(Head(stmts), s)
    BY <1>0, <1>1, HeadKnows
  <2>  QED
    BY <1>0, <1>1, <1>2, <2>1 DEF Knows, Before, Awaited
<1>  QED  BY <1>1, <1>3, <1>4, <1>5, <1>6 DEF AgreeInv

LEMMA UpdateTaskOutputAgrees ==
  ASSUME QueueInv, AgreeInv, NEW t \in Tasks, UpdateTaskOutput(t)
  PROVE  AgreeInv'
<1>0. /\ Executing("task_output", t) /\ "task_output" \in DOMAIN Writes
      /\ UNCHANGED <<task, job, run, boot>> /\ stmts' = Tail(stmts)
      /\ UNCHANGED <<consumedFrom, refunded>> /\ output' = output \cup {t}
  BY WritesValues DEF UpdateTaskOutput, Done, ledgerVars
<1>1. /\ Head(stmts).op = "task_output" /\ Head(stmts).task = t
      /\ Ordered(stmts')
      /\ \A s \in Range(stmts') : Knows(s) /\ Before(Head(stmts), s)
      /\ \A o, u : Pending(o, u) /\ o # "task_output" => Pending(o, u)'
      /\ \A o, u : Executing(o, u) => o = "task_output" /\ u = t
  BY <1>0, HeadKnows, HeadFacts DEF Pending
<1>2. CancelledJobIsRefunded' /\ CompletedJobDelivered'
  BY <1>0 DEF AgreeInv, CancelledJobIsRefunded, CompletedJobDelivered, Consumed
<1>3. AwaitedTaskLives'
  BY <1>0, <1>1 DEF AgreeInv, AwaitedTaskLives, Awaited, Delivered, OutputNext
<1>4. RefundOrNext'
  BY <1>0, <1>1 DEF AgreeInv, RefundOrNext, Consumed
<1>5. ASSUME NEW s \in Range(stmts') PROVE Knows(s)'
  BY <1>0, <1>1 DEF Knows, Before, Awaited, Delivered, OutputNext
<1>  QED  BY <1>1, <1>2, <1>3, <1>4, <1>5 DEF AgreeInv

LEMMA ReserveTaskCreditAgrees ==
  ASSUME QueueInv, LedgerTypeOK, AgreeInv, NEW t \in Tasks,
         ReserveTaskCredit(t)
  PROVE  AgreeInv'
<1>0. /\ Executing("credit_consume", t) /\ "credit_consume" \in DOMAIN Writes
      /\ UNCHANGED <<task, output, job, run, boot>> /\ stmts' = Tail(stmts)
      /\ refunded' = refunded
  BY WritesValues
  DEF ReserveTaskCredit, Done, rowVars, ConsumeTaskCredit, ledgerVars
<1>1. /\ Head(stmts).op = "credit_consume" /\ Head(stmts).task = t
      /\ Ordered(stmts') /\ Knows(Head(stmts))
      /\ \A s \in Range(stmts') : Knows(s) /\ Before(Head(stmts), s)
      /\ \A o, u : Pending(o, u) /\ o # "credit_consume" => Pending(o, u)'
      /\ \A o, u : Executing(o, u) => o = "credit_consume" /\ u = t
  BY <1>0, HeadKnows, HeadFacts DEF Pending
<1>2. \A u \in Tasks : u # t => consumedFrom'[u] = consumedFrom[u]
  BY DEF ReserveTaskCredit, ConsumeTaskCredit, LedgerTypeOK, ledgerVars
<1>3. job[t] = "none" /\ task[t] \in {"none", "created"}
  BY <1>1 DEF Knows
<1>4. CancelledJobIsRefunded' /\ CompletedJobDelivered'
  BY <1>0, <1>2, <1>3
  DEF AgreeInv, CancelledJobIsRefunded, CompletedJobDelivered, Consumed
<1>5. AwaitedTaskLives'
  BY <1>0, <1>1 DEF AgreeInv, AwaitedTaskLives, Awaited, Delivered, OutputNext
<1>6. RefundOrNext'
  BY <1>0, <1>1, <1>2, <1>3 DEF AgreeInv, RefundOrNext, Consumed
<1>7. ASSUME NEW s \in Range(stmts') PROVE Knows(s)'
  BY <1>0, <1>1 DEF Knows, Before, Awaited, Delivered, OutputNext
<1>  QED  BY <1>1, <1>4, <1>5, <1>6, <1>7 DEF AgreeInv

LEMMA RefundCreditAgrees ==
  ASSUME QueueInv, AgreeInv, NEW t \in Tasks, RefundCredit(t)
  PROVE  AgreeInv'
<1>0. /\ Executing("credit_refund", t) /\ "credit_refund" \in DOMAIN Writes
      /\ UNCHANGED <<task, output, job, run, boot>> /\ stmts' = Tail(stmts)
      /\ consumedFrom' = consumedFrom /\ refunded \subseteq refunded'
      /\ Consumed(t) => t \in refunded'
  BY WritesValues, Zenon
  DEF RefundCredit, Done, rowVars, RefundTaskCredit, ledgerVars, Consumed
<1>1. /\ Head(stmts).op = "credit_refund" /\ Head(stmts).task = t
      /\ Ordered(stmts') /\ Knows(Head(stmts))
      /\ \A s \in Range(stmts') : Knows(s) /\ Before(Head(stmts), s)
      /\ \A o, u : Pending(o, u) /\ o # "credit_refund" => Pending(o, u)'
      /\ \A o, u : Executing(o, u) => o = "credit_refund" /\ u = t
  BY <1>0, HeadKnows, HeadFacts DEF Pending
<1>2. CancelledJobIsRefunded' /\ CompletedJobDelivered'
  BY <1>0
  DEF AgreeInv, CancelledJobIsRefunded, CompletedJobDelivered, Consumed
<1>3. AwaitedTaskLives'
  BY <1>0, <1>1 DEF AgreeInv, AwaitedTaskLives, Awaited, Delivered, OutputNext
<1>4. RefundOrNext'
  BY <1>0, <1>1 DEF AgreeInv, RefundOrNext, Consumed
<1>5. ASSUME NEW s \in Range(stmts') PROVE Knows(s)'
  BY <1>0, <1>1 DEF Knows, Before, Awaited, Delivered, Returned, RefundNext,
     CancelNext, Consumed
<1>  QED  BY <1>1, <1>2, <1>3, <1>4, <1>5 DEF AgreeInv

\* A guarded change of the task puts one more statement in its own place.
LEMMA ReplacedHead ==
  ASSUME QueueInv, AgreeInv, NEW t \in Tasks,
         NEW op \in {"task_complete", "task_settle"}, Executing(op, t),
         NEW new, new = IF op = "task_complete" THEN "task_output"
                        ELSE "credit_refund",
         stmts' = << Stmt(new, t, "none") >> \o Tail(stmts)
  PROVE  /\ Ordered(stmts') /\ Executing(new, t)'
         /\ \A s \in Range(stmts') :
              s \in Range(Tail(stmts)) \/ s.op = new
         /\ \A o, u : Pending(o, u) /\ ~(o = op /\ u = t) => Pending(o, u)'
<1>  DEFINE x == Stmt(new, t, "none")
            p == <<x>>
            r == Tail(stmts)
<1>0. op \in DOMAIN Writes /\ new \in DOMAIN Writes /\ "none" \in Writes[new]
  BY WritesValues
<1>1. x \in Stmts /\ x.op = new /\ x.task = t
  BY <1>0, StmtType
<1>  HIDE DEF x
<1>2. /\ r \in Seq(Stmts) /\ Ordered(r)
      /\ Head(stmts).op = op /\ \A s \in Range(r) : Before(Head(stmts), s)
  BY <1>0, HeadKnows, HeadFacts
<1>3. p \in Seq(Stmts) /\ Range(p) = {x} /\ Ordered(p) /\ p[1] = x /\ Len(p) = 1
  BY <1>1, TupleRange, OrderedTuples
<1>4. \A s \in Range(r) : Before(x, s)
  BY <1>1, <1>2 DEF Before
<1>5. stmts' = p \o r  BY DEF x
<1>  HIDE DEF p, r
<1>6. Ordered(p \o r)
  BY <1>2, <1>3, <1>4, OrderedConcat
<1>7. p \o r \in Seq(Stmts) /\ Range(p \o r) = {x} \cup Range(r)
  BY <1>2, <1>3, ConcatRange
<1>8. Head(p \o r) = x /\ p \o r # <<>>
  <2>1. /\ Len(p \o r) = Len(p) + Len(r)
        /\ \A i \in 1 .. Len(p) + Len(r) :
             (p \o r)[i] = IF i <= Len(p) THEN p[i] ELSE r[i - Len(p)]
    BY <1>2, <1>3, ConcatProperties
  <2>2. Len(r) \in Nat  BY <1>2, LenProperties
  <2>  QED  BY <1>3, <1>7, <2>1, <2>2
<1>9. \A o, u : Pending(o, u) /\ ~(o = op /\ u = t) =>
        \E s \in Range(r) : s.op = o /\ s.task = u
  BY <1>0, HeadKnows DEF r
<1>10. Executing(new, t)' /\ Ordered(stmts')
  BY <1>1, <1>5, <1>6, <1>8 DEF Executing
<1>11. Range(stmts') = {x} \cup Range(Tail(stmts))
  BY <1>5, <1>7 DEF r
<1>12. ASSUME NEW o, NEW u, Pending(o, u), ~(o = op /\ u = t)
       PROVE  Pending(o, u)'
  <2>1. PICK s \in Range(r) : s.op = o /\ s.task = u  BY <1>9, <1>12
  <2>2. s \in Range(stmts')  BY <1>11, <2>1 DEF r
  <2>  QED  BY <2>1, <2>2 DEF Pending
<1>13. \A s \in Range(stmts') : s \in Range(Tail(stmts)) \/ s.op = new
  BY <1>1, <1>11
<1>  QED  BY <1>10, <1>12, <1>13, Zenon

LEMMA CompleteTaskAgrees ==
  ASSUME QueueInv, AgreeInv, NEW t \in Tasks, CompleteTask(t)
  PROVE  AgreeInv'
<1>0. /\ Executing("task_complete", t) /\ "task_complete" \in DOMAIN Writes
      /\ UNCHANGED <<output, job, run, boot>>
      /\ UNCHANGED <<consumedFrom, refunded>>
  BY WritesValues DEF CompleteTask, ledgerVars
<1>1. CASE task[t] \notin NonTerminalTask
  <2>1. stmts' = Tail(stmts) /\ task' = task
    BY <1>1 DEF CompleteTask
  <2>  QED  BY <1>0, <1>1, <2>1, PlainAgrees DEF JobOps
<1>2. CASE task[t] \in NonTerminalTask
  <2>1. /\ stmts' = << Stmt("task_output", t, "none") >> \o Tail(stmts)
        /\ task' = [task EXCEPT ![t] = To] /\ To = "completed"
    BY <1>0, <1>2, HeadFacts, WritesValues DEF CompleteTask
  <2>2. /\ task'[t] = "completed"
        /\ \A u \in Tasks : u # t => task'[u] = task[u]
    BY <2>1 DEF QueueInv, QueueTypeOK
  <2>3. /\ Ordered(stmts') /\ Executing("task_output", t)'
        /\ \A s \in Range(stmts') :
             s \in Range(Tail(stmts)) \/ s.op = "task_output"
        /\ \A o, u : Pending(o, u) /\ ~(o = "task_complete" /\ u = t)
             => Pending(o, u)'
    BY <1>0, <2>1, ReplacedHead
  <2>4. /\ Head(stmts).op = "task_complete"
        /\ \A s \in Range(Tail(stmts)) :
             s.task \in Tasks /\ Knows(s) /\ Before(Head(stmts), s)
        /\ \A o, u : Executing(o, u) => o = "task_complete" /\ u = t
    BY <1>0, HeadKnows, HeadFacts
  <2>5. CancelledJobIsRefunded' /\ CompletedJobDelivered'
    BY <1>0, <1>2, <2>2 DEF AgreeInv, CancelledJobIsRefunded,
       CompletedJobDelivered, Consumed, NonTerminalTask
  <2>6. AwaitedTaskLives'
    BY <1>0, <2>2, <2>3, <2>4
    DEF AgreeInv, AwaitedTaskLives, Awaited, Delivered, OutputNext
  <2>7. RefundOrNext'
    BY <1>0, <2>2, <2>4 DEF AgreeInv, RefundOrNext, Consumed
  <2>8. ASSUME NEW s \in Range(stmts') PROVE Knows(s)'
    <3>1. CASE s.op = "task_output"
      BY <3>1 DEF Knows
    <3>2. CASE s \in Range(Tail(stmts))
      BY <1>0, <2>2, <2>3, <2>4, <3>2
      DEF Knows, Before, Awaited, Delivered, OutputNext
    <3>  QED  BY <2>3, <3>1, <3>2
  <2>  QED  BY <2>3, <2>5, <2>6, <2>7, <2>8 DEF AgreeInv
<1>  QED  BY <1>1, <1>2

LEMMA SettleTaskAgrees ==
  ASSUME QueueInv, AgreeInv, NEW t \in Tasks, SettleTask(t)
  PROVE  AgreeInv'
<1>0. /\ Executing("task_settle", t) /\ "task_settle" \in DOMAIN Writes
      /\ UNCHANGED <<output, job, run, boot>>
      /\ UNCHANGED <<consumedFrom, refunded>>
  BY WritesValues DEF SettleTask, ledgerVars
<1>1. CASE task[t] \notin NonTerminalTask
  <2>1. stmts' = Tail(stmts) /\ task' = task
    BY <1>1 DEF SettleTask
  <2>  QED  BY <1>0, <1>1, <2>1, PlainAgrees DEF JobOps
<1>2. CASE task[t] \in NonTerminalTask
  <2>1. /\ stmts' = << Stmt("credit_refund", t, "none") >> \o Tail(stmts)
        /\ task' = [task EXCEPT ![t] = To] /\ To \in {"failed", "cancelled"}
    BY <1>0, <1>2, HeadFacts, WritesValues DEF SettleTask
  <2>2. /\ task'[t] = To
        /\ \A u \in Tasks : u # t => task'[u] = task[u]
    BY <2>1 DEF QueueInv, QueueTypeOK
  <2>3. /\ Ordered(stmts') /\ Executing("credit_refund", t)'
        /\ \A s \in Range(stmts') :
             s \in Range(Tail(stmts)) \/ s.op = "credit_refund"
        /\ \A o, u : Pending(o, u) /\ ~(o = "task_settle" /\ u = t)
             => Pending(o, u)'
    BY <1>0, <2>1, ReplacedHead
  <2>4. /\ Head(stmts).op = "task_settle" /\ Head(stmts).task = t
        /\ Head(stmts).to = To /\ Knows(Head(stmts))
        /\ \A s \in Range(Tail(stmts)) :
             s.task \in Tasks /\ Knows(s) /\ Before(Head(stmts), s)
        /\ \A o, u : Executing(o, u) => o = "task_settle" /\ u = t
    BY <1>0, HeadKnows, HeadFacts DEF To
  <2>5. CancelledJobIsRefunded' /\ CompletedJobDelivered'
    BY <1>0, <1>2, <2>2 DEF AgreeInv, CancelledJobIsRefunded,
       CompletedJobDelivered, Consumed, NonTerminalTask
  <2>6. IF To = "cancelled" THEN Pending("job_cancel", t)' ELSE ~Awaited(t)
    BY <2>3, <2>4 DEF Knows
  <2>7. AwaitedTaskLives'
    BY <1>0, <2>1, <2>2, <2>3, <2>4, <2>6
    DEF AgreeInv, AwaitedTaskLives, Awaited, Delivered, OutputNext
  <2>8. RefundOrNext'
    BY <1>0, <2>2, <2>3, <2>4 DEF AgreeInv, RefundOrNext, Consumed
  <2>9. ASSUME NEW s \in Range(stmts') PROVE Knows(s)'
    <3>1. CASE s.op = "credit_refund"
      BY <3>1 DEF Knows
    <3>2. CASE s \in Range(Tail(stmts))
      BY <1>0, <1>2, <2>2, <2>3, <2>4, <3>2
      DEF Knows, Before, Awaited, Returned, RefundNext, CancelNext, Consumed,
          NonTerminalTask
    <3>  QED  BY <2>3, <3>1, <3>2
  <2>  QED  BY <2>3, <2>5, <2>7, <2>8, <2>9 DEF AgreeInv
<1>  QED  BY <1>1, <1>2

\* A job is settled by a statement that finds its task accordingly.
LEMMA JobChangeAgrees ==
  ASSUME QueueInv, AgreeInv, NEW t \in Tasks, NEW op \in JobOps,
         Executing(op, t), stmts' = Tail(stmts),
         op = "job_insert" \/ job[t] # "none",
         NEW to \in JobStatus \ {"none", "running"},
         job' = [job EXCEPT ![t] = to],
         to = "cancelled" => Returned(t), to = "completed" => Delivered(t),
         UNCHANGED <<task, output, run, consumedFrom, refunded, boot>>
  PROVE  AgreeInv'
<1>0. op \in DOMAIN Writes  BY WritesValues DEF JobOps
<1>1. /\ Head(stmts).op = op /\ Ordered(stmts')
      /\ \A s \in Range(stmts') :
           s.task \in Tasks /\ Knows(s) /\ Before(Head(stmts), s)
      /\ \A o, u : Pending(o, u) /\ ~(o = op /\ u = t) => Pending(o, u)'
      /\ \A o, u : Executing(o, u) => o = op /\ u = t
  BY <1>0, HeadKnows, HeadFacts DEF Pending
<1>2. /\ job'[t] = to
      /\ \A u \in Tasks : u # t => job'[u] = job[u]
  BY DEF QueueInv, QueueTypeOK
<1>3. CancelledJobIsRefunded' /\ CompletedJobDelivered'
  BY <1>2 DEF AgreeInv, CancelledJobIsRefunded, CompletedJobDelivered,
     Consumed, Returned, Delivered
<1>4. AwaitedTaskLives'
  BY <1>1, <1>2
  DEF AgreeInv, AwaitedTaskLives, Awaited, Delivered, OutputNext, JobOps
<1>5. RefundOrNext'
  BY <1>1 DEF AgreeInv, RefundOrNext, Consumed, JobOps
<1>6. ASSUME NEW s \in Range(stmts') PROVE Knows(s)'
  BY <1>1, <1>2 DEF Knows, Before, Awaited, JobOps
<1>  QED  BY <1>1, <1>3, <1>4, <1>5, <1>6 DEF AgreeInv

LEMMA JobStatementsAgree ==
  ASSUME QueueInv, AgreeInv, NEW t \in Tasks,
         InsertJob(t) \/ FinishJob(t) \/ ReleaseJob(t) \/ CancelJobRow(t)
  PROVE  AgreeInv'
<1>0. /\ JobOps \subseteq DOMAIN Writes
      /\ UNCHANGED <<task, output, run, boot>> /\ stmts' = Tail(stmts)
      /\ UNCHANGED <<consumedFrom, refunded>>
  BY WritesValues DEF InsertJob, FinishJob, ReleaseJob, CancelJobRow, Done,
     ledgerVars, JobOps
<1>1. CASE InsertJob(t)
  <2>1. Executing("job_insert", t) /\ "job_insert" \in JobOps
    BY <1>1 DEF InsertJob, JobOps
  <2>2. To = "queued"
    BY <1>0, <2>1, HeadFacts, WritesValues
  <2>3. job' = [job EXCEPT ![t] = "queued"]
    BY <1>1, <2>2 DEF InsertJob
  <2>4. "queued" \in JobStatus \ {"none", "running"}
    BY DEF JobStatus, ActiveJob, ClaimableJob
  <2>  QED  BY <1>0, <2>1, <2>3, <2>4, JobChangeAgrees
<1>2. CASE FinishJob(t)
  <2>1. Executing("job_finish", t) /\ "job_finish" \in JobOps
    BY <1>2 DEF FinishJob, JobOps
  <2>2. /\ To \in {"completed", "failed", "timed_out"}
        /\ Head(stmts).op = "job_finish" /\ Head(stmts).task = t
        /\ Knows(Head(stmts)) /\ Head(stmts).to = To
        /\ \A o, u : Executing(o, u) => o = "job_finish" /\ u = t
        /\ Range(stmts) = {Head(stmts)} \cup Range(Tail(stmts))
        /\ \A s \in Range(Tail(stmts)) : Before(Head(stmts), s)
    BY <1>0, <2>1, HeadFacts, HeadKnows, WritesValues DEF To
  <2>3. ~Pending("task_complete", t)
    BY <2>2 DEF Pending, Before
  <2>4. To = "completed" => Delivered(t)
    BY <2>2, <2>3 DEF Knows, OutputNext
  <2>5. CASE job[t] = "running"
    <3>1. PICK to \in JobStatus \ {"none", "running"} : to = To
      BY <2>2 DEF JobStatus, TerminalJob
    <3>2. job' = [job EXCEPT ![t] = to]
      BY <1>2, <2>5, <3>1 DEF FinishJob
    <3>  QED  BY <1>0, <2>1, <2>2, <2>4, <2>5, <3>1, <3>2, JobChangeAgrees
  <2>6. CASE job[t] # "running"
    <3>1. job' = job  BY <1>2, <2>6 DEF FinishJob
    <3>  QED  BY <1>0, <2>1, <2>6, <3>1, PlainAgrees
  <2>  QED  BY <2>5, <2>6
<1>3. CASE ReleaseJob(t)
  <2>1. Executing("job_retry", t) /\ "job_retry" \in JobOps
    BY <1>3 DEF ReleaseJob, JobOps
  <2>2. To \in {"queued", "retrying"}
    BY <1>0, <2>1, HeadFacts, WritesValues
  <2>3. CASE job[t] = "running"
    <3>1. PICK to \in JobStatus \ {"none", "running"} : to = To
      BY <2>2 DEF JobStatus, ActiveJob, ClaimableJob
    <3>2. job' = [job EXCEPT ![t] = to]
      BY <1>3, <2>3, <3>1 DEF ReleaseJob
    <3>  QED  BY <1>0, <2>1, <2>2, <2>3, <3>1, <3>2, JobChangeAgrees
  <2>4. CASE job[t] # "running"
    <3>1. job' = job  BY <1>3, <2>4 DEF ReleaseJob
    <3>  QED  BY <1>0, <2>1, <2>4, <3>1, PlainAgrees
  <2>  QED  BY <2>3, <2>4
<1>4. CASE CancelJobRow(t)
  <2>1. Executing("job_cancel", t) /\ "job_cancel" \in JobOps
    BY <1>4 DEF CancelJobRow, JobOps
  <2>2. /\ To = "cancelled"
        /\ Head(stmts).op = "job_cancel" /\ Head(stmts).task = t
        /\ Knows(Head(stmts))
        /\ \A o, u : Executing(o, u) => o = "job_cancel" /\ u = t
    BY <1>0, <2>1, HeadFacts, HeadKnows, WritesValues
  <2>3. Returned(t)
    BY <2>2 DEF Knows, RefundNext, CancelNext
  <2>4. CASE job[t] \in ActiveJob
    <3>1. job' = [job EXCEPT ![t] = "cancelled"] /\ job[t] # "none"
      BY <1>4, <2>2, <2>4 DEF CancelJobRow, ActiveJob, ClaimableJob
    <3>2. "cancelled" \in JobStatus \ {"none", "running"}
      BY DEF JobStatus, TerminalJob
    <3>  QED  BY <1>0, <2>1, <2>3, <3>1, <3>2, JobChangeAgrees
  <2>5. CASE job[t] \notin ActiveJob
    <3>1. job' = job /\ job[t] # "running"
      BY <1>4, <2>5 DEF CancelJobRow, ActiveJob
    <3>  QED  BY <1>0, <2>1, <3>1, PlainAgrees
  <2>  QED  BY <2>4, <2>5
<1>  QED  BY <1>1, <1>2, <1>3, <1>4

\* The await is the last statement of its callback, after the task was opened.
LEMMA AwaitRunAgrees ==
  ASSUME QueueInv, AgreeInv, NEW t \in Tasks, AwaitRun(t)
  PROVE  AgreeInv'
<1>0. /\ Executing("await", t) /\ "await" \in DOMAIN Writes
      /\ UNCHANGED <<task, output, job, boot>> /\ stmts' = Tail(stmts)
      /\ UNCHANGED <<consumedFrom, refunded>>
      /\ run' = [run EXCEPT ![t][attempts[t]] = To]
  BY WritesValues DEF AwaitRun, Done, ledgerVars, rowVars
<1>1. /\ Head(stmts).op = "await" /\ Head(stmts).task = t
      /\ Ordered(stmts') /\ Knows(Head(stmts))
      /\ \A s \in Range(stmts') : Before(Head(stmts), s)
      /\ \A o, u : Pending(o, u) /\ ~(o = "await" /\ u = t) => Pending(o, u)'
      /\ \A o, u : Executing(o, u) => o = "await" /\ u = t
  BY <1>0, HeadKnows, HeadFacts DEF Pending
<1>2. \A s : s \notin Range(stmts')
  BY <1>1 DEF Before
<1>3. \A o, u : ~Pending(o, u)'
  BY <1>2 DEF Pending
<1>4. task[t] = "running"
  BY <1>1, <1>3 DEF Knows
<1>5. \A u \in Tasks : u # t => (Awaited(u)' <=> Awaited(u))
  BY <1>0 DEF Awaited, QueueInv, QueueTypeOK
<1>6. CancelledJobIsRefunded' /\ CompletedJobDelivered'
  BY <1>0 DEF AgreeInv, CancelledJobIsRefunded, CompletedJobDelivered, Consumed
<1>7. AwaitedTaskLives'
  BY <1>0, <1>1, <1>3, <1>4, <1>5
  DEF AgreeInv, AwaitedTaskLives, Delivered, OutputNext, NonTerminalTask
<1>8. RefundOrNext'
  BY <1>0, <1>1 DEF AgreeInv, RefundOrNext, Consumed
<1>  QED  BY <1>1, <1>2, <1>6, <1>7, <1>8 DEF AgreeInv

LEMMA StatementAgrees ==
  ASSUME QueueInv, LedgerTypeOK, AgreeInv, NEW t \in Tasks, Statement(t)
  PROVE  AgreeInv'
<1>1. CASE CreateAgentExecution(t)
  BY <1>1, PlainAgrees, WritesValues
  DEF CreateAgentExecution, Done, JobOps, ledgerVars
<1>2. CASE InsertJobAttempt(t)
  BY <1>2, PlainAgrees, WritesValues
  DEF InsertJobAttempt, Done, JobOps, ledgerVars
<1>3. CASE FinishJobAttempt(t)
  BY <1>3, PlainAgrees, WritesValues
  DEF FinishJobAttempt, Done, JobOps, ledgerVars
<1>4. CASE SetExecution(t)
  BY <1>4, PlainAgrees, WritesValues
  DEF SetExecution, Done, JobOps, ledgerVars
<1>5. CASE MarkExecutionTimedOut(t)
  BY <1>5, PlainAgrees, WritesValues
  DEF MarkExecutionTimedOut, Done, JobOps, ledgerVars
<1>  QED
  BY <1>1, <1>2, <1>3, <1>4, <1>5, CreateTaskAgrees, RunTaskAgrees,
     UpdateTaskOutputAgrees, ReserveTaskCreditAgrees, RefundCreditAgrees,
     CompleteTaskAgrees, SettleTaskAgrees, JobStatementsAgree, AwaitRunAgrees
  DEF Statement

-----------------------------------------------------------------------------
(* Callbacks, recovery and crashes.                                        *)

LEMMA CallbackAgrees ==
  ASSUME AgreeInv, stmts = <<>>,
         UNCHANGED <<task, output, consumedFrom, refunded, boot>>,
         \A u \in Tasks : \/ job'[u] = job[u]
                          \/ job'[u] = "running" /\ ~Awaited(u)',
         \A u \in Tasks : Awaited(u)' => Awaited(u),
         Ordered(stmts'), \A s \in Range(stmts') : Knows(s)'
  PROVE  AgreeInv'
<1>1. \A o, u : ~Pending(o, u) /\ ~Executing(o, u)
  BY TupleRange DEF Pending, Executing
<1>2. CancelledJobIsRefunded' /\ CompletedJobDelivered'
  BY DEF AgreeInv, CancelledJobIsRefunded, CompletedJobDelivered, Consumed
<1>3. AwaitedTaskLives'
  BY <1>1 DEF AgreeInv, AwaitedTaskLives, Delivered, OutputNext
<1>4. RefundOrNext'
  BY <1>1 DEF AgreeInv, RefundOrNext, Consumed
<1>  QED  BY <1>2, <1>3, <1>4 DEF AgreeInv

FailureStmt(s) ==
  /\ s.op \in FailureOps
  /\ s.op = "task_settle" => s.to = "failed"
  /\ s.op = "job_finish" => s.to # "completed"

\* A failure settles the task as failed and finishes the job as such.
LEMMA FailurePlanOrder ==
  ASSUME NEW t \in Tasks, NEW n, NEW error,
         NEW finally \in {"failed", "timed_out"}
  PROVE  /\ Ordered(FailurePlan(t, n, error, finally))
         /\ \A s \in Range(FailurePlan(t, n, error, finally)) : FailureStmt(s)
<1>  DEFINE a == Stmt("job_retry", t, "retrying")
            b == Stmt("attempt_finish", t, finally)
            c == Stmt("job_finish", t, finally)
            d == Stmt("task_settle", t, "failed")
<1>1. /\ a.op = "job_retry" /\ b.op = "attempt_finish"
      /\ c.op = "job_finish" /\ d.op = "task_settle"
  BY StmtType, WritesValues
<1>2. c.to = finally /\ d.to = "failed"  BY DEF Stmt
<1>3. FailurePlan(t, n, error, finally) =
        IF Retryable(error) /\ n < MaxAttempts THEN <<a, b>> ELSE <<c, b, d>>
  BY DEF FailurePlan
<1>  HIDE DEF a, b, c, d
<1>4. Before(a, b) /\ Before(c, b) /\ Before(c, d) /\ Before(b, d)
  BY <1>1, <1>2 DEF Before
<1>5. /\ Ordered(<<a, b>>) /\ Range(<<a, b>>) = {a, b}
      /\ Ordered(<<c, b, d>>) /\ Range(<<c, b, d>>) = {c, b, d}
  BY <1>4, OrderedTuples, TupleRange
<1>6. FailureStmt(a) /\ FailureStmt(b) /\ FailureStmt(c) /\ FailureStmt(d)
  BY <1>1, <1>2 DEF FailureStmt, FailureOps
<1>  QED  BY <1>3, <1>5, <1>6

LEMMA HandleJobFailureOrder ==
  ASSUME NEW t \in Tasks, NEW n, NEW error,
         NEW finally \in {"failed", "timed_out"}
  PROVE  /\ Ordered(HandleJobFailure(t, n, error, finally))
         /\ \A s \in Range(HandleJobFailure(t, n, error, finally)) :
              FailureStmt(s)
<1>1. CASE job[t] = "cancelled"
  <2>  DEFINE a == Stmt("attempt_finish", t, "cancelled")
  <2>1. a.op = "attempt_finish"
    BY StmtType, WritesValues
  <2>2. HandleJobFailure(t, n, error, finally) = <<a>>
    BY <1>1 DEF HandleJobFailure
  <2>  HIDE DEF a
  <2>3. Ordered(<<a>>) /\ Range(<<a>>) = {a}
    BY OrderedTuples, TupleRange
  <2>  QED  BY <2>1, <2>2, <2>3 DEF FailureStmt, FailureOps
<1>2. CASE job[t] # "cancelled"
  BY <1>2, FailurePlanOrder DEF HandleJobFailure
<1>  QED  BY <1>1, <1>2

\* One more statement before a plan.
LEMMA OrderedPrefix ==
  ASSUME NEW a \in Stmts, NEW q \in Seq(Stmts), Ordered(q),
         \A s \in Range(q) : Before(a, s)
  PROVE  /\ Ordered(<<a>> \o q) /\ Range(<<a>> \o q) = {a} \cup Range(q)
<1>  DEFINE p == <<a>>
<1>1. p \in Seq(Stmts) /\ Range(p) = {a} /\ Ordered(p)
  BY TupleRange, OrderedTuples
<1>  HIDE DEF p
<1>2. Ordered(p \o q) /\ Range(p \o q) = {a} \cup Range(q)
  BY <1>1, OrderedConcat, ConcatRange
<1>  QED  BY <1>2 DEF p

\* What ends an attempt needs only that nobody waits for it any more.
LEMMA FailureKnows ==
  ASSUME NEW s, FailureStmt(s), ~Awaited(s.task)'
  PROVE  Knows(s)'
BY DEF FailureStmt, FailureOps, Knows

LEMMA FailureAgrees ==
  ASSUME QueueInv, AgreeInv, stmts = <<>>,
         NEW t \in Tasks, NEW n \in AttemptNumber,
         NEW a \in Stmts, a.op \in {"exec_set", "exec_timeout"},
         NEW z \in Seq(Stmts), stmts' = <<a>> \o z, Ordered(z),
         \A s \in Range(z) : /\ run[t][n] = "awaited"
                             /\ s.task = t /\ FailureStmt(s),
         NEW r \in {"none", "late"}, run' = [run EXCEPT ![t][n] = r],
         UNCHANGED <<ledgerVars, rowVars, boot>>
  PROVE  AgreeInv'
<1>1. \A s \in Range(z) : Before(a, s)
  BY DEF Before, FailureStmt, FailureOps
<1>2. Ordered(stmts') /\ Range(stmts') = {a} \cup Range(z)
  BY <1>1, OrderedPrefix
<1>3. /\ \A u \in Tasks : Awaited(u)' => Awaited(u)
      /\ run[t][n] = "awaited" => ~Awaited(t)'
  BY SettledNotAwaited DEF Awaited
<1>4. ASSUME NEW s \in Range(stmts') PROVE Knows(s)'
  <2>1. CASE s = a
    BY <2>1 DEF Knows
  <2>2. CASE s \in Range(z)
    BY <1>3, <2>2, FailureKnows
  <2>  QED  BY <1>2, <2>1, <2>2
<1>5. /\ UNCHANGED <<task, output, consumedFrom, refunded, boot>>
      /\ job' = job
  BY DEF rowVars, ledgerVars
<1>  QED  BY <1>2, <1>3, <1>4, <1>5, CallbackAgrees

LEMMA RunFailsAgrees ==
  ASSUME QueueInv, AgreeInv, NEW t \in Tasks, NEW n \in AttemptNumber,
         NEW error \in RunErrors, RunFails(t, n, error)
  PROVE  AgreeInv'
<1>  DEFINE a == Stmt("exec_set", t, "failed")
            z == IF run[t][n] = "awaited"
                 THEN HandleJobFailure(t, n, error, "failed") ELSE <<>>
<1>1. a \in Stmts /\ a.op = "exec_set"
  BY StmtType, WritesValues
<1>2. /\ stmts = <<>> /\ stmts' = <<a>> \o z
      /\ run' = [run EXCEPT ![t][n] = "none"]
      /\ UNCHANGED <<ledgerVars, rowVars, boot>>
  BY DEF RunFails, Idle
<1>3. /\ z \in Seq(Stmts) /\ Ordered(z)
      /\ \A s \in Range(z) : /\ run[t][n] = "awaited"
                             /\ s.task = t /\ FailureStmt(s)
  <2>1. CASE run[t][n] = "awaited"
    BY <2>1, HandleJobFailureType, HandleJobFailureOrder
  <2>2. CASE run[t][n] # "awaited"
    <3>1. z = <<>>  BY <2>2
    <3>2. <<>> \in Seq(Stmts) /\ Range(<<>>) = {} /\ Ordered(<<>>)
      BY TupleRange, OrderedTuples
    <3>  QED  BY <3>1, <3>2
  <2>  QED  BY <2>1, <2>2
<1>  HIDE DEF a, z
<1>  QED  BY <1>1, <1>2, <1>3, FailureAgrees

LEMMA StepTimeoutAgrees ==
  ASSUME QueueInv, AgreeInv, NEW t \in Tasks, NEW n \in AttemptNumber,
         StepTimeout(t, n)
  PROVE  AgreeInv'
<1>  DEFINE error == [code |-> "timed_out", retryable |-> "yes"]
            a == Stmt("exec_timeout", t, "failed")
            z == HandleJobFailure(t, n, error, "timed_out")
<1>1. a \in Stmts /\ a.op = "exec_timeout"
  BY StmtType, WritesValues
<1>2. /\ stmts = <<>> /\ stmts' = <<a>> \o z /\ run[t][n] = "awaited"
      /\ run' = [run EXCEPT ![t][n] = "late"]
      /\ UNCHANGED <<ledgerVars, rowVars, boot>>
  BY DEF StepTimeout, Idle
<1>  HIDE DEF error
<1>3. /\ z \in Seq(Stmts) /\ Ordered(z)
      /\ \A s \in Range(z) : s.task = t /\ FailureStmt(s)
  BY HandleJobFailureType, HandleJobFailureOrder
<1>  HIDE DEF a, z
<1>  QED  BY <1>1, <1>2, <1>3, FailureAgrees

LEMMA CancelAgrees ==
  ASSUME QueueInv, AgreeInv, NEW t \in Tasks, CancelJob(t)
  PROVE  AgreeInv'
<1>  DEFINE a == Stmt("task_settle", t, "cancelled")
            b == Stmt("job_cancel", t, "cancelled")
<1>1. /\ a \in Stmts /\ a.op = "task_settle" /\ a.task = t
      /\ b \in Stmts /\ b.op = "job_cancel" /\ b.task = t
      /\ a.to = "cancelled"
  BY StmtType, WritesValues DEF Stmt
<1>2. /\ stmts = <<>> /\ stmts' = <<a, b>> /\ task[t] \in NonTerminalTask
      /\ UNCHANGED <<task, output, job, run, boot>>
      /\ UNCHANGED <<consumedFrom, refunded>>
  BY DEF CancelJob, Idle, rowVars, ledgerVars
<1>  HIDE DEF a, b
<1>3. Ordered(<<a, b>>) /\ Range(<<a, b>>) = {a, b}
  BY <1>1, OrderedTuples, TupleRange DEF Before
<1>4. Head(stmts') = a /\ stmts' # <<>>
  BY <1>2
<1>5. Knows(a)'
  BY <1>1, <1>2, <1>3 DEF Knows, Pending
<1>6. CancelNext(t)'
  BY <1>1, <1>2, <1>4 DEF CancelNext, Executing, To
<1>7. Knows(b)'
  BY <1>1, <1>6 DEF Knows
<1>  QED  BY <1>2, <1>3, <1>5, <1>7, CallbackAgrees DEF Awaited

LEMMA SubmitAgrees ==
  ASSUME QueueInv, AgreeInv, NEW t \in Tasks, Submit(t)
  PROVE  AgreeInv'
<1>  DEFINE a == Stmt("task_insert", t, "created")
            b == Stmt("credit_consume", t, "none")
            c == Stmt("exec_insert", t, "queued")
            d == Stmt("job_insert", t, "queued")
            p == <<a>>
            q == IF t \in UnlimitedTasks THEN <<>> ELSE <<b>>
            r == <<c, d>>
            pq == p \o q
<1>1. /\ a \in Stmts /\ a.op = "task_insert" /\ a.task = t
      /\ b \in Stmts /\ b.op = "credit_consume" /\ b.task = t
      /\ c \in Stmts /\ c.op = "exec_insert" /\ c.task = t
      /\ d \in Stmts /\ d.op = "job_insert" /\ d.task = t
  BY StmtType, WritesValues
<1>2. /\ task[t] = "none" /\ stmts = <<>> /\ stmts' = pq \o r
      /\ UNCHANGED <<task, output, job, run, boot>>
      /\ UNCHANGED <<consumedFrom, refunded>>
  BY DEF Submit, Idle, rowVars, ledgerVars
<1>  HIDE DEF a, b, c, d
<1>3. /\ Before(a, b) /\ Before(a, c) /\ Before(a, d)
      /\ Before(b, c) /\ Before(b, d) /\ Before(c, d)
  BY <1>1 DEF Before
<1>4. p \in Seq(Stmts) /\ Range(p) = {a} /\ Ordered(p)
  BY <1>1, TupleRange, OrderedTuples
<1>5. q \in Seq(Stmts) /\ Range(q) \subseteq {b} /\ Ordered(q)
  <2>1. <<b>> \in Seq(Stmts) /\ Range(<<b>>) = {b} /\ Ordered(<<b>>)
    BY <1>1, TupleRange, OrderedTuples
  <2>2. <<>> \in Seq(Stmts) /\ Range(<<>>) = {} /\ Ordered(<<>>)
    BY TupleRange, OrderedTuples
  <2>3. q = <<>> \/ q = <<b>>  OBVIOUS
  <2>  QED  BY <2>1, <2>2, <2>3
<1>6. r \in Seq(Stmts) /\ Range(r) = {c, d} /\ Ordered(r)
  BY <1>1, <1>3, TupleRange, OrderedTuples
<1>  HIDE DEF p, q, r
<1>7. pq \in Seq(Stmts) /\ Range(pq) \subseteq {a, b} /\ Ordered(pq)
  BY <1>3, <1>4, <1>5, ConcatRange, OrderedConcat
<1>  HIDE DEF pq
<1>8. Range(pq \o r) \subseteq {a, b, c, d} /\ Ordered(pq \o r)
  BY <1>3, <1>6, <1>7, ConcatRange, OrderedConcat
<1>9. job[t] = "none"
  BY <1>2 DEF QueueInv, FreshTask
<1>10. Knows(a)' /\ Knows(b)' /\ Knows(c)' /\ Knows(d)'
  BY <1>1, <1>2, <1>9 DEF Knows
<1>  QED  BY <1>2, <1>8, <1>10, CallbackAgrees DEF Awaited

LEMMA ClaimAgrees ==
  ASSUME QueueInv, AgreeInv, NEW t \in Tasks, ClaimNextDueJob(t)
  PROVE  AgreeInv'
<1>  DEFINE n == attempts'[t]
            a == Stmt("attempt_insert", t, "started")
            e == FailurePlan(t, n, HandlerError, "failed")
            b == Stmt("exec_set", t, "running")
            c == Stmt("task_run", t, "running")
            d == Stmt("await", t, "awaited")
            f == Stmt("exec_set", t, "failed")
            g == Stmt("task_settle", t, "failed")
<1>1. /\ job[t] \in ClaimableJob /\ stmts = <<>>
      /\ job' = [job EXCEPT ![t] = "running"]
      /\ UNCHANGED <<task, output, run, boot>>
      /\ UNCHANGED <<consumedFrom, refunded>>
  BY DEF ClaimNextDueJob, Idle, ledgerVars
<1>2. PICK plan \in {e, StartRun(t), AgentMissing(t, n)} :
        stmts' = <<a>> \o plan
  <2>1. \E plan \in
          IF emergencyStop
          THEN { FailurePlan(t, attempts'[t], HandlerError, "failed") }
          ELSE {StartRun(t)} \cup
               (IF t \in ResearchTasks THEN {}
                ELSE {AgentMissing(t, attempts'[t])}) :
          stmts' = <<a>> \o plan
    BY DEF ClaimNextDueJob
  <2>  HIDE DEF a
  <2>  QED  BY <2>1
<1>3. /\ a \in Stmts /\ a.op = "attempt_insert"
      /\ b \in Stmts /\ b.op = "exec_set"
      /\ c \in Stmts /\ c.op = "task_run" /\ c.task = t
      /\ d \in Stmts /\ d.op = "await" /\ d.task = t
      /\ f \in Stmts /\ f.op = "exec_set"
      /\ g \in Stmts /\ g.op = "task_settle" /\ g.task = t
      /\ g.to = "failed"
  BY StmtType, WritesValues DEF Stmt
<1>4. /\ e \in Seq(Stmts) /\ Ordered(e)
      /\ \A s \in Range(e) : s.task = t /\ FailureStmt(s)
  BY FailurePlanType, FailurePlanOrder
<1>5. StartRun(t) = <<b, c, d>> /\ AgentMissing(t, n) = <<b, c, f, g>> \o e
  BY DEF StartRun, AgentMissing
<1>  HIDE DEF a, b, c, d, e, f, g, n
<1>6. ~Awaited(t)' /\ job'[t] = "running"
      /\ \A u \in Tasks : u # t => job'[u] = job[u]
  BY <1>1 DEF QueueInv, QueueTypeOK, OneLiveAttempt, Awaited, ClaimableJob
<1>7. \A s \in Range(e) : Knows(s)'
  BY <1>4, <1>6, FailureKnows
<1>8. Knows(a)' /\ Knows(b)' /\ Knows(c)' /\ Knows(f)' /\ Knows(g)'
  BY <1>3, <1>6 DEF Knows
<1>9. CASE plan = e
  <2>1. \A s \in Range(e) : Before(a, s)
    BY <1>3, <1>4 DEF Before, FailureStmt, FailureOps
  <2>2. Ordered(stmts') /\ Range(stmts') = {a} \cup Range(e)
    BY <1>2, <1>3, <1>4, <1>9, <2>1, OrderedPrefix
  <2>  QED  BY <1>1, <1>6, <1>7, <1>8, <2>2, CallbackAgrees DEF Awaited
<1>10. CASE plan = StartRun(t)
  <2>  DEFINE q == <<b, c, d>>
  <2>1. /\ Before(b, c) /\ Before(b, d) /\ Before(c, d)
        /\ Before(a, b) /\ Before(a, c) /\ Before(a, d)
    BY <1>3 DEF Before
  <2>2. q \in Seq(Stmts) /\ Range(q) = {b, c, d} /\ Ordered(q)
    BY <1>3, <2>1, TupleRange, OrderedTuples
  <2>3. stmts' = <<a>> \o q  BY <1>2, <1>5, <1>10
  <2>  HIDE DEF q
  <2>4. Ordered(stmts') /\ Range(stmts') = {a, b, c, d}
    BY <1>3, <2>1, <2>2, <2>3, OrderedPrefix
  <2>5. Knows(d)'
    BY <1>3, <2>4 DEF Knows, Pending
  <2>  QED  BY <1>1, <1>6, <1>8, <2>4, <2>5, CallbackAgrees DEF Awaited
<1>11. CASE plan = AgentMissing(t, n)
  <2>  DEFINE p == <<b, c>>
              q == <<f, g>>
              w == <<b, c, f, g>>
  <2>1. /\ Before(b, c) /\ Before(f, g)
        /\ Before(b, f) /\ Before(b, g) /\ Before(c, f) /\ Before(c, g)
        /\ Before(a, b) /\ Before(a, c) /\ Before(a, f) /\ Before(a, g)
        /\ \A s \in Range(e) : /\ Before(a, s) /\ Before(b, s) /\ Before(c, s)
                               /\ Before(f, s) /\ Before(g, s)
    BY <1>3, <1>4 DEF Before, FailureStmt, FailureOps
  <2>2. /\ p \in Seq(Stmts) /\ Range(p) = {b, c} /\ Ordered(p)
        /\ q \in Seq(Stmts) /\ Range(q) = {f, g} /\ Ordered(q)
        /\ w = p \o q
    BY <1>3, <2>1, TupleRange, OrderedTuples
  <2>3. stmts' = <<a>> \o (w \o e)  BY <1>2, <1>5, <1>11
  <2>  HIDE DEF p, q, w
  <2>4. w \in Seq(Stmts) /\ Range(w) = {b, c, f, g} /\ Ordered(w)
    <3>1. \A r \in Range(p), s \in Range(q) : Before(r, s)
      BY <2>1, <2>2
    <3>2. p \o q \in Seq(Stmts) /\ Range(p \o q) = Range(p) \cup Range(q)
      BY <2>2, ConcatRange
    <3>3. Ordered(p \o q)
      BY <2>2, <3>1, OrderedConcat
    <3>  QED  BY <2>2, <3>2, <3>3
  <2>  DEFINE z == w \o e
  <2>5. /\ z \in Seq(Stmts) /\ Range(z) = {b, c, f, g} \cup Range(e)
        /\ Ordered(z)
    BY <1>4, <2>1, <2>4, ConcatRange, OrderedConcat
  <2>6. stmts' = <<a>> \o z  BY <2>3
  <2>  HIDE DEF z
  <2>7. Ordered(stmts') /\ Range(stmts') = {a, b, c, f, g} \cup Range(e)
    BY <1>3, <2>1, <2>5, <2>6, OrderedPrefix
  <2>  QED  BY <1>1, <1>6, <1>7, <1>8, <2>7, CallbackAgrees DEF Awaited
<1>  QED  BY <1>2, <1>9, <1>10, <1>11

\* A result is handled only while its job still runs, so its task is open or
\* delivered.
LEMMA RunSucceedsAgrees ==
  ASSUME QueueInv, AgreeInv, NEW t \in Tasks, NEW n \in AttemptNumber,
         RunSucceeds(t, n)
  PROVE  AgreeInv'
<1>  DEFINE cancelled == job[t] = "cancelled"
            awaited == run[t][n] = "awaited"
            a == Stmt("exec_set", t, "completed")
            b == Stmt("task_complete", t, "completed")
            c == Stmt("attempt_finish", t, "cancelled")
            d == Stmt("job_finish", t, "completed")
            e == Stmt("attempt_finish", t, "completed")
            x == IF cancelled /\ t \notin ResearchTasks THEN <<>> ELSE <<a>>
            y == IF cancelled THEN <<>> ELSE <<b>>
            z == IF ~awaited THEN <<>>
                 ELSE IF cancelled THEN <<c>> ELSE <<d, e>>
            xy == x \o y
<1>1. /\ a \in Stmts /\ a.op = "exec_set" /\ a.task = t
      /\ b \in Stmts /\ b.op = "task_complete" /\ b.task = t
      /\ c \in Stmts /\ c.op = "attempt_finish" /\ c.task = t
      /\ d \in Stmts /\ d.op = "job_finish" /\ d.task = t
      /\ e \in Stmts /\ e.op = "attempt_finish" /\ e.task = t
  BY StmtType, WritesValues
<1>2. /\ stmts = <<>> /\ stmts' = xy \o z
      /\ run' = [run EXCEPT ![t][n] = "none"]
      /\ UNCHANGED <<task, output, job, boot>>
      /\ UNCHANGED <<consumedFrom, refunded>>
  BY DEF RunSucceeds, SuccessPlan, Idle, rowVars, ledgerVars
<1>  HIDE DEF a, b, c, d, e
<1>3. /\ Before(a, b) /\ Before(a, c) /\ Before(a, d) /\ Before(a, e)
      /\ Before(b, c) /\ Before(b, d) /\ Before(b, e) /\ Before(d, e)
  BY <1>1 DEF Before
<1>4. x \in Seq(Stmts) /\ Range(x) \subseteq {a} /\ Ordered(x)
  <2>1. <<a>> \in Seq(Stmts) /\ Range(<<a>>) = {a} /\ Ordered(<<a>>)
    BY <1>1, TupleRange, OrderedTuples
  <2>2. <<>> \in Seq(Stmts) /\ Range(<<>>) = {} /\ Ordered(<<>>)
    BY TupleRange, OrderedTuples
  <2>3. x = <<>> \/ x = <<a>>  OBVIOUS
  <2>  QED  BY <2>1, <2>2, <2>3
<1>5. /\ y \in Seq(Stmts) /\ Range(y) \subseteq {b} /\ Ordered(y)
      /\ ~cancelled => b \in Range(y)
  <2>1. <<b>> \in Seq(Stmts) /\ Range(<<b>>) = {b} /\ Ordered(<<b>>)
    BY <1>1, TupleRange, OrderedTuples
  <2>2. <<>> \in Seq(Stmts) /\ Range(<<>>) = {} /\ Ordered(<<>>)
    BY TupleRange, OrderedTuples
  <2>3. y = <<>> \/ y = <<b>>  OBVIOUS
  <2>4. ~cancelled => y = <<b>>  OBVIOUS
  <2>  QED  BY <2>1, <2>2, <2>3, <2>4
<1>6. /\ z \in Seq(Stmts) /\ Range(z) \subseteq {c, d, e} /\ Ordered(z)
      /\ d \in Range(z) => awaited /\ ~cancelled
  <2>1. /\ <<c>> \in Seq(Stmts) /\ Range(<<c>>) = {c} /\ Ordered(<<c>>)
        /\ <<d, e>> \in Seq(Stmts) /\ Range(<<d, e>>) = {d, e}
        /\ Ordered(<<d, e>>)
    BY <1>1, <1>3, TupleRange, OrderedTuples
  <2>2. <<>> \in Seq(Stmts) /\ Range(<<>>) = {} /\ Ordered(<<>>)
    BY TupleRange, OrderedTuples
  <2>3. /\ z = <<>> \/ z = <<c>> \/ z = <<d, e>>
        /\ ~awaited => z = <<>>
        /\ ~(awaited /\ ~cancelled) => z = <<>> \/ z = <<c>>
    OBVIOUS
  <2>4. c # d  BY <1>1
  <2>  HIDE DEF x, y, z, awaited, cancelled
  <2>5. z \in Seq(Stmts) /\ Range(z) \subseteq {c, d, e} /\ Ordered(z)
    BY <2>1, <2>2, <2>3
  <2>6. ASSUME ~(awaited /\ ~cancelled) PROVE d \notin Range(z)
    BY <2>1, <2>2, <2>3, <2>4, <2>6
  <2>  QED  BY <2>5, <2>6, Zenon
<1>  HIDE DEF x, y, z
<1>7. xy \in Seq(Stmts) /\ Range(xy) = Range(x) \cup Range(y) /\ Ordered(xy)
  BY <1>3, <1>4, <1>5, ConcatRange, OrderedConcat
<1>8. Range(xy) \subseteq {a, b}  BY <1>4, <1>5, <1>7
<1>  HIDE DEF xy
<1>9. Ordered(stmts') /\ Range(stmts') = Range(xy) \cup Range(z)
  <2>1. \A r \in Range(xy), s \in Range(z) : Before(r, s)
    BY <1>3, <1>6, <1>8
  <2>2. Range(xy \o z) = Range(xy) \cup Range(z)
    BY <1>6, <1>7, ConcatRange
  <2>3. Ordered(xy \o z)
    BY <1>6, <1>7, <2>1, OrderedConcat
  <2>4. stmts' = xy \o z  BY <1>2
  <2>  QED  BY <2>2, <2>3, <2>4
<1>10. \A u \in Tasks : Awaited(u)' => Awaited(u)
  BY <1>2, SettledNotAwaited DEF Awaited
<1>11. Knows(a)' /\ Knows(b)' /\ Knows(c)' /\ Knows(e)'
  BY <1>1 DEF Knows
<1>12. ASSUME awaited, ~cancelled PROVE Knows(d)'
  <2>1. Awaited(t) /\ job[t] = "running"
    BY <1>12 DEF QueueInv, OneLiveAttempt, Awaited
  <2>2. task[t] \in NonTerminalTask \/ Delivered(t)
    BY <1>2, <2>1, TupleRange
    DEF AgreeInv, AwaitedTaskLives, OutputNext, Executing, Pending
  <2>3. Pending("task_complete", t)'
    BY <1>1, <1>5, <1>7, <1>9, <1>12 DEF Pending
  <2>  QED  BY <1>1, <1>2, <2>2, <2>3 DEF Knows, Delivered
<1>13. ASSUME NEW s \in Range(stmts') PROVE Knows(s)'
  BY <1>6, <1>8, <1>9, <1>11, <1>12
<1>  QED  BY <1>2, <1>9, <1>10, <1>13, CallbackAgrees

\* A recovery pass fails what it finds: nobody waits for it.
LEMMA RecoverRowAgrees ==
  ASSUME QueueInv, AgreeInv, NEW t \in Tasks, NoOneWaits,
         \/ RecoverStaleJob(t) \/ RecoverOrphanExecution(t)
         \/ RecoverOrphanTask(t)
  PROVE  AgreeInv'
<1>  DEFINE a == Stmt("job_retry", t, "queued")
            b == Stmt("job_finish", t, "failed")
            c == Stmt("task_settle", t, "failed")
            d == Stmt("exec_set", t, "failed")
<1>1. /\ a.op = "job_retry" /\ a.task = t /\ b.op = "job_finish" /\ b.task = t
      /\ c.op = "task_settle" /\ c.task = t /\ d.op = "exec_set" /\ d.task = t
      /\ b.to = "failed" /\ c.to = "failed"
  BY StmtType, WritesValues DEF Stmt
<1>2. /\ \/ stmts' = <<a>> \/ stmts' = <<b, c>>
         \/ stmts' = <<c>> \/ stmts' = <<d>>
      /\ stmts = <<>> /\ UNCHANGED <<task, output, job, run, boot>>
      /\ UNCHANGED <<consumedFrom, refunded>>
  BY DEF RecoverStaleJob, RecoverOrphanExecution, RecoverOrphanTask,
     Recovering, rowVars, ledgerVars
<1>  HIDE DEF a, b, c, d
<1>3. Before(b, c)  BY <1>1 DEF Before
<1>4. Ordered(stmts') /\ \A s \in Range(stmts') : s \in {a, b, c, d}
  BY <1>2, <1>3, OrderedTuples, TupleRange
<1>5. ~Awaited(t)'
  BY <1>2 DEF NoOneWaits, Awaited
<1>6. Knows(a)' /\ Knows(b)' /\ Knows(c)' /\ Knows(d)'
  BY <1>1, <1>5 DEF Knows
<1>  QED  BY <1>2, <1>4, <1>6, CallbackAgrees DEF Awaited

\* A crash only ends all waiting; no refund is owed for sure after it.
LEMMA CrashAgrees ==
  ASSUME QueueInv, AgreeInv, Crash
  PROVE  AgreeInv'
<1>1. /\ UNCHANGED <<task, output, job, consumedFrom, refunded>>
      /\ stmts' = <<>> /\ boot' = boot + 1 /\ boot \in Nat \ {0}
      /\ run' = [t \in Tasks |-> [n \in AttemptNumber |-> "none"]]
  BY QueueAssumption DEF Crash, rowVars, ledgerVars, QueueInv, QueueTypeOK
<1>2. CancelledJobIsRefunded' /\ CompletedJobDelivered'
  BY <1>1 DEF AgreeInv, CancelledJobIsRefunded, CompletedJobDelivered, Consumed
<1>3. AwaitedTaskLives'
  BY <1>1 DEF AwaitedTaskLives, Awaited
<1>4. RefundOrNext'
  BY <1>1 DEF RefundOrNext
<1>5. Ordered(stmts') /\ Range(stmts') = {}
  BY <1>1, OrderedTuples, TupleRange
<1>  QED  BY <1>2, <1>3, <1>4, <1>5 DEF AgreeInv

LEMMA QuietAgrees ==
  ASSUME AgreeInv,
         \/ NextPass \/ \E on \in BOOLEAN : SetEmergencyStop(on)
  PROVE  AgreeInv'
<1>1. /\ stmts = <<>> /\ stmts' = <<>>
      /\ UNCHANGED <<task, output, job, run, boot, consumedFrom, refunded>>
  BY DEF NextPass, Recovering, SetEmergencyStop, Idle, rowVars, procVars,
     ledgerVars
<1>2. Ordered(stmts') /\ Range(stmts') = {}
  BY <1>1, OrderedTuples, TupleRange
<1>  QED  BY <1>1, <1>2, CallbackAgrees DEF Awaited

LEMMA AgreeInvInit == Init => AgreeInv
<1>  SUFFICES ASSUME Init PROVE AgreeInv  OBVIOUS
<1>1. Range(stmts) = {} /\ Ordered(stmts)
  BY TupleRange, OrderedTuples DEF Init
<1>2. CancelledJobIsRefunded /\ CompletedJobDelivered /\ AwaitedTaskLives
  BY DEF Init, CancelledJobIsRefunded, CompletedJobDelivered,
     AwaitedTaskLives
<1>3. RefundOrNext
  BY DEF Init, RefundOrNext
<1>  QED  BY <1>1, <1>2, <1>3 DEF AgreeInv

\* Every step keeps what settled jobs and pending statements say of a task.
LEMMA AgreeInvStep ==
  ASSUME EngineInv, LedgerTypeOK, AgreeInv, [Next]_vars
  PROVE  AgreeInv'
<1>  USE DEF EngineInv
<1>1. CASE UNCHANGED vars
  <2>1. UNCHANGED <<task, output, job, run, boot, stmts, consumedFrom, refunded>>
    BY <1>1 DEF vars, rowVars, procVars, ledgerVars
  <2>2. CancelledJobIsRefunded' /\ CompletedJobDelivered' /\ RefundOrNext'
    BY <2>1 DEF AgreeInv, CancelledJobIsRefunded, CompletedJobDelivered,
       RefundOrNext, Consumed, Executing
  <2>3. AwaitedTaskLives'
    BY <2>1 DEF AgreeInv, AwaitedTaskLives, Awaited, Delivered, OutputNext,
       Executing, Pending
  <2>4. Ordered(stmts') /\ Range(stmts') = Range(stmts)
    BY <2>1 DEF AgreeInv
  <2>5. ASSUME NEW s \in Range(stmts') PROVE Knows(s)'
    <3>1. Knows(s)  BY <2>4 DEF AgreeInv
    <3>  QED
      BY <2>1, <3>1 DEF Knows, Awaited, Delivered, OutputNext, Executing,
         Pending, Returned, RefundNext, CancelNext, Consumed, To
  <2>  QED  BY <2>2, <2>3, <2>4, <2>5 DEF AgreeInv
<1>2. ASSUME NEW t \in Tasks,
             Submit(t) \/ ClaimNextDueJob(t) \/ CancelJob(t) \/ Statement(t)
      PROVE  AgreeInv'
  BY <1>2, SubmitAgrees, ClaimAgrees, CancelAgrees, StatementAgrees
<1>3. ASSUME NEW t \in Tasks, NEW n \in AttemptNumber,
             RunSettles(t, n) \/ StepTimeout(t, n)
      PROVE  AgreeInv'
  BY <1>3, RunSucceedsAgrees, RunFailsAgrees, StepTimeoutAgrees DEF RunSettles
<1>4. CASE Crash
  BY <1>4, CrashAgrees
<1>5. CASE NextPass \/ \E on \in BOOLEAN : SetEmergencyStop(on)
  BY <1>5, QuietAgrees
<1>6. ASSUME NEW t \in Tasks, \/ RecoverStaleJob(t) \/ RecoverOrphanTask(t)
                              \/ RecoverOrphanExecution(t)
      PROVE  AgreeInv'
  <2>1. NoOneWaits
    BY <1>6 DEF RecoverStaleJob, RecoverOrphanTask, RecoverOrphanExecution,
       Recovering, QuietRecovery
  <2>  QED  BY <1>6, <2>1, RecoverRowAgrees
<1>  QED  BY <1>1, <1>2, <1>3, <1>4, <1>5, <1>6 DEF Next, Recover

LEMMA AgreeInvariant == Spec => []AgreeInv
<1>1. Spec => []LedgerTypeOK
  BY EngineImplementsLedger, LedgerTypeCorrect, PTL
<1>  QED
  BY <1>1, EngineInvariant, AgreeInvInit, AgreeInvStep, PTL DEF Spec

\* What a settled job row says of its task is true, whatever late results,
\* timeouts, cancellations and crashes came in between: a cancelled job's task
\* is cancelled with its credit back, a completed job's task is completed with
\* its output stored (queue.ts, task-reconciler.ts).
THEOREM EngineJobAgreesWithTask == Spec => []JobAgreesWithTask
<1>1. AgreeInv => JobAgreesWithTask
  BY DEF AgreeInv, JobAgreesWithTask
<1>  QED  BY <1>1, AgreeInvariant, PTL

\* As long as the process has not crashed, an idle engine owes no refund for a
\* failed or cancelled task (task-reconciler.ts).
THEOREM EngineRefundsUnsuccessful == Spec => []UnsuccessfulTaskRefunded
<1>1. AgreeInv => UnsuccessfulTaskRefunded
  <2>  SUFFICES ASSUME AgreeInv, Idle, boot = 1, NEW t \in Tasks,
                       task[t] \in {"failed", "cancelled"}, Consumed(t)
                PROVE  t \in refunded
    BY DEF UnsuccessfulTaskRefunded
  <2>1. ~Executing("credit_refund", t)  BY DEF Idle, Executing
  <2>  QED  BY <2>1 DEF AgreeInv, RefundOrNext
<1>  QED  BY <1>1, AgreeInvariant, PTL

\* Nothing moves a task once its job and it are settled: the switch to
\* 'running', which is not guarded, is only ever executed under a running job.
LEMMA SettledStep ==
  ASSUME EngineInv, AgreeInv, [Next]_vars, NEW u \in Tasks,
         job[u] \in TerminalJob, task[u] \in TerminalTask
  PROVE  task'[u] = task[u]
<1>  USE DEF EngineInv
<1>1. job[u] \notin {"none", "running"} /\ task[u] \notin NonTerminalTask
  BY DEF TerminalJob, TerminalTask, NonTerminalTask
<1>2. ASSUME NEW t \in Tasks, CreateTask(t) \/ RunTask(t)
      PROVE  task'[u] = task[u]
  <2>1. PICK op \in {"task_insert", "task_run"} : Executing(op, t)
    BY <1>2 DEF CreateTask, RunTask
  <2>2. /\ Knows(Head(stmts)) /\ Head(stmts).op = op /\ Head(stmts).task = t
    BY <2>1, HeadKnows, HeadFacts, WritesValues
  <2>3. t # u  BY <1>1, <2>1, <2>2 DEF Knows
  <2>  QED  BY <1>2, <2>3 DEF CreateTask, RunTask, QueueInv, QueueTypeOK
<1>3. ASSUME NEW t \in Tasks, CompleteTask(t) \/ SettleTask(t)
      PROVE  task'[u] = task[u]
  BY <1>1, <1>3 DEF CompleteTask, SettleTask, QueueInv, QueueTypeOK
<1>4. ASSUME NEW t \in Tasks, Statement(t),
             ~(CreateTask(t) \/ RunTask(t) \/ CompleteTask(t) \/ SettleTask(t))
      PROVE  task' = task
  BY <1>4 DEF Statement, ReserveTaskCredit, CreateAgentExecution, InsertJob,
     InsertJobAttempt, FinishJobAttempt, SetExecution, MarkExecutionTimedOut,
     UpdateTaskOutput, RefundCredit, FinishJob, ReleaseJob, CancelJobRow,
     AwaitRun, rowVars
<1>5. ASSUME NEW t \in Tasks, Submit(t) \/ ClaimNextDueJob(t) \/ CancelJob(t)
      PROVE  task' = task
  BY <1>5 DEF Submit, ClaimNextDueJob, CancelJob, rowVars
<1>6. ASSUME NEW t \in Tasks, NEW n \in AttemptNumber,
             RunSettles(t, n) \/ StepTimeout(t, n)
      PROVE  task' = task
  BY <1>6 DEF RunSettles, RunSucceeds, RunFails, StepTimeout, rowVars
<1>7. ASSUME NEW on \in BOOLEAN, SetEmergencyStop(on) PROVE task' = task
  BY <1>7 DEF SetEmergencyStop
<1>8. CASE UNCHANGED vars \/ Crash \/ Recover
  BY <1>8 DEF vars, Crash, Recover, NextPass, RecoverStaleJob,
     RecoverOrphanExecution, RecoverOrphanTask, rowVars
<1>  QED  BY <1>2, <1>3, <1>4, <1>5, <1>6, <1>7, <1>8 DEF Next

\* Once a job and its task are both settled no late attempt, timer or
\* recovery moves the task again (executor.ts, task-reconciler.ts).
THEOREM EngineSettledStaysSettled == Spec => SettledStaysSettled
<1>1. EngineInv /\ AgreeInv /\ [Next]_vars =>
        [\A t \in Tasks : job[t] \in TerminalJob /\ task[t] \in TerminalTask
                            => task'[t] = task[t]]_vars
  BY SettledStep
<1>  QED
  BY <1>1, EngineInvariant, AgreeInvariant, PTL DEF Spec, SettledStaysSettled

-----------------------------------------------------------------------------
(* Nothing is left behind.                                                 *)

\* A callback that fails a job goes on to settle its task.
Followed(q) ==
  \A i \in DOMAIN q : q[i].op = "job_finish" /\ q[i].to # "completed" =>
    \E j \in DOMAIN q : /\ i < j /\ q[j].op = "task_settle"
                        /\ q[j].task = q[i].task

\* Who will move a running job on: the handler that waits for its attempt, a
\* statement of the running callback, or the recovery that has yet to look at
\* jobs.
Handled(t) ==
  \/ run[t][attempts[t]] = "awaited" /\ lockedBy[t] = boot
  \/ \E op \in {"await", "job_retry", "job_finish", "job_cancel"} :
       Pending(op, t)
  \/ phase = "jobs" /\ lockedBy[t] # boot

\* Who will settle an open task without an active job: a statement, or the
\* recovery that has yet to look at tasks.
Owned(t) ==
  phase # "serving" \/ Pending("job_insert", t) \/ Pending("task_settle", t)

Promises(s) ==
  /\ s.op = "await" => lockedBy[s.task] = boot
  /\ s.op = "task_insert" => Pending("job_insert", s.task)

LeftInv ==
  /\ \A t \in Tasks :
       /\ job[t] = "running" => Handled(t) /\ attempts[t] \in AttemptNumber
       /\ task[t] \in NonTerminalTask /\ job[t] \notin ActiveJob => Owned(t)
       /\ lockedBy[t] <= boot
  /\ Followed(stmts)
  /\ \A s \in Range(stmts) : Promises(s)

LEMMA FollowedTail ==
  ASSUME NEW q \in Seq(Stmts), q # <<>>, Followed(q)
  PROVE  /\ Followed(Tail(q))
         /\ Head(q).op = "job_finish" /\ Head(q).to # "completed" =>
              \E s \in Range(Tail(q)) : /\ s.op = "task_settle"
                                        /\ s.task = Head(q).task
<1>1. /\ Tail(q) \in Seq(Stmts) /\ Len(Tail(q)) = Len(q) - 1
      /\ \A i \in 1 .. Len(Tail(q)) : Tail(q)[i] = q[i + 1]
  BY HeadTailProperties
<1>2. /\ DOMAIN q = 1 .. Len(q) /\ Len(q) \in Nat \ {0} /\ Head(q) = q[1]
      /\ DOMAIN Tail(q) = 1 .. Len(Tail(q)) /\ Len(Tail(q)) \in Nat
  BY <1>1, LenProperties, EmptySeq
<1>3. ASSUME NEW j \in DOMAIN q, j # 1
      PROVE  j - 1 \in DOMAIN Tail(q) /\ Tail(q)[j - 1] = q[j]
  <2>1. j - 1 \in 1 .. Len(Tail(q)) /\ (j - 1) + 1 = j  BY <1>1, <1>2, <1>3
  <2>2. Tail(q)[j - 1] = q[(j - 1) + 1]  BY <1>1, <2>1
  <2>  QED  BY <1>2, <2>1, <2>2
<1>4. ASSUME NEW i \in DOMAIN Tail(q), Tail(q)[i].op = "job_finish",
             Tail(q)[i].to # "completed"
      PROVE  \E j \in DOMAIN Tail(q) : /\ i < j
                                       /\ Tail(q)[j].op = "task_settle"
                                       /\ Tail(q)[j].task = Tail(q)[i].task
  <2>1. i + 1 \in DOMAIN q /\ Tail(q)[i] = q[i + 1] /\ i \in Nat
    BY <1>1, <1>2
  <2>2. PICK j \in DOMAIN q : /\ i + 1 < j /\ q[j].op = "task_settle"
                              /\ q[j].task = q[i + 1].task
    BY <1>4, <2>1 DEF Followed
  <2>3. j \in Nat /\ j # 1 /\ i < j - 1  BY <1>2, <2>1, <2>2
  <2>  QED  BY <1>3, <2>1, <2>2, <2>3
<1>5. ASSUME Head(q).op = "job_finish", Head(q).to # "completed"
      PROVE  \E s \in Range(Tail(q)) : /\ s.op = "task_settle"
                                       /\ s.task = Head(q).task
  <2>1. 1 \in DOMAIN q  BY <1>2
  <2>2. PICK j \in DOMAIN q : /\ 1 < j /\ q[j].op = "task_settle"
                              /\ q[j].task = q[1].task
    BY <1>2, <1>5, <2>1 DEF Followed
  <2>3. j - 1 \in DOMAIN Tail(q) /\ Tail(q)[j - 1] = q[j]  BY <1>2, <1>3, <2>2
  <2>4. q[j] \in Range(Tail(q))  BY <2>3 DEF Range
  <2>  QED  BY <1>2, <2>2, <2>4
<1>  QED  BY <1>4, <1>5 DEF Followed

LEMMA FollowedConcat ==
  ASSUME NEW p \in Seq(Stmts), NEW q \in Seq(Stmts), Followed(p), Followed(q)
  PROVE  Followed(p \o q)
<1>1. /\ Len(p \o q) = Len(p) + Len(q)
      /\ \A i \in 1 .. Len(p) + Len(q) :
           (p \o q)[i] = IF i <= Len(p) THEN p[i] ELSE q[i - Len(p)]
      /\ p \o q \in Seq(Stmts)
  BY ConcatProperties
<1>2. /\ DOMAIN p = 1 .. Len(p) /\ DOMAIN q = 1 .. Len(q)
      /\ DOMAIN (p \o q) = 1 .. Len(p) + Len(q)
      /\ Len(p) \in Nat /\ Len(q) \in Nat
  BY <1>1, LenProperties
<1>  DEFINE pq == p \o q
<1>3. /\ \A j \in DOMAIN p : j \in DOMAIN pq /\ pq[j] = p[j]
      /\ \A j \in DOMAIN q : /\ j + Len(p) \in DOMAIN pq
                             /\ pq[j + Len(p)] = q[j]
  BY <1>1, <1>2
<1>4. /\ \A i \in DOMAIN pq : \/ i \in DOMAIN p
                              \/ i - Len(p) \in DOMAIN q
  BY <1>2
<1>5. /\ DOMAIN p \subseteq Nat /\ DOMAIN q \subseteq Nat
      /\ DOMAIN pq \subseteq Nat
  BY <1>2
<1>  HIDE DEF pq
<1>6. ASSUME NEW i \in DOMAIN pq, pq[i].op = "job_finish",
             pq[i].to # "completed"
      PROVE  \E j \in DOMAIN pq : /\ i < j /\ pq[j].op = "task_settle"
                                  /\ pq[j].task = pq[i].task
  <2>1. CASE i \in DOMAIN p
    <3>1. PICK j \in DOMAIN p : /\ i < j /\ p[j].op = "task_settle"
                                /\ p[j].task = p[i].task
      BY <1>3, <1>6, <2>1 DEF Followed
    <3>  QED  BY <1>3, <2>1, <3>1
  <2>2. CASE i - Len(p) \in DOMAIN q
    <3>1. (i - Len(p)) + Len(p) = i  BY <1>2, <1>5
    <3>2. pq[i] = q[i - Len(p)]  BY <1>3, <2>2, <3>1
    <3>3. PICK j \in DOMAIN q : /\ i - Len(p) < j /\ q[j].op = "task_settle"
                                /\ q[j].task = q[i - Len(p)].task
      BY <1>6, <2>2, <3>2 DEF Followed
    <3>4. i < j + Len(p)  BY <1>2, <1>5, <3>3
    <3>  QED  BY <1>3, <3>2, <3>3, <3>4
  <2>  QED  BY <1>4, <2>1, <2>2
<1>  QED  BY <1>6 DEF Followed, pq

\* A plan that fails no job is followed by what it needs: nothing.
LEMMA NothingToFollow ==
  ASSUME NEW q, \A s \in Range(q) : s.op # "job_finish" \/ s.to = "completed"
  PROVE  Followed(q)
BY DEF Followed, Range

\* What was promised of the statement that is executed, and of the rest.
LEMMA HeadPromises ==
  ASSUME QueueInv, AgreeInv, LeftInv, NEW op \in DOMAIN Writes,
         NEW t \in Tasks, Executing(op, t)
  PROVE  /\ Promises(Head(stmts)) /\ Followed(Tail(stmts))
         /\ \A s \in Range(Tail(stmts)) :
              /\ s.task \in Tasks /\ Promises(s) /\ Before(Head(stmts), s)
         /\ \A o, u : Pending(o, u) /\ ~(o = op /\ u = t) =>
              \E s \in Range(Tail(stmts)) : s.op = o /\ s.task = u
         /\ op = "job_finish" /\ To # "completed" =>
              \E s \in Range(Tail(stmts)) : s.op = "task_settle" /\ s.task = t
<1>1. /\ stmts # <<>> /\ stmts \in Seq(Stmts)
      /\ Head(stmts).op = op /\ Head(stmts).task = t
      /\ Head(stmts) \in Range(stmts) /\ Head(stmts).to = To
  BY HeadFacts DEF To
<1>2. /\ \A s \in Range(Tail(stmts)) :
           s \in Range(stmts) /\ s.task \in Tasks /\ Before(Head(stmts), s)
      /\ \A o, u : Pending(o, u) /\ ~(o = op /\ u = t) =>
           \E s \in Range(Tail(stmts)) : s.op = o /\ s.task = u
  BY HeadKnows
<1>3. /\ Followed(Tail(stmts))
      /\ op = "job_finish" /\ To # "completed" =>
           \E s \in Range(Tail(stmts)) : s.op = "task_settle" /\ s.task = t
  BY <1>1, FollowedTail DEF LeftInv
<1>4. /\ Promises(Head(stmts))
      /\ \A s \in Range(Tail(stmts)) : Promises(s)
  BY <1>1, <1>2 DEF LeftInv
<1>  QED  BY <1>2, <1>3, <1>4

\* A statement that changes no job row, no lock and no waiting.
LEMMA FrameLeft ==
  ASSUME QueueInv, AgreeInv, LeftInv, NEW op \in DOMAIN Writes,
         NEW t \in Tasks, Executing(op, t),
         op \notin {"job_insert", "await"},
         op \in JobOps => job[t] # "running",
         UNCHANGED <<job, attempts, lockedBy, run, boot, phase>>,
         Range(Tail(stmts)) \subseteq Range(stmts'),
         \A s \in Range(stmts') : \/ s \in Range(Tail(stmts))
                                  \/ s.op \in {"task_output", "credit_refund"},
         Followed(stmts'),
         \A u \in Tasks : task'[u] \in NonTerminalTask =>
           \/ task[u] \in NonTerminalTask \/ job[u] \in ActiveJob
           \/ Pending("job_insert", u),
         op = "task_settle" => task'[t] \notin NonTerminalTask
  PROVE  LeftInv'
<1>1. \A o, u : Pending(o, u) /\ ~(o = op /\ u = t) => Pending(o, u)'
  BY HeadPromises DEF Pending
<1>2. ASSUME NEW u \in Tasks, job'[u] = "running"
      PROVE  Handled(u)' /\ attempts'[u] \in AttemptNumber
  BY <1>1, <1>2 DEF LeftInv, Handled, JobOps
<1>3. ASSUME NEW u \in Tasks, task'[u] \in NonTerminalTask,
             job'[u] \notin ActiveJob
      PROVE  Owned(u)'
  BY <1>1, <1>3 DEF LeftInv, Owned
<1>4. ASSUME NEW s \in Range(stmts') PROVE Promises(s)'
  <2>1. CASE s \in Range(Tail(stmts))
    BY <1>1, <2>1, HeadPromises DEF Promises
  <2>2. CASE s \notin Range(Tail(stmts))
    BY <2>2 DEF Promises
  <2>  QED  BY <2>1, <2>2
<1>  QED  BY <1>2, <1>3, <1>4 DEF LeftInv

\* The statements that change no job row and no waiting.
LEMMA PlainStatementsLeft ==
  ASSUME QueueInv, AgreeInv, LeftInv, NEW t \in Tasks,
         \/ CreateTask(t) \/ ReserveTaskCredit(t) \/ CreateAgentExecution(t)
         \/ InsertJobAttempt(t) \/ FinishJobAttempt(t) \/ SetExecution(t)
         \/ MarkExecutionTimedOut(t) \/ RunTask(t) \/ UpdateTaskOutput(t)
         \/ RefundCredit(t)
  PROVE  LeftInv'
<1>1. PICK op \in {"task_insert", "credit_consume", "exec_insert",
                   "attempt_insert", "attempt_finish", "exec_set",
                   "exec_timeout", "task_run", "task_output",
                   "credit_refund"} :
        /\ Executing(op, t) /\ stmts' = Tail(stmts)
        /\ UNCHANGED <<job, attempts, lockedBy, run, boot, phase>>
        /\ \/ task' = task
           \/ /\ op \in {"task_insert", "task_run"}
              /\ task' = [task EXCEPT ![t] = To]
  BY DEF Done, CreateTask, ReserveTaskCredit, CreateAgentExecution,
     InsertJobAttempt, FinishJobAttempt, SetExecution, MarkExecutionTimedOut,
     RunTask, UpdateTaskOutput, RefundCredit, rowVars
<1>2. op \in DOMAIN Writes /\ op \notin JobOps
  BY WritesValues DEF JobOps
<1>3. /\ Head(stmts).op = op /\ Head(stmts).task = t
      /\ Knows(Head(stmts)) /\ Promises(Head(stmts)) /\ Followed(stmts')
  BY <1>1, <1>2, HeadFacts, HeadKnows, HeadPromises
<1>4. op \in {"task_insert", "task_run"} =>
        job[t] = "running" \/ Pending("job_insert", t)
  BY <1>3 DEF Knows, Promises
<1>5. ASSUME NEW u \in Tasks, task'[u] \in NonTerminalTask
      PROVE  \/ task[u] \in NonTerminalTask \/ job[u] \in ActiveJob
             \/ Pending("job_insert", u)
  BY <1>1, <1>4, <1>5 DEF QueueInv, QueueTypeOK, ActiveJob
<1>  QED  BY <1>1, <1>2, <1>3, <1>5, FrameLeft

LEMMA GuardedTaskStatementsLeft ==
  ASSUME QueueInv, AgreeInv, LeftInv, NEW t \in Tasks,
         CompleteTask(t) \/ SettleTask(t)
  PROVE  LeftInv'
<1>1. PICK op \in {"task_complete", "task_settle"}, 
           new \in {"task_output", "credit_refund"} :
        /\ Executing(op, t)
        /\ UNCHANGED <<job, attempts, lockedBy, run, boot, phase>>
        /\ \/ task' = task /\ stmts' = Tail(stmts)
              /\ task[t] \notin NonTerminalTask
           \/ /\ task' = [task EXCEPT ![t] = To]
              /\ stmts' = << Stmt(new, t, "none") >> \o Tail(stmts)
  BY DEF CompleteTask, SettleTask
<1>2. /\ op \in DOMAIN Writes /\ op \notin JobOps
      /\ new \in DOMAIN Writes /\ "none" \in Writes[new]
  BY WritesValues DEF JobOps
<1>3. To \notin NonTerminalTask
  BY <1>1, <1>2, HeadFacts, WritesValues DEF NonTerminalTask
<1>4. task'[t] \notin NonTerminalTask
      /\ \A u \in Tasks : u # t => task'[u] = task[u]
  BY <1>1, <1>3 DEF QueueInv, QueueTypeOK
<1>  DEFINE x == Stmt(new, t, "none")
            p == <<x>>
            r == Tail(stmts)
<1>5. x \in Stmts /\ x.op = new
  BY <1>2, StmtType
<1>6. r \in Seq(Stmts) /\ Followed(r)
  BY <1>1, <1>2, HeadFacts, HeadPromises
<1>7. stmts' = r \/ stmts' = p \o r  BY <1>1
<1>  HIDE DEF x
<1>8. p \in Seq(Stmts) /\ Range(p) = {x}
  BY <1>5, TupleRange
<1>  HIDE DEF p, r
<1>9. Followed(p)
  BY <1>5, <1>8, NothingToFollow
<1>10. Followed(p \o r) /\ Range(p \o r) = {x} \cup Range(r)
  BY <1>6, <1>8, <1>9, FollowedConcat, ConcatRange
<1>11. /\ Followed(stmts')
       /\ Range(r) \subseteq Range(stmts')
       /\ \A s \in Range(stmts') : s \in Range(r) \/ s.op = new
  BY <1>5, <1>6, <1>7, <1>10
<1>  QED  BY <1>1, <1>2, <1>4, <1>11, FrameLeft DEF r

LEMMA JobStatementsLeft ==
  ASSUME QueueInv, AgreeInv, AgreeInv', LeftInv, NEW t \in Tasks,
         InsertJob(t) \/ FinishJob(t) \/ ReleaseJob(t) \/ CancelJobRow(t)
  PROVE  LeftInv'
<1>1. PICK op \in JobOps :
        /\ Executing(op, t) /\ stmts' = Tail(stmts)
        /\ UNCHANGED <<task, attempts, run, boot, phase>>
        /\ \/ /\ job' = job /\ lockedBy' = lockedBy
              /\ job[t] # "running" /\ op # "job_insert"
           \/ /\ job' = [job EXCEPT ![t] = To]
              /\ lockedBy' \in {lockedBy, [lockedBy EXCEPT ![t] = 0]}
              /\ op = "job_retry" \/ lockedBy' = lockedBy
  BY DEF Done, InsertJob, FinishJob, ReleaseJob, CancelJobRow, JobOps,
     ActiveJob
<1>2. /\ op \in DOMAIN Writes /\ To \in Writes[op]
      /\ Head(stmts).op = op /\ Head(stmts).task = t
      /\ Range(stmts') \subseteq Range(stmts) /\ Followed(stmts')
      /\ \A s \in Range(stmts') :
           s.task \in Tasks /\ Promises(s) /\ Before(Head(stmts), s)
      /\ op = "job_finish" /\ To # "completed" => Pending("task_settle", t)'
      /\ \A o, u : Pending(o, u) /\ ~(o = op /\ u = t) => Pending(o, u)'
  <2>1. op \in DOMAIN Writes  BY WritesValues DEF JobOps
  <2>2. op = "job_finish" /\ To # "completed" => Pending("task_settle", t)'
    BY <1>1, <2>1, HeadPromises DEF Pending
  <2>3. \A o, u : Pending(o, u) /\ ~(o = op /\ u = t) =>
          \E s \in Range(stmts') : s.op = o /\ s.task = u
    BY <1>1, <2>1, HeadPromises
  <2>4. \A o, u : Pending(o, u) /\ ~(o = op /\ u = t) => Pending(o, u)'
    BY <2>3 DEF Pending
  <2>5. /\ Followed(stmts')
        /\ \A s \in Range(stmts') :
             s.task \in Tasks /\ Promises(s) /\ Before(Head(stmts), s)
    BY <1>1, <2>1, HeadPromises
  <2>6. /\ To \in Writes[op] /\ Head(stmts).op = op /\ Head(stmts).task = t
        /\ Range(stmts') \subseteq Range(stmts)
    BY <1>1, <2>1, HeadFacts
  <2>  QED  BY <2>1, <2>2, <2>4, <2>5, <2>6
<1>3. CASE job' = job /\ lockedBy' = lockedBy /\ job[t] # "running"
           /\ op # "job_insert"
  BY <1>1, <1>2, <1>3, FrameLeft DEF JobOps
<1>4. CASE /\ job' = [job EXCEPT ![t] = To]
           /\ lockedBy' \in {lockedBy, [lockedBy EXCEPT ![t] = 0]}
           /\ op = "job_retry" \/ lockedBy' = lockedBy
  <2>1. /\ job'[t] = To
        /\ \A u \in Tasks : u # t => /\ job'[u] = job[u]
                                     /\ lockedBy'[u] = lockedBy[u]
        /\ lockedBy'[t] \in {0, lockedBy[t]}
    BY <1>4 DEF QueueInv, QueueTypeOK
  <2>2. To # "running"
    BY <1>2, WritesValues DEF JobOps
  <2>3. ASSUME NEW u \in Tasks, job'[u] = "running"
        PROVE  Handled(u)' /\ attempts'[u] \in AttemptNumber
    <3>1. u # t  BY <2>1, <2>2, <2>3
    <3>2. Handled(u) /\ attempts[u] \in AttemptNumber
      BY <2>1, <2>3, <3>1 DEF LeftInv
    <3>  QED  BY <1>1, <1>2, <2>1, <3>1, <3>2 DEF Handled
  <2>4. ASSUME NEW u \in Tasks, task'[u] \in NonTerminalTask,
               job'[u] \notin ActiveJob
        PROVE  Owned(u)'
    <3>1. CASE u # t
      BY <1>1, <1>2, <2>1, <2>4, <3>1 DEF LeftInv, Owned
    <3>2. CASE u = t
      <4>1. To \notin {"queued", "retrying", "cancelled", "completed"}
        BY <2>1, <2>4, <3>2
        DEF AgreeInv, CancelledJobIsRefunded, CompletedJobDelivered,
            NonTerminalTask, ActiveJob, ClaimableJob
      <4>2. op = "job_finish"
        BY <1>2, <4>1, WritesValues DEF JobOps
      <4>  QED  BY <1>2, <3>2, <4>1, <4>2 DEF Owned
    <3>  QED  BY <3>1, <3>2
  <2>5. ASSUME NEW u \in Tasks PROVE lockedBy'[u] <= boot'
    <3>1. lockedBy[u] <= boot /\ boot \in Nat /\ boot' = boot
      BY <1>1, QueueAssumption DEF LeftInv, QueueInv, QueueTypeOK
    <3>2. lockedBy'[u] = lockedBy[u] \/ lockedBy'[u] = 0
      BY <2>1
    <3>  QED  BY <3>1, <3>2
  <2>6. ASSUME NEW s \in Range(stmts') PROVE Promises(s)'
    BY <1>1, <1>2, <2>1, <2>6 DEF Promises, Before, JobOps
  <2>  QED  BY <1>2, <2>3, <2>4, <2>5, <2>6 DEF LeftInv
<1>  QED  BY <1>1, <1>3, <1>4

LEMMA AwaitRunLeft ==
  ASSUME QueueInv, AgreeInv, LeftInv, NEW t \in Tasks, AwaitRun(t)
  PROVE  LeftInv'
<1>0. /\ Executing("await", t) /\ "await" \in DOMAIN Writes
      /\ stmts' = Tail(stmts)
      /\ UNCHANGED <<task, job, attempts, lockedBy, boot, phase>>
      /\ run' = [run EXCEPT ![t][attempts[t]] = To]
  BY WritesValues DEF AwaitRun, Done, rowVars
<1>1. /\ Head(stmts).op = "await" /\ Head(stmts).task = t /\ To = "awaited"
      /\ Promises(Head(stmts)) /\ Followed(stmts')
      /\ \A s \in Range(stmts') : Before(Head(stmts), s)
      /\ \A o, u : Pending(o, u) /\ ~(o = "await" /\ u = t) =>
           \E s \in Range(stmts') : s.op = o /\ s.task = u
  BY <1>0, HeadFacts, HeadPromises, WritesValues
<1>2. \A s : s \notin Range(stmts')
  BY <1>1 DEF Before
<1>3. \A o, u : Pending(o, u) => o = "await" /\ u = t
  BY <1>1, <1>2
<1>4. lockedBy[t] = boot
  BY <1>1 DEF Promises
<1>5. ASSUME NEW u \in Tasks, job'[u] = "running"
      PROVE  Handled(u)' /\ attempts'[u] \in AttemptNumber
  <2>1. attempts[u] \in AttemptNumber /\ Handled(u)
    BY <1>0, <1>5 DEF LeftInv
  <2>2. CASE u = t
    BY <1>0, <1>1, <1>4, <2>1, <2>2 DEF Handled, QueueInv, QueueTypeOK
  <2>3. CASE u # t
    BY <1>0, <1>3, <2>1, <2>3 DEF Handled, QueueInv, QueueTypeOK
  <2>  QED  BY <2>2, <2>3
<1>6. ASSUME NEW u \in Tasks, task'[u] \in NonTerminalTask,
             job'[u] \notin ActiveJob
      PROVE  Owned(u)'
  BY <1>0, <1>3, <1>6 DEF LeftInv, Owned
<1>  QED  BY <1>0, <1>1, <1>2, <1>5, <1>6 DEF LeftInv

LEMMA StatementLeft ==
  ASSUME QueueInv, AgreeInv, AgreeInv', LeftInv, NEW t \in Tasks, Statement(t)
  PROVE  LeftInv'
BY PlainStatementsLeft, GuardedTaskStatementsLeft, JobStatementsLeft,
   AwaitRunLeft DEF Statement

-----------------------------------------------------------------------------
\* A callback that changes no row and moves on what it waited for.
LEMMA CallbackLeft ==
  ASSUME LeftInv, stmts = <<>>,
         UNCHANGED <<task, job, attempts, lockedBy, boot, phase>>,
         \A u \in Tasks : job[u] = "running" /\ run[u][attempts[u]] = "awaited" =>
           \/ run'[u][attempts[u]] = "awaited"
           \/ Pending("job_retry", u)' \/ Pending("job_finish", u)',
         Followed(stmts'), \A s \in Range(stmts') : Promises(s)'
  PROVE  LeftInv'
<1>1. \A o, u : ~Pending(o, u)
  BY TupleRange DEF Pending
<1>2. ASSUME NEW u \in Tasks, job'[u] = "running"
      PROVE  Handled(u)' /\ attempts'[u] \in AttemptNumber
  <2>1. Handled(u) /\ attempts[u] \in AttemptNumber  BY <1>2 DEF LeftInv
  <2>  QED  BY <1>1, <1>2, <2>1 DEF Handled
<1>3. ASSUME NEW u \in Tasks, task'[u] \in NonTerminalTask,
             job'[u] \notin ActiveJob
      PROVE  Owned(u)'
  BY <1>1, <1>3 DEF LeftInv, Owned
<1>  QED  BY <1>2, <1>3 DEF LeftInv

LEMMA SubmitLeft ==
  ASSUME QueueInv, LeftInv, NEW t \in Tasks, Submit(t)
  PROVE  LeftInv'
<1>  DEFINE a == Stmt("task_insert", t, "created")
            b == Stmt("credit_consume", t, "none")
            c == Stmt("exec_insert", t, "queued")
            d == Stmt("job_insert", t, "queued")
            p == <<a>>
            q == IF t \in UnlimitedTasks THEN <<>> ELSE <<b>>
            r == <<c, d>>
            pq == p \o q
<1>1. /\ a \in Stmts /\ a.op = "task_insert" /\ a.task = t
      /\ b \in Stmts /\ b.op = "credit_consume"
      /\ c \in Stmts /\ c.op = "exec_insert"
      /\ d \in Stmts /\ d.op = "job_insert" /\ d.task = t
  BY StmtType, WritesValues
<1>2. /\ stmts = <<>> /\ stmts' = pq \o r
      /\ UNCHANGED <<task, job, attempts, lockedBy, run, boot, phase>>
  BY DEF Submit, Idle, rowVars
<1>  HIDE DEF a, b, c, d
<1>3. p \in Seq(Stmts) /\ Range(p) = {a}
  BY <1>1, TupleRange
<1>4. q \in Seq(Stmts) /\ Range(q) \subseteq {b}
  <2>1. <<b>> \in Seq(Stmts) /\ Range(<<b>>) = {b}
    BY <1>1, TupleRange
  <2>2. <<>> \in Seq(Stmts) /\ Range(<<>>) = {}
    BY TupleRange
  <2>3. q = <<>> \/ q = <<b>>  OBVIOUS
  <2>  QED  BY <2>1, <2>2, <2>3
<1>5. r \in Seq(Stmts) /\ Range(r) = {c, d}
  BY <1>1, TupleRange
<1>  HIDE DEF p, q, r
<1>6. pq \in Seq(Stmts) /\ Range(pq) \subseteq {a, b}
  BY <1>3, <1>4, ConcatRange
<1>  HIDE DEF pq
<1>7. Range(pq \o r) = Range(pq) \cup {c, d}
  BY <1>5, <1>6, ConcatRange
<1>8. Range(stmts') \subseteq {a, b, c, d} /\ d \in Range(stmts')
  BY <1>2, <1>6, <1>7
<1>9. Pending("job_insert", t)'
  BY <1>1, <1>8 DEF Pending
<1>10. \A s \in Range(stmts') : s.op # "job_finish" /\ Promises(s)'
  BY <1>1, <1>8, <1>9 DEF Promises
<1>11. Followed(stmts')
  BY <1>10, NothingToFollow
<1>  QED  BY <1>2, <1>10, <1>11, CallbackLeft

\* A failure plan puts the job back, or finishes it and settles the task.
LEMMA FailurePlanMoves ==
  ASSUME NEW t \in Tasks, NEW n, NEW error,
         NEW finally \in {"failed", "timed_out"}
  PROVE  /\ Followed(FailurePlan(t, n, error, finally))
         /\ \E s \in Range(FailurePlan(t, n, error, finally)) :
              s.op \in {"job_retry", "job_finish"} /\ s.task = t
<1>  DEFINE a == Stmt("job_retry", t, "retrying")
            b == Stmt("attempt_finish", t, finally)
            c == Stmt("job_finish", t, finally)
            d == Stmt("task_settle", t, "failed")
<1>1. /\ a.op = "job_retry" /\ a.task = t /\ b.op = "attempt_finish"
      /\ c.op = "job_finish" /\ c.task = t
      /\ d.op = "task_settle" /\ d.task = t
  BY StmtType, WritesValues
<1>2. FailurePlan(t, n, error, finally) =
        IF Retryable(error) /\ n < MaxAttempts THEN <<a, b>> ELSE <<c, b, d>>
  BY DEF FailurePlan
<1>  HIDE DEF a, b, c, d
<1>3. /\ Range(<<a, b>>) = {a, b} /\ Range(<<c, b, d>>) = {c, b, d}
  BY TupleRange
<1>4. Followed(<<a, b>>)
  BY <1>1, <1>3, NothingToFollow
<1>5. Followed(<<c, b, d>>)
  BY <1>1 DEF Followed
<1>  QED  BY <1>1, <1>2, <1>3, <1>4, <1>5

LEMMA HandleJobFailureMoves ==
  ASSUME NEW t \in Tasks, NEW n, NEW error,
         NEW finally \in {"failed", "timed_out"}
  PROVE  /\ Followed(HandleJobFailure(t, n, error, finally))
         /\ job[t] # "cancelled" =>
              \E s \in Range(HandleJobFailure(t, n, error, finally)) :
                s.op \in {"job_retry", "job_finish"} /\ s.task = t
<1>1. CASE job[t] = "cancelled"
  <2>  DEFINE a == Stmt("attempt_finish", t, "cancelled")
  <2>1. a.op = "attempt_finish"
    BY StmtType, WritesValues
  <2>2. HandleJobFailure(t, n, error, finally) = <<a>>
    BY <1>1 DEF HandleJobFailure
  <2>  HIDE DEF a
  <2>3. Range(<<a>>) = {a}
    BY TupleRange
  <2>  QED  BY <1>1, <2>1, <2>2, <2>3, NothingToFollow
<1>2. CASE job[t] # "cancelled"
  BY <1>2, FailurePlanMoves DEF HandleJobFailure
<1>  QED  BY <1>1, <1>2

LEMMA FailureLeft ==
  ASSUME QueueInv, LeftInv, stmts = <<>>,
         NEW t \in Tasks, NEW n \in AttemptNumber,
         NEW a \in Stmts, a.op \in {"exec_set", "exec_timeout"},
         NEW z \in Seq(Stmts), stmts' = <<a>> \o z, Followed(z),
         \A s \in Range(z) : s.op \in FailureOps,
         run[t][n] = "awaited" /\ job[t] = "running" =>
           \E s \in Range(z) :
             s.op \in {"job_retry", "job_finish"} /\ s.task = t,
         NEW r, run' = [run EXCEPT ![t][n] = r],
         UNCHANGED <<rowVars, boot, phase>>
  PROVE  LeftInv'
<1>  DEFINE p == <<a>>
<1>1. p \in Seq(Stmts) /\ Range(p) = {a}  BY TupleRange
<1>2. stmts' = p \o z  OBVIOUS
<1>  HIDE DEF p
<1>3. Followed(p)  BY <1>1, NothingToFollow
<1>4. Followed(p \o z) /\ Range(p \o z) = {a} \cup Range(z)
  BY <1>1, <1>3, FollowedConcat, ConcatRange
<1>5. Followed(stmts') /\ Range(stmts') = {a} \cup Range(z)
  BY <1>2, <1>4
<1>6. \A s \in Range(stmts') : Promises(s)'
  BY <1>5 DEF Promises, FailureOps
<1>7. ASSUME NEW u \in Tasks, job[u] = "running",
             run[u][attempts[u]] = "awaited"
      PROVE  \/ run'[u][attempts[u]] = "awaited"
             \/ Pending("job_retry", u)' \/ Pending("job_finish", u)'
  <2>1. CASE u = t /\ attempts[u] = n
    BY <1>5, <1>7, <2>1 DEF Pending
  <2>2. CASE ~(u = t /\ attempts[u] = n)
    BY <1>7, <2>2 DEF QueueInv, QueueTypeOK
  <2>  QED  BY <2>1, <2>2
<1>8. UNCHANGED <<task, job, attempts, lockedBy, boot, phase>>
  BY DEF rowVars
<1>  QED  BY <1>5, <1>6, <1>7, <1>8, CallbackLeft

LEMMA RunFailsLeft ==
  ASSUME QueueInv, LeftInv, NEW t \in Tasks, NEW n \in AttemptNumber,
         NEW error \in RunErrors, RunFails(t, n, error)
  PROVE  LeftInv'
<1>  DEFINE a == Stmt("exec_set", t, "failed")
            z == IF run[t][n] = "awaited"
                 THEN HandleJobFailure(t, n, error, "failed") ELSE <<>>
<1>1. a \in Stmts /\ a.op = "exec_set"
  BY StmtType, WritesValues
<1>2. /\ stmts = <<>> /\ stmts' = <<a>> \o z
      /\ run' = [run EXCEPT ![t][n] = "none"]
      /\ UNCHANGED <<rowVars, boot, phase>>
  BY DEF RunFails, Idle
<1>3. /\ z \in Seq(Stmts) /\ Followed(z)
      /\ \A s \in Range(z) : s.op \in FailureOps
      /\ run[t][n] = "awaited" /\ job[t] = "running" =>
           \E s \in Range(z) :
             s.op \in {"job_retry", "job_finish"} /\ s.task = t
  <2>1. CASE run[t][n] = "awaited"
    BY <2>1, HandleJobFailureType, HandleJobFailureMoves
  <2>2. CASE run[t][n] # "awaited"
    <3>1. z = <<>>  BY <2>2
    <3>2. <<>> \in Seq(Stmts) /\ Range(<<>>) = {}
      BY TupleRange
    <3>3. Followed(<<>>)  BY <3>2, NothingToFollow
    <3>  QED  BY <2>2, <3>1, <3>2, <3>3
  <2>  QED  BY <2>1, <2>2
<1>  HIDE DEF a, z
<1>  QED  BY <1>1, <1>2, <1>3, FailureLeft

LEMMA StepTimeoutLeft ==
  ASSUME QueueInv, LeftInv, NEW t \in Tasks, NEW n \in AttemptNumber,
         StepTimeout(t, n)
  PROVE  LeftInv'
<1>  DEFINE error == [code |-> "timed_out", retryable |-> "yes"]
            a == Stmt("exec_timeout", t, "failed")
            z == HandleJobFailure(t, n, error, "timed_out")
<1>1. a \in Stmts /\ a.op = "exec_timeout"
  BY StmtType, WritesValues
<1>2. /\ stmts = <<>> /\ stmts' = <<a>> \o z
      /\ run' = [run EXCEPT ![t][n] = "late"]
      /\ UNCHANGED <<rowVars, boot, phase>>
  BY DEF StepTimeout, Idle
<1>  HIDE DEF error
<1>3. /\ z \in Seq(Stmts) /\ Followed(z)
      /\ \A s \in Range(z) : s.op \in FailureOps
      /\ job[t] = "running" =>
           \E s \in Range(z) :
             s.op \in {"job_retry", "job_finish"} /\ s.task = t
  BY HandleJobFailureType, HandleJobFailureMoves
<1>  HIDE DEF a, z
<1>  QED  BY <1>1, <1>2, <1>3, FailureLeft

LEMMA CancelLeft ==
  ASSUME QueueInv, LeftInv, NEW t \in Tasks, CancelJob(t)
  PROVE  LeftInv'
<1>  DEFINE a == Stmt("task_settle", t, "cancelled")
            b == Stmt("job_cancel", t, "cancelled")
<1>1. a.op = "task_settle" /\ b.op = "job_cancel"
  BY StmtType, WritesValues
<1>2. /\ stmts = <<>> /\ stmts' = <<a, b>>
      /\ UNCHANGED <<task, job, attempts, lockedBy, run, boot, phase>>
  BY DEF CancelJob, Idle, rowVars
<1>  HIDE DEF a, b
<1>3. Range(stmts') = {a, b}  BY <1>2, TupleRange
<1>4. \A s \in Range(stmts') : s.op # "job_finish" /\ Promises(s)'
  BY <1>1, <1>3 DEF Promises
<1>5. Followed(stmts')  BY <1>4, NothingToFollow
<1>  QED  BY <1>2, <1>4, <1>5, CallbackLeft

\* A claimed job is moved on by the await of its attempt, or by the failure
\* plan of an attempt that could not start.
LEMMA ClaimLeft ==
  ASSUME QueueInv, LeftInv, NEW t \in Tasks, ClaimNextDueJob(t)
  PROVE  LeftInv'
<1>  DEFINE n == attempts'[t]
            a == Stmt("attempt_insert", t, "started")
            e == FailurePlan(t, n, HandlerError, "failed")
            b == Stmt("exec_set", t, "running")
            c == Stmt("task_run", t, "running")
            d == Stmt("await", t, "awaited")
            f == Stmt("exec_set", t, "failed")
            g == Stmt("task_settle", t, "failed")
<1>1. /\ job[t] \in ClaimableJob /\ stmts = <<>> /\ phase = "serving"
      /\ job' = [job EXCEPT ![t] = "running"]
      /\ lockedBy' = [lockedBy EXCEPT ![t] = boot]
      /\ attempts' = [attempts EXCEPT ![t] = @ + 1]
      /\ UNCHANGED <<task, run, boot, phase>>
  BY DEF ClaimNextDueJob, Idle
<1>2. PICK plan \in {e, StartRun(t), AgentMissing(t, n)} :
        stmts' = <<a>> \o plan
  <2>1. \E plan \in
          IF emergencyStop
          THEN { FailurePlan(t, attempts'[t], HandlerError, "failed") }
          ELSE {StartRun(t)} \cup
               (IF t \in ResearchTasks THEN {}
                ELSE {AgentMissing(t, attempts'[t])}) :
          stmts' = <<a>> \o plan
    BY DEF ClaimNextDueJob
  <2>  HIDE DEF a
  <2>  QED  BY <2>1
<1>3. /\ a \in Stmts /\ a.op = "attempt_insert"
      /\ b \in Stmts /\ b.op = "exec_set"
      /\ c \in Stmts /\ c.op = "task_run"
      /\ d \in Stmts /\ d.op = "await" /\ d.task = t
      /\ f \in Stmts /\ f.op = "exec_set"
      /\ g \in Stmts /\ g.op = "task_settle"
  BY StmtType, WritesValues DEF Stmt
<1>4. /\ e \in Seq(Stmts) /\ Followed(e)
      /\ \A s \in Range(e) : s.op \in FailureOps
      /\ \E s \in Range(e) :
           s.op \in {"job_retry", "job_finish"} /\ s.task = t
  BY FailurePlanType, FailurePlanMoves
<1>5. StartRun(t) = <<b, c, d>> /\ AgentMissing(t, n) = <<b, c, f, g>> \o e
  BY DEF StartRun, AgentMissing
<1>  HIDE DEF a, b, c, d, e, f, g, n
<1>6. ASSUME NEW q \in Seq(Stmts), stmts' = <<a>> \o q, Followed(q),
             \A s \in Range(q) : s.op # "task_insert" /\ (s = d \/ s.op # "await"),
             NEW x \in Range(q), x.task = t,
             x.op \in {"await", "job_retry", "job_finish"}
      PROVE  LeftInv'
  <2>  DEFINE p == <<a>>
  <2>1. p \in Seq(Stmts) /\ Range(p) = {a}  BY <1>3, TupleRange
  <2>2. stmts' = p \o q  BY <1>6
  <2>  HIDE DEF p
  <2>3. Followed(p)  BY <1>3, <2>1, NothingToFollow
  <2>4. Followed(stmts') /\ Range(stmts') = {a} \cup Range(q)
    <3>1. Followed(p \o q)  BY <1>6, <2>1, <2>3, FollowedConcat
    <3>2. Range(p \o q) = {a} \cup Range(q)  BY <1>6, <2>1, ConcatRange
    <3>  QED  BY <2>2, <3>1, <3>2
  <2>5. /\ job'[t] = "running" /\ lockedBy'[t] = boot
        /\ attempts'[t] = attempts[t] + 1
        /\ \A u \in Tasks : u # t => /\ job'[u] = job[u]
                                     /\ lockedBy'[u] = lockedBy[u]
                                     /\ attempts'[u] = attempts[u]
    BY <1>1 DEF QueueInv, QueueTypeOK
  <2>6. attempts'[t] \in AttemptNumber
    <3>1. attempts[t] < MaxAttempts /\ attempts[t] \in 0 .. MaxAttempts
      BY <1>1 DEF QueueInv, QueueTypeOK, ClaimableHasBudget
    <3>  QED  BY <2>5, <3>1, QueueAssumption DEF AttemptNumber
  <2>7. \A o, u : ~Pending(o, u)
    BY <1>1, TupleRange DEF Pending
  <2>8. ASSUME NEW u \in Tasks, job'[u] = "running"
        PROVE  Handled(u)' /\ attempts'[u] \in AttemptNumber
    <3>1. CASE u = t
      BY <1>6, <2>4, <2>6, <3>1 DEF Handled, Pending
    <3>2. CASE u # t
      <4>1. Handled(u) /\ attempts[u] \in AttemptNumber
        BY <2>5, <2>8, <3>2 DEF LeftInv
      <4>2. run[u][attempts[u]] = "awaited" /\ lockedBy[u] = boot
        BY <1>1, <2>7, <4>1 DEF Handled
      <4>  QED  BY <1>1, <2>5, <3>2, <4>1, <4>2 DEF Handled
    <3>  QED  BY <3>1, <3>2
  <2>9. ASSUME NEW u \in Tasks, task'[u] \in NonTerminalTask,
               job'[u] \notin ActiveJob
        PROVE  Owned(u)'
    <3>1. u # t  BY <2>5, <2>9 DEF ActiveJob
    <3>2. Owned(u)  BY <1>1, <2>5, <2>9, <3>1 DEF LeftInv
    <3>  QED  BY <1>1, <2>7, <3>2 DEF Owned
  <2>10. ASSUME NEW u \in Tasks PROVE lockedBy'[u] <= boot'
    <3>1. lockedBy[u] <= boot /\ boot \in Nat
      BY QueueAssumption DEF LeftInv, QueueInv, QueueTypeOK
    <3>  QED  BY <1>1, <2>5, <3>1
  <2>11. ASSUME NEW s \in Range(stmts') PROVE Promises(s)'
    BY <1>1, <1>3, <1>6, <2>4, <2>5, <2>11 DEF Promises
  <2>  QED  BY <2>4, <2>8, <2>9, <2>10, <2>11 DEF LeftInv
<1>7. CASE plan = e
  <2>1. \A s \in Range(e) : s.op # "task_insert" /\ s.op # "await"
    BY <1>4 DEF FailureOps
  <2>2. stmts' = <<a>> \o e  BY <1>2, <1>7
  <2>3. PICK x \in Range(e) :
          x.op \in {"job_retry", "job_finish"} /\ x.task = t
    BY <1>4
  <2>  QED  BY <1>4, <1>6, <2>1, <2>2, <2>3
<1>8. CASE plan = StartRun(t)
  <2>  DEFINE q == <<b, c, d>>
  <2>1. q \in Seq(Stmts) /\ Range(q) = {b, c, d}
    BY <1>3, TupleRange
  <2>2. stmts' = <<a>> \o q  BY <1>2, <1>5, <1>8
  <2>  HIDE DEF q
  <2>3. Followed(q)  BY <1>3, <2>1, NothingToFollow
  <2>  QED  BY <1>3, <1>6, <2>1, <2>2, <2>3
<1>9. CASE plan = AgentMissing(t, n)
  <2>  DEFINE p == <<b, c>>
              q == <<f, g>>
              w == <<b, c, f, g>>
              z == w \o e
  <2>1. /\ p \in Seq(Stmts) /\ Range(p) = {b, c}
        /\ q \in Seq(Stmts) /\ Range(q) = {f, g} /\ w = p \o q
    BY <1>3, TupleRange
  <2>2. stmts' = <<a>> \o z  BY <1>2, <1>5, <1>9
  <2>  HIDE DEF p, q, w
  <2>3. w \in Seq(Stmts) /\ Range(w) = {b, c, f, g}
    BY <2>1, ConcatRange
  <2>4. Followed(w)  BY <1>3, <2>3, NothingToFollow
  <2>5. z \in Seq(Stmts) /\ Range(z) = {b, c, f, g} \cup Range(e)
    BY <1>4, <2>3, ConcatRange
  <2>6. Followed(z)  BY <1>4, <2>3, <2>4, FollowedConcat
  <2>  HIDE DEF z
  <2>7. \A s \in Range(z) : s.op # "task_insert" /\ s.op # "await"
    BY <1>3, <1>4, <2>5 DEF FailureOps
  <2>8. PICK x \in Range(z) :
          x.op \in {"job_retry", "job_finish"} /\ x.task = t
    BY <1>4, <2>5
  <2>  QED  BY <1>6, <2>2, <2>5, <2>6, <2>7, <2>8
<1>  QED  BY <1>2, <1>7, <1>8, <1>9

\* The result of the attempt that is waited for finishes the job.
LEMMA RunSucceedsLeft ==
  ASSUME QueueInv, LeftInv, NEW t \in Tasks, NEW n \in AttemptNumber,
         RunSucceeds(t, n)
  PROVE  LeftInv'
<1>  DEFINE cancelled == job[t] = "cancelled"
            awaited == run[t][n] = "awaited"
            a == Stmt("exec_set", t, "completed")
            b == Stmt("task_complete", t, "completed")
            c == Stmt("attempt_finish", t, "cancelled")
            d == Stmt("job_finish", t, "completed")
            e == Stmt("attempt_finish", t, "completed")
            x == IF cancelled /\ t \notin ResearchTasks THEN <<>> ELSE <<a>>
            y == IF cancelled THEN <<>> ELSE <<b>>
            z == IF ~awaited THEN <<>>
                 ELSE IF cancelled THEN <<c>> ELSE <<d, e>>
            xy == x \o y
<1>1. /\ a \in Stmts /\ a.op = "exec_set"
      /\ b \in Stmts /\ b.op = "task_complete"
      /\ c \in Stmts /\ c.op = "attempt_finish"
      /\ d \in Stmts /\ d.op = "job_finish" /\ d.task = t
      /\ d.to = "completed"
      /\ e \in Stmts /\ e.op = "attempt_finish"
  BY StmtType, WritesValues DEF Stmt
<1>2. /\ stmts = <<>> /\ stmts' = xy \o z
      /\ run' = [run EXCEPT ![t][n] = "none"]
      /\ UNCHANGED <<task, job, attempts, lockedBy, boot, phase>>
  BY DEF RunSucceeds, SuccessPlan, Idle, rowVars
<1>  HIDE DEF a, b, c, d, e
<1>3. x \in Seq(Stmts) /\ Range(x) \subseteq {a}
  <2>1. <<a>> \in Seq(Stmts) /\ Range(<<a>>) = {a}  BY <1>1, TupleRange
  <2>2. <<>> \in Seq(Stmts) /\ Range(<<>>) = {}  BY TupleRange
  <2>3. x = <<>> \/ x = <<a>>  OBVIOUS
  <2>  QED  BY <2>1, <2>2, <2>3
<1>4. y \in Seq(Stmts) /\ Range(y) \subseteq {b}
  <2>1. <<b>> \in Seq(Stmts) /\ Range(<<b>>) = {b}  BY <1>1, TupleRange
  <2>2. <<>> \in Seq(Stmts) /\ Range(<<>>) = {}  BY TupleRange
  <2>3. y = <<>> \/ y = <<b>>  OBVIOUS
  <2>  QED  BY <2>1, <2>2, <2>3
<1>5. /\ z \in Seq(Stmts) /\ Range(z) \subseteq {c, d, e}
      /\ awaited /\ ~cancelled => d \in Range(z)
  <2>1. /\ <<c>> \in Seq(Stmts) /\ Range(<<c>>) = {c}
        /\ <<d, e>> \in Seq(Stmts) /\ Range(<<d, e>>) = {d, e}
    BY <1>1, TupleRange
  <2>2. <<>> \in Seq(Stmts) /\ Range(<<>>) = {}  BY TupleRange
  <2>3. /\ z = <<>> \/ z = <<c>> \/ z = <<d, e>>
        /\ awaited /\ ~cancelled => z = <<d, e>>
    OBVIOUS
  <2>  HIDE DEF x, y, z, awaited, cancelled
  <2>4. z \in Seq(Stmts) /\ Range(z) \subseteq {c, d, e}
    BY <2>1, <2>2, <2>3
  <2>5. ASSUME awaited, ~cancelled PROVE d \in Range(z)
    BY <2>1, <2>3, <2>5
  <2>  QED  BY <2>4, <2>5, Zenon
<1>  HIDE DEF x, y, z
<1>6. xy \in Seq(Stmts) /\ Range(xy) \subseteq {a, b}
  BY <1>3, <1>4, ConcatRange
<1>  HIDE DEF xy
<1>7. Range(stmts') = Range(xy) \cup Range(z)
  <2>1. Range(xy \o z) = Range(xy) \cup Range(z)
    BY <1>5, <1>6, ConcatRange
  <2>  QED  BY <1>2, <2>1
<1>8. \A s \in Range(stmts') :
        /\ s.op # "job_finish" \/ s.to = "completed"
        /\ s.op # "await" /\ s.op # "task_insert"
  BY <1>1, <1>5, <1>6, <1>7
<1>9. Followed(stmts')  BY <1>8, NothingToFollow
<1>10. \A s \in Range(stmts') : Promises(s)'  BY <1>8 DEF Promises
<1>11. ASSUME NEW u \in Tasks, job[u] = "running",
              run[u][attempts[u]] = "awaited"
       PROVE  \/ run'[u][attempts[u]] = "awaited"
              \/ Pending("job_retry", u)' \/ Pending("job_finish", u)'
  <2>1. CASE u = t /\ attempts[u] = n
    <3>1. awaited /\ ~cancelled  BY <1>11, <2>1
    <3>2. d \in Range(stmts')  BY <1>5, <1>7, <3>1
    <3>  QED  BY <1>1, <2>1, <3>2 DEF Pending
  <2>2. CASE ~(u = t /\ attempts[u] = n)
    BY <1>2, <1>11, <2>2 DEF QueueInv, QueueTypeOK
  <2>  QED  BY <2>1, <2>2
<1>  QED  BY <1>2, <1>9, <1>10, <1>11, CallbackLeft

LEMMA RecoverRowLeft ==
  ASSUME QueueInv, LeftInv, NEW t \in Tasks,
         \/ RecoverStaleJob(t) \/ RecoverOrphanExecution(t)
         \/ RecoverOrphanTask(t)
  PROVE  LeftInv'
<1>  DEFINE a == Stmt("job_retry", t, "queued")
            b == Stmt("job_finish", t, "failed")
            c == Stmt("task_settle", t, "failed")
            d == Stmt("exec_set", t, "failed")
<1>1. /\ a.op = "job_retry" /\ b.op = "job_finish" /\ b.task = t
      /\ c.op = "task_settle" /\ c.task = t /\ d.op = "exec_set"
  BY StmtType, WritesValues DEF Stmt
<1>2. /\ \/ stmts' = <<a>> \/ stmts' = <<b, c>>
         \/ stmts' = <<c>> \/ stmts' = <<d>>
      /\ stmts = <<>>
      /\ UNCHANGED <<task, job, attempts, lockedBy, run, boot, phase>>
  BY DEF RecoverStaleJob, RecoverOrphanExecution, RecoverOrphanTask,
     Recovering, rowVars
<1>  HIDE DEF a, b, c, d
<1>3. \A s \in Range(stmts') : s \in {a, b, c, d}
  BY <1>2, TupleRange
<1>4. \A s \in Range(stmts') : Promises(s)'
  BY <1>1, <1>3 DEF Promises
<1>5. Followed(<<b, c>>)
  BY <1>1 DEF Followed
<1>6. Followed(<<a>>) /\ Followed(<<c>>) /\ Followed(<<d>>)
  BY <1>1, TupleRange, NothingToFollow
<1>7. Followed(stmts')
  BY <1>2, <1>5, <1>6
<1>  QED  BY <1>2, <1>4, <1>7, CallbackLeft

\* After a crash no lock is the new process's, so recovery looks at every
\* running job, and at every open task after the jobs.
LEMMA CrashLeft ==
  ASSUME QueueInv, LeftInv, Crash
  PROVE  LeftInv'
<1>1. /\ UNCHANGED <<task, job, attempts, lockedBy>>
      /\ stmts' = <<>> /\ phase' = "jobs" /\ boot' = boot + 1
  BY DEF Crash, rowVars
<1>2. \A u \in Tasks : /\ lockedBy[u] <= boot /\ lockedBy[u] \in Nat
                       /\ boot \in Nat
  BY QueueAssumption DEF LeftInv, QueueInv, QueueTypeOK
<1>3. ASSUME NEW u \in Tasks, job'[u] = "running"
      PROVE  Handled(u)' /\ attempts'[u] \in AttemptNumber
  <2>1. attempts[u] \in AttemptNumber  BY <1>1, <1>3 DEF LeftInv
  <2>2. lockedBy'[u] # boot'  BY <1>1, <1>2
  <2>  QED  BY <1>1, <2>1, <2>2 DEF Handled
<1>4. \A u \in Tasks : Owned(u)' /\ lockedBy'[u] <= boot'
  BY <1>1, <1>2 DEF Owned
<1>5. Followed(stmts') /\ Range(stmts') = {}
  <2>1. Range(<<>>) = {}  BY TupleRange
  <2>  QED  BY <1>1, <2>1, NothingToFollow
<1>  QED  BY <1>3, <1>4, <1>5 DEF LeftInv

\* A recovery pass ends only when it has left nothing to its successors.
LEMMA NextPassLeft ==
  ASSUME LeftInv, NextPass
  PROVE  LeftInv'
<1>1. /\ UNCHANGED <<task, job, attempts, lockedBy, run, boot>>
      /\ stmts = <<>> /\ stmts' = <<>>
  BY DEF NextPass, Recovering, rowVars
<1>2. \/ phase = "jobs" /\ StaleJobs = {} /\ phase' = "executions"
      \/ phase = "executions" /\ phase' = "tasks"
      \/ phase = "tasks" /\ OrphanTasks = {} /\ phase' = "serving"
  BY DEF NextPass, Recovering
<1>3. Followed(stmts') /\ Range(stmts') = {}
  <2>1. Range(<<>>) = {}  BY TupleRange
  <2>  QED  BY <1>1, <2>1, NothingToFollow
<1>4. \A o, u : ~Pending(o, u)
  BY <1>1, TupleRange DEF Pending
<1>5. ASSUME NEW u \in Tasks, job'[u] = "running"
      PROVE  Handled(u)' /\ attempts'[u] \in AttemptNumber
  <2>1. Handled(u) /\ attempts[u] \in AttemptNumber
    BY <1>1, <1>5 DEF LeftInv
  <2>2. lockedBy[u] = boot \/ phase # "jobs"
    BY <1>1, <1>2, <1>5 DEF StaleJobs
  <2>3. run[u][attempts[u]] = "awaited" /\ lockedBy[u] = boot
    BY <1>4, <2>1, <2>2 DEF Handled
  <2>  QED  BY <1>1, <2>1, <2>3 DEF Handled
<1>6. ASSUME NEW u \in Tasks, task'[u] \in NonTerminalTask,
             job'[u] \notin ActiveJob
      PROVE  Owned(u)'
  <2>1. OrphanTasks # {}  BY <1>1, <1>6 DEF OrphanTasks
  <2>  QED  BY <1>2, <2>1 DEF Owned
<1>  QED  BY <1>1, <1>3, <1>5, <1>6 DEF LeftInv

LEMMA EmergencyStopLeft ==
  ASSUME LeftInv, NEW on \in BOOLEAN, SetEmergencyStop(on)
  PROVE  LeftInv'
<1>1. /\ UNCHANGED <<task, job, attempts, lockedBy, run, boot, phase>>
      /\ stmts = <<>> /\ stmts' = <<>>
  BY DEF SetEmergencyStop, Idle, procVars
<1>2. Range(<<>>) = {}  BY TupleRange
<1>3. Followed(stmts') /\ \A s \in Range(stmts') : Promises(s)'
  BY <1>1, <1>2, NothingToFollow
<1>  QED  BY <1>1, <1>3, CallbackLeft

LEMMA LeftInvInit == Init => LeftInv
<1>  SUFFICES ASSUME Init PROVE LeftInv  OBVIOUS
<1>1. Range(<<>>) = {}  BY TupleRange
<1>2. Followed(stmts) /\ \A s \in Range(stmts) : Promises(s)
  BY <1>1, NothingToFollow DEF Init
<1>3. \A t \in Tasks : job[t] = "none" /\ lockedBy[t] <= boot /\ Owned(t)
  BY DEF Init, Owned
<1>  QED  BY <1>2, <1>3 DEF LeftInv

\* LeftInv rests on AgreeInv: a job that a statement settles is settled as its
\* task is.
LEMMA LeftInvStep ==
  ASSUME EngineInv, AgreeInv, AgreeInv', LeftInv, [Next]_vars
  PROVE  LeftInv'
<1>  USE DEF EngineInv
<1>1. CASE UNCHANGED vars
  <2>1. UNCHANGED <<task, job, attempts, lockedBy, run, boot, stmts, phase>>
    BY <1>1 DEF vars, rowVars, procVars
  <2>  QED
    BY <2>1 DEF LeftInv, Handled, Owned, Followed, Promises, Pending
<1>2. ASSUME NEW t \in Tasks,
             Submit(t) \/ ClaimNextDueJob(t) \/ CancelJob(t) \/ Statement(t)
      PROVE  LeftInv'
  BY <1>2, SubmitLeft, ClaimLeft, CancelLeft, StatementLeft
<1>3. ASSUME NEW t \in Tasks, NEW n \in AttemptNumber,
             RunSettles(t, n) \/ StepTimeout(t, n)
      PROVE  LeftInv'
  BY <1>3, RunSucceedsLeft, RunFailsLeft, StepTimeoutLeft DEF RunSettles
<1>4. CASE Crash
  BY <1>4, CrashLeft
<1>5. ASSUME NEW on \in BOOLEAN, SetEmergencyStop(on) PROVE LeftInv'
  BY <1>5, EmergencyStopLeft
<1>6. CASE Recover
  BY <1>6, NextPassLeft, RecoverRowLeft DEF Recover
<1>  QED  BY <1>1, <1>2, <1>3, <1>4, <1>5, <1>6 DEF Next

LEMMA LeftInvariant == Spec => []LeftInv
<1>1. LeftInv /\ EngineInv /\ AgreeInv /\ AgreeInv' /\ [Next]_vars => LeftInv'
  BY LeftInvStep
<1>  QED
  BY <1>1, EngineInvariant, AgreeInvariant, LeftInvInit, PTL DEF Spec

\* Whenever the engine is idle, a running job is waited for by this process
\* and an open task has an active job: no crash and no withheld answer leaves
\* one to nobody (queue.ts, recovery.ts).
THEOREM EngineLeavesNothingBehind == Spec => []NothingLeftBehind
<1>1. LeftInv => NothingLeftBehind
  <2>  SUFFICES ASSUME LeftInv, Idle PROVE NothingLeftBehind
    BY DEF NothingLeftBehind, NoStrandedJob, NoOrphanTask
  <2>1. \A o, u : ~Pending(o, u)
    BY TupleRange DEF Idle, Pending
  <2>2. NoStrandedJob
    BY <2>1 DEF LeftInv, Handled, NoStrandedJob, Idle
  <2>3. NoOrphanTask
    BY <2>1 DEF LeftInv, Owned, NoOrphanTask, Idle
  <2>  QED  BY <2>2, <2>3 DEF NothingLeftBehind
<1>  QED  BY <1>1, LeftInvariant, PTL

-----------------------------------------------------------------------------
(* Nothing that was paid back is delivered.                                *)

Undelivered(t) == task[t] \in {"failed", "cancelled"}

\* The settlements that end a failed job, which no statement may follow.
FinalSettles ==
  {s \in Stmts : /\ s.op = "task_settle" /\ s.to = "failed"
                 /\ s.task \notin ahead}

LastOnly(q, S) == \A i \in DOMAIN q : q[i] \in S => i = Len(q)

\* What s relies on: nothing that reopens a task or its job comes after the
\* settlement of the task, and a task is failed only after its job.
Expects(s) ==
  /\ s.op \in {"task_insert", "task_run", "job_insert", "job_retry"} =>
       ~Undelivered(s.task) /\ ~Pending("task_settle", s.task)
  /\ s.op = "job_finish" =>
       job[s.task] \notin ClaimableJob /\ ~Pending("job_retry", s.task)
  /\ s.op = "credit_refund" => Undelivered(s.task)
  /\ s.op = "task_settle" /\ s.to = "failed" =>
       job[s.task] \notin ActiveJob \/ Pending("job_finish", s.task)

\* A task that is paid back is settled, and settled for good: its job is over
\* or is just being cancelled.
PaidBack(t) ==
  /\ t \in refunded => Undelivered(t)
  /\ Undelivered(t) /\ job[t] \in ActiveJob => Pending("job_cancel", t)

RefundInv ==
  /\ \A t \in Tasks \ ahead : PaidBack(t)
  /\ \A s \in Range(stmts) : s.task \notin ahead => Expects(s)
  /\ LastOnly(stmts, FinalSettles)

LEMMA LastOnlyTail ==
  ASSUME NEW S, NEW q \in Seq(Stmts), q # <<>>, LastOnly(q, S)
  PROVE  LastOnly(Tail(q), S) /\ (Head(q) \in S => Tail(q) = <<>>)
<1>1. /\ Tail(q) \in Seq(Stmts) /\ Len(Tail(q)) = Len(q) - 1
      /\ \A i \in 1 .. Len(Tail(q)) : Tail(q)[i] = q[i + 1]
  BY HeadTailProperties
<1>2. /\ DOMAIN q = 1 .. Len(q) /\ Len(q) \in Nat \ {0} /\ Head(q) = q[1]
      /\ DOMAIN Tail(q) = 1 .. Len(Tail(q)) /\ Len(Tail(q)) \in Nat
  BY <1>1, LenProperties, EmptySeq
<1>3. LastOnly(Tail(q), S)
  BY <1>1, <1>2 DEF LastOnly
<1>4. ASSUME Head(q) \in S PROVE Tail(q) = <<>>
  <2>1. Len(q) = 1  BY <1>2, <1>4 DEF LastOnly
  <2>2. Len(Tail(q)) = 0  BY <1>1, <2>1
  <2>  QED  BY <1>1, <2>2, EmptySeq
<1>  QED  BY <1>3, <1>4

LEMMA LastOnlyConcat ==
  ASSUME NEW S, NEW p \in Seq(Stmts), NEW q \in Seq(Stmts), LastOnly(q, S),
         \A s \in Range(p) : s \notin S
  PROVE  LastOnly(p \o q, S)
<1>1. /\ Len(p \o q) = Len(p) + Len(q)
      /\ \A i \in 1 .. Len(p) + Len(q) :
           (p \o q)[i] = IF i <= Len(p) THEN p[i] ELSE q[i - Len(p)]
      /\ p \o q \in Seq(Stmts)
  BY ConcatProperties
<1>2. /\ DOMAIN p = 1 .. Len(p) /\ DOMAIN q = 1 .. Len(q)
      /\ DOMAIN (p \o q) = 1 .. Len(p) + Len(q)
      /\ Len(p) \in Nat /\ Len(q) \in Nat
  BY <1>1, LenProperties
<1>3. ASSUME NEW i \in 1 .. Len(p) + Len(q), (p \o q)[i] \in S
      PROVE  i = Len(p) + Len(q)
  <2>1. CASE i <= Len(p)
    <3>1. i \in DOMAIN p /\ (p \o q)[i] = p[i]  BY <1>1, <1>2, <2>1
    <3>2. p[i] \in Range(p)  BY <3>1 DEF Range
    <3>  QED  BY <1>3, <3>1, <3>2
  <2>2. CASE ~(i <= Len(p))
    <3>1. /\ i - Len(p) \in DOMAIN q
          /\ (p \o q)[i] = q[i - Len(p)]
      BY <1>1, <1>2, <2>2
    <3>2. i - Len(p) = Len(q)  BY <1>3, <3>1 DEF LastOnly
    <3>  QED  BY <1>2, <3>2
  <2>  QED  BY <2>1, <2>2
<1>  QED  BY <1>1, <1>2, <1>3 DEF LastOnly

LEMMA NoneIsLast ==
  ASSUME NEW S, NEW q, \A s \in Range(q) : s \notin S
  PROVE  LastOnly(q, S)
BY DEF LastOnly, Range

\* What is expected of the statement that is executed, and of the rest.
LEMMA HeadExpects ==
  ASSUME QueueInv, AgreeInv, RefundInv, NEW op \in DOMAIN Writes,
         NEW t \in Tasks, Executing(op, t)
  PROVE  /\ Head(stmts).op = op /\ Head(stmts).task = t
         /\ Head(stmts).to = To /\ To \in Writes[op]
         /\ t \notin ahead => Expects(Head(stmts))
         /\ Pending(op, t)
         /\ \A s \in Range(Tail(stmts)) :
              /\ s \in Range(stmts) /\ s.task \in Tasks
              /\ s.task \notin ahead => Expects(s)
         /\ \A o, u : Pending(o, u) /\ ~(o = op /\ u = t) =>
              \E s \in Range(Tail(stmts)) : s.op = o /\ s.task = u
         /\ LastOnly(Tail(stmts), FinalSettles)
         /\ Head(stmts) \in FinalSettles => Tail(stmts) = <<>>
<1>1. /\ stmts # <<>> /\ stmts \in Seq(Stmts)
      /\ Head(stmts).op = op /\ Head(stmts).task = t
      /\ Head(stmts) \in Range(stmts) /\ Head(stmts).to = To
      /\ To \in Writes[op]
  BY HeadFacts DEF To
<1>2. /\ \A s \in Range(Tail(stmts)) : s \in Range(stmts) /\ s.task \in Tasks
      /\ \A o, u : Pending(o, u) /\ ~(o = op /\ u = t) =>
           \E s \in Range(Tail(stmts)) : s.op = o /\ s.task = u
  BY HeadKnows
<1>3. /\ LastOnly(Tail(stmts), FinalSettles)
      /\ Head(stmts) \in FinalSettles => Tail(stmts) = <<>>
  <2>1. LastOnly(stmts, FinalSettles)  BY DEF RefundInv
  <2>  QED  BY <1>1, <2>1, LastOnlyTail
<1>4. /\ t \notin ahead => Expects(Head(stmts))
      /\ \A s \in Range(Tail(stmts)) : s.task \notin ahead => Expects(s)
  BY <1>1, <1>2 DEF RefundInv
<1>5. Pending(op, t)  BY <1>1 DEF Pending
<1>  QED  BY <1>1, <1>2, <1>3, <1>4, <1>5

\* A statement takes nothing from the rest, and adds neither a retry nor a
\* settlement.
LEMMA RestPending ==
  ASSUME QueueInv, AgreeInv, RefundInv, NEW op \in DOMAIN Writes,
         NEW t \in Tasks, Executing(op, t),
         Range(Tail(stmts)) \subseteq Range(stmts'),
         \A s \in Range(stmts') : \/ s \in Range(Tail(stmts))
                                  \/ s.op \in {"task_output", "credit_refund"}
  PROVE  /\ \A o, u : Pending(o, u) /\ ~(o = op /\ u = t) => Pending(o, u)'
         /\ \A o, u : o \in {"job_retry", "task_settle"} =>
              (Pending(o, u)' => Pending(o, u))
<1>1. ASSUME NEW o, NEW u, Pending(o, u), ~(o = op /\ u = t)
      PROVE  Pending(o, u)'
  <2>1. PICK s \in Range(Tail(stmts)) : s.op = o /\ s.task = u
    BY <1>1, HeadExpects
  <2>  QED  BY <2>1 DEF Pending
<1>2. ASSUME NEW o \in {"job_retry", "task_settle"}, NEW u, Pending(o, u)'
      PROVE  Pending(o, u)
  <2>1. PICK s \in Range(stmts') : s.op = o /\ s.task = u
    BY <1>2 DEF Pending
  <2>2. s \in Range(Tail(stmts))  BY <1>2, <2>1
  <2>3. s \in Range(stmts)  BY <2>2, HeadExpects
  <2>  QED  BY <2>1, <2>3 DEF Pending
<1>  QED  BY <1>1, <1>2, Zenon

\* A statement concerns one task; of that one the rest must hold.
LEMMA FrameRefund ==
  ASSUME QueueInv, AgreeInv, RefundInv, NEW op \in DOMAIN Writes,
         NEW t \in Tasks, Executing(op, t), ahead' = ahead,
         Range(Tail(stmts)) \subseteq Range(stmts'),
         \A s \in Range(stmts') :
           \/ s \in Range(Tail(stmts))
           \/ s.op = "task_output"
           \/ s.op = "credit_refund" /\ s.task = t /\ Undelivered(t)',
         LastOnly(stmts', FinalSettles),
         \A u \in Tasks : u # t => /\ task'[u] = task[u] /\ job'[u] = job[u]
                                   /\ u \in refunded' => u \in refunded,
         t \notin ahead => PaidBack(t)',
         t \notin ahead =>
           \A s \in Range(Tail(stmts)) : s.task = t => Expects(s)'
  PROVE  RefundInv'
<1>1. /\ \A o, u : Pending(o, u) /\ ~(o = op /\ u = t) => Pending(o, u)'
      /\ \A o, u : o \in {"job_retry", "task_settle"} =>
           (Pending(o, u)' => Pending(o, u))
  BY RestPending
<1>2. \A u : /\ Pending("job_retry", u)' => Pending("job_retry", u)
             /\ Pending("task_settle", u)' => Pending("task_settle", u)
  BY <1>1
<1>3. ASSUME NEW u \in Tasks \ ahead', u # t PROVE PaidBack(u)'
  <2>1. PaidBack(u)  BY <1>3 DEF RefundInv
  <2>2. task'[u] = task[u] /\ job'[u] = job[u] /\ (u \in refunded' => u \in refunded)
    BY <1>3
  <2>3. Undelivered(u)' <=> Undelivered(u)  BY <2>2 DEF Undelivered
  <2>4. Pending("job_cancel", u) => Pending("job_cancel", u)'
    BY <1>1, <1>3
  <2>  QED  BY <2>1, <2>2, <2>3, <2>4 DEF PaidBack
<1>4. ASSUME NEW s \in Range(Tail(stmts)), s.task \notin ahead, s.task # t
      PROVE  Expects(s)'
  <2>1. Expects(s) /\ s.task \in Tasks  BY <1>4, HeadExpects
  <2>2. job'[s.task] = job[s.task] /\ task'[s.task] = task[s.task]
    BY <1>4, <2>1
  <2>3. Undelivered(s.task)' <=> Undelivered(s.task)  BY <2>2 DEF Undelivered
  <2>4. Pending("job_finish", s.task) => Pending("job_finish", s.task)'
    BY <1>1, <1>4
  <2>  QED  BY <1>2, <2>1, <2>2, <2>3, <2>4 DEF Expects
<1>5. ASSUME NEW s \in Range(stmts'), s.task \notin ahead' PROVE Expects(s)'
  <2>1. CASE s.op = "task_output"  BY <2>1 DEF Expects
  <2>2. CASE s.op = "credit_refund" /\ s.task = t /\ Undelivered(t)'
    BY <2>2 DEF Expects
  <2>3. CASE s \in Range(Tail(stmts))
    BY <1>4, <1>5, <2>3
  <2>  QED  BY <2>1, <2>2, <2>3
<1>6. LastOnly(stmts, FinalSettles)'
  <2>1. FinalSettles' = FinalSettles  BY DEF FinalSettles
  <2>  QED  BY <2>1 DEF LastOnly
<1>  QED  BY <1>3, <1>5, <1>6 DEF RefundInv

\* A statement that changes no task and no job, and gives nothing back.
LEMMA PlainRefund ==
  ASSUME QueueInv, AgreeInv, RefundInv, NEW op \in DOMAIN Writes,
         NEW t \in Tasks, Executing(op, t), op # "job_insert",
         op = "job_finish" => job[t] # "running",
         op = "job_cancel" => job[t] \notin ActiveJob,
         stmts' = Tail(stmts), UNCHANGED <<task, job, refunded, ahead>>
  PROVE  RefundInv'
<1>1. /\ \A o, u : Pending(o, u) /\ ~(o = op /\ u = t) => Pending(o, u)'
      /\ \A o, u : o \in {"job_retry", "task_settle"} =>
           (Pending(o, u)' => Pending(o, u))
  BY RestPending
<1>2. \A u : Undelivered(u)' <=> Undelivered(u)  BY DEF Undelivered
<1>3. ASSUME t \notin ahead PROVE PaidBack(t)'
  <2>1. PaidBack(t)  BY <1>3 DEF RefundInv
  <2>2. op # "job_cancel" /\ Pending("job_cancel", t) => Pending("job_cancel", t)'
    BY <1>1
  <2>  QED  BY <1>2, <2>1, <2>2 DEF PaidBack
<1>4. ASSUME t \notin ahead, NEW s \in Range(Tail(stmts)), s.task = t
      PROVE  Expects(s)'
  <2>1. Expects(s)  BY <1>4, HeadExpects
  <2>2. op # "job_finish" /\ Pending("job_finish", t) => Pending("job_finish", t)'
    BY <1>1
  <2>3. ASSUME op = "job_finish" PROVE job[t] \notin ActiveJob
    <3>1. Expects(Head(stmts)) /\ Head(stmts).op = op /\ Head(stmts).task = t
      BY <1>4, HeadExpects
    <3>2. job[t] \notin ClaimableJob  BY <2>3, <3>1 DEF Expects
    <3>  QED  BY <2>3, <3>2 DEF ActiveJob
  <2>  QED  BY <1>1, <1>2, <1>4, <2>1, <2>2, <2>3 DEF Expects
<1>5. LastOnly(stmts', FinalSettles)  BY HeadExpects
<1>  QED  BY <1>3, <1>4, <1>5, FrameRefund

\* The statements that open a task find it as they expect it.
LEMMA OpenTaskRefund ==
  ASSUME QueueInv, AgreeInv, RefundInv, NEW t \in Tasks,
         CreateTask(t) \/ RunTask(t)
  PROVE  RefundInv'
<1>1. PICK op \in {"task_insert", "task_run"} :
        /\ Executing(op, t) /\ stmts' = Tail(stmts)
        /\ task' = [task EXCEPT ![t] = To]
        /\ UNCHANGED <<job, refunded, ahead>>
  BY DEF CreateTask, RunTask, Done, ledgerVars
<1>2. op \in DOMAIN Writes  BY WritesValues
<1>3. To \in {"created", "running"}  BY <1>1, <1>2, HeadExpects, WritesValues
<1>4. task'[t] = To /\ \A u \in Tasks : u # t => task'[u] = task[u]
  BY <1>1 DEF QueueInv, QueueTypeOK
<1>5. /\ \A o, u : Pending(o, u) /\ ~(o = op /\ u = t) => Pending(o, u)'
      /\ \A o, u : o \in {"job_retry", "task_settle"} =>
           (Pending(o, u)' => Pending(o, u))
  BY <1>1, <1>2, RestPending
<1>6. ~Undelivered(t)'  BY <1>3, <1>4 DEF Undelivered
<1>7. t \notin ahead => ~Undelivered(t)
  <2>1. Head(stmts).op = op /\ Head(stmts).task = t
        /\ (t \notin ahead => Expects(Head(stmts)))
    BY <1>1, <1>2, HeadExpects
  <2>  QED  BY <2>1 DEF Expects
<1>8. ASSUME t \notin ahead PROVE PaidBack(t)'
  <2>1. t \notin refunded  BY <1>7, <1>8 DEF RefundInv, PaidBack
  <2>  QED  BY <1>1, <1>6, <2>1 DEF PaidBack
<1>9. ASSUME t \notin ahead, NEW s \in Range(Tail(stmts)), s.task = t
      PROVE  Expects(s)'
  <2>1. Expects(s)  BY <1>1, <1>2, <1>9, HeadExpects
  <2>2. Pending("job_finish", t) => Pending("job_finish", t)'  BY <1>5
  <2>  QED  BY <1>1, <1>5, <1>6, <1>7, <1>9, <2>1, <2>2 DEF Expects
<1>10. LastOnly(stmts', FinalSettles)  BY <1>1, <1>2, HeadExpects
<1>  QED  BY <1>1, <1>2, <1>4, <1>8, <1>9, <1>10, FrameRefund

LEMMA RefundCreditRefund ==
  ASSUME QueueInv, AgreeInv, RefundInv, NEW t \in Tasks, RefundCredit(t)
  PROVE  RefundInv'
<1>  DEFINE op == "credit_refund"
<1>1. /\ Executing(op, t) /\ stmts' = Tail(stmts)
      /\ UNCHANGED <<task, job, ahead>>
      /\ \A u : u # t => (u \in refunded' => u \in refunded)
  BY DEF RefundCredit, RefundTaskCredit, Done, rowVars, ledgerVars
<1>2. op \in DOMAIN Writes  BY WritesValues
<1>  HIDE DEF op
<1>3. /\ \A o, u : Pending(o, u) /\ ~(o = op /\ u = t) => Pending(o, u)'
      /\ \A o, u : o \in {"job_retry", "task_settle"} =>
           (Pending(o, u)' => Pending(o, u))
  BY <1>1, <1>2, RestPending
<1>4. \A u : Undelivered(u)' <=> Undelivered(u)  BY <1>1 DEF Undelivered
<1>5. ASSUME t \notin ahead PROVE PaidBack(t)'
  <2>1. Head(stmts).op = op /\ Head(stmts).task = t /\ Expects(Head(stmts))
    BY <1>1, <1>2, <1>5, HeadExpects
  <2>2. Undelivered(t)  BY <2>1 DEF Expects, op
  <2>3. Pending("job_cancel", t) => Pending("job_cancel", t)'
    BY <1>3 DEF op
  <2>  QED  BY <1>1, <1>4, <1>5, <2>2, <2>3 DEF RefundInv, PaidBack
<1>6. ASSUME t \notin ahead, NEW s \in Range(Tail(stmts)), s.task = t
      PROVE  Expects(s)'
  <2>1. Expects(s)  BY <1>1, <1>2, <1>6, HeadExpects
  <2>2. Pending("job_finish", t) => Pending("job_finish", t)'
    BY <1>3 DEF op
  <2>  QED  BY <1>1, <1>3, <1>4, <1>6, <2>1, <2>2 DEF Expects
<1>7. LastOnly(stmts', FinalSettles)  BY <1>1, <1>2, HeadExpects
<1>  QED  BY <1>1, <1>2, <1>5, <1>6, <1>7, FrameRefund

\* A guarded change of the task, and the one statement it puts in its place.
LEMMA GuardedRefund ==
  ASSUME QueueInv, AgreeInv, RefundInv, NEW t \in Tasks,
         CompleteTask(t) \/ SettleTask(t)
  PROVE  RefundInv'
<1>1. PICK op \in {"task_complete", "task_settle"} :
        /\ Executing(op, t) /\ UNCHANGED <<job, refunded, ahead>>
        /\ \/ /\ task' = task /\ stmts' = Tail(stmts)
           \/ /\ task' = [task EXCEPT ![t] = To]
              /\ task[t] \in NonTerminalTask
              /\ stmts' = << Stmt(IF op = "task_complete" THEN "task_output"
                                  ELSE "credit_refund", t, "none") >>
                            \o Tail(stmts)
  BY DEF CompleteTask, SettleTask, ledgerVars
<1>2. op \in DOMAIN Writes  BY WritesValues
<1>3. CASE task' = task /\ stmts' = Tail(stmts)
  BY <1>1, <1>2, <1>3, PlainRefund
<1>4. CASE /\ task' = [task EXCEPT ![t] = To] /\ task[t] \in NonTerminalTask
           /\ stmts' = << Stmt(IF op = "task_complete" THEN "task_output"
                               ELSE "credit_refund", t, "none") >>
                         \o Tail(stmts)
  <2>  DEFINE new == IF op = "task_complete" THEN "task_output"
                     ELSE "credit_refund"
              x == Stmt(new, t, "none")
              p == <<x>>
              r == Tail(stmts)
  <2>1. x \in Stmts /\ x.op = new /\ x.task = t
    BY StmtType, WritesValues
  <2>2. stmts' = p \o r  BY <1>4
  <2>3. r \in Seq(Stmts) /\ LastOnly(r, FinalSettles)
    BY <1>1, <1>2, HeadFacts, HeadExpects
  <2>4. new \in {"task_output", "credit_refund"}
        /\ (new = "credit_refund" <=> op = "task_settle")
    BY <1>1
  <2>  HIDE DEF x, new
  <2>5. p \in Seq(Stmts) /\ Range(p) = {x}  BY <2>1, TupleRange
  <2>  HIDE DEF p, r
  <2>6. Range(p \o r) = {x} \cup Range(r)  BY <2>3, <2>5, ConcatRange
  <2>7. LastOnly(stmts', FinalSettles)
    <3>1. \A s \in Range(p) : s \notin FinalSettles
      BY <2>1, <2>4, <2>5 DEF FinalSettles
    <3>2. LastOnly(p \o r, FinalSettles)
      BY <2>3, <2>5, <3>1, LastOnlyConcat
    <3>  QED  BY <2>2, <3>2
  <2>8. Range(stmts') = {x} \cup Range(Tail(stmts))
    BY <2>2, <2>6 DEF r
  <2>9. /\ \A o, u : Pending(o, u) /\ ~(o = op /\ u = t) => Pending(o, u)'
        /\ \A o, u : o \in {"job_retry", "task_settle"} =>
             (Pending(o, u)' => Pending(o, u))
    BY <1>1, <1>2, <2>1, <2>4, <2>8, RestPending
  <2>10. task'[t] = To /\ \A u \in Tasks : u # t => task'[u] = task[u]
    BY <1>4 DEF QueueInv, QueueTypeOK
  <2>11. /\ Head(stmts).op = op /\ Head(stmts).task = t /\ Head(stmts).to = To
         /\ To \in Writes[op]
         /\ t \notin ahead => Expects(Head(stmts))
         /\ Head(stmts) \in FinalSettles => Tail(stmts) = <<>>
         /\ Pending(op, t) /\ Head(stmts) \in Stmts /\ Knows(Head(stmts))
    BY <1>1, <1>2, HeadExpects, HeadFacts, HeadKnows
  <2>12. ~Undelivered(t) /\ (Undelivered(t)' <=> op = "task_settle")
    BY <1>1, <1>4, <2>10, <2>11, WritesValues
    DEF Undelivered, NonTerminalTask
  <2>13. ASSUME t \notin ahead PROVE PaidBack(t)'
    <3>1. t \notin refunded'
      BY <1>1, <2>12, <2>13 DEF RefundInv, PaidBack
    <3>2. ASSUME op = "task_settle", job[t] \in ActiveJob
          PROVE  Pending("job_cancel", t)'
      <4>1. CASE To = "cancelled"
        <5>1. Pending("job_cancel", t)
          BY <2>11, <3>2, <4>1 DEF Knows
        <5>  QED  BY <2>9, <3>2, <5>1
      <4>2. CASE To # "cancelled"
        <5>1. To = "failed"  BY <2>11, <3>2, <4>2, WritesValues
        <5>2. Head(stmts) \in FinalSettles
          BY <2>11, <2>13, <3>2, <5>1 DEF FinalSettles
        <5>3. Pending("job_finish", t)
          BY <2>11, <2>13, <3>2, <5>1 DEF Expects
        <5>4. PICK s \in Range(Tail(stmts)) : s.op = "job_finish" /\ s.task = t
          BY <1>1, <1>2, <3>2, <5>3, HeadExpects
        <5>  QED  BY <2>11, <5>2, <5>4, TupleRange
      <4>  QED  BY <4>1, <4>2
    <3>  QED  BY <1>1, <2>12, <3>1, <3>2 DEF PaidBack
  <2>14. ASSUME t \notin ahead, NEW s \in Range(Tail(stmts)), s.task = t
         PROVE  Expects(s)'
    <3>1. Expects(s)  BY <1>1, <1>2, <2>14, HeadExpects
    <3>2. Pending("job_finish", t) => Pending("job_finish", t)'
      BY <1>1, <2>9
    <3>3. ASSUME s.op \in {"task_insert", "task_run", "job_insert", "job_retry"}
          PROVE  ~Undelivered(t)' /\ ~Pending("task_settle", t)'
      <4>1. ~Pending("task_settle", t)  BY <2>14, <3>1, <3>3 DEF Expects
      <4>2. op # "task_settle"  BY <2>11, <4>1
      <4>  QED  BY <2>9, <2>12, <4>1, <4>2
    <3>4. s.op = "job_finish" => ~Pending("job_retry", t)'
      BY <2>9, <2>14, <3>1 DEF Expects
    <3>5. s.op # "credit_refund"
      BY <2>12, <2>14, <3>1 DEF Expects
    <3>  QED  BY <1>1, <2>14, <3>1, <3>2, <3>3, <3>4, <3>5 DEF Expects
  <2>15. \A s \in Range(stmts') :
           \/ s \in Range(Tail(stmts))
           \/ s.op = "task_output"
           \/ s.op = "credit_refund" /\ s.task = t /\ Undelivered(t)'
    BY <2>1, <2>4, <2>8, <2>12
  <2>  QED
    BY <1>1, <1>2, <2>7, <2>8, <2>10, <2>13, <2>14, <2>15, FrameRefund
<1>  QED  BY <1>1, <1>3, <1>4

\* A job row is only put back while its task is not settled.
LEMMA JobStatementsRefund ==
  ASSUME QueueInv, AgreeInv, RefundInv, NEW t \in Tasks,
         InsertJob(t) \/ FinishJob(t) \/ ReleaseJob(t) \/ CancelJobRow(t)
  PROVE  RefundInv'
<1>1. PICK op \in JobOps :
        /\ Executing(op, t) /\ stmts' = Tail(stmts)
        /\ UNCHANGED <<task, refunded, ahead>>
        /\ \/ /\ job' = job /\ op # "job_insert"
              /\ op = "job_finish" => job[t] # "running"
              /\ op = "job_cancel" => job[t] \notin ActiveJob
           \/ /\ job' = [job EXCEPT ![t] = To]
              /\ op = "job_retry" => job[t] = "running"
  BY DEF Done, InsertJob, FinishJob, ReleaseJob, CancelJobRow, JobOps,
     ledgerVars
<1>2. op \in DOMAIN Writes  BY WritesValues DEF JobOps
<1>3. CASE /\ job' = job /\ op # "job_insert"
           /\ op = "job_finish" => job[t] # "running"
           /\ op = "job_cancel" => job[t] \notin ActiveJob
  BY <1>1, <1>2, <1>3, PlainRefund
<1>4. CASE /\ job' = [job EXCEPT ![t] = To]
           /\ op = "job_retry" => job[t] = "running"
  <2>1. job'[t] = To /\ \A u \in Tasks : u # t => job'[u] = job[u]
    BY <1>4 DEF QueueInv, QueueTypeOK
  <2>2. /\ Head(stmts).op = op /\ Head(stmts).task = t
        /\ To \in Writes[op] /\ Pending(op, t)
        /\ t \notin ahead => Expects(Head(stmts))
        /\ op = "job_insert" => Tail(stmts) = <<>>
    BY <1>1, <1>2, HeadExpects, HeadFacts
  <2>3. /\ \A o, u : Pending(o, u) /\ ~(o = op /\ u = t) => Pending(o, u)'
        /\ \A o, u : o \in {"job_retry", "task_settle"} =>
             (Pending(o, u)' => Pending(o, u))
    BY <1>1, <1>2, RestPending
  <2>4. Undelivered(t)' <=> Undelivered(t)  BY <1>1 DEF Undelivered
  <2>5. /\ op \in {"job_finish", "job_cancel"} => job'[t] \notin ActiveJob
        /\ op \in {"job_insert", "job_retry", "job_finish", "job_cancel"}
    BY <2>1, <2>2, WritesValues DEF JobOps, ActiveJob, ClaimableJob
  <2>6. ASSUME t \notin ahead PROVE PaidBack(t)'
    <3>1. PaidBack(t)  BY <2>6 DEF RefundInv
    <3>2. op \in {"job_insert", "job_retry"} => ~Undelivered(t)
      BY <2>2, <2>6 DEF Expects
    <3>  QED  BY <1>1, <2>4, <2>5, <3>1, <3>2 DEF PaidBack
  <2>7. ASSUME t \notin ahead, NEW s \in Range(Tail(stmts)), s.task = t
        PROVE  Expects(s)'
    <3>1. Expects(s) /\ s \in Range(stmts)
      BY <1>1, <1>2, <2>7, HeadExpects
    <3>2. op # "job_insert"  BY <2>2, <2>7, TupleRange
    <3>3. ASSUME op = "job_retry"
          PROVE  /\ s.op # "job_finish"
                 /\ ~(s.op = "task_settle" /\ s.to = "failed")
      <4>1. Pending("job_retry", t)  BY <2>2, <3>3
      <4>2. \A r \in Range(Tail(stmts)) : r.task = t => r.op # "job_finish"
        BY <1>1, <1>2, <2>7, <4>1, HeadExpects DEF Expects
      <4>3. ~Pending("job_finish", t)
        BY <1>1, <1>2, <3>3, <4>2, HeadExpects
      <4>4. job[t] \in ActiveJob  BY <1>4, <3>3 DEF ActiveJob
      <4>  QED  BY <2>7, <3>1, <4>2, <4>3, <4>4 DEF Expects
    <3>4. op # "job_retry" => job'[t] \notin ActiveJob /\ job'[t] \notin ClaimableJob
      BY <2>5, <3>2 DEF ActiveJob
    <3>5. s.op = "job_finish" => ~Pending("job_retry", t)'
      BY <2>3, <2>7, <3>1 DEF Expects
    <3>6. s.op \in {"task_insert", "task_run", "job_insert", "job_retry"} =>
            ~Undelivered(t)' /\ ~Pending("task_settle", t)'
      BY <2>3, <2>4, <2>7, <3>1 DEF Expects
    <3>7. s.op = "credit_refund" => Undelivered(t)'
      BY <2>4, <2>7, <3>1 DEF Expects
    <3>  QED  BY <2>7, <3>3, <3>4, <3>5, <3>6, <3>7 DEF Expects
  <2>8. LastOnly(stmts', FinalSettles)  BY <1>1, <1>2, HeadExpects
  <2>9. \A u \in Tasks : u # t => task'[u] = task[u] /\ (u \in refunded' => u \in refunded)
    BY <1>1
  <2>  QED  BY <1>1, <1>2, <2>1, <2>6, <2>7, <2>8, <2>9, FrameRefund
<1>  QED  BY <1>1, <1>3, <1>4

LEMMA StatementRefund ==
  ASSUME QueueInv, AgreeInv, RefundInv, NEW t \in Tasks, Statement(t)
  PROVE  RefundInv'
<1>1. ASSUME \/ ReserveTaskCredit(t) \/ CreateAgentExecution(t)
             \/ InsertJobAttempt(t) \/ FinishJobAttempt(t) \/ SetExecution(t)
             \/ MarkExecutionTimedOut(t) \/ UpdateTaskOutput(t) \/ AwaitRun(t)
      PROVE  RefundInv'
  <2>1. PICK op \in {"credit_consume", "exec_insert", "attempt_insert",
                     "attempt_finish", "exec_set", "exec_timeout",
                     "task_output", "await"} :
          /\ Executing(op, t) /\ stmts' = Tail(stmts)
          /\ UNCHANGED <<task, job, refunded, ahead>>
    BY <1>1 DEF Done, ReserveTaskCredit, ConsumeTaskCredit,
       CreateAgentExecution, InsertJobAttempt, FinishJobAttempt, SetExecution,
       MarkExecutionTimedOut, UpdateTaskOutput, AwaitRun, rowVars, ledgerVars
  <2>2. op \in DOMAIN Writes  BY WritesValues
  <2>  QED  BY <2>1, <2>2, PlainRefund
<1>  QED
  BY <1>1, OpenTaskRefund, RefundCreditRefund, GuardedRefund,
     JobStatementsRefund DEF Statement

\* With nothing pending, the task of an active job is not settled.
LEMMA IdleRefund ==
  ASSUME RefundInv, stmts = <<>>
  PROVE  /\ \A o, u : ~Pending(o, u)
         /\ \A u \in Tasks \ ahead :
              /\ u \in refunded => Undelivered(u)
              /\ job[u] \in ActiveJob => ~Undelivered(u)
<1>1. \A o, u : ~Pending(o, u)
  BY TupleRange DEF Pending
<1>  QED  BY <1>1 DEF RefundInv, PaidBack

\* A callback that changes no task and puts no settled task's job back.
LEMMA CallbackRefund ==
  ASSUME RefundInv, stmts = <<>>, UNCHANGED <<task, refunded>>,
         ahead \subseteq ahead',
         \A u \in Tasks \ ahead' : job'[u] = job[u] \/ ~Undelivered(u),
         \A s \in Range(stmts') : s.task \notin ahead' => Expects(s)',
         LastOnly(stmts, FinalSettles)'
  PROVE  RefundInv'
<1>1. ASSUME NEW u \in Tasks \ ahead' PROVE PaidBack(u)'
  <2>1. /\ u \in refunded => Undelivered(u)
        /\ job[u] \in ActiveJob => ~Undelivered(u)
    BY <1>1, IdleRefund
  <2>2. Undelivered(u)' <=> Undelivered(u)  BY DEF Undelivered
  <2>  QED  BY <1>1, <2>1, <2>2 DEF PaidBack
<1>  QED  BY <1>1 DEF RefundInv

\* A plan for a failure: it puts the job back, or it finishes the job and
\* settles the task last.
FailureShape(z, t) ==
  /\ z \in Seq(Stmts)
  /\ \A s \in Range(z) : s.task = t
  /\ \/ \A s \in Range(z) : s.op \in {"job_retry", "attempt_finish"}
     \/ /\ \A s \in Range(z) :
             s.op \in {"job_finish", "attempt_finish", "task_settle"}
        /\ \E s \in Range(z) : s.op = "job_finish"
  /\ \A S : (\A s \in S : s.op = "task_settle") => LastOnly(z, S)

LEMMA FailurePlanShape ==
  ASSUME NEW t \in Tasks, NEW n, NEW error,
         NEW finally \in {"failed", "timed_out"}
  PROVE  FailureShape(FailurePlan(t, n, error, finally), t)
<1>  DEFINE a == Stmt("job_retry", t, "retrying")
            b == Stmt("attempt_finish", t, finally)
            c == Stmt("job_finish", t, finally)
            d == Stmt("task_settle", t, "failed")
<1>1. /\ a \in Stmts /\ a.op = "job_retry" /\ a.task = t
      /\ b \in Stmts /\ b.op = "attempt_finish" /\ b.task = t
      /\ c \in Stmts /\ c.op = "job_finish" /\ c.task = t
      /\ d \in Stmts /\ d.op = "task_settle" /\ d.task = t
  BY StmtType, WritesValues
<1>2. FailurePlan(t, n, error, finally) =
        IF Retryable(error) /\ n < MaxAttempts THEN <<a, b>> ELSE <<c, b, d>>
  BY DEF FailurePlan
<1>  HIDE DEF a, b, c, d
<1>3. /\ <<a, b>> \in Seq(Stmts) /\ Range(<<a, b>>) = {a, b}
      /\ <<c, b, d>> \in Seq(Stmts) /\ Range(<<c, b, d>>) = {c, b, d}
  BY <1>1, TupleRange
<1>4. ASSUME NEW S, \A s \in S : s.op = "task_settle"
      PROVE  LastOnly(<<a, b>>, S) /\ LastOnly(<<c, b, d>>, S)
  <2>1. a \notin S /\ b \notin S /\ c \notin S  BY <1>1, <1>4
  <2>2. LastOnly(<<a, b>>, S)  BY <1>3, <2>1, NoneIsLast
  <2>3. LastOnly(<<c, b, d>>, S)  BY <2>1 DEF LastOnly
  <2>  QED  BY <2>2, <2>3
<1>5. FailureShape(<<a, b>>, t)
  <2>1. \A S : (\A s \in S : s.op = "task_settle") => LastOnly(<<a, b>>, S)
    BY <1>4
  <2>  HIDE DEF LastOnly
  <2>2. \A s \in Range(<<a, b>>) :
          s.task = t /\ s.op \in {"job_retry", "attempt_finish"}
    BY <1>1, <1>3
  <2>  QED  BY <1>3, <2>1, <2>2 DEF FailureShape
<1>6. FailureShape(<<c, b, d>>, t)
  <2>1. \A S : (\A s \in S : s.op = "task_settle") => LastOnly(<<c, b, d>>, S)
    BY <1>4
  <2>2. \A s \in Range(<<c, b, d>>) :
          s.task = t /\ s.op \in {"job_finish", "attempt_finish", "task_settle"}
    BY <1>1, <1>3
  <2>3. \E s \in Range(<<c, b, d>>) : s.op = "job_finish"
    BY <1>1, <1>3
  <2>  QED  BY <1>3, <2>1, <2>2, <2>3 DEF FailureShape
<1>  QED  BY <1>2, <1>5, <1>6

\* The end of a failed attempt, or a claim that could not start one.
LEMMA PlanRefund ==
  ASSUME RefundInv, stmts = <<>>, NEW t \in Tasks,
         NEW p \in Seq(Stmts), NEW z, FailureShape(z, t), stmts' = p \o z,
         \A s \in Range(p) :
           s.op \in {"exec_set", "exec_timeout", "attempt_insert"},
         UNCHANGED <<task, refunded, ahead>>,
         \A u \in Tasks \ ahead : job'[u] = job[u] \/ ~Undelivered(u),
         t \notin ahead =>
           \/ job'[t] \notin ClaimableJob /\ ~Undelivered(t)
           \/ \A s \in Range(z) : s.op = "attempt_finish"
  PROVE  RefundInv'
<1>1. z \in Seq(Stmts) /\ \A s \in Range(z) : s.task = t
  BY DEF FailureShape
<1>2. Range(stmts') = Range(p) \cup Range(z)
  BY <1>1, ConcatRange
<1>3. LastOnly(stmts, FinalSettles)'
  <2>  DEFINE S == (FinalSettles)'
  <2>1. \A s \in S : s.op = "task_settle"  BY DEF FinalSettles
  <2>  HIDE DEF S
  <2>2. LastOnly(z, S)  BY <2>1 DEF FailureShape
  <2>3. \A s \in Range(p) : s \notin S  BY <2>1
  <2>4. LastOnly(p \o z, S)  BY <1>1, <2>2, <2>3, LastOnlyConcat
  <2>  QED  BY <2>4 DEF LastOnly, S
<1>4. Undelivered(t)' <=> Undelivered(t)  BY DEF Undelivered
<1>5. ASSUME NEW o, o \notin {"exec_set", "exec_timeout", "attempt_insert"},
             Pending(o, t)'
      PROVE  \E s \in Range(z) : s.op = o
  BY <1>2, <1>5 DEF Pending
<1>6. ASSUME NEW s \in Range(z), t \notin ahead PROVE Expects(s)'
  <2>1. s.task = t  BY <1>1, <1>6
  <2>2. CASE \A r \in Range(z) : r.op = "attempt_finish"
    BY <1>6, <2>2 DEF Expects
  <2>3. CASE /\ \A r \in Range(z) : r.op \in {"job_retry", "attempt_finish"}
             /\ job'[t] \notin ClaimableJob /\ ~Undelivered(t)
    <3>1. ~Pending("task_settle", t)'  BY <1>5, <2>3
    <3>2. s.op \in {"job_retry", "attempt_finish"}  BY <1>6, <2>3
    <3>  QED  BY <1>4, <2>1, <2>3, <3>1, <3>2 DEF Expects
  <2>4. CASE /\ \A r \in Range(z) :
                  r.op \in {"job_finish", "attempt_finish", "task_settle"}
             /\ \E r \in Range(z) : r.op = "job_finish"
             /\ job'[t] \notin ClaimableJob /\ ~Undelivered(t)
    <3>1. ~Pending("job_retry", t)'  BY <1>5, <2>4
    <3>2. Pending("job_finish", t)'
      <4>1. PICK r \in Range(z) : r.op = "job_finish"  BY <2>4
      <4>2. r.task = t /\ r \in Range(stmts')  BY <1>1, <1>2, <4>1
      <4>  QED  BY <4>1, <4>2 DEF Pending
    <3>3. s.op \in {"job_finish", "attempt_finish", "task_settle"}
      BY <1>6, <2>4
    <3>  QED  BY <2>1, <2>4, <3>1, <3>2, <3>3 DEF Expects
  <2>  QED  BY <1>6, <2>2, <2>3, <2>4 DEF FailureShape
<1>7. ASSUME NEW s \in Range(stmts'), s.task \notin ahead' PROVE Expects(s)'
  <2>1. CASE s \in Range(p)
    <3>1. s.op \in {"exec_set", "exec_timeout", "attempt_insert"}  BY <2>1
    <3>  QED  BY <3>1 DEF Expects
  <2>2. CASE s \in Range(z)
    <3>1. t \notin ahead  BY <1>1, <1>7, <2>2
    <3>  QED  BY <1>6, <2>2, <3>1
  <2>  QED  BY <1>2, <1>7, <2>1, <2>2
<1>  QED  BY <1>3, <1>7, CallbackRefund

LEMMA SubmitRefund ==
  ASSUME QueueInv, RefundInv, NEW t \in Tasks, Submit(t)
  PROVE  RefundInv'
<1>  DEFINE a == Stmt("task_insert", t, "created")
            b == Stmt("credit_consume", t, "none")
            c == Stmt("exec_insert", t, "queued")
            d == Stmt("job_insert", t, "queued")
            p == <<a>>
            q == IF t \in UnlimitedTasks THEN <<>> ELSE <<b>>
            r == <<c, d>>
            pq == p \o q
<1>1. /\ a \in Stmts /\ a.op = "task_insert" /\ a.task = t
      /\ b \in Stmts /\ b.op = "credit_consume" /\ b.task = t
      /\ c \in Stmts /\ c.op = "exec_insert" /\ c.task = t
      /\ d \in Stmts /\ d.op = "job_insert" /\ d.task = t
  BY StmtType, WritesValues
<1>2. /\ stmts = <<>> /\ stmts' = pq \o r /\ task[t] = "none"
      /\ UNCHANGED <<task, job, refunded, ahead>>
  BY DEF Submit, Idle, rowVars, ledgerVars
<1>  HIDE DEF a, b, c, d
<1>3. p \in Seq(Stmts) /\ Range(p) = {a}
  BY <1>1, TupleRange
<1>4. q \in Seq(Stmts) /\ Range(q) \subseteq {b}
  <2>1. <<b>> \in Seq(Stmts) /\ Range(<<b>>) = {b}
    BY <1>1, TupleRange
  <2>2. <<>> \in Seq(Stmts) /\ Range(<<>>) = {}
    BY TupleRange
  <2>3. q = <<>> \/ q = <<b>>  OBVIOUS
  <2>  QED  BY <2>1, <2>2, <2>3
<1>5. r \in Seq(Stmts) /\ Range(r) = {c, d}
  BY <1>1, TupleRange
<1>  HIDE DEF p, q, r
<1>6. pq \in Seq(Stmts) /\ Range(pq) \subseteq {a, b}
  BY <1>3, <1>4, ConcatRange
<1>  HIDE DEF pq
<1>7. Range(pq \o r) = Range(pq) \cup {c, d}
  BY <1>5, <1>6, ConcatRange
<1>8. \A s \in Range(stmts') :
        /\ s.task = t
        /\ s.op \in {"task_insert", "credit_consume", "exec_insert", "job_insert"}
  BY <1>1, <1>2, <1>6, <1>7
<1>9. ~Pending("task_settle", t)'
  BY <1>8 DEF Pending
<1>10. ~Undelivered(t)'
  BY <1>2 DEF Undelivered
<1>11. \A s \in Range(stmts') : Expects(s)'
  BY <1>8, <1>9, <1>10 DEF Expects
<1>12. LastOnly(stmts, FinalSettles)'
  <2>1. \A s \in Range(stmts') : s \notin (FinalSettles)'
    BY <1>8 DEF FinalSettles
  <2>2. LastOnly(stmts', (FinalSettles)')  BY <2>1, NoneIsLast
  <2>  QED  BY <2>2 DEF LastOnly
<1>  QED  BY <1>2, <1>11, <1>12, CallbackRefund

LEMMA FailureRefund ==
  ASSUME QueueInv, RefundInv, stmts = <<>>,
         NEW t \in Tasks, NEW n \in AttemptNumber,
         NEW op \in {"exec_set", "exec_timeout"}, NEW error,
         NEW finally \in {"failed", "timed_out"}, NEW z,
         z = (IF run[t][n] = "awaited"
              THEN HandleJobFailure(t, n, error, finally) ELSE <<>>),
         stmts' = << Stmt(op, t, "failed") >> \o z,
         UNCHANGED <<task, job, refunded, ahead>>
  PROVE  RefundInv'
<1>  DEFINE a == Stmt(op, t, "failed")
            p == <<a>>
            b == Stmt("attempt_finish", t, "cancelled")
<1>1. /\ a \in Stmts /\ a.op = op
      /\ b \in Stmts /\ b.op = "attempt_finish" /\ b.task = t
  BY StmtType, WritesValues
<1>2. stmts' = p \o z  OBVIOUS
<1>  HIDE DEF a, b
<1>3. p \in Seq(Stmts) /\ Range(p) = {a}  BY <1>1, TupleRange
<1>  HIDE DEF p
<1>4. CASE run[t][n] = "awaited" /\ job[t] # "cancelled"
  <2>1. z = FailurePlan(t, n, error, finally)
    BY <1>4 DEF HandleJobFailure
  <2>2. FailureShape(z, t)  BY <2>1, FailurePlanShape
  <2>3. job[t] = "running"
    BY <1>4 DEF QueueInv, OneLiveAttempt
  <2>4. t \notin ahead => job'[t] \notin ClaimableJob /\ ~Undelivered(t)
    BY <2>3, IdleRefund DEF ActiveJob, ClaimableJob
  <2>  QED  BY <1>1, <1>2, <1>3, <2>2, <2>4, PlanRefund
<1>5. CASE ~(run[t][n] = "awaited" /\ job[t] # "cancelled")
  <2>1. z = <<>> \/ z = <<b>>
    BY <1>5 DEF HandleJobFailure, b
  <2>2. /\ <<>> \in Seq(Stmts) /\ Range(<<>>) = {}
        /\ <<b>> \in Seq(Stmts) /\ Range(<<b>>) = {b}
    BY <1>1, TupleRange
  <2>3. /\ z \in Seq(Stmts)
        /\ \A s \in Range(z) : s.task = t /\ s.op = "attempt_finish"
    BY <1>1, <2>1, <2>2
  <2>4. ASSUME NEW S, \A s \in S : s.op = "task_settle" PROVE LastOnly(z, S)
    BY <2>3, <2>4, NoneIsLast
  <2>5. FailureShape(z, t)
    BY <2>3, <2>4 DEF FailureShape
  <2>  QED  BY <1>1, <1>2, <1>3, <2>3, <2>5, PlanRefund
<1>  QED  BY <1>4, <1>5

LEMMA RunFailsRefund ==
  ASSUME QueueInv, RefundInv, NEW t \in Tasks, NEW n \in AttemptNumber,
         \/ \E error \in RunErrors : RunFails(t, n, error)
         \/ StepTimeout(t, n)
  PROVE  RefundInv'
<1>1. ASSUME NEW error \in RunErrors, RunFails(t, n, error) PROVE RefundInv'
  <2>1. /\ stmts = <<>> /\ UNCHANGED <<task, job, refunded, ahead>>
        /\ stmts' = << Stmt("exec_set", t, "failed") >>
                     \o (IF run[t][n] = "awaited"
                         THEN HandleJobFailure(t, n, error, "failed") ELSE <<>>)
    BY <1>1 DEF RunFails, Idle, rowVars, ledgerVars
  <2>  QED  BY <2>1, FailureRefund
<1>2. CASE StepTimeout(t, n)
  <2>  DEFINE error == [code |-> "timed_out", retryable |-> "yes"]
  <2>1. /\ stmts = <<>> /\ UNCHANGED <<task, job, refunded, ahead>>
        /\ run[t][n] = "awaited"
        /\ stmts' = << Stmt("exec_timeout", t, "failed") >>
                     \o HandleJobFailure(t, n, error, "timed_out")
    BY <1>2 DEF StepTimeout, Idle, rowVars, ledgerVars
  <2>  HIDE DEF error
  <2>  QED  BY <2>1, FailureRefund
<1>  QED  BY <1>1, <1>2

LEMMA CancelRefund ==
  ASSUME RefundInv, NEW t \in Tasks, CancelJob(t)
  PROVE  RefundInv'
<1>  DEFINE a == Stmt("task_settle", t, "cancelled")
            b == Stmt("job_cancel", t, "cancelled")
<1>1. /\ a.op = "task_settle" /\ a.to = "cancelled"
      /\ b.op = "job_cancel" /\ b.to = "cancelled"
  BY DEF Stmt
<1>2. /\ stmts = <<>> /\ stmts' = <<a, b>>
      /\ UNCHANGED <<task, job, refunded, ahead>>
  BY DEF CancelJob, Idle, rowVars, ledgerVars
<1>  HIDE DEF a, b
<1>3. Range(stmts') = {a, b}  BY <1>2, TupleRange
<1>4. \A s \in Range(stmts') : Expects(s)'
  BY <1>1, <1>3 DEF Expects
<1>5. LastOnly(stmts, FinalSettles)'
  <2>1. \A s \in Range(stmts') : s \notin (FinalSettles)'
    BY <1>1, <1>3 DEF FinalSettles
  <2>2. LastOnly(stmts', (FinalSettles)')  BY <2>1, NoneIsLast
  <2>  QED  BY <2>2 DEF LastOnly
<1>  QED  BY <1>2, <1>4, <1>5, CallbackRefund

\* A claimed job's task is not settled; an attempt that misses its agent
\* settles the task ahead of the job.
LEMMA ClaimRefund ==
  ASSUME QueueInv, RefundInv, NEW t \in Tasks, ClaimNextDueJob(t)
  PROVE  RefundInv'
<1>  DEFINE n == attempts'[t]
            a == Stmt("attempt_insert", t, "started")
            e == FailurePlan(t, n, HandlerError, "failed")
            b == Stmt("exec_set", t, "running")
            c == Stmt("task_run", t, "running")
            d == Stmt("await", t, "awaited")
            m == AgentMissing(t, n)
<1>1. /\ job[t] \in ClaimableJob /\ stmts = <<>>
      /\ job' = [job EXCEPT ![t] = "running"]
      /\ UNCHANGED <<task, refunded>>
  BY DEF ClaimNextDueJob, Idle, ledgerVars
<1>2. PICK plan \in {e, StartRun(t), m} :
        /\ stmts' = <<a>> \o plan
        /\ ahead' = IF plan = m THEN ahead \cup {t} ELSE ahead
  <2>1. \E plan \in
          IF emergencyStop
          THEN { FailurePlan(t, attempts'[t], HandlerError, "failed") }
          ELSE {StartRun(t)} \cup
               (IF t \in ResearchTasks THEN {}
                ELSE {AgentMissing(t, attempts'[t])}) :
          /\ stmts' = <<a>> \o plan
          /\ ahead' = IF plan = m THEN ahead \cup {t} ELSE ahead
    BY DEF ClaimNextDueJob
  <2>  HIDE DEF a
  <2>  QED  BY <2>1
<1>3. /\ a \in Stmts /\ a.op = "attempt_insert" /\ a.task = t
      /\ b \in Stmts /\ b.op = "exec_set" /\ b.task = t
      /\ c \in Stmts /\ c.op = "task_run" /\ c.task = t
      /\ d \in Stmts /\ d.op = "await" /\ d.task = t
  BY StmtType, WritesValues
<1>4. StartRun(t) = <<b, c, d>>  BY DEF StartRun
<1>5. m \in Seq(Stmts) /\ \A s \in Range(m) : s.task = t
  BY AgentMissingType
<1>6. FailureShape(e, t)  BY FailurePlanShape
<1>  HIDE DEF a, b, c, d, e, m, n
<1>7. /\ t \notin ahead => ~Undelivered(t)
      /\ job'[t] \notin ClaimableJob
      /\ \A u \in Tasks \ ahead : job'[u] = job[u] \/ ~Undelivered(u)
  <2>1. /\ job'[t] = "running"
        /\ \A u \in Tasks : u # t => job'[u] = job[u]
    BY <1>1 DEF QueueInv, QueueTypeOK
  <2>2. t \notin ahead => ~Undelivered(t)
    BY <1>1, IdleRefund DEF ActiveJob
  <2>  QED  BY <2>1, <2>2 DEF ClaimableJob
<1>  DEFINE p == <<a>>
<1>8. p \in Seq(Stmts) /\ Range(p) = {a}  BY <1>3, TupleRange
<1>9. stmts' = p \o plan  BY <1>2
<1>  HIDE DEF p
<1>10. CASE plan = m
  <2>1. Range(stmts') = {a} \cup Range(m)
    BY <1>5, <1>8, <1>9, <1>10, ConcatRange
  <2>2. \A s \in Range(stmts') : s.task \in ahead'
    BY <1>2, <1>3, <1>5, <1>10, <2>1
  <2>3. LastOnly(stmts, FinalSettles)'
    <3>1. \A s \in Range(stmts') : s \notin (FinalSettles)'
      BY <2>2 DEF FinalSettles
    <3>2. LastOnly(stmts', (FinalSettles)')  BY <3>1, NoneIsLast
    <3>  QED  BY <3>2 DEF LastOnly
  <2>4. ahead \subseteq ahead'  BY <1>2
  <2>  QED  BY <1>1, <1>7, <2>2, <2>3, <2>4, CallbackRefund
<1>11. CASE plan # m /\ plan = e
  <2>1. ahead' = ahead  BY <1>2, <1>11
  <2>2. \A s \in Range(p) : s.op \in {"exec_set", "exec_timeout", "attempt_insert"}
    BY <1>3, <1>8
  <2>3. stmts' = p \o e  BY <1>9, <1>11
  <2>  QED  BY <1>1, <1>6, <1>7, <1>8, <2>1, <2>2, <2>3, PlanRefund
<1>12. CASE plan # m /\ plan = StartRun(t)
  <2>  DEFINE q == <<b, c, d>>
  <2>1. q \in Seq(Stmts) /\ Range(q) = {b, c, d}  BY <1>3, TupleRange
  <2>2. stmts' = p \o q  BY <1>4, <1>9, <1>12
  <2>  HIDE DEF q
  <2>3. Range(stmts') = {a, b, c, d}
    <3>1. Range(p \o q) = Range(p) \cup Range(q)
      BY <1>8, <2>1, ConcatRange
    <3>  QED  BY <1>8, <2>1, <2>2, <3>1
  <2>4. ahead' = ahead  BY <1>2, <1>12
  <2>5. \A s \in Range(stmts') :
          /\ s.task = t
          /\ s.op \in {"attempt_insert", "exec_set", "task_run", "await"}
    BY <1>3, <2>3
  <2>6. ~Pending("task_settle", t)'  BY <2>5 DEF Pending
  <2>7. t \notin ahead => ~Undelivered(t)'
    BY <1>1, <1>7 DEF Undelivered
  <2>8. \A s \in Range(stmts') : s.task \notin ahead' => Expects(s)'
    BY <2>4, <2>5, <2>6, <2>7 DEF Expects
  <2>9. LastOnly(stmts, FinalSettles)'
    <3>1. \A s \in Range(stmts') : s \notin (FinalSettles)'
      BY <2>5 DEF FinalSettles
    <3>2. LastOnly(stmts', (FinalSettles)')  BY <3>1, NoneIsLast
    <3>  QED  BY <3>2 DEF LastOnly
  <2>  QED  BY <1>1, <1>7, <2>4, <2>8, <2>9, CallbackRefund
<1>  QED  BY <1>2, <1>10, <1>11, <1>12

\* A result finishes the job only if the job still runs.
LEMMA RunSucceedsRefund ==
  ASSUME QueueInv, RefundInv, NEW t \in Tasks, NEW n \in AttemptNumber,
         RunSucceeds(t, n)
  PROVE  RefundInv'
<1>  DEFINE cancelled == job[t] = "cancelled"
            awaited == run[t][n] = "awaited"
            a == Stmt("exec_set", t, "completed")
            b == Stmt("task_complete", t, "completed")
            c == Stmt("attempt_finish", t, "cancelled")
            d == Stmt("job_finish", t, "completed")
            e == Stmt("attempt_finish", t, "completed")
            x == IF cancelled /\ t \notin ResearchTasks THEN <<>> ELSE <<a>>
            y == IF cancelled THEN <<>> ELSE <<b>>
            z == IF ~awaited THEN <<>>
                 ELSE IF cancelled THEN <<c>> ELSE <<d, e>>
            xy == x \o y
<1>1. /\ a \in Stmts /\ a.op = "exec_set" /\ a.task = t
      /\ b \in Stmts /\ b.op = "task_complete" /\ b.task = t
      /\ c \in Stmts /\ c.op = "attempt_finish" /\ c.task = t
      /\ d \in Stmts /\ d.op = "job_finish" /\ d.task = t
      /\ e \in Stmts /\ e.op = "attempt_finish" /\ e.task = t
  BY StmtType, WritesValues
<1>2. /\ stmts = <<>> /\ stmts' = xy \o z
      /\ UNCHANGED <<task, job, refunded, ahead>>
  BY DEF RunSucceeds, SuccessPlan, Idle, rowVars, ledgerVars
<1>  HIDE DEF a, b, c, d, e
<1>3. x \in Seq(Stmts) /\ Range(x) \subseteq {a}
  <2>1. <<a>> \in Seq(Stmts) /\ Range(<<a>>) = {a}  BY <1>1, TupleRange
  <2>2. <<>> \in Seq(Stmts) /\ Range(<<>>) = {}  BY TupleRange
  <2>3. x = <<>> \/ x = <<a>>  OBVIOUS
  <2>  QED  BY <2>1, <2>2, <2>3
<1>4. y \in Seq(Stmts) /\ Range(y) \subseteq {b}
  <2>1. <<b>> \in Seq(Stmts) /\ Range(<<b>>) = {b}  BY <1>1, TupleRange
  <2>2. <<>> \in Seq(Stmts) /\ Range(<<>>) = {}  BY TupleRange
  <2>3. y = <<>> \/ y = <<b>>  OBVIOUS
  <2>  QED  BY <2>1, <2>2, <2>3
<1>5. /\ z \in Seq(Stmts) /\ Range(z) \subseteq {c, d, e}
      /\ ~(awaited /\ ~cancelled) => Range(z) \subseteq {c}
  <2>1. /\ <<c>> \in Seq(Stmts) /\ Range(<<c>>) = {c}
        /\ <<d, e>> \in Seq(Stmts) /\ Range(<<d, e>>) = {d, e}
    BY <1>1, TupleRange
  <2>2. <<>> \in Seq(Stmts) /\ Range(<<>>) = {}  BY TupleRange
  <2>3. /\ z = <<>> \/ z = <<c>> \/ z = <<d, e>>
        /\ ~(awaited /\ ~cancelled) => z = <<>> \/ z = <<c>>
    OBVIOUS
  <2>  HIDE DEF x, y, z, awaited, cancelled
  <2>4. z \in Seq(Stmts) /\ Range(z) \subseteq {c, d, e}
    BY <2>1, <2>2, <2>3
  <2>5. ASSUME ~(awaited /\ ~cancelled) PROVE Range(z) \subseteq {c}
    BY <2>1, <2>2, <2>3, <2>5
  <2>  QED  BY <2>4, <2>5, Zenon
<1>  HIDE DEF x, y, z
<1>6. xy \in Seq(Stmts) /\ Range(xy) \subseteq {a, b}
  BY <1>3, <1>4, ConcatRange
<1>  HIDE DEF xy
<1>7. Range(stmts') = Range(xy) \cup Range(z)
  <2>1. Range(xy \o z) = Range(xy) \cup Range(z)
    BY <1>5, <1>6, ConcatRange
  <2>  QED  BY <1>2, <2>1
<1>8. \A s \in Range(stmts') :
        /\ s.task = t
        /\ s.op \in {"exec_set", "task_complete", "attempt_finish", "job_finish"}
  BY <1>1, <1>5, <1>6, <1>7
<1>9. ASSUME NEW s \in Range(stmts'), s.op = "job_finish"
      PROVE  job'[t] \notin ClaimableJob
  <2>1. s = d  BY <1>1, <1>5, <1>6, <1>7, <1>9
  <2>2. awaited /\ ~cancelled
    BY <1>1, <1>5, <1>6, <1>7, <1>9, <2>1
  <2>3. job[t] = "running"  BY <2>2 DEF QueueInv, OneLiveAttempt
  <2>  QED  BY <1>2, <2>3 DEF ClaimableJob
<1>10. ~Pending("job_retry", t)'  BY <1>8 DEF Pending
<1>11. \A s \in Range(stmts') : Expects(s)'
  BY <1>8, <1>9, <1>10 DEF Expects
<1>12. LastOnly(stmts, FinalSettles)'
  <2>1. \A s \in Range(stmts') : s \notin (FinalSettles)'
    BY <1>8 DEF FinalSettles
  <2>2. LastOnly(stmts', (FinalSettles)')  BY <2>1, NoneIsLast
  <2>  QED  BY <2>2 DEF LastOnly
<1>  QED  BY <1>2, <1>11, <1>12, CallbackRefund

\* Recovery puts a job back whose task is not settled, and fails a task whose
\* job is over.
LEMMA RecoverRowRefund ==
  ASSUME RefundInv, NEW t \in Tasks,
         \/ RecoverStaleJob(t) \/ RecoverOrphanExecution(t)
         \/ RecoverOrphanTask(t)
  PROVE  RefundInv'
<1>  DEFINE a == Stmt("job_retry", t, "queued")
            b == Stmt("job_finish", t, "failed")
            c == Stmt("task_settle", t, "failed")
            d == Stmt("exec_set", t, "failed")
<1>1. /\ a.op = "job_retry" /\ a.task = t
      /\ b.op = "job_finish" /\ b.task = t
      /\ c.op = "task_settle" /\ c.task = t
      /\ d.op = "exec_set" /\ d.task = t
  BY DEF Stmt
<1>2. /\ \/ stmts' = <<a>> /\ job[t] = "running"
         \/ stmts' = <<b, c>> /\ job[t] = "running"
         \/ stmts' = <<c>> /\ job[t] \notin ActiveJob
         \/ stmts' = <<d>>
      /\ stmts = <<>>
      /\ UNCHANGED <<task, job, refunded, ahead>>
  BY DEF RecoverStaleJob, RecoverOrphanExecution, RecoverOrphanTask,
     Recovering, StaleJobs, OrphanTasks, rowVars, ledgerVars
<1>  HIDE DEF a, b, c, d
<1>3. job[t] = "running" => /\ t \notin ahead => ~Undelivered(t)'
                            /\ job'[t] \notin ClaimableJob
  BY <1>2, IdleRefund DEF ActiveJob, ClaimableJob, Undelivered
<1>4. ASSUME NEW s \in Range(stmts'), s.task \notin ahead' PROVE Expects(s)'
  <2>1. CASE stmts' = <<a>> /\ job[t] = "running"
    <3>1. Range(stmts') = {a}  BY <2>1, TupleRange
    <3>2. ~Pending("task_settle", t)'  BY <1>1, <3>1 DEF Pending
    <3>  QED  BY <1>1, <1>2, <1>3, <1>4, <2>1, <3>1, <3>2 DEF Expects
  <2>2. CASE stmts' = <<b, c>> /\ job[t] = "running"
    <3>1. Range(stmts') = {b, c}  BY <2>2, TupleRange
    <3>2. Pending("job_finish", t)'  BY <1>1, <3>1 DEF Pending
    <3>3. ~Pending("job_retry", t)'  BY <1>1, <3>1 DEF Pending
    <3>  QED  BY <1>1, <1>3, <1>4, <2>2, <3>1, <3>2, <3>3 DEF Expects
  <2>3. CASE stmts' = <<c>> /\ job[t] \notin ActiveJob
    <3>1. Range(stmts') = {c}  BY <2>3, TupleRange
    <3>  QED  BY <1>1, <1>2, <1>4, <2>3, <3>1 DEF Expects
  <2>4. CASE stmts' = <<d>>
    <3>1. Range(stmts') = {d}  BY <2>4, TupleRange
    <3>  QED  BY <1>1, <1>4, <3>1 DEF Expects
  <2>  QED  BY <1>2, <2>1, <2>2, <2>3, <2>4
<1>5. LastOnly(stmts, FinalSettles)'
  <2>  DEFINE S == (FinalSettles)'
  <2>1. b \notin S  BY <1>1 DEF FinalSettles
  <2>  HIDE DEF S
  <2>2. LastOnly(<<a>>, S) /\ LastOnly(<<c>>, S) /\ LastOnly(<<d>>, S)
    BY DEF LastOnly
  <2>3. LastOnly(<<b, c>>, S)
    BY <2>1 DEF LastOnly
  <2>4. LastOnly(stmts', S)
    BY <1>2, <2>2, <2>3
  <2>  QED  BY <2>4 DEF LastOnly, S
<1>  QED  BY <1>2, <1>4, <1>5, CallbackRefund

\* A crash that leaves a job active under a cancelled task cut its
\* cancellation short.
LEMMA CrashRefund ==
  ASSUME QueueInv, AgreeInv, RefundInv, Crash
  PROVE  RefundInv'
<1>1. /\ UNCHANGED <<task, job, refunded>> /\ stmts' = <<>>
      /\ ahead' = ahead \cup CutShort
  BY DEF Crash, rowVars, ledgerVars
<1>2. ASSUME NEW u \in Tasks \ ahead' PROVE PaidBack(u)'
  <2>1. PaidBack(u) /\ u \notin CutShort  BY <1>1, <1>2 DEF RefundInv
  <2>2. Undelivered(u)' <=> Undelivered(u)  BY <1>1 DEF Undelivered
  <2>3. ASSUME Undelivered(u), Pending("job_cancel", u) PROVE FALSE
    <3>1. PICK s \in Range(stmts) : s.op = "job_cancel" /\ s.task = u
      BY <2>3 DEF Pending
    <3>2. Knows(s)  BY DEF AgreeInv
    <3>3. task[u] = "cancelled"
      BY <2>3, <3>1, <3>2 DEF Knows, Returned, RefundNext, CancelNext,
         Undelivered, NonTerminalTask
    <3>4. \E i \in DOMAIN stmts : stmts[i] = s  BY DEF Range
    <3>5. u \in CutShort  BY <3>1, <3>3, <3>4 DEF CutShort
    <3>  QED  BY <2>1, <3>5
  <2>  QED  BY <1>1, <2>1, <2>2, <2>3 DEF PaidBack
<1>3. Range(stmts') = {}  BY <1>1, TupleRange
<1>4. LastOnly(stmts, FinalSettles)'
  <2>1. LastOnly(stmts', (FinalSettles)')  BY <1>3, NoneIsLast
  <2>  QED  BY <2>1 DEF LastOnly
<1>  QED  BY <1>2, <1>3, <1>4 DEF RefundInv

LEMMA QuietRefund ==
  ASSUME RefundInv,
         NextPass \/ \E on \in BOOLEAN : SetEmergencyStop(on)
  PROVE  RefundInv'
<1>1. /\ stmts = <<>> /\ stmts' = <<>>
      /\ UNCHANGED <<task, job, refunded, ahead>>
  BY DEF NextPass, Recovering, SetEmergencyStop, Idle, rowVars, procVars,
     ledgerVars
<1>2. Range(stmts') = {}  BY <1>1, TupleRange
<1>3. LastOnly(stmts, FinalSettles)'
  <2>1. LastOnly(stmts', (FinalSettles)')  BY <1>2, NoneIsLast
  <2>  QED  BY <2>1 DEF LastOnly
<1>  QED  BY <1>1, <1>2, <1>3, CallbackRefund

LEMMA RefundInvInit == Init => RefundInv
<1>  SUFFICES ASSUME Init PROVE RefundInv  OBVIOUS
<1>1. stmts = <<>> /\ Range(stmts) = {}  BY TupleRange DEF Init
<1>2. \A t \in Tasks : PaidBack(t)
  BY DEF Init, LedgerInit, PaidBack, Undelivered
<1>3. LastOnly(stmts, FinalSettles)  BY <1>1, NoneIsLast
<1>  QED  BY <1>1, <1>2, <1>3 DEF RefundInv

LEMMA RefundInvStep ==
  ASSUME EngineInv, AgreeInv, RefundInv, [Next]_vars
  PROVE  RefundInv'
<1>  USE DEF EngineInv
<1>1. CASE UNCHANGED vars
  <2>1. UNCHANGED <<task, job, refunded, stmts, ahead>>
    BY <1>1 DEF vars, rowVars, procVars, ledgerVars
  <2>  QED
    BY <2>1 DEF RefundInv, PaidBack, Undelivered, Expects, Pending, LastOnly,
       FinalSettles
<1>2. ASSUME NEW t \in Tasks,
             Submit(t) \/ ClaimNextDueJob(t) \/ CancelJob(t) \/ Statement(t)
      PROVE  RefundInv'
  BY <1>2, SubmitRefund, ClaimRefund, CancelRefund, StatementRefund
<1>3. ASSUME NEW t \in Tasks, NEW n \in AttemptNumber,
             RunSettles(t, n) \/ StepTimeout(t, n)
      PROVE  RefundInv'
  BY <1>3, RunSucceedsRefund, RunFailsRefund DEF RunSettles
<1>4. CASE Crash
  BY <1>4, CrashRefund
<1>5. ASSUME NEW on \in BOOLEAN, SetEmergencyStop(on) PROVE RefundInv'
  BY <1>5, QuietRefund
<1>6. CASE Recover
  BY <1>6, QuietRefund, RecoverRowRefund DEF Recover
<1>  QED  BY <1>1, <1>2, <1>3, <1>4, <1>5, <1>6 DEF Next

\* A credit is given back for undelivered work only, and nothing delivers the
\* work afterwards: not a late attempt, not a retry, not the recovery of its
\* job (executor.ts, queue.ts, task-reconciler.ts, recovery.ts).  The tasks
\* that the code settles ahead of a living job are excepted.
THEOREM EngineDeliversNothingRefunded == Spec => []RefundedIsNotDelivered
<1>1. RefundInv /\ EngineInv /\ AgreeInv /\ [Next]_vars => RefundInv'
  BY RefundInvStep
<1>2. RefundInv /\ LedgerTypeOK => RefundedIsNotDelivered
  BY DEF RefundInv, PaidBack, Undelivered, RefundedIsNotDelivered, LedgerTypeOK
<1>3. Spec => []LedgerTypeOK
  BY EngineImplementsLedger, LedgerTypeCorrect, PTL
<1>  QED
  BY <1>1, <1>2, <1>3, EngineInvariant, AgreeInvariant, RefundInvInit, PTL
  DEF Spec
=============================================================================
