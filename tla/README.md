# Verification of AKBARAL!

AKBARAL! is a Node 22 / TypeScript server.  Users spend task credits on agents;
a persistent queue executes agent tasks and multi-step workflows, retries what
may succeed, settles what does not and gives the credit back.  This directory
holds TLA+ models of the parts of that program where interleavings, crashes and
retries decide whether it is correct, the configurations under which TLC checks
them, and proofs, checked by TLAPS, of what matters most.  Paths below are
relative to the repository root.

Contents: 1 the system, 2 the modules, 3 the runs, 4 the bounds, 5 fairness,
6 the proofs, 7 findings, 8 what is left out, 9 the plan, 10 how to run.

## 1. The system

One process, one event loop, one database.  The database layer is synchronous
(SQLite in the process, or PostgreSQL behind a worker thread the main thread
blocks on), so the code between two `await`s runs without interleaving with any
other callback.  It does not run without crashes: every SQL statement outside a
`db.transaction` is committed on its own, and the process may die between any
two.  After a restart `recoverInterruptedWork` runs before anything else
(`src/index.ts:75-84`).  The platform is deployed as a single process
(`docs/DEPLOYMENT.md:20`, `docker-compose.production.yml:13`).

The mission is a second program with a database of its own, whose agents spend
and earn money.  It runs as several processes (a server, a money worker, chat
workers), so there the interleaving is between database transactions: each
operation is one, serialised with the others by an advisory lock, and providers
are awaited between two of them.

### Components that are modelled

| part | state it keeps | operations | what is hard | what makes it correct |
|---|---|---|---|---|
| Task-credit ledger (`src/db/repositories.ts`, `platform-repositories.ts`) | `credit_accounts`, `credit_transactions` | consume, refund, grant, reverse | refunds are asked for by six callers, some of them for the same task | conservation per pool, one refund per task, to the pool it was taken from |
| Agent-task engine (`src/orchestrator/queue.ts`, `executor.ts`, `task-reconciler.ts`, `recovery.ts`, `errors.ts`; `src/db/queue-repositories.ts`) | `tasks`, `agent_executions`, `execution_jobs`, `job_attempts`; in memory, the awaited attempts | submit, claim, attempt, retry, time out, cancel, settle, recover | four rows per task written by separate statements; attempts that outlive their timeout; crashes | no job or task is lost, the retry budget holds, every unsuccessful task is refunded, settled work stays settled |
| Workflow engine (`src/orchestrator/workflow-runner.ts` under `queue.ts`) | `workflows`, `workflow_steps` and a task per dispatched step; in memory, the call of `runWorkflow` | run, resume, skip, refuse, dispatch, synthesise, time out, cancel, retry, recover | two timers, a probe for cancellation between steps, a resume from a half-finished attempt | one run at a time, dependencies first, a step is paid once, workflow and job agree |
| PostgreSQL bridge (`src/db/driver.ts`, `pg-worker.mjs`) | one shared state word and two shared buffers; `pgClosed` | post, wait, read, give up; connect, test, execute, reply | two threads on `Atomics.wait`/`notify`, stale notifications, a deadline | a call gets its own reply, executes at most once, and comes back |
| Database transactions (`src/db/driver.ts`, `src/mission/database.ts`) | `inTransaction`, the depth of savepoints; in the database, the open transaction | begin, execute, commit, roll back; nest, release, roll back to | `COMMIT`, `ROLLBACK` and `ROLLBACK TO` fail too; PostgreSQL aborts a transaction, SQLite does not | returned means durable, threw means nothing left, what a nested one undid stays undone, no transaction stays open |
| Automation scheduler (`src/automation/scheduler.ts`, `cron.ts`, `validate.ts`, `src/db/automation-repositories.ts`, `src/routes/automations.ts`) | `automations`, `automation_runs`, a workflow job per launch | create, fire, reconcile, recover, run by hand, pause, resume, edit, cancel, delete | a run, its workflow and the next due time are written by separate statements; cancellations and timeouts meet jobs that end | an occurrence is launched once, no workflow loses its run, no run stays open, nothing stays due |
| Billing (`src/billing/*.ts`, `src/routes/billing.ts`) | `invoices`, `payments`, `subscriptions`, `billing_entitlements`, `processed_billing_events` | purchase, check out, switch plan, handle a webhook, settle by hand, refund | events are claimed before their effects, come twice and in any order; each effect is several statements | credits are granted and reversed once; a paid invoice is settled whole; a paid plan is paid for |
| Mission cash (`src/mission/money.ts`, `money-stripe.ts`, `ledger-reconciliation.ts`) | cash accounts with what is available and held, payment operations, receipts, debts; in memory, the call to the provider each process awaits | allocate, request, approve, cancel, dispatch, ask, settle, book a receipt, a refund or a reversal, freeze, kill | a request whose fate nobody knows; two processes with answers of different age; earnings taken back after they were spent | a payment is sent once, holds are exact, limits hold, the books are the provider's and catch up with it |
| Resource calls (`src/mission/resource-*.ts`, `chat-worker.ts`, `treasury.ts`) | calls and their holds, the resource with its period and usage, the wallet, the chat jobs; in memory, where each worker is | reserve, claim, invoke, settle, doubt, cancel, reconcile, record a cost, renew, recover | a slow worker taken for a dead one; an answer after its deadline; costs above their estimate | a call is sent once and its quota kept, holds and caps stand, a job does not contradict its call |
| Autonomous work (`src/economy/operations.ts`, `src/workforce/scheduler.ts`, `execution.ts`) | `economy_opportunities`, `economy_executions`, deliveries and the costs in the ledger; in memory, the ticks and what each run remembers | evaluate, authorize, reassign, tick, reconcile, run, cancel, deliver, fail | two timers and the owner run the same executions across awaits; a run that outlives its timeout; a crash between two rows | one runner and one live execution at a time, the retry budget, one delivery, the cost of every answer booked |
| Economy treasury (`src/economy/treasury.ts`, `src/db/financial-transaction.ts`) | the ledger `economy_ledger`; receipts, settlements, transfers, reinvestments, resources, upgrades | receive, propose, decide, settle, provision, apply, roll back, freeze | a balance is read at the proposal, at the decision and by others in between; `applyUpgrade` takes no lock | no cent is spent twice, the ledger agrees with the rows, decisions are final |

How they interact: the HTTP routes call the engine (`createAgentTask`,
`enqueueWorkflow`, `cancelJob`); the engine's `tick` claims a job and calls the
executor or `runWorkflow`, and awaits them under a timer; both call the task
reconciler, which calls the ledger; everything writes through the database
layer, whose PostgreSQL variant is the bridge.  The automation scheduler
enqueues workflows and reads how their jobs end.  After a crash, recovery reads
the rows of all of them.  Billing puts credits into the same accounts and takes
them back.  In the mission, chat workers make resource calls that hold money of
an agent's wallet; the money worker pays from cash accounts; both consult the
policy an owner may set to "killed" at any moment.  In the economy, autonomous
work posts its costs to the ledger of the treasury, and its running opportunities
reserve part of it.

### Components that are not modelled

| part | state and operations | hard because | correct means |
|---|---|---|---|
| Mission earning pipeline, server, human actions | feature-specific rows with guarded status updates | breadth, not depth | guarded transitions |
| Delegation, wallets and spawning of agents (`src/workforce/delegation.ts`, `wallets.ts`, `src/economy/hierarchy.ts`) | agent identities, quotas, wallets | limits counted over a tree of agents | as the treasury |
| Models, agents and tools (`src/models`, `src/agents`, `src/tools`) | none that outlives a call | provider failures and in-call retries | their outcome is nondeterministic in the engine models; what the fallback chain of models charges is in `WorkExecution` |
| Authentication, real-time stream, notifications, routes, front ends | sessions; best-effort publication | sequential per request | outside of the questions asked here |

Modelling starts with the execution engine because it is the core of the
product (everything a user pays for goes through it), because its failures cost
credits, and because its interleavings cannot be produced by the unit tests,
which run handlers to completion.

## 2. The modules

| module | models | composition |
|---|---|---|
| `CreditLedger` | one credit account with its three pools | the operations the next ones are built from |
| `JobLifecycle` | the life of one job row | the abstract specification of a job |
| `AgentQueue` | agent tasks on the engine | extends `CreditLedger`; implements `JobLifecycle` |
| `WorkflowQueue` | one multi-step workflow on the engine | extends `CreditLedger`; implements `JobLifecycle` |
| `SyncDatabase` | what the database layer promises its callers | abstract specification |
| `PgBridge` | the two threads of the bridge | implements `SyncDatabase` |
| `DbTransaction` | `Database.transaction` on either engine, and the mission's nested ones | over calls with the outcomes `SyncDatabase` allows |
| `AutomationScheduler` | one automation, its runs and their jobs | the jobs are external: they move as `JobLifecycle` allows |
| `Billing` | the billing of one account | extends `CreditLedger`, whose account it fills and the engine draws on |
| `MissionMoney` | cash accounts, payments and receipts of the mission | the payment provider is external |
| `ResourceCalls` | chat jobs, the calls they make, their quota and holds | the metered provider is external |
| `WorkExecution` | opportunities, their executions and who runs them | tools and model are external; its costs are the `Work` of the treasury |
| `EconomyTreasury` | the economy's ledger and everything that draws on it | what running work reserves is an input |
| `Totals` | the sum of a column over a set of rows | used by the four modules above |
| `MC...` | small instances of each, for TLC | extend the module they instantiate |
| `...Proofs` | theorems and lemmas | extend the modules they are about: `DatabaseProofs` both `PgBridge` and `DbTransaction`, `MissionProofs` both `MissionMoney` and `ResourceCalls`, `EconomyProofs` both `WorkExecution` and `EconomyTreasury`, `AccountProofs` both `Billing` and `AutomationScheduler`; the lemmas about sums are in `TotalsProofs` |

**CreditLedger.**  `balance` and `freeUsed` are the columns of
`credit_accounts`; `consumedFrom` and `refunded` are the `consume_task` and
`refund_task` rows of `credit_transactions`, which is where the code looks
before it refunds.  Each operation is one `db.transaction` and one action.
`funded` sums what was put in, so that conservation can be stated.

**AgentQueue.**  The four rows of a task are functions on `Tasks`.  A callback
of the event loop is one action (`Submit`, `ClaimNextDueJob`, `RunSucceeds`,
`RunFails`, `StepTimeout`, `CancelJob`, `SetEmergencyStop`, and the recovery
steps): it evaluates the conditions of the code and leaves in `stmts` the
statements it goes on to execute.  Each statement is an action with the guard of
its SQL (`FinishJob` only applies `WHERE status = 'running'`, `RunTask` has no
guard at all), no callback starts before `stmts` is empty, and `Crash` may
happen before any of them.  A condition the code evaluates later in the callback
may be evaluated when the callback starts, because nothing else runs in between;
where a statement decides what follows (`CompleteTask`, `SettleTask`), the
statement itself extends the list.  `run[t][n]` is the dispatch promise of
attempt `n`: `awaited` by its handler or `late`, when the step timer won and
nobody reads the answer, which still arrives and still writes its rows.
`ahead` is a history: the tasks the code settles although their job lives on,
because the agent of the attempt was withdrawn (`AgentMissing`) or a crash cut a
cancellation between its task and its job (`CutShort`; section 7).

**WorkflowQueue.**  `runner` holds the local state of `runWorkflow` (where it
is, its map of completed steps, its flags) and whether the queue's handler still
awaits it; `late` are the dispatches whose step timer won.  The actions of
`Loop` are the iterations of the code's loop between two awaits.  `stepTask` is
`workflow_steps.task_id`; a task is named by the attempt and the step, because a
new attempt creates new tasks.  Attempt rows, worker locks and outputs, which
`AgentQueue` has, are not repeated.

**PgBridge.**  Every `Atomics` operation on the state word is an action, and so
are the test before a sleep and the notification after a store; the sleepers are
woken by `NotifyMain` and `NotifyWorker` whether or not the notification is
theirs.  The server is external: a query succeeds, fails, never ends, or loses
the connection with or without effect.

**DbTransaction.**  `session`, `pending` and `committed` are the external
database; the driver's own state is `pc`, `inTx` and `stack`, the savepoints.
`setup` fixes the engine and whether callbacks swallow the error of a statement
or catch that of a nested transaction and go on.  The two engines differ where
the code relies on the server: an error aborts a PostgreSQL transaction, whose
`COMMIT` then rolls back and reports success and which `ROLLBACK TO` brings
back; on SQLite it undoes the statement only.  The mission ignores an error of
its own `ROLLBACK TO` and rethrows the first one (`mission/database.ts:167-177`).

**AutomationScheduler.**  `autoStatus`, `schedule` and `nextRunAt` are the row of
the automation; `runs` has the rows of `automation_runs` by idempotency key,
`job` the status of the workflow job of each launch.  Time is counted in minutes
because the key of an occurrence is (`scheduler.ts:440`).  A tick of the code
fires and then reconciles every open run; here `FireDue` and `ReconcileRun` are
actions of their own, because each reads its rows anew.  As in `AgentQueue`, a
callback leaves its statements in `pending` and the process may die before any of
them; in addition any of them may throw, and `Throw` does what the `catch` of
`fireDue` does: it advances past the occurrence and leaves the run behind.  Job
statuses are grouped as `reconcileRun` groups them (`retrying` is running,
`timed_out` is failed).  A deletion leaves a loop over the open runs
(`CancelOpenRuns`), newest first, which ends where none is open.  A one-time
schedule may lie `ClockSkew` minutes in the past (`validate.ts:104`).  Whether a condition holds and whether the owner has
credits are inputs, and a grace period or a time budget may be over at any
moment.

**Billing.**  Like the engine's callbacks, a handler leaves its statements in
`stmts` and the process may die before any of them; the two handlers that await
a provider (`purchaseCustomCredits`, `startPlanCheckout`) are split there.  An
invoice is a purchase of `credits[i]` credits, or a plan where that is 0.  The
provider sends any event about any invoice that exists, again after it was
lost, and `named` says whether the event carries the id of the invoice: the one
a checkout causes carries its number (section 7).  `UseCredit` is the engine
drawing on the account between two handlers.

**MissionMoney.**  One action is one transaction, or one step of the provider
call that a process awaits between two (`run`).  `available`, `held` and
`heldFor` are kept apart as the code keeps account rows and entries apart,
because the gate `assertLedgerReconciled` compares them.  `posts` counts the
requests that were sent, `wire` and `payment` are the network and the provider,
who acts once for an idempotency key.  The owner's `Forbids` (kill, revoke,
freeze, edit a destination) may come between any two steps.  The worker reads
the policy once more before it sends, the claim does not (`money.ts:444-461`).

**ResourceCalls.**  One agent, one resource with one counter, one wallet; a job
and its call share a name, as the code's idempotency key does.  `worker` is
where each process is in `runNextAgentChat`; every other worker's tick may
recover a job that is older than two minutes (`Overdue`), whether or not the
process that has it still runs.  What the owner and the world do under a call
in flight (`Change`: policy, credential, budget, day, period, other expenses, a
usage report, an answer of the agent by other means) is bounded by `MaxEvents`.
"supervised" stands for whatever `assertAgentChatReady` refuses; `mission` is the
policy of the mission, the `policy` of `MissionMoney`.

**WorkExecution.**  A step is what the code does between two awaits: a tick up
to its search for opportunities (`TickStart`, which reconciles first), its
evaluations and authorizations (`Dispatch`), the claim of an execution (`Begin`),
the return of its tools and of the model.  `runner[r].snapshot` is the row as
`runWorkforceExecution` read it before the claim: attempts and cost are computed
from it, while `assertRuntime` reads status and agent anew (`MayGoOn`).
`PartOfStep` lists what a step may have written when the process dies in it,
because execution and opportunity are two statements.  `doubled` names the
executions that reconciliation took from a runner that was still at work
(section 7); the invariants except them.
`charged` is what the provider knows.  It charges while the run awaits it
(`ModelCharges`), as often as the fallback chain of `ModelRouter.complete` calls
another model; `bill[r]` is what the call awaited now has cost.  Only an answer
whose transaction commits books it (`ModelAnswers`).  What a model charged that
did not answer, what a run charged that then failed, in the call or in a statement
after it (`RunFails`), and what a dead process would have booked (`EveryRunDies`)
goes to `lost`.  An opportunity may be evaluated anew and an execution given to
another agent while it runs.
The refusals before the claim (brakes, source, workflow, registry) are one
choice; images, platform bindings and messages are left out.  The route that
reconciles is a `TickStart` of a scheduler that stays idle.

**EconomyTreasury.**  One process is idle, or holds the lock and has decided
(`Decide`), or is between two steps of `applyUpgrade`; `Commit` writes the row and
its ledger entry, a crash before it writes nothing.  `posted` is the ledger: one
entry for each reference.  `Available` and `Net` are the two balances the code
derives from it, which do not deduct the same things.  A resource is approved at a
price and provisioned at what it did cost, which is what the quota and the funds
are asked for (`Provision`).  The owner's freezes come
between any two steps, also between a decision and its commit, which is where
the code reads the policy without a lock.

## 3. The runs

### Passing

| run | instance | distinct states | what it shows |
|---|---|---|---|
| `billing` | two invoices, one event id and events without one, purchases of 1 credit, one task, one crash | 3.7 million | An invoice grants and reverses its credits at most once, and only when paid or refunded (`GrantedOnce`); what was paid while due and met no crash is settled whole, in every order of consumption, purchase, refund and reversal (`SettledWhole`, with the types); one live subscription, and a paid one only for a paid invoice (`LivePlanIsPaidFor`). |
| `engine` | two tasks, one on each executor path, that may overlap and share one credit; two attempts each, one crash, fairness | 671,990 | A job is marked completed or cancelled only after its task was delivered, or refunded (`JobAgreesWithTask`); nothing moves a task once it and its job are settled (`SettledStaysSettled`); no job or task is left behind by a crash (`NothingLeftBehind`); refunds without a crash (`UnsuccessfulTaskRefunded`); what was refunded is not delivered, by no late attempt, retry or recovery, but for the tasks in `ahead` (`RefundedIsNotDelivered`); the job row as `JobLifecycle`, its retry budget included (`JobRowsFollowLifecycle`); every task settles, and its job with it (`TasksSettle`). |
| `workflow` | four steps, one without an agent, one blocked by it, one depending on a step that runs; two attempts, three crashes, fairness | 233,189 | A completed step was delivered after its dependencies (`CompletedStepsAreSound`), a step is paid once (`StepPaidOnce`), a settled job leaves nothing of its workflow open (`SettledJobClosesWorkflow`), what was cancelled or settled has no further effect (`SettledIsFinal`), and the workflow settles unless three crashes lose it (`WorkflowSettles`, `LostWorkflow`; section 7). |
| `bridge` | four calls, fairness of the main thread only | 5,589 | The bridge implements `SyncDatabase`, and every call comes back (`CallsReturn`). |
| `transaction` | three statements, two levels of savepoints, both engines, callbacks that swallow errors on SQLite only | 21,418 | What returned is durable (`ReturnedIsDurable`); no transaction stays open and what a nested one undid never becomes durable (`FailedLeavesNothing`). |
| `automation` | one automation that may be edited to each kind of schedule, two minutes, one manual run, two faults, fairness | 691,406 | A job that is queued or running belongs to an open run, but for one per fault, and a settled run tells the truth about its job (`RunsMatchJobs`, with the types); an occurrence is launched once, but for one fault (`LaunchedOnce`); an interval skips the occurrences it missed (`NoBackfill`); nothing stays due and no run stays open (`SchedulerServes`). |
| `money` | two payments of one agent, one with approval, two earnings that may be taken back, two days, one crash | 1.2 million | The gate never closes by itself (`AlwaysReconciled`); cash and debt are what the provider says came in and went out (`BooksAgreeWithProvider`); neither the agent's limit nor the day's is passed (`WithinLimits`). |
| `money_race` | one withdrawal, the server and the worker, one crash, one restriction by the owner, fairness of the worker | 151,495 | A payment is sent once and failed only if it was returned (`SentOnce`); what the provider decided is booked in the end, also while the mission is killed, frozen or in debt (`DecidedIsSettled`). |
| `resource_calls` | two jobs, two workers, quota and money for both calls, one intervention or crash, two periods, symmetric jobs and workers | 1.1 million | Calls are sent once and keep their quota (`SentOnceAndKept`), an account is booked for one call and usage covers the calls (`UsageCoversCalls`), holds follow calls and are in the wallet (`HoldFollowsCall`), and no step but the owner's passes the caps (`CapsHold`). |
| `work` | one opportunity, both schedulers, one request of the owner, two agents, two attempts; two crashes, switches, overruns, evaluations, reassignments or models that charge in vain; fairness | 898,746 | An execution has one runner, the one that claimed it, within its retry budget (`WorkedOnce`); a completed one has its one verified delivery (`CompletedIsDelivered`); every charged cent is booked once, also for a cancelled or doubled run, unless it is still awaited or went with a run that failed or died (`CostIsBooked`); what was authorized ends, though the process dies and leaves executions running (`WorkSettles`). |
| `treasury` | two processes, one agent, a payment entered twice, one transfer, reinvestment, resource, settlement and work, a sound and an unsound upgrade, one crash or freeze | 983,604 | What is decided about an agent's surplus was earned by it (`DecidedFromEarnings`); settlements and resources come out of realized revenue (`SettledFromRevenue`); entries and rows agree and a payment counts once (`BooksMatchRows`, with the types); decisions are final (`DecisionsAreFinal`). |

Some definitions in the property sections are proved (section 6) but not
checked again by a run: the type invariants other than those above,
`Conservation`, `FreeUsedIsExact`, `OneLiveAttempt`, `ClaimableHasBudget`,
`OneRunAtATime`, `NoStrandedJob` and `JobRowFollowsLifecycle` of the workflow,
`NoLostWakeup`, `ReplyIsOwn`, `OpenMeansSettled`, `ThrewLeavesNothing`,
`HoldsAreExact`, `JobTellsItsCall`, `PeriodIsClosed`, `OneLiveExecution` and
`FinalStaysFinal`.

Between them these runs fire every action and every disjunct of the next-state
relations they instantiate.  Every property was also run against a mutated model
that has a plausible bug of the code (the definitions marked "Mutant"): each of
them is violated, so none holds by the shape of the model.

### Violated

`reopened_task` checks one statement the repository makes about itself, and TLC
finds a behaviour of the code that contradicts it; section 7 explains it.

## 4. The bounds

* `MaxBoots` bounds the process starts.  The first crash makes the interesting
  intermediate states durable; a second one may interrupt the recovery from the
  first.  The engine run has one: with fairness and two tasks a second one is out of
  reach, and the proofs of the engine's invariants are for any number.  The
  `workflow` run has three, one for each attempt and one for the recovery from
  the last: the least that can lose a workflow (section 7).
* `MaxAttempts` is 2, the default of the code: a first attempt that may be
  retried and a last one that may not.
* Two tasks suffice for what tasks share: the credit account, the concurrency
  limit and the emergency stop.  Everything else is per task.
* Four workflow steps are the least with a completed, a refused, a blocked and
  an independently running one.  Workflows share no row but the account.
* `MaxFunded` bounds purchases, in the billing run only.  The queue runs have
  none: a purchase commutes with every statement, and the proofs of section 6
  are for any ledger step.
* Two invoices are a purchase and a plan, or two that compete for the same
  subscription or the same balance; one event id is delivered any number of
  times, and events without an id are not claimed at all.  One crash: a handler
  is short, and what it loses is lost at once.
* `MaxCalls` is 4: a notification can be left over from one call and met in the
  next; nothing survives two, because a bridge whose call is uncertain closes.
* Three statements in `transaction`: two in one transaction, one after it.  Two
  levels of savepoints: an inner one that is rolled back inside an outer one.
* `Horizon` is 2: an automation created at 0 has an occurrence at 1 and one at
  2, which is missed if the scheduler is late with the first.  Occurrences share
  no row but the automation.
* `MaxFaults` is 2: the launch and its recovery can both be interrupted, which
  with `MaxRecoveryAttempts` = 2 (3 in the code) reaches the run that is given
  up.  `ManualAlone`: one manual run, in the last minute and only where no
  occurrence was fired or is due, because a manual run reads and writes nothing
  that occurrences do; the theorems hold without it, and for any of the others.
  `ClockSkew` is 1 (5 in the code), enough to choose an occurrence that has passed.

* Two payments suffice for the limits, which are sums: with amounts of 1, a
  reservation of up to 2 and limits of 2, one of them fits beside the other or
  not.  Two earnings let one be taken back while the other pays the debt.
  `MaxDays` is 2, so that what was spent yesterday no longer counts today.
  `MaxRestrictions` is 1 in `money_race`, where allowing again is not bounded, and
  0 in `money`, where `BookReversal` kills and freezes without it.
* Two callers, one of them the worker: the code has two kinds of process.
* Two jobs and two workers: a job that is recovered under its worker, and a call
  that shares quota, wallet and period with another one.  `MaxEvents` is 1: each
  intervention by itself; two that undo each other are left out.  A period is
  renewed once.

* `work` has one opportunity in one round, with both schedulers and the owner
  around it: opportunities share only `MaxActive`, which is 1, and the ticks, and
  rounds only the check for a live execution.  Several opportunities and rounds are
  left to the theorems, which are for any number (`OneLiveExecution` among them).
  `MaxEvents` is 2, so that a restart meets a second fault.  It bounds crashes,
  switches, overruns, evaluations and reassignments by the owner, and models that
  charge and do not answer; a run that fails after it was charged is not bounded.
  `Costs` is {1}: calls that cost something and calls that cost nothing.
* The treasury has amounts of 1 and 2, such that a payment pays for two of the
  decisions that want it but not for all, one quota that binds (a resource is approved at all of it, so that it fits
  beside another debit only if it costs less), and a float of 0
  (`Threshold` only shifts the sums).

No run has an owner account, which consumes no credit
(`UnlimitedTasks = {}`, `Unlimited = FALSE`): its behaviours are those of the
other accounts without the two ledger statements.  The theorems include it.

Deadlock is checked in the engine run.  The other models end: the workflow has
settled, the calls are used up, the statements are executed, the automation is
deleted, the invoices are settled, the payments are booked, the jobs are
finished, the rounds of an opportunity are used up, the receipts are entered.  Their configurations switch the check off; that nobody waits for
ever is a liveness property there (`WorkflowSettles`, `CallsReturn`,
`SchedulerServes`, `DecidedIsSettled`, `WorkSettles`).

## 5. Fairness

* Statements of a running callback, the loop of `runWorkflow` and the recovery
  passes: weak fairness.  JavaScript does not suspend a synchronous function,
  and a process that stays up executes it to its end.
* `StepTimeout` and `WorkflowTimeout`: weak fairness.  `raceWithTimeout` sets a
  timer for every awaited run, and a timer of a process that stays up fires.
* `ClaimNextDueJob`: strong fairness.  The poll loop runs for ever and takes the
  oldest due job; whether a slot is free changes, hence strong.  In `AgentQueue`
  it is per task, which the order of the claim (`ORDER BY` in
  `claimNextDueJob`) justifies for finitely many jobs.
* The bridge: the main thread executes its own code and its deadline comes.
  Nothing is assumed of the worker or of PostgreSQL.
* The scheduler: weak fairness of its statements; strong fairness of `FireDue`
  and of reconciling some open run.  Its timer ticks every second for as long as
  the process is up, and a tick visits every due automation and every open run,
  whatever users and the engine change between two of them.  Nothing is assumed
  of the engine: a job may run until its budget is over.
* The money worker: a call ends, by its timeout of 20 seconds if need be (weak
  fairness of `Uncertain` and `AskFails`); every tick asks about every payment
  under way, oldest first (strong fairness of `Ask`, which only needs the worker
  to be free); and not all calls about a payment the provider knows fail, nor all
  settlements of an answer (strong fairness of `Answer` and `Settle`).  Nothing
  is assumed of the server's own calls, of the provider's decision or of the
  owner.  The billing and resource runs state no liveness: a webhook or a chat
  worker may never run again.
* Autonomous work: weak fairness of each scheduler, which is either at a step of
  its tick, whose timer is an interval (`operations.ts:411`), or at a step of the
  run it awaits, because tools and model calls time out (20 to 45 seconds in `tools/registry.ts:138`, 60 in
  `models/client.ts:120`) and a timeout is a failure (`RunFails`); the same for a
  run of the owner once it has begun; and of the passing of `timeout_at`.  The
  property asks for brakes that are off from some time on.  The treasury states
  no liveness: everything waits for an owner.
* Nothing is assumed of users, administrators, providers and crashes: answers
  may be withheld for ever, the emergency stop may stay on.  Crashes are bounded
  by `MaxBoots`, which stands for a server that stays up in the end.

## 6. The proofs

All theorems are about the specifications above, for every value of their
constants that satisfies the named assumptions (`QueueAssumption`,
`WorkflowAssumption`, `BridgeAssumption`, `TransactionAssumption`, `BillingAssumption`,
`MoneyAssumption`, `ResourceAssumption`, `WorkAssumption`, `TreasuryAssumption`, the ledger's on its
constants): any number of tasks, steps, attempts, restarts, calls, savepoints,
invoices, events, payments, jobs, workers, opportunities and schedulers.

**Ledger** (`CreditLedgerProofs`): `LedgerTypeCorrect`, `LedgerConserves`,
`LedgerFreeCounterExact`.  `LedgerInv` is the conjunction of the three
properties and is inductive as it stands: that a refund cannot drive
`free_credits_used` below zero needs that the counter equals the number of free
credits held, and conservation needs that a task is in one pool only.  The
arithmetic rests on the cardinality lemmas of `FiniteSetTheorems`.

**Agent-task engine** (`AgentQueueProofs`).  A statement that touches credits is a
ledger operation, so `LedgerConserves` carries over: `EngineConservesCredits`.
That is all the ledger says; when a credit may be returned is the subject of
`EngineDeliversNothingRefunded` below.  `EngineTypeCorrect`, `EngineKeepsBudget`,
`EngineOneLiveAttempt` and the refinement `EngineImplementsLifecycle` rest on one
inductive invariant, `EngineInv`.  None of these properties is inductive: the
statements still to be executed decide what happens next.  So `QueueInv` says
of each statement in `stmts` what its callback knew when it chose it
(`PendingOK`: a retry is only pending while attempts remain, a settlement only
while nobody awaits the task), that a callback that will await changes no job
row before (`AwaitAlone`), and that a submission inserts its job last
(`InsertLast`).  `QuietRecovery` adds that nothing is awaited before the server
serves.  The lemmas follow `Next`: `StatementKeepsInv` for the seventeen
statements, one lemma for each callback.

Three further invariants rest on it.  `AgreeInv` gives `EngineJobAgreesWithTask`,
`EngineRefundsUnsuccessful` and `EngineSettledStaysSettled`: it says in which
order statements may stand in a callback (`Ordered`), and of each what must be
true of the rows until it is executed (`Knows`); for instance that the task of a
pending "completed" is open with its completion before it, or is delivered, and
that the unguarded switch to "running" is only pending under a running job.  The
task of an attempt that is waited for is open, or a late attempt has delivered it
(`AwaitedTaskLives`): this is why a retry that reopens a completed task does no
harm to the job.  `LeftInv` gives `EngineLeavesNothingBehind`: every running job
has who moves it on (`Handled`: a handler that waits, a pending statement, or
recovery, since after a crash no lock is the new process's), and every open task
without an active job has who settles it (`Owned`).

`RefundInv` gives `EngineDeliversNothingRefunded`.  A task leaves "failed" or
"cancelled" only by a statement that asks for no status (the switch to "running"
of the executor), so it must never be pending for a task that was paid back, and
no job may live that would claim the task again.  `PaidBack` says that the job of
a settled task is over, or is being cancelled by the callback that settled it;
`Expects` says what each pending statement relies on: those that would reopen the
task or its job are not pending once it is settled or is about to be, a refund
follows its settlement, and a job is finished before its task is failed, so that a
crash between the two leaves no job to retry it.  `LastOnly`: nothing follows the
statement that fails a task but the refund that it adds itself.

**Workflow engine** (`WorkflowQueueProofs`): `WorkflowConservesCredits`, `WorkflowTypeCorrect`, `WorkflowRunsOnce`,
`WorkflowJobNotStranded`, `WorkflowJobImplementsLifecycle`, and of the properties
of its run `StepsCompletedSoundly`, `WorkflowClosesWithJob`,
`WorkflowStaysSettled` and `WorkflowPaysStepOnce`.  `WorkflowInv` adds to the types: where the runner may be (`RunnerFitsRows`), that a job which is or
is about to become claimable has no run going on and an attempt left
(`OpenJobIsFree`), and that a running job has a run its handler awaits, or a
pending statement that ends it, or the recovery ahead (`RunningJobIsHeld`).
The second is what makes an overall timeout safe although nothing stops the run
that lost: its plan finishes the job and never puts it back.

Four more invariants stand on it, each on those before; TLC checked each of them
on the instance of the run.

* `SettleInv`: how workflow and job settle together.  Whoever is about to settle
  the job has settled the workflow or does so in the statement before
  (`WorkflowFirst`), except recovery, which writes the job first and can lose the
  workflow; a run whose job somebody else settled does not write over it
  (`Settles`).  It gives `WorkflowAgreesWithJob` and `WorkflowStaysSettled`.
* `StepInv`: how step, link and task go with the run that awaits them.  What a
  callback knew of steps when it left a statement still holds when it executes
  (`KnowsSteps`); a late dispatch is of an attempt before the one that runs
  (`LateDispatches`); the task of an awaited step is open and linked unless
  somebody is settling its job (`StepAwaited`); and a completed step is the last
  thing a callback writes (`Ordered`), so that it names a delivered task.  It gives
  `StepsCompletedSoundly`.
* `TaskInv`, before a crash: an open task is the one the run awaits or is about to
  be settled (`OpenTasksOwned`), so that a cancellation, which goes by the steps
  that are running, reaches every one.  It gives `WorkflowClosesWithJob`.
* `PaidInv`, before a crash: a task keeps its credit while it is open or once it is
  delivered (`Firm`), and a delivery completes its step, hence no further task of
  the step takes a credit.  It gives `WorkflowPaysStepOnce`.

**Bridge** (`DatabaseProofs`): `BridgeTypeCorrect` (no call is executed twice),
`BridgeReplyIsOwn`, `BridgeOpenMeansSettled`, `BridgeLosesNoWakeup`, and
`BridgeIsSynchronous`, the refinement of `SyncDatabase`.  `BridgeInv` ties the
position of each thread to the value of the state word (`MainInv`, `StateInv`,
`WorkerInv`): whoever wrote the word last is known from it, and a request
belongs to the last call until its reply is read.

**Transactions** (`DatabaseProofs`): `TransactionTypeCorrect`,
`FailedTransactionLeavesNothing`, `TransactionIsClosed`, and
`ReturnedTransactionIsDurable`, the last under the hypothesis that the engine is
SQLite or no callback swallows an error.  The hypothesis is needed: with
`Setups <- SwallowSetup` in its configuration, `MCDbTransaction` has a
counterexample to `ReturnedIsDurable`.  `TransactionInv` adds to the types how
the driver's place and the server's transaction go together (`SessionInv`), that
what was reported as executed is what is pending (`EffectInv`), and of every
savepoint that what it leads back to is part of what is pending now and of what
the savepoints above it lead back to, nothing of it undone (`StackInv`); the
last is what makes a rollback to any depth safe.

**Sums** (`TotalsProofs`).  Accounts, quotas and ledgers are about sums over sets
of rows, and `Total` is a recursion over a finite set.  The induction theorems of
the library take an operator and cannot be used, but a minimal counterexample
needs none: a collection of subsets of a finite set has a minimal one
(`MinimalSubset`), which `FS_StrictSubsetOrderingWellFounded` gives.  From it
follow that the recursion has one solution (`SumsExist`, `SumsUnique`), that any
element can be split off (`TotalSplit`), that sums are monotone (`TotalMonotone`,
`TotalSubset`), and what most steps of a model need: a step that changes the part of
one element changes the sum by that much (`TotalStep`).

**Billing** (`AccountProofs`): `CreditsGrantedOnce`, `InvoicesSettledWhole`,
`PlanIsPaidFor`, from one inductive invariant, `BillingInv`.  A handler decides from
what it reads when it starts, and its statements are committed one by one; what has
to be said is that each list of statements that can be left in `stmts` still goes
with the rows.  `Paying` and `Refunding` say it stage by stage of the settlement and
the refund of an invoice (what is marked so far, and that its grant or reversal is
still to come and has not come before), `Subscribing` of a change of plan,
`Claiming` of an event whose effects are exactly those the rows ask for now.
`AllWhole` is `SettledWhole` without its premise: an invoice no crash cut is whole,
or it is the one `stmts` is about.  A crash drops `stmts`, and every stage has a
statement that names its invoice, so that `interrupted` does.  The proof needs that
no other handler starts in between, which the code's synchronous stretches give.
`BillingConservesCredits`: nothing is lost across purchases and refunds, because
the statements that touch the account are ledger operations.

**Automation scheduler** (`AccountProofs`): `RunsAndJobsAgree`,
`OccurrencesLaunchedOnce` and `MissedOccurrencesAreSkipped`, from `AutomationInv`,
which TLC checked on the instance of the run.  Under `AutomationAssumption` (finitely
many manual runs, schedules whose period is not zero) they hold for any `Horizon`,
`ClockSkew` and number of faults.

* `CallbackGoesOn`: what is left in `pending` is one of the lists a callback can
  leave, and what the callback read is still so (`AtRun`): the row to be inserted is
  absent and is of the due occurrence, the run to be launched is queued with no job
  of this attempt, the job to be cancelled is that of an open run.  `Afterwards` is
  what follows a run: nothing, the next due time, a pause, or the rest of a deletion.
* `RowsSound`: an absent run has launched nothing, no job is of an attempt to come,
  and an open run without a job is queued.
* `LostToFaults`: launches that no run has as its job number at most the faults.
  Between the enqueueing and the attachment a launch is lost only if the callback
  is cut there; `InFlight` exempts it until then.  A run has one job, so both
  `LaunchedOnce` and `LiveJobIsOwned` follow.
* `NothingMissed`: the occurrence an interval waits for lies after every run that
  was inserted, because an advance goes beyond the present.
* Of a deleted automation only `GoneForGood` is left: nothing moves any more, and the
  jobs that go on were lost to faults, because the loop has settled every open run.

**Mission cash** (`MissionProofs`): `MoneyTypeCorrect`, which says that no
account is overdrawn; `HoldsExact`, that the entries hold by operation what is
reserved for it; and `PaymentSentOnce`.  `SentOnce` is not inductive: `SentInv`
adds that a caller which has yet to send is the only one for its payment, which
is still "dispatching" and was never sent (`OneSender`), that the provider knows
nothing of what it was not sent (`UnsentUnknown`), and that an answer, however
old, was given by what the provider did (`AnswerKnown`, `SenderPosted`).

Three theorems are about sums.  `AccountsReconciled` adds to `HoldsExact` that an
account holds the sum of what its live payments reserved (`HeldIsReserved`).
`LimitsKept` rests on `LimitInv`: nothing was completed on a day that has not come
(`DatedInv`), so that a new day begins with nothing spent, and each day that is over
kept its limit (`PastInv`); a settlement replaces what was reserved by no more than
that.  `BooksAreTheProviders` rests on `BookInv`: an answer that a caller
still carries can no longer be contradicted (`AnswersStand`), what completed was
decided so by the provider, a refund belongs to a completed payment, and cash less
debt is the balance of those (`Balanced`), which each transaction changes on both
sides by the same amount.

**Resource calls** (`MissionProofs`): `ResourceTypeCorrect`,
`CallSentOnce`, `JobToldTheTruth`, `PeriodClosed`, `HoldsAndAccounts`.  All but
the first rest on one inductive invariant, `Sound`: no two workers have the same
job, a worker's place in the code bounds what its job and call can be
(`WorkerSound`), which is weak enough to survive recovery by another worker and
cancellation by the owner; a call's status says what its job, its request, its
hold and its period are (`CallSound`); and accounts are booked once.
`UsageCovered` adds `UseInv` (no call is of a later period than the resource, and
its usage is at least the sum over the calls of the period), `HoldsFollowCalls` that the
wallet has the sum of the holds (`HeldInWallet`), and `CapsAreKept` looks at the
steps: a hold that is taken passed the caps, every other step moves money from
held to spent or gives it back.

**Autonomous work** (`EconomyProofs`): `WorkTypeCorrect`,
`ExecutionWorkedOnce`, `DeliveredIfCompleted`, `OneLive`, `FinalKept`.  They rest
on `WorkInv`, which adds to the types and `OneLiveExecution` that a live execution
is owned (`Owned`): whoever works on it is the only one, its row is "running", and
the attempts its runner remembers are one less than those of the row.  This is
what makes the two decisions about a retry, one from memory and one from the
row, the same decision.  The lemmas classify the steps by what they do to one
execution: nothing (`Kept`), a start, a claim or a close (`Started`, `Begun`,
`Closed`), so that each property is proved once for each kind instead of once for
each action.

`CostsBooked` says that what was charged is booked, awaited or lost with its run,
and also speaks of executions that two runners work on.  A posting is
refused where its execution and attempt are in the ledger, and the attempt is what
the run remembers: a cent would be lost if two runs remembered the same.
`CostInv` says that they do not, not even those of a doubled execution, and that
none remembers an attempt that is posted (`AttemptsDiffer`): every claim raises
the number, and nothing lowers it.

**Treasury** (`EconomyProofs`): `RequestsAreEarned`, `SpendingIsRealized`,
`LedgerMatchesRows`, which has the types, and `RequestsStayDecided`.  They rest on
`TreasuryInv`.  The balances a decision was made from are read in one step and used
in another; the invariant says of the process that holds the lock that its decision
is still one for the row as it is (`Decidable`), that the balances of now cover it
(`Covered`) and that no payment it repeats has come (`FirstTime`), for nobody else
holds the lock (`OneHolder`) and nothing posts without it.  Rows may move meanwhile
(`Moves`): a resource retired between decision and commit is the one case, and is
harmless.  `applyUpgrade` holds no lock between its steps; of it the invariant says
that two processes may both have passed the checks, but that the second entry is
the first one's reference (`OperationOK`, `UpgradesPaid`).  The sums then need
`DecidedWithin`: what an account decided is part of what is deducted from it.

Only model-checked: liveness (`TasksSettle`, `WorkflowSettles`, `CallsReturn`,
`SchedulerServes`, `DecidedIsSettled`, `WorkSettles`), because neither fairness nor
`ENABLED` is within reach of the prover.  Every invariant and every action property
of the passing runs has a theorem.

## 7. Findings

| run | what the repository says | what the code does |
|---|---|---|
| `reopened_task` | Every terminal transition is guarded, races cannot overwrite each other (`src/orchestrator/task-reconciler.ts:15-18`). | The executor's switch to `running` (`executor.ts:459`) is unguarded.  A timed-out attempt may complete the task while the job waits for its retry; the retry reopens it. |

More observations, kept in the models but without a run.  Of the engine and the
database layer:

* Status and refund of a failed task are two transactions
  (`task-reconciler.ts:41`), where `queue.ts:43-45` promises a refund for a crash
  too: after a crash between them no pass looks at a terminal task.
  `UnsuccessfulTaskRefunded` is therefore stated for `boot = 1`.
* The handler's catch (`queue.ts:346`) keeps the message of an error and drops
  its code, so an attempt that the emergency stop refused is retried, although
  `errors.ts:5-25` lists `emergency_stop` among the permanent failures.
* `isCancelled` stays false for a `timed_out` job (`queue.ts:337-338`), so a
  workflow past its overall budget goes on to its next steps and consumes
  credits for them; `docs/ROADMAP.md:141-144` speaks of a safe abort.
* A workflow may be lost.  The process dies in every attempt between the claim of
  the job and the mark `running` of the workflow, and once more between the two
  writes with which recovery gives the job up (`recovery.ts`, first pass): then the
  job is failed, and no later recovery finds the workflow, because the pass over
  workflows asks for `running` ones only (`recovery.ts:128`,
  `queue-repositories.ts:293`).  It stays `planned` for ever, where
  `recovery.ts:25-26` says that a crash during recovery is safe to re-run.
  `JobAndWorkflowAgree` and `WorkflowSettles` except exactly this
  (`LostWorkflow`); the proof of the first shows that there is no other way.
* A requeued workflow owns its interrupted task during recovery and then
  overwrites the link to it (`workflow-runner.ts:173`); the task stays `running`
  with its credit until another restart, where `recovery.ts:24-25` promises a
  refund.

* An agent that is not visible any more fails and refunds its task inside the
  attempt (`executor.ts:464`) although the comment at `executor.ts:308-313` leaves
  the task to the queue while it owns the retry.  The retry reopens the task, and if
  the agent is visible again it is delivered with its credit back.
* `cancelJob` cancels and refunds the task before it marks the job
  (`queue.ts:213-232`).  A process that dies in between leaves a job that is claimed
  after the restart, and the task is delivered, refunded.  Both contradict
  "Exactly one credit is consumed per successful task"
  (`src/business/owner-analytics.ts:477`); `RefundedIsNotDelivered` excepts them by
  name (`ahead`), and its proof shows that there is no other way.
* The executor's late write of `agent_executions` (`executor.ts:589`) is
  unguarded, so an execution marked as timed out may become completed, where
  `workflow-runner.ts:360-362` speaks of late writers that cannot overwrite.
* On PostgreSQL `COMMIT` of an aborted transaction returns normally, so a
  callback that caught the error of one statement makes `transaction()` return
  with nothing durable (`driver.ts:497`), where `driver.ts:307-308` gives the
  bridge the transaction atomicity of SQLite.  One caller swallows:
  `src/mission/opportunity-catalog.ts:375-377`.
* A cron automation that was down fires every missed occurrence in turn, because
  `advance` steps from the occurrence it fired (`scheduler.ts:421`); the header
  (31-34), the comment at 415 and `docs/ROADMAP.md:744-746` say that missed
  occurrences are not backfilled.  `NoBackfill` is stated for intervals; for cron
  schedules it is violated.
* A one-time schedule may be set up to five minutes in the past (`validate.ts:104`)
  and is fired then, where the message of the check says that it must be in the
  future.
* A deletion looks at the fifty newest runs (`routes/automations.ts:214`); an open run
  behind them loses its row and its workflow goes on.  The model has the loop
  without the limit.
* A run recovered after a crash is launched without the condition and the credit
  check that its firing had not reached (`scheduler.ts:331`).
* A one-shot occurrence that was skipped for want of credits keeps its key: when
  the automation is resumed, it is taken for fired (`scheduler.ts:440`).
* A job of a failed workflow hides its steps from the step pass of recovery
  (`recovery.ts:75`): they stay `running`; their tasks are settled.
* Skipped runs count as the last run (`automation-repositories.ts:218`), so a
  condition on the last outcome that failed once stays failed until a manual run.

Of billing (`src/billing/service.ts`):

* An event is claimed before its effects (429): what a crash cuts off is not
  repeated by the provider's retry, which is a duplicate.  `SettledWhole` excepts
  the invoices a crash interrupted, and `interrupted` names them.
* A crash between the payment of an invoice and its grant, followed by a refund,
  reverses credits that were never granted; the balance stops at zero.
* A manual settlement grants the credits its admin names (610-653); a later refund
  reverses those of the line item.  It does not touch the payment row.
* The refund of a plan's invoice leaves the subscription live.
* An event of payment after one of failure leaves the payment row `failed`.
* A crash between the two statements of `switchPlan` leaves no live subscription.
* `createStripeCheckout` sends the invoice *number* as `client_reference_id`
  (`providers.ts:63`), where `stripe.ts:121` recovers "our invoice id" from it: the
  webhook looks the number up as an id, claims the event and answers
  `invoice_not_found` (in the model, an event that is not `named`).
* A purchase of credits through a provider is inserted as `pending`
  (`service.ts:210`), which `settleInvoicePayment` does not accept (288).

Of the mission:

* A payment whose request never reached the provider keeps its hold for ever:
  absence of an answer is not failure, by design (`money-stripe.ts:89-103`).
* A payment the provider charged more for than was reserved stays open.
* The cash paths of `src/mission/treasury.ts` are refused by the server
  (`server.ts:1534-1543`, `1644`): they account for what happened before.

Of the economy:

* Reconciliation requeues a live execution past its timeout
  (`economy/operations.ts:355`) although its runner is still at work; a second
  runner claims it, and both deliver and enter its expected revenue, where
  `operations.ts:47-48` says that restarts and racing ticks can never
  double-execute.  `doubled` names these executions, and the invariants except them.
* A tick runs a list it read before its awaits; what the other scheduler has
  taken since makes `runWorkforceExecution` throw (`execution.ts:69`), which no tick
  catches (`TickThrows`), where `operations.ts:394-396` calls each tick crash-safe.
* `agentAccountFor` ignores what was settled to the owner, and `applyUpgrade` takes
  no lock, so the same earnings pay both, where `treasury.ts:421-423` says "never on
  credit".  `SettledFromRevenue` therefore leaves upgrades out.
* Reports sum all credits of the ledger as revenue (`report.ts:186-189`,
  `agent-report.ts:130`), and a transfer into the treasury posts one
  (`treasury.ts:802-811`).
* A cost is booked by the transaction after the answer.  If a statement of it
  throws, it is rolled back with the booking and the catch books nothing
  (`execution.ts:208-242`); neither does a process that dies before the commit.
  What a provider charged for an answer that never came (a timeout, or a model
  before the one of the fallback chain that answered, `models/router.ts:169-259`) is
  known to nobody.  `execution.ts:209` says that an incurred cost is retained, and
  `docs/IMPLEMENTATION_PROGRESS.md:72` the same of a late revocation, for which it
  is so.  `CostIsBooked` has these cents in `lost`.
* The cost column of a doubled execution is that of the answer that came last;
  the ledger has both (`CostIsBooked`).
* Opportunities that the concurrency limit kept from starting stay "evaluated",
  and no tick looks at them again; the owner may authorize them.
* A crash between the updates of an execution and its opportunity leaves the
  opportunity "executing", and what it reserves of the treasury reserved.
* An upgrade whose process dies between `applied_at` and the debit is applied and
  not paid for (`BooksMatchRows` excepts it by name).
* `completeSettlement` may be repeated, with other evidence.
* A decision that was taken before a freeze is committed after it.
* `chargeSpawn` posts no ledger entry, although its comment promises one.

## 8. What is left out, and why

* Time: backoff, `run_at` and the length of timeouts.  A due job may be claimed
  at any moment, a timer may fire at any moment.
* The stages inside one attempt (routing, tools, model, verification): one await
  with a nondeterministic outcome.  A result that is too large to store counts as
  a failed run.  Artifacts of website tasks (`workflow-runner.ts:315-330`) are
  written next to the result and no status depends on them.
* Branches nothing reaches: a reservation of credit that fails after the check
  in the same callback; `scheduleJobRetry` returning false for a job its handler
  holds; the task status `queued`, which nothing writes; a request that the
  bridge's worker cannot decode; the cancellation probe of `runWorkflow` between
  two steps of one synchronous stretch.
* Promise chains without an outside event between them count as one callback.
* The limit of 200 rows in `adminCancelAll` (`queue.ts:273`): older jobs survive
  an emergency cancellation; a bound of that size would have to be restated.
* In the automation scheduler: parsing of cron expressions, time zones and
  validation; the statistics columns; the branches for a run whose automation or
  job row is missing, which the foreign keys exclude; unattached jobs are not
  followed, because nothing of the scheduler reads them again.
* In the transactions: errors on which SQLite rolls back by itself, and a
  `ROLLBACK TO` that fails without the connection being lost.
* The advisory lock in the mission: the operations of `MissionMoney` and
  `ResourceCalls` are atomic because of it; `EconomyTreasury` has it as a state.
* In the mission's cash: currencies, the ceiling of one operation, the limits of
  a destination, the comparison with the provider's balance that a receipt may
  carry, which accounts a reversal drains first, provisioning and delegation,
  opportunities and earning jobs.
* In resource calls: the order of the queue, frozen wallets, the ceiling of one
  expense and approval, references of charges, and the other user of
  `runResourceCall` (`github-bounty-solution-provider.ts:59`), which has no job to
  recover.
* In billing: prices, signatures, the layout of invoices.
* In autonomous work: how a cost is estimated from tokens (`charged` is in the
  cents of the router's estimate), the search for
  opportunities and its limits, the economics
  behind a decision (the policy may authorize any that is not blocked), images,
  participants, platform bindings.
* In the treasury: daily and per-item caps (they only deny), the destination of
  settlements, spawning, improvements.
* Events, notifications and audit rows: no state of the engine depends on them.

The share of the repository's lines that the models stand for is small (about
four in a hundred).  Most of the rest has no protocol to check: user interfaces,
create-read-update-delete routes, connectors, scraping of opportunities, launch
checks.  The modules cover the parts that move credits and money, run work and
survive crashes.

## 9. The plan

Done, in this order: `CreditLedger` with its proofs; `AgentQueue` over it, with
`JobLifecycle`; `PgBridge` and `SyncDatabase`; `DbTransaction`; `WorkflowQueue`;
the refinement and invariant proofs of all of them; `AutomationScheduler`; the
savepoints of `DbTransaction`, with their proofs; `Billing`, `MissionMoney` and
`ResourceCalls`, with theirs; `WorkExecution` and
`EconomyTreasury`, with theirs; the proofs of `AutomationScheduler`.

Next: the human-action queue and the earning jobs of the mission.

## 10. How to run

    tlc -workers 2 -config MCAgentQueue.cfg MCAgentQueue
    tlapm AgentQueueProofs.tla

Every passing run ends within four minutes; the largest proof module takes
about five minutes.  A configuration names every constant; the values are
defined in the `MC` modules.
