--------------------------- MODULE ResourceCalls ---------------------------
(***************************************************************************)
(* Metered provider calls of a mission agent: the chat jobs that make them *)
(* (src/src/mission/chat-worker.ts), the quota of the resource they use    *)
(* (resource-calls.ts, resource-periods.ts) and the part of the agent's    *)
(* wallet that is held for their cost (resource-budgets.ts, treasury.ts).  *)
(*                                                                         *)
(* Every operation is one database transaction; the provider is awaited    *)
(* between two of them.  Workers are processes that run the same queue, so *)
(* a job that one of them is slow about may be recovered by another.  One  *)
(* agent, one resource with one counter, one wallet; a job makes at most   *)
(* one call, which has the job's name (idempotency key `chat:${job.id}`).  *)
(***************************************************************************)
EXTENDS Totals

CONSTANTS
  Jobs,             \* mission_agent_chat_jobs, and the call of each
  Workers,
  None,             \* no job, no receipt
  Units, CallCost,  \* reserved_usage and reserved_cents of each call
  Limit,            \* mission_resources.limits
  DayLimit,         \* policy.maxDailySpendCents
  Funds, Budget,    \* the wallet as the owner set it up
  Outcomes, Costs,  \* what the provider may say of a call; what things cost
  Readings,         \* what a usage report may say
  MaxEvents, MaxPeriods \* bounds on what the owner and the world change and
                    \* on crashes, together; on the periods

ASSUME ResourceAssumption ==
  /\ IsFiniteSet(Jobs) /\ None \notin Jobs
  /\ Units \in [Jobs -> Nat \ {0}] /\ CallCost \in [Jobs -> Nat \ {0}]
  /\ {Limit, DayLimit, Funds, Budget} \subseteq Nat
  /\ Outcomes \subseteq [outcome : {"succeeded", "failed"}, units : Nat]
  /\ Costs \subseteq Nat /\ Readings \subseteq Nat
  /\ MaxEvents \in Nat /\ MaxPeriods \in Nat \ {0}

VARIABLES
  job,       \* mission_agent_chat_jobs.status
  replied,   \* the messages an agent has answered, and who did
  call,      \* mission_resource_calls
  hold,      \* mission_resource_call_budgets.status
  usage,     \* mission_resources.usage
  resource,  \* its status, its period (by expires_at) and where that ends,
             \* and rotation_count of its credential
  balance, spent, budget, daily, \* the wallet, and today's spending
  mission,   \* "running", "supervised" (autonomy or the chat off) or "killed"
  worker,    \* where each worker is in runNextAgentChat, and with which job
  expired,   \* the dispatched calls whose deadline_at has passed
  overdue,   \* the running jobs that started more than two minutes ago
  request,   \* external: what the provider knows of each call
  invoked,   \* history: how often a call was sent to the provider
  events     \* how often the owner or the world intervened, or a worker died

walletVars == <<balance, spent, budget, daily>>
owned      == <<resource, budget, mission>>
clock      == <<expired, overdue>>
callVars == <<job, replied, call, hold, usage, resource, walletVars, mission,
              worker, clock, request, invoked, events>>

Unresolved == {"reserved", "dispatched", "uncertain"}
Settled    == {"succeeded", "failed"}
FinalJob   == {"succeeded", "blocked", "superseded", "needs_review"}
Steps      == {"idle", "polled", "claiming", "invoking", "waiting", "doubting",
               "settling", "replying", "failing"}

NoCall == [status |-> "none", period |-> 0, credential |-> 0,
           actual |-> 0, receipt |-> None]
Resting   == [step |-> "idle", job |-> None]

CallRecord ==
  [status : Unresolved \cup Settled \cup {"none", "cancelled"},
   period : Nat, credential : Nat, actual : Nat, receipt : Jobs \cup {None}]
ResourceRecord ==
  [status : {"active", "retired"}, period : Nat, end : {"ahead", "passed"},
   credential : Nat]
WorkerRecord  == [step : Steps, job : Jobs \cup {None}]
RequestRecord == [state : {"unsent", "sent", "known"}, outcome : Settled,
                  units : Nat]

ResourceTypeOK ==
  /\ job \in [Jobs -> FinalJob \cup {"queued", "running"}]
  /\ replied \in [Jobs -> {"nobody", "agent", "worker"}]
  /\ call \in [Jobs -> CallRecord]
  /\ hold \in [Jobs -> {"none", "held", "released", "recorded"}]
  /\ usage \in Nat
  /\ resource \in ResourceRecord
  /\ {balance, spent, budget, daily} \subseteq Nat
  /\ mission \in {"running", "supervised", "killed"}
  /\ worker \in [Workers -> WorkerRecord]
  /\ expired \subseteq Jobs /\ overdue \subseteq Jobs
  /\ request \in [Jobs -> RequestRecord]
  /\ invoked \in [Jobs -> Nat]
  /\ events \in 0..MaxEvents

CallsInit ==
  /\ job = [j \in Jobs |-> "queued"]
  /\ replied = [j \in Jobs |-> "nobody"]
  /\ call = [j \in Jobs |-> NoCall]
  /\ hold = [j \in Jobs |-> "none"]
  /\ usage = 0
  /\ resource = [status |-> "active", period |-> 1, end |-> "ahead",
                 credential |-> 0]
  /\ balance = Funds /\ spent = 0 /\ budget = Budget /\ daily = 0
  /\ mission = "running"
  /\ worker = [w \in Workers |-> Resting]
  /\ expired = {} /\ overdue = {}
  /\ request = [j \in Jobs |-> [state |-> "unsent", outcome |-> "failed",
                                units |-> 0]]
  /\ invoked = [j \in Jobs |-> 0]
  /\ events = 0

-----------------------------------------------------------------------------
(* What is reserved, and whether more may be.                              *)

\* The quota of the unfinished calls other than j's.
Pending(j) == Total(Units, {k \in Jobs \ {j} : call[k].status \in Unresolved})

\* The cents held for the calls in S.
HeldBy(S) == Total(CallCost, {k \in S : hold[k] = "held"})

\* Another call whose use of the quota nobody knows stops the resource.
OutcomeUncertain(j) ==
  \E k \in Jobs \ {j} : \/ call[k].status = "uncertain"
                        \/ call[k].status = "dispatched" /\ k \in expired

\* assertAgentChatReady; "supervised" stands for whatever else it refuses.
Ready == mission = "running"

Bindable(j) ==
  /\ mission # "killed"
  /\ resource.status = "active" /\ resource.end = "ahead"
  /\ ~OutcomeUncertain(j)

HasQuota(j) ==
  /\ usage < Limit /\ usage + Pending(j) < Limit
  /\ usage + Pending(j) + Units[j] <= Limit

\* canAgentSpend: `others` are held for calls other than the one asked about.
CanAgentSpend(amount, others) ==
  /\ mission # "killed"
  /\ budget > 0 => spent + others + amount <= budget
  /\ balance >= others + amount
  /\ daily + others + amount <= DayLimit

\* checkBudget
InBudget(j) == budget > 0 /\ CanAgentSpend(CallCost[j], HeldBy(Jobs \ {j}))

\* A debit that sees the balance only.
CanDebitHeldFunds(amount, others) == balance >= amount
\* appendLedger of an expense while `others` stay held.
CanDebit(amount, others) ==
  /\ balance >= amount
  /\ balance - amount >= others
  /\ others > 0 => /\ budget > 0 => spent + amount + others <= budget
                   /\ daily + amount + others <= DayLimit

Debit(amount) ==
  /\ balance' = balance - amount
  /\ spent' = spent + amount
  /\ daily' = daily + amount

SnapshotHolds(j) ==
  call[j].period = resource.period /\ call[j].credential = resource.credential
AuthorityChanged(j) == ~Bindable(j) \/ ~SnapshotHolds(j)

Cancelled(C) == [j \in Jobs |-> IF j \in C THEN [call[j] EXCEPT !.status = "cancelled"]
                                ELSE call[j]]
Released(C)  == [j \in Jobs |-> IF j \in C /\ hold[j] = "held" THEN "released"
                                ELSE hold[j]]

Go(w, step) == worker' = [worker EXCEPT ![w].step = step]
Rest(w)     == worker' = [worker EXCEPT ![w] = Resting]

-----------------------------------------------------------------------------
(* The chat worker.                                                        *)

\* recoverAgentChatJobs: what an interrupted worker left is never replayed.
Recover(w) ==
  /\ worker[w].step = "idle"
  /\ LET stuck == {j \in Jobs : job[j] = "running" /\ j \in overdue}
         unstarted == {j \in stuck : call[j].status = "reserved"}
     IN  /\ job' = [j \in Jobs |-> IF j \in stuck THEN "needs_review" ELSE job[j]]
         /\ call' = [j \in Jobs |->
              IF j \in stuck /\ call[j].status = "dispatched"
              THEN [call[j] EXCEPT !.status = "uncertain"]
              ELSE Cancelled(unstarted)[j]]
         /\ hold' = Released(unstarted)
         /\ overdue' = overdue \ stuck
  /\ Go(w, "polled")
  /\ UNCHANGED <<replied, usage, resource, walletVars, mission, expired, request,
                 invoked, events>>

\* reserveResourceCall and reserveResourceBudget, in the job's transaction.
ReserveCall(w, j) ==
  /\ call' = [call EXCEPT ![j] = [NoCall EXCEPT !.status = "reserved",
                !.period = resource.period, !.credential = resource.credential]]
  /\ hold' = [hold EXCEPT ![j] = "held"]
  /\ job' = [job EXCEPT ![j] = "running"]
  /\ worker' = [worker EXCEPT ![w] = [step |-> "claiming", job |-> j]]

Refuse(w, j, status) ==
  /\ job' = [job EXCEPT ![j] = status]
  /\ Rest(w)
  /\ UNCHANGED <<call, hold>>

\* The queue is in order of creation; any order is allowed here.
Take(w) ==
  /\ worker[w].step = "polled"
  /\ \/ \E j \in Jobs :
          /\ job[j] = "queued"
          /\ IF replied[j] # "nobody" THEN Refuse(w, j, "superseded")
             ELSE IF Ready /\ Bindable(j) /\ HasQuota(j) /\ InBudget(j)
             THEN ReserveCall(w, j)
             ELSE Refuse(w, j, "blocked")
     \/ /\ \A j \in Jobs : job[j] # "queued"
        /\ Rest(w) /\ UNCHANGED <<job, call, hold>>
  /\ UNCHANGED <<replied, usage, resource, walletVars, mission, clock, request,
                 invoked, events>>

\* claimResourceCall: a reservation is dispatched once, and what it rested on
\* is checked again; a refused one is cancelled in the same transaction.
ClaimCall(w) ==
  LET j == worker[w].job
      granted == Bindable(j) /\ SnapshotHolds(j) /\ HasQuota(j) /\ InBudget(j)
  IN
  /\ worker[w].step = "claiming"
  /\ \/ /\ call[j].status = "reserved" /\ granted
        /\ call' = [call EXCEPT ![j].status = "dispatched"]
        /\ Go(w, "invoking")
        /\ UNCHANGED hold
     \/ /\ call[j].status = "reserved" /\ ~granted
        /\ call' = Cancelled({j}) /\ hold' = Released({j})
        /\ Go(w, "failing")
     \/ /\ call[j].status # "reserved"
        /\ Go(w, "failing")
        /\ UNCHANGED <<call, hold>>
  /\ UNCHANGED <<job, replied, usage, resource, walletVars, mission, clock,
                 request, invoked, events>>

Invoke(w) ==
  LET j == worker[w].job IN
  /\ worker[w].step = "invoking"
  /\ IF j \notin expired /\ Ready
     THEN /\ request' = [request EXCEPT ![j].state = "sent"]
          /\ invoked' = [invoked EXCEPT ![j] = @ + 1]
          /\ Go(w, "waiting")
     ELSE Go(w, "doubting") /\ UNCHANGED <<request, invoked>>
  /\ UNCHANGED <<job, replied, call, hold, usage, resource, walletVars, mission,
                 clock, events>>

\* The answer wins the race against the deadline only while it lasts.
AnswerArrives(w) ==
  LET j == worker[w].job IN
  /\ worker[w].step = "waiting"
  /\ request[j].state = "known"
  /\ Go(w, IF j \in expired THEN "doubting" ELSE "settling")
  /\ UNCHANGED <<job, replied, call, hold, usage, resource, walletVars, mission,
                 clock, request, invoked, events>>

\* The timer fired, the connection broke, or the adapter refused the answer.
GiveUp(w) ==
  /\ worker[w].step = "waiting"
  /\ Go(w, "doubting")
  /\ UNCHANGED <<job, replied, call, hold, usage, resource, walletVars, mission,
                 clock, request, invoked, events>>

\* A timeout that gives the quota and the money back.
DoubtCancelling(w) ==
  LET j == worker[w].job IN
  /\ worker[w].step = "doubting"
  /\ IF call[j].status = "dispatched"
     THEN call' = Cancelled({j}) /\ hold' = Released({j})
     ELSE UNCHANGED <<call, hold>>
  /\ Go(w, "failing")
  /\ UNCHANGED <<job, replied, usage, resource, walletVars, mission, clock,
                 request, invoked, events>>

\* markResourceCallUncertain: quota and money stay reserved.  It throws for a
\* call that is neither dispatched nor uncertain; the job fails either way.
Doubt(w) ==
  LET j == worker[w].job IN
  /\ worker[w].step = "doubting"
  /\ call' = IF call[j].status = "dispatched"
             THEN [call EXCEPT ![j].status = "uncertain"] ELSE call
  /\ Go(w, "failing")
  /\ UNCHANGED <<job, replied, hold, usage, resource, walletVars, mission, clock,
                 request, invoked, events>>

-----------------------------------------------------------------------------
(* Settlement: the actual use is added to the quota, whatever was reserved. *)

\* The provider's final account of d, booked for the unresolved call j; one
\* account (provider_ref) is booked once.
Bookable(j, d) ==
  /\ call[j].status \in {"dispatched", "uncertain"}
  /\ request[d].state = "known"
  /\ \A k \in Jobs \ {j} : call[k].receipt # d

Book(j, d) ==
  /\ call' = [call EXCEPT ![j].status = request[d].outcome,
                ![j].actual = request[d].units, ![j].receipt = d]
  /\ usage' = usage + request[d].units

\* settleResourceCall by the worker: an uncertain or late call is the owner's.
\* A settled call answers the same account again, and no other.
SettleCall(w) ==
  LET j == worker[w].job
      mine == call[j].status = "dispatched" /\ j \notin expired
      next == IF AuthorityChanged(j) \/ request[j].outcome = "failed"
              THEN "failing" ELSE "replying"
  IN
  /\ worker[w].step = "settling"
  /\ \/ /\ mine /\ Bookable(j, j)
        /\ Book(j, j) /\ Go(w, next)
     \/ /\ call[j].status \in Settled /\ call[j].receipt = j
        /\ Go(w, next) /\ UNCHANGED <<call, usage>>
     \/ /\ ~(mine /\ Bookable(j, j))
        /\ ~(call[j].status \in Settled /\ call[j].receipt = j)
        /\ Go(w, "doubting") /\ UNCHANGED <<call, usage>>
  /\ UNCHANGED <<job, replied, hold, resource, walletVars, mission, clock,
                 request, invoked, events>>

\* The reply's transaction: a recovery or another answer wins.
Reply(w) ==
  LET j == worker[w].job IN
  /\ worker[w].step = "replying"
  /\ \/ /\ job[j] # "running"
        /\ Rest(w) /\ UNCHANGED <<job, replied>>
     \/ /\ job[j] = "running" /\ ~Ready
        /\ Go(w, "failing") /\ UNCHANGED <<job, replied>>
     \/ /\ job[j] = "running" /\ Ready /\ replied[j] # "nobody"
        /\ job' = [job EXCEPT ![j] = "superseded"]
        /\ Rest(w) /\ UNCHANGED replied
     \/ /\ job[j] = "running" /\ Ready /\ replied[j] = "nobody"
        /\ job' = [job EXCEPT ![j] = "succeeded"]
        /\ replied' = [replied EXCEPT ![j] = "worker"]
        /\ Rest(w)
  /\ UNCHANGED <<call, hold, usage, resource, walletVars, mission, clock,
                 request, invoked, events>>

\* The worker's last resort: nothing was spent only if the call was cancelled.
Fail(w) ==
  LET j == worker[w].job IN
  /\ worker[w].step = "failing"
  /\ job' = IF job[j] # "running" THEN job
            ELSE [job EXCEPT ![j] = IF call[j].status = "cancelled"
                                    THEN "blocked" ELSE "needs_review"]
  /\ Rest(w)
  /\ UNCHANGED <<replied, call, hold, usage, resource, walletVars, mission,
                 clock, request, invoked, events>>

WorkerDies(w) ==
  /\ worker[w].step # "idle" /\ events < MaxEvents
  /\ events' = events + 1
  /\ Rest(w)
  /\ UNCHANGED <<job, replied, call, hold, usage, resource, walletVars, mission,
                 clock, request, invoked>>

-----------------------------------------------------------------------------
(* The owner, the clock and the provider.                                  *)

\* cancelResourceCall
Cancel(j) ==
  /\ call[j].status = "reserved"
  /\ call' = Cancelled({j}) /\ hold' = Released({j})
  /\ UNCHANGED <<job, replied, usage, resource, walletVars, mission, worker,
                 clock, request, invoked, events>>

\* reconcileOwnerResourceCall, with an account the owner may have mistaken.
Reconcile(j, d) ==
  /\ Bookable(j, d)
  /\ Book(j, d)
  /\ UNCHANGED <<job, replied, hold, resource, walletVars, mission, worker,
                 clock, request, invoked, events>>

\* recordResourceCallCost: only the call's own hold makes room for its cost.
RecordCost(j, cost) ==
  /\ hold[j] = "held" /\ call[j].status \in Settled
  /\ cost <= balance
  /\ cost > 0 => CanDebit(cost, HeldBy(Jobs \ {j}))
  /\ hold' = [hold EXCEPT ![j] = "recorded"]
  /\ Debit(cost)
  /\ UNCHANGED <<job, replied, call, usage, resource, budget, mission, worker,
                 clock, request, invoked, events>>

\* recordResourcePeriod
Renew(cost) ==
  /\ resource.status = "active" /\ resource.end = "passed"
  /\ resource.period < MaxPeriods
  /\ \A j \in Jobs : call[j].status \notin Unresolved /\ hold[j] # "held"
  /\ mission # "killed"
  /\ cost > 0 => CanAgentSpend(cost, HeldBy(Jobs)) /\ CanDebit(cost, HeldBy(Jobs))
  /\ Debit(cost)
  /\ resource' = [resource EXCEPT !.period = @ + 1, !.end = "ahead"]
  /\ usage' = 0
  /\ UNCHANGED <<job, replied, call, hold, budget, mission, worker, clock,
                 request, invoked, events>>

\* requestExpense and decideExpense
Spend(amount) ==
  /\ amount > 0
  /\ CanAgentSpend(amount, HeldBy(Jobs)) /\ CanDebit(amount, HeldBy(Jobs))
  /\ Debit(amount)

\* A usage report that overwrites.
ReportUsageAsIs(reading) == usage' = reading
\* recordResourceUsage: a cumulative reading never falls.
ReportUsage(reading) == usage <= reading /\ usage' = reading

\* What changes under a call that is under way: the policy, the credential, the
\* resource, its end date, the wallet and its budget, the day, the agent's reply.
ChangePolicy == mission' \in {"running", "supervised", "killed"} \ {mission}
RotateCredential == resource' = [resource EXCEPT !.credential = @ + 1]
Retire == resource.status # "retired" /\ resource' = [resource EXCEPT !.status = "retired"]
Lapse == resource.end = "ahead" /\ resource' = [resource EXCEPT !.end = "passed"]
SetWalletBudget == budget' \in {0, Budget, 2 * Budget} \ {budget}
NewDay == daily > 0 /\ daily' = 0
AgentReplies(j) == replied[j] = "nobody" /\ replied' = [replied EXCEPT ![j] = "agent"]

Change ==
  /\ events < MaxEvents
  /\ events' = events + 1
  /\ \/ ChangePolicy /\ UNCHANGED <<usage, resource, walletVars, replied>>
     \/ /\ RotateCredential \/ Retire \/ Lapse
        /\ UNCHANGED <<usage, walletVars, mission, replied>>
     \/ SetWalletBudget /\ UNCHANGED <<usage, resource, balance, spent, daily,
                                       mission, replied>>
     \/ NewDay /\ UNCHANGED <<usage, resource, balance, spent, budget, mission,
                              replied>>
     \/ /\ \E cost \in Costs : Spend(cost)
        /\ UNCHANGED <<usage, resource, budget, mission, replied>>
     \/ /\ \E reading \in Readings : ReportUsage(reading)
        /\ UNCHANGED <<resource, walletVars, mission, replied>>
     \/ /\ \E j \in Jobs : AgentReplies(j)
        /\ UNCHANGED <<usage, resource, walletVars, mission>>
  /\ UNCHANGED <<job, call, hold, worker, clock, request, invoked>>

Expire(j) ==
  /\ call[j].status = "dispatched" /\ j \notin expired
  /\ expired' = expired \cup {j}
  /\ UNCHANGED <<job, replied, call, hold, usage, resource, walletVars, mission,
                 worker, overdue, request, invoked, events>>

Overdue(j) ==
  /\ job[j] = "running" /\ j \notin overdue
  /\ overdue' = overdue \cup {j}
  /\ UNCHANGED <<job, replied, call, hold, usage, resource, walletVars, mission,
                 worker, expired, request, invoked, events>>

\* The provider's account of a call becomes final: what it served, or that it
\* served and will serve nothing.  For a call that no worker is still about to
\* send, the owner can learn the latter.
Account(j) ==
  /\ \/ /\ request[j].state = "sent"
        /\ \E a \in Outcomes :
             request' = [request EXCEPT ![j] =
               [state |-> "known", outcome |-> a.outcome, units |-> a.units]]
     \/ /\ request[j].state = "unsent"
        /\ call[j].status \in {"dispatched", "uncertain"}
        /\ \A w \in Workers : worker[w].job = j => worker[w].step \in {"doubting", "failing"}
        /\ request' = [request EXCEPT ![j] =
             [state |-> "known", outcome |-> "failed", units |-> 0]]
  /\ UNCHANGED <<job, replied, call, hold, usage, resource, walletVars, mission,
                 worker, clock, invoked, events>>

-----------------------------------------------------------------------------
WorkerStep(w) ==
  \/ Recover(w) \/ Take(w) \/ ClaimCall(w) \/ Invoke(w) \/ AnswerArrives(w) \/ GiveUp(w)
  \/ Doubt(w) \/ SettleCall(w) \/ Reply(w) \/ Fail(w)

CallsNext ==
  \/ \E w \in Workers : WorkerStep(w) \/ WorkerDies(w)
  \/ \E j \in Jobs : Cancel(j) \/ Expire(j) \/ Overdue(j) \/ Account(j)
  \/ \E j, d \in Jobs : Reconcile(j, d)
  \/ \E cost \in Costs : Renew(cost)
  \/ \E j \in Jobs, cost \in Costs : RecordCost(j, cost)
  \/ Change

CallsSpec == CallsInit /\ [][CallsNext]_callVars

-----------------------------------------------------------------------------
(* Safety.                                                                 *)

\* A call is sent to the provider at most once, and once it was sent its quota
\* is not given back: it stays reserved until an account of it is booked, by
\* whichever of the worker, its recovery and the owner comes first.
KeptStatus == {"dispatched", "uncertain"} \cup Settled
SentOnceAndKept ==
  \A j \in Jobs : /\ invoked[j] <= 1
                  /\ invoked[j] = 1 => call[j].status \in KeptStatus

\* The calls whose use counts against the quota of the current period.
SettledInPeriod == {j \in Jobs : call[j].status \in Settled
                                /\ call[j].period = resource.period}

\* One account of the provider is booked for one call, with what it says, and
\* the usage of the period is never below what its calls have used.
BookedOnce ==
  \A j \in Jobs : call[j].status \in Settled =>
    LET d == call[j].receipt IN
    /\ d \in Jobs /\ request[d].state = "known"
    /\ call[j].status = request[d].outcome /\ call[j].actual = request[d].units
    /\ \A k \in Jobs \ {j} : call[k].receipt # d
UsageCoversCalls ==
  BookedOnce /\ usage >= Total([j \in Jobs |-> call[j].actual], SettledInPeriod)

\* The money held for a call follows the call: an unresolved call has its hold,
\* only a call that was never sent gives it back, and a recorded cost belongs to
\* a settled call.  What is held is in the wallet.
HoldMatchesCall ==
  \A j \in Jobs :
    /\ call[j].status \in Unresolved => hold[j] = "held"
    /\ hold[j] = "released" <=> call[j].status = "cancelled"
    /\ hold[j] = "recorded" => call[j].status \in Settled
HoldFollowsCall == HoldMatchesCall /\ HeldBy(Jobs) <= balance

\* Nothing of an earlier period is open in the current one: no call, no hold.
PeriodIsClosed ==
  \A j \in Jobs : (call[j].status \in Unresolved \/ hold[j] = "held")
                  => call[j].period = resource.period

\* What a chat job says happened to its call did happen: "blocked" that nothing
\* was spent, "succeeded" that the reply is the worker's and was paid for; and
\* an open call is never left without a running job, whose recovery ends it.
JobTellsItsCall ==
  \A j \in Jobs :
    /\ job[j] = "blocked" => call[j].status \in {"none", "cancelled"}
    /\ job[j] = "succeeded" <=> replied[j] = "worker"
    /\ job[j] = "succeeded" => call[j].status = "succeeded"
    /\ call[j].status \in {"reserved", "dispatched"} => job[j] = "running"

\* While money is held for calls, no step but a change of the budget by the
\* owner takes spending and holds over the wallet's budget or the day's limit,
\* an evidenced cost above its estimate included.
WithinCaps ==
  HeldBy(Jobs) > 0 => /\ budget > 0 => spent + HeldBy(Jobs) <= budget
                      /\ daily + HeldBy(Jobs) <= DayLimit
CapsHold == [][WithinCaps /\ budget' = budget => WithinCaps']_callVars
=============================================================================
