---------------------------- MODULE MissionMoney ----------------------------
(***************************************************************************)
(* The verified cash of the mission (src/src/mission/money.ts): accounts,  *)
(* reservations, payments through a provider, provider receipts.           *)
(*                                                                         *)
(* Every operation is one database transaction, serialised across the      *)
(* server and the money worker; the calls to the provider are awaited      *)
(* between two transactions.  A caller is a request of the server or the   *)
(* worker; its call may fail at any point, and its process may die.  The   *)
(* provider is external: what it was sent arrives late or not at all, and  *)
(* it answers with what it knows at that moment.                           *)
(***************************************************************************)
EXTENDS Totals

CONSTANTS
  Agents, Treasury,  \* the cash accounts: one of each agent, one of the owner
  Ops,               \* the payments that may ever be requested
  AccountOf,         \* mission_money_operations.account_id of each
  Amount, MaxCost,   \* its amount_cents and max_cost_cents
  NeedsApproval,     \* the payments an owner must approve
  SpendLimit,        \* mission_money_grants.spend_limit_cents of an agent
  AutoAllocation,    \* its auto_allocate_cents
  DailyLimit,        \* policy.maxDailySpendCents
  Earnings, Worth,   \* the payments customers may make, and their amounts
  Callers, NoOp,
  Worker,            \* the callers that are the money worker, not the owner
  MaxDays, MaxCrashes, MaxRestrictions \* bounds on the clock, on the crashes
                     \* and on what the owner forbids

Accounts == Agents \cup {Treasury}

ASSUME MoneyAssumption ==
  /\ IsFiniteSet(Agents) /\ IsFiniteSet(Ops) /\ IsFiniteSet(Earnings)
  /\ Treasury \notin Agents /\ NoOp \notin Ops
  /\ AccountOf \in [Ops -> Accounts]
  /\ Amount \in [Ops -> Nat \ {0}] /\ MaxCost \in [Ops -> Nat]
  /\ \A o \in Ops : Amount[o] <= MaxCost[o]
  \* a withdrawal always needs the owner
  /\ NeedsApproval \subseteq Ops
  /\ \A o \in Ops : AccountOf[o] = Treasury => o \in NeedsApproval
  /\ SpendLimit \in [Agents -> Nat] /\ AutoAllocation \in [Agents -> Nat]
  /\ DailyLimit \in Nat
  /\ Worth \in [Earnings -> Nat \ {0}]
  /\ Worker \subseteq Callers
  /\ MaxDays \in Nat \ {0} /\ MaxCrashes \in Nat /\ MaxRestrictions \in Nat

VARIABLES
  available, held, frozen,  \* mission_cash_accounts
  policy,       \* "running", "supervised" (autonomy off) or "killed"
  granted,      \* agents whose authority is active
  op,           \* mission_money_operations
  heldFor,      \* the held cents of mission_cash_entries by operation
  booked,       \* mission_money_receipts
  debt,         \* the sum of mission_cash_liabilities.remaining_cents
  today,
  run,          \* the provider call each caller is making
  posts,        \* history: the payment requests that were sent
  wire,         \* external: payment requests that are under way
  payment,      \* external: what the provider did about each operation
  income,       \* external: what the provider did about each earning
  restrictions, crashes  \* how often the owner forbade, a process died

cashVars     == <<available, held, frozen, heldFor, debt>>
ownerVars    == <<policy, granted, restrictions>>
providerVars == <<wire, payment, income>>
vars == <<cashVars, ownerVars, op, booked, today, run, posts, providerVars,
          crashes>>

OpStates == {"new", "approval_required", "reserved", "dispatching", "pending",
             "unknown", "completed", "failed", "rejected"}
Sent     == {"dispatching", "pending", "unknown"}
Live     == Sent \cup {"reserved"}

\* destination: the payout slot still is what it was when requested.
OpRecord ==
  [state : OpStates, approvedBy : {"nobody", "owner"},
   destination : {"unchanged", "changed"}, actual : Nat, refunded : Nat,
   day : 0..MaxDays]
NewOp ==
  [state |-> "new", approvedBy |-> "nobody", destination |-> "unchanged",
   actual |-> 0, refunded |-> 0, day |-> 0]

NoPayment == [state |-> "none", cost |-> 0]
Payment   == [state : {"none", "pending", "paid", "returned"}, cost : Nat]

\* send: the caller is dispatchMoney, else reconcileMoney.
Idle == [step |-> "idle", op |-> NoOp, send |-> FALSE, answer |-> NoPayment]
RunRecord ==
  {Idle} \cup
  [step : {"claimed", "cleared", "posted", "asking", "answered"},
   op : Ops, send : BOOLEAN, answer : Payment]

ReceiptId == [kind : {"earning", "reversal"}, of : Earnings]
               \cup [kind : {"refund"}, of : Ops]
Earned(e)   == [kind |-> "earning", of |-> e]
Reversed(e) == [kind |-> "reversal", of |-> e]
Refunded(o) == [kind |-> "refund", of |-> o]

Init ==
  /\ available = [a \in Accounts |-> 0]
  /\ held = [a \in Accounts |-> 0]
  /\ frozen = [a \in Accounts |-> FALSE]
  /\ policy = "running" /\ granted = Agents
  /\ op = [o \in Ops |-> NewOp]
  /\ heldFor = [o \in Ops |-> 0]
  /\ booked = {} /\ debt = 0 /\ today = 1
  /\ run = [c \in Callers |-> Idle]
  /\ posts = [o \in Ops |-> 0]
  /\ wire = {}
  /\ payment = [o \in Ops |-> NoPayment]
  /\ income = [e \in Earnings |-> "none"]
  /\ restrictions = 0 /\ crashes = 0

-----------------------------------------------------------------------------
(* What a transaction checks.                                              *)

Lesser(m, n) == IF m <= n THEN m ELSE n

OpsOf(a) == {o \in Ops : AccountOf[o] = a}

LiveIn(S) == {o \in S : op[o].state \in Live}

ExpectedHold(o) == IF op[o].state \in Live THEN MaxCost[o] ELSE 0

\* By reference, what the entries hold is what the operation reserved.
HoldsAreExact == \A o \in Ops : heldFor[o] = ExpectedHold(o)

\* The gate assertLedgerReconciled: so it is, and by account too.
Reconciled ==
  /\ HoldsAreExact
  /\ \A a \in Accounts : held[a] = Total(MaxCost, LiveIn(OpsOf(a)))

\* mission_money_operations.actual_cost_cents
Actual == [o \in Ops |-> op[o].actual]

\* What the operations of S cost, or may yet: those that completed on other
\* days than those of D no longer count.
Cost(S, D) ==
  Total(MaxCost, LiveIn(S))
    + Total(Actual, {o \in S : op[o].state = "completed" /\ op[o].day \in D})

Spendable(a) == policy # "killed" /\ debt = 0 /\ ~frozen[a]

\* Mutant: the limits count only what was already paid.
CapacityOfPaid(o) ==
  LET a == AccountOf[o] paid == {r \in Ops \ {o} : op[r].state = "completed"} IN
  /\ Spendable(a) /\ Reconciled
  /\ Cost(paid, {today}) + MaxCost[o] <= DailyLimit
  /\ a = Treasury => op[o].destination = "unchanged"
  /\ a \in Agents =>
       /\ a \in granted
       /\ Cost(paid \cap OpsOf(a), 1..MaxDays) + MaxCost[o] <= SpendLimit[a]

Capacity(o) ==
  LET a == AccountOf[o] others == Ops \ {o} IN
  /\ Spendable(a) /\ Reconciled
  /\ Cost(others, {today}) + MaxCost[o] <= DailyLimit
  /\ a = Treasury => op[o].destination = "unchanged"
  /\ a \in Agents =>
       /\ a \in granted
       /\ Cost(others \cap OpsOf(a), 1..MaxDays) + MaxCost[o] <= SpendLimit[a]

-----------------------------------------------------------------------------
(* The owner.                                                              *)

\* Forbidding is bounded, allowing again is not.
Forbids(b) ==
  IF b THEN restrictions < MaxRestrictions /\ restrictions' = restrictions + 1
       ELSE UNCHANGED restrictions

SetPolicy(p) ==
  /\ policy # p /\ policy' = p /\ Forbids(p # "running")
  /\ UNCHANGED <<cashVars, granted, op, booked, today, run, posts, providerVars,
                 crashes>>

SetMoneyGrant(a) ==
  /\ Forbids(a \in granted)
  /\ granted' = IF a \in granted THEN granted \ {a} ELSE granted \cup {a}
  /\ UNCHANGED <<cashVars, policy, op, booked, today, run, posts, providerVars,
                 crashes>>

FreezeCash(a) ==
  /\ Forbids(~frozen[a])
  /\ frozen[a] => Reconciled /\ debt = 0
  /\ frozen' = [frozen EXCEPT ![a] = ~@]
  /\ UNCHANGED <<available, held, heldFor, debt, policy, granted, op, booked,
                 today, run, posts, providerVars, crashes>>

Allocate(a, n) ==
  /\ n > 0 /\ available[Treasury] >= n
  /\ Reconciled /\ Spendable(Treasury) /\ Spendable(a) /\ a \in granted
  /\ available' = [available EXCEPT ![Treasury] = @ - n, ![a] = @ + n]
  /\ UNCHANGED <<held, frozen, heldFor, debt, ownerVars, op, booked, today, run,
                 posts, providerVars, crashes>>

AllocateCash(a) == \E n \in 1..available[Treasury] : Allocate(a, n)

\* The owner edits the payout slot: what was requested before is blocked.
EditDestination ==
  /\ Forbids(TRUE)
  /\ op' = [o \in Ops |-> IF op[o].state = "new" \/ AccountOf[o] # Treasury
                          THEN op[o] ELSE [op[o] EXCEPT !.destination = "changed"]]
  /\ UNCHANGED <<cashVars, policy, granted, booked, today, run, posts,
                 providerVars, crashes>>

-----------------------------------------------------------------------------
(* A payment, up to its dispatch.                                          *)

Become(o, s) == op' = [op EXCEPT ![o].state = s]

\* Nothing but cash and operations changes.
OnlyCash == UNCHANGED <<frozen, debt, ownerVars, booked, today, posts,
                        providerVars, crashes>>

Hold(o) ==
  LET a == AccountOf[o] IN
  /\ available[a] >= MaxCost[o]
  /\ available' = [available EXCEPT ![a] = @ - MaxCost[o]]
  /\ held' = [held EXCEPT ![a] = @ + MaxCost[o]]
  /\ heldFor' = [heldFor EXCEPT ![o] = @ + MaxCost[o]]

\* Mutant: what was spent is released with the rest.
ReleaseAll(o, spent) ==
  LET a == AccountOf[o] IN
  /\ held[a] >= MaxCost[o] /\ heldFor[o] >= MaxCost[o]
  /\ held' = [held EXCEPT ![a] = @ - MaxCost[o]]
  /\ heldFor' = [heldFor EXCEPT ![o] = @ - MaxCost[o]]
  /\ available' = [available EXCEPT ![a] = @ + MaxCost[o]]

\* The hold of o ends: spent of it has left the account.
Release(o, spent) ==
  LET a == AccountOf[o] IN
  /\ held[a] >= MaxCost[o] /\ heldFor[o] >= MaxCost[o]
  /\ held' = [held EXCEPT ![a] = @ - MaxCost[o]]
  /\ heldFor' = [heldFor EXCEPT ![o] = @ - MaxCost[o]]
  /\ available' = [available EXCEPT ![a] = @ + (MaxCost[o] - spent)]

RequestMoney(o) ==
  /\ op[o].state = "new"
  /\ Capacity(o) /\ available[AccountOf[o]] >= MaxCost[o]
  /\ IF o \in NeedsApproval
     THEN /\ Become(o, "approval_required")
          /\ UNCHANGED <<available, held, heldFor>>
     ELSE Become(o, "reserved") /\ Hold(o)
  /\ OnlyCash /\ UNCHANGED run

Approve(o) ==
  /\ op[o].state = "approval_required"
  /\ Capacity(o) /\ Hold(o)
  /\ op' = [op EXCEPT ![o].state = "reserved", ![o].approvedBy = "owner"]
  /\ OnlyCash /\ UNCHANGED run

\* Mutant: a cancelled reservation keeps its hold.
WithdrawHolding(o) ==
  /\ op[o].state \in {"approval_required", "reserved"}
  /\ Become(o, "rejected")
  /\ OnlyCash /\ UNCHANGED <<run, available, held, heldFor>>

\* decideMoney with approve = false, and cancelMoney.
Withdraw(o) ==
  /\ \/ op[o].state = "approval_required" /\ UNCHANGED <<available, held, heldFor>>
     \/ op[o].state = "reserved" /\ Reconciled /\ Release(o, 0)
  /\ Become(o, "rejected")
  /\ OnlyCash /\ UNCHANGED run

-----------------------------------------------------------------------------
(* dispatchMoney: claim, ask for leave directly before the request is sent, *)
(* send, settle.                                                           *)

Call(c, r) == run' = [run EXCEPT ![c] = r]

Step(c, s) == Call(c, [run[c] EXCEPT !.step = s])

\* A tick of the worker read the policy before, and does not here.
Claim(c, o) ==
  /\ run[c] = Idle
  /\ op[o].state = "reserved" /\ Capacity(o)
  /\ o \in NeedsApproval => op[o].approvedBy = "owner"
  /\ Become(o, "dispatching")
  /\ Call(c, [Idle EXCEPT !.step = "claimed", !.op = o, !.send = TRUE])
  /\ OnlyCash /\ UNCHANGED <<available, held, heldFor>>

AuthorizeSend(c) ==
  LET o == run[c].op IN
  /\ run[c].step = "claimed"
  /\ c \in Worker => policy = "running"
  /\ op[o].state = "dispatching" /\ Capacity(o)
  /\ Step(c, "cleared")
  /\ OnlyCash /\ UNCHANGED <<available, held, heldFor, op>>

Post(c) ==
  LET o == run[c].op IN
  /\ run[c].step = "cleared"
  /\ Step(c, "posted")
  /\ posts' = [posts EXCEPT ![o] = @ + 1]
  /\ wire' = wire \cup {o}
  /\ UNCHANGED <<cashVars, ownerVars, op, booked, today, payment, income, crashes>>

\* Mutant: a payment that failed to be sent may be dispatched again.
UncertainAgain(c) ==
  LET o == run[c].op IN
  /\ run[c].send
  /\ op' = IF op[o].state = "dispatching" THEN [op EXCEPT ![o].state = "reserved"]
                                         ELSE op
  /\ Call(c, Idle)
  /\ OnlyCash /\ UNCHANGED <<available, held, heldFor>>

\* The catch of dispatchMoney: leave was refused, the request timed out, the
\* answer could not be read or be settled.
Uncertain(c) ==
  LET o == run[c].op IN
  /\ run[c].send
  /\ op' = IF op[o].state = "dispatching" THEN [op EXCEPT ![o].state = "unknown"]
                                         ELSE op
  /\ Call(c, Idle)
  /\ OnlyCash /\ UNCHANGED <<available, held, heldFor>>

\* reconcileMoney, of the owner or of the worker.
Ask(c, o) ==
  /\ run[c] = Idle /\ op[o].state \notin {"new"}
  /\ Call(c, [Idle EXCEPT !.step = "asking", !.op = o])
  /\ OnlyCash /\ UNCHANGED <<available, held, heldFor, op>>

\* Absence is not failure: lookup throws.
AskFails(c) ==
  /\ run[c].step \in {"asking", "answered"} /\ ~run[c].send
  /\ Call(c, Idle)
  /\ OnlyCash /\ UNCHANGED <<available, held, heldFor, op>>

Answer(c) ==
  LET o == run[c].op IN
  /\ run[c].step \in {"posted", "asking"}
  /\ payment[o].state # "none"
  /\ Call(c, [run[c] EXCEPT !.step = "answered", !.answer = payment[o]])
  /\ OnlyCash /\ UNCHANGED <<available, held, heldFor, op>>

\* Mutant: settlements wait until the mission runs again.
SettleRunning(c) ==
  LET o == run[c].op
      answer == run[c].answer
  IN
  /\ run[c].step = "answered" /\ policy # "killed"
  /\ Reconciled /\ op[o].state \in Sent
  /\ \/ /\ answer.state = "pending"
        /\ Become(o, "pending")
        /\ UNCHANGED <<available, held, heldFor>>
     \/ /\ answer.state = "paid" /\ answer.cost \in Amount[o]..MaxCost[o]
        /\ op' = [op EXCEPT ![o].state = "completed", ![o].actual = answer.cost,
                            ![o].day = today]
        /\ Release(o, answer.cost)
     \/ /\ answer.state = "returned"
        /\ Become(o, "failed")
        /\ Release(o, 0)
  /\ Call(c, Idle)
  /\ OnlyCash

\* settle: the operation is terminal once the provider said how it ended.  An
\* answer it refuses, and a second one, change nothing.
Settle(c) ==
  LET o == run[c].op
      answer == run[c].answer
  IN
  /\ run[c].step = "answered"
  /\ Reconciled /\ op[o].state \in Sent
  /\ \/ /\ answer.state = "pending"
        /\ Become(o, "pending")
        /\ UNCHANGED <<available, held, heldFor>>
     \/ /\ answer.state = "paid" /\ answer.cost \in Amount[o]..MaxCost[o]
        /\ op' = [op EXCEPT ![o].state = "completed", ![o].actual = answer.cost,
                            ![o].day = today]
        /\ Release(o, answer.cost)
     \/ /\ answer.state = "returned"
        /\ Become(o, "failed")
        /\ Release(o, 0)
  /\ Call(c, Idle)
  /\ OnlyCash

-----------------------------------------------------------------------------
(* acceptReceipt: what the provider verifies to have come in, or gone.     *)

\* The account a has n more; the debts take their part of all it has.
Receive(a, n) ==
  LET taken == Lesser(available[a] + n, debt) IN
  /\ available' = [available EXCEPT ![a] = @ + n - taken]
  /\ debt' = debt - taken

BookEarning(e) ==
  /\ income[e] # "none" /\ Earned(e) \notin booked /\ Reconciled
  /\ Receive(Treasury, Worth[e])
  /\ booked' = booked \cup {Earned(e)}
  /\ UNCHANGED <<held, frozen, heldFor, ownerVars, op, today, run, posts,
                 providerVars, crashes>>

\* A payment that had been completed was returned to the provider's balance.
BookRefund(o) ==
  /\ payment[o].state = "returned" /\ Refunded(o) \notin booked /\ Reconciled
  /\ op[o].state = "completed"
  /\ op[o].refunded + payment[o].cost <= op[o].actual
  /\ Receive(AccountOf[o], payment[o].cost)
  /\ op' = [op EXCEPT ![o].refunded = @ + payment[o].cost]
  /\ booked' = booked \cup {Refunded(o)}
  /\ UNCHANGED <<held, frozen, heldFor, ownerVars, today, run, posts,
                 providerVars, crashes>>

\* An earning was taken back: accounts are drained of what is not held, in an
\* order left open; the rest is owed.  Everything stops.
BookReversal(e) ==
  /\ income[e] = "reversed" /\ Reversed(e) \notin booked /\ Reconciled
  /\ Earned(e) \in booked
  /\ \E take \in [Accounts -> 0..Worth[e]], rest \in 0..Worth[e] :
       /\ \A a \in Accounts : take[a] <= available[a]
       /\ Total(take, Accounts) + rest = Worth[e]
       /\ rest > 0 => take = available
       /\ available' = [a \in Accounts |-> available[a] - take[a]]
       /\ debt' = debt + rest
  /\ frozen' = [a \in Accounts |-> TRUE]
  /\ policy' = "killed"
  /\ booked' = booked \cup {Reversed(e)}
  /\ UNCHANGED <<held, heldFor, granted, restrictions, op, today, run, posts, providerVars,
                 crashes>>

-----------------------------------------------------------------------------
(* The environment.                                                        *)

Internal == <<cashVars, ownerVars, op, booked, run, posts, crashes>>

Arrive(o) ==
  /\ o \in wire /\ wire' = wire \ {o}
  \* the idempotency key: the provider acts on one request of an operation
  /\ payment' = IF payment[o].state # "none" THEN payment
                ELSE [payment EXCEPT ![o].state = "pending"]
  /\ UNCHANGED <<Internal, today, income>>

Lose(o) ==
  /\ o \in wire /\ wire' = wire \ {o}
  /\ UNCHANGED <<Internal, today, payment, income>>

\* One more than what was reserved stands for a cost that is out of bounds.
Pay(o) ==
  /\ payment[o].state = "pending"
  /\ \E n \in Amount[o]..(MaxCost[o] + 1) :
       payment' = [payment EXCEPT ![o] = [state |-> "paid", cost |-> n]]
  /\ UNCHANGED <<Internal, today, wire, income>>

Return(o) ==
  /\ payment[o].state \in {"pending", "paid"}
  /\ payment' = [payment EXCEPT ![o].state = "returned"]
  /\ UNCHANGED <<Internal, today, wire, income>>

Customer(e) ==
  /\ \/ income[e] = "none" /\ income' = [income EXCEPT ![e] = "arrived"]
     \/ income[e] = "arrived" /\ income' = [income EXCEPT ![e] = "reversed"]
  /\ UNCHANGED <<Internal, today, wire, payment>>

NextDay ==
  /\ today < MaxDays /\ today' = today + 1
  /\ UNCHANGED <<Internal, providerVars>>

\* The process of the caller dies: nothing is written.
Crash(c) ==
  /\ crashes < MaxCrashes /\ crashes' = crashes + 1
  /\ run[c] # Idle /\ Call(c, Idle)
  /\ UNCHANGED <<cashVars, ownerVars, op, booked, today, posts, providerVars>>

-----------------------------------------------------------------------------
\* The part of moneyWorkerTick that allocates by itself.
AutoAllocate(a) ==
  LET has   == available[a] + held[a]
      spent == Total(Actual, {o \in OpsOf(a) : op[o].state = "completed"})
  IN
  /\ policy = "running"
  /\ \E n \in 1..available[Treasury] :
       /\ has + n <= AutoAllocation[a] /\ spent + has + n <= SpendLimit[a]
       /\ \A m \in 1..available[Treasury] :
            has + m <= AutoAllocation[a] /\ spent + has + m <= SpendLimit[a] => m <= n
       /\ Allocate(a, n)

Owner ==
  \/ \E p \in {"running", "supervised", "killed"} : SetPolicy(p)
  \/ \E a \in Agents : SetMoneyGrant(a) \/ AllocateCash(a)
  \/ \E a \in Accounts : FreezeCash(a)
  \/ EditDestination

Books ==
  \/ \E a \in Agents : AutoAllocate(a)
  \/ \E o \in Ops : RequestMoney(o) \/ Approve(o) \/ Withdraw(o) \/ BookRefund(o)
  \/ \E e \in Earnings : BookEarning(e) \/ BookReversal(e)

Caller(c) ==
  \/ \E o \in Ops : Ask(c, o) \/ Claim(c, o)
  \/ AuthorizeSend(c) \/ Post(c) \/ Uncertain(c)
  \/ AskFails(c) \/ Answer(c) \/ Settle(c) \/ Crash(c)

Provider ==
  \/ \E o \in Ops : Arrive(o) \/ Lose(o) \/ Pay(o) \/ Return(o)
  \/ \E e \in Earnings : Customer(e)

Next == Owner \/ Books \/ (\E c \in Callers : Caller(c)) \/ Provider \/ NextDay

Spec == Init /\ [][Next]_vars

\* Every tick of the worker asks about every payment that is under way; a call
\* ends, by a timeout if need be; and of the calls about a payment that the
\* provider knows, not all fail.
Fairness ==
  \A c \in Worker :
    /\ WF_vars(Uncertain(c)) /\ WF_vars(AskFails(c))
    /\ \A o \in Ops :
         /\ SF_vars(Ask(c, o))
         /\ SF_vars(run[c].op = o /\ Answer(c))
         /\ SF_vars(run[c].op = o /\ Settle(c))

FairSpec == Spec /\ Fairness

-----------------------------------------------------------------------------
(* Properties.                                                             *)

MoneyTypeOK ==
  /\ available \in [Accounts -> Nat] /\ held \in [Accounts -> Nat]
  /\ frozen \in [Accounts -> BOOLEAN]
  /\ policy \in {"running", "supervised", "killed"} /\ granted \subseteq Agents
  /\ op \in [Ops -> OpRecord]
  /\ heldFor \in [Ops -> Nat]
  /\ booked \subseteq ReceiptId
  /\ debt \in Nat /\ today \in 1..MaxDays
  /\ run \in [Callers -> RunRecord]
  /\ posts \in [Ops -> Nat] /\ wire \subseteq Ops
  /\ payment \in [Ops -> Payment]
  /\ income \in [Earnings -> {"none", "arrived", "reversed"}]
  /\ restrictions \in 0..MaxRestrictions /\ crashes \in 0..MaxCrashes

\* The reconciliation gate never closes by itself: whatever was requested,
\* cancelled, sent, settled twice or left uncertain by a crash, the holds are
\* those of the operations that are alive (ledger-reconciliation.ts).
AlwaysReconciled == Reconciled

\* The payments whose cost the account still bears.
PaidFor == {o \in Ops : op[o].state = "completed" /\ Refunded(o) \notin booked}

\* The books are the provider's: cash less debt is what came in, less what was
\* taken back, less the cost of the payments that the books know completed,
\* plus what of these was returned; and the cost is the provider's.
BooksAgreeWithProvider ==
  /\ Total(available, Accounts) + Total(held, Accounts)
       + Total(Worth, {e \in Earnings : Reversed(e) \in booked})
       + Total([o \in Ops |-> payment[o].cost], PaidFor)
     = debt + Total(Worth, {e \in Earnings : Earned(e) \in booked})
  /\ \A o \in Ops : op[o].state = "completed" => payment[o].state \in {"paid", "returned"}

\* A payment is requested from the provider at most once, and from then on is
\* neither cancelled nor dispatched again, whoever crashed or timed out; it is
\* released as failed only when the provider has returned the money.
SentOnce ==
  \A o \in Ops :
    /\ posts[o] <= 1
    /\ posts[o] = 1 => op[o].state \in Sent \cup {"completed", "failed"}
    /\ op[o].state = "failed" => payment[o].state = "returned"

\* What an agent spent and may yet spend is within its limit; what is spent on
\* a day, and may yet be, is within the limit of a day.
WithinLimits ==
  /\ \A a \in Agents : Cost(OpsOf(a), 1..MaxDays) <= SpendLimit[a]
  /\ \A d \in 1..today : Cost(IF d = today THEN Ops ELSE {o \in Ops : op[o].state = "completed"},
                               {d}) <= DailyLimit

\* Once the provider has decided about a payment that is under way, the books
\* come to agree, although the mission is frozen, killed or in debt, and whoever
\* crashed; a cost out of what was reserved stays open (money.ts:reconcileMoney).
DecidedIsSettled ==
  \A o \in Ops :
    payment[o].state \in {"paid", "returned"}
      ~> \/ op[o].state \in {"completed", "failed"}
         \/ payment[o].state = "paid" /\ payment[o].cost > MaxCost[o]
=============================================================================
