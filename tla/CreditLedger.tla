---------------------------- MODULE CreditLedger ----------------------------
(***************************************************************************)
(* The task-credit ledger of src/src/db/repositories.ts: one credit        *)
(* account with a paid, a bonus and a free pool, and the consume_task and  *)
(* refund_task rows of credit_transactions.  Every operation is one        *)
(* db.transaction, hence one step.  Accounts of different users share no   *)
(* row, so one account stands for each of them.                            *)
(*                                                                         *)
(* The two engines and billing are built from these operations, so that    *)
(* what is proved of LedgerSpec, that no credit is lost, carries over to   *)
(* them.  When each may take or return a credit is their own question.     *)
(***************************************************************************)
EXTENDS Integers, FiniteSets

CONSTANTS
  Tasks,           \* the tasks that may ever be created
  InitialCredits,  \* the opening balance of each pool
  GrantSizes,      \* the amounts a purchase or its reversal may have
  MaxFunded        \* bound on the credits ever bought (keeps TLC finite)

Pools  == {"paid", "bonus", "free"}
NoPool == "none"

ASSUME LedgerAssumption ==
  /\ IsFiniteSet(Tasks)
  /\ InitialCredits \in [Pools -> Nat]
  /\ GrantSizes \subseteq Nat \ {0}
  /\ MaxFunded \in Nat

VARIABLES
  balance,       \* credit_accounts.{paid,bonus,free}_credits
  freeUsed,      \* credit_accounts.free_credits_used
  consumedFrom,  \* the pool on the task's consume_task row, or NoPool
  refunded,      \* the tasks that have a refund_task row
  funded         \* what was ever put in each pool, reversals deducted

ledgerVars == <<balance, freeUsed, consumedFrom, refunded, funded>>

LedgerTypeOK ==
  /\ balance \in [Pools -> Nat]
  /\ freeUsed \in Nat
  /\ consumedFrom \in [Tasks -> Pools \cup {NoPool}]
  /\ refunded \subseteq Tasks
  /\ funded \in [Pools -> Nat]

LedgerInit ==
  /\ balance = InitialCredits
  /\ freeUsed = 0
  /\ consumedFrom = [t \in Tasks |-> NoPool]
  /\ refunded = {}
  /\ funded = InitialCredits

-----------------------------------------------------------------------------
\* getAvailableCredits(account) > 0
HasCredit == \E p \in Pools : balance[p] > 0

\* The pool the next credit is taken from: paid, then bonus, then free.
NextPool == IF balance["paid"] > 0 THEN "paid"
            ELSE IF balance["bonus"] > 0 THEN "bonus" ELSE "free"

\* consumeTaskCredit: idempotent per task, refused on an empty account.
ConsumeTaskCredit(t) ==
  IF consumedFrom[t] = NoPool /\ HasCredit
  THEN /\ balance' = [balance EXCEPT ![NextPool] = @ - 1]
       /\ freeUsed' = IF NextPool = "free" THEN freeUsed + 1 ELSE freeUsed
       /\ consumedFrom' = [consumedFrom EXCEPT ![t] = NextPool]
       /\ UNCHANGED <<refunded, funded>>
  ELSE UNCHANGED ledgerVars

\* refundTaskCredit: idempotent per task, only for a consumed credit, and
\* back to the pool that the consume row names.
RefundTaskCredit(t) ==
  IF t \notin refunded /\ consumedFrom[t] # NoPool
  THEN /\ balance' = [balance EXCEPT ![consumedFrom[t]] = @ + 1]
       /\ freeUsed' = IF consumedFrom[t] = "free" /\ freeUsed > 0
                      THEN freeUsed - 1 ELSE freeUsed
       /\ refunded' = refunded \cup {t}
       /\ UNCHANGED <<consumedFrom, funded>>
  ELSE UNCHANGED ledgerVars

\* grantCustomCredits: a paid credit purchase.
GrantCustomCredits(n) ==
  /\ funded["paid"] + n <= MaxFunded
  /\ balance' = [balance EXCEPT !["paid"] = @ + n]
  /\ funded' = [funded EXCEPT !["paid"] = @ + n]
  /\ UNCHANGED <<freeUsed, consumedFrom, refunded>>

\* reverseCustomCredits: a refunded purchase, clamped at the paid balance.
ReverseCustomCredits(n) ==
  LET reversed == IF balance["paid"] < n THEN balance["paid"] ELSE n
  IN  /\ balance' = [balance EXCEPT !["paid"] = @ - reversed]
      /\ funded' = [funded EXCEPT !["paid"] = @ - reversed]
      /\ UNCHANGED <<freeUsed, consumedFrom, refunded>>

LedgerNext ==
  \/ \E t \in Tasks : ConsumeTaskCredit(t)
  \/ \E t \in Tasks : RefundTaskCredit(t)
  \/ \E n \in GrantSizes : GrantCustomCredits(n)
  \/ \E n \in GrantSizes : ReverseCustomCredits(n)

LedgerSpec == LedgerInit /\ [][LedgerNext]_ledgerVars

-----------------------------------------------------------------------------
\* The credits of pool p that tasks hold: consumed and not given back.
Outstanding(p) == {t \in Tasks : consumedFrom[t] = p /\ t \notin refunded}

\* No credit is ever created or lost: what is on the account plus what tasks
\* hold is what was put in, pool by pool; a refund goes back to the pool the
\* credit came from, at most once, and only for a credit that was consumed
\* (consumeTaskCredit and refundTaskCredit).
Conservation ==
  /\ \A p \in Pools : balance[p] + Cardinality(Outstanding(p)) = funded[p]
  /\ \A t \in refunded : consumedFrom[t] # NoPool

\* free_credits_used counts exactly the free credits tasks hold, so the
\* MAX(0, ...) of the refund statement never has anything to clamp.
FreeUsedIsExact == freeUsed = Cardinality(Outstanding("free"))
=============================================================================
