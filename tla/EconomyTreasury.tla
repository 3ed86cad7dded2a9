-------------------------- MODULE EconomyTreasury --------------------------
(***************************************************************************)
(* The economy's treasury (src/src/economy/treasury.ts): receipts, owner   *)
(* settlements, transfers out of an agent's account, reinvestments,        *)
(* resources and upgrades, all derived from one ledger, in which a         *)
(* reference is posted once (src/src/db/economy-repositories.ts:457-480).  *)
(*                                                                         *)
(* Server processes share the database.  An operation that decides about   *)
(* money is a transaction that takes the advisory lock of the economy      *)
(* before it reads a balance (src/src/db/financial-transaction.ts): here   *)
(* it decides in one step and commits in a later one, and a crash between  *)
(* the two undoes it.  applyUpgrade is no such transaction: it reads,      *)
(* marks the upgrade and pays in three steps.                              *)
(***************************************************************************)
EXTENDS Totals

CONSTANTS
  Processes, Earners,
  Nobody,        \* for what belongs to the treasury itself
  Receipts,      \* payments as the owner enters them
  Transfers, Reinvestments, Resources, Upgrades, Settlements,
  Work,          \* attempts at executions, which cost whatever they cost
  AgentOf,       \* the agent of each item, or Nobody
  CentsOf,       \* the amount of each item but settlements
  SameAs,        \* payments that share a delivery or an external reference
  Sound,         \* the upgrades whose proposal passes both checks
  Quota,         \* monthly_spend_quota_cents of each agent
  Threshold,     \* policy.settlementThresholdCents
  Reserves,      \* what running work may reserve (see WorkExecution)
  MaxFaults      \* bound on crashes and freezes, together

Requests == Transfers \cup Reinvestments
Debits   == Reinvestments \cup Resources \cup Upgrades \cup Work \cup Settlements
Items    == Receipts \cup Transfers \cup Debits

\* Rows of different tables
Apart ==
  /\ Receipts \cap (Transfers \cup Debits) = {}
  /\ Transfers \cap Debits = {}
  /\ Reinvestments \cap (Resources \cup Upgrades \cup Work \cup Settlements) = {}
  /\ Resources \cap (Upgrades \cup Work \cup Settlements) = {}
  /\ Upgrades \cap (Work \cup Settlements) = {}
  /\ Work \cap Settlements = {}

ASSUME TreasuryAssumption ==
  /\ IsFiniteSet(Items) /\ Apart
  /\ Nobody \notin Earners
  /\ AgentOf \in [Items -> Earners \cup {Nobody}]
  /\ CentsOf \in [Items \ Settlements -> Nat \ {0}]
  /\ SameAs \in [Receipts -> SUBSET Receipts]
  /\ \A r, x \in Receipts : x \in SameAs[r] => r \in SameAs[x]
  /\ Sound \subseteq Upgrades
  /\ Quota \in [Earners -> Nat] /\ Threshold \in Nat
  /\ Reserves \subseteq Nat /\ MaxFaults \in Nat

VARIABLES
  status,       \* of every row
  posted,       \* the cents of its ledger entry, 0 for none
  frozen,       \* freeze_spending, freeze_withdrawals
  process,      \* what each process is about to write
  interrupted,  \* history: upgrades whose process died before it paid
  faults

treasuryVars == <<status, posted, frozen, process, interrupted, faults>>

NoOperation == [step |-> "idle", item |-> Nobody, then |-> "none", cents |-> 0]

TreasuryTypeOK ==
  /\ \A i \in Requests : status[i] \in {"none", "proposed", "executed", "rejected"}
  /\ \A i \in Receipts \cup Work : status[i] \in {"none", "booked"}
  /\ \A i \in Settlements : status[i] \in {"none", "pending", "completed"}
  /\ \A i \in Resources :
       status[i] \in {"none", "denied", "approved", "provisioned", "retired"}
  /\ \A i \in Upgrades :
       status[i] \in {"none", "proposed", "rejected", "applied", "rolled_back"}
  /\ posted \in [Items -> Nat]
  /\ frozen \subseteq {"spending", "withdrawals"}
  /\ \A p \in Processes :
       /\ process[p].step \in {"idle", "locked", "marking", "paying"}
       /\ process[p].step # "idle" => process[p].item \in Items
       /\ process[p].cents \in Nat
  /\ Cardinality({p \in Processes : process[p].step = "locked"}) <= 1
  /\ interrupted \subseteq Upgrades
  /\ faults \in 0..MaxFaults

TreasuryInit ==
  /\ status = [i \in Items |-> "none"]
  /\ posted = [i \in Items |-> 0]
  /\ frozen = {}
  /\ process = [p \in Processes |-> NoOperation]
  /\ interrupted = {}
  /\ faults = 0

-----------------------------------------------------------------------------
(* What the ledger says.                                                   *)

Sum(S)     == Total(posted, S)
ItemsOf(a) == {i \in Items : AgentOf[i] = a}

\* An account that forgets what was transferred out of it.
AvailableBefore(a) == Sum(Receipts \cap ItemsOf(a)) - Sum(Debits \cap ItemsOf(a))
\* agentAccountFor(a).availableCents
Available(a) == Sum(Receipts \cap ItemsOf(a)) - Sum(Debits \cap ItemsOf(a))
                  - Sum(Transfers \cap ItemsOf(a))

\* A summary that forgets what was settled.
NetBeforeSettlements(S) == Sum(Receipts) - Sum(S \ Settlements)
\* treasurySummary: realized revenue less the debits S.
Net(S) == Sum(Receipts) - Sum(S)

\* assertAgentQuota
WithinQuota(a, cents) == a # Nobody => Sum(Debits \cap ItemsOf(a)) + cents <= Quota[a]

-----------------------------------------------------------------------------
(* Transactions of the economy.                                            *)

\* A lock that everybody gets.
NoLock == TRUE
\* pg_advisory_xact_lock
Free == \A p \in Processes : process[p].step # "locked"

\* Take the lock and decide: `item` becomes `then`, and cents are posted.
Decide(p, item, then, cents) ==
  /\ process[p].step = "idle" /\ Free
  /\ process' = [process EXCEPT ![p] =
       [step |-> "locked", item |-> item, then |-> then, cents |-> cents]]
  /\ UNCHANGED <<status, posted, frozen, interrupted, faults>>

\* postLedger: a reference that is there already is left alone.
PostLedger(item, cents) ==
  posted' = [posted EXCEPT ![item] = IF @ = 0 THEN cents ELSE @]

Commit(p) ==
  /\ process[p].step = "locked"
  /\ status' = [status EXCEPT ![process[p].item] = process[p].then]
  /\ PostLedger(process[p].item, process[p].cents)
  /\ process' = [process EXCEPT ![p] = NoOperation]
  /\ UNCHANGED <<frozen, interrupted, faults>>

\* recordLedgerRevenue and recordDeliveryPayment
Receive(p, r) ==
  /\ \A x \in SameAs[r] \cup {r} : status[x] = "none"
  /\ Decide(p, r, "booked", CentsOf[r])

\* postExecutionCostShares: nothing is asked
Incur(p, w) == status[w] = "none" /\ Decide(p, w, "booked", CentsOf[w])

\* proposeSettlement: all there is above the float
Settle(p, s) ==
  /\ status[s] = "none" /\ Net(Debits) > Threshold
  /\ Decide(p, s, "pending", Net(Debits) - Threshold)

\* completeSettlement
CompleteSettlement(p, s) ==
  /\ status[s] # "none" /\ "withdrawals" \notin frozen
  /\ Decide(p, s, "completed", 0)

Brake(q) == IF q \in Transfers THEN "withdrawals" ELSE "spending"

\* proposeTreasuryTransfer, proposeReinvestment
Propose(p, q) ==
  /\ status[q] = "none" /\ Brake(q) \notin frozen
  /\ Available(AgentOf[q]) >= CentsOf[q]
  /\ Decide(p, q, "proposed", 0)

\* decideTreasuryTransfer, decideReinvestment: approval looks again.
Approve(p, q) ==
  /\ status[q] = "proposed" /\ Brake(q) \notin frozen
  /\ IF Available(AgentOf[q]) >= CentsOf[q]
     THEN Decide(p, q, "executed", CentsOf[q])
     ELSE Decide(p, q, "rejected", 0)

Reject(p, q) == status[q] = "proposed" /\ Decide(p, q, "rejected", 0)

Affordable(cents) == \E reserved \in Reserves : cents <= Net(Debits) - reserved

\* requestResource, which other caps of the policy may deny as well
RequestResource(p, x) ==
  /\ status[x] = "none"
  /\ \/ Decide(p, x, "denied", 0)
     \/ /\ "spending" \notin frozen
        /\ Affordable(CentsOf[x]) /\ WithinQuota(AgentOf[x], CentsOf[x])
        /\ Decide(p, x, "approved", 0)

\* confirmResourceProvisioned: the actual cost, the approved one or less, is
\* what the quota and the funds are asked for
Provision(p, x) ==
  /\ status[x] = "approved" /\ "spending" \notin frozen
  /\ \E cents \in 0..CentsOf[x] :
       /\ WithinQuota(AgentOf[x], cents) /\ Affordable(cents)
       /\ Decide(p, x, "provisioned", cents)

-----------------------------------------------------------------------------
(* Without the lock.                                                       *)

SetStatus(i, s) ==
  /\ status' = [status EXCEPT ![i] = s]
  /\ UNCHANGED <<posted, frozen, interrupted, faults>>

\* retireResource, whatever the status
Retire(x) == status[x] # "none" /\ SetStatus(x, "retired") /\ UNCHANGED process

ProposeUpgrade(u) ==
  status[u] = "none" /\ SetStatus(u, "proposed") /\ UNCHANGED process

\* applyUpgrade: the checks of the proposal were not passed.
RejectUpgrade(u) ==
  u \notin Sound /\ status[u] = "proposed" /\ SetStatus(u, "rejected") /\ UNCHANGED process

\* applyUpgrade: the surplus of its agent, or of the treasury, covers it.
CheckUpgrade(p, u) ==
  /\ process[p].step = "idle" /\ u \in Sound /\ status[u] = "proposed"
  /\ (IF AgentOf[u] = Nobody THEN Net(Debits) ELSE Available(AgentOf[u])) >= CentsOf[u]
  /\ WithinQuota(AgentOf[u], CentsOf[u])
  /\ process' = [process EXCEPT ![p] =
       [step |-> "marking", item |-> u, then |-> "applied", cents |-> CentsOf[u]]]
  /\ UNCHANGED <<status, posted, frozen, interrupted, faults>>

MarkUpgrade(p) ==
  /\ process[p].step = "marking"
  /\ SetStatus(process[p].item, "applied")
  /\ process' = [process EXCEPT ![p].step = "paying"]

\* its postLedger, a transaction of its own
PayUpgrade(p) ==
  /\ process[p].step = "paying" /\ Free
  /\ PostLedger(process[p].item, process[p].cents)
  /\ process' = [process EXCEPT ![p] = NoOperation]
  /\ UNCHANGED <<status, frozen, interrupted, faults>>

RollbackUpgrade(u) ==
  status[u] = "applied" /\ SetStatus(u, "rolled_back") /\ UNCHANGED process

-----------------------------------------------------------------------------
FaultHappens == faults < MaxFaults /\ faults' = faults + 1

OwnerFreezes ==
  /\ FaultHappens
  /\ \E k \in {"spending", "withdrawals"} :
       frozen' = IF k \in frozen THEN frozen \ {k} ELSE frozen \cup {k}
  /\ UNCHANGED <<status, posted, process, interrupted>>

\* A crash that keeps what an unfinished transaction wrote first.
CrashHalfway(p) ==
  /\ FaultHappens /\ process[p].step # "idle"
  /\ status' = [status EXCEPT ![process[p].item] = process[p].then]
  /\ process' = [process EXCEPT ![p] = NoOperation]
  /\ UNCHANGED <<posted, frozen, interrupted>>
\* A process dies: its transaction is undone, a marked upgrade stays marked.
ProcessDies(p) ==
  /\ FaultHappens /\ process[p].step # "idle"
  /\ interrupted' = interrupted \cup
       (IF process[p].step = "paying" THEN {process[p].item} ELSE {})
  /\ process' = [process EXCEPT ![p] = NoOperation]
  /\ UNCHANGED <<status, posted, frozen>>

Transaction(p) ==
  \/ \E r \in Receipts : Receive(p, r)
  \/ \E w \in Work : Incur(p, w)
  \/ \E s \in Settlements : Settle(p, s) \/ CompleteSettlement(p, s)
  \/ \E q \in Requests : Propose(p, q) \/ Approve(p, q) \/ Reject(p, q)
  \/ \E x \in Resources : RequestResource(p, x) \/ Provision(p, x)
  \/ Commit(p)

TreasuryNext ==
  \/ \E p \in Processes : \/ Transaction(p)
                          \/ \E u \in Upgrades : CheckUpgrade(p, u)
                          \/ MarkUpgrade(p) \/ PayUpgrade(p) \/ ProcessDies(p)
  \/ \E u \in Upgrades : ProposeUpgrade(u) \/ RejectUpgrade(u) \/ RollbackUpgrade(u)
  \/ \E x \in Resources : Retire(x)
  \/ OwnerFreezes

TreasurySpec == TreasuryInit /\ [][TreasuryNext]_treasuryVars

-----------------------------------------------------------------------------
(* Properties.                                                             *)

\* What was decided about an agent's surplus, transfers and reinvestments, was
\* earned by that agent, however proposals, approvals and costs interleave.
DecidedFromEarnings ==
  \A a \in Earners :
    Sum(Requests \cap ItemsOf(a)) <= Sum(Receipts \cap ItemsOf(a))

\* The owner is paid and resources are bought from realized revenue only, within
\* the quota of their agent: no two decisions use the same cents, nor does one
\* use what an earlier settlement took.
SettledFromRevenue ==
  /\ Sum(Settlements \cup Resources) <= Sum(Receipts)
  /\ \A a \in Earners : Sum(Resources \cap ItemsOf(a)) <= Quota[a]

\* The ledger and the rows tell the same story: an entry is there just for what
\* was executed, paid for, applied or settled, and only an upgrade whose process
\* died in between is applied without one.  No payment becomes revenue twice,
\* though the external reference of a receipt is unique by a query only.
BooksMatchRows ==
  /\ TreasuryTypeOK
  /\ \A r \in Receipts : \A x \in SameAs[r] \ {r} :
       ~(status[r] = "booked" /\ status[x] = "booked")
  /\ \A q \in Requests : posted[q] = IF status[q] = "executed" THEN CentsOf[q] ELSE 0
  /\ \A i \in Receipts \cup Work : posted[i] = IF status[i] = "booked" THEN CentsOf[i] ELSE 0
  /\ \A s \in Settlements : posted[s] > 0 <=> status[s] # "none"
  /\ \A x \in Resources : posted[x] > 0 => status[x] \in {"provisioned", "retired"}
  /\ \A u \in Upgrades :
       /\ posted[u] > 0 => status[u] \in {"applied", "rolled_back"}
       /\ status[u] \in {"applied", "rolled_back"} =>
            \/ posted[u] = CentsOf[u] \/ u \in interrupted
            \/ \E p \in Processes : process[p].step = "paying" /\ process[p].item = u

\* `a rejected transfer can never be quietly approved afterwards (and vice
\* versa)' (src/src/economy/treasury.ts:771-774): also when two owners decide
\* at the same time.
DecisionsAreFinal ==
  [][\A q \in Requests :
       status[q] \in {"executed", "rejected"} => status'[q] = status[q]]_treasuryVars
=============================================================================
