--------------------------- MODULE MissionProofs ---------------------------
(***************************************************************************)
(* Proofs about the money of the mission, for every set of actors.         *)
(*                                                                         *)
(* MissionMoney: its types, that what is held for an operation is what it  *)
(* reserved, that a payment is requested from the provider only once, and  *)
(* of the sums over payments that accounts are reconciled, that limits are *)
(* kept and that the books are the provider's.                             *)
(*                                                                         *)
(* ResourceCalls: its types, that a call is sent once and its quota kept,  *)
(* that hold, job and period follow the call, that an account is booked    *)
(* once, that usage covers the calls, and that wallet, budget and daily    *)
(* limit stand.                                                            *)
(***************************************************************************)
EXTENDS MissionMoney, ResourceCalls, TotalsProofs

USE MoneyAssumption DEF Accounts

-----------------------------------------------------------------------------
(* Types.                                                                  *)

\* What holds and releases of a payment write.
LEMMA HoldType ==
  ASSUME MoneyTypeOK, NEW o \in Ops, Hold(o)
  PROVE  /\ available' \in [Accounts -> Nat] /\ held' \in [Accounts -> Nat]
         /\ heldFor' \in [Ops -> Nat]
BY DEF MoneyTypeOK, Hold

LEMMA ReleaseType ==
  ASSUME MoneyTypeOK, NEW o \in Ops, NEW n \in 0..MaxCost[o], Release(o, n)
  PROVE  /\ available' \in [Accounts -> Nat] /\ held' \in [Accounts -> Nat]
         /\ heldFor' \in [Ops -> Nat]
BY DEF MoneyTypeOK, Release

\* Receipts do not overdraw the account that pays the debts.
LEMMA ReceiveType ==
  ASSUME MoneyTypeOK, NEW a \in Accounts, NEW n \in Nat, Receive(a, n)
  PROVE  available' \in [Accounts -> Nat] /\ debt' \in Nat
BY DEF MoneyTypeOK, Receive, Lesser

LEMMA AllocateType ==
  ASSUME MoneyTypeOK, NEW a \in Agents, NEW n \in Nat, Allocate(a, n)
  PROVE  available' \in [Accounts -> Nat]
BY DEF MoneyTypeOK, Allocate

LEMMA StateType ==
  ASSUME NEW r \in OpRecord, NEW s \in OpStates
  PROVE  [r EXCEPT !.state = s] \in OpRecord
BY DEF OpRecord

LEMMA OwnerType ==
  ASSUME NEW r \in OpRecord
  PROVE  /\ [r EXCEPT !.approvedBy = "owner"] \in OpRecord
         /\ [r EXCEPT !.destination = "changed"] \in OpRecord
BY DEF OpRecord

LEMMA RefundType ==
  ASSUME NEW r \in OpRecord, NEW n \in Nat
  PROVE  [r EXCEPT !.refunded = @ + n] \in OpRecord
<1>1. r.refunded + n \in Nat
  BY DEF OpRecord
<1>2. \A m \in Nat : [r EXCEPT !.refunded = m] \in OpRecord
  BY DEF OpRecord
<1> QED
  BY <1>1, <1>2

LEMMA PaidType ==
  ASSUME NEW r \in OpRecord, NEW n \in Nat, NEW d \in 0..MaxDays
  PROVE  [r EXCEPT !.actual = n, !.day = d] \in OpRecord
BY DEF OpRecord

LEMMA BecomeType ==
  ASSUME MoneyTypeOK, NEW o \in Ops, NEW s \in OpStates, Become(o, s)
  PROVE  op' \in [Ops -> OpRecord]
<1>1. [op[o] EXCEPT !.state = s] \in OpRecord
  BY StateType DEF MoneyTypeOK
<1> QED
  BY <1>1 DEF MoneyTypeOK, Become

LEMMA CallType ==
  ASSUME MoneyTypeOK, NEW c \in Callers, NEW r \in RunRecord, Call(c, r)
  PROVE  run' \in [Callers -> RunRecord]
BY DEF MoneyTypeOK, Call

LEMMA IdleType == Idle \in RunRecord
BY DEF RunRecord

\* The fields of a call, of one that is made and of none.
LEMMA BusyType ==
  ASSUME MoneyTypeOK, NEW c \in Callers, run[c].step # "idle" \/ run[c].send
  PROVE  run[c] \in [step : {"claimed", "cleared", "posted", "asking", "answered"},
                     op : Ops, send : BOOLEAN, answer : Payment]
BY DEF MoneyTypeOK, RunRecord, Idle

\* The state is well-typed.
THEOREM MoneyTypeCorrect == Spec => []MoneyTypeOK
<1>1. Init => MoneyTypeOK
  BY IdleType DEF Init, MoneyTypeOK, OpRecord, OpStates, NewOp, NoPayment, Payment
<1>2. MoneyTypeOK /\ [Next]_vars => MoneyTypeOK'
  <2> SUFFICES ASSUME MoneyTypeOK, [Next]_vars PROVE MoneyTypeOK'
    OBVIOUS
  <2> USE DEF cashVars, ownerVars, providerVars
  <2>1. ASSUME NEW p \in {"running", "supervised", "killed"}, SetPolicy(p)
        PROVE  MoneyTypeOK'
    BY <2>1 DEF SetPolicy, MoneyTypeOK, Forbids
  <2>2. ASSUME NEW a \in Agents, SetMoneyGrant(a) PROVE MoneyTypeOK'
    BY <2>2 DEF SetMoneyGrant, MoneyTypeOK, Forbids
  <2>3. ASSUME NEW a \in Agents, AllocateCash(a) PROVE MoneyTypeOK'
    <3>1. PICK n \in 1..available[Treasury] : Allocate(a, n)
      BY <2>3 DEF AllocateCash
    <3>2. n \in Nat
      BY <3>1 DEF MoneyTypeOK
    <3> QED
      BY <3>1, <3>2, AllocateType DEF Allocate, MoneyTypeOK
  <2>4. ASSUME NEW a \in Accounts, FreezeCash(a) PROVE MoneyTypeOK'
    BY <2>4 DEF FreezeCash, MoneyTypeOK, Forbids
  <2>5. CASE EditDestination
    <3>1. \A o \in Ops : [op[o] EXCEPT !.destination = "changed"] \in OpRecord
      BY OwnerType DEF MoneyTypeOK
    <3>2. op' \in [Ops -> OpRecord]
      BY <2>5, <3>1 DEF EditDestination, MoneyTypeOK
    <3> QED
      BY <2>5, <3>2 DEF EditDestination, MoneyTypeOK, Forbids
  <2>6. ASSUME NEW a \in Agents, AutoAllocate(a) PROVE MoneyTypeOK'
    <3>1. PICK n \in 1..available[Treasury] : Allocate(a, n)
      BY <2>6 DEF AutoAllocate
    <3>2. n \in Nat
      BY <3>1 DEF MoneyTypeOK
    <3> QED
      BY <3>1, <3>2, AllocateType DEF Allocate, MoneyTypeOK
  <2>7. ASSUME NEW o \in Ops, RequestMoney(o) PROVE MoneyTypeOK'
    <3>1. op' \in [Ops -> OpRecord]
      BY <2>7, BecomeType DEF RequestMoney, OpStates
    <3>2. /\ available' \in [Accounts -> Nat] /\ held' \in [Accounts -> Nat]
          /\ heldFor' \in [Ops -> Nat]
      BY <2>7, HoldType DEF RequestMoney, MoneyTypeOK
    <3> QED
      BY <2>7, <3>1, <3>2 DEF RequestMoney, OnlyCash, MoneyTypeOK
  <2>8. ASSUME NEW o \in Ops, Approve(o) PROVE MoneyTypeOK'
    <3> DEFINE r == [op[o] EXCEPT !.state = "reserved", !.approvedBy = "owner"]
    <3>0. r \in OpRecord
      <4>1. [op[o] EXCEPT !.state = "reserved"] \in OpRecord
        BY StateType DEF MoneyTypeOK, OpStates
      <4> QED
        BY <4>1, OwnerType
    <3>1. op' \in [Ops -> OpRecord]
      BY <2>8, <3>0 DEF Approve, MoneyTypeOK
    <3> QED
      BY <2>8, <3>1, HoldType DEF Approve, OnlyCash, MoneyTypeOK
  <2>9. ASSUME NEW o \in Ops, Withdraw(o) PROVE MoneyTypeOK'
    <3>1. op' \in [Ops -> OpRecord]
      BY <2>9, BecomeType DEF Withdraw, OpStates
    <3>2. /\ available' \in [Accounts -> Nat] /\ held' \in [Accounts -> Nat]
          /\ heldFor' \in [Ops -> Nat]
      BY <2>9, ReleaseType DEF Withdraw, MoneyTypeOK
    <3> QED
      BY <2>9, <3>1, <3>2 DEF Withdraw, OnlyCash, MoneyTypeOK
  <2>10. ASSUME NEW o \in Ops, BookRefund(o) PROVE MoneyTypeOK'
    <3>1. payment[o].cost \in Nat
      BY DEF MoneyTypeOK, Payment
    <3>2. op' \in [Ops -> OpRecord]
      <4>1. [op[o] EXCEPT !.refunded = @ + payment[o].cost] \in OpRecord
        BY <3>1, RefundType DEF MoneyTypeOK
      <4> QED
        BY <2>10, <4>1 DEF BookRefund, MoneyTypeOK
    <3>3. available' \in [Accounts -> Nat] /\ debt' \in Nat
      BY <2>10, <3>1, ReceiveType DEF BookRefund
    <3> QED
      BY <2>10, <3>2, <3>3 DEF BookRefund, MoneyTypeOK, ReceiptId, Refunded
  <2>11. ASSUME NEW e \in Earnings, BookEarning(e) PROVE MoneyTypeOK'
    <3>1. available' \in [Accounts -> Nat] /\ debt' \in Nat
      BY <2>11, ReceiveType DEF BookEarning
    <3> QED
      BY <2>11, <3>1 DEF BookEarning, MoneyTypeOK, ReceiptId, Earned
  <2>12. ASSUME NEW e \in Earnings, BookReversal(e) PROVE MoneyTypeOK'
    <3>1. PICK take \in [Accounts -> 0..Worth[e]], rest \in 0..Worth[e] :
            /\ \A a \in Accounts : take[a] <= available[a]
            /\ available' = [a \in Accounts |-> available[a] - take[a]]
            /\ debt' = debt + rest
      BY <2>12 DEF BookReversal
    <3>2. available' \in [Accounts -> Nat] /\ debt' \in Nat
      <4>1. \A a \in Accounts : available[a] - take[a] \in Nat
        BY <3>1 DEF MoneyTypeOK
      <4> QED
        BY <3>1, <4>1 DEF MoneyTypeOK
    <3> QED
      BY <2>12, <3>2 DEF BookReversal, MoneyTypeOK, ReceiptId, Reversed
  <2>13. ASSUME NEW c \in Callers, NEW o \in Ops, Ask(c, o) PROVE MoneyTypeOK'
    <3>1. [Idle EXCEPT !.step = "asking", !.op = o] \in RunRecord
      BY DEF RunRecord, Idle, NoPayment, Payment
    <3> QED
      BY <2>13, <3>1, CallType DEF Ask, OnlyCash, MoneyTypeOK
  <2>14. ASSUME NEW c \in Callers, NEW o \in Ops, Claim(c, o) PROVE MoneyTypeOK'
    <3>1. [Idle EXCEPT !.step = "claimed", !.op = o, !.send = TRUE] \in RunRecord
      BY DEF RunRecord, Idle, NoPayment, Payment
    <3>2. op' \in [Ops -> OpRecord]
      BY <2>14, BecomeType DEF Claim, OpStates
    <3> QED
      BY <2>14, <3>1, <3>2, CallType DEF Claim, OnlyCash, MoneyTypeOK
  <2>15. ASSUME NEW c \in Callers, AuthorizeSend(c) PROVE MoneyTypeOK'
    <3>1. [run[c] EXCEPT !.step = "cleared"] \in RunRecord
      BY <2>15, BusyType DEF AuthorizeSend, RunRecord
    <3> QED
      BY <2>15, <3>1, CallType DEF AuthorizeSend, Step, OnlyCash, MoneyTypeOK
  <2>16. ASSUME NEW c \in Callers, Post(c) PROVE MoneyTypeOK'
    <3>1. [run[c] EXCEPT !.step = "posted"] \in RunRecord
      BY <2>16, BusyType DEF Post, RunRecord
    <3>2. run' \in [Callers -> RunRecord]
      BY <2>16, <3>1, CallType DEF Post, Step
    <3>3. run[c].op \in Ops
      BY <2>16, BusyType DEF Post
    <3> QED
      BY <2>16, <3>2, <3>3 DEF Post, MoneyTypeOK
  <2>17. ASSUME NEW c \in Callers, Uncertain(c) PROVE MoneyTypeOK'
    <3>0. run[c].op \in Ops
      BY <2>17, BusyType DEF Uncertain
    <3>1. op' \in [Ops -> OpRecord]
      BY <2>17, <3>0, StateType DEF Uncertain, MoneyTypeOK, OpStates
    <3> QED
      BY <2>17, <3>1, IdleType, CallType DEF Uncertain, OnlyCash, MoneyTypeOK
  <2>18. ASSUME NEW c \in Callers, AskFails(c) PROVE MoneyTypeOK'
    BY <2>18, IdleType, CallType DEF AskFails, OnlyCash, MoneyTypeOK
  <2>19. ASSUME NEW c \in Callers, Answer(c) PROVE MoneyTypeOK'
    <3> DEFINE r == [run[c] EXCEPT !.step = "answered", !.answer = payment[run[c].op]]
    <3>1. r \in RunRecord
      BY <2>19, BusyType DEF Answer, MoneyTypeOK, RunRecord
    <3> QED
      BY <2>19, <3>1, CallType DEF Answer, OnlyCash, MoneyTypeOK
  <2>20. ASSUME NEW c \in Callers, Settle(c) PROVE MoneyTypeOK'
    <3> DEFINE o == run[c].op answer == run[c].answer
    <3>1. o \in Ops /\ answer \in Payment
      BY <2>20, BusyType DEF Settle
    <3>2. run' \in [Callers -> RunRecord]
      BY <2>20, IdleType, CallType DEF Settle
    <3>3. CASE /\ Become(o, "pending") /\ UNCHANGED <<available, held, heldFor>>
      <4>1. op' \in [Ops -> OpRecord]
        BY <3>1, <3>3, BecomeType DEF OpStates
      <4> QED
        BY <2>20, <3>2, <3>3, <4>1 DEF Settle, OnlyCash, MoneyTypeOK
    <3>4. CASE /\ answer.cost \in Amount[o]..MaxCost[o]
               /\ op' = [op EXCEPT ![o].state = "completed", ![o].actual = answer.cost,
                                   ![o].day = today]
               /\ Release(o, answer.cost)
      <4> DEFINE r == [op[o] EXCEPT !.state = "completed", !.actual = answer.cost,
                                    !.day = today]
      <4>0. op[o] \in OpRecord /\ answer.cost \in Nat /\ today \in 0..MaxDays
        BY <3>1 DEF MoneyTypeOK, Payment
      <4>1. r \in OpRecord
        <5>1. [op[o] EXCEPT !.state = "completed"] \in OpRecord
          BY <4>0, StateType DEF OpStates
        <5> QED
          BY <4>0, <5>1, PaidType
      <4>2. op' \in [Ops -> OpRecord]
        BY <3>1, <3>4, <4>1 DEF MoneyTypeOK
      <4>3. answer.cost \in 0..MaxCost[o]
        BY <3>1, <3>4 DEF Payment
      <4> QED
        BY <2>20, <3>1, <3>2, <3>4, <4>2, <4>3, ReleaseType
        DEF Settle, OnlyCash, MoneyTypeOK
    <3>5. CASE Become(o, "failed") /\ Release(o, 0)
      <4>1. op' \in [Ops -> OpRecord]
        BY <3>1, <3>5, BecomeType DEF OpStates
      <4> QED
        BY <2>20, <3>1, <3>2, <3>5, <4>1, ReleaseType, MaxCost[o] \in Nat, 0 \in 0..MaxCost[o]
        DEF Settle, OnlyCash, MoneyTypeOK
    <3> QED
      BY <2>20, <3>3, <3>4, <3>5 DEF Settle
  <2>21. ASSUME NEW c \in Callers, Crash(c) PROVE MoneyTypeOK'
    BY <2>21, IdleType, CallType DEF Crash, MoneyTypeOK
  <2>22. ASSUME NEW o \in Ops, Arrive(o) \/ Lose(o) \/ Return(o) PROVE MoneyTypeOK'
    <3>1. \A s \in {"pending", "returned"} : [payment[o] EXCEPT !.state = s] \in Payment
      BY DEF MoneyTypeOK, Payment
    <3> QED
      BY <2>22, <3>1 DEF Arrive, Lose, Return, Internal, MoneyTypeOK
  <2>23. ASSUME NEW o \in Ops, Pay(o) PROVE MoneyTypeOK'
    <3>1. \A n \in Amount[o]..(MaxCost[o] + 1) : [state |-> "paid", cost |-> n] \in Payment
      BY DEF Payment
    <3> QED
      BY <2>23, <3>1 DEF Pay, Internal, MoneyTypeOK
  <2>24. ASSUME NEW e \in Earnings, Customer(e) PROVE MoneyTypeOK'
    BY <2>24 DEF Customer, Internal, MoneyTypeOK
  <2>25. CASE NextDay
    BY <2>25 DEF NextDay, Internal, MoneyTypeOK
  <2>26. CASE UNCHANGED vars
    BY <2>26 DEF vars, MoneyTypeOK
  <2> QED
    BY <2>1, <2>2, <2>3, <2>4, <2>5, <2>6, <2>7, <2>8, <2>9, <2>10, <2>11, <2>12,
       <2>13, <2>14, <2>15, <2>16, <2>17, <2>18, <2>19, <2>20, <2>21, <2>22,
       <2>23, <2>24, <2>25, <2>26 DEF Next, Owner, Books, Caller, Provider
<1> QED
  BY <1>1, <1>2, PTL DEF Spec

-----------------------------------------------------------------------------
(* Holds.                                                                  *)

\* A hold is taken where there was none, and given back whole.
LEMMA HoldMoves ==
  ASSUME MoneyTypeOK, NEW o \in Ops, Hold(o)
  PROVE  /\ heldFor'[o] = heldFor[o] + MaxCost[o]
         /\ \A q \in Ops \ {o} : heldFor'[q] = heldFor[q]
BY DEF MoneyTypeOK, Hold

LEMMA ReleaseMoves ==
  ASSUME MoneyTypeOK, NEW o \in Ops, NEW n, Release(o, n)
  PROVE  /\ heldFor'[o] = heldFor[o] - MaxCost[o]
         /\ \A q \in Ops \ {o} : heldFor'[q] = heldFor[q]
BY DEF MoneyTypeOK, Release

LEMMA BecomeMoves ==
  ASSUME MoneyTypeOK, NEW o \in Ops, NEW s, Become(o, s)
  PROVE  op'[o].state = s /\ \A q \in Ops \ {o} : op'[q] = op[q]
BY DEF MoneyTypeOK, Become, OpRecord

\* The operations whose state and hold stay as they are keep an exact hold.
LEMMA OthersExact ==
  ASSUME HoldsAreExact, NEW o \in Ops,
         \A q \in Ops \ {o} : op'[q].state = op[q].state /\ heldFor'[q] = heldFor[q],
         heldFor'[o] = IF op'[o].state \in Live THEN MaxCost[o] ELSE 0
  PROVE  HoldsAreExact'
BY DEF HoldsAreExact, ExpectedHold

LEMMA SameExact ==
  ASSUME HoldsAreExact, heldFor' = heldFor,
         \A q \in Ops : op'[q].state \in Live <=> op[q].state \in Live
  PROVE  HoldsAreExact'
BY DEF HoldsAreExact, ExpectedHold

\* What the entries hold by reference is what the operation reserved as long as
\* it is alive, and nothing before and after: no sequence of requests, decisions,
\* cancellations, settlements, crashes and timeouts releases a hold twice, or
\* leaves one behind.
THEOREM HoldsExact == Spec => []HoldsAreExact
<1>1. Init => HoldsAreExact
  BY DEF Init, HoldsAreExact, ExpectedHold, NewOp, Live, Sent
<1>2. MoneyTypeOK /\ HoldsAreExact /\ [Next]_vars => HoldsAreExact'
  <2> SUFFICES ASSUME MoneyTypeOK, HoldsAreExact, [Next]_vars PROVE HoldsAreExact'
    OBVIOUS
  <2>1. ASSUME heldFor' = heldFor, op' = op PROVE HoldsAreExact'
    BY <2>1, SameExact
  <2>2. CASE EditDestination
    <3>1. \A q \in Ops : op'[q].state = op[q].state
      BY <2>2 DEF EditDestination, MoneyTypeOK, OpRecord
    <3> QED
      BY <2>2, <3>1, SameExact DEF EditDestination, cashVars
  <2>3. ASSUME NEW o \in Ops, RequestMoney(o) PROVE HoldsAreExact'
    <3>1. heldFor[o] = 0
      BY <2>3 DEF RequestMoney, HoldsAreExact, ExpectedHold, Live, Sent
    <3>2. CASE Become(o, "approval_required") /\ heldFor' = heldFor
      BY <3>1, <3>2, BecomeMoves, OthersExact DEF Live, Sent
    <3>3. CASE Become(o, "reserved") /\ Hold(o)
      BY <3>1, <3>3, BecomeMoves, HoldMoves, OthersExact DEF Live, Sent
    <3> QED
      BY <2>3, <3>2, <3>3 DEF RequestMoney
  <2>4. ASSUME NEW o \in Ops, Approve(o) PROVE HoldsAreExact'
    <3>1. heldFor[o] = 0
      BY <2>4 DEF Approve, HoldsAreExact, ExpectedHold, Live, Sent
    <3>2. op'[o].state = "reserved" /\ \A q \in Ops \ {o} : op'[q] = op[q]
      BY <2>4 DEF Approve, MoneyTypeOK, OpRecord
    <3>3. Hold(o)
      BY <2>4 DEF Approve
    <3> QED
      BY <3>1, <3>2, <3>3, HoldMoves, OthersExact DEF Live, Sent
  <2>5. ASSUME NEW o \in Ops, Withdraw(o) PROVE HoldsAreExact'
    <3>1. op'[o].state = "rejected" /\ \A q \in Ops \ {o} : op'[q] = op[q]
      BY <2>5, BecomeMoves DEF Withdraw
    <3>2. CASE op[o].state = "approval_required" /\ heldFor' = heldFor
      BY <3>1, <3>2, SameExact DEF Live, Sent
    <3>3. CASE op[o].state = "reserved" /\ Release(o, 0)
      <4>1. heldFor[o] = MaxCost[o]
        BY <3>3 DEF HoldsAreExact, ExpectedHold, Live
      <4> QED
        BY <3>1, <3>3, <4>1, ReleaseMoves, OthersExact DEF Live, Sent
    <3> QED
      BY <2>5, <3>2, <3>3 DEF Withdraw
  <2>6. ASSUME NEW o \in Ops, BookRefund(o) PROVE HoldsAreExact'
    <3>1. \A q \in Ops : op'[q].state = op[q].state
      BY <2>6 DEF BookRefund, MoneyTypeOK, OpRecord
    <3> QED
      BY <2>6, <3>1, SameExact DEF BookRefund
  <2>7. ASSUME NEW c \in Callers, NEW o \in Ops, Claim(c, o) PROVE HoldsAreExact'
    <3>1. op'[o].state = "dispatching" /\ \A q \in Ops \ {o} : op'[q] = op[q]
      BY <2>7, BecomeMoves DEF Claim
    <3> QED
      BY <2>7, <3>1, SameExact DEF Claim, Live, Sent
  <2>8. ASSUME NEW c \in Callers, Uncertain(c) PROVE HoldsAreExact'
    <3>1. run[c].op \in Ops
      BY <2>8, BusyType DEF Uncertain
    <3>2. \A q \in Ops : op'[q].state \in Live <=> op[q].state \in Live
      BY <2>8, <3>1 DEF Uncertain, MoneyTypeOK, OpRecord, Live, Sent
    <3> QED
      BY <2>8, <3>2, SameExact DEF Uncertain
  <2>9. ASSUME NEW c \in Callers, Settle(c) PROVE HoldsAreExact'
    <3> DEFINE o == run[c].op
    <3>1. o \in Ops /\ op[o].state \in Live
      BY <2>9, BusyType DEF Settle, Live
    <3>2. heldFor[o] = MaxCost[o]
      BY <3>1 DEF HoldsAreExact, ExpectedHold
    <3>3. CASE Become(o, "pending") /\ heldFor' = heldFor
      BY <3>1, <3>3, BecomeMoves, SameExact DEF Live, Sent
    <3>4. ASSUME NEW n, Release(o, n), op'[o].state \in {"completed", "failed"},
                 \A q \in Ops \ {o} : op'[q] = op[q]
          PROVE  HoldsAreExact'
      BY <3>1, <3>2, <3>4, ReleaseMoves, OthersExact DEF Live, Sent
    <3>5. CASE /\ op' = [op EXCEPT ![o].state = "completed",
                                   ![o].actual = run[c].answer.cost, ![o].day = today]
               /\ Release(o, run[c].answer.cost)
      <4>1. op'[o].state = "completed" /\ \A q \in Ops \ {o} : op'[q] = op[q]
        BY <3>1, <3>5 DEF MoneyTypeOK, OpRecord
      <4> QED
        BY <3>4, <3>5, <4>1
    <3>6. CASE Become(o, "failed") /\ Release(o, 0)
      BY <3>1, <3>4, <3>6, BecomeMoves
    <3> QED
      BY <2>9, <3>3, <3>5, <3>6 DEF Settle
  <2>10. ASSUME NEW c \in Callers,
                \/ \E o \in Ops : Ask(c, o)
                \/ AuthorizeSend(c) \/ Post(c) \/ AskFails(c) \/ Answer(c) \/ Crash(c)
         PROVE  HoldsAreExact'
    BY <2>1, <2>10 DEF Ask, AuthorizeSend, Post, AskFails, Answer, Crash, cashVars
  <2>11. CASE \/ \E p \in {"running", "supervised", "killed"} : SetPolicy(p)
              \/ \E a \in Agents : SetMoneyGrant(a) \/ AllocateCash(a) \/ AutoAllocate(a)
              \/ \E a \in Accounts : FreezeCash(a)
              \/ \E e \in Earnings : BookEarning(e) \/ BookReversal(e)
    BY <2>1, <2>11 DEF SetPolicy, SetMoneyGrant, AllocateCash, AutoAllocate, Allocate,
       FreezeCash, BookEarning, BookReversal, cashVars
  <2>12. CASE Provider \/ NextDay \/ UNCHANGED vars
    BY <2>1, <2>12 DEF Provider, Arrive, Lose, Pay, Return, Customer, NextDay, vars,
       Internal, cashVars
  <2> QED
    BY <2>2, <2>3, <2>4, <2>5, <2>6, <2>7, <2>8, <2>9, <2>10, <2>11, <2>12
    DEF Next, Owner, Books, Caller
<1> QED
  BY <1>1, <1>2, MoneyTypeCorrect, PTL DEF Spec

-----------------------------------------------------------------------------
(* A payment is sent once.                                                 *)

\* Caller c claimed o and has not sent the request yet.
Before(c, o) == run[c].op = o /\ run[c].step \in {"claimed", "cleared"}

\* The provider knows nothing of what it was not sent.
UnsentUnknown == \A o \in Ops : posts[o] = 0 => o \notin wire /\ payment[o].state = "none"

\* One caller is about to send, and nobody sent or settled before it.
OneSender ==
  \A c \in Callers, o \in Ops :
    Before(c, o) => /\ posts[o] = 0 /\ op[o].state = "dispatching"
                    /\ \A d \in Callers : Before(d, o) => d = c

\* What a caller was answered is still true, if less than what is known by now.
AnswerKnown ==
  \A c \in Callers :
    run[c].step = "answered" =>
      /\ payment[run[c].op].state # "none"
      /\ run[c].answer.state = "returned" => payment[run[c].op].state = "returned"

SenderPosted ==
  \A c \in Callers :
    run[c].send => /\ run[c].step # "asking"
                   /\ run[c].step \in {"posted", "answered"} => posts[run[c].op] = 1

SentInv == SentOnce /\ UnsentUnknown /\ OneSender /\ AnswerKnown /\ SenderPosted

\* A step that only changes states of operations nobody sent or is about to send.
LEMMA UnsentStep ==
  ASSUME MoneyTypeOK, MoneyTypeOK', SentInv, NEW o \in Ops,
         UNCHANGED <<run, posts, wire, payment>>,
         op[o].state \notin Sent \cup {"completed", "failed"},
         op'[o].state # "failed",
         \A q \in Ops \ {o} : op'[q].state = op[q].state
  PROVE  SentInv'
<1>1. posts[o] # 1
  BY DEF SentInv, SentOnce
<1>2. SentOnce'
  BY <1>1 DEF SentInv, SentOnce
<1>3. OneSender'
  <2> SUFFICES ASSUME NEW c \in Callers, NEW q \in Ops, Before(c, q)'
               PROVE  /\ posts'[q] = 0 /\ op'[q].state = "dispatching"
                      /\ \A d \in Callers : Before(d, q)' => d = c
    BY DEF OneSender
  <2>1. \A d \in Callers : Before(d, q)' <=> Before(d, q)
    BY DEF Before
  <2>2. q # o
    BY <2>1 DEF SentInv, OneSender, Sent
  <2> QED
    BY <2>1, <2>2 DEF SentInv, OneSender
<1> QED
  BY <1>2, <1>3 DEF SentInv, UnsentUnknown, AnswerKnown, SenderPosted

\* A step that changes neither states, nor calls, nor what the provider knows.
LEMMA SilentStep ==
  ASSUME MoneyTypeOK, SentInv, UNCHANGED <<run, posts, wire, payment>>,
         \A q \in Ops : op'[q].state = op[q].state
  PROVE  SentInv'
BY DEF SentInv, SentOnce, UnsentUnknown, OneSender, AnswerKnown, SenderPosted, Before

\* Caller c ends its call, which sends nothing; its operation moves on.
LEMMA EndStep ==
  ASSUME MoneyTypeOK, SentInv, NEW c \in Callers, NEW o \in Ops,
         run' = [run EXCEPT ![c] = Idle], UNCHANGED <<posts, wire, payment>>,
         op'[o].state # op[o].state => \A d \in Callers : Before(d, o) => d = c,
         \A q \in Ops \ {o} : op'[q].state = op[q].state,
         \/ op'[o].state = op[o].state
         \/ op'[o].state \in Sent \cup {"completed"}
         \/ op'[o].state = "failed" /\ payment[o].state = "returned"
  PROVE  SentInv'
<1>1. run'[c] = Idle /\ \A d \in Callers \ {c} : run'[d] = run[d]
  BY DEF MoneyTypeOK
<1>2. SentOnce' /\ UnsentUnknown'
  BY DEF Sent, SentInv, SentOnce, UnsentUnknown
<1>3. OneSender'
  <2> SUFFICES ASSUME NEW e \in Callers, NEW q \in Ops, Before(e, q)'
               PROVE  /\ posts'[q] = 0 /\ op'[q].state = "dispatching"
                      /\ \A d \in Callers : Before(d, q)' => d = e
    BY DEF OneSender
  <2>1. \A d \in Callers : Before(d, q)' => d # c /\ Before(d, q)
    BY <1>1 DEF Before, Idle
  <2>2. op'[q].state = op[q].state
    BY <2>1
  <2> QED
    BY <2>1, <2>2 DEF SentInv, OneSender
<1>4. AnswerKnown' /\ SenderPosted'
  BY <1>1 DEF SentInv, AnswerKnown, SenderPosted, Idle
<1> QED
  BY <1>2, <1>3, <1>4 DEF SentInv

\* The provider learns more of o, which it was sent.
LEMMA ProviderStep ==
  ASSUME MoneyTypeOK, SentInv, NEW o \in Ops, UNCHANGED <<op, run, posts>>,
         wire' \subseteq wire, posts[o] # 0,
         \A q \in Ops \ {o} : payment'[q] = payment[q],
         payment[o].state # "none" => payment'[o].state # "none",
         payment[o].state = "returned" => payment'[o].state = "returned"
  PROVE  SentInv'
<1>1. \A q \in Ops : /\ payment[q].state # "none" => payment'[q].state # "none"
                     /\ payment[q].state = "returned" => payment'[q].state = "returned"
  OBVIOUS
<1>2. SentOnce' /\ UnsentUnknown' /\ OneSender' /\ SenderPosted'
  BY <1>1 DEF SentInv, SentOnce, UnsentUnknown, OneSender, SenderPosted, Before
<1>3. AnswerKnown'
  <2>1. \A c \in Callers : run[c].step = "answered" => run[c].op \in Ops
    BY BusyType
  <2> QED
    BY <1>1, <2>1 DEF SentInv, AnswerKnown
<1> QED
  BY <1>2, <1>3 DEF SentInv

\* A payment is requested from the provider at most once, by whichever process,
\* however many of them crash, time out or ask; from then on it is not cancelled
\* or dispatched again, and its hold is released as failed only when the provider
\* has returned the money.
THEOREM PaymentSentOnce == Spec => []SentOnce
<1>1. Init => SentInv
  BY DEF Init, SentInv, SentOnce, UnsentUnknown, OneSender, AnswerKnown, SenderPosted,
     Before, Idle, NoPayment, NewOp
<1>2. MoneyTypeOK /\ MoneyTypeOK' /\ SentInv /\ [Next]_vars => SentInv'
  <2> SUFFICES ASSUME MoneyTypeOK, MoneyTypeOK', SentInv, [Next]_vars PROVE SentInv'
    OBVIOUS
  <2>1. ASSUME UNCHANGED <<op, run, posts, wire, payment>> PROVE SentInv'
    BY <2>1, SilentStep
  <2>2. CASE EditDestination
    <3>1. \A q \in Ops : op'[q].state = op[q].state
      BY <2>2 DEF EditDestination, MoneyTypeOK, OpRecord
    <3> QED
      BY <2>2, <3>1, SilentStep DEF EditDestination, providerVars
  <2>3. ASSUME NEW o \in Ops, RequestMoney(o) PROVE SentInv'
    <3>1. /\ op'[o].state \in {"approval_required", "reserved"}
          /\ \A q \in Ops \ {o} : op'[q] = op[q]
      BY <2>3, BecomeMoves DEF RequestMoney
    <3> QED
      BY <2>3, <3>1, UnsentStep DEF RequestMoney, OnlyCash, providerVars, Sent
  <2>4. ASSUME NEW o \in Ops, Approve(o) PROVE SentInv'
    <3>1. op'[o].state = "reserved" /\ \A q \in Ops \ {o} : op'[q] = op[q]
      BY <2>4 DEF Approve, MoneyTypeOK, OpRecord
    <3> QED
      BY <2>4, <3>1, UnsentStep DEF Approve, OnlyCash, providerVars, Sent
  <2>5. ASSUME NEW o \in Ops, Withdraw(o) PROVE SentInv'
    <3>1. op'[o].state = "rejected" /\ \A q \in Ops \ {o} : op'[q] = op[q]
      BY <2>5, BecomeMoves DEF Withdraw
    <3> QED
      BY <2>5, <3>1, UnsentStep DEF Withdraw, OnlyCash, providerVars, Sent
  <2>6. ASSUME NEW o \in Ops, BookRefund(o) PROVE SentInv'
    <3>1. \A q \in Ops : op'[q].state = op[q].state
      BY <2>6 DEF BookRefund, MoneyTypeOK, OpRecord
    <3> QED
      BY <2>6, <3>1, SilentStep DEF BookRefund, providerVars
  <2>7. ASSUME NEW c \in Callers, NEW o \in Ops, Claim(c, o) PROVE SentInv'
    <3>1. /\ run' = [run EXCEPT ![c] = run'[c]] /\ run'[c].op = o
          /\ run'[c].step = "claimed" /\ run[c] = Idle
      BY <2>7 DEF Claim, Call, MoneyTypeOK, Idle
    <3>2. op'[o].state = "dispatching" /\ \A q \in Ops \ {o} : op'[q] = op[q]
      BY <2>7, BecomeMoves DEF Claim
    <3>3. posts[o] = 0 /\ \A d \in Callers : ~Before(d, o)
      <4>1. op[o].state = "reserved" /\ posts[o] \in Nat
        BY <2>7 DEF Claim, MoneyTypeOK
      <4>2. posts[o] <= 1 /\ posts[o] # 1
        BY <4>1 DEF SentInv, SentOnce, Sent
      <4>3. \A d \in Callers : ~Before(d, o)
        BY <4>1 DEF SentInv, OneSender
      <4> QED
        BY <4>1, <4>2, <4>3
    <3>4. UNCHANGED <<posts, wire, payment>>
      BY <2>7 DEF Claim, OnlyCash, providerVars
    <3>5. SentOnce' /\ UnsentUnknown'
      BY <3>2, <3>3, <3>4 DEF SentInv, SentOnce, UnsentUnknown
    <3>6. OneSender'
      <4> SUFFICES ASSUME NEW e \in Callers, NEW q \in Ops, Before(e, q)'
                   PROVE  /\ posts'[q] = 0 /\ op'[q].state = "dispatching"
                          /\ \A d \in Callers : Before(d, q)' => d = e
        BY DEF OneSender
      <4>1. \A d \in Callers : Before(d, q)' <=> (IF d = c THEN q = o ELSE Before(d, q))
        BY <3>1 DEF Before, MoneyTypeOK
      <4> QED
        BY <4>1, <3>2, <3>3, <3>4 DEF SentInv, OneSender
    <3>7. AnswerKnown' /\ SenderPosted'
      BY <3>1, <3>4 DEF SentInv, AnswerKnown, SenderPosted, MoneyTypeOK
    <3> QED
      BY <3>5, <3>6, <3>7 DEF SentInv
  <2>8. ASSUME NEW c \in Callers, NEW o \in Ops, Ask(c, o) PROVE SentInv'
    <3>1. /\ \A d \in Callers \ {c} : run'[d] = run[d]
          /\ run'[c].step = "asking" /\ run'[c].send = FALSE /\ run[c] = Idle
      BY <2>8 DEF Ask, Call, MoneyTypeOK, Idle
    <3>2. UNCHANGED <<op, posts, wire, payment>>
      BY <2>8 DEF Ask, OnlyCash, providerVars
    <3>3. SentOnce' /\ UnsentUnknown'
      BY <3>2 DEF SentInv, SentOnce, UnsentUnknown
    <3>4. OneSender'
      <4>1. \A d \in Callers, q \in Ops : Before(d, q)' <=> Before(d, q)
        BY <3>1 DEF Before, Idle
      <4> QED
        BY <3>2, <4>1 DEF SentInv, OneSender
    <3>5. AnswerKnown' /\ SenderPosted'
      BY <3>1, <3>2 DEF SentInv, AnswerKnown, SenderPosted
    <3> QED
      BY <3>3, <3>4, <3>5 DEF SentInv
  <2>9. ASSUME NEW c \in Callers, AuthorizeSend(c) PROVE SentInv'
    <3>1. /\ \A d \in Callers \ {c} : run'[d] = run[d]
          /\ run'[c].op = run[c].op /\ run[c].step = "claimed"
          /\ run'[c].step = "cleared"
      BY <2>9, BusyType DEF AuthorizeSend, Step, Call, MoneyTypeOK
    <3>2. UNCHANGED <<op, posts, wire, payment>>
      BY <2>9 DEF AuthorizeSend, OnlyCash, providerVars
    <3>3. \A d \in Callers, q \in Ops : Before(d, q)' <=> Before(d, q)
      BY <3>1 DEF Before
    <3>4. SentOnce' /\ UnsentUnknown' /\ OneSender'
      BY <3>2, <3>3 DEF SentInv, SentOnce, UnsentUnknown, OneSender
    <3>5. AnswerKnown' /\ SenderPosted'
      BY <3>1, <3>2 DEF SentInv, AnswerKnown, SenderPosted
    <3> QED
      BY <3>4, <3>5 DEF SentInv
  <2>10. ASSUME NEW c \in Callers, Post(c) PROVE SentInv'
    <3>0. PICK o \in Ops : o = run[c].op
      BY <2>10, BusyType DEF Post
    <3>1. /\ \A d \in Callers \ {c} : run'[d] = run[d]
          /\ run'[c].op = o /\ run'[c].step = "posted" /\ Before(c, o)
      BY <2>10, <3>0, BusyType DEF Post, Step, Call, MoneyTypeOK, Before
    <3>2. posts[o] = 0 /\ op[o].state = "dispatching"
      BY <3>1 DEF SentInv, OneSender
    <3>3. /\ posts'[o] = 1 /\ \A q \in Ops \ {o} : posts'[q] = posts[q]
          /\ wire' = wire \cup {o} /\ UNCHANGED <<op, payment>>
      BY <2>10, <3>0, <3>2 DEF Post, MoneyTypeOK
    <3>4. SentOnce' /\ UnsentUnknown'
      BY <3>2, <3>3 DEF SentInv, SentOnce, UnsentUnknown, Sent
    <3>5. OneSender'
      <4>1. \A d \in Callers : ~Before(d, o)'
        <5>1. \A d \in Callers : Before(d, o) => d = c
          BY <3>1 DEF SentInv, OneSender
        <5>2. ~Before(c, o)' /\ \A d \in Callers \ {c} : Before(d, o)' <=> Before(d, o)
          BY <3>1 DEF Before
        <5> QED
          BY <5>1, <5>2
      <4>2. \A d \in Callers, q \in Ops \ {o} : Before(d, q)' <=> Before(d, q)
        BY <3>1 DEF Before
      <4> QED
        BY <3>3, <4>1, <4>2 DEF SentInv, OneSender
    <3>6. AnswerKnown' /\ SenderPosted'
      <4>1. \A d \in Callers : run[d].send => run[d].op \in Ops
        BY BusyType
      <4> QED
        BY <3>0, <3>1, <3>3, <4>1 DEF SentInv, AnswerKnown, SenderPosted
    <3> QED
      BY <3>4, <3>5, <3>6 DEF SentInv
  <2>11. ASSUME NEW c \in Callers, Answer(c) PROVE SentInv'
    <3> DEFINE o == run[c].op
    <3>1. /\ \A d \in Callers \ {c} : run'[d] = run[d]
          /\ run'[c].op = o /\ run'[c].step = "answered"
          /\ run'[c].answer = payment[o] /\ run'[c].send = run[c].send
      BY <2>11, BusyType DEF Answer, Call, MoneyTypeOK
    <3>2. /\ UNCHANGED <<op, posts, wire, payment>>
          /\ payment[o].state # "none" /\ run[c].step \in {"posted", "asking"}
      BY <2>11 DEF Answer, OnlyCash, providerVars
    <3>3. SentOnce' /\ UnsentUnknown'
      BY <3>2 DEF SentInv, SentOnce, UnsentUnknown
    <3>4. OneSender'
      <4>1. \A d \in Callers, q \in Ops : Before(d, q)' <=> Before(d, q)
        BY <3>1, <3>2 DEF Before
      <4> QED
        BY <3>2, <4>1 DEF SentInv, OneSender
    <3>5. AnswerKnown' /\ SenderPosted'
      BY <3>1, <3>2 DEF SentInv, AnswerKnown, SenderPosted
    <3> QED
      BY <3>3, <3>4, <3>5 DEF SentInv
  <2>12. ASSUME NEW c \in Callers, Uncertain(c) PROVE SentInv'
    <3> DEFINE o == run[c].op
    <3>1. o \in Ops /\ run[c] \in RunRecord
      BY <2>12, BusyType DEF Uncertain, MoneyTypeOK
    <3>2. \A d \in Callers : Before(d, o) => d = c
      <4>1. Before(c, o) \/ posts[o] = 1
        BY <2>12, <3>1, BusyType DEF Uncertain, Before, SentInv, SenderPosted
      <4> QED
        BY <3>1, <4>1 DEF SentInv, OneSender
    <3>3. /\ op'[o].state = op[o].state \/ op'[o].state = "unknown"
          /\ \A q \in Ops \ {o} : op'[q] = op[q]
      BY <2>12, <3>1 DEF Uncertain, MoneyTypeOK, OpRecord
    <3> QED
      BY <2>12, <3>1, <3>2, <3>3, EndStep
      DEF Uncertain, Call, OnlyCash, providerVars, Sent
  <2>13. ASSUME NEW c \in Callers, Settle(c) PROVE SentInv'
    <3> DEFINE o == run[c].op
    <3>1. o \in Ops
      BY <2>13, BusyType DEF Settle
    <3>2. \A d \in Callers : ~Before(d, o)
      <4>1. payment[o].state # "none"
        BY <2>13 DEF Settle, SentInv, AnswerKnown
      <4> QED
        BY <3>1, <4>1 DEF SentInv, UnsentUnknown, OneSender
    <3>3. \A q \in Ops \ {o} : op'[q] = op[q]
      <4>1. \/ \E s \in OpStates : Become(o, s)
            \/ op' = [op EXCEPT ![o].state = "completed",
                               ![o].actual = run[c].answer.cost, ![o].day = today]
        BY <2>13 DEF Settle, OpStates
      <4> QED
        BY <3>1, <4>1, BecomeMoves DEF MoneyTypeOK
    <3>4. CASE Become(o, "pending")
      <4>1. op'[o].state \in Sent
        BY <3>1, <3>4, BecomeMoves DEF Sent
      <4> QED
        BY <2>13, <3>1, <3>2, <3>3, <4>1, EndStep
        DEF Settle, Call, OnlyCash, providerVars
    <3>5. CASE op' = [op EXCEPT ![o].state = "completed",
                                ![o].actual = run[c].answer.cost, ![o].day = today]
      <4>1. op'[o].state = "completed"
        BY <3>1, <3>5 DEF MoneyTypeOK, OpRecord
      <4> QED
        BY <2>13, <3>1, <3>2, <3>3, <4>1, EndStep
        DEF Settle, Call, OnlyCash, providerVars
    <3>6. CASE run[c].answer.state = "returned" /\ Become(o, "failed")
      <4>1. op'[o].state = "failed" /\ payment[o].state = "returned"
        BY <2>13, <3>1, <3>6, BecomeMoves DEF Settle, SentInv, AnswerKnown
      <4> QED
        BY <2>13, <3>1, <3>2, <3>3, <4>1, EndStep
        DEF Settle, Call, OnlyCash, providerVars
    <3> QED
      BY <2>13, <3>4, <3>5, <3>6 DEF Settle
  <2>14. ASSUME NEW c \in Callers, AskFails(c) \/ Crash(c) PROVE SentInv'
    <3> DEFINE o == run[c].op
    <3>1. o \in Ops
      BY <2>14 DEF AskFails, Crash, MoneyTypeOK, RunRecord, Idle
    <3>2. op' = op
      BY <2>14 DEF AskFails, Crash
    <3> QED
      BY <2>14, <3>1, <3>2, EndStep DEF AskFails, Crash, Call, OnlyCash, providerVars
  <2>15. ASSUME NEW o \in Ops, Arrive(o) \/ Lose(o) \/ Pay(o) \/ Return(o) PROVE SentInv'
    <3>1. posts[o] # 0
      BY <2>15 DEF Arrive, Lose, Pay, Return, SentInv, UnsentUnknown
    <3>2. /\ \A q \in Ops \ {o} : payment'[q] = payment[q]
          /\ payment[o].state # "none" => payment'[o].state # "none"
          /\ payment[o].state = "returned" => payment'[o].state = "returned"
      BY <2>15 DEF Arrive, Lose, Pay, Return, MoneyTypeOK, Payment
    <3> QED
      BY <2>15, <3>1, <3>2, ProviderStep DEF Arrive, Lose, Pay, Return, Internal
  <2>16. CASE \/ \E p \in {"running", "supervised", "killed"} : SetPolicy(p)
              \/ \E a \in Agents : SetMoneyGrant(a) \/ AllocateCash(a) \/ AutoAllocate(a)
              \/ \E a \in Accounts : FreezeCash(a)
              \/ \E e \in Earnings : BookEarning(e) \/ BookReversal(e) \/ Customer(e)
    BY <2>1, <2>16 DEF SetPolicy, SetMoneyGrant, AllocateCash, AutoAllocate, Allocate,
       FreezeCash, BookEarning, BookReversal, Customer, Internal, providerVars
  <2>17. CASE NextDay \/ UNCHANGED vars
    BY <2>1, <2>17 DEF NextDay, vars, Internal, providerVars
  <2> QED
    BY <2>2, <2>3, <2>4, <2>5, <2>6, <2>7, <2>8, <2>9, <2>10, <2>11, <2>12, <2>13,
       <2>14, <2>15, <2>16, <2>17 DEF Next, Owner, Books, Caller, Provider
<1>3. SentInv => SentOnce
  BY DEF SentInv
<1> QED
  BY <1>1, <1>2, <1>3, MoneyTypeCorrect, PTL DEF Spec

-----------------------------------------------------------------------------
(* What a step does to the holds and costs of the operations.              *)

\* o counts as before: neither its hold, nor what it cost, nor when, changes.
Kept(o) ==
  /\ op'[o].state \in Live <=> op[o].state \in Live
  /\ op'[o].state = "completed" <=> op[o].state = "completed"
  /\ op'[o].actual = op[o].actual /\ op'[o].day = op[o].day

\* What may happen to the books while no operation moves.
CashKept == UNCHANGED <<available, debt, booked>>
CashBooked ==
  \/ \E a \in Agents : \E n \in Nat : Allocate(a, n)
  \/ \E o \in Ops : BookRefund(o)
  \/ \E e \in Earnings : BookEarning(e) \/ BookReversal(e)

\* No operation changes in a way that the books notice.
NoneMoves ==
  held' = held /\ (CashKept \/ CashBooked) /\ \A o \in Ops : Kept(o)

OthersKept(o) ==
  /\ \A q \in Ops \ {o} : Kept(q)
  /\ UNCHANGED <<today, debt, booked, payment>>

\* The hold of o begins: its cost is within the limits.
HoldBegins(o) ==
  /\ Hold(o) /\ Capacity(o) /\ OthersKept(o)
  /\ op[o].state \notin Live \cup {"completed"} /\ op'[o].state \in Live

\* The hold of o ends: n of it was spent, by a payment that completed, or none.
HoldEnds(o, n) ==
  /\ Release(o, n) /\ n \in 0..MaxCost[o] /\ OthersKept(o)
  /\ op[o].state \in Live /\ op'[o].state \notin Live
  /\ \/ /\ op'[o].state = "completed"
        /\ op'[o].actual = n /\ op'[o].day = today
        /\ \E c \in Callers : /\ run[c].step = "answered" /\ run[c].op = o
                              /\ run[c].answer.state = "paid"
                              /\ run[c].answer.cost = n
     \/ op'[o].state # "completed" /\ n = 0

\* A request that the owner must approve, a claim, and the like.
LEMMA BecomeKeeps ==
  ASSUME MoneyTypeOK, NEW o \in Ops, NEW s, Become(o, s),
         s \in Live <=> op[o].state \in Live,
         s # "completed", op[o].state # "completed"
  PROVE  \A q \in Ops : Kept(q)
BY DEF MoneyTypeOK, Become, OpRecord, Kept

\* Every step but the beginning and the end of a hold lets all operations count
\* as before.
LEMMA HoldsMove ==
  ASSUME MoneyTypeOK, [Next]_vars
  PROVE  \/ NoneMoves
         \/ \E o \in Ops : HoldBegins(o)
         \/ \E o \in Ops : \E n \in 0..MaxCost[o] : HoldEnds(o, n)
<1>1. ASSUME held' = held, op' = op, CashKept \/ CashBooked PROVE NoneMoves
  BY <1>1 DEF NoneMoves, Kept
<1>2. CASE EditDestination
  <2>1. \A q \in Ops : Kept(q)
    BY <1>2 DEF EditDestination, MoneyTypeOK, OpRecord, Kept
  <2>  QED  BY <1>2, <2>1 DEF EditDestination, cashVars, NoneMoves, CashKept
<1>3. ASSUME NEW o \in Ops, RequestMoney(o)
      PROVE  NoneMoves \/ HoldBegins(o)
  <2>1. CASE Become(o, "approval_required") /\ UNCHANGED <<available, held, heldFor>>
    BY <1>3, <2>1, BecomeKeeps DEF RequestMoney, NoneMoves, Live, Sent, CashKept, OnlyCash
  <2>2. CASE Become(o, "reserved") /\ Hold(o)
    <3>1. op'[o].state = "reserved" /\ \A q \in Ops \ {o} : op'[q] = op[q]
      BY <2>2, BecomeMoves
    <3>2. OthersKept(o)
      BY <1>3, <3>1 DEF RequestMoney, OnlyCash, OthersKept, Kept, providerVars
    <3>  QED  BY <1>3, <2>2, <3>1, <3>2 DEF RequestMoney, HoldBegins, Live, Sent
  <2>  QED  BY <1>3, <2>1, <2>2 DEF RequestMoney
<1>4. ASSUME NEW o \in Ops, Approve(o) PROVE HoldBegins(o)
  <2>1. op'[o].state = "reserved" /\ \A q \in Ops \ {o} : op'[q] = op[q]
    BY <1>4 DEF Approve, MoneyTypeOK, OpRecord
  <2>2. OthersKept(o)
    BY <1>4, <2>1 DEF Approve, OnlyCash, OthersKept, Kept, providerVars
  <2>  QED  BY <1>4, <2>1, <2>2 DEF Approve, HoldBegins, Live, Sent
<1>5. ASSUME NEW o \in Ops, Withdraw(o)
      PROVE  NoneMoves \/ \E n \in 0..MaxCost[o] : HoldEnds(o, n)
  <2>1. op'[o].state = "rejected" /\ \A q \in Ops \ {o} : op'[q] = op[q]
    BY <1>5, BecomeMoves DEF Withdraw
  <2>2. CASE op[o].state = "approval_required" /\ UNCHANGED <<available, held, heldFor>>
    BY <1>5, <2>2, BecomeKeeps DEF Withdraw, NoneMoves, Live, Sent, CashKept, OnlyCash
  <2>3. CASE op[o].state = "reserved" /\ Release(o, 0)
    <3>1. OthersKept(o)
      BY <1>5, <2>1 DEF Withdraw, OnlyCash, OthersKept, Kept, providerVars
    <3>2. 0 \in 0..MaxCost[o]
      OBVIOUS
    <3>3. HoldEnds(o, 0)
      BY <2>1, <2>3, <3>1, <3>2 DEF HoldEnds, Live, Sent
    <3>  QED  BY <3>2, <3>3
  <2>  QED  BY <1>5, <2>2, <2>3 DEF Withdraw
<1>6. ASSUME NEW o \in Ops, BookRefund(o) PROVE NoneMoves
  <2>1. \A q \in Ops : Kept(q)
    BY <1>6 DEF BookRefund, MoneyTypeOK, OpRecord, Kept
  <2>2. held' = held
    BY <1>6 DEF BookRefund
  <2>  QED  BY <1>6, <2>1, <2>2 DEF NoneMoves, CashBooked
<1>7. ASSUME NEW c \in Callers, NEW o \in Ops, Claim(c, o) PROVE NoneMoves
  BY <1>7, BecomeKeeps DEF Claim, NoneMoves, Live, Sent, CashKept, OnlyCash
<1>8. ASSUME NEW c \in Callers, Uncertain(c) PROVE NoneMoves
  <2>1. run[c].op \in Ops
    BY <1>8, BusyType DEF Uncertain
  <2>2. \A q \in Ops : Kept(q)
    BY <1>8, <2>1 DEF Uncertain, MoneyTypeOK, OpRecord, Kept, Live, Sent
  <2>  QED  BY <1>8, <2>2 DEF Uncertain, NoneMoves, CashKept, OnlyCash
<1>9. ASSUME NEW c \in Callers, Settle(c)
      PROVE  NoneMoves \/ \E o \in Ops : \E n \in 0..MaxCost[o] : HoldEnds(o, n)
  <2>  PICK o : o = run[c].op
    OBVIOUS
  <2>1. o \in Ops /\ op[o].state \in Live /\ run[c].answer \in Payment
        /\ op[o].state # "completed"
    BY <1>9, BusyType DEF Settle, Live, Sent
  <2>2. CASE Become(o, "pending") /\ UNCHANGED <<available, held, heldFor>>
    <3>1. CashKept
      BY <1>9, <2>2 DEF Settle, OnlyCash, CashKept
    <3>  QED  BY <2>1, <2>2, <3>1, BecomeKeeps DEF NoneMoves, Live, Sent
  <2>3. ASSUME \A q \in Ops \ {o} : op'[q] = op[q] PROVE OthersKept(o)
    BY <1>9, <2>3 DEF Settle, OnlyCash, OthersKept, Kept, providerVars
  <2>4. CASE /\ run[c].answer.state = "paid"
             /\ run[c].answer.cost \in Amount[o]..MaxCost[o]
             /\ op' = [op EXCEPT ![o].state = "completed",
                                 ![o].actual = run[c].answer.cost, ![o].day = today]
             /\ Release(o, run[c].answer.cost)
    <3>  PICK n : n = run[c].answer.cost
      OBVIOUS
    <3>1. n \in 0..MaxCost[o]
      BY <2>1, <2>4 DEF Payment
    <3>2. /\ op'[o].state = "completed" /\ op'[o].actual = n /\ op'[o].day = today
          /\ \A q \in Ops \ {o} : op'[q] = op[q]
      BY <2>1, <2>4 DEF MoneyTypeOK, OpRecord
    <3>3. OthersKept(o)
      BY <2>3, <3>2
    <3>4. run[c].step = "answered"
      BY <1>9 DEF Settle
    <3>5. HoldEnds(o, n)
      BY <2>1, <2>4, <3>1, <3>2, <3>3, <3>4 DEF HoldEnds, Live, Sent
    <3>  QED  BY <2>1, <3>1, <3>5
  <2>5. CASE Become(o, "failed") /\ Release(o, 0)
    <3>1. op'[o].state = "failed" /\ \A q \in Ops \ {o} : op'[q] = op[q]
      BY <2>1, <2>5, BecomeMoves
    <3>2. OthersKept(o)
      BY <2>3, <3>1
    <3>3. 0 \in 0..MaxCost[o]
      BY <2>1
    <3>4. HoldEnds(o, 0)
      BY <2>1, <2>5, <3>1, <3>2, <3>3 DEF HoldEnds, Live, Sent
    <3>  QED  BY <2>1, <3>3, <3>4
  <2>  QED  BY <1>9, <2>2, <2>4, <2>5 DEF Settle
<1>10. ASSUME NEW c \in Callers,
              \/ \E o \in Ops : Ask(c, o)
              \/ AuthorizeSend(c) \/ Post(c) \/ AskFails(c) \/ Answer(c) \/ Crash(c)
       PROVE  NoneMoves
  BY <1>1, <1>10 DEF Ask, AuthorizeSend, Post, AskFails, Answer, Crash, cashVars,
     CashKept, OnlyCash
<1>11. CASE \/ \E p \in {"running", "supervised", "killed"} : SetPolicy(p)
            \/ \E a \in Agents : SetMoneyGrant(a)
            \/ \E a \in Accounts : FreezeCash(a)
  BY <1>1, <1>11 DEF SetPolicy, SetMoneyGrant, FreezeCash, cashVars, CashKept
<1>13. ASSUME NEW a \in Agents, AllocateCash(a) \/ AutoAllocate(a) PROVE NoneMoves
  <2>1. PICK n \in Nat : Allocate(a, n)
    <3>1. available[Treasury] \in Nat
      BY DEF MoneyTypeOK
    <3>2. \E n \in 1..available[Treasury] : Allocate(a, n)
      BY <1>13, Zenon DEF AllocateCash, AutoAllocate
    <3>  QED  BY <3>1, <3>2
  <2>2. held' = held /\ op' = op
    BY <2>1 DEF Allocate
  <2>  QED  BY <1>1, <2>1, <2>2 DEF CashBooked
<1>14. ASSUME NEW e \in Earnings, BookEarning(e) \/ BookReversal(e) PROVE NoneMoves
  <2>1. held' = held /\ op' = op
    BY <1>14 DEF BookEarning, BookReversal
  <2>  QED  BY <1>1, <1>14, <2>1 DEF CashBooked
<1>12. CASE Provider \/ NextDay \/ UNCHANGED vars
  BY <1>1, <1>12 DEF Provider, Arrive, Lose, Pay, Return, Customer, NextDay, vars,
     Internal, cashVars, CashKept
<1>  QED
  BY <1>2, <1>3, <1>4, <1>5, <1>6, <1>7, <1>8, <1>9, <1>10, <1>11, <1>12, <1>13, <1>14
  DEF Next, Owner, Books, Caller

-----------------------------------------------------------------------------
(* The gate never closes by itself.                                        *)

HeldIsReserved == \A a \in Accounts : held[a] = Total(MaxCost, LiveIn(OpsOf(a)))

\* What operations may cost can be summed up.
LEMMA MaxCostSums ==
  ASSUME NEW S, S \subseteq Ops
  PROVE  NatOn(MaxCost, S) /\ IntOn(MaxCost, S)
BY FS_Subset DEF NatOn, IntOn

\* What is reserved by one of the operations S, and by all.
Reserve(o, S) == IF o \in S /\ op[o].state \in Live THEN MaxCost[o] ELSE 0

\* An operation that becomes alive, or ends, changes what its account reserved.
LEMMA ReservedStep ==
  ASSUME NEW S, S \subseteq Ops, NEW o \in Ops,
         \A q \in Ops \ {o} : op'[q].state \in Live <=> op[q].state \in Live
  PROVE  Total(MaxCost, LiveIn(S)') =
           Total(MaxCost, LiveIn(S)) - Reserve(o, S) + Reserve(o, S)'
<1>  PICK P : P = LiveIn(S)
  OBVIOUS
<1>  PICK Q : Q = LiveIn(S)'
  OBVIOUS
<1>1. P \subseteq Ops /\ Q \subseteq Ops /\ P \ {o} = Q \ {o}
  BY DEF LiveIn
<1>2. IntOn(MaxCost, P) /\ IntOn(MaxCost, Q)
  BY <1>1, MaxCostSums
<1>3. Total(MaxCost, Q) = Total(MaxCost, P) - At(MaxCost, P, o) + At(MaxCost, Q, o)
  BY <1>1, <1>2, TotalStep
<1>4. At(MaxCost, P, o) = Reserve(o, S) /\ At(MaxCost, Q, o) = Reserve(o, S)'
  BY DEF At, Reserve, LiveIn
<1>  QED  BY <1>3, <1>4

\* Who is alive decides what is reserved.
LEMMA ReservedSame ==
  ASSUME NEW S, S \subseteq Ops, \A q \in Ops : op'[q].state \in Live <=> op[q].state \in Live
  PROVE  LiveIn(S)' = LiveIn(S)
BY DEF LiveIn

\* What is reserved can be summed up.
LEMMA ReservedInt ==
  ASSUME NEW S, S \subseteq Ops
  PROVE  Total(MaxCost, LiveIn(S)) \in Nat
<1>1. LiveIn(S) \subseteq Ops
  BY DEF LiveIn
<1>  QED  BY <1>1, MaxCostSums, TotalNat

\* Whatever is requested, decided, sent, settled twice or left uncertain, what
\* an account holds is what its live payments reserved, and what the entries
\* hold by reference is, too: the gate in front of every operation stays open.
THEOREM AccountsReconciled == Spec => []AlwaysReconciled
<1>1. Init => HeldIsReserved
  <2>  SUFFICES ASSUME Init, NEW a \in Accounts
                PROVE  held[a] = Total(MaxCost, LiveIn(OpsOf(a)))
    BY DEF HeldIsReserved
  <2>1. LiveIn(OpsOf(a)) = {}
    BY DEF Init, LiveIn, OpsOf, NewOp, Live, Sent
  <2>2. Total(MaxCost, {}) = 0
    BY TotalEmpty
  <2>  QED  BY <2>1, <2>2 DEF Init
<1>2. MoneyTypeOK /\ HeldIsReserved /\ [Next]_vars => HeldIsReserved'
  <2>  SUFFICES ASSUME MoneyTypeOK, HeldIsReserved, [Next]_vars, NEW a \in Accounts
                PROVE  held'[a] = Total(MaxCost, LiveIn(OpsOf(a))')
    BY DEF HeldIsReserved
  <2>  PICK S : S = OpsOf(a)
    OBVIOUS
  <2>4. S \subseteq Ops
    BY DEF OpsOf
  <2>0. held[a] = Total(MaxCost, LiveIn(S)) /\ held[a] \in Nat
    BY DEF HeldIsReserved, MoneyTypeOK
  <2>1. CASE NoneMoves
    <3>1. LiveIn(S)' = LiveIn(S)
      BY <2>1, <2>4, ReservedSame DEF NoneMoves, Kept
    <3>  QED  BY <2>0, <2>1, <3>1 DEF NoneMoves
  <2>2. ASSUME NEW o \in Ops, HoldBegins(o)
        PROVE  held'[a] = Total(MaxCost, LiveIn(S)')
    <3>1. \A q \in Ops \ {o} : op'[q].state \in Live <=> op[q].state \in Live
      BY <2>2 DEF HoldBegins, OthersKept, Kept
    <3>2. held'[a] = held[a] + (IF o \in S THEN MaxCost[o] ELSE 0)
      BY <2>2 DEF HoldBegins, Hold, OpsOf, MoneyTypeOK
    <3>3. Reserve(o, S) = 0 /\ Reserve(o, S)' = IF o \in S THEN MaxCost[o] ELSE 0
      BY <2>2 DEF HoldBegins, Reserve
    <3>4. Total(MaxCost, LiveIn(S)') =
            Total(MaxCost, LiveIn(S)) - Reserve(o, S) + Reserve(o, S)'
      BY <2>4, <3>1, ReservedStep
    <3>  QED  BY <2>0, <3>2, <3>3, <3>4, MaxCost[o] \in Nat
  <2>3. ASSUME NEW o \in Ops, NEW n \in 0..MaxCost[o], HoldEnds(o, n)
        PROVE  held'[a] = Total(MaxCost, LiveIn(S)')
    <3>1. \A q \in Ops \ {o} : op'[q].state \in Live <=> op[q].state \in Live
      BY <2>3 DEF HoldEnds, OthersKept, Kept
    <3>2. held'[a] = held[a] - (IF o \in S THEN MaxCost[o] ELSE 0)
      BY <2>3 DEF HoldEnds, Release, OpsOf, MoneyTypeOK
    <3>3. Reserve(o, S) = (IF o \in S THEN MaxCost[o] ELSE 0) /\ Reserve(o, S)' = 0
      BY <2>3 DEF HoldEnds, Reserve
    <3>4. Total(MaxCost, LiveIn(S)') =
            Total(MaxCost, LiveIn(S)) - Reserve(o, S) + Reserve(o, S)'
      BY <2>4, <3>1, ReservedStep
    <3>  QED  BY <2>0, <3>2, <3>3, <3>4, MaxCost[o] \in Nat
  <2>  QED  BY <2>1, <2>2, <2>3, HoldsMove
<1>3. HoldsAreExact /\ HeldIsReserved => AlwaysReconciled
  BY DEF HeldIsReserved, AlwaysReconciled, Reconciled
<1>  QED  BY <1>1, <1>2, <1>3, MoneyTypeCorrect, HoldsExact, PTL DEF Spec

-----------------------------------------------------------------------------
(* The limits.                                                             *)

Done(S, D) == {o \in S : op[o].state = "completed" /\ op[o].day \in D}

\* Each day's payments keep to its limit, also when it is over; payments were
\* completed on days that have come.
DatedInv == \A o \in Ops : op[o].state = "completed" => op[o].day \in 1..today
PastInv  == \A d \in 1..(today - 1) : Total(Actual, Done(Ops, {d})) <= DailyLimit
TodayInv == Cost(Ops, {today}) <= DailyLimit
AgentInv == \A a \in Agents : Cost(OpsOf(a), 1..MaxDays) <= SpendLimit[a]
LimitInv == DatedInv /\ PastInv /\ TodayInv /\ AgentInv

\* What completed payments cost can be summed up.
LEMMA ActualSums ==
  ASSUME MoneyTypeOK, NEW S, S \subseteq Ops
  PROVE  NatOn(Actual, S) /\ IntOn(Actual, S)
BY FS_Subset DEF NatOn, IntOn, Actual, MoneyTypeOK, OpRecord

\* The two sums that a limit is compared with are natural numbers.
LEMMA CostParts ==
  ASSUME MoneyTypeOK, NEW S, S \subseteq Ops, NEW D
  PROVE  /\ Total(MaxCost, LiveIn(S)) \in Nat /\ Total(Actual, Done(S, D)) \in Nat
         /\ Cost(S, D) = Total(MaxCost, LiveIn(S)) + Total(Actual, Done(S, D))
         /\ Cost(S, D) \in Nat
<1>1. Done(S, D) \subseteq Ops
  BY DEF Done
<1>2. Total(Actual, Done(S, D)) \in Nat
  BY <1>1, ActualSums, TotalNat
<1>3. Total(MaxCost, LiveIn(S)) \in Nat
  BY ReservedInt
<1>4. Cost(S, D) = Total(MaxCost, LiveIn(S)) + Total(Actual, Done(S, D))
  BY DEF Cost, Done
<1>  QED  BY <1>2, <1>3, <1>4

\* What o cost, if it is one of S and completed on a day of D.
Spent(o, S, D) == IF o \in Done(S, D) THEN op[o].actual ELSE 0

\* One completed payment changes what was spent by what it cost.
LEMMA SpentStep ==
  ASSUME MoneyTypeOK, MoneyTypeOK', NEW S, S \subseteq Ops, NEW D, NEW o \in Ops,
         \A q \in Ops \ {o} : Kept(q)
  PROVE  Total(Actual, Done(S, D))' =
           Total(Actual, Done(S, D)) - Spent(o, S, D) + Spent(o, S, D)'
<1>  PICK P : P = Done(S, D)
  OBVIOUS
<1>  PICK Q : Q = Done(S, D)'
  OBVIOUS
<1>  PICK f : f = Actual
  OBVIOUS
<1>  PICK g : g = Actual'
  OBVIOUS
<1>1. P \subseteq Ops /\ Q \subseteq Ops /\ P \ {o} = Q \ {o}
  BY DEF Done, Kept
<1>2. IntOn(f, P) /\ IntOn(g, Q)
  <2>1. IntOn(f, P)
    BY <1>1, ActualSums
  <2>2. \A q \in Ops : g[q] \in Int
    BY DEF Actual, MoneyTypeOK, OpRecord
  <2>3. IntOn(g, Q)
    BY <1>1, <2>2, FS_Subset DEF IntOn
  <2>  QED  BY <2>1, <2>3
<1>3. \A q \in P \ {o} : f[q] = g[q]
  BY <1>1 DEF Actual, Kept
<1>4. Total(g, Q) = Total(f, P) - At(f, P, o) + At(g, Q, o)
  BY <1>1, <1>2, <1>3, TotalStep
<1>5. At(f, P, o) = Spent(o, S, D) /\ At(g, Q, o) = Spent(o, S, D)'
  BY <1>1 DEF At, Spent, Actual
<1>  QED  BY <1>4, <1>5

\* One operation changes what a limit is compared with by its own part.
LEMMA CostStep ==
  ASSUME MoneyTypeOK, MoneyTypeOK', NEW S, S \subseteq Ops, NEW D, NEW o \in Ops,
         \A q \in Ops \ {o} : Kept(q)
  PROVE  Cost(S, D)' = Cost(S, D) - Reserve(o, S) - Spent(o, S, D)
                         + Reserve(o, S)' + Spent(o, S, D)'
<1>1. Total(MaxCost, LiveIn(S)') =
        Total(MaxCost, LiveIn(S)) - Reserve(o, S) + Reserve(o, S)'
  BY ReservedStep DEF Kept
<1>2. Total(Actual', Done(S, D)') =
        Total(Actual, Done(S, D)) - Spent(o, S, D) + Spent(o, S, D)'
  BY SpentStep
<1>3. Cost(S, D) = Total(MaxCost, LiveIn(S)) + Total(Actual, Done(S, D))
  BY CostParts
<1>4. Cost(S, D)' = Total(MaxCost, LiveIn(S)') + Total(Actual', Done(S, D)')
  BY DEF Cost, Done
<1>5. /\ Total(MaxCost, LiveIn(S)) \in Nat /\ Total(Actual, Done(S, D)) \in Nat
      /\ Reserve(o, S) \in Nat /\ Reserve(o, S)' \in Nat
      /\ Spent(o, S, D) \in Nat /\ Spent(o, S, D)' \in Nat
  BY CostParts DEF Reserve, Spent, MoneyTypeOK, OpRecord
<1>  QED  BY <1>1, <1>2, <1>3, <1>4, <1>5

\* Where every operation is kept, so is what they cost.
LEMMA CostSame ==
  ASSUME MoneyTypeOK, NEW S, S \subseteq Ops, NEW D, \A q \in Ops : Kept(q)
  PROVE  Cost(S, D)' = Cost(S, D) /\ Total(Actual, Done(S, D))' = Total(Actual, Done(S, D))
<1>1. LiveIn(S)' = LiveIn(S) /\ Done(S, D)' = Done(S, D)
  BY DEF LiveIn, Done, Kept
<1>2. Actual' = Actual
  BY DEF Actual, Kept
<1>3. Cost(S, D) = Total(MaxCost, LiveIn(S)) + Total(Actual, Done(S, D))
  BY DEF Cost, Done
<1>4. Cost(S, D)' = Total(MaxCost, LiveIn(S)') + Total(Actual', Done(S, D)')
  BY DEF Cost, Done
<1>  QED  BY <1>1, <1>2, <1>3, <1>4

\* A payment that is neither alive nor completed costs nothing yet.
LEMMA CostOthers ==
  ASSUME NEW S, S \subseteq Ops, NEW D, NEW o \in Ops,
         op[o].state \notin Live \cup {"completed"}
  PROVE  Cost(S \ {o}, D) = Cost(S, D)
<1>1. LiveIn(S \ {o}) = LiveIn(S)
  BY DEF LiveIn
<1>2. {q \in S \ {o} : op[q].state = "completed" /\ op[q].day \in D} =
        {q \in S : op[q].state = "completed" /\ op[q].day \in D}
  OBVIOUS
<1>  QED  BY <1>1, <1>2 DEF Cost

\* The days pass one by one.
LEMMA DaysPass ==
  ASSUME MoneyTypeOK, [Next]_vars
  PROVE  today' = today \/ today' = today + 1
BY DEF Next, Owner, Books, Caller, Provider, SetPolicy, SetMoneyGrant, AllocateCash,
   AutoAllocate, Allocate, FreezeCash, EditDestination, RequestMoney, Approve, Withdraw,
   BookRefund, BookEarning, BookReversal, Ask, Claim, AuthorizeSend, Post, Uncertain,
   AskFails, Answer, Settle, Crash, Arrive, Lose, Pay, Return, Customer, NextDay,
   OnlyCash, Internal, vars

\* A day on which nothing moves, and the first moment of the next.
LEMMA NoneMovesLimits ==
  ASSUME MoneyTypeOK, LimitInv, NoneMoves, today' = today \/ today' = today + 1
  PROVE  LimitInv'
<1>1. today \in Nat \ {0}
  BY DEF MoneyTypeOK
<1>2. \A q \in Ops : Kept(q)
  BY DEF NoneMoves
<1>3. DatedInv'
  BY <1>1, <1>2 DEF LimitInv, DatedInv, Kept
<1>4. AgentInv'
  <2>  SUFFICES ASSUME NEW a \in Agents
                PROVE  Cost(OpsOf(a), 1..MaxDays)' <= SpendLimit[a]
    BY DEF AgentInv, OpsOf
  <2>  PICK S : S = OpsOf(a)
    OBVIOUS
  <2>1. S \subseteq Ops
    BY DEF OpsOf
  <2>2. Cost(S, 1..MaxDays)' = Cost(S, 1..MaxDays)
    BY <1>2, <2>1, CostSame
  <2>3. OpsOf(a)' = S
    BY DEF OpsOf
  <2>  QED  BY <2>2, <2>3 DEF LimitInv, AgentInv
<1>5. \A d : Total(Actual', Done(Ops, {d})') = Total(Actual, Done(Ops, {d}))
  BY <1>2, CostSame
<1>6. Total(Actual, Done(Ops, {today})) <= DailyLimit
  <2>1. /\ Cost(Ops, {today}) =
             Total(MaxCost, LiveIn(Ops)) + Total(Actual, Done(Ops, {today}))
        /\ Total(MaxCost, LiveIn(Ops)) \in Nat /\ Total(Actual, Done(Ops, {today})) \in Nat
    BY CostParts
  <2>  QED  BY <2>1 DEF LimitInv, TodayInv
<1>7. PastInv'
  <2>  SUFFICES ASSUME NEW d \in 1..(today' - 1)
                PROVE  Total(Actual', Done(Ops, {d})') <= DailyLimit
    BY DEF PastInv
  <2>1. d \in 1..(today - 1) \/ d = today
    BY <1>1
  <2>  QED  BY <1>5, <1>6, <2>1 DEF LimitInv, PastInv
<1>8. TodayInv'
  <2>  PICK e : e = today'
    OBVIOUS
  <2>1. Cost(Ops, {e})' = Cost(Ops, {e})
    BY <1>2, CostSame
  <2>2. Cost(Ops, {e}) <= DailyLimit
    <3>1. CASE e = today
      BY <3>1 DEF LimitInv, TodayInv
    <3>2. CASE e = today + 1
      <4>1. Done(Ops, {e}) = {}
        BY <1>1, <3>2 DEF Done, LimitInv, DatedInv
      <4>2. Total(Actual, Done(Ops, {e})) = 0
        BY <4>1, TotalEmpty
      <4>3. /\ Cost(Ops, {e}) = Total(MaxCost, LiveIn(Ops)) + Total(Actual, Done(Ops, {e}))
            /\ Total(MaxCost, LiveIn(Ops)) \in Nat
        BY CostParts
      <4>4. /\ Cost(Ops, {today}) =
                 Total(MaxCost, LiveIn(Ops)) + Total(Actual, Done(Ops, {today}))
            /\ Total(Actual, Done(Ops, {today})) \in Nat
        BY CostParts
      <4>5. Cost(Ops, {today}) <= DailyLimit
        BY DEF LimitInv, TodayInv
      <4>  QED  BY <4>2, <4>3, <4>4, <4>5
    <3>  QED  BY <3>1, <3>2
  <2>  QED  BY <2>1, <2>2 DEF TodayInv
<1>  QED  BY <1>3, <1>4, <1>7, <1>8 DEF LimitInv

\* A hold begins within the limits that were checked in the same transaction.
LEMMA HoldBeginsLimits ==
  ASSUME MoneyTypeOK, MoneyTypeOK', LimitInv, NEW o \in Ops, HoldBegins(o)
  PROVE  LimitInv'
<1>1. /\ \A q \in Ops \ {o} : Kept(q)
      /\ today' = today /\ today \in Nat
      /\ op[o].state \notin Live \cup {"completed"}
      /\ op'[o].state \in Live /\ op'[o].state # "completed"
  BY DEF HoldBegins, OthersKept, MoneyTypeOK, Live, Sent
<1>2. DatedInv'
  BY <1>1 DEF LimitInv, DatedInv, Kept
<1>3. ASSUME NEW S, S \subseteq Ops, NEW D
      PROVE  /\ Cost(S, D)' = Cost(S \ {o}, D) + (IF o \in S THEN MaxCost[o] ELSE 0)
             /\ Total(Actual, Done(S, D))' = Total(Actual, Done(S, D))
  <2>1. Cost(S, D)' = Cost(S, D) - Reserve(o, S) - Spent(o, S, D)
                        + Reserve(o, S)' + Spent(o, S, D)'
    BY <1>1, <1>3, CostStep
  <2>2. /\ Reserve(o, S) = 0 /\ Spent(o, S, D) = 0 /\ Spent(o, S, D)' = 0
        /\ Reserve(o, S)' = IF o \in S THEN MaxCost[o] ELSE 0
    BY <1>1 DEF Reserve, Spent, Done
  <2>3. Total(Actual, Done(S, D))' =
          Total(Actual, Done(S, D)) - Spent(o, S, D) + Spent(o, S, D)'
    BY <1>1, <1>3, SpentStep
  <2>4. Cost(S \ {o}, D) = Cost(S, D)
    BY <1>1, <1>3, CostOthers
  <2>5. Cost(S, D) \in Nat /\ Total(Actual, Done(S, D)) \in Nat
    BY <1>3, CostParts
  <2>6. MaxCost[o] \in Nat
    OBVIOUS
  <2>7. Cost(S, D)' = Cost(S, D) + (IF o \in S THEN MaxCost[o] ELSE 0)
    BY <2>1, <2>2, <2>5, <2>6
  <2>8. Total(Actual, Done(S, D))' = Total(Actual, Done(S, D))
    BY <2>2, <2>3, <2>5
  <2>  QED  BY <2>4, <2>7, <2>8
<1>4. PastInv'
  <2>1. \A d : Total(Actual', Done(Ops, {d})') = Total(Actual, Done(Ops, {d}))
    BY <1>3
  <2>  QED  BY <1>1, <2>1 DEF LimitInv, PastInv
<1>5. TodayInv'
  <2>  PICK d : d = today
    OBVIOUS
  <2>1. Cost(Ops, {d})' = Cost(Ops \ {o}, {d}) + MaxCost[o]
    BY <1>3
  <2>2. Cost(Ops \ {o}, {d}) + MaxCost[o] <= DailyLimit
    BY DEF HoldBegins, Capacity
  <2>  QED  BY <1>1, <2>1, <2>2 DEF TodayInv
<1>6. AgentInv'
  <2>  SUFFICES ASSUME NEW a \in Agents
                PROVE  Cost(OpsOf(a), 1..MaxDays)' <= SpendLimit[a]
    BY DEF AgentInv, OpsOf
  <2>  PICK S : S = OpsOf(a)
    OBVIOUS
  <2>1. S \subseteq Ops /\ OpsOf(a)' = S /\ (o \in S <=> AccountOf[o] = a)
    BY DEF OpsOf
  <2>2. Cost(S, 1..MaxDays)' =
          Cost(S \ {o}, 1..MaxDays) + (IF o \in S THEN MaxCost[o] ELSE 0)
    BY <1>3, <2>1
  <2>3. CASE o \in S
    <3>1. (Ops \ {o}) \cap OpsOf(a) = S \ {o}
      BY <2>1
    <3>2. Cost((Ops \ {o}) \cap OpsOf(a), 1..MaxDays) + MaxCost[o] <= SpendLimit[a]
      BY <2>1, <2>3 DEF HoldBegins, Capacity
    <3>  QED  BY <2>1, <2>2, <2>3, <3>1, <3>2
  <2>4. CASE o \notin S
    <3>1. Cost(S \ {o}, 1..MaxDays) = Cost(S, 1..MaxDays) /\ Cost(S, 1..MaxDays) \in Nat
      BY <1>1, <2>1, CostOthers, CostParts
    <3>2. Cost(S, 1..MaxDays) <= SpendLimit[a]
      BY DEF LimitInv, AgentInv
    <3>  QED  BY <2>1, <2>2, <2>4, <3>1, <3>2
  <2>  QED  BY <2>3, <2>4
<1>  QED  BY <1>2, <1>4, <1>5, <1>6 DEF LimitInv

\* A hold ends: what was reserved is replaced by no more than that, today.
LEMMA HoldEndsLimits ==
  ASSUME MoneyTypeOK, MoneyTypeOK', LimitInv, NEW o \in Ops, NEW n \in 0..MaxCost[o],
         HoldEnds(o, n)
  PROVE  LimitInv'
<1>1. /\ \A q \in Ops \ {o} : Kept(q)
      /\ today' = today /\ today \in Nat \ {0}
      /\ op[o].state \in Live /\ op[o].state # "completed" /\ op'[o].state \notin Live
      /\ op'[o].state = "completed" => op'[o].day = today /\ op'[o].actual = n
  BY DEF HoldEnds, OthersKept, MoneyTypeOK, Live, Sent
<1>2. DatedInv'
  BY <1>1 DEF LimitInv, DatedInv, Kept
<1>3. ASSUME NEW S, S \subseteq Ops, NEW D
      PROVE  Cost(S, D)' <= Cost(S, D) /\ Cost(S, D) \in Nat /\ Cost(S, D)' \in Int
  <2>1. Cost(S, D)' = Cost(S, D) - Reserve(o, S) - Spent(o, S, D)
                        + Reserve(o, S)' + Spent(o, S, D)'
    BY <1>1, <1>3, CostStep
  <2>2. /\ Reserve(o, S) = IF o \in S THEN MaxCost[o] ELSE 0
        /\ Spent(o, S, D) = 0 /\ Reserve(o, S)' = 0
        /\ Spent(o, S, D)' \in {0, IF o \in S THEN n ELSE 0}
    BY <1>1 DEF Reserve, Spent, Done
  <2>3. Cost(S, D) \in Nat
    BY <1>3, CostParts
  <2>4. MaxCost[o] \in Nat /\ n \in Nat /\ n <= MaxCost[o]
    OBVIOUS
  <2>  QED  BY <2>1, <2>2, <2>3, <2>4
<1>4. PastInv'
  <2>  SUFFICES ASSUME NEW d \in 1..(today' - 1)
                PROVE  Total(Actual', Done(Ops, {d})') <= DailyLimit
    BY DEF PastInv
  <2>1. Total(Actual', Done(Ops, {d})') =
          Total(Actual, Done(Ops, {d})) - Spent(o, Ops, {d}) + Spent(o, Ops, {d})'
    BY <1>1, SpentStep
  <2>2. Spent(o, Ops, {d}) = 0 /\ Spent(o, Ops, {d})' = 0
    BY <1>1 DEF Spent, Done
  <2>3. Total(Actual, Done(Ops, {d})) \in Nat /\ Total(Actual, Done(Ops, {d})) <= DailyLimit
    BY <1>1, CostParts DEF LimitInv, PastInv
  <2>  QED  BY <2>1, <2>2, <2>3
<1>5. TodayInv'
  <2>  PICK d : d = today
    OBVIOUS
  <2>1. Cost(Ops, {d})' <= Cost(Ops, {d}) /\ Cost(Ops, {d}) \in Nat /\ Cost(Ops, {d})' \in Int
    BY <1>3
  <2>2. Cost(Ops, {d}) <= DailyLimit
    BY DEF LimitInv, TodayInv
  <2>3. Cost(Ops, {d})' <= DailyLimit
    BY <2>1, <2>2
  <2>  QED  BY <1>1, <2>3 DEF TodayInv
<1>6. AgentInv'
  <2>  SUFFICES ASSUME NEW a \in Agents
                PROVE  Cost(OpsOf(a), 1..MaxDays)' <= SpendLimit[a]
    BY DEF AgentInv, OpsOf
  <2>  PICK S : S = OpsOf(a)
    OBVIOUS
  <2>1. S \subseteq Ops /\ OpsOf(a)' = S
    BY DEF OpsOf
  <2>2. /\ Cost(S, 1..MaxDays)' <= Cost(S, 1..MaxDays)
        /\ Cost(S, 1..MaxDays) \in Nat /\ Cost(S, 1..MaxDays)' \in Int
    BY <1>3, <2>1
  <2>3. Cost(S, 1..MaxDays) <= SpendLimit[a]
    BY DEF LimitInv, AgentInv
  <2>4. Cost(S, 1..MaxDays)' <= SpendLimit[a]
    BY <2>2, <2>3
  <2>  QED  BY <2>1, <2>4
<1>  QED  BY <1>2, <1>4, <1>5, <1>6 DEF LimitInv

\* What an agent spent and may yet spend never exceeds its limit, nor what is
\* spent on a day, and may yet be, the limit of a day: however requests,
\* approvals, withdrawals, settlements and the change of the day interleave.
THEOREM LimitsKept == Spec => []WithinLimits
<1>1. Init => LimitInv
  <2>  SUFFICES ASSUME Init PROVE LimitInv
    OBVIOUS
  <2>1. \A o \in Ops : op[o].state = "new"
    BY DEF Init, NewOp
  <2>2. ASSUME NEW S, S \subseteq Ops, NEW D PROVE Cost(S, D) = 0
    <3>1. LiveIn(S) = {} /\ Done(S, D) = {}
      BY <2>1, <2>2 DEF LiveIn, Done, Live, Sent
    <3>2. Total(MaxCost, {}) = 0 /\ Total(Actual, {}) = 0
      BY TotalEmpty
    <3>3. Cost(S, D) = Total(MaxCost, LiveIn(S)) + Total(Actual, Done(S, D))
      BY DEF Cost, Done
    <3>  QED  BY <3>1, <3>2, <3>3
  <2>3. DatedInv /\ PastInv
    BY <2>1 DEF Init, DatedInv, PastInv
  <2>4. TodayInv
    BY <2>2 DEF TodayInv
  <2>5. AgentInv
    <3>1. \A a \in Agents : OpsOf(a) \subseteq Ops
      BY DEF OpsOf
    <3>  SUFFICES ASSUME NEW a \in Agents
                  PROVE  Cost(OpsOf(a), 1..MaxDays) <= SpendLimit[a]
      BY DEF AgentInv
    <3>2. Cost(OpsOf(a), 1..MaxDays) = 0
      BY <2>2, <3>1
    <3>3. SpendLimit[a] \in Nat
      BY MoneyAssumption
    <3>  QED  BY <3>2, <3>3
  <2>  QED  BY <2>3, <2>4, <2>5 DEF LimitInv
<1>2. MoneyTypeOK /\ MoneyTypeOK' /\ LimitInv /\ [Next]_vars => LimitInv'
  BY HoldsMove, DaysPass, NoneMovesLimits, HoldBeginsLimits, HoldEndsLimits
<1>3. MoneyTypeOK /\ LimitInv => WithinLimits
  <2>  SUFFICES ASSUME MoneyTypeOK, LimitInv, NEW d \in 1..today
                PROVE  Cost(IF d = today THEN Ops
                                         ELSE {o \in Ops : op[o].state = "completed"},
                            {d}) <= DailyLimit
    BY DEF WithinLimits, LimitInv, AgentInv
  <2>1. CASE d = today
    BY <2>1 DEF LimitInv, TodayInv
  <2>2. CASE d # today
    <3>  PICK S : S = {o \in Ops : op[o].state = "completed"}
      OBVIOUS
    <3>1. S \subseteq Ops /\ LiveIn(S) = {} /\ Done(S, {d}) = Done(Ops, {d})
      BY DEF LiveIn, Done, Live, Sent
    <3>2. Total(MaxCost, LiveIn(S)) = 0
      BY <3>1, TotalEmpty
    <3>3. /\ Cost(S, {d}) = Total(MaxCost, LiveIn(S)) + Total(Actual, Done(S, {d}))
          /\ Total(Actual, Done(S, {d})) \in Nat
      BY <3>1, CostParts
    <3>4. d \in 1..(today - 1)
      BY <2>2 DEF MoneyTypeOK
    <3>5. Total(Actual, Done(Ops, {d})) <= DailyLimit
      BY <3>4 DEF LimitInv, PastInv
    <3>6. Cost(S, {d}) <= DailyLimit
      BY <3>1, <3>2, <3>3, <3>5
    <3>  QED  BY <2>2, <3>6
  <2>  QED  BY <2>1, <2>2
<1>  QED  BY <1>1, <1>2, <1>3, MoneyTypeCorrect, PTL DEF Spec

-----------------------------------------------------------------------------
(* The books are the provider's.                                           *)

HIDE DEF Accounts

Decided(o) == payment[o].state \in {"paid", "returned"}

\* What a caller was told the provider decided is what it decided, and costs
\* what the caller was told.
AnswersStand ==
  \A c \in Callers :
    run[c].step = "answered" /\ run[c].answer.state = "paid" =>
      Decided(run[c].op) /\ payment[run[c].op].cost = run[c].answer.cost

\* Only payments that the provider decided are complete.
CompletedDecided == \A o \in Ops : op[o].state = "completed" => Decided(o)

\* Only completed payments are returned to the books.
RefundsCompleted == \A o \in Ops : Refunded(o) \in booked => op[o].state = "completed"

Price    == [o \in Ops |-> payment[o].cost]
CameIn   == {e \in Earnings : Earned(e) \in booked}
WentBack == {e \in Earnings : Reversed(e) \in booked}

\* The first part of BooksAgreeWithProvider.
Balanced ==
  Total(available, Accounts) + Total(held, Accounts) + Total(Worth, WentBack)
    + Total(Price, PaidFor)
  = debt + Total(Worth, CameIn)

BookInv == AnswersStand /\ CompletedDecided /\ RefundsCompleted /\ Balanced

\* What the provider has decided about a payment stays decided, at its cost.
LEMMA DecidedStays ==
  ASSUME MoneyTypeOK, [Next]_vars, NEW o \in Ops, Decided(o)
  PROVE  Decided(o)' /\ payment'[o].cost = payment[o].cost
<1>1. CASE payment' = payment
  BY <1>1 DEF Decided
<1>2. ASSUME NEW q \in Ops, Arrive(q) \/ Lose(q) \/ Pay(q) \/ Return(q)
      PROVE  Decided(o)' /\ payment'[o].cost = payment[o].cost
  BY <1>2 DEF Arrive, Lose, Pay, Return, MoneyTypeOK, Payment, Decided
<1>3. payment' = payment \/ \E q \in Ops : Arrive(q) \/ Lose(q) \/ Pay(q) \/ Return(q)
  BY DEF Next, Owner, Books, Caller, Provider, vars, providerVars, OnlyCash, Internal,
     SetPolicy, SetMoneyGrant, AllocateCash, AutoAllocate, Allocate, FreezeCash,
     EditDestination, RequestMoney, Approve, Withdraw, BookRefund, BookEarning,
     BookReversal, Ask, Claim, AuthorizeSend, Post, Uncertain, AskFails, Answer,
     Settle, Crash, Customer, NextDay
<1>  QED  BY <1>1, <1>2, <1>3

\* Answers are what the provider knew when it gave them.
LEMMA AnswersCome ==
  ASSUME MoneyTypeOK, [Next]_vars, NEW c \in Callers, run'[c].step = "answered"
  PROVE  \/ run'[c] = run[c]
         \/ run'[c].op \in Ops /\ run'[c].answer = payment[run'[c].op]
<1>1. CASE run' = run
  BY <1>1
<1>2. ASSUME NEW d \in Callers, NEW r, r.step # "answered", Call(d, r)
      PROVE  run'[c] = run[c]
  BY <1>2 DEF Call, MoneyTypeOK
<1>3. ASSUME NEW d \in Callers, Answer(d)
      PROVE  \/ run'[c] = run[c]
             \/ run'[c].op \in Ops /\ run'[c].answer = payment[run'[c].op]
  BY <1>3, BusyType DEF Answer, Call, MoneyTypeOK
<1>4. ASSUME NEW d \in Callers, AuthorizeSend(d) \/ Post(d) PROVE run'[c] = run[c]
  BY <1>4, BusyType DEF AuthorizeSend, Post, Step, Call, MoneyTypeOK, RunRecord, Idle
<1>5. ASSUME NEW d \in Callers, Uncertain(d) \/ AskFails(d) \/ Settle(d) \/ Crash(d)
      PROVE  run'[c] = run[c]
  <2>1. Call(d, Idle)
    BY <1>5 DEF Uncertain, AskFails, Settle, Crash
  <2>2. Idle.step # "answered"
    BY DEF Idle
  <2>  QED  BY <1>2, <2>1, <2>2
<1>6. ASSUME NEW d \in Callers, NEW o \in Ops, Claim(d, o) \/ Ask(d, o)
      PROVE  run'[c] = run[c]
  <2>1. run'[d].step # "answered"
    <3>1. CASE Claim(d, o)
      <4>1. run'[d].step = "claimed"
        BY <3>1 DEF Claim, Call, MoneyTypeOK, Idle
      <4>  QED  BY <4>1
    <3>2. CASE Ask(d, o)
      <4>1. run'[d].step = "asking"
        BY <3>2 DEF Ask, Call, MoneyTypeOK, Idle
      <4>  QED  BY <4>1
    <3>  QED  BY <1>6, <3>1, <3>2
  <2>2. \A b \in Callers \ {d} : run'[b] = run[b]
    BY <1>6 DEF Claim, Ask, Call, MoneyTypeOK
  <2>  QED  BY <2>1, <2>2
<1>7. run' = run \/ \E d \in Callers : Caller(d)
  BY DEF Next, Owner, Books, Provider, vars, Internal,
     SetPolicy, SetMoneyGrant, AllocateCash, AutoAllocate, Allocate, FreezeCash,
     EditDestination, RequestMoney, Approve, Withdraw, BookRefund, BookEarning,
     BookReversal, Arrive, Lose, Pay, Return, Customer, NextDay
<1>  QED  BY <1>1, <1>3, <1>4, <1>5, <1>6, <1>7 DEF Caller

\* Cash can be summed up.
LEMMA CashSums == \A f \in [Accounts -> Nat] : IntOn(f, Accounts)
<1>1. IsFiniteSet(Accounts)
  BY FS_AddElement DEF Accounts
<1>  QED  BY <1>1 DEF IntOn

\* From f to g, the cash of a changes only.
OnlyAt(f, g, a) ==
  /\ IntOn(f, Accounts) /\ IntOn(g, Accounts) /\ a \in Accounts
  /\ \A b \in Accounts \ {a} : g[b] = f[b]

\* A step of one account changes the sum of all by as much.
LEMMA CashAt ==
  \A f, g, a :
    OnlyAt(f, g, a)
    => /\ Total(g, Accounts) = Total(f, Accounts) - f[a] + g[a]
       /\ Total(f, Accounts) \in Int /\ Total(g, Accounts) \in Int
<1>  SUFFICES ASSUME NEW f, NEW g, IntOn(f, Accounts), IntOn(g, Accounts),
                     NEW a \in Accounts, \A b \in Accounts \ {a} : g[b] = f[b]
              PROVE  /\ Total(g, Accounts) = Total(f, Accounts) - f[a] + g[a]
                     /\ Total(f, Accounts) \in Int /\ Total(g, Accounts) \in Int
  BY DEF OnlyAt
<1>3. Total(f, Accounts) \in Int /\ Total(g, Accounts) \in Int
  BY TotalInt
<1>4. Total(g, Accounts)
        = Total(f, Accounts) - At(f, Accounts, a) + At(g, Accounts, a)
  BY TotalStep
<1>5. At(f, Accounts, a) = f[a] /\ At(g, Accounts, a) = g[a]
  BY DEF At
<1>  QED  BY <1>3, <1>4, <1>5

\* An earning that comes in or goes back adds its worth.
LEMMA WorthAt ==
  ASSUME NEW S, S \subseteq Earnings, NEW e \in Earnings \ S
  PROVE  /\ Total(Worth, S \cup {e}) = Total(Worth, S) + Worth[e]
         /\ Total(Worth, S) \in Int
<1>1. IsFiniteSet(S) /\ IsFiniteSet(S \cup {e})
  BY FS_Subset, FS_AddElement
<1>2. IntOn(Worth, S) /\ IntOn(Worth, S \cup {e})
  BY <1>1 DEF IntOn
<1>3. Total(Worth, S) \in Int
  BY <1>2, TotalInt
<1>4. Total(Worth, S \cup {e}) = Worth[e] + Total(Worth, (S \cup {e}) \ {e})
  BY <1>2, TotalSplit
<1>5. (S \cup {e}) \ {e} = S
  OBVIOUS
<1>6. Total(Worth, S \cup {e}) = Worth[e] + Total(Worth, S)
  BY <1>4, <1>5, Zenon
<1>7. Worth[e] \in Int
  BY MoneyAssumption
<1>  QED  BY <1>3, <1>6, <1>7

\* The cost of the payments that the account bears, when what the account
\* bears changes in the payment o at most.
LEMMA PriceAt ==
  ASSUME MoneyTypeOK, MoneyTypeOK', NEW o \in Ops, PaidFor \ {o} = PaidFor' \ {o},
         \A q \in PaidFor \ {o} : payment'[q].cost = payment[q].cost
  PROVE  /\ Total(Price, PaidFor)' = Total(Price, PaidFor) - At(Price, PaidFor, o)
                                       + At(Price, PaidFor, o)'
         /\ Total(Price, PaidFor) \in Int /\ Total(Price, PaidFor)' \in Int
<1>1. PaidFor \subseteq Ops /\ PaidFor' \subseteq Ops
  BY DEF PaidFor
<1>2. IsFiniteSet(PaidFor) /\ IsFiniteSet(PaidFor')
  BY <1>1, FS_Subset
<1>3. \A q \in Ops : /\ Price[q] = payment[q].cost /\ Price'[q] = payment'[q].cost
                     /\ Price[q] \in Int /\ Price'[q] \in Int
  BY DEF MoneyTypeOK, Payment, Price
<1>4. IntOn(Price, PaidFor) /\ IntOn(Price', PaidFor')
  BY <1>1, <1>2, <1>3 DEF IntOn
<1>5. \A q \in PaidFor \ {o} : Price[q] = Price'[q]
  BY <1>1, <1>3
<1>6. Total(Price', PaidFor')
        = Total(Price, PaidFor) - At(Price, PaidFor, o) + At(Price', PaidFor', o)
  BY <1>4, <1>5, TotalStep
<1>7. Total(Price, PaidFor) \in Int /\ Total(Price', PaidFor') \in Int
  BY <1>4, TotalInt
<1>  QED  BY <1>6, <1>7

\* And when it changes in none.
LEMMA PriceSame ==
  ASSUME MoneyTypeOK, [Next]_vars, CompletedDecided, PaidFor' = PaidFor
  PROVE  Total(Price, PaidFor)' = Total(Price, PaidFor)
<1>1. PaidFor \subseteq Ops /\ \A q \in PaidFor : Decided(q)
  BY DEF PaidFor, CompletedDecided
<1>2. IsFiniteSet(PaidFor)
  BY <1>1, FS_Subset
<1>3. \A q \in Ops : Price[q] = payment[q].cost /\ Price'[q] = payment'[q].cost
                     /\ Price[q] \in Int
  BY DEF MoneyTypeOK, Payment, Price
<1>4. \A q \in PaidFor : Price[q] = Price'[q]
  BY <1>1, <1>3, DecidedStays
<1>5. IntOn(Price, PaidFor)
  BY <1>1, <1>2, <1>3 DEF IntOn
<1>6. Total(Price, PaidFor) = Total(Price', PaidFor)
  BY <1>4, <1>5, TotalSame
<1>  QED  BY <1>6

\* Nothing that the balance reads changes, except perhaps a payment that is not
\* paid for.
LEMMA CashKeptBalance ==
  ASSUME MoneyTypeOK, MoneyTypeOK', [Next]_vars, CompletedDecided, Balanced, NoneMoves,
         CashKept
  PROVE  Balanced'
<1>1. PaidFor' = PaidFor
  BY DEF PaidFor, NoneMoves, Kept, CashKept
<1>2. CameIn' = CameIn /\ WentBack' = WentBack
  BY DEF CameIn, WentBack, CashKept
<1>3. Total(Price, PaidFor)' = Total(Price, PaidFor)
  BY <1>1, PriceSame
<1>  QED  BY <1>2, <1>3 DEF Balanced, NoneMoves, CashKept

\* A hold moves cash within the account.
LEMMA HoldBeginsBalance ==
  ASSUME MoneyTypeOK, MoneyTypeOK', [Next]_vars, BookInv, NEW o \in Ops, HoldBegins(o)
  PROVE  Balanced'
<1>  PICK a \in Accounts : a = AccountOf[o]
  OBVIOUS
<1>  PICK m \in Nat : m = MaxCost[o]
  OBVIOUS
<1>1. /\ \A b \in Accounts \ {a} : available'[b] = available[b] /\ held'[b] = held[b]
      /\ available'[a] = available[a] - m /\ held'[a] = held[a] + m
  BY DEF HoldBegins, Hold, MoneyTypeOK
<1>2. /\ available \in [Accounts -> Nat] /\ available' \in [Accounts -> Nat]
      /\ held \in [Accounts -> Nat] /\ held' \in [Accounts -> Nat]
  BY DEF MoneyTypeOK
<1>21. a \in Accounts
  BY MoneyAssumption
<1>20. /\ IntOn(available, Accounts) /\ IntOn(available', Accounts)
       /\ IntOn(held, Accounts) /\ IntOn(held', Accounts)
  BY <1>2, CashSums
<1>3. /\ Total(available', Accounts)
           = Total(available, Accounts) - available[a] + available'[a]
      /\ Total(available, Accounts) \in Int
  <2>1. OnlyAt(available, available', a)
    BY <1>1, <1>20, <1>21 DEF OnlyAt
  <2>  QED  BY <2>1, CashAt, Zenon
<1>4. /\ Total(held', Accounts) = Total(held, Accounts) - held[a] + held'[a]
      /\ Total(held, Accounts) \in Int
  <2>1. OnlyAt(held, held', a)
    BY <1>1, <1>20, <1>21 DEF OnlyAt
  <2>  QED  BY <2>1, CashAt, Zenon
<1>5. Total(available', Accounts) + Total(held', Accounts)
        = Total(available, Accounts) + Total(held, Accounts)
  BY <1>1, <1>2, <1>3, <1>4
<1>6. PaidFor' = PaidFor
  BY DEF HoldBegins, OthersKept, Kept, PaidFor, Live, Sent
<1>7. CameIn' = CameIn /\ WentBack' = WentBack /\ debt' = debt
  BY DEF HoldBegins, OthersKept, CameIn, WentBack
<1>8. Total(Price, PaidFor)' = Total(Price, PaidFor)
  BY <1>6, PriceSame DEF BookInv
<1>  QED  BY <1>5, <1>7, <1>8 DEF BookInv, Balanced

\* When it ends, what was spent leaves the account: the cost of a payment that
\* the account bears from then on.
LEMMA HoldEndsBalance ==
  ASSUME MoneyTypeOK, MoneyTypeOK', [Next]_vars, BookInv, NEW o \in Ops,
         NEW n \in 0..MaxCost[o], HoldEnds(o, n)
  PROVE  Balanced'
<1>  PICK a \in Accounts : a = AccountOf[o]
  OBVIOUS
<1>  PICK m \in Nat : m = MaxCost[o]
  OBVIOUS
<1>1. /\ \A b \in Accounts \ {a} : available'[b] = available[b] /\ held'[b] = held[b]
      /\ available'[a] = available[a] + (m - n) /\ held'[a] = held[a] - m
  BY DEF HoldEnds, Release, MoneyTypeOK
<1>2. /\ available \in [Accounts -> Nat] /\ available' \in [Accounts -> Nat]
      /\ held \in [Accounts -> Nat] /\ held' \in [Accounts -> Nat]
  BY DEF MoneyTypeOK
<1>21. a \in Accounts
  BY MoneyAssumption
<1>20. /\ IntOn(available, Accounts) /\ IntOn(available', Accounts)
       /\ IntOn(held, Accounts) /\ IntOn(held', Accounts)
  BY <1>2, CashSums
<1>3. /\ Total(available', Accounts)
           = Total(available, Accounts) - available[a] + available'[a]
      /\ Total(available, Accounts) \in Int
  <2>1. OnlyAt(available, available', a)
    BY <1>1, <1>20, <1>21 DEF OnlyAt
  <2>  QED  BY <2>1, CashAt, Zenon
<1>4. /\ Total(held', Accounts) = Total(held, Accounts) - held[a] + held'[a]
      /\ Total(held, Accounts) \in Int
  <2>1. OnlyAt(held, held', a)
    BY <1>1, <1>20, <1>21 DEF OnlyAt
  <2>  QED  BY <2>1, CashAt, Zenon
<1>5. Total(available', Accounts) + Total(held', Accounts)
        = Total(available, Accounts) + Total(held, Accounts) - n
  BY <1>1, <1>2, <1>3, <1>4
<1>6. CameIn' = CameIn /\ WentBack' = WentBack /\ debt' = debt /\ payment' = payment
  BY DEF HoldEnds, OthersKept, CameIn, WentBack
<1>7. PaidFor \ {o} = PaidFor' \ {o} /\ o \notin PaidFor
  BY DEF HoldEnds, OthersKept, Kept, PaidFor, Live, Sent
<1>8. At(Price, PaidFor, o)' = n
  <2>1. CASE /\ op'[o].state = "completed"
             /\ \E c \in Callers : /\ run[c].step = "answered" /\ run[c].op = o
                                   /\ run[c].answer.state = "paid"
                                   /\ run[c].answer.cost = n
    <3>1. payment[o].cost = n
      BY <2>1 DEF BookInv, AnswersStand
    <3>2. Refunded(o) \notin booked'
      BY DEF HoldEnds, OthersKept, BookInv, RefundsCompleted, Live, Sent
    <3>3. o \in PaidFor' /\ Price'[o] = n
      BY <1>6, <2>1, <3>1, <3>2 DEF PaidFor, Price
    <3>  QED  BY <3>3 DEF At
  <2>2. CASE op'[o].state # "completed" /\ n = 0
    BY <2>2 DEF At, PaidFor
  <2>  QED  BY <2>1, <2>2 DEF HoldEnds
<1>9. At(Price, PaidFor, o) = 0
  BY <1>7 DEF At
<1>10. /\ Total(Price, PaidFor)' = Total(Price, PaidFor) - At(Price, PaidFor, o)
                                    + At(Price, PaidFor, o)'
       /\ Total(Price, PaidFor) \in Int
  BY <1>6, <1>7, PriceAt
<1>11. Total(Price, PaidFor)' = Total(Price, PaidFor) + n
  BY <1>8, <1>9, <1>10
<1>12. Total(Worth, WentBack) \in Int /\ debt \in Int /\ Total(Worth, CameIn) \in Int
  <2>1. IntOn(Worth, WentBack) /\ IntOn(Worth, CameIn)
    BY FS_Subset DEF IntOn, WentBack, CameIn
  <2>  QED  BY <2>1, TotalInt DEF MoneyTypeOK
<1>13. PICK x, y \in Int : x = Total(Price, PaidFor)' /\ y = Total(Price, PaidFor)
  BY <1>10, <1>11
<1>14. (Total(available, Accounts) + Total(held, Accounts))
          + Total(Worth, WentBack) + y = debt + Total(Worth, CameIn)
  BY <1>13 DEF BookInv, Balanced
<1>15. (Total(available', Accounts) + Total(held', Accounts))
          + Total(Worth, WentBack) + x = debt + Total(Worth, CameIn)
  BY <1>3, <1>4, <1>5, <1>11, <1>12, <1>13, <1>14
<1>  QED  BY <1>6, <1>13, <1>15 DEF Balanced

\* All that the balance sums up is an integer.
LEMMA BalanceInt ==
  ASSUME MoneyTypeOK
  PROVE  /\ Total(available, Accounts) \in Int /\ Total(held, Accounts) \in Int
         /\ Total(Worth, WentBack) \in Int /\ Total(Worth, CameIn) \in Int
         /\ Total(Price, PaidFor) \in Int /\ debt \in Int
<1>1. IntOn(available, Accounts) /\ IntOn(held, Accounts)
  BY CashSums DEF MoneyTypeOK
<1>2. IntOn(Worth, WentBack) /\ IntOn(Worth, CameIn)
  BY FS_Subset DEF IntOn, WentBack, CameIn
<1>3. PaidFor \subseteq Ops /\ \A q \in Ops : Price[q] \in Int
  BY DEF PaidFor, Price, MoneyTypeOK, Payment
<1>4. IntOn(Price, PaidFor)
  BY <1>3, FS_Subset DEF IntOn
<1>  QED  BY <1>1, <1>2, <1>4, TotalInt DEF MoneyTypeOK

\* The owner's cash becomes an agent's.
LEMMA AllocateBalance ==
  ASSUME MoneyTypeOK, MoneyTypeOK', [Next]_vars, BookInv, NEW a \in Agents,
         NEW n \in Nat, Allocate(a, n)
  PROVE  Balanced'
<1>1. /\ a \in Accounts /\ Treasury \in Accounts /\ a # Treasury
      /\ available \in [Accounts -> Nat] /\ available' \in [Accounts -> Nat]
  BY DEF Accounts, MoneyTypeOK
<1>2. PICK mid : mid = [available EXCEPT ![Treasury] = @ - n]
  OBVIOUS
<1>3. mid \in [Accounts -> Nat]
  BY <1>1, <1>2 DEF Allocate
<1>4. /\ \A b \in Accounts \ {Treasury} : mid[b] = available[b]
      /\ mid[Treasury] = available[Treasury] - n
  BY <1>1, <1>2
<1>5. /\ \A b \in Accounts \ {a} : available'[b] = mid[b]
      /\ available'[a] = mid[a] + n
  BY <1>1, <1>2 DEF Allocate
<1>6. IntOn(available, Accounts) /\ IntOn(mid, Accounts) /\ IntOn(available', Accounts)
  BY <1>1, <1>3, CashSums
<1>7. OnlyAt(available, mid, Treasury) /\ OnlyAt(mid, available', a)
  BY <1>1, <1>4, <1>5, <1>6 DEF OnlyAt
<1>8. /\ Total(mid, Accounts)
           = Total(available, Accounts) - available[Treasury] + mid[Treasury]
      /\ Total(available, Accounts) \in Int /\ Total(mid, Accounts) \in Int
  BY <1>7, CashAt, Zenon
<1>9. /\ Total(available', Accounts) = Total(mid, Accounts) - mid[a] + available'[a]
      /\ Total(available', Accounts) \in Int
  BY <1>7, CashAt, Zenon
<1>10. available[Treasury] \in Nat /\ mid[a] \in Nat
  BY <1>1, <1>3
<1>11. Total(available', Accounts) = Total(available, Accounts)
  BY <1>4, <1>5, <1>8, <1>9, <1>10
<1>12. PaidFor' = PaidFor /\ CameIn' = CameIn /\ WentBack' = WentBack
       /\ held' = held /\ debt' = debt
  BY DEF Allocate, PaidFor, CameIn, WentBack
<1>13. Total(Price, PaidFor)' = Total(Price, PaidFor)
  BY <1>12, PriceSame DEF BookInv
<1>  QED  BY <1>11, <1>12, <1>13 DEF BookInv, Balanced

\* What an account receives is cash, or pays debts.
LEMMA ReceiveAt ==
  ASSUME MoneyTypeOK, MoneyTypeOK', NEW a \in Accounts, NEW n \in Nat, Receive(a, n)
  PROVE  Total(available', Accounts) - debt' = Total(available, Accounts) - debt + n
<1>1. available \in [Accounts -> Nat] /\ available' \in [Accounts -> Nat]
      /\ debt \in Nat /\ debt' \in Nat
  BY DEF MoneyTypeOK
<1>2. IntOn(available, Accounts) /\ IntOn(available', Accounts)
  BY <1>1, CashSums
<1>  PICK taken \in Int : taken = Lesser(available[a] + n, debt)
  BY <1>1 DEF Lesser
<1>3. /\ \A b \in Accounts \ {a} : available'[b] = available[b]
      /\ available'[a] = available[a] + n - taken /\ debt' = debt - taken
  BY <1>1 DEF Receive
<1>4. OnlyAt(available, available', a)
  BY <1>2, <1>3 DEF OnlyAt
<1>5. /\ Total(available', Accounts)
           = Total(available, Accounts) - available[a] + available'[a]
      /\ Total(available, Accounts) \in Int
  BY <1>4, CashAt, Zenon
<1>6. available[a] \in Nat
  BY <1>1
<1>  QED  BY <1>1, <1>3, <1>5, <1>6

\* An earning comes in.
LEMMA EarningBalance ==
  ASSUME MoneyTypeOK, MoneyTypeOK', [Next]_vars, BookInv, NEW e \in Earnings,
         BookEarning(e)
  PROVE  Balanced'
<1>1. Treasury \in Accounts /\ Worth[e] \in Nat
  BY DEF Accounts
<1>2. Total(available', Accounts) - debt' = Total(available, Accounts) - debt + Worth[e]
  BY <1>1, ReceiveAt DEF BookEarning
<1>3. CameIn' = CameIn \cup {e} /\ e \notin CameIn /\ CameIn \subseteq Earnings
  BY DEF BookEarning, CameIn, Earned
<1>4. Total(Worth, CameIn') = Total(Worth, CameIn) + Worth[e]
  BY <1>3, WorthAt
<1>5. WentBack' = WentBack /\ PaidFor' = PaidFor /\ held' = held
  BY DEF BookEarning, WentBack, PaidFor, Earned, Reversed, Refunded
<1>6. Total(Price, PaidFor)' = Total(Price, PaidFor)
  BY <1>5, PriceSame DEF BookInv
<1>7. /\ Total(available, Accounts) \in Int /\ Total(held, Accounts) \in Int
      /\ Total(Worth, WentBack) \in Int /\ Total(Worth, CameIn) \in Int
      /\ Total(Price, PaidFor) \in Int /\ debt \in Int
  BY BalanceInt
<1>8. Total(available', Accounts) \in Int /\ debt' \in Int
  <2>1. IntOn(available', Accounts)
    BY CashSums DEF MoneyTypeOK
  <2>  QED  BY <2>1, TotalInt DEF MoneyTypeOK
<1>9. Total(available', Accounts) + Total(held, Accounts) + Total(Worth, WentBack)
        + Total(Price, PaidFor) = debt' + Total(Worth, CameIn')
  BY <1>1, <1>2, <1>4, <1>7, <1>8 DEF BookInv, Balanced
<1>  QED  BY <1>5, <1>6, <1>9 DEF Balanced

\* A payment is returned to the account that bore its cost.
LEMMA RefundBalance ==
  ASSUME MoneyTypeOK, MoneyTypeOK', [Next]_vars, BookInv, NEW o \in Ops, BookRefund(o)
  PROVE  Balanced'
<1>  PICK n : n = payment[o].cost
  OBVIOUS
<1>1. AccountOf[o] \in Accounts /\ n \in Nat
  BY DEF MoneyTypeOK, Payment
<1>2. Total(available', Accounts) - debt' = Total(available, Accounts) - debt + n
  BY <1>1, ReceiveAt DEF BookRefund
<1>3. \A q \in Ops : op'[q].state = op[q].state
  BY DEF BookRefund, MoneyTypeOK, OpRecord
<1>4. \A q \in Ops : Refunded(q) \in booked' <=> Refunded(q) \in booked \/ q = o
  BY DEF BookRefund, Refunded
<1>5. o \in PaidFor /\ o \notin PaidFor' /\ PaidFor \ {o} = PaidFor' \ {o}
  BY <1>3, <1>4 DEF PaidFor, BookRefund
<1>6. payment' = payment /\ held' = held /\ CameIn' = CameIn /\ WentBack' = WentBack
  BY DEF BookRefund, providerVars, CameIn, WentBack, Earned, Reversed, Refunded
<1>7. At(Price, PaidFor, o) = n /\ At(Price, PaidFor, o)' = 0
  BY <1>5 DEF At, Price
<1>8. /\ Total(Price, PaidFor)' = Total(Price, PaidFor) - At(Price, PaidFor, o)
                                    + At(Price, PaidFor, o)'
      /\ Total(Price, PaidFor) \in Int /\ Total(Price, PaidFor)' \in Int
  BY <1>5, <1>6, PriceAt
<1>9. Total(Price, PaidFor)' = Total(Price, PaidFor) - n
  BY <1>1, <1>7, <1>8
<1>10. /\ Total(available, Accounts) \in Int /\ Total(held, Accounts) \in Int
       /\ Total(Worth, WentBack) \in Int /\ Total(Worth, CameIn) \in Int
       /\ debt \in Int
  BY BalanceInt
<1>11. Total(available', Accounts) \in Int /\ debt' \in Int
  <2>1. IntOn(available', Accounts)
    BY CashSums DEF MoneyTypeOK
  <2>  QED  BY <2>1, TotalInt DEF MoneyTypeOK
<1>12. PICK x, y \in Int : x = Total(Price, PaidFor)' /\ y = Total(Price, PaidFor)
  BY <1>8
<1>13. Total(available, Accounts) + Total(held, Accounts) + Total(Worth, WentBack) + y
         = debt + Total(Worth, CameIn)
  BY <1>12 DEF BookInv, Balanced
<1>14. Total(available', Accounts) + Total(held, Accounts) + Total(Worth, WentBack) + x
         = debt' + Total(Worth, CameIn)
  BY <1>1, <1>2, <1>9, <1>10, <1>11, <1>12, <1>13
<1>  QED  BY <1>6, <1>12, <1>14 DEF Balanced

\* An earning goes back, from what the accounts have and from debts.
LEMMA ReversalBalance ==
  ASSUME MoneyTypeOK, MoneyTypeOK', [Next]_vars, BookInv, NEW e \in Earnings,
         BookReversal(e)
  PROVE  Balanced'
<1>0. PICK take \in [Accounts -> 0..Worth[e]], rest \in 0..Worth[e] :
        /\ \A a \in Accounts : take[a] <= available[a]
        /\ Total(take, Accounts) + rest = Worth[e]
        /\ rest > 0 => take = available
        /\ available' = [a \in Accounts |-> available[a] - take[a]]
        /\ debt' = debt + rest
  BY DEF BookReversal
<1>1. Worth[e] \in Nat /\ rest \in Nat /\ take \in [Accounts -> Nat]
  BY <1>0
<1>2. /\ IntOn(available, Accounts) /\ IntOn(available', Accounts)
      /\ IntOn(take, Accounts)
  BY <1>1, CashSums DEF MoneyTypeOK
<1>3. \A a \in Accounts : available'[a] = available[a] - take[a]
  BY <1>0
<1>4. Total(available', Accounts) = Total(available, Accounts) - Total(take, Accounts)
  BY <1>2, <1>3, TotalMinus
<1>5. Total(take, Accounts) \in Int /\ Total(available', Accounts) \in Int
  BY <1>2, TotalInt
<1>6. WentBack' = WentBack \cup {e} /\ e \notin WentBack /\ WentBack \subseteq Earnings
  BY DEF BookReversal, WentBack, Reversed
<1>7. Total(Worth, WentBack') = Total(Worth, WentBack) + Worth[e]
  BY <1>6, WorthAt
<1>8. CameIn' = CameIn /\ PaidFor' = PaidFor /\ held' = held
  BY DEF BookReversal, CameIn, PaidFor, Earned, Reversed, Refunded
<1>9. Total(Price, PaidFor)' = Total(Price, PaidFor)
  BY <1>8, PriceSame DEF BookInv
<1>10. /\ Total(available, Accounts) \in Int /\ Total(held, Accounts) \in Int
       /\ Total(Worth, WentBack) \in Int /\ Total(Worth, CameIn) \in Int
       /\ Total(Price, PaidFor) \in Int /\ debt \in Int
  BY BalanceInt
<1>11. Total(take, Accounts) + rest = Worth[e] /\ debt' = debt + rest
  BY <1>0
<1>12. Total(available', Accounts) + Total(held, Accounts) + Total(Worth, WentBack')
         + Total(Price, PaidFor) = debt' + Total(Worth, CameIn)
  BY <1>1, <1>4, <1>5, <1>7, <1>10, <1>11 DEF BookInv, Balanced
<1>  QED  BY <1>8, <1>9, <1>12 DEF Balanced

\* Cash less debt is what came in, less what went back, less the cost of the
\* payments that completed and were not returned, which is the provider's cost:
\* in every order in which payments are answered, settled, returned and booked
\* after crashes and lost messages, and whatever debts a reversal leaves.
THEOREM BooksAreTheProviders == Spec => []BooksAgreeWithProvider
<1>1. Init => BookInv
  <2>  SUFFICES ASSUME Init PROVE BookInv
    OBVIOUS
  <2>1. AnswersStand /\ CompletedDecided /\ RefundsCompleted
    BY DEF Init, AnswersStand, CompletedDecided, RefundsCompleted, Idle, NewOp
  <2>2. CameIn = {} /\ WentBack = {} /\ PaidFor = {}
    BY DEF Init, CameIn, WentBack, PaidFor, NewOp
  <2>3. Total(Worth, {}) = 0 /\ Total(Price, {}) = 0
    BY TotalEmpty
  <2>4. available = [a \in Accounts |-> 0] /\ held = available /\ debt = 0
    BY DEF Init
  <2>5. available \in [Accounts -> Nat]
    BY <2>4
  <2>6. IntOn(available, Accounts)
    BY <2>5, CashSums
  <2>7. \A a \in Accounts : available[a] = available[a] - available[a]
    BY <2>4
  <2>8. Total(available, Accounts)
          = Total(available, Accounts) - Total(available, Accounts)
    BY <2>6, <2>7, TotalMinus
  <2>9. Total(available, Accounts) \in Int
    BY <2>6, TotalInt
  <2>10. Total(available, Accounts) = 0
    BY <2>8, <2>9
  <2>11. Balanced
    BY <2>2, <2>3, <2>4, <2>10 DEF Balanced
  <2>  QED  BY <2>1, <2>11 DEF BookInv
<1>2. MoneyTypeOK /\ MoneyTypeOK' /\ BookInv /\ [Next]_vars => BookInv'
  <2>  SUFFICES ASSUME MoneyTypeOK, MoneyTypeOK', BookInv, [Next]_vars PROVE BookInv'
    OBVIOUS
  <2>1. AnswersStand'
    <3>  SUFFICES ASSUME NEW c \in Callers, run'[c].step = "answered",
                         run'[c].answer.state = "paid"
                  PROVE  /\ payment'[run'[c].op].state \in {"paid", "returned"}
                         /\ payment'[run'[c].op].cost = run'[c].answer.cost
      BY DEF AnswersStand, Decided
    <3>  PICK o : o = run'[c].op
      OBVIOUS
    <3>1. o \in Ops /\ Decided(o) /\ payment[o].cost = run'[c].answer.cost
      <4>1. CASE run'[c] = run[c]
        <5>1. run[c].step = "answered" /\ run[c].answer.state = "paid" /\ run[c].op = o
          BY <4>1
        <5>2. o \in Ops
          BY <5>1, BusyType
        <5>  QED  BY <4>1, <5>1, <5>2 DEF BookInv, AnswersStand
      <4>2. CASE run'[c].op \in Ops /\ run'[c].answer = payment[run'[c].op]
        BY <4>2 DEF Decided
      <4>  QED  BY <4>1, <4>2, AnswersCome
    <3>2. Decided(o)' /\ payment'[o].cost = payment[o].cost
      BY <3>1, DecidedStays
    <3>  QED  BY <3>1, <3>2 DEF Decided
  <2>2. ASSUME NEW o \in Ops, op'[o].state = "completed" PROVE Decided(o)'
    <3>1. Decided(o)
      <4>1. CASE op[o].state = "completed"
        BY <4>1 DEF BookInv, CompletedDecided
      <4>2. CASE op[o].state # "completed"
        <5>1. PICK q \in Ops : \E n \in 0..MaxCost[q] : HoldEnds(q, n)
          BY <2>2, <4>2, HoldsMove DEF NoneMoves, Kept, HoldBegins, OthersKept, Live, Sent
        <5>2. q = o
          BY <2>2, <4>2, <5>1 DEF HoldEnds, OthersKept, Kept
        <5>  QED  BY <2>2, <5>1, <5>2 DEF HoldEnds, BookInv, AnswersStand
      <4>  QED  BY <4>1, <4>2
    <3>  QED  BY <3>1, DecidedStays
  <2>3. ASSUME NoneMoves PROVE Balanced' /\ RefundsCompleted'
    <3>1. Balanced'
      <4>1. CASE CashKept
        BY <2>3, <4>1, CashKeptBalance DEF BookInv
      <4>2. CASE CashBooked
        BY <4>2, AllocateBalance, EarningBalance, RefundBalance, ReversalBalance
        DEF CashBooked
      <4>  QED  BY <2>3, <4>1, <4>2 DEF NoneMoves
    <3>2. RefundsCompleted'
      <4>  SUFFICES ASSUME NEW o \in Ops, Refunded(o) \in booked'
                    PROVE  op'[o].state = "completed"
        BY DEF RefundsCompleted
      <4>1. op[o].state = "completed"
        <5>1. CASE booked' = booked
          BY <5>1 DEF BookInv, RefundsCompleted
        <5>2. ASSUME NEW q \in Ops, BookRefund(q) PROVE op[o].state = "completed"
          BY <5>2 DEF BookRefund, Refunded, BookInv, RefundsCompleted
        <5>3. ASSUME NEW e \in Earnings, BookEarning(e) \/ BookReversal(e)
              PROVE  op[o].state = "completed"
          <6>1. Refunded(o) \in booked
            BY <5>3 DEF BookEarning, BookReversal, Earned, Reversed, Refunded
          <6>  QED  BY <6>1 DEF BookInv, RefundsCompleted
        <5>4. \/ booked' = booked
              \/ \E q \in Ops : BookRefund(q)
              \/ \E e \in Earnings : BookEarning(e) \/ BookReversal(e)
          BY <2>3 DEF NoneMoves, CashKept, CashBooked, Allocate
        <5>  QED  BY <5>1, <5>2, <5>3, <5>4
      <4>  QED  BY <2>3, <4>1 DEF NoneMoves, Kept
    <3>  QED  BY <3>1, <3>2
  <2>4. ASSUME NEW o \in Ops, HoldBegins(o) PROVE Balanced' /\ RefundsCompleted'
    BY <2>4, HoldBeginsBalance
    DEF HoldBegins, OthersKept, Kept, BookInv, RefundsCompleted
  <2>5. ASSUME NEW o \in Ops, NEW n \in 0..MaxCost[o], HoldEnds(o, n)
        PROVE  Balanced' /\ RefundsCompleted'
    BY <2>5, HoldEndsBalance
    DEF HoldEnds, OthersKept, Kept, BookInv, RefundsCompleted, Live, Sent
  <2>6. Balanced' /\ RefundsCompleted'
    BY <2>3, <2>4, <2>5, HoldsMove
  <2>  QED  BY <2>1, <2>2, <2>6 DEF BookInv, CompletedDecided
<1>3. BookInv => BooksAgreeWithProvider
  BY DEF BookInv, Balanced, CompletedDecided, Decided, BooksAgreeWithProvider, Price,
     CameIn, WentBack
<1>  QED  BY <1>1, <1>2, <1>3, MoneyTypeCorrect, PTL DEF Spec

HIDE MoneyAssumption DEF Accounts

-----------------------------------------------------------------------------
(* Resource calls.                                                         *)

USE ResourceAssumption

\* Two workers never have the same job.
OneWorker ==
  \A w, v \in Workers :
    worker[w].job = worker[v].job /\ worker[w].job # None => w = v

\* What a worker's place in the code says of its job and its call.
WorkerSound(w) ==
  LET j == worker[w].job
      s == worker[w].step
  IN
  IF s \in {"idle", "polled"} THEN j = None
  ELSE /\ j \in Jobs /\ job[j] # "queued"
       /\ s = "claiming" => call[j].status \in {"reserved", "cancelled"}
       /\ s \in {"invoking", "waiting", "doubting", "settling"} =>
            call[j].status \in KeptStatus
       /\ s = "invoking" => invoked[j] = 0 /\ request[j].state = "unsent"
       /\ s = "replying" => call[j].status = "succeeded"
       /\ s = "failing" => call[j].status \in {"cancelled", "uncertain"} \cup Settled

\* What a call's status says of its job, its sending and its hold.
CallSound(j) ==
  /\ job[j] = "queued" => call[j].status = "none"
  /\ call[j].status \in {"none", "reserved", "cancelled"} =>
       invoked[j] = 0 /\ request[j].state = "unsent"
  /\ invoked[j] <= 1
  /\ job[j] = "blocked" => call[j].status \in {"none", "cancelled"}
  /\ job[j] = "succeeded" <=> replied[j] = "worker"
  /\ job[j] = "succeeded" => call[j].status = "succeeded"
  /\ call[j].status \in {"reserved", "dispatched"} => job[j] = "running"
  /\ call[j].status \in Unresolved => hold[j] = "held"
  /\ hold[j] = "released" <=> call[j].status = "cancelled"
  /\ hold[j] = "recorded" => call[j].status \in Settled
  /\ call[j].status = "none" => hold[j] = "none"
  /\ (call[j].status \in Unresolved \/ hold[j] = "held") =>
       call[j].period = resource.period

Sound ==
  /\ OneWorker
  /\ \A w \in Workers : WorkerSound(w)
  /\ \A j \in Jobs : CallSound(j)
  /\ BookedOnce

-----------------------------------------------------------------------------
(* Types.                                                                  *)

\* A call changes within its type.
LEMMA CallTypes ==
  ASSUME NEW r \in CallRecord
  PROVE  /\ [r EXCEPT !.status = "dispatched"] \in CallRecord
         /\ [r EXCEPT !.status = "uncertain"] \in CallRecord
         /\ [r EXCEPT !.status = "cancelled"] \in CallRecord
BY DEF CallRecord, Unresolved

LEMMA CancelledType ==
  ASSUME ResourceTypeOK, NEW C
  PROVE  /\ Cancelled(C) \in [Jobs -> CallRecord]
         /\ Released(C) \in [Jobs -> {"none", "held", "released", "recorded"}]
BY CallTypes DEF ResourceTypeOK, Cancelled, Released

LEMMA GoType ==
  ASSUME ResourceTypeOK, NEW w \in Workers, NEW s \in Steps, Go(w, s)
  PROVE  worker' \in [Workers -> WorkerRecord]
BY DEF ResourceTypeOK, Go, WorkerRecord

LEMMA RestType ==
  ASSUME ResourceTypeOK, NEW w \in Workers, Rest(w)
  PROVE  worker' \in [Workers -> WorkerRecord]
BY DEF ResourceTypeOK, Rest, Resting, WorkerRecord, Steps

\* A worker past the queue has a job.
Placed ==
  \A w \in Workers : worker[w].step \notin {"idle", "polled"} => worker[w].job \in Jobs

LEMMA PlacedStep ==
  ASSUME ResourceTypeOK, Placed, [CallsNext]_callVars
  PROVE  Placed'
<1> USE DEF ResourceTypeOK, WorkerRecord, Placed
<1>1. ASSUME NEW w \in Workers, NEW s \in Steps, Go(w, s),
             s = "polled" \/ worker[w].step \notin {"idle", "polled"}
      PROVE  Placed'
  BY <1>1 DEF Go
<1>2. ASSUME NEW w \in Workers, Rest(w) PROVE Placed'
  BY <1>2 DEF Rest, Resting
<1>3. CASE UNCHANGED worker
  BY <1>3
<1>4. ASSUME NEW w \in Workers, WorkerStep(w) PROVE Placed'
  <2>1. CASE Recover(w)
    BY <2>1, <1>1 DEF Recover, Steps
  <2>2. ASSUME NEW j \in Jobs, ReserveCall(w, j) PROVE Placed'
    BY <2>2 DEF ReserveCall
  <2>3. CASE Take(w)
    BY <2>3, <2>2, <1>2 DEF Take, Refuse
  <2>4. CASE ClaimCall(w)
    BY <2>4, <1>1 DEF ClaimCall, Steps
  <2>5. CASE Invoke(w) \/ AnswerArrives(w) \/ GiveUp(w) \/ Doubt(w)
    BY <2>5, <1>1 DEF Invoke, AnswerArrives, GiveUp, Doubt, Steps
  <2>6. CASE SettleCall(w)
    BY <2>6, <1>1 DEF SettleCall, Steps
  <2>7. CASE Reply(w) \/ Fail(w)
    BY <2>7, <1>1, <1>2 DEF Reply, Fail, Steps
  <2> QED
    BY <1>4, <2>1, <2>3, <2>4, <2>5, <2>6, <2>7 DEF WorkerStep
<1>5. ASSUME NEW w \in Workers, WorkerDies(w) PROVE Placed'
  BY <1>5, <1>2 DEF WorkerDies
<1>6. CASE UNCHANGED callVars
  BY <1>6, <1>3 DEF callVars
<1>7. ASSUME NEW j \in Jobs, Cancel(j) \/ Expire(j) \/ Overdue(j) \/ Account(j)
      PROVE  Placed'
  BY <1>7, <1>3 DEF Cancel, Expire, Overdue, Account
<1>8. ASSUME NEW j \in Jobs, NEW d \in Jobs, Reconcile(j, d) PROVE Placed'
  BY <1>8, <1>3 DEF Reconcile
<1>9. ASSUME NEW c \in Costs, Renew(c) \/ (\E j \in Jobs : RecordCost(j, c))
      PROVE  Placed'
  BY <1>9, <1>3 DEF Renew, RecordCost
<1>10. CASE Change
  BY <1>10, <1>3 DEF Change
<1> QED
  BY <1>4, <1>5, <1>6, <1>7, <1>8, <1>9, <1>10 DEF CallsNext

LEMMA BookType ==
  ASSUME ResourceTypeOK, NEW j \in Jobs, NEW d \in Jobs, Book(j, d)
  PROVE  call' \in [Jobs -> CallRecord] /\ usage' \in Nat
<1>1. request[d].outcome \in Settled /\ request[d].units \in Nat
  BY DEF ResourceTypeOK, RequestRecord
<1>2. ASSUME NEW r \in CallRecord, NEW o \in Settled, NEW n \in Nat
      PROVE  [r EXCEPT !.status = o, !.actual = n, !.receipt = d] \in CallRecord
  <2>1. [r EXCEPT !.status = o, !.actual = n] \in CallRecord
    BY DEF CallRecord, Unresolved
  <2>2. \A q \in CallRecord : [q EXCEPT !.receipt = d] \in CallRecord
    BY DEF CallRecord
  <2> QED
    BY <2>1, <2>2
<1>3. usage' \in Nat
  BY <1>1 DEF Book, ResourceTypeOK
<1>4. call[j] \in CallRecord
  BY DEF ResourceTypeOK
<1> DEFINE accounted == [call[j] EXCEPT !.status = request[d].outcome,
                                     !.actual = request[d].units, !.receipt = d]
<1>5. accounted \in CallRecord
  BY <1>1, <1>2, <1>4
<1>6. call' = [call EXCEPT ![j] = accounted]
  BY DEF Book
<1> HIDE DEF accounted
<1> QED
  BY <1>3, <1>5, <1>6 DEF ResourceTypeOK

LEMMA DebitType ==
  ASSUME ResourceTypeOK, NEW n \in Nat, n <= balance, Debit(n)
  PROVE  {balance', spent', daily'} \subseteq Nat
BY DEF ResourceTypeOK, Debit

\* The state is well-typed; no debit overdraws the wallet, an evidenced cost
\* above its estimate included.
THEOREM ResourceTypeCorrect == CallsSpec => []ResourceTypeOK
<1>1. CallsInit => ResourceTypeOK /\ Placed
  BY DEF CallsInit, ResourceTypeOK, CallRecord, ResourceRecord, WorkerRecord,
         RequestRecord, NoCall, Resting, Steps, Settled, Placed
<1>2. ResourceTypeOK /\ Placed /\ [CallsNext]_callVars => ResourceTypeOK'
  <2> SUFFICES ASSUME ResourceTypeOK, Placed, [CallsNext]_callVars PROVE ResourceTypeOK'
    OBVIOUS
  <2> USE DEF walletVars, clock
  <2>1. ASSUME NEW w \in Workers, Recover(w) PROVE ResourceTypeOK'
    <3> DEFINE stuck == {j \in Jobs : job[j] = "running" /\ j \in overdue}
               unstarted == {j \in stuck : call[j].status = "reserved"}
    <3>1. call' \in [Jobs -> CallRecord]
      <4>1. call' = [j \in Jobs |->
              IF j \in stuck /\ call[j].status = "dispatched"
              THEN [call[j] EXCEPT !.status = "uncertain"]
              ELSE Cancelled(unstarted)[j]]
        BY <2>1 DEF Recover
      <4>2. Cancelled(unstarted) \in [Jobs -> CallRecord]
        BY CancelledType
      <4> QED
        BY <4>1, <4>2, CallTypes DEF ResourceTypeOK
    <3>2. hold' \in [Jobs -> {"none", "held", "released", "recorded"}]
      <4>1. hold' = Released(unstarted)
        BY <2>1 DEF Recover
      <4> QED
        BY <4>1, CancelledType
    <3>3. job' \in [Jobs -> FinalJob \cup {"queued", "running"}]
      BY <2>1 DEF Recover, ResourceTypeOK, FinalJob
    <3>4. worker' \in [Workers -> WorkerRecord]
      BY <2>1, GoType DEF Recover, Steps
    <3> QED
      BY <2>1, <3>1, <3>2, <3>3, <3>4 DEF Recover, ResourceTypeOK
  <2>2. ASSUME NEW w \in Workers, Take(w) PROVE ResourceTypeOK'
    <3>1. ASSUME NEW j \in Jobs, NEW s \in {"superseded", "blocked"}, Refuse(w, j, s)
          PROVE  ResourceTypeOK'
      BY <2>2, <3>1, RestType DEF Take, Refuse, ResourceTypeOK, FinalJob
    <3>2. ASSUME NEW j \in Jobs, ReserveCall(w, j) PROVE ResourceTypeOK'
      <4>1. [NoCall EXCEPT !.status = "reserved", !.period = resource.period,
               !.credential = resource.credential] \in CallRecord
        BY DEF NoCall, CallRecord, ResourceTypeOK, ResourceRecord, Unresolved
      <4>2. call' \in [Jobs -> CallRecord]
        BY <3>2, <4>1 DEF ReserveCall, ResourceTypeOK
      <4>3. worker' \in [Workers -> WorkerRecord]
        BY <3>2 DEF ReserveCall, ResourceTypeOK, WorkerRecord, Steps
      <4> QED
        BY <2>2, <3>2, <4>2, <4>3 DEF Take, ReserveCall, ResourceTypeOK
    <3>3. CASE Rest(w) /\ UNCHANGED <<job, call, hold>>
      BY <2>2, <3>3, RestType DEF Take, ResourceTypeOK
    <3> QED
      BY <2>2, <3>1, <3>2, <3>3 DEF Take
  <2>3. ASSUME NEW w \in Workers, ClaimCall(w) PROVE ResourceTypeOK'
    <3> DEFINE j == worker[w].job
    <3>1. worker' \in [Workers -> WorkerRecord]
      BY <2>3, GoType DEF ClaimCall, Steps
    <3>2. call' \in [Jobs -> CallRecord]
      <4>1. CASE call' = [call EXCEPT ![j].status = "dispatched"]
        BY <4>1, CallTypes DEF ResourceTypeOK
      <4>2. CASE call' = Cancelled({j})
        BY <4>2, CancelledType
      <4>3. CASE call' = call
        BY <4>3 DEF ResourceTypeOK
      <4> QED
        BY <2>3, <4>1, <4>2, <4>3 DEF ClaimCall
    <3>3. hold' \in [Jobs -> {"none", "held", "released", "recorded"}]
      <4>1. hold' = hold \/ hold' = Released({j})
        BY <2>3 DEF ClaimCall
      <4> QED
        BY <4>1, CancelledType DEF ResourceTypeOK
    <3> QED
      BY <2>3, <3>1, <3>2, <3>3 DEF ClaimCall, ResourceTypeOK
  <2>4. ASSUME NEW w \in Workers, Invoke(w) PROVE ResourceTypeOK'
    <3>1. worker' \in [Workers -> WorkerRecord]
      BY <2>4, GoType DEF Invoke, Steps
    <3> DEFINE j == worker[w].job
    <3>2. j \in Jobs
      BY <2>4 DEF Invoke, Placed
    <3>3. request' \in [Jobs -> RequestRecord]
      <4>1. \A r \in RequestRecord : [r EXCEPT !.state = "sent"] \in RequestRecord
        BY DEF RequestRecord
      <4> QED
        BY <2>4, <4>1 DEF Invoke, ResourceTypeOK
    <3>4. invoked' \in [Jobs -> Nat]
      BY <2>4 DEF Invoke, ResourceTypeOK
    <3> QED
      BY <2>4, <3>1, <3>3, <3>4 DEF Invoke, ResourceTypeOK
  <2>5. ASSUME NEW w \in Workers, AnswerArrives(w) \/ GiveUp(w) PROVE ResourceTypeOK'
    <3>1. worker' \in [Workers -> WorkerRecord]
      BY <2>5, GoType DEF AnswerArrives, GiveUp, Steps
    <3> QED
      BY <2>5, <3>1 DEF AnswerArrives, GiveUp, ResourceTypeOK
  <2>6. ASSUME NEW w \in Workers, Doubt(w) PROVE ResourceTypeOK'
    <3>1. worker' \in [Workers -> WorkerRecord]
      BY <2>6, GoType DEF Doubt, Steps
    <3>2. call' \in [Jobs -> CallRecord]
      BY <2>6, CallTypes DEF Doubt, ResourceTypeOK
    <3> QED
      BY <2>6, <3>1, <3>2 DEF Doubt, ResourceTypeOK
  <2>7. ASSUME NEW w \in Workers, SettleCall(w) PROVE ResourceTypeOK'
    <3>1. worker' \in [Workers -> WorkerRecord]
      BY <2>7, GoType DEF SettleCall, Steps
    <3>2. call' \in [Jobs -> CallRecord] /\ usage' \in Nat
      <4>1. worker[w].job \in Jobs
        BY <2>7 DEF SettleCall, Placed
      <4> QED
        BY <2>7, <4>1, BookType DEF SettleCall, ResourceTypeOK
    <3> QED
      BY <2>7, <3>1, <3>2 DEF SettleCall, ResourceTypeOK
  <2>8. ASSUME NEW w \in Workers, Reply(w) PROVE ResourceTypeOK'
    <3>1. worker' \in [Workers -> WorkerRecord]
      BY <2>8, GoType, RestType DEF Reply, Steps
    <3> QED
      BY <2>8, <3>1 DEF Reply, ResourceTypeOK, FinalJob
  <2>9. ASSUME NEW w \in Workers, Fail(w) PROVE ResourceTypeOK'
    BY <2>9, RestType DEF Fail, ResourceTypeOK, FinalJob
  <2>10. ASSUME NEW w \in Workers, WorkerDies(w) PROVE ResourceTypeOK'
    BY <2>10, RestType DEF WorkerDies, ResourceTypeOK
  <2>11. ASSUME NEW j \in Jobs, Cancel(j) PROVE ResourceTypeOK'
    BY <2>11, CancelledType DEF Cancel, ResourceTypeOK
  <2>12. ASSUME NEW j \in Jobs, NEW d \in Jobs, Reconcile(j, d) PROVE ResourceTypeOK'
    BY <2>12, BookType DEF Reconcile, ResourceTypeOK
  <2>13. ASSUME NEW j \in Jobs, NEW c \in Costs, RecordCost(j, c) PROVE ResourceTypeOK'
    BY <2>13, DebitType DEF RecordCost, ResourceTypeOK
  <2>14. ASSUME NEW c \in Costs, Renew(c) PROVE ResourceTypeOK'
    <3>1. c \in Nat /\ c <= balance
      BY <2>14 DEF Renew, CanDebit, ResourceTypeOK
    <3>2. {balance', spent', daily'} \subseteq Nat
      BY <2>14, <3>1, DebitType DEF Renew
    <3>3. resource' \in ResourceRecord
      <4>1. [resource EXCEPT !.period = @ + 1] \in ResourceRecord
        BY DEF ResourceRecord, ResourceTypeOK
      <4>2. \A r \in ResourceRecord : [r EXCEPT !.end = "ahead"] \in ResourceRecord
        BY DEF ResourceRecord
      <4> QED
        BY <2>14, <4>1, <4>2 DEF Renew
    <3> QED
      BY <2>14, <3>2, <3>3 DEF Renew, ResourceTypeOK
  <2>15. CASE Change
    <3>1. ASSUME NEW c \in Costs, Spend(c) PROVE {balance', spent', daily'} \subseteq Nat
      BY <3>1, DebitType DEF Spend, CanDebit
    <3>2. RotateCredential \/ Retire \/ Lapse => resource' \in ResourceRecord
      BY DEF RotateCredential, Retire, Lapse, ResourceTypeOK, ResourceRecord
    <3>3. \A r \in Readings : ReportUsage(r) => usage' \in Nat
      BY DEF ReportUsage
    <3>4. SetWalletBudget => budget' \in Nat
      BY DEF SetWalletBudget
    <3> QED
      BY <2>15, <3>1, <3>2, <3>3, <3>4
         DEF Change, ChangePolicy, NewDay, AgentReplies, ResourceTypeOK
  <2>16. ASSUME NEW j \in Jobs, Expire(j) \/ Overdue(j) PROVE ResourceTypeOK'
    BY <2>16 DEF Expire, Overdue, ResourceTypeOK
  <2>17. ASSUME NEW j \in Jobs, Account(j) PROVE ResourceTypeOK'
    BY <2>17 DEF Account, ResourceTypeOK, RequestRecord, Settled
  <2>18. CASE UNCHANGED callVars
    BY <2>18 DEF callVars, ResourceTypeOK
  <2> QED
    BY <2>1, <2>2, <2>3, <2>4, <2>5, <2>6, <2>7, <2>8, <2>9, <2>10, <2>11,
       <2>12, <2>13, <2>14, <2>15, <2>16, <2>17, <2>18 DEF CallsNext, WorkerStep
<1>3. ResourceTypeOK /\ Placed /\ [CallsNext]_callVars => Placed'
  BY PlacedStep
<1> QED
  BY <1>1, <1>2, <1>3, PTL DEF CallsSpec

-----------------------------------------------------------------------------
(* What a step leaves alone stays sound.                                   *)

LEMMA WorkerFrame ==
  ASSUME NEW v \in Workers, WorkerSound(v), worker'[v] = worker[v],
         worker[v].job \in Jobs =>
           /\ job'[worker[v].job] = job[worker[v].job]
           /\ call'[worker[v].job].status = call[worker[v].job].status
           /\ invoked'[worker[v].job] = invoked[worker[v].job]
           /\ request'[worker[v].job].state = request[worker[v].job].state
  PROVE  WorkerSound(v)'
BY DEF WorkerSound

LEMMA CallFrame ==
  ASSUME NEW j \in Jobs, CallSound(j), job'[j] = job[j], replied'[j] = replied[j],
         call'[j].status = call[j].status, call'[j].period = call[j].period,
         hold'[j] = hold[j], invoked'[j] = invoked[j],
         request'[j].state = request[j].state, resource'.period = resource.period
  PROVE  CallSound(j)'
BY DEF CallSound

LEMMA OneWorkerFrame ==
  ASSUME OneWorker, NEW w \in Workers,
         \A v \in Workers \ {w} : worker'[v] = worker[v],
         worker'[w].job \in {worker[w].job, None}
  PROVE  OneWorker'
BY DEF OneWorker

LEMMA BookedFrame ==
  ASSUME BookedOnce,
         \A j \in Jobs : /\ call'[j].receipt \in {call[j].receipt, None}
                         /\ call'[j].status \in Settled => call'[j] = call[j],
         \A d \in Jobs : request[d].state = "known" => request'[d] = request[d]
  PROVE  BookedOnce'
BY DEF BookedOnce

\* Booking an account for an unresolved call keeps every account booked once.
LEMMA BookedByBook ==
  ASSUME ResourceTypeOK, BookedOnce, NEW j \in Jobs, NEW d \in Jobs,
         Bookable(j, d), Book(j, d), request' = request
  PROVE  BookedOnce'
<1>1. \A k \in Jobs \ {j} : call'[k] = call[k]
  BY DEF Book, ResourceTypeOK
<1>2. /\ call'[j].status = request[d].outcome
      /\ call'[j].actual = request[d].units /\ call'[j].receipt = d
  BY DEF Book, ResourceTypeOK, CallRecord
<1>3. /\ request[d].state = "known" /\ call[j].status \notin Settled
      /\ \A k \in Jobs \ {j} : call[k].receipt # d
  BY DEF Bookable, Settled
<1> QED
  BY <1>1, <1>2, <1>3 DEF BookedOnce

\* The job of a busy worker is a job, and its own.
LEMMA OwnJob ==
  ASSUME Sound, NEW w \in Workers, worker[w].step \notin {"idle", "polled"}
  PROVE  /\ worker[w].job \in Jobs /\ job[worker[w].job] # "queued"
         /\ \A v \in Workers \ {w} : worker[v].job # worker[w].job
BY DEF Sound, WorkerSound, OneWorker

\* A worker's step within its job disturbs nobody else's.
LEMMA JobStep ==
  ASSUME ResourceTypeOK, Sound, NEW w \in Workers, NEW j \in Jobs,
         worker[w].job = j, worker[w].step \notin {"idle", "polled"},
         \A v \in Workers \ {w} : worker'[v] = worker[v],
         worker'[w].job \in {j, None},
         \A k \in Jobs \ {j} : /\ job'[k] = job[k] /\ replied'[k] = replied[k]
                               /\ call'[k] = call[k] /\ hold'[k] = hold[k]
                               /\ invoked'[k] = invoked[k] /\ request'[k] = request[k],
         resource' = resource,
         WorkerSound(w)', CallSound(j)', BookedOnce'
  PROVE  Sound'
<1>1. OneWorker'
  BY OneWorkerFrame DEF Sound
<1>2. ASSUME NEW v \in Workers \ {w} PROVE WorkerSound(v)'
  <2>1. worker[v].job # j
    BY OwnJob
  <2> QED
    BY <2>1, WorkerFrame DEF Sound
<1>3. ASSUME NEW k \in Jobs \ {j} PROVE CallSound(k)'
  BY CallFrame DEF Sound
<1> QED
  BY <1>1, <1>2, <1>3 DEF Sound

\* A worker that rests satisfies whatever is asked of it.
LEMMA AtRest ==
  ASSUME ResourceTypeOK, NEW w \in Workers, Rest(w)
  PROVE  /\ WorkerSound(w)' /\ worker'[w].job = None
         /\ \A v \in Workers \ {w} : worker'[v] = worker[v]
BY DEF Rest, Resting, WorkerSound, ResourceTypeOK

LEMMA Going ==
  ASSUME ResourceTypeOK, NEW w \in Workers, NEW s \in Steps, Go(w, s)
  PROVE  /\ worker'[w].job = worker[w].job /\ worker'[w].step = s
         /\ \A v \in Workers \ {w} : worker'[v] = worker[v]
BY DEF Go, ResourceTypeOK, WorkerRecord

\* What the changes of some calls' status and hold are.
LEMMA CancelledIs ==
  ASSUME ResourceTypeOK, NEW C, call' = Cancelled(C), hold' = Released(C)
  PROVE  \A k \in Jobs :
           /\ call'[k].receipt = call[k].receipt /\ call'[k].period = call[k].period
           /\ k \in C => /\ call'[k].status = "cancelled"
                         /\ hold[k] = "held" => hold'[k] = "released"
           /\ k \notin C => call'[k] = call[k] /\ hold'[k] = hold[k]
BY DEF Cancelled, Released, ResourceTypeOK, CallRecord

-----------------------------------------------------------------------------
(* The worker's steps.                                                     *)

LEMMA ClaimSound ==
  ASSUME ResourceTypeOK, Sound, NEW w \in Workers, NEW j \in Jobs, worker[w].job = j,
         ClaimCall(w)
  PROVE  Sound'
<1>1. /\ worker[w].step = "claiming"
      /\ UNCHANGED <<job, replied, resource, request, invoked>>
  BY DEF ClaimCall
<1>2. j \in Jobs /\ job[j] # "queued" /\ WorkerSound(w) /\ CallSound(j)
  BY <1>1, OwnJob DEF Sound
<1>3. CASE /\ call[j].status = "reserved" /\ Go(w, "invoking") /\ UNCHANGED hold
           /\ call' = [call EXCEPT ![j].status = "dispatched"]
  <2>1. /\ call'[j].status = "dispatched" /\ call'[j].period = call[j].period
        /\ call'[j].receipt = call[j].receipt
        /\ \A k \in Jobs \ {j} : call'[k] = call[k]
    BY <1>2, <1>3 DEF ResourceTypeOK, CallRecord
  <2>2. WorkerSound(w)'
    BY <1>1, <1>2, <1>3, <2>1, Going DEF WorkerSound, CallSound, KeptStatus, Steps
  <2>3. CallSound(j)'
    BY <1>1, <1>2, <1>3, <2>1 DEF CallSound, Unresolved, Settled
  <2>4. BookedOnce'
    BY <1>1, <1>3, <2>1, BookedFrame DEF Sound, Settled
  <2> QED
    BY <1>1, <1>2, <1>3, <2>1, <2>2, <2>3, <2>4, Going, JobStep DEF Steps
<1>4. CASE /\ call[j].status = "reserved" /\ Go(w, "failing")
           /\ call' = Cancelled({j}) /\ hold' = Released({j})
  <2>1. /\ call'[j].status = "cancelled" /\ call'[j].period = call[j].period
        /\ hold'[j] = "released"
        /\ \A k \in Jobs : call'[k].receipt = call[k].receipt
        /\ \A k \in Jobs \ {j} : call'[k] = call[k] /\ hold'[k] = hold[k]
    <3>1. hold[j] = "held"
      BY <1>2, <1>4 DEF CallSound, Unresolved
    <3>2. \A k \in Jobs :
            /\ call'[k].receipt = call[k].receipt /\ call'[k].period = call[k].period
            /\ k \in {j} => /\ call'[k].status = "cancelled"
                            /\ hold[k] = "held" => hold'[k] = "released"
            /\ k \notin {j} => call'[k] = call[k] /\ hold'[k] = hold[k]
      BY <1>4, CancelledIs
    <3> QED
      BY <3>1, <3>2
  <2>2. WorkerSound(w)'
    BY <1>1, <1>2, <1>4, <2>1, Going DEF WorkerSound, Steps
  <2>3. CallSound(j)'
    BY <1>1, <1>2, <1>4, <2>1 DEF CallSound, Unresolved, Settled
  <2>4. BookedOnce'
    BY <1>1, <1>2, <2>1, BookedFrame DEF Sound, Settled
  <2> QED
    BY <1>1, <1>2, <1>4, <2>1, <2>2, <2>3, <2>4, Going, JobStep DEF Steps
<1>5. CASE /\ call[j].status # "reserved" /\ Go(w, "failing")
           /\ UNCHANGED <<call, hold>>
  <2>1. WorkerSound(w)'
    BY <1>1, <1>2, <1>5, Going DEF WorkerSound, Steps
  <2>2. CallSound(j)' /\ BookedOnce'
    BY <1>1, <1>2, <1>5, CallFrame, BookedFrame DEF Sound
  <2> QED
    BY <1>1, <1>2, <1>5, <2>1, <2>2, Going, JobStep DEF Steps
<1> QED
  BY <1>3, <1>4, <1>5 DEF ClaimCall

\* The steps that change neither job, hold nor period.
LEMMA CallStep ==
  ASSUME ResourceTypeOK, Sound, NEW w \in Workers, NEW j \in Jobs, worker[w].job = j,
         Invoke(w) \/ AnswerArrives(w) \/ GiveUp(w) \/ Doubt(w)
  PROVE  Sound'
<1>1. /\ worker[w].step \in {"invoking", "waiting", "doubting"}
      /\ UNCHANGED <<job, replied, hold, resource>>
  BY DEF Invoke, AnswerArrives, GiveUp, Doubt
<1>2. j \in Jobs /\ job[j] # "queued" /\ WorkerSound(w) /\ CallSound(j)
  BY <1>1, OwnJob DEF Sound
<1>3. call[j].status \in KeptStatus
  BY <1>1, <1>2 DEF WorkerSound
<1>4. CASE Invoke(w)
  <2>1. /\ worker[w].step = "invoking" /\ invoked[j] = 0 /\ UNCHANGED call
        /\ request[j].state = "unsent"
    BY <1>2, <1>4 DEF Invoke, WorkerSound
  <2>2. /\ Go(w, "waiting") \/ Go(w, "doubting")
        /\ invoked'[j] \in {0, 1}
        /\ \A k \in Jobs \ {j} : invoked'[k] = invoked[k] /\ request'[k] = request[k]
    BY <1>2, <1>4, <2>1 DEF Invoke, ResourceTypeOK
  <2>3. WorkerSound(w)'
    BY <1>1, <1>2, <1>3, <2>1, <2>2, Going DEF WorkerSound, Steps
  <2>4. CallSound(j)'
    BY <1>1, <1>2, <1>3, <2>1, <2>2 DEF CallSound, KeptStatus, Settled, Unresolved
  <2>5. BookedOnce'
    BY <2>1, <2>2, BookedFrame DEF Sound
  <2> QED
    BY <1>1, <1>2, <2>1, <2>2, <2>3, <2>4, <2>5, Going, JobStep DEF Steps
<1>5. CASE AnswerArrives(w) \/ GiveUp(w)
  <2>1. /\ worker[w].step = "waiting" /\ UNCHANGED <<call, invoked, request>>
        /\ Go(w, "doubting") \/ Go(w, "settling")
    BY <1>5 DEF AnswerArrives, GiveUp
  <2>2. WorkerSound(w)'
    BY <1>1, <1>2, <1>3, <2>1, Going DEF WorkerSound, Steps
  <2>3. CallSound(j)' /\ BookedOnce'
    BY <1>1, <1>2, <2>1, CallFrame, BookedFrame DEF Sound
  <2> QED
    BY <1>1, <1>2, <2>1, <2>2, <2>3, Going, JobStep DEF Steps
<1>6. CASE Doubt(w)
  <2>1. /\ worker[w].step = "doubting" /\ UNCHANGED <<invoked, request>>
        /\ Go(w, "failing")
        /\ call' = IF call[j].status = "dispatched"
                   THEN [call EXCEPT ![j].status = "uncertain"] ELSE call
    BY <1>6 DEF Doubt
  <2>2. /\ call'[j].status = IF call[j].status = "dispatched" THEN "uncertain"
                             ELSE call[j].status
        /\ call'[j].period = call[j].period /\ call'[j].receipt = call[j].receipt
        /\ call[j].status \in Settled => call'[j] = call[j]
        /\ \A k \in Jobs \ {j} : call'[k] = call[k]
    BY <1>2, <2>1 DEF ResourceTypeOK, CallRecord, Settled
  <2>3. WorkerSound(w)'
    BY <1>1, <1>2, <1>3, <2>1, <2>2, Going DEF WorkerSound, Steps, KeptStatus, Settled
  <2>4. CallSound(j)'
    BY <1>1, <1>2, <1>3, <2>1, <2>2 DEF CallSound, KeptStatus, Settled, Unresolved
  <2>5. BookedOnce'
    BY <2>1, <2>2, BookedFrame DEF Sound, Settled
  <2> QED
    BY <1>1, <1>2, <2>1, <2>2, <2>3, <2>4, <2>5, Going, JobStep DEF Steps
<1> QED
  BY <1>4, <1>5, <1>6

\* A booked call is sound, and so is everyone else.
LEMMA CallSoundByBook ==
  ASSUME ResourceTypeOK, NEW j \in Jobs, NEW d \in Jobs, CallSound(j),
         Bookable(j, d), Book(j, d),
         UNCHANGED <<job, replied, hold, resource, request, invoked>>
  PROVE  /\ CallSound(j)' /\ call'[j].status \in Settled
         /\ \A k \in Jobs \ {j} : call'[k] = call[k]
<1>1. /\ call'[j].status = request[d].outcome /\ call'[j].period = call[j].period
      /\ \A k \in Jobs \ {j} : call'[k] = call[k]
  BY DEF Book, ResourceTypeOK, CallRecord
<1>2. call'[j].status \in Settled
  BY <1>1 DEF ResourceTypeOK, RequestRecord
<1>3. call[j].status \in {"dispatched", "uncertain"}
  BY DEF Bookable
<1> QED
  BY <1>1, <1>2, <1>3 DEF CallSound, Settled, Unresolved

LEMMA SettleSound ==
  ASSUME ResourceTypeOK, Sound, NEW w \in Workers, NEW j \in Jobs, worker[w].job = j,
         SettleCall(w)
  PROVE  Sound'
<1>1. /\ worker[w].step = "settling"
      /\ UNCHANGED <<job, replied, hold, resource, request, invoked>>
  BY DEF SettleCall
<1>2. job[j] # "queued" /\ WorkerSound(w) /\ CallSound(j) /\ call[j].status \in KeptStatus
  BY <1>1, OwnJob DEF Sound, WorkerSound
<1>3. CASE /\ Bookable(j, j) /\ Book(j, j)
           /\ Go(w, IF AuthorityChanged(j) \/ request[j].outcome = "failed"
                    THEN "failing" ELSE "replying")
  <2>1. CallSound(j)' /\ call'[j].status \in Settled
        /\ \A k \in Jobs \ {j} : call'[k] = call[k]
    BY <1>1, <1>2, <1>3, CallSoundByBook
  <2>2. BookedOnce'
    BY <1>1, <1>3, BookedByBook DEF Sound
  <2>3. Go(w, "failing") \/ (Go(w, "replying") /\ request[j].outcome # "failed")
    <3>1. CASE AuthorityChanged(j) \/ request[j].outcome = "failed"
      BY <1>3, <3>1
    <3>2. CASE ~(AuthorityChanged(j) \/ request[j].outcome = "failed")
      BY <1>3, <3>2
    <3> QED
      BY <3>1, <3>2
  <2>4. call'[j].status = request[j].outcome /\ request[j].outcome \in Settled
    BY <1>3 DEF Book, ResourceTypeOK, CallRecord, RequestRecord
  <2>5. WorkerSound(w)'
    BY <1>1, <1>2, <2>1, <2>3, <2>4, Going DEF WorkerSound, Steps, Settled
  <2> QED
    BY <1>1, <2>1, <2>2, <2>3, <2>5, Going, JobStep DEF Steps
<1>4. CASE /\ call[j].status \in Settled /\ call[j].receipt = j
           /\ UNCHANGED <<call, usage>>
           /\ Go(w, IF AuthorityChanged(j) \/ request[j].outcome = "failed"
                    THEN "failing" ELSE "replying")
  <2>1. call[j].status = request[j].outcome
    BY <1>4 DEF Sound, BookedOnce
  <2>2. Go(w, "failing") \/ (Go(w, "replying") /\ request[j].outcome # "failed")
    <3>1. CASE AuthorityChanged(j) \/ request[j].outcome = "failed"
      BY <1>4, <3>1
    <3>2. CASE ~(AuthorityChanged(j) \/ request[j].outcome = "failed")
      BY <1>4, <3>2
    <3> QED
      BY <3>1, <3>2
  <2>3. WorkerSound(w)'
    BY <1>1, <1>2, <1>4, <2>1, <2>2, Going DEF WorkerSound, Steps, Settled
  <2>4. CallSound(j)' /\ BookedOnce'
    BY <1>1, <1>2, <1>4, CallFrame, BookedFrame DEF Sound
  <2> QED
    BY <1>1, <1>4, <2>2, <2>3, <2>4, Going, JobStep DEF Steps
<1>5. CASE Go(w, "doubting") /\ UNCHANGED <<call, usage>>
  <2>1. WorkerSound(w)'
    BY <1>1, <1>2, <1>5, Going DEF WorkerSound, Steps
  <2>2. CallSound(j)' /\ BookedOnce'
    BY <1>1, <1>2, <1>5, CallFrame, BookedFrame DEF Sound
  <2> QED
    BY <1>1, <1>5, <2>1, <2>2, Going, JobStep DEF Steps
<1> QED
  BY <1>3, <1>4, <1>5 DEF SettleCall

\* The steps that end a job and change no call.
LEMMA EndSound ==
  ASSUME ResourceTypeOK, Sound, NEW w \in Workers, NEW j \in Jobs, worker[w].job = j,
         Reply(w) \/ Fail(w)
  PROVE  Sound'
<1>1. /\ worker[w].step \in {"replying", "failing"}
      /\ UNCHANGED <<call, hold, resource, request, invoked>>
  BY DEF Reply, Fail
<1>2. job[j] # "queued" /\ WorkerSound(w) /\ CallSound(j)
  BY <1>1, OwnJob DEF Sound
<1>3. BookedOnce'
  BY <1>1, BookedFrame DEF Sound
<1>4. CASE /\ worker[w].step = "replying" /\ job[j] = "running" /\ Go(w, "failing")
           /\ UNCHANGED <<job, replied>>
  <2>1. WorkerSound(w)'
    BY <1>1, <1>2, <1>4, Going DEF WorkerSound, Steps, Settled
  <2>2. CallSound(j)'
    BY <1>1, <1>2, <1>4, CallFrame
  <2> QED
    BY <1>1, <1>3, <1>4, <2>1, <2>2, Going, JobStep DEF Steps
<1>5. CASE /\ Rest(w)
           /\ \A k \in Jobs \ {j} : job'[k] = job[k] /\ replied'[k] = replied[k]
           /\ \/ job'[j] = job[j] /\ replied'[j] = replied[j]
              \/ /\ job'[j] = "superseded" /\ job[j] = "running"
                 /\ replied'[j] = replied[j] /\ worker[w].step = "replying"
              \/ /\ job'[j] = "succeeded" /\ replied'[j] = "worker"
                 /\ worker[w].step = "replying"
              \/ /\ job'[j] = "blocked" /\ call[j].status = "cancelled"
                 /\ job[j] = "running" /\ replied'[j] = replied[j]
              \/ /\ job'[j] = "needs_review" /\ worker[w].step = "failing"
                 /\ job[j] = "running" /\ replied'[j] = replied[j]
  <2>1. CallSound(j)'
    BY <1>1, <1>2, <1>5 DEF CallSound, WorkerSound, Settled
  <2> QED
    BY <1>1, <1>3, <1>5, <2>1, AtRest, JobStep
<1> QED
  BY <1>4, <1>5 DEF Reply, Fail, ResourceTypeOK

LEMMA CrashSound ==
  ASSUME ResourceTypeOK, Sound, NEW w \in Workers, WorkerDies(w)
  PROVE  Sound'
<1>1. Rest(w) /\ UNCHANGED <<job, replied, call, hold, resource, request, invoked>>
  BY DEF WorkerDies
<1>2. OneWorker'
  BY <1>1, AtRest, OneWorkerFrame DEF Sound
<1>3. \A v \in Workers : WorkerSound(v)'
  BY <1>1, AtRest, WorkerFrame DEF Sound
<1>4. (\A j \in Jobs : CallSound(j)') /\ BookedOnce'
  BY <1>1, CallFrame, BookedFrame DEF Sound
<1> QED
  BY <1>2, <1>3, <1>4 DEF Sound

LEMMA TakeSound ==
  ASSUME ResourceTypeOK, Sound, NEW w \in Workers, Take(w)
  PROVE  Sound'
<1>1. /\ worker[w].step = "polled" /\ worker[w].job = None
      /\ UNCHANGED <<replied, resource, request, invoked>>
  BY DEF Take, Sound, WorkerSound
<1>2. ASSUME NEW j \in Jobs, job[j] = "queued"
      PROVE  /\ call[j].status = "none" /\ hold[j] = "none" /\ invoked[j] = 0
             /\ request[j].state = "unsent" /\ replied[j] # "worker"
             /\ \A v \in Workers : worker[v].job # j
  BY <1>2 DEF Sound, CallSound, WorkerSound, Unresolved, ResourceAssumption
<1>3. CASE Rest(w) /\ UNCHANGED <<job, call, hold>>
  <2>1. OneWorker' /\ \A v \in Workers : WorkerSound(v)'
    BY <1>1, <1>3, AtRest, OneWorkerFrame, WorkerFrame DEF Sound
  <2>2. (\A j \in Jobs : CallSound(j)') /\ BookedOnce'
    BY <1>1, <1>3, CallFrame, BookedFrame DEF Sound
  <2> QED
    BY <2>1, <2>2 DEF Sound
<1>4. ASSUME NEW j \in Jobs, job[j] = "queued",
             NEW s \in {"superseded", "blocked"}, Refuse(w, j, s)
      PROVE  Sound'
  <2>1. /\ job'[j] = s /\ \A k \in Jobs \ {j} : job'[k] = job[k]
        /\ Rest(w) /\ UNCHANGED <<call, hold>>
    BY <1>4 DEF Refuse, ResourceTypeOK
  <2>2. OneWorker' /\ \A v \in Workers : WorkerSound(v)'
    BY <1>1, <1>2, <1>4, <2>1, AtRest, OneWorkerFrame, WorkerFrame DEF Sound
  <2>3. CallSound(j)'
    BY <1>1, <1>2, <1>4, <2>1 DEF Sound, CallSound, Unresolved
  <2>4. (\A k \in Jobs \ {j} : CallSound(k)') /\ BookedOnce'
    BY <1>1, <2>1, CallFrame, BookedFrame DEF Sound
  <2> QED
    BY <2>2, <2>3, <2>4 DEF Sound
<1>5. ASSUME NEW j \in Jobs, job[j] = "queued", ReserveCall(w, j) PROVE Sound'
  <2>1. /\ job'[j] = "running" /\ hold'[j] = "held" /\ call'[j].status = "reserved"
        /\ call'[j].period = resource.period /\ call'[j].receipt = None
        /\ \A k \in Jobs \ {j} : job'[k] = job[k] /\ call'[k] = call[k] /\ hold'[k] = hold[k]
    BY <1>5 DEF ReserveCall, NoCall, ResourceTypeOK
  <2>2. /\ worker'[w].step = "claiming" /\ worker'[w].job = j
        /\ \A v \in Workers \ {w} : worker'[v] = worker[v]
    BY <1>5 DEF ReserveCall, ResourceTypeOK
  <2>3. OneWorker'
    BY <1>2, <1>5, <2>2 DEF Sound, OneWorker
  <2>4. WorkerSound(w)'
    BY <2>1, <2>2 DEF WorkerSound
  <2>5. \A v \in Workers \ {w} : WorkerSound(v)'
    BY <1>1, <1>2, <1>5, <2>1, <2>2, WorkerFrame DEF Sound
  <2>6. CallSound(j)'
    BY <1>1, <1>2, <1>5, <2>1 DEF Sound, CallSound, Unresolved, Settled
  <2>7. \A k \in Jobs \ {j} : CallSound(k)'
    BY <1>1, <2>1, CallFrame DEF Sound
  <2>8. BookedOnce'
    BY <1>1, <2>1, BookedFrame DEF Sound, Settled
  <2> QED
    BY <2>3, <2>4, <2>5, <2>6, <2>7, <2>8 DEF Sound
<1> QED
  BY <1>3, <1>4, <1>5 DEF Take

LEMMA RecoverSound ==
  ASSUME ResourceTypeOK, Sound, NEW w \in Workers, Recover(w)
  PROVE  Sound'
<1> DEFINE stuck == {j \in Jobs : job[j] = "running" /\ j \in overdue}
           unstarted == {j \in stuck : call[j].status = "reserved"}
<1>1. /\ worker[w].step = "idle" /\ Go(w, "polled")
      /\ UNCHANGED <<replied, resource, request, invoked>>
      /\ job' = [j \in Jobs |-> IF j \in stuck THEN "needs_review" ELSE job[j]]
      /\ call' = [j \in Jobs |->
           IF j \in stuck /\ call[j].status = "dispatched"
           THEN [call[j] EXCEPT !.status = "uncertain"]
           ELSE Cancelled(unstarted)[j]]
      /\ hold' = Released(unstarted)
  BY DEF Recover
<1>2. ASSUME NEW j \in Jobs
      PROVE  /\ job'[j] = IF j \in stuck THEN "needs_review" ELSE job[j]
             /\ call'[j].receipt = call[j].receipt /\ call'[j].period = call[j].period
             /\ call'[j].status =
                  IF j \in stuck /\ call[j].status = "dispatched" THEN "uncertain"
                  ELSE IF j \in stuck /\ call[j].status = "reserved" THEN "cancelled"
                  ELSE call[j].status
             /\ call[j].status \notin {"reserved", "dispatched"} => call'[j] = call[j]
             /\ hold'[j] = IF j \in unstarted /\ hold[j] = "held" THEN "released"
                           ELSE hold[j]
  BY <1>1 DEF Cancelled, Released, ResourceTypeOK, CallRecord
<1>3. \A j \in Jobs : j \in stuck => job[j] = "running"
  OBVIOUS
<1>4. \A j \in Jobs : j \in unstarted <=> j \in stuck /\ call[j].status = "reserved"
  OBVIOUS
<1> HIDE DEF stuck, unstarted
<1>5. /\ worker'[w].step = "polled" /\ worker'[w].job = None /\ worker[w].job = None
      /\ \A v \in Workers \ {w} : worker'[v] = worker[v]
  BY <1>1, Going DEF Steps, Sound, WorkerSound
<1>6. OneWorker'
  BY <1>5, OneWorkerFrame DEF Sound
<1>7. WorkerSound(w)'
  BY <1>5 DEF WorkerSound
<1>8. ASSUME NEW v \in Workers \ {w} PROVE WorkerSound(v)'
  <2>1. WorkerSound(v) /\ worker'[v] = worker[v]
    BY <1>5 DEF Sound
  <2>2. CASE worker[v].step \in {"idle", "polled"}
    BY <2>1, <2>2 DEF WorkerSound
  <2>3. CASE worker[v].step \notin {"idle", "polled"}
    <3>1. PICK j \in Jobs : j = worker[v].job
      BY <2>1, <2>3 DEF WorkerSound
    <3>2. /\ job'[j] = IF j \in stuck THEN "needs_review" ELSE job[j]
          /\ call'[j].status =
               IF j \in stuck /\ call[j].status = "dispatched" THEN "uncertain"
               ELSE IF j \in stuck /\ call[j].status = "reserved" THEN "cancelled"
               ELSE call[j].status
      BY <1>2
    <3> QED
      BY <1>1, <2>1, <2>3, <3>1, <3>2 DEF WorkerSound, KeptStatus, Settled
  <2> QED
    BY <2>2, <2>3
<1>9. ASSUME NEW j \in Jobs PROVE CallSound(j)'
  <2>1. /\ CallSound(j) /\ UNCHANGED <<replied, resource, request, invoked>>
        /\ j \in unstarted <=> j \in stuck /\ call[j].status = "reserved"
        /\ j \in stuck => job[j] = "running"
    BY <1>1, <1>3, <1>4 DEF Sound
  <2>2. CASE j \notin stuck
    <3>1. /\ job'[j] = job[j] /\ call'[j].status = call[j].status
          /\ call'[j].period = call[j].period /\ hold'[j] = hold[j]
      BY <1>2, <2>1, <2>2
    <3> QED
      BY <2>1, <3>1, CallFrame
  <2>3. CASE j \in stuck
    <3>1. job'[j] = "needs_review" /\ call'[j].period = call[j].period
      BY <1>2, <2>3
    <3>2. CASE call[j].status = "reserved"
      <4>1. hold[j] = "held"
        BY <2>1, <3>2 DEF CallSound, Unresolved
      <4>2. call'[j].status = "cancelled" /\ hold'[j] = "released"
        BY <1>2, <2>1, <2>3, <3>2, <4>1
      <4> QED
        BY <2>1, <2>3, <3>1, <3>2, <4>1, <4>2 DEF CallSound, Unresolved, Settled
    <3>3. CASE call[j].status = "dispatched"
      <4>1. call'[j].status = "uncertain" /\ hold'[j] = hold[j]
        BY <1>2, <2>1, <2>3, <3>3
      <4> QED
        BY <2>1, <2>3, <3>1, <3>3, <4>1 DEF CallSound, Unresolved, Settled
    <3>4. CASE call[j].status \notin {"reserved", "dispatched"}
      <4>1. call'[j].status = call[j].status /\ hold'[j] = hold[j]
        BY <1>2, <2>1, <2>3, <3>4
      <4> QED
        BY <2>1, <2>3, <3>1, <3>4, <4>1 DEF CallSound, Unresolved, Settled
    <3> QED
      BY <3>2, <3>3, <3>4
  <2> QED
    BY <2>2, <2>3
<1>10. BookedOnce'
  BY <1>1, <1>2, BookedFrame DEF Sound, Settled
<1> QED
  BY <1>6, <1>7, <1>8, <1>9, <1>10 DEF Sound

-----------------------------------------------------------------------------
(* The other steps.                                                        *)

\* A step that moves no worker, and how it may change a job's call.
LEMMA OutsideStep ==
  ASSUME Sound, UNCHANGED worker,
         \A j \in Jobs : CallSound(j)',
         \A w \in Workers : WorkerSound(w) => WorkerSound(w)',
         BookedOnce'
  PROVE  Sound'
BY DEF Sound, OneWorker

LEMMA CancelSound ==
  ASSUME ResourceTypeOK, Sound, NEW j \in Jobs, Cancel(j)
  PROVE  Sound'
<1>1. /\ call[j].status = "reserved" /\ call' = Cancelled({j}) /\ hold' = Released({j})
      /\ UNCHANGED <<job, replied, resource, request, invoked, worker>>
  BY DEF Cancel
<1>2. hold[j] = "held"
  BY <1>1 DEF Sound, CallSound, Unresolved
<1>3. \A k \in Jobs :
        /\ call'[k].receipt = call[k].receipt /\ call'[k].period = call[k].period
        /\ k \in {j} => /\ call'[k].status = "cancelled"
                        /\ hold[k] = "held" => hold'[k] = "released"
        /\ k \notin {j} => call'[k] = call[k] /\ hold'[k] = hold[k]
  BY <1>1, CancelledIs
<1>4. \A k \in Jobs : CallSound(k)'
  <2>1. call'[j].status = "cancelled" /\ hold'[j] = "released"
    BY <1>2, <1>3
  <2>2. CallSound(j)'
    BY <1>1, <1>2, <1>3, <2>1 DEF Sound, CallSound, Unresolved, Settled
  <2>3. \A k \in Jobs \ {j} : call'[k] = call[k] /\ hold'[k] = hold[k]
    BY <1>3
  <2> QED
    BY <1>1, <2>2, <2>3, CallFrame DEF Sound
<1>5. ASSUME NEW w \in Workers, WorkerSound(w) PROVE WorkerSound(w)'
  <2>1. call'[j].status = "cancelled" /\ \A k \in Jobs \ {j} : call'[k] = call[k]
    BY <1>2, <1>3
  <2>2. CASE worker[w].job = j
    BY <1>1, <1>5, <2>1, <2>2 DEF WorkerSound, KeptStatus, Settled
  <2>3. CASE worker[w].job # j
    BY <1>1, <1>5, <2>1, <2>3, WorkerFrame
  <2> QED
    BY <2>2, <2>3
<1>6. BookedOnce'
  BY <1>1, <1>3, BookedFrame DEF Sound, Settled
<1> QED
  BY <1>1, <1>4, <1>5, <1>6, OutsideStep

LEMMA ReconcileSound ==
  ASSUME ResourceTypeOK, Sound, NEW j \in Jobs, NEW d \in Jobs, Reconcile(j, d)
  PROVE  Sound'
<1>1. /\ Bookable(j, d) /\ Book(j, d)
      /\ UNCHANGED <<job, replied, hold, resource, request, invoked, worker>>
  BY DEF Reconcile
<1>2. CallSound(j)' /\ call'[j].status \in Settled
      /\ \A k \in Jobs \ {j} : call'[k] = call[k]
  BY <1>1, CallSoundByBook DEF Sound
<1>3. \A k \in Jobs : CallSound(k)'
  BY <1>1, <1>2, CallFrame DEF Sound
<1>4. BookedOnce'
  BY <1>1, BookedByBook DEF Sound
<1>5. call[j].status \in {"dispatched", "uncertain"}
  BY <1>1 DEF Bookable
<1>6. \A w \in Workers : WorkerSound(w) => WorkerSound(w)'
  BY <1>1, <1>2, <1>5 DEF WorkerSound, KeptStatus, Settled
<1> QED
  BY <1>1, <1>3, <1>4, <1>6, OutsideStep

LEMMA RecordCostSound ==
  ASSUME ResourceTypeOK, Sound, NEW j \in Jobs, NEW c \in Costs, RecordCost(j, c)
  PROVE  Sound'
<1>1. /\ call[j].status \in Settled /\ hold[j] = "held" /\ hold'[j] = "recorded"
      /\ \A k \in Jobs \ {j} : hold'[k] = hold[k]
      /\ UNCHANGED <<job, replied, call, resource, request, invoked, worker>>
  BY DEF RecordCost, ResourceTypeOK
<1>2. CallSound(j)'
  BY <1>1 DEF Sound, CallSound, Unresolved, Settled
<1>3. \A k \in Jobs : CallSound(k)'
  BY <1>1, <1>2, CallFrame DEF Sound
<1>4. (\A w \in Workers : WorkerSound(w)') /\ BookedOnce'
  BY <1>1, WorkerFrame, BookedFrame DEF Sound
<1> QED
  BY <1>1, <1>3, <1>4, OutsideStep

LEMMA RenewSound ==
  ASSUME ResourceTypeOK, Sound, NEW c \in Costs, Renew(c)
  PROVE  Sound'
<1>1. /\ \A j \in Jobs : call[j].status \notin Unresolved /\ hold[j] # "held"
      /\ UNCHANGED <<job, replied, call, hold, request, invoked, worker>>
  BY DEF Renew
<1>2. \A j \in Jobs : CallSound(j)'
  BY <1>1 DEF Sound, CallSound
<1>3. (\A w \in Workers : WorkerSound(w)') /\ BookedOnce'
  BY <1>1, WorkerFrame, BookedFrame DEF Sound
<1> QED
  BY <1>1, <1>2, <1>3, OutsideStep

LEMMA ChangeSound ==
  ASSUME ResourceTypeOK, Sound, Change \/ (\E j \in Jobs : Expire(j) \/ Overdue(j))
  PROVE  Sound'
<1>1. /\ UNCHANGED <<job, call, hold, request, invoked, worker>>
      /\ resource'.period = resource.period
  BY DEF Change, Expire, Overdue, RotateCredential, Retire, Lapse, ResourceTypeOK,
         ResourceRecord
<1>2. \A j \in Jobs : replied'[j] = replied[j] \/ (replied[j] = "nobody" /\ replied'[j] = "agent")
  BY DEF Change, Expire, Overdue, AgentReplies, ResourceTypeOK
<1>3. \A j \in Jobs : CallSound(j)'
  BY <1>1, <1>2 DEF Sound, CallSound
<1>4. (\A w \in Workers : WorkerSound(w)') /\ BookedOnce'
  BY <1>1, WorkerFrame, BookedFrame DEF Sound
<1> QED
  BY <1>1, <1>3, <1>4, OutsideStep

LEMMA AccountSound ==
  ASSUME ResourceTypeOK, Sound, NEW j \in Jobs, Account(j)
  PROVE  Sound'
<1>1. /\ UNCHANGED <<job, replied, call, hold, resource, invoked, worker>>
      /\ request[j].state # "known"
      /\ \A k \in Jobs \ {j} : request'[k] = request[k]
      /\ \/ request[j].state = "sent"
         \/ /\ call[j].status \in {"dispatched", "uncertain"}
            /\ \A w \in Workers : worker[w].job = j => worker[w].step \in {"doubting", "failing"}
  BY DEF Account, ResourceTypeOK
<1>2. \A k \in Jobs : CallSound(k)'
  <2>1. CallSound(j)'
    BY <1>1 DEF Sound, CallSound
  <2> QED
    BY <1>1, <2>1, CallFrame DEF Sound
<1>3. \A w \in Workers : WorkerSound(w) => WorkerSound(w)'
  BY <1>1 DEF WorkerSound
<1>4. BookedOnce'
  BY <1>1, BookedFrame DEF Sound
<1> QED
  BY <1>1, <1>2, <1>3, <1>4, OutsideStep

-----------------------------------------------------------------------------
\* The inductive invariant holds, and the properties follow from it.
LEMMA CallsAreSound == CallsSpec => [](ResourceTypeOK /\ Sound)
<1>1. CallsInit => Sound
  BY DEF CallsInit, Sound, OneWorker, WorkerSound, CallSound, BookedOnce, NoCall, Resting,
         Settled, Unresolved
<1>2. ResourceTypeOK /\ Sound /\ [CallsNext]_callVars => Sound'
  <2> SUFFICES ASSUME ResourceTypeOK, Sound, [CallsNext]_callVars PROVE Sound'
    OBVIOUS
  <2>1. ASSUME NEW w \in Workers, WorkerStep(w) \/ WorkerDies(w) PROVE Sound'
    <3>1. CASE Recover(w) \/ Take(w) \/ WorkerDies(w)
      BY <3>1, RecoverSound, TakeSound, CrashSound
    <3>2. CASE \/ ClaimCall(w) \/ Invoke(w) \/ AnswerArrives(w) \/ GiveUp(w) \/ Doubt(w)
               \/ SettleCall(w) \/ Reply(w) \/ Fail(w)
      <4>1. worker[w].step \notin {"idle", "polled"}
        BY <3>2 DEF ClaimCall, Invoke, AnswerArrives, GiveUp, Doubt, SettleCall, Reply, Fail
      <4>2. PICK j \in Jobs : worker[w].job = j
        BY <4>1, OwnJob
      <4> QED
        BY <3>2, <4>2, ClaimSound, CallStep, SettleSound, EndSound
    <3> QED
      BY <2>1, <3>1, <3>2 DEF WorkerStep
  <2>2. ASSUME NEW j \in Jobs, Cancel(j) \/ Account(j) PROVE Sound'
    BY <2>2, CancelSound, AccountSound
  <2>3. ASSUME NEW j \in Jobs, NEW d \in Jobs, Reconcile(j, d) PROVE Sound'
    BY <2>3, ReconcileSound
  <2>4. ASSUME NEW c \in Costs, Renew(c) \/ (\E j \in Jobs : RecordCost(j, c))
        PROVE  Sound'
    BY <2>4, RenewSound, RecordCostSound
  <2>5. CASE Change \/ (\E j \in Jobs : Expire(j) \/ Overdue(j))
    BY <2>5, ChangeSound
  <2>6. CASE UNCHANGED callVars
    <3>1. UNCHANGED <<job, replied, call, hold, resource, request, invoked, worker>>
      BY <2>6 DEF callVars
    <3> QED
      BY <3>1, WorkerFrame, CallFrame, BookedFrame, OutsideStep DEF Sound
  <2> QED
    BY <2>1, <2>2, <2>3, <2>4, <2>5, <2>6 DEF CallsNext
<1> QED
  BY <1>1, <1>2, ResourceTypeCorrect, PTL DEF CallsSpec

\* A call is sent to the provider at most once, and the quota of a call that was
\* sent stays reserved until an account of it is booked.
THEOREM CallSentOnce == CallsSpec => []SentOnceAndKept
<1>1. ResourceTypeOK /\ Sound => SentOnceAndKept
  BY DEF Sound, CallSound, SentOnceAndKept, ResourceTypeOK, CallRecord, KeptStatus,
         Unresolved
<1> QED
  BY <1>1, CallsAreSound, PTL

\* What a chat job says of its call is what happened to it.
THEOREM JobToldTheTruth == CallsSpec => []JobTellsItsCall
<1>1. Sound => JobTellsItsCall
  BY DEF Sound, CallSound, JobTellsItsCall
<1> QED
  BY <1>1, CallsAreSound, PTL

\* A renewal leaves no call and no hold of the period before.
THEOREM PeriodClosed == CallsSpec => []PeriodIsClosed
<1>1. Sound => PeriodIsClosed
  BY DEF Sound, CallSound, PeriodIsClosed
<1> QED
  BY <1>1, CallsAreSound, PTL

\* The money held for a call follows its status, and every settled call has an
\* account of the provider to itself.
THEOREM HoldsAndAccounts == CallsSpec => [](HoldMatchesCall /\ BookedOnce)
<1>1. Sound => HoldMatchesCall /\ BookedOnce
  BY DEF Sound, CallSound, HoldMatchesCall
<1> QED
  BY <1>1, CallsAreSound, PTL

-----------------------------------------------------------------------------
(* The quota.                                                              *)

\* Whether j's use counts, and how much, stays as it was.
CountsAsBefore(j) ==
  \/ call'[j] = call[j]
  \/ /\ call[j].status \notin Settled /\ call'[j].status \notin Settled
     /\ call'[j].period \in {call[j].period, resource.period}

UseKept ==
  /\ resource'.period = resource.period /\ usage' >= usage
  /\ \A j \in Jobs : CountsAsBefore(j)

\* Calls that were not sent are cancelled.
LEMMA CancelledCount ==
  ASSUME ResourceTypeOK, NEW C, call' = Cancelled(C),
         \A j \in Jobs : j \in C => call[j].status \notin Settled
  PROVE  \A j \in Jobs : CountsAsBefore(j)
BY DEF Cancelled, ResourceTypeOK, CallRecord, Settled, CountsAsBefore

\* One call goes on, unsettled.
LEMMA StatusCounts ==
  ASSUME ResourceTypeOK, NEW i \in Jobs, NEW s \in {"dispatched", "uncertain"},
         call' = [call EXCEPT ![i].status = s], call[i].status \notin Settled
  PROVE  \A j \in Jobs : CountsAsBefore(j)
BY DEF ResourceTypeOK, CallRecord, Settled, CountsAsBefore

\* A recovery accounts for nothing.
LEMMA RecoverCounts ==
  ASSUME ResourceTypeOK, NEW w \in Workers, Recover(w)
  PROVE  UseKept
<1>1. PICK stuck : stuck = {j \in Jobs : job[j] = "running" /\ j \in overdue}
  OBVIOUS
<1>2. PICK unstarted : unstarted = {j \in stuck : call[j].status = "reserved"}
  OBVIOUS
<1>3. /\ call' = [j \in Jobs |->
           IF j \in stuck /\ call[j].status = "dispatched"
           THEN [call[j] EXCEPT !.status = "uncertain"]
           ELSE Cancelled(unstarted)[j]]
      /\ resource' = resource /\ usage' = usage
  BY <1>1, <1>2 DEF Recover
<1>4. \A j \in unstarted : call[j].status = "reserved"
  BY <1>2
<1>5. ASSUME NEW j \in Jobs PROVE CountsAsBefore(j)
  <2>1. CASE j \in stuck /\ call[j].status = "dispatched"
    BY <1>3, <2>1 DEF ResourceTypeOK, CallRecord, Settled, CountsAsBefore
  <2>2. CASE ~(j \in stuck /\ call[j].status = "dispatched")
    <3>1. call'[j] = Cancelled(unstarted)[j]
      BY <1>3, <2>2
    <3>  QED
      BY <1>4, <3>1 DEF Cancelled, ResourceTypeOK, CallRecord, Settled, CountsAsBefore
  <2>  QED  BY <2>1, <2>2
<1>6. usage' >= usage
  BY <1>3 DEF ResourceTypeOK
<1>  QED  BY <1>3, <1>5, <1>6 DEF UseKept

\* Use counts anew when an account is booked and when a period begins.
LEMMA UseMoves ==
  ASSUME ResourceTypeOK, Sound, [CallsNext]_callVars
  PROVE  \/ UseKept
         \/ \E j, d \in Jobs : Bookable(j, d) /\ Book(j, d) /\ resource' = resource
         \/ \E c \in Costs : Renew(c)
<1>1. usage \in Nat /\ usage >= usage
  BY DEF ResourceTypeOK
<1>2. ASSUME UNCHANGED <<usage, resource>>, \A j \in Jobs : CountsAsBefore(j)
      PROVE  UseKept
  BY <1>1, <1>2 DEF UseKept
<1>3. ASSUME UNCHANGED <<usage, resource, call>> PROVE UseKept
  BY <1>2, <1>3 DEF CountsAsBefore
<1>4. ASSUME NEW w \in Workers, Take(w) PROVE UseKept
  <2>1. ASSUME NEW j \in Jobs, job[j] = "queued", ReserveCall(w, j) PROVE UseKept
    <3>1. call[j].status = "none"
      BY <2>1 DEF Sound, CallSound
    <3>2. /\ call'[j].status = "reserved" /\ call'[j].period = resource.period
          /\ \A k \in Jobs \ {j} : call'[k] = call[k]
      BY <2>1 DEF ReserveCall, NoCall, ResourceTypeOK
    <3>3. \A k \in Jobs : CountsAsBefore(k)
      BY <3>1, <3>2 DEF CountsAsBefore, Settled
    <3>  QED  BY <1>2, <1>4, <3>3 DEF Take
  <2>2. CASE call' = call
    BY <1>3, <1>4, <2>2 DEF Take
  <2>  QED  BY <1>4, <2>1, <2>2 DEF Take, Refuse
<1>5. ASSUME NEW w \in Workers, ClaimCall(w) PROVE UseKept
  <2>1. worker[w].job \in Jobs
    BY <1>5, OwnJob DEF ClaimCall
  <2>2. PICK j \in Jobs : j = worker[w].job
    BY <2>1
  <2>3. \A k \in Jobs : CountsAsBefore(k)
    <3>1. CASE call[j].status = "reserved" /\ call' = [call EXCEPT ![j].status = "dispatched"]
      BY <3>1, StatusCounts DEF Settled
    <3>2. CASE call[j].status = "reserved" /\ call' = Cancelled({j})
      BY <3>2, CancelledCount DEF Settled
    <3>3. CASE call' = call
      BY <3>3 DEF CountsAsBefore
    <3>  QED  BY <1>5, <2>2, <3>1, <3>2, <3>3 DEF ClaimCall
  <2>  QED  BY <1>2, <1>5, <2>3 DEF ClaimCall
<1>6. ASSUME NEW w \in Workers, Doubt(w) PROVE UseKept
  <2>1. worker[w].job \in Jobs
    BY <1>6, OwnJob DEF Doubt
  <2>2. PICK j \in Jobs : j = worker[w].job
    BY <2>1
  <2>3. \A k \in Jobs : CountsAsBefore(k)
    <3>1. CASE /\ call[j].status = "dispatched"
               /\ call' = [call EXCEPT ![j].status = "uncertain"]
      BY <3>1, StatusCounts DEF Settled
    <3>2. CASE call' = call
      BY <3>2 DEF CountsAsBefore
    <3>  QED  BY <1>6, <2>2, <3>1, <3>2 DEF Doubt
  <2>  QED  BY <1>2, <1>6, <2>3 DEF Doubt
<1>7. ASSUME NEW w \in Workers, SettleCall(w)
      PROVE  \/ UseKept
             \/ \E j, d \in Jobs : Bookable(j, d) /\ Book(j, d) /\ resource' = resource
  <2>1. worker[w].job \in Jobs
    BY <1>7, OwnJob DEF SettleCall
  <2>2. CASE UNCHANGED <<call, usage>>
    BY <1>3, <1>7, <2>2 DEF SettleCall
  <2>3. CASE Bookable(worker[w].job, worker[w].job) /\ Book(worker[w].job, worker[w].job)
    BY <1>7, <2>1, <2>3 DEF SettleCall
  <2>  QED  BY <1>7, <2>2, <2>3 DEF SettleCall
<1>8. ASSUME NEW j \in Jobs, Cancel(j) PROVE UseKept
  BY <1>2, <1>8, CancelledCount DEF Cancel, Settled
<1>9. CASE Change
  <2>1. call' = call /\ resource'.period = resource.period
    BY <1>9 DEF Change, RotateCredential, Retire, Lapse, ResourceTypeOK, ResourceRecord
  <2>2. usage' >= usage
    BY <1>1, <1>9 DEF Change, ReportUsage
  <2>  QED  BY <2>1, <2>2 DEF UseKept, CountsAsBefore
<1>10. ASSUME NEW w \in Workers,
              Invoke(w) \/ AnswerArrives(w) \/ GiveUp(w) \/ Reply(w) \/ Fail(w) \/ WorkerDies(w)
       PROVE  UseKept
  BY <1>3, <1>10 DEF Invoke, AnswerArrives, GiveUp, Reply, Fail, WorkerDies
<1>11. ASSUME NEW j \in Jobs,
              Expire(j) \/ Overdue(j) \/ Account(j) \/ \E c \in Costs : RecordCost(j, c)
       PROVE  UseKept
  BY <1>3, <1>11 DEF Expire, Overdue, Account, RecordCost
<1>12. CASE UNCHANGED callVars
  BY <1>3, <1>12 DEF callVars
<1>13. ASSUME NEW j \in Jobs, NEW d \in Jobs, Reconcile(j, d)
       PROVE  Bookable(j, d) /\ Book(j, d) /\ resource' = resource
  BY <1>13 DEF Reconcile
<1>  QED
  BY <1>4, <1>5, <1>6, <1>7, <1>8, <1>9, <1>10, <1>11, <1>12, <1>13, RecoverCounts
  DEF CallsNext, WorkerStep

Used == [j \in Jobs |-> call[j].actual]

\* Nothing is of a later period, and the usage covers what settled calls used.
UseInv ==
  /\ \A j \in Jobs : call[j].period <= resource.period
  /\ usage >= Total(Used, SettledInPeriod)

\* What calls used can be summed up.
LEMMA UseSums ==
  ASSUME ResourceTypeOK
  PROVE  NatOn(Used, SettledInPeriod) /\ IntOn(Used, SettledInPeriod)
<1>1. SettledInPeriod \subseteq Jobs
  BY DEF SettledInPeriod
<1>2. \A j \in Jobs : Used[j] \in Nat
  BY DEF Used, ResourceTypeOK, CallRecord
<1>  QED  BY <1>1, <1>2, FS_Subset DEF NatOn, IntOn

\* What no call used anew is still covered.
LEMMA UseKeptCovered ==
  ASSUME ResourceTypeOK, ResourceTypeOK', UseInv, UseKept
  PROVE  UseInv'
<1>1. SettledInPeriod' = SettledInPeriod
  BY DEF SettledInPeriod, UseKept, CountsAsBefore
<1>2. \A j \in SettledInPeriod : Used[j] = Used'[j]
  BY DEF SettledInPeriod, UseKept, CountsAsBefore, Used
<1>3. IntOn(Used, SettledInPeriod)
  BY UseSums
<1>4. Total(Used, SettledInPeriod) = Total(Used', SettledInPeriod)
  BY <1>2, <1>3, TotalSame
<1>5. usage \in Int /\ usage' \in Int /\ Total(Used, SettledInPeriod) \in Int
  BY <1>3, TotalInt DEF ResourceTypeOK
<1>6. usage' >= Total(Used, SettledInPeriod)
  BY <1>5 DEF UseInv, UseKept
<1>7. \A j \in Jobs : call'[j].period <= resource'.period
  <2>1. resource.period \in Nat
    BY DEF ResourceTypeOK, ResourceRecord
  <2>  QED  BY <2>1 DEF UseKept, CountsAsBefore, UseInv
<1>  QED  BY <1>1, <1>4, <1>6, <1>7 DEF UseInv

\* A booking raises usage by what the call used, if not before.
LEMMA BookCovered ==
  ASSUME ResourceTypeOK, ResourceTypeOK', UseInv, NEW j \in Jobs, NEW d \in Jobs,
         Bookable(j, d), Book(j, d), resource' = resource
  PROVE  UseInv'
<1>  PICK n \in Nat : n = request[d].units
  BY DEF ResourceTypeOK, RequestRecord
<1>1. /\ call'[j].actual = n /\ call'[j].period = call[j].period
      /\ \A k \in Jobs \ {j} : call'[k] = call[k]
  BY DEF Book, ResourceTypeOK, CallRecord
<1>2. j \notin SettledInPeriod
  BY DEF Bookable, SettledInPeriod, Settled
<1>3. SettledInPeriod \ {j} = SettledInPeriod' \ {j}
  BY <1>1 DEF SettledInPeriod
<1>4. \A k \in SettledInPeriod \ {j} : Used[k] = Used'[k]
  BY <1>1 DEF Used, SettledInPeriod
<1>5. IntOn(Used, SettledInPeriod)
  BY UseSums
<1>6. IntOn(Used', SettledInPeriod')
  <2>1. SettledInPeriod' \subseteq Jobs
    BY DEF SettledInPeriod
  <2>2. \A k \in Jobs : Used'[k] \in Int
    BY DEF Used, ResourceTypeOK, CallRecord
  <2>  QED  BY <2>1, <2>2, FS_Subset DEF IntOn
<1>7. Total(Used', SettledInPeriod')
        = Total(Used, SettledInPeriod) - At(Used, SettledInPeriod, j)
            + At(Used', SettledInPeriod', j)
  BY <1>3, <1>4, <1>5, <1>6, TotalStep
<1>8. At(Used, SettledInPeriod, j) = 0 /\ At(Used', SettledInPeriod', j) <= n
      /\ At(Used', SettledInPeriod', j) \in Int
  BY <1>1, <1>2 DEF At, Used
<1>9. usage' = usage + n /\ usage \in Nat /\ Total(Used, SettledInPeriod) \in Int
  BY <1>5, TotalInt DEF Book, ResourceTypeOK
<1>10. usage' >= Total(Used', SettledInPeriod')
  BY <1>7, <1>8, <1>9 DEF UseInv
<1>11. \A k \in Jobs : call'[k].period <= resource'.period
  BY <1>1 DEF UseInv
<1>  QED  BY <1>10, <1>11 DEF UseInv

\* A new period begins with nothing used.
LEMMA RenewCovered ==
  ASSUME ResourceTypeOK, UseInv, NEW c \in Costs, Renew(c)
  PROVE  UseInv'
<1>1. /\ call' = call /\ usage' = 0 /\ resource'.period = resource.period + 1
      /\ resource.period \in Nat /\ \A j \in Jobs : call[j].period \in Nat
  BY DEF Renew, ResourceTypeOK, ResourceRecord, CallRecord
<1>2. SettledInPeriod' = {}
  BY <1>1 DEF SettledInPeriod, UseInv
<1>3. Total(Used', {}) = 0
  BY TotalEmpty
<1>4. \A j \in Jobs : call'[j].period <= resource'.period
  BY <1>1 DEF UseInv
<1>  QED  BY <1>1, <1>2, <1>3, <1>4 DEF UseInv

\* Whichever of the worker, its recovery and the owner books the account of a
\* call, and whatever the provider reports in between, the usage of the period
\* is at least what its calls used; and every account is booked for one call.
THEOREM UsageCovered == CallsSpec => []UsageCoversCalls
<1>1. CallsInit => UseInv
  <2>  SUFFICES ASSUME CallsInit PROVE UseInv
    OBVIOUS
  <2>1. SettledInPeriod = {} /\ \A j \in Jobs : call[j].period <= resource.period
    BY DEF CallsInit, SettledInPeriod, NoCall, Settled
  <2>2. Total(Used, {}) = 0
    BY TotalEmpty
  <2>  QED  BY <2>1, <2>2 DEF UseInv, CallsInit
<1>2. ResourceTypeOK /\ ResourceTypeOK' /\ Sound /\ UseInv /\ [CallsNext]_callVars => UseInv'
  BY UseMoves, UseKeptCovered, BookCovered, RenewCovered
<1>3. Sound /\ UseInv => UsageCoversCalls
  BY DEF Sound, UseInv, UsageCoversCalls, Used
<1>  QED  BY <1>1, <1>2, <1>3, CallsAreSound, PTL DEF CallsSpec

-----------------------------------------------------------------------------
(* The holds.                                                              *)

\* Holds may only end; nothing is spent.
HoldsFall ==
  /\ \A j \in Jobs : hold'[j] = "held" => hold[j] = "held"
  /\ balance' = balance /\ spent' = spent /\ daily' \in {daily, 0}

\* j's cost is held, within what the agent may spend.
HoldTaken(j) ==
  /\ InBudget(j) /\ hold[j] # "held" /\ hold'[j] = "held"
  /\ \A k \in Jobs \ {j} : hold'[k] = hold[k]
  /\ UNCHANGED walletVars

\* Something is spent, while the calls of S keep their holds.
SpentBeside(n, S) ==
  /\ CanDebit(n, HeldBy(S)) /\ Debit(n) /\ budget' = budget
  /\ \A j \in Jobs : hold'[j] = "held" <=> j \in S /\ hold[j] = "held"

\* What a step may do to the holds: let them fall, take one, spend beside them.
LEMMA CallHoldMoves ==
  ASSUME ResourceTypeOK, Sound, [CallsNext]_callVars
  PROVE  \/ HoldsFall
         \/ \E j \in Jobs : HoldTaken(j)
         \/ \E n \in Costs : \E S \in SUBSET Jobs : SpentBeside(n, S)
<1>1. ASSUME hold' = hold, UNCHANGED <<balance, spent>>, daily' \in {daily, 0}
      PROVE  HoldsFall
  BY <1>1 DEF HoldsFall
<1>2. ASSUME NEW C, hold' = Released(C), UNCHANGED walletVars PROVE HoldsFall
  <2>1. \A j \in Jobs : hold'[j] = "held" => hold[j] = "held"
    BY <1>2 DEF Released
  <2>  QED  BY <1>2, <2>1 DEF HoldsFall, walletVars
<1>3. ASSUME NEW w \in Workers, Recover(w) PROVE HoldsFall
  BY <1>2, <1>3 DEF Recover
<1>4. ASSUME NEW w \in Workers, Take(w) PROVE HoldsFall \/ \E j \in Jobs : HoldTaken(j)
  <2>0. UNCHANGED walletVars
    BY <1>4 DEF Take
  <2>1. ASSUME NEW j \in Jobs, job[j] = "queued", ReserveCall(w, j), InBudget(j)
        PROVE  HoldTaken(j)
    <3>1. hold[j] # "held"
      BY <2>1 DEF Sound, CallSound
    <3>2. hold'[j] = "held" /\ \A k \in Jobs \ {j} : hold'[k] = hold[k]
      BY <2>1 DEF ReserveCall, ResourceTypeOK
    <3>  QED  BY <2>0, <2>1, <3>1, <3>2 DEF HoldTaken
  <2>2. ASSUME hold' = hold PROVE HoldsFall
    BY <1>1, <2>0, <2>2 DEF walletVars
  <2>  QED  BY <1>4, <2>1, <2>2 DEF Take, Refuse
<1>5. ASSUME NEW w \in Workers, ClaimCall(w) PROVE HoldsFall
  <2>1. UNCHANGED walletVars /\ (hold' = hold \/ hold' = Released({worker[w].job}))
    BY <1>5 DEF ClaimCall
  <2>  QED  BY <1>1, <1>2, <2>1 DEF walletVars
<1>6. ASSUME NEW j \in Jobs, Cancel(j) PROVE HoldsFall
  BY <1>2, <1>6 DEF Cancel
<1>7. ASSUME NEW w \in Workers,
             \/ Invoke(w) \/ AnswerArrives(w) \/ GiveUp(w) \/ Doubt(w) \/ SettleCall(w)
             \/ Reply(w) \/ Fail(w) \/ WorkerDies(w)
      PROVE  HoldsFall
  BY <1>1, <1>7 DEF Invoke, AnswerArrives, GiveUp, Doubt, SettleCall, Reply, Fail, WorkerDies, walletVars
<1>8. ASSUME NEW j \in Jobs,
             Expire(j) \/ Overdue(j) \/ Account(j) \/ \E d \in Jobs : Reconcile(j, d)
      PROVE  HoldsFall
  BY <1>1, <1>8 DEF Expire, Overdue, Account, Reconcile, walletVars
<1>9. ASSUME Debit(0), \A j \in Jobs : hold'[j] = "held" => hold[j] = "held"
      PROVE  HoldsFall
  BY <1>9 DEF Debit, HoldsFall, ResourceTypeOK
<1>10. ASSUME NEW j \in Jobs, NEW c \in Costs, RecordCost(j, c)
       PROVE  HoldsFall \/ \E S \in SUBSET Jobs : SpentBeside(c, S)
  <2>1. /\ Debit(c) /\ budget' = budget /\ hold[j] = "held" /\ hold'[j] = "recorded"
        /\ \A k \in Jobs \ {j} : hold'[k] = hold[k]
    BY <1>10 DEF RecordCost, ResourceTypeOK
  <2>2. CASE c = 0
    <3>1. Debit(0)
      BY <2>1, <2>2
    <3>2. \A k \in Jobs : hold'[k] = "held" => hold[k] = "held"
      BY <2>1
    <3>3. HoldsFall
      BY <1>9, <3>1, <3>2
    <3>  QED  BY <3>3
  <2>3. CASE c # 0
    <3>1. CanDebit(c, HeldBy(Jobs \ {j}))
      <4>1. c \in Nat
        OBVIOUS
      <4>2. c > 0
        BY <2>3, <4>1
      <4>  QED  BY <1>10, <4>2 DEF RecordCost
    <3>2. \A k \in Jobs : hold'[k] = "held" <=> k \in Jobs \ {j} /\ hold[k] = "held"
      BY <2>1
    <3>3. SpentBeside(c, Jobs \ {j})
      BY <2>1, <3>1, <3>2 DEF SpentBeside
    <3>4. \E S \in SUBSET Jobs : SpentBeside(c, S)
      <4>  WITNESS Jobs \ {j} \in SUBSET Jobs
      <4>  QED  BY <3>3
    <3>  QED  BY <3>4
  <2>  QED  BY <2>2, <2>3
<1>11. ASSUME NEW c \in Costs, Debit(c), budget' = budget, hold' = hold,
              c > 0 => CanDebit(c, HeldBy(Jobs))
       PROVE  HoldsFall \/ \E S \in SUBSET Jobs : SpentBeside(c, S)
  <2>1. CASE c = 0
    <3>1. Debit(0) /\ \A k \in Jobs : hold'[k] = "held" => hold[k] = "held"
      BY <1>11, <2>1
    <3>2. HoldsFall
      BY <1>9, <3>1
    <3>  QED  BY <3>2
  <2>2. CASE c # 0
    <3>1. SpentBeside(c, Jobs)
      <4>1. c \in Nat
        OBVIOUS
      <4>2. c > 0
        BY <2>2, <4>1
      <4>  QED  BY <1>11, <4>2 DEF SpentBeside
    <3>2. \E S \in SUBSET Jobs : SpentBeside(c, S)
      <4>  WITNESS Jobs \in SUBSET Jobs
      <4>  QED  BY <3>1
    <3>  QED  BY <3>2
  <2>  QED  BY <2>1, <2>2
<1>12. ASSUME NEW c \in Costs, Renew(c)
       PROVE  HoldsFall \/ \E S \in SUBSET Jobs : SpentBeside(c, S)
  BY <1>11, <1>12 DEF Renew
<1>13. CASE Change
  <2>1. hold' = hold
    BY <1>13 DEF Change
  <2>2. ASSUME NEW c \in Costs, Spend(c), budget' = budget
        PROVE  HoldsFall \/ \E S \in SUBSET Jobs : SpentBeside(c, S)
    BY <1>11, <2>1, <2>2 DEF Spend
  <2>3. \/ UNCHANGED <<balance, spent>> /\ daily' \in {daily, 0}
        \/ \E c \in Costs : Spend(c) /\ budget' = budget
    BY <1>13 DEF Change, NewDay, SetWalletBudget, walletVars
  <2>  QED  BY <1>1, <2>1, <2>2, <2>3
<1>14. CASE UNCHANGED callVars
  BY <1>1, <1>14 DEF callVars, walletVars
<1>  QED
  BY <1>3, <1>4, <1>5, <1>6, <1>7, <1>8, <1>10, <1>12, <1>13, <1>14 DEF CallsNext, WorkerStep

HoldersOf(S) == {k \in S : hold[k] = "held"}

\* What is held is a natural number, and so is what may cost a call.
LEMMA HeldSums ==
  ASSUME NEW S, S \subseteq Jobs
  PROVE  NatOn(CallCost, S) /\ IntOn(CallCost, S) /\ Total(CallCost, S) \in Nat
<1>1. NatOn(CallCost, S) /\ IntOn(CallCost, S)
  BY FS_Subset DEF NatOn, IntOn
<1>  QED  BY <1>1, TotalNat

\* What S holds is part of what more calls hold.
LEMMA HeldLess ==
  ASSUME HoldersOf(Jobs)' \subseteq HoldersOf(Jobs)
  PROVE  HeldBy(Jobs)' <= HeldBy(Jobs) /\ HeldBy(Jobs) \in Nat /\ HeldBy(Jobs)' \in Nat
<1>1. PICK H : H = HoldersOf(Jobs)
  OBVIOUS
<1>2. PICK G : G = HoldersOf(Jobs)'
  OBVIOUS
<1>3. H \subseteq Jobs /\ G \subseteq Jobs /\ G \subseteq H
  BY <1>1, <1>2 DEF HoldersOf
<1>4. HeldBy(Jobs) = Total(CallCost, H) /\ HeldBy(Jobs)' = Total(CallCost, G)
  BY <1>1, <1>2 DEF HeldBy, HoldersOf
<1>5. Total(CallCost, G) <= Total(CallCost, H)
  BY <1>3, HeldSums, TotalSubset
<1>  QED  BY <1>3, <1>4, <1>5, HeldSums

\* A call's hold adds its cost to what the others hold.
LEMMA HeldWith ==
  ASSUME NEW j \in Jobs, HoldTaken(j)
  PROVE  /\ HeldBy(Jobs)' = HeldBy(Jobs \ {j}) + CallCost[j]
         /\ HeldBy(Jobs \ {j}) \in Nat /\ CallCost[j] \in Nat
<1>1. PICK H : H = HoldersOf(Jobs \ {j})
  OBVIOUS
<1>2. PICK G : G = HoldersOf(Jobs)'
  OBVIOUS
<1>3. G \subseteq Jobs /\ H \subseteq Jobs /\ j \in G /\ G \ {j} = H
  BY <1>1, <1>2 DEF HoldersOf, HoldTaken
<1>4. HeldBy(Jobs \ {j}) = Total(CallCost, H) /\ HeldBy(Jobs)' = Total(CallCost, G)
  BY <1>1, <1>2 DEF HeldBy, HoldersOf
<1>5. Total(CallCost, G) = CallCost[j] + Total(CallCost, G \ {j})
  BY <1>3, HeldSums, TotalSplit
<1>  QED  BY <1>3, <1>4, <1>5, HeldSums

\* Spending leaves the calls of S with their holds.
LEMMA HeldBeside ==
  ASSUME NEW n, NEW S, S \subseteq Jobs, SpentBeside(n, S)
  PROVE  HeldBy(Jobs)' = HeldBy(S) /\ HeldBy(S) \in Nat
<1>1. PICK H : H = HoldersOf(S)
  OBVIOUS
<1>2. HoldersOf(Jobs)' = H /\ H \subseteq Jobs
  BY <1>1 DEF HoldersOf, SpentBeside
<1>3. HeldBy(S) = Total(CallCost, H) /\ HeldBy(Jobs)' = Total(CallCost, H)
  BY <1>1, <1>2 DEF HeldBy, HoldersOf
<1>  QED  BY <1>2, <1>3, HeldSums

\* What is held is in the wallet.
HeldInWallet == HeldBy(Jobs) <= balance

\* Whatever is reserved, spent, recorded, given back or renewed, the wallet has
\* what it holds for calls; and the hold of a call is what the call's status says.
THEOREM HoldsFollowCalls == CallsSpec => []HoldFollowsCall
<1>1. CallsInit => HeldInWallet
  <2>  SUFFICES ASSUME CallsInit PROVE HeldInWallet
    OBVIOUS
  <2>1. HeldBy(Jobs) = Total(CallCost, {})
    BY DEF CallsInit, HeldBy
  <2>2. Total(CallCost, {}) = 0
    BY TotalEmpty
  <2>  QED  BY <2>1, <2>2 DEF HeldInWallet, CallsInit
<1>2. ResourceTypeOK /\ ResourceTypeOK' /\ Sound /\ HeldInWallet /\ [CallsNext]_callVars
      => HeldInWallet'
  <2>  SUFFICES ASSUME ResourceTypeOK, ResourceTypeOK', Sound, HeldInWallet, [CallsNext]_callVars
                PROVE  HeldInWallet'
    OBVIOUS
  <2>0. balance \in Nat /\ balance' \in Nat
    BY DEF ResourceTypeOK
  <2>1. ASSUME HoldsFall PROVE HeldInWallet'
    <3>1. HoldersOf(Jobs)' \subseteq HoldersOf(Jobs)
      BY <2>1 DEF HoldsFall, HoldersOf
    <3>2. HeldBy(Jobs)' <= HeldBy(Jobs) /\ HeldBy(Jobs) \in Nat /\ HeldBy(Jobs)' \in Nat
      BY <3>1, HeldLess
    <3>  QED  BY <2>0, <2>1, <3>2 DEF HeldInWallet, HoldsFall
  <2>2. ASSUME NEW j \in Jobs, HoldTaken(j) PROVE HeldInWallet'
    <3>1. /\ HeldBy(Jobs)' = HeldBy(Jobs \ {j}) + CallCost[j]
          /\ HeldBy(Jobs \ {j}) \in Nat /\ CallCost[j] \in Nat
      BY <2>2, HeldWith
    <3>2. balance >= HeldBy(Jobs \ {j}) + CallCost[j] /\ balance' = balance
      BY <2>2 DEF HoldTaken, InBudget, CanAgentSpend, walletVars
    <3>  QED  BY <2>0, <3>1, <3>2 DEF HeldInWallet
  <2>3. ASSUME NEW n \in Costs, NEW S \in SUBSET Jobs, SpentBeside(n, S)
        PROVE  HeldInWallet'
    <3>1. HeldBy(Jobs)' = HeldBy(S) /\ HeldBy(S) \in Nat
      BY <2>3, HeldBeside
    <3>2. balance - n >= HeldBy(S) /\ balance' = balance - n
      BY <2>3 DEF SpentBeside, CanDebit, Debit
    <3>  QED  BY <3>1, <3>2 DEF HeldInWallet
  <2>  QED  BY <2>1, <2>2, <2>3, CallHoldMoves
<1>3. Sound /\ HeldInWallet => HoldFollowsCall
  BY DEF Sound, CallSound, HoldMatchesCall, HeldInWallet, HoldFollowsCall
<1>  QED  BY <1>1, <1>2, <1>3, CallsAreSound, PTL DEF CallsSpec

\* No step but the owner's change of the budget takes what is spent and held
\* over the budget or over the limit of the day, while calls hold money: an
\* expense, a renewal, a new call and a cost above its estimate all stop there.
THEOREM CapsAreKept == CallsSpec => CapsHold
<1>1. ResourceTypeOK /\ ResourceTypeOK' /\ Sound /\ [CallsNext]_callVars
      => [WithinCaps /\ budget' = budget => WithinCaps']_callVars
  <2>  SUFFICES ASSUME ResourceTypeOK, ResourceTypeOK', Sound, [CallsNext]_callVars,
                       WithinCaps, budget' = budget, HeldBy(Jobs)' > 0
                PROVE  /\ budget > 0 => spent' + HeldBy(Jobs)' <= budget
                       /\ daily' + HeldBy(Jobs)' <= DayLimit
    BY DEF WithinCaps
  <2>0. spent \in Nat /\ daily \in Nat /\ budget \in Nat /\ balance \in Nat
    BY DEF ResourceTypeOK
  <2>1. CASE HoldsFall
    <3>1. HoldersOf(Jobs)' \subseteq HoldersOf(Jobs)
      BY <2>1 DEF HoldsFall, HoldersOf
    <3>2. HeldBy(Jobs)' <= HeldBy(Jobs) /\ HeldBy(Jobs) \in Nat /\ HeldBy(Jobs)' \in Nat
      BY <3>1, HeldLess
    <3>3. /\ budget > 0 => spent + HeldBy(Jobs) <= budget
          /\ daily + HeldBy(Jobs) <= DayLimit
      BY <3>2 DEF WithinCaps
    <3>4. spent' = spent /\ daily' <= daily /\ daily' \in Nat
      BY <2>0, <2>1 DEF HoldsFall
    <3>  QED  BY <2>0, <3>2, <3>3, <3>4
  <2>2. ASSUME NEW j \in Jobs, HoldTaken(j)
        PROVE  /\ budget > 0 => spent' + HeldBy(Jobs)' <= budget
               /\ daily' + HeldBy(Jobs)' <= DayLimit
    <3>1. /\ HeldBy(Jobs)' = HeldBy(Jobs \ {j}) + CallCost[j]
          /\ HeldBy(Jobs \ {j}) \in Nat /\ CallCost[j] \in Nat
      BY <2>2, HeldWith
    <3>2. /\ budget > 0 => spent + HeldBy(Jobs \ {j}) + CallCost[j] <= budget
          /\ daily + HeldBy(Jobs \ {j}) + CallCost[j] <= DayLimit
          /\ spent' = spent /\ daily' = daily
      BY <2>2 DEF HoldTaken, InBudget, CanAgentSpend, walletVars
    <3>  QED  BY <2>0, <3>1, <3>2
  <2>3. ASSUME NEW n \in Costs, NEW S \in SUBSET Jobs, SpentBeside(n, S)
        PROVE  /\ budget > 0 => spent' + HeldBy(Jobs)' <= budget
               /\ daily' + HeldBy(Jobs)' <= DayLimit
    <3>1. HeldBy(Jobs)' = HeldBy(S) /\ HeldBy(S) \in Nat
      BY <2>3, HeldBeside
    <3>2. /\ HeldBy(S) > 0 => /\ budget > 0 => spent + n + HeldBy(S) <= budget
                              /\ daily + n + HeldBy(S) <= DayLimit
          /\ spent' = spent + n /\ daily' = daily + n
      BY <2>3 DEF SpentBeside, CanDebit, Debit
    <3>3. n \in Nat
      OBVIOUS
    <3>  QED  BY <2>0, <3>1, <3>2, <3>3
  <2>  QED  BY <2>1, <2>2, <2>3, CallHoldMoves
<1>  QED  BY <1>1, CallsAreSound, PTL DEF CallsSpec, CapsHold
=============================================================================
