---------------------------- MODULE EconomyProofs ----------------------------
(***************************************************************************)
(* Autonomous work and the treasury it pays into.                          *)
(*                                                                         *)
(* Work: an execution that reconciliation did not take from a live runner  *)
(* is worked on by one runner at a time, stays final, is delivered once    *)
(* and is the only live one of its opportunity, and the cost of every      *)
(* answer is booked, also for an execution that was taken over.            *)
(*                                                                         *)
(* Treasury: what is decided about an agent's surplus was earned by it,    *)
(* settlements and resources come out of realized revenue, entries and     *)
(* rows agree, and decisions are final.                                    *)
(***************************************************************************)
EXTENDS WorkExecution, EconomyTreasury, TotalsProofs

\* What holds of one execution: also which attempt its runner remembers, for
\* the catch of a run decides by it whether there is another one.
Owned(e) ==
  /\ \A r, q \in Runners : Works(r, e) /\ Works(q, e) => r = q
  /\ \A r \in Runners : Works(r, e) =>
       /\ execution[e].status = "running"
       /\ execution[e].attempts = runner[r].snapshot.attempts + 1
       /\ runner[r].snapshot.attempts < MaxAttempts
  /\ execution[e].attempts <= MaxAttempts
  /\ execution[e].status = "authorized" => execution[e].attempts < MaxAttempts
  /\ delivered[e] = IF execution[e].status = "completed" THEN 1 ELSE 0

AllOwned == \A e \in Executions \ doubled : Owned(e)

WorkInv == WorkTypeOK /\ AllOwned /\ OneLiveExecution

-----------------------------------------------------------------------------
(* What a step may do to one execution, and to one opportunity.            *)

RunsKept(e) ==
  \A r \in Runners : Works(r, e)' =>
    Works(r, e) /\ runner'[r].snapshot = runner[r].snapshot

Kept(e) ==
  /\ execution'[e].status = execution[e].status
  /\ execution'[e].attempts = execution[e].attempts
  /\ delivered'[e] = delivered[e]
  /\ RunsKept(e)

Started(e) ==
  /\ e \in NextRound(e[1]) /\ ~HasLive(e[1])
  /\ execution'[e].status = "authorized" /\ execution'[e].attempts = 0
  /\ delivered'[e] = delivered[e]
  /\ RunsKept(e)

Closed(e) ==
  /\ execution[e].status \in Live
  /\ execution'[e].attempts = execution[e].attempts
  /\ \A r \in Runners : ~Works(r, e)'
  /\ \/ /\ execution'[e].status \in Final \ {"completed"}
        /\ delivered'[e] = delivered[e]
     \/ /\ execution'[e].status = "authorized"
        /\ execution[e].attempts < MaxAttempts
        /\ delivered'[e] = delivered[e]
     \/ /\ execution'[e].status = "completed"
        /\ delivered'[e] = delivered[e] + 1

Begun(e) ==
  /\ execution[e].status = "authorized" /\ execution'[e].status = "running"
  /\ execution'[e].attempts = execution[e].attempts + 1
  /\ delivered'[e] = delivered[e]
  /\ \E r \in Runners :
       /\ runner'[r].snapshot.attempts = execution[e].attempts
       /\ \A q \in Runners : Works(q, e)' => q = r

Move(e) == Kept(e) \/ Started(e) \/ Closed(e) \/ Begun(e)

\* Who leaves an opportunity executing leaves it a live execution.
LeavesLive(o) ==
  opportunity'[o] = "executing" /\ crashes' = 0 =>
    /\ crashes = 0
    /\ \/ /\ opportunity[o] = "executing"
          /\ \A e \in Of(o) : execution[e].status \in Live =>
                              execution'[e].status \in Live
       \/ \E e \in Of(o) : execution'[e].status \in Live

-----------------------------------------------------------------------------
(* The parts the actions are made of.                                      *)

USE DEF Executions, Runners

LEMMA UnstartedType == Unstarted \in ExecutionRecord
<1>1. (CHOOSE a \in Agents : TRUE) \in Agents  BY WorkAssumption
<1>  QED  BY <1>1 DEF Unstarted, ExecutionRecord, Live, Final

LEMMA IdleType == Idle \in RunnerRecord /\ Idle.run = {} /\ Idle.step = "idle"
BY UnstartedType DEF Idle, RunnerRecord

\* Of an opportunity there is one next round.
LEMMA OneNextRound ==
  ASSUME NEW o \in Opportunities, NEW e \in NextRound(o), NEW f \in NextRound(o)
  PROVE  e = f
<1>1. /\ e \in Executions /\ f \in Executions /\ e[1] = o /\ f[1] = o
      /\ execution[e].status = "none" /\ execution[f].status = "none"
  BY DEF NextRound, Of, Status
<1>2. ~(f[2] < e[2]) /\ ~(e[2] < f[2])
  BY <1>1 DEF NextRound, Of, Status
<1>3. e[2] \in Int /\ f[2] \in Int
  BY <1>1, WorkAssumption
<1>4. e[2] = f[2]  BY <1>2, <1>3
<1>  QED  BY <1>1, <1>4

\* What a start does to one execution.
LEMMA StartAllOne ==
  ASSUME NEW S, StartAll(S), NEW e \in Executions
  PROVE  \/ /\ e[1] \in S /\ e \in NextRound(e[1])
            /\ execution'[e] \in ExecutionRecord
            /\ execution'[e].status = "authorized" /\ execution'[e].attempts = 0
            /\ execution'[e].cost = 0
         \/ /\ ~(e[1] \in S /\ e \in NextRound(e[1]))
            /\ execution'[e] = execution[e]
<1>1. CASE e[1] \in S /\ e \in NextRound(e[1])
  <2>1. PICK a \in Agents : execution'[e] =
               [Unstarted EXCEPT !.status = "authorized", !.agent = a]
    BY <1>1 DEF StartAll
  <2>2. execution'[e] \in ExecutionRecord
    BY <2>1, UnstartedType DEF ExecutionRecord, Live
  <2>3. /\ execution'[e].status = "authorized" /\ execution'[e].attempts = 0
        /\ execution'[e].cost = 0
    BY <2>1 DEF Unstarted
  <2>  QED  BY <1>1, <2>2, <2>3
<1>2. CASE ~(e[1] \in S /\ e \in NextRound(e[1]))
  BY <1>2 DEF StartAll
<1>  QED  BY <1>1, <1>2

LEMMA StartAllType ==
  ASSUME WorkTypeOK, NEW S, StartAll(S)
  PROVE  execution' \in [Executions -> ExecutionRecord]
<1>1. \A e \in Executions : execution'[e] \in ExecutionRecord
  BY StartAllOne DEF WorkTypeOK
<1>2. execution' = [e \in Executions |-> execution'[e]]
  BY DEF StartAll
<1>  QED  BY <1>1, <1>2

LEMMA StartAllMove ==
  ASSUME WorkTypeOK, NEW S, StartAll(S), \A o \in S : CanStart(o),
         NEW e \in Executions, UNCHANGED delivered, RunsKept(e)
  PROVE  Kept(e) \/ Started(e)
<1>1. CASE e[1] \in S /\ e \in NextRound(e[1])
  <2>1. execution'[e].status = "authorized" /\ execution'[e].attempts = 0
    BY <1>1, StartAllOne
  <2>  QED  BY <1>1, <2>1 DEF Started, CanStart
<1>2. CASE ~(e[1] \in S /\ e \in NextRound(e[1]))
  <2>1. execution'[e] = execution[e]  BY <1>2, StartAllOne
  <2>  QED  BY <2>1 DEF Kept
<1>  QED  BY <1>1, <1>2

\* What an opportunity that is started has then.
LEMMA StartAllLive ==
  ASSUME NEW S, StartAll(S), NEW o \in S, CanStart(o)
  PROVE  \E e \in Of(o) : execution'[e].status \in Live
<1>1. PICK e \in NextRound(o) : TRUE  BY DEF CanStart
<1>2. e \in Of(o) /\ e \in Executions /\ e[1] = o  BY <1>1 DEF NextRound, Of
<1>3. execution'[e].status = "authorized"
  BY <1>1, <1>2, StartAllOne
<1>  QED  BY <1>2, <1>3 DEF Live

\* A start touches no live execution.
LEMMA StartAllKeepsLive ==
  ASSUME NEW S, StartAll(S), NEW e \in Executions, execution[e].status \in Live
  PROVE  execution'[e].status \in Live
<1>1. e \notin NextRound(e[1])  BY DEF NextRound, Status, Live
<1>  QED  BY <1>1, StartAllOne

-----------------------------------------------------------------------------
(* Where the runners are after a step.                                     *)

RunnersOK ==
  /\ runner \in [Runners -> RunnerRecord]
  /\ \A r \in Runners :
       runner[r].run # {} <=> runner[r].step \in {"tools", "model"}

\* No runner takes an execution that it does not have.
RunsEnd == RunnersOK' /\ \A e \in Executions : RunsKept(e)

LEMMA RunsStay ==
  ASSUME WorkTypeOK, UNCHANGED runner
  PROVE  RunsEnd
BY DEF RunsEnd, RunnersOK, RunsKept, Works, WorkTypeOK

LEMMA AllEnd ==
  ASSUME runner' = AllIdle
  PROVE  RunsEnd /\ \A r \in Runners, e \in Executions : ~Works(r, e)'
BY IdleType DEF RunsEnd, RunnersOK, RunsKept, Works, AllIdle

\* One runner goes to x.
MovesTo(r, x) ==
  /\ x \in RunnerRecord
  /\ x.run # {} <=> x.step \in {"tools", "model"}
  /\ runner' = [runner EXCEPT ![r] = x]

LEMMA OneMoves ==
  ASSUME WorkTypeOK, NEW r \in Runners, NEW x, MovesTo(r, x)
  PROVE  /\ RunnersOK' /\ runner'[r] = x
         /\ \A q \in Runners \ {r} : runner'[q] = runner[q]
<1>1. /\ runner \in [Runners -> RunnerRecord]
      /\ \A q \in Runners : runner[q].run # {} <=> runner[q].step \in {"tools", "model"}
  BY DEF WorkTypeOK
<1>2. runner'[r] = x /\ \A q \in Runners \ {r} : runner'[q] = runner[q]
  BY <1>1 DEF MovesTo
<1>3. runner' \in [Runners -> RunnerRecord]
  BY <1>1 DEF MovesTo
<1>4. \A q \in Runners : runner'[q].run # {} <=> runner'[q].step \in {"tools", "model"}
  BY <1>1, <1>2 DEF MovesTo
<1>  QED  BY <1>2, <1>3, <1>4 DEF RunnersOK

\* It has no run there, or the one it had.
TakesNone(r, x) ==
  x.run # {} => x.run = runner[r].run /\ x.snapshot = runner[r].snapshot

LEMMA OneEnds ==
  ASSUME WorkTypeOK, NEW r \in Runners, NEW x, MovesTo(r, x), TakesNone(r, x)
  PROVE  RunsEnd
BY OneMoves DEF RunsEnd, RunsKept, Works, TakesNone

LEMMA IdleEnds ==
  ASSUME WorkTypeOK, NEW s \in Runners, runner' = [runner EXCEPT ![s] = Idle]
  PROVE  RunsEnd
<1>1. MovesTo(s, Idle)  BY IdleType DEF MovesTo
<1>2. TakesNone(s, Idle)  BY IdleType DEF TakesNone
<1>3. PICK y : MovesTo(s, y) /\ TakesNone(s, y)  BY <1>1, <1>2
<1>  QED  BY <1>3, OneEnds

LEMMA TickBegins ==
  ASSUME WorkTypeOK, NEW s \in Runners, runner[s].step = "idle",
         runner' = [runner EXCEPT ![s].step = "ticking"]
  PROVE  RunsEnd
<1>  DEFINE x == [runner[s] EXCEPT !.step = "ticking"]
<1>1. runner[s] \in RunnerRecord /\ runner[s].run = {}
  BY DEF WorkTypeOK
<1>2. MovesTo(s, x) /\ TakesNone(s, x)
  BY <1>1 DEF MovesTo, RunnerRecord, TakesNone
<1>  HIDE DEF x
<1>3. PICK y : MovesTo(s, y) /\ TakesNone(s, y)  BY <1>2
<1>  QED  BY <1>3, OneEnds

LEMMA TickGoesOn ==
  ASSUME WorkTypeOK, NEW s \in Runners, runner[s].step = "ticking",
         NEW due \in SUBSET Executions,
         runner' = [runner EXCEPT ![s].step = "between", ![s].due = due]
  PROVE  RunsEnd
<1>  DEFINE x == [runner[s] EXCEPT !.step = "between", !.due = due]
<1>1. runner[s] \in RunnerRecord /\ runner[s].run = {}
  BY DEF WorkTypeOK
<1>2. MovesTo(s, x) /\ TakesNone(s, x)
  BY <1>1 DEF MovesTo, RunnerRecord, WorkTypeOK, TakesNone
<1>  HIDE DEF x
<1>3. PICK y : MovesTo(s, y) /\ TakesNone(s, y)  BY <1>2
<1>  QED  BY <1>3, OneEnds

LEMMA ReturnEnds ==
  ASSUME WorkTypeOK, NEW r \in Runners, NEW e \in Executions, Return(r, e)
  PROVE  RunsEnd /\ \A q \in Runners, f \in Executions :
                       Works(q, f)' => Works(q, f) /\ q # r
<1>  DEFINE x == IF r \in Schedulers
                 THEN [Idle EXCEPT !.step = "between", !.due = runner[r].due \ {e}]
                 ELSE Idle
<1>1. runner[r].due \in SUBSET Executions  BY DEF WorkTypeOK, RunnerRecord
<1>2. x \in RunnerRecord /\ x.run = {} /\ x.step \notin {"tools", "model"}
  BY <1>1, IdleType DEF RunnerRecord
<1>3. MovesTo(r, x)  BY <1>2 DEF MovesTo, Return
<1>  HIDE DEF x
<1>4. TakesNone(r, x)  BY <1>2 DEF TakesNone
<1>5. PICK y : MovesTo(r, y) /\ TakesNone(r, y) /\ y.run = {}
  BY <1>2, <1>3, <1>4
<1>6. RunsEnd  BY <1>5, OneEnds
<1>7. runner'[r].run = {} /\ \A q \in Runners \ {r} : runner'[q] = runner[q]
  BY <1>5, OneMoves
<1>  QED  BY <1>6, <1>7 DEF Works

LEMMA ModelBegins ==
  ASSUME WorkTypeOK, NEW r \in Runners, NEW e \in Executions, Works(r, e),
         runner' = [runner EXCEPT ![r].step = "model"]
  PROVE  RunsEnd
<1>  DEFINE x == [runner[r] EXCEPT !.step = "model"]
<1>1. runner[r] \in RunnerRecord /\ runner[r].run # {}
  BY DEF WorkTypeOK, Works
<1>2. MovesTo(r, x) /\ TakesNone(r, x)
  BY <1>1 DEF MovesTo, RunnerRecord, TakesNone
<1>  HIDE DEF x
<1>3. PICK y : MovesTo(r, y) /\ TakesNone(r, y)  BY <1>2
<1>  QED  BY <1>3, OneEnds

\* A runner that begins works on nothing else.
LEMMA BeginRuns ==
  ASSUME WorkTypeOK, NEW r \in Runners, NEW e \in Executions, Begin(r, e)
  PROVE  /\ RunnersOK'
         /\ \A f \in Executions \ {e} : RunsKept(f)
         /\ runner'[r].snapshot = execution[e]
         /\ \A q \in Runners : Works(q, e)' =>
              \/ q = r
              \/ Works(q, e) /\ runner'[q].snapshot = runner[q].snapshot
<1>  DEFINE x == [runner[r] EXCEPT !.step = "tools", !.run = {e},
                                   !.due = @ \ {e}, !.snapshot = execution[e]]
<1>1. execution[e] \in ExecutionRecord /\ runner[r] \in RunnerRecord
  BY DEF WorkTypeOK
<1>2. MovesTo(r, x) /\ x.run = {e} /\ x.snapshot = execution[e]
  BY <1>1 DEF Begin, MovesTo, RunnerRecord, WorkTypeOK
<1>  HIDE DEF x
<1>3. PICK y : MovesTo(r, y) /\ y.run = {e} /\ y.snapshot = execution[e]
  BY <1>2
<1>  QED  BY <1>3, OneMoves DEF RunsKept, Works

-----------------------------------------------------------------------------
(* Types.                                                                  *)

OpportunityOK ==
  opportunity \in [Opportunities ->
    {"discovered", "evaluated", "executing", "completed", "blocked", "failed"}]

RecordsOK ==
  /\ OpportunityOK
  /\ execution \in [Executions -> ExecutionRecord]
  /\ overdue \subseteq Executions /\ doubled \subseteq Executions
  /\ delivered \in [Executions -> Nat] /\ charged \in [Executions -> Nat]
  /\ bill \in [Runners -> Nat] /\ lost \in [Executions -> Nat]
  /\ ledger \subseteq [execution : Executions, attempt : Nat, cents : Nat \ {0}]
  /\ autonomous \in BOOLEAN /\ brake \in {"off", "held", "killed"}
  /\ crashes \in 0..events /\ events \in 0..MaxEvents

LEMMA TypeParts == WorkTypeOK <=> RecordsOK /\ RunnersOK
BY DEF WorkTypeOK, RecordsOK, RunnersOK, OpportunityOK

\* What is charged and not booked is a sum of naturals.
Workers(e) == {r \in Runners : Works(r, e)}

LEMMA BillsAre ==
  ASSUME WorkTypeOK, NEW e
  PROVE  NatOn(bill, Workers(e)) /\ IntOn(bill, Workers(e))
<1>1. IsFiniteSet(Runners)
  BY WorkAssumption, FS_Union
<1>2. Workers(e) \subseteq Runners  BY DEF Workers
<1>3. IsFiniteSet(Workers(e))  BY <1>1, <1>2, FS_Subset
<1>4. \A r \in Workers(e) : bill[r] \in Nat  BY <1>2 DEF WorkTypeOK
<1>5. NatOn(bill, Workers(e))  BY <1>3, <1>4 DEF NatOn
<1>  QED  BY <1>5, NatIsInt

LEMMA UnbookedNat ==
  ASSUME WorkTypeOK, NEW e
  PROVE  Unbooked(e) \in Nat
<1>1. NatOn(bill, Workers(e)) /\ IntOn(bill, Workers(e))  BY BillsAre
<1>2. Total(bill, Workers(e)) \in Int  BY <1>1, TotalInt
<1>3. Total(bill, {}) <= Total(bill, Workers(e))
  BY <1>1, TotalSubset
<1>4. Total(bill, {}) = 0  BY TotalEmpty
<1>5. Unbooked(e) = Total(bill, Workers(e))  BY DEF Unbooked, Workers
<1>  QED  BY <1>2, <1>3, <1>4, <1>5

LEMMA DeathType ==
  ASSUME WorkTypeOK, EveryRunDies
  PROVE  /\ charged' \in [Executions -> Nat] /\ lost' \in [Executions -> Nat]
         /\ bill' \in [Runners -> Nat]
<1>1. \A e \in Executions : lost[e] \in Nat  BY DEF WorkTypeOK
<1>2. \A e \in Executions : Unbooked(e) \in Nat  BY UnbookedNat
<1>3. \A e \in Executions : lost[e] + Unbooked(e) \in Nat  BY <1>1, <1>2
<1>4. lost' = [e \in Executions |-> lost[e] + Unbooked(e)]  BY DEF EveryRunDies
<1>5. lost' \in [Executions -> Nat]  BY <1>3, <1>4
<1>  QED  BY <1>5 DEF EveryRunDies, WorkTypeOK

LEMMA RecordUpdates ==
  ASSUME NEW x \in ExecutionRecord, NEW s \in Live \cup Final, NEW n \in Nat,
         NEW a \in Agents
  PROVE  /\ [x EXCEPT !.status = s] \in ExecutionRecord
         /\ [x EXCEPT !.agent = a] \in ExecutionRecord
         /\ [x EXCEPT !.status = s, !.cost = n] \in ExecutionRecord
         /\ [x EXCEPT !.status = s, !.attempts = @ + 1] \in ExecutionRecord
<1>1. [x EXCEPT !.status = s] \in ExecutionRecord
  BY DEF ExecutionRecord
<1>2. [x EXCEPT !.agent = a] \in ExecutionRecord
  BY DEF ExecutionRecord
<1>3. \A y \in ExecutionRecord : [y EXCEPT !.cost = n] \in ExecutionRecord
  BY DEF ExecutionRecord
<1>4. \A y \in ExecutionRecord, k \in Nat :
        [y EXCEPT !.attempts = k] \in ExecutionRecord
  BY DEF ExecutionRecord
<1>5. [x EXCEPT !.status = s, !.cost = n] = [[x EXCEPT !.status = s] EXCEPT !.cost = n]
  OBVIOUS
<1>6. [x EXCEPT !.status = s, !.attempts = @ + 1]
        = [[x EXCEPT !.status = s] EXCEPT !.attempts = x.attempts + 1]
  BY DEF ExecutionRecord
<1>7. x.attempts + 1 \in Nat  BY DEF ExecutionRecord
<1>  QED  BY <1>1, <1>2, <1>3, <1>4, <1>5, <1>6, <1>7

LEMMA ReconcileType ==
  ASSUME RecordsOK, NEW S \in SUBSET Executions, NEW T, Reconcile(S, T)
  PROVE  /\ OpportunityOK' /\ execution' \in [Executions -> ExecutionRecord]
         /\ overdue' \subseteq Executions /\ doubled' \subseteq Executions
<1>1. OpportunityOK'  BY DEF Reconcile, RecordsOK, OpportunityOK
<1>2. execution' \in [Executions -> ExecutionRecord]
  <2>1. \A e \in Executions, s \in {"timed_out", "authorized"} :
          [execution[e] EXCEPT !.status = s] \in ExecutionRecord
    BY DEF RecordsOK, ExecutionRecord, Live, Final
  <2>  QED  BY <2>1 DEF Reconcile, RecordsOK
<1>  QED  BY <1>1, <1>2 DEF Reconcile, RecordsOK

LEMMA DispatchedType ==
  ASSUME RecordsOK, RunnersOK, NEW D, NEW B, NEW A, Dispatched(D, B, A)
  PROVE  OpportunityOK' /\ execution' \in [Executions -> ExecutionRecord]
<1>1. OpportunityOK'  BY DEF Dispatched, RecordsOK, OpportunityOK
<1>2. WorkTypeOK /\ StartAll(A)  BY TypeParts DEF Dispatched
<1>  QED  BY <1>1, <1>2, StartAllType

LEMMA CloseType ==
  ASSUME RecordsOK, NEW e \in Executions, NEW s \in Live \cup Final, Close(e, s)
  PROVE  execution' \in [Executions -> ExecutionRecord]
<1>1. [execution[e] EXCEPT !.status = s] \in ExecutionRecord
  BY DEF RecordsOK, ExecutionRecord
<1>  QED  BY <1>1 DEF Close, RecordsOK

LEMMA InformType ==
  ASSUME RecordsOK, NEW e \in Executions, NEW s \in {"completed", "blocked", "failed"},
         Inform(e, s)
  PROVE  OpportunityOK'
BY DEF Inform, RecordsOK, OpportunityOK

LEMMA RefusalStates ==
  ASSUME NEW f \in Refusals
  PROVE  f[1] \in {"cancelled", "failed"} /\ f[2] \in {"blocked", "failed"}
BY DEF Refusals

LEMMA HappensType ==
  ASSUME RecordsOK, Happens
  PROVE  /\ events' \in 0..MaxEvents
         /\ UNCHANGED crashes => crashes' \in 0..events'
         /\ crashes' = crashes + 1 => crashes' \in 0..events'
BY WorkAssumption DEF Happens, RecordsOK

LEMMA StartType ==
  ASSUME RecordsOK, RunnersOK, NEW s \in Schedulers, TickStart(s)
  PROVE  RecordsOK'
<1>1. Stale \in SUBSET Executions /\ Reconcile(Stale, Stale)
  BY DEF TickStart, Stale, Status
<1>2. UNCHANGED <<records, policyVars, bounds>>  BY DEF TickStart
<1>  QED  BY <1>1, <1>2, ReconcileType DEF RecordsOK, records, charges, policyVars, bounds

LEMMA DispatchType ==
  ASSUME RecordsOK, RunnersOK, NEW s \in Schedulers, Dispatch(s)
  PROVE  RecordsOK'
<1>1. PICK B, A : Dispatched(Discovered, B, A)  BY DEF Dispatch
<1>2. UNCHANGED <<overdue, records, policyVars, doubled, bounds>>  BY DEF Dispatch
<1>  QED
  BY <1>1, <1>2, DispatchedType DEF RecordsOK, records, charges, policyVars, bounds

LEMMA OwnerType ==
  ASSUME RecordsOK, RunnersOK,
         \/ \E o \in Opportunities : OwnerAuthorizes(o) \/ OwnerEvaluates(o)
         \/ \E e \in Executions, a \in Agents : Reassign(e, a)
         \/ \E e \in Executions : Expire(e)
         \/ OwnerSwitches
  PROVE  RecordsOK'
<1>1. CASE \E o \in Opportunities : OwnerAuthorizes(o)
  <2>1. PICK o \in Opportunities : OwnerAuthorizes(o)  BY <1>1
  <2>2. execution' \in [Executions -> ExecutionRecord]
    BY <2>1, TypeParts, StartAllType DEF OwnerAuthorizes
  <2>3. OpportunityOK'  BY <2>1 DEF OwnerAuthorizes, RecordsOK, OpportunityOK
  <2>  QED
    BY <2>1, <2>2, <2>3 DEF OwnerAuthorizes, RecordsOK, records, charges, policyVars, bounds
<1>2. CASE \E o \in Opportunities : OwnerEvaluates(o)
  <2>1. crashes' \in 0..events' /\ events' \in 0..MaxEvents
    BY <1>2, HappensType DEF OwnerEvaluates
  <2>  QED
    BY <1>2, <2>1 DEF OwnerEvaluates, RecordsOK, OpportunityOK, records, charges, policyVars
<1>3. CASE \E e \in Executions, a \in Agents : Reassign(e, a)
  <2>1. PICK e \in Executions, a \in Agents : Reassign(e, a)  BY <1>3
  <2>2. [execution[e] EXCEPT !.agent = a] \in ExecutionRecord
    BY <2>1, RecordUpdates DEF RecordsOK, Live
  <2>3. execution' \in [Executions -> ExecutionRecord]
    BY <2>1, <2>2 DEF Reassign, RecordsOK
  <2>4. crashes' \in 0..events' /\ events' \in 0..MaxEvents
    BY <2>1, HappensType DEF Reassign
  <2>  QED
    BY <2>1, <2>3, <2>4 DEF Reassign, RecordsOK, OpportunityOK, records, charges, policyVars
<1>4. CASE \E e \in Executions : Expire(e)
  <2>1. PICK e \in Executions : Expire(e)  BY <1>4
  <2>2. overdue' \subseteq Executions  BY <2>1 DEF Expire, RecordsOK
  <2>3. crashes' \in 0..events' /\ events' \in 0..MaxEvents
    BY <2>1, HappensType DEF Expire, RecordsOK
  <2>  QED
    BY <2>1, <2>2, <2>3 DEF Expire, RecordsOK, OpportunityOK, records, charges, policyVars
<1>5. CASE OwnerSwitches
  <2>1. crashes' \in 0..events' /\ events' \in 0..MaxEvents
    BY <1>5, HappensType DEF OwnerSwitches
  <2>2. autonomous' \in BOOLEAN /\ brake' \in {"off", "held", "killed"}
    BY <1>5 DEF OwnerSwitches, RecordsOK
  <2>  QED
    BY <1>5, <2>1, <2>2 DEF OwnerSwitches, RecordsOK, OpportunityOK, records, charges
<1>  QED  BY <1>1, <1>2, <1>3, <1>4, <1>5

LEMMA RefusedType ==
  ASSUME RecordsOK, RunnersOK, NEW r \in Runners, NEW e \in Executions,
         BeginRefused(r, e)
  PROVE  RecordsOK'
<1>1. PICK f \in Refusals : Close(e, f[1]) /\ Inform(e, f[2])
  BY DEF BeginRefused
<1>2. execution' \in [Executions -> ExecutionRecord] /\ OpportunityOK'
  BY <1>1, RefusalStates, CloseType, InformType DEF Final
<1>  QED  BY <1>2 DEF BeginRefused, RecordsOK, records, charges, policyVars, bounds

LEMMA BeginType ==
  ASSUME RecordsOK, RunnersOK, NEW r \in Runners, NEW e \in Executions, Begin(r, e)
  PROVE  RecordsOK'
<1>1. [execution[e] EXCEPT !.status = "running", !.attempts = @ + 1] \in ExecutionRecord
  BY RecordUpdates, WorkAssumption DEF RecordsOK, Live
<1>2. execution' \in [Executions -> ExecutionRecord]
  BY <1>1 DEF Begin, RecordsOK
<1>  QED  BY <1>2 DEF Begin, RecordsOK, OpportunityOK, records, charges, policyVars, bounds

LEMMA ToolType ==
  ASSUME RecordsOK, RunnersOK, NEW r \in Runners, NEW e \in Executions,
         ToolReturns(r, e)
  PROVE  RecordsOK'
<1>1. execution' \in [Executions -> ExecutionRecord] /\ OpportunityOK'
  BY CloseType, InformType DEF ToolReturns, Final, RecordsOK, OpportunityOK
<1>  QED  BY <1>1 DEF ToolReturns, RecordsOK, records, charges, policyVars, bounds

LEMMA FailType ==
  ASSUME RecordsOK, RunnersOK, NEW r \in Runners, NEW e \in Executions,
         RunFails(r, e)
  PROVE  RecordsOK'
<1>1. execution' \in [Executions -> ExecutionRecord] /\ OpportunityOK'
  BY CloseType, InformType DEF RunFails, Final, Live, RecordsOK, OpportunityOK
<1>2. bill' \in [Runners -> Nat] /\ lost' \in [Executions -> Nat]
  BY DEF RunFails, RecordsOK
<1>  QED  BY <1>1, <1>2 DEF RunFails, RecordsOK, policyVars, bounds

LEMMA ChargeType ==
  ASSUME RecordsOK, RunnersOK, NEW r \in Runners, NEW e \in Executions,
         ModelCharges(r, e)
  PROVE  RecordsOK'
<1>1. PICK cents \in Costs \cup {0} :
        /\ charged' = [charged EXCEPT ![e] = @ + cents]
        /\ bill' = [bill EXCEPT ![r] = cents]
  BY DEF ModelCharges
<1>2. cents \in Nat  BY WorkAssumption
<1>3. charged' \in [Executions -> Nat]  BY <1>1, <1>2 DEF RecordsOK
<1>4. bill' \in [Runners -> Nat]  BY <1>1, <1>2 DEF RecordsOK
<1>5. lost' \in [Executions -> Nat]  BY DEF ModelCharges, RecordsOK
<1>6. crashes' \in 0..events' /\ events' \in 0..MaxEvents
  BY HappensType DEF ModelCharges, RecordsOK
<1>  QED
  BY <1>3, <1>4, <1>5, <1>6 DEF ModelCharges, RecordsOK, OpportunityOK, policyVars

\* The three ways an answer is settled.
Settled(e, cost, verified, s, o) ==
  /\ execution' = [execution EXCEPT ![e].status = s, ![e].cost = cost]
  /\ Inform(e, o)
  /\ \/ s = "completed" /\ Deliver(e, TRUE)
     \/ s = "failed" /\ Deliver(e, FALSE)
     \/ s = "cancelled" /\ UNCHANGED delivered

LEMMA AnswerSettles ==
  ASSUME NEW r \in Runners, NEW e \in Executions, ModelAnswers(r, e)
  PROVE  /\ Post(e, runner[r].snapshot.attempts + 1, bill[r])
         /\ \E verified \in BOOLEAN, s \in {"completed", "failed", "cancelled"},
              o \in {"completed", "blocked"} :
                Settled(e, runner[r].snapshot.cost + bill[r], verified, s, o)
BY DEF ModelAnswers, Settled

LEMMA AnswerType ==
  ASSUME RecordsOK, RunnersOK, NEW r \in Runners, NEW e \in Executions,
         ModelAnswers(r, e)
  PROVE  RecordsOK'
<1>1. /\ Post(e, runner[r].snapshot.attempts + 1, bill[r])
      /\ \E verified \in BOOLEAN, s \in {"completed", "failed", "cancelled"},
            o \in {"completed", "blocked"} :
           Settled(e, runner[r].snapshot.cost + bill[r], verified, s, o)
  BY AnswerSettles
<1>0. PICK verified \in BOOLEAN, s \in {"completed", "failed", "cancelled"},
           o \in {"completed", "blocked"} :
        Settled(e, runner[r].snapshot.cost + bill[r], verified, s, o)
  BY <1>1
<1>2. bill[r] \in Nat /\ runner[r].snapshot.cost \in Nat /\ runner[r].snapshot.attempts \in Nat
  BY DEF RecordsOK, RunnersOK, RunnerRecord, ExecutionRecord
<1>3. runner[r].snapshot.cost + bill[r] \in Nat /\ runner[r].snapshot.attempts + 1 \in Nat
  BY <1>2
<1>4. execution' \in [Executions -> ExecutionRecord]
  <2>1. [execution[e] EXCEPT !.status = s, !.cost = runner[r].snapshot.cost + bill[r]]
          \in ExecutionRecord
    BY <1>0, <1>3, RecordUpdates, WorkAssumption DEF RecordsOK, Final
  <2>  QED  BY <1>0, <2>1 DEF Settled, RecordsOK
<1>5. OpportunityOK'  BY <1>0, InformType DEF Settled
<1>6. delivered' \in [Executions -> Nat]
  BY <1>0 DEF Settled, Deliver, RecordsOK
<1>7. bill' \in [Runners -> Nat]
  BY DEF ModelAnswers, RecordsOK
<1>8. ledger' \subseteq [execution : Executions, attempt : Nat, cents : Nat \ {0}]
  BY <1>1, <1>2, <1>3 DEF Post, RecordsOK
<1>  QED
  BY <1>4, <1>5, <1>6, <1>7, <1>8 DEF ModelAnswers, RecordsOK, policyVars, bounds

LEMMA CrashType ==
  ASSUME RecordsOK, RunnersOK, Crash
  PROVE  RecordsOK'
<1>1. /\ OpportunityOK' /\ execution' \in [Executions -> ExecutionRecord]
      /\ overdue' \subseteq Executions /\ doubled' \subseteq Executions
  <2>1. CASE UNCHANGED <<opportunity, execution, overdue, doubled>>
    BY <2>1 DEF RecordsOK, OpportunityOK
  <2>2. CASE \E S \in SUBSET Stale : \E e \in S : Reconcile(S, S \ {e})
    <3>1. PICK S \in SUBSET Stale : \E e \in S : Reconcile(S, S \ {e})  BY <2>2
    <3>2. S \in SUBSET Executions  BY DEF Stale, Status
    <3>  QED  BY <3>1, <3>2, ReconcileType
  <2>3. CASE /\ \E D \in SUBSET Discovered : \E B \in SUBSET D, A \in SUBSET D :
                  Dispatched(D, B, A)
             /\ UNCHANGED <<overdue, doubled>>
    BY <2>3, DispatchedType DEF RecordsOK
  <2>4. CASE /\ \E e \in Executions, s \in {"cancelled", "failed"} : Close(e, s)
             /\ UNCHANGED <<opportunity, overdue, doubled>>
    BY <2>4, CloseType DEF RecordsOK, OpportunityOK, Final
  <2>  QED  BY <2>1, <2>2, <2>3, <2>4, RefusalStates DEF Crash, PartOfStep
<1>2. crashes' \in 0..events' /\ events' \in 0..MaxEvents
  BY HappensType DEF Crash
<1>3. charged' \in [Executions -> Nat] /\ lost' \in [Executions -> Nat]
      /\ bill' \in [Runners -> Nat]
  BY DeathType, TypeParts DEF Crash
<1>  QED  BY <1>1, <1>2, <1>3 DEF Crash, RecordsOK, policyVars

-----------------------------------------------------------------------------
(* What the steps do to an execution that no live runner lost.             *)

\* The row of e keeps what its runner and its budget depend on.
RowKept(e) ==
  /\ execution'[e].status = execution[e].status
  /\ execution'[e].attempts = execution[e].attempts
  /\ delivered'[e] = delivered[e]

LEMMA KeptRow ==
  ASSUME NEW e \in Executions, RowKept(e), RunsKept(e)
  PROVE  Kept(e)
BY DEF Kept, RowKept

\* Reconciliation takes no execution from a live runner that is not doubled.
LEMMA ReconcileMove ==
  ASSUME WorkTypeOK, NEW S \in SUBSET Stale, NEW T, Reconcile(S, T),
         UNCHANGED delivered, NEW e \in Executions \ doubled', Owned(e),
         RunsKept(e)
  PROVE  Move(e)
<1>1. CASE e \notin S
  BY <1>1, KeptRow DEF Reconcile, RowKept, Move
<1>2. CASE e \in S
  <2>1. e \notin WorkedOn  BY <1>2 DEF Reconcile
  <2>2. \A r \in Runners : ~Works(r, e)'  BY <2>1 DEF RunsKept, WorkedOn
  <2>3. execution[e].status \in Live  BY <1>2 DEF Stale, Status
  <2>4. execution'[e] = [execution[e] EXCEPT !.status =
                           IF Spent(e) THEN "timed_out" ELSE "authorized"]
    BY <1>2 DEF Reconcile
  <2>5. execution[e] \in ExecutionRecord  BY DEF WorkTypeOK
  <2>6. /\ execution'[e].status = IF Spent(e) THEN "timed_out" ELSE "authorized"
        /\ execution'[e].attempts = execution[e].attempts
    BY <2>4, <2>5 DEF ExecutionRecord
  <2>7. ~Spent(e) => execution[e].attempts < MaxAttempts
    BY <2>5, WorkAssumption DEF Spent, ExecutionRecord
  <2>  QED  BY <2>2, <2>3, <2>6, <2>7 DEF Closed, Move, Final
<1>  QED  BY <1>1, <1>2

LEMMA DispatchedMove ==
  ASSUME WorkTypeOK, NEW D, NEW B, NEW A, Dispatched(D, B, A),
         UNCHANGED delivered, NEW e \in Executions, RunsKept(e)
  PROVE  Move(e)
BY StartAllMove DEF Dispatched, Move

\* The status of f is written.
LEMMA CloseRow ==
  ASSUME WorkTypeOK, NEW f \in Executions, NEW s, Close(f, s), NEW e \in Executions
  PROVE  /\ execution'[e].attempts = execution[e].attempts
         /\ e # f => execution'[e].status = execution[e].status
         /\ e = f => execution'[e].status = s
<1>1. execution[f] \in ExecutionRecord  BY DEF WorkTypeOK
<1>2. [execution[f] EXCEPT !.status = s].status = s
      /\ [execution[f] EXCEPT !.status = s].attempts = execution[f].attempts
  BY <1>1 DEF ExecutionRecord
<1>  QED  BY <1>2 DEF Close, WorkTypeOK

\* Who begins an execution or returns from it is the only one who works on it.
LEMMA ReturnAlone ==
  ASSUME WorkTypeOK, NEW r \in Runners, NEW e \in Executions, Return(r, e), Owned(e),
         Works(r, e) \/ execution[e].status = "authorized"
  PROVE  \A q \in Runners : ~Works(q, e)'
BY ReturnEnds DEF Owned

LEMMA RefusedMove ==
  ASSUME WorkTypeOK, NEW r \in Runners, NEW f \in Executions, BeginRefused(r, f),
         NEW e \in Executions, Owned(e)
  PROVE  Move(e)
<1>1. PICK p \in Refusals : Close(f, p[1])  BY DEF BeginRefused
<1>2. UNCHANGED delivered /\ Return(r, f) /\ RunsKept(e)
  BY ReturnEnds DEF BeginRefused, records, charges, RunsEnd
<1>3. CASE e # f
  BY <1>1, <1>2, <1>3, CloseRow DEF Kept, Move
<1>4. CASE e = f
  <2>1. execution[e].status = "authorized"
    BY <1>4 DEF BeginRefused, CanBegin
  <2>2. \A q \in Runners : ~Works(q, e)'
    BY <1>2, <1>4, <2>1, ReturnAlone
  <2>3. p[1] \in Final \ {"completed"}  BY RefusalStates DEF Final
  <2>  QED  BY <1>1, <1>2, <1>4, <2>1, <2>2, <2>3, CloseRow DEF Closed, Move, Live
<1>  QED  BY <1>3, <1>4

LEMMA BeginMove ==
  ASSUME WorkTypeOK, NEW r \in Runners, NEW f \in Executions, Begin(r, f),
         NEW e \in Executions, Owned(e)
  PROVE  Move(e)
<1>1. UNCHANGED delivered  BY DEF Begin, records, charges
<1>2. CASE e # f
  <2>1. execution'[e] = execution[e]  BY <1>2 DEF Begin, WorkTypeOK
  <2>2. RunsKept(e)  BY <1>2, BeginRuns
  <2>  QED  BY <1>1, <2>1, <2>2 DEF Kept, Move
<1>3. CASE e = f
  <2>1. execution[e] \in ExecutionRecord /\ execution[e].status = "authorized"
    BY <1>3 DEF WorkTypeOK, Begin, CanBegin
  <2>2. execution'[e].status = "running"
        /\ execution'[e].attempts = execution[e].attempts + 1
    BY <1>3, <2>1 DEF Begin, WorkTypeOK, ExecutionRecord
  <2>3. \A q \in Runners : Works(q, e)' => q = r
    BY <1>3, <2>1, BeginRuns DEF Owned
  <2>4. runner'[r].snapshot.attempts = execution[e].attempts
    BY <1>3, BeginRuns
  <2>  QED  BY <1>1, <2>1, <2>2, <2>3, <2>4 DEF Begun, Move
<1>  QED  BY <1>2, <1>3

\* A run of f ends with s.
LEMMA RunCloses ==
  ASSUME WorkTypeOK, NEW r \in Runners, NEW f \in Executions, Works(r, f),
         NEW e \in Executions, Owned(e), Return(r, f), UNCHANGED delivered,
         NEW s \in {"cancelled", "failed", "authorized"}, Close(f, s),
         s = "authorized" => runner[r].snapshot.attempts + 1 < MaxAttempts
  PROVE  Move(e)
<1>1. RunsKept(e)  BY ReturnEnds DEF RunsEnd
<1>2. CASE e # f
  BY <1>1, <1>2, CloseRow DEF Kept, Move
<1>3. CASE e = f
  <2>1. /\ execution[e].status = "running"
        /\ execution[e].attempts = runner[r].snapshot.attempts + 1
    BY <1>3 DEF Owned
  <2>2. \A q \in Runners : ~Works(q, e)'  BY <1>3, ReturnAlone
  <2>3. s = "authorized" \/ s \in Final \ {"completed"}  BY DEF Final
  <2>4. execution'[e].status = s /\ execution'[e].attempts = execution[e].attempts
    BY <1>3, CloseRow
  <2>  QED  BY <2>1, <2>2, <2>3, <2>4 DEF Closed, Move, Live
<1>  QED  BY <1>2, <1>3

LEMMA ToolMove ==
  ASSUME WorkTypeOK, NEW r \in Runners, NEW f \in Executions, ToolReturns(r, f),
         NEW e \in Executions, Owned(e)
  PROVE  Move(e)
<1>1. Works(r, f) /\ UNCHANGED delivered  BY DEF ToolReturns, records, charges
<1>2. CASE MayGoOn(r, f)
  <2>1. UNCHANGED execution /\ runner' = [runner EXCEPT ![r].step = "model"]
    BY <1>2 DEF ToolReturns
  <2>2. RunsKept(e)  BY <1>1, <2>1, ModelBegins DEF RunsEnd
  <2>  QED  BY <1>1, <2>1, <2>2 DEF Kept, Move
<1>3. CASE ~MayGoOn(r, f)
  BY <1>1, <1>3, RunCloses DEF ToolReturns
<1>  QED  BY <1>2, <1>3

LEMMA FailMove ==
  ASSUME WorkTypeOK, NEW r \in Runners, NEW f \in Executions, RunFails(r, f),
         NEW e \in Executions, Owned(e)
  PROVE  Move(e)
<1>1. Works(r, f) /\ UNCHANGED delivered /\ Return(r, f)
  BY DEF RunFails, records, charges
<1>2. CASE runner[r].snapshot.attempts + 1 >= MaxAttempts
  BY <1>1, <1>2, RunCloses DEF RunFails
<1>3. CASE ~(runner[r].snapshot.attempts + 1 >= MaxAttempts)
  <2>1. runner[r].snapshot.attempts \in Nat
    BY DEF WorkTypeOK, RunnerRecord, ExecutionRecord
  <2>2. runner[r].snapshot.attempts + 1 < MaxAttempts
    BY <1>3, <2>1, WorkAssumption
  <2>  QED  BY <1>1, <1>3, <2>2, RunCloses DEF RunFails
<1>  QED  BY <1>2, <1>3

LEMMA ChargeMove ==
  ASSUME WorkTypeOK, NEW r \in Runners, NEW f \in Executions, ModelCharges(r, f),
         NEW e \in Executions
  PROVE  Move(e)
<1>1. UNCHANGED <<execution, delivered, runner>>  BY DEF ModelCharges
<1>2. RunsKept(e)  BY <1>1, RunsStay DEF RunsEnd
<1>  QED  BY <1>1, <1>2 DEF Kept, Move

LEMMA AnswerMove ==
  ASSUME WorkTypeOK, NEW r \in Runners, NEW f \in Executions, ModelAnswers(r, f),
         NEW e \in Executions, Owned(e)
  PROVE  Move(e)
<1>1. Works(r, f) /\ Return(r, f)  BY DEF ModelAnswers
<1>2. PICK v \in BOOLEAN, s \in {"completed", "failed", "cancelled"},
           o \in {"completed", "blocked"} :
        Settled(f, runner[r].snapshot.cost + bill[r], v, s, o)
  BY AnswerSettles
<1>3. RunsKept(e)  BY <1>1, ReturnEnds DEF RunsEnd
<1>4. execution[f] \in ExecutionRecord  BY DEF WorkTypeOK
<1>5. execution' = [execution EXCEPT ![f].status = s,
                                     ![f].cost = runner[r].snapshot.cost + bill[r]]
  BY <1>2 DEF Settled
<1>6. CASE e # f
  <2>1. execution'[e] = execution[e]  BY <1>5, <1>6 DEF WorkTypeOK
  <2>2. delivered'[e] = delivered[e]
    BY <1>2, <1>6 DEF Settled, Deliver, WorkTypeOK
  <2>  QED  BY <1>3, <2>1, <2>2 DEF Kept, Move
<1>7. CASE e = f
  <2>1. execution'[e].status = s /\ execution'[e].attempts = execution[e].attempts
    BY <1>4, <1>5, <1>7 DEF WorkTypeOK, ExecutionRecord
  <2>2. execution[e].status = "running"  BY <1>1, <1>7 DEF Owned
  <2>3. \A q \in Runners : ~Works(q, e)'  BY <1>1, <1>7, ReturnAlone
  <2>4. delivered'[e] = IF s = "completed" THEN delivered[e] + 1 ELSE delivered[e]
    BY <1>2, <1>7 DEF Settled, Deliver, WorkTypeOK
  <2>  QED  BY <2>1, <2>2, <2>3, <2>4 DEF Closed, Move, Live, Final
<1>  QED  BY <1>6, <1>7

-----------------------------------------------------------------------------
(* What the steps leave an opportunity that is executing.                  *)

LEMMA NothingChanges ==
  ASSUME UNCHANGED <<opportunity, bounds>>, NEW o,
         \A e \in Of(o) : execution[e].status \in Live => execution'[e].status \in Live
  PROVE  LeavesLive(o)
BY DEF LeavesLive, bounds

LEMMA ReconcileLeaves ==
  ASSUME WorkTypeOK, NEW S \in SUBSET Executions, Reconcile(S, S), UNCHANGED bounds,
         NEW o \in Opportunities
  PROVE  LeavesLive(o)
<1>1. SUFFICES ASSUME opportunity'[o] = "executing"
               PROVE  /\ opportunity[o] = "executing"
                      /\ \A e \in Of(o) : execution[e].status \in Live =>
                                          execution'[e].status \in Live
  BY DEF LeavesLive, bounds
<1>2. ~ \E e \in S : Spent(e) /\ e[1] = o
  BY <1>1 DEF Reconcile
<1>3. opportunity[o] = "executing"
  BY <1>1, <1>2 DEF Reconcile
<1>4. ASSUME NEW e \in Of(o), execution[e].status \in Live
      PROVE  execution'[e].status \in Live
  <2>1. e \in Executions /\ e[1] = o /\ execution[e] \in ExecutionRecord
    BY DEF Of, WorkTypeOK
  <2>2. CASE e \notin S
    BY <1>4, <2>1, <2>2 DEF Reconcile
  <2>3. CASE e \in S
    <3>1. execution'[e] = [execution[e] EXCEPT !.status = "authorized"]
      BY <1>2, <2>1, <2>3 DEF Reconcile
    <3>2. execution'[e].status = "authorized"
      BY <2>1, <3>1 DEF ExecutionRecord
    <3>  QED  BY <3>2 DEF Live
  <2>  QED  BY <2>2, <2>3
<1>  QED  BY <1>3, <1>4

LEMMA DispatchedLeaves ==
  ASSUME WorkTypeOK, NEW D, NEW B, NEW A, Dispatched(D, B, A), UNCHANGED bounds,
         NEW o \in Opportunities
  PROVE  LeavesLive(o)
<1>1. StartAll(A) /\ \A x \in A : CanStart(x)  BY DEF Dispatched
<1>2. CASE o \in A
  BY <1>1, <1>2, StartAllLive DEF LeavesLive, bounds
<1>3. CASE o \notin A
  <2>1. opportunity'[o] = "executing" => opportunity[o] = "executing"
    BY <1>3 DEF Dispatched
  <2>2. \A e \in Of(o) : execution[e].status \in Live => execution'[e].status \in Live
    BY <1>1, StartAllKeepsLive DEF Of
  <2>  QED  BY <2>1, <2>2 DEF LeavesLive, bounds
<1>  QED  BY <1>2, <1>3

LEMMA AuthorizesLeaves ==
  ASSUME WorkTypeOK, NEW p \in Opportunities, OwnerAuthorizes(p), NEW o \in Opportunities
  PROVE  LeavesLive(o)
<1>1. StartAll({p}) /\ CanStart(p) /\ UNCHANGED bounds  BY DEF OwnerAuthorizes
<1>2. CASE o = p
  BY <1>1, <1>2, StartAllLive DEF LeavesLive, bounds
<1>3. CASE o # p
  <2>1. opportunity'[o] = opportunity[o]
    BY <1>3 DEF OwnerAuthorizes, WorkTypeOK
  <2>2. \A e \in Of(o) : execution[e].status \in Live => execution'[e].status \in Live
    BY <1>1, StartAllKeepsLive DEF Of
  <2>  QED  BY <1>1, <2>1, <2>2 DEF LeavesLive, bounds
<1>  QED  BY <1>2, <1>3

\* Whoever ends an execution says so to its opportunity.
LEMMA CloseLeaves ==
  ASSUME WorkTypeOK, NEW f \in Executions, UNCHANGED bounds, NEW s,
         s # "executing", Inform(f, s),
         \A e \in Executions : e # f => execution'[e].status = execution[e].status,
         NEW o \in Opportunities
  PROVE  LeavesLive(o)
<1>1. CASE o = f[1]
  BY <1>1 DEF Inform, LeavesLive, WorkTypeOK
<1>2. CASE o # f[1]
  <2>1. opportunity'[o] = opportunity[o]
    BY <1>2 DEF Inform, WorkTypeOK
  <2>2. \A e \in Of(o) : execution'[e].status = execution[e].status
    BY <1>2 DEF Of
  <2>  QED  BY <2>1, <2>2 DEF LeavesLive, bounds
<1>  QED  BY <1>1, <1>2

LEMMA RunLeaves ==
  ASSUME WorkTypeOK, NEW r \in Runners, NEW f \in Executions, RunStep(r, f),
         NEW o \in Opportunities
  PROVE  LeavesLive(o)
<1>1. CASE BeginRefused(r, f)
  <2>1. PICK p \in Refusals : Close(f, p[1]) /\ Inform(f, p[2])
    BY <1>1 DEF BeginRefused
  <2>2. p[2] # "executing"  BY RefusalStates
  <2>3. \A e \in Executions : e # f => execution'[e].status = execution[e].status
    BY <2>1, CloseRow
  <2>  QED  BY <1>1, <2>1, <2>2, <2>3, CloseLeaves DEF BeginRefused
<1>2. CASE Begin(r, f)
  <2>1. execution[f] \in ExecutionRecord  BY DEF WorkTypeOK
  <2>2. execution'[f].status = "running"
    BY <1>2, <2>1 DEF Begin, WorkTypeOK, ExecutionRecord
  <2>3. \A e \in Executions : e # f => execution'[e] = execution[e]
    BY <1>2 DEF Begin, WorkTypeOK
  <2>4. \A e \in Of(o) : execution[e].status \in Live => execution'[e].status \in Live
    BY <2>2, <2>3 DEF Of, Live
  <2>  QED  BY <1>2, <2>4, NothingChanges DEF Begin
<1>3. CASE ToolReturns(r, f)
  <2>1. CASE MayGoOn(r, f)
    BY <1>3, <2>1, NothingChanges DEF ToolReturns
  <2>2. CASE ~MayGoOn(r, f)
    <3>1. Close(f, "cancelled") /\ Inform(f, "blocked") /\ UNCHANGED bounds
      BY <1>3, <2>2 DEF ToolReturns
    <3>2. \A e \in Executions : e # f => execution'[e].status = execution[e].status
      BY <3>1, CloseRow
    <3>  QED  BY <3>1, <3>2, CloseLeaves
  <2>  QED  BY <2>1, <2>2
<1>4. CASE ModelAnswers(r, f)
  <2>1. PICK v \in BOOLEAN, s \in {"completed", "failed", "cancelled"},
             p \in {"completed", "blocked"} :
          Settled(f, runner[r].snapshot.cost + bill[r], v, s, p)
    BY <1>4, AnswerSettles
  <2>2. \A e \in Executions : e # f => execution'[e].status = execution[e].status
    BY <2>1 DEF Settled, WorkTypeOK
  <2>3. Inform(f, p) /\ p # "executing" /\ UNCHANGED bounds
    BY <1>4, <2>1 DEF Settled, ModelAnswers
  <2>  QED  BY <2>2, <2>3, CloseLeaves
<1>5. CASE RunFails(r, f)
  <2>1. UNCHANGED bounds  BY <1>5 DEF RunFails
  <2>2. CASE Close(f, "failed") /\ Inform(f, "failed")
    <3>1. \A e \in Executions : e # f => execution'[e].status = execution[e].status
      BY <2>2, CloseRow
    <3>  QED  BY <2>1, <2>2, <3>1, CloseLeaves
  <2>3. CASE Close(f, "authorized") /\ UNCHANGED opportunity
    <3>1. \A e \in Of(o) : execution[e].status \in Live => execution'[e].status \in Live
      BY <2>3, CloseRow DEF Of, Live
    <3>  QED  BY <2>1, <2>3, <3>1, NothingChanges
  <2>  QED  BY <1>5, <2>2, <2>3 DEF RunFails
<1>6. CASE ModelCharges(r, f)
  BY <1>6 DEF ModelCharges, LeavesLive
<1>  QED  BY <1>1, <1>2, <1>3, <1>4, <1>5, <1>6 DEF RunStep

-----------------------------------------------------------------------------
(* Every step.                                                             *)

\* What every step keeps, one action at a time.
StepKeeps ==
  /\ WorkTypeOK'
  /\ doubled \subseteq doubled'
  /\ \A e \in Executions \ doubled' : Owned(e) => Move(e)
  /\ \A o \in Opportunities : LeavesLive(o)

\* A step of which each part was shown.
LEMMA Composed ==
  ASSUME RecordsOK', RunnersOK', doubled \subseteq doubled',
         \A e \in Executions \ doubled' : Owned(e) => Move(e),
         \A o \in Opportunities : LeavesLive(o)
  PROVE  StepKeeps
BY DEF StepKeeps, WorkTypeOK, RecordsOK, RunnersOK, OpportunityOK

\* A step that leaves every row and every opportunity alone.
LEMMA Quiet ==
  ASSUME WorkTypeOK, RecordsOK', RunsEnd,
         \A e \in Executions : RowKept(e),
         UNCHANGED <<doubled, crashes>>,
         \A o \in Opportunities : opportunity'[o] = "executing" =>
                                  opportunity[o] = "executing"
  PROVE  StepKeeps
<1>1. \A e \in Executions : Move(e)  BY KeptRow DEF RunsEnd, Move
<1>2. \A o \in Opportunities : LeavesLive(o)
  BY DEF LeavesLive, RowKept, Of
<1>  QED  BY <1>1, <1>2, Composed DEF RunsEnd

LEMMA TickKeeps ==
  ASSUME WorkTypeOK, NEW s \in Schedulers, Tick(s)
  PROVE  StepKeeps
<1>  USE TypeParts
<1>1. CASE TickStart(s)
  <2>1. Reconcile(Stale, Stale) /\ Stale \in SUBSET Executions
        /\ UNCHANGED <<delivered, bounds>>
    BY <1>1 DEF TickStart, Stale, Status, records, charges
  <2>2. RunsEnd  BY <1>1, RunsStay, TickBegins DEF TickStart
  <2>3. \A e \in Executions \ doubled' : Owned(e) => Move(e)
    BY <2>1, <2>2, ReconcileMove DEF RunsEnd
  <2>4. \A o \in Opportunities : LeavesLive(o)  BY <2>1, ReconcileLeaves
  <2>5. doubled \subseteq doubled'  BY <2>1 DEF Reconcile
  <2>6. RecordsOK'  BY <1>1, StartType
  <2>  QED  BY <2>2, <2>3, <2>4, <2>5, <2>6, Composed DEF RunsEnd
<1>2. CASE Dispatch(s)
  <2>1. PICK B, A : Dispatched(Discovered, B, A)  BY <1>2 DEF Dispatch
  <2>2. PICK due \in SUBSET Executions :
          runner' = [runner EXCEPT ![s].step = "between", ![s].due = due]
    BY <1>2 DEF Dispatch
  <2>3. runner[s].step = "ticking" /\ UNCHANGED <<delivered, doubled, bounds>>
    BY <1>2 DEF Dispatch, records, charges
  <2>4. RunsEnd  BY <2>2, <2>3, TickGoesOn
  <2>5. \A e \in Executions : Move(e)
    BY <2>1, <2>3, <2>4, DispatchedMove DEF RunsEnd
  <2>6. \A o \in Opportunities : LeavesLive(o)
    BY <2>1, <2>3, DispatchedLeaves
  <2>7. RecordsOK'  BY <1>2, DispatchType
  <2>  QED  BY <2>3, <2>4, <2>5, <2>6, <2>7, Composed DEF RunsEnd
<1>3. CASE TickEnd(s) \/ TickThrows(s)
  <2>1. UNCHANGED <<opportunity, execution, overdue, delivered, ledger, policyVars,
                    doubled, bounds>>
    BY <1>3 DEF TickEnd, TickThrows, records
  <2>2. RunsEnd
    BY <1>3, AllEnd, IdleEnds DEF TickEnd, TickThrows, EveryRunDies
  <2>3. charged' \in [Executions -> Nat] /\ lost' \in [Executions -> Nat]
        /\ bill' \in [Runners -> Nat]
    BY <1>3, DeathType DEF TickEnd, TickThrows, records, charges, WorkTypeOK
  <2>4. RecordsOK'
    BY <2>1, <2>3 DEF RecordsOK, OpportunityOK, policyVars, bounds
  <2>  QED  BY <2>1, <2>2, <2>4, Quiet DEF RowKept, bounds
<1>  QED  BY <1>1, <1>2, <1>3 DEF Tick

LEMMA RunKeeps ==
  ASSUME WorkTypeOK, NEW r \in Runners, NEW f \in Executions, RunStep(r, f)
  PROVE  StepKeeps
<1>  USE TypeParts
<1>1. RecordsOK'
  BY RefusedType, BeginType, ToolType, ChargeType, AnswerType, FailType DEF RunStep
<1>2. RunnersOK'
  BY ReturnEnds, BeginRuns, ModelBegins, RunsStay
  DEF RunStep, BeginRefused, ToolReturns, ModelCharges, ModelAnswers, RunFails, RunsEnd
<1>3. \A e \in Executions : Owned(e) => Move(e)
  BY RefusedMove, BeginMove, ToolMove, ChargeMove, AnswerMove, FailMove DEF RunStep
<1>4. UNCHANGED doubled
  BY DEF RunStep, BeginRefused, Begin, ToolReturns, ModelCharges, ModelAnswers, RunFails
<1>  QED  BY <1>1, <1>2, <1>3, <1>4, RunLeaves, Composed

LEMMA OwnerKeeps ==
  ASSUME WorkTypeOK,
         \/ \E o \in Opportunities : OwnerAuthorizes(o) \/ OwnerEvaluates(o)
         \/ \E e \in Executions, a \in Agents : Reassign(e, a)
         \/ \E e \in Executions : Expire(e)
         \/ OwnerSwitches
  PROVE  StepKeeps
<1>1. RecordsOK'  BY OwnerType, TypeParts
<1>2. UNCHANGED <<delivered, doubled, runner>>
  BY DEF OwnerAuthorizes, OwnerEvaluates, Reassign, Expire, OwnerSwitches, records, charges
<1>3. RunsEnd  BY <1>2, RunsStay
<1>4. CASE \E o \in Opportunities : OwnerAuthorizes(o)
  <2>1. PICK p \in Opportunities : OwnerAuthorizes(p)  BY <1>4
  <2>2. \A e \in Executions : Move(e)
    BY <1>2, <1>3, <2>1, StartAllMove DEF OwnerAuthorizes, RunsEnd, Move
  <2>3. \A o \in Opportunities : LeavesLive(o)  BY <2>1, AuthorizesLeaves
  <2>  QED  BY <1>1, <1>2, <1>3, <2>2, <2>3, Composed DEF RunsEnd
<1>5. CASE ~ \E o \in Opportunities : OwnerAuthorizes(o)
  <2>1. UNCHANGED crashes
    BY <1>5 DEF OwnerEvaluates, Reassign, Expire, OwnerSwitches, bounds
  <2>2. \A o \in Opportunities : opportunity'[o] = "executing" =>
                                 opportunity[o] = "executing"
    BY <1>5 DEF OwnerEvaluates, Reassign, Expire, OwnerSwitches, WorkTypeOK
  <2>3. \A e \in Executions : RowKept(e)
    <3>1. CASE \E f \in Executions, a \in Agents : Reassign(f, a)
      <4>1. PICK f \in Executions, a \in Agents : Reassign(f, a)  BY <3>1
      <4>2. execution[f] \in ExecutionRecord  BY <4>1 DEF WorkTypeOK
      <4>3. [execution[f] EXCEPT !.agent = a].status = execution[f].status
            /\ [execution[f] EXCEPT !.agent = a].attempts = execution[f].attempts
        BY <4>2 DEF ExecutionRecord
      <4>  QED  BY <1>2, <4>1, <4>3 DEF Reassign, WorkTypeOK, RowKept
    <3>2. CASE UNCHANGED execution
      BY <1>2, <3>2 DEF RowKept
    <3>  QED  BY <1>5, <3>1, <3>2 DEF OwnerEvaluates, Expire, OwnerSwitches
  <2>  QED  BY <1>1, <1>2, <1>3, <2>1, <2>2, <2>3, Quiet
<1>  QED  BY <1>4, <1>5

LEMMA CrashKeeps ==
  ASSUME WorkTypeOK, Crash
  PROVE  StepKeeps
<1>1. RecordsOK'  BY CrashType, TypeParts
<1>2. RunsEnd /\ UNCHANGED delivered /\ \A r \in Runners, e \in Executions : ~Works(r, e)'
  BY AllEnd DEF Crash, EveryRunDies
<1>3. \A o \in Opportunities : LeavesLive(o)
  BY DEF LeavesLive, Crash, WorkTypeOK
<1>4. doubled \subseteq doubled'
  BY DEF Crash, PartOfStep, Reconcile
<1>5. \A e \in Executions \ doubled' : Owned(e) => Move(e)
  <2>1. SUFFICES ASSUME NEW e \in Executions \ doubled', Owned(e) PROVE Move(e)
    OBVIOUS
  <2>2. RunsKept(e)  BY <1>2 DEF RunsEnd
  <2>3. CASE UNCHANGED <<opportunity, execution, overdue, doubled>>
    BY <1>2, <2>2, <2>3 DEF Kept, Move
  <2>4. CASE \E S \in SUBSET Stale : \E f \in S : Reconcile(S, S \ {f})
    BY <1>2, <2>1, <2>2, <2>4, ReconcileMove
  <2>5. CASE \E D \in SUBSET Discovered : \E B \in SUBSET D, A \in SUBSET D :
               Dispatched(D, B, A)
    BY <1>2, <2>2, <2>5, DispatchedMove
  <2>6. CASE \E r \in Runners, f \in Executions, s \in {"cancelled", "failed"} :
               Close(f, s) /\ (CanBegin(r, f) \/ Works(r, f))
    <3>1. PICK r \in Runners, f \in Executions, s \in {"cancelled", "failed"} :
            Close(f, s) /\ (CanBegin(r, f) \/ Works(r, f))
      BY <2>6
    <3>2. CASE e # f
      BY <1>2, <2>2, <3>1, <3>2, CloseRow DEF Kept, Move
    <3>3. CASE e = f
      <4>1. execution[e].status \in Live
        BY <2>1, <3>1, <3>3 DEF Owned, CanBegin, Live
      <4>2. execution'[e].status = s /\ execution'[e].attempts = execution[e].attempts
        BY <3>1, <3>3, CloseRow
      <4>  QED  BY <1>2, <3>1, <4>1, <4>2 DEF Closed, Move, Final
    <3>  QED  BY <3>2, <3>3
  <2>  QED  BY <2>3, <2>4, <2>5, <2>6, RefusalStates DEF Crash, PartOfStep
<1>  QED  BY <1>1, <1>2, <1>3, <1>4, <1>5, Composed DEF RunsEnd

LEMMA EveryStep ==
  ASSUME WorkTypeOK, [Next]_vars
  PROVE  StepKeeps
<1>1. CASE UNCHANGED vars
  <2>1. RecordsOK' /\ RunsEnd
    BY <1>1, TypeParts, RunsStay
    DEF vars, RecordsOK, OpportunityOK, records, charges, policyVars, bounds
  <2>  QED  BY <1>1, <2>1, Quiet DEF vars, records, charges, bounds, RowKept
<1>2. CASE Next
  BY <1>2, TickKeeps, RunKeeps, OwnerKeeps, CrashKeeps DEF Next
<1>  QED  BY <1>1, <1>2

-----------------------------------------------------------------------------
(* The invariant.                                                          *)

\* An execution that is done or has not begun has no runner.
LEMMA OwnedMoves ==
  ASSUME WorkTypeOK, WorkTypeOK', NEW e \in Executions, Owned(e), Move(e)
  PROVE  Owned(e)'
<1>1. /\ execution[e].attempts \in Nat /\ execution'[e].attempts \in Nat
      /\ delivered[e] \in Nat
  BY DEF WorkTypeOK, ExecutionRecord
<1>2. CASE Kept(e)
  BY <1>2 DEF Owned, Kept, RunsKept
<1>3. CASE Started(e)
  <2>1. execution[e].status = "none"
    BY <1>3 DEF Started, NextRound, Status
  <2>2. \A r \in Runners : ~Works(r, e)'
    BY <1>3, <2>1 DEF Owned, Started, RunsKept
  <2>  QED  BY <1>3, <2>1, <2>2, WorkAssumption DEF Owned, Started
<1>4. CASE Closed(e)
  <2>1. delivered[e] = 0  BY <1>4 DEF Owned, Closed, Live
  <2>  QED  BY <1>1, <1>4, <2>1 DEF Owned, Closed, Final
<1>5. CASE Begun(e)
  <2>1. PICK r \in Runners : /\ runner'[r].snapshot.attempts = execution[e].attempts
                             /\ \A q \in Runners : Works(q, e)' => q = r
    BY <1>5 DEF Begun
  <2>2. /\ execution'[e].status = "running" /\ delivered'[e] = delivered[e]
        /\ execution'[e].attempts = execution[e].attempts + 1
        /\ execution[e].attempts < MaxAttempts /\ delivered[e] = 0
    BY <1>5 DEF Owned, Begun
  <2>3. execution'[e].attempts <= MaxAttempts  BY <1>1, <2>2, WorkAssumption
  <2>  QED  BY <2>1, <2>2, <2>3 DEF Owned
<1>  QED  BY <1>2, <1>3, <1>4, <1>5 DEF Move

\* What lives after a step lived before it, or is the next round of an
\* opportunity of which nothing lived.
LEMMA OneLiveMoves ==
  ASSUME WorkInv, StepKeeps
  PROVE  OneLiveExecution'
<1>1. SUFFICES ASSUME NEW o \in Opportunities, Of(o) \cap doubled' = {}
               PROVE  /\ \A e, f \in Of(o) : execution'[e].status \in Live
                                             /\ execution'[f].status \in Live => e = f
                      /\ opportunity'[o] = "executing" /\ crashes' = 0 =>
                           \E e \in Of(o) : execution'[e].status \in Live
  BY DEF OneLiveExecution, Status, HasLive, Of
<1>2. Of(o) \cap doubled = {}  BY <1>1 DEF StepKeeps
<1>3. /\ \A e, f \in Of(o) : execution[e].status \in Live
                             /\ execution[f].status \in Live => e = f
      /\ opportunity[o] = "executing" /\ crashes = 0 =>
           \E e \in Of(o) : execution[e].status \in Live
  BY <1>2 DEF WorkInv, OneLiveExecution, Status, HasLive, Of
<1>4. \A e \in Of(o) : execution'[e].status \in Live =>
        execution[e].status \in Live \/ (e \in NextRound(o) /\ ~HasLive(o))
  <2>1. SUFFICES ASSUME NEW e \in Of(o), execution'[e].status \in Live
                 PROVE  execution[e].status \in Live
                        \/ (e \in NextRound(o) /\ ~HasLive(o))
    OBVIOUS
  <2>2. e \in Executions \ doubled' /\ e[1] = o /\ Owned(e)
    BY <1>1, <1>2 DEF Of, WorkInv, AllOwned
  <2>3. Move(e)  BY <2>2 DEF StepKeeps
  <2>  QED  BY <2>1, <2>2, <2>3 DEF Move, Kept, Started, Closed, Begun, Live
<1>5. \A e, f \in Of(o) : execution'[e].status \in Live
                          /\ execution'[f].status \in Live => e = f
  BY <1>3, <1>4, OneNextRound DEF HasLive, Status, Of
<1>6. opportunity'[o] = "executing" /\ crashes' = 0 =>
        \E e \in Of(o) : execution'[e].status \in Live
  BY <1>3 DEF StepKeeps, LeavesLive
<1>  QED  BY <1>5, <1>6

LEMMA InitInv ==
  ASSUME Init
  PROVE  WorkInv
<1>1. Unstarted.status = "none" /\ Unstarted.attempts = 0  BY DEF Unstarted
<1>2. OpportunityOK  BY DEF Init, OpportunityOK
<1>3. RecordsOK
  BY <1>2, UnstartedType, WorkAssumption DEF Init, RecordsOK
<1>4. RunnersOK  BY IdleType DEF Init, RunnersOK
<1>5. AllOwned
  BY <1>1, IdleType, WorkAssumption DEF Init, AllOwned, Owned, Works
<1>6. OneLiveExecution
  BY <1>1 DEF Init, OneLiveExecution, Status, Of, Live
<1>  QED  BY <1>3, <1>4, <1>5, <1>6, TypeParts DEF WorkInv

LEMMA StepInv ==
  ASSUME WorkInv, [Next]_vars
  PROVE  WorkInv' /\ StepKeeps
<1>1. StepKeeps  BY EveryStep DEF WorkInv
<1>2. WorkTypeOK'  BY <1>1 DEF StepKeeps
<1>3. AllOwned'
  BY <1>1, <1>2, OwnedMoves DEF WorkInv, AllOwned, StepKeeps
<1>  QED  BY <1>1, <1>2, <1>3, OneLiveMoves DEF WorkInv

\* The invariant holds in every state of every instance.
THEOREM WorkInvariant == Spec => []WorkInv
<1>1. Init => WorkInv  BY InitInv
<1>2. WorkInv /\ [Next]_vars => WorkInv'  BY StepInv
<1>  QED  BY <1>1, <1>2, PTL DEF Spec

\* The variables of a run always have their types.
THEOREM WorkTypeCorrect == Spec => []WorkTypeOK
<1>1. WorkInv => WorkTypeOK  BY DEF WorkInv
<1>  QED  BY <1>1, WorkInvariant, PTL

\* runExecution: whoever works on an execution is the one that claimed it, and
\* its attempts stay within its budget, unless reconciliation took it from a
\* run that outlived its timeout.
THEOREM ExecutionWorkedOnce == Spec => []WorkedOnce
<1>1. WorkInv => WorkedOnce
  <2>1. SUFFICES ASSUME WorkInv, NEW e \in Executions \ doubled
                 PROVE  /\ \A r, q \in Runners : Works(r, e) /\ Works(q, e) => r = q
                        /\ e \in WorkedOn => execution[e].status = "running"
                        /\ execution[e].attempts <= MaxAttempts
                        /\ execution[e].status = "authorized" => ~Spent(e)
    BY DEF WorkedOnce
  <2>2. Owned(e)  BY <2>1 DEF WorkInv, AllOwned
  <2>3. execution[e].attempts \in Nat
    BY <2>1 DEF WorkInv, WorkTypeOK, ExecutionRecord
  <2>  QED  BY <2>2, <2>3, WorkAssumption DEF Owned, WorkedOn, Spent
<1>  QED  BY <1>1, WorkInvariant, PTL

\* completeExecution: what is completed was delivered, once, and nothing else
\* was.
THEOREM DeliveredIfCompleted == Spec => []CompletedIsDelivered
<1>1. WorkInv => CompletedIsDelivered
  BY DEF WorkInv, AllOwned, Owned, CompletedIsDelivered
<1>  QED  BY <1>1, WorkInvariant, PTL

\* startExecution: an opportunity has one live execution at most, and is
\* executing only while it has one.
THEOREM OneLive == Spec => []OneLiveExecution
<1>1. WorkInv => OneLiveExecution  BY DEF WorkInv
<1>  QED  BY <1>1, WorkInvariant, PTL

\* A final execution is never reopened: not by a late answer, a late failure,
\* reconciliation, a crash or the owner.
THEOREM FinalKept == Spec => FinalStaysFinal
<1>1. WorkInv /\ [Next]_vars =>
        [\A e \in Executions \ doubled' :
           execution[e].status \in Final => execution'[e].status = execution[e].status]_vars
  <2>1. SUFFICES ASSUME WorkInv, [Next]_vars, NEW e \in Executions \ doubled',
                        execution[e].status \in Final
                 PROVE  execution'[e].status = execution[e].status
    OBVIOUS
  <2>2. StepKeeps  BY <2>1, StepInv
  <2>3. Owned(e)  BY <2>1, <2>2 DEF WorkInv, AllOwned, StepKeeps
  <2>4. Move(e)  BY <2>1, <2>2, <2>3 DEF StepKeeps
  <2>  QED
    BY <2>1, <2>4
    DEF Move, Kept, Started, Closed, Begun, NextRound, Status, Final, Live
<1>  QED  BY <1>1, WorkInvariant, PTL DEF Spec, FinalStaysFinal

-----------------------------------------------------------------------------
(* What the ledger says an execution cost.                                 *)

LedgerRows    == [execution : Executions, attempt : Nat, cents : Nat \ {0}]
RowsIn(L, e)  == {x \in L : x.execution = e}
Cents(L)      == [x \in L |-> x.cents]
BookedIn(L, e) == Total(Cents(L), RowsIn(L, e))

\* What is booked is the sum over the rows of the execution.
LEMMA BookedRows == \A e : Booked(e) = BookedIn(ledger, e)
BY DEF Booked, BookedIn, RowsIn, Cents

\* The cents of the rows of an execution can be summed up.
LEMMA CentsAre ==
  \A L, e : IsFiniteSet(L) /\ L \subseteq LedgerRows
            => NatOn(Cents(L), RowsIn(L, e)) /\ IntOn(Cents(L), RowsIn(L, e))
<1>  SUFFICES ASSUME NEW L, NEW e, IsFiniteSet(L), L \subseteq LedgerRows
              PROVE  NatOn(Cents(L), RowsIn(L, e))
  BY NatIsInt
<1>1. RowsIn(L, e) \subseteq L
  BY DEF RowsIn
<1>2. IsFiniteSet(RowsIn(L, e))
  BY <1>1, FS_Subset
<1>3. \A x \in RowsIn(L, e) : Cents(L)[x] \in Nat
  BY <1>1 DEF Cents, LedgerRows
<1>  QED  BY <1>2, <1>3 DEF NatOn

\* The rows of another execution do not count.
LEMMA BookedSame ==
  \A L, M, e : /\ IsFiniteSet(L) /\ L \subseteq LedgerRows
               /\ RowsIn(M, e) = RowsIn(L, e)
               => BookedIn(M, e) = BookedIn(L, e)
<1>  SUFFICES ASSUME NEW L, NEW M, NEW e, IsFiniteSet(L), L \subseteq LedgerRows,
                     RowsIn(M, e) = RowsIn(L, e)
              PROVE  Total(Cents(M), RowsIn(L, e)) = Total(Cents(L), RowsIn(L, e))
  BY DEF BookedIn
<1>1. \A x \in RowsIn(L, e) : Cents(L)[x] = Cents(M)[x]
  <2>1. RowsIn(L, e) \subseteq L /\ RowsIn(L, e) \subseteq M
    <3>1. RowsIn(M, e) \subseteq M /\ RowsIn(L, e) \subseteq L
      BY DEF RowsIn
    <3>  QED  BY <3>1
  <2>  QED  BY <2>1 DEF Cents
<1>2. IntOn(Cents(L), RowsIn(L, e))
  BY CentsAre
<1>  QED  BY <1>1, <1>2, TotalSame

\* M has a row of e more than the ledger L.
NewRow(L, M, e, p) ==
  /\ IsFiniteSet(L) /\ L \subseteq LedgerRows
  /\ p \in LedgerRows \ L /\ M = L \cup {p} /\ p.execution = e

\* A row that was not there is counted.
LEMMA BookedMore ==
  \A L, M, e, p : NewRow(L, M, e, p) => BookedIn(M, e) = BookedIn(L, e) + p.cents
<1>  SUFFICES ASSUME NEW L, NEW M, NEW e, NEW p, IsFiniteSet(L), L \subseteq LedgerRows,
                     p \in LedgerRows \ L, M = L \cup {p}, p.execution = e
              PROVE  BookedIn(M, e) = BookedIn(L, e) + p.cents
  BY DEF NewRow
<1>1. IsFiniteSet(M) /\ M \subseteq LedgerRows
  <2>1. IsFiniteSet(L \cup {p})
    BY FS_AddElement
  <2>  QED  BY <2>1
<1>2. IntOn(Cents(L), RowsIn(L, e)) /\ IntOn(Cents(M), RowsIn(M, e))
  BY <1>1, CentsAre
<1>3. RowsIn(L, e) \ {p} = RowsIn(M, e) \ {p}
  BY DEF RowsIn
<1>4. \A y \in RowsIn(L, e) \ {p} : Cents(L)[y] = Cents(M)[y]
  BY DEF RowsIn, Cents
<1>5. BookedIn(M, e) = BookedIn(L, e) - At(Cents(L), RowsIn(L, e), p)
                       + At(Cents(M), RowsIn(M, e), p)
  BY <1>2, <1>3, <1>4, TotalStep DEF BookedIn
<1>6. At(Cents(L), RowsIn(L, e), p) = 0 /\ At(Cents(M), RowsIn(M, e), p) = p.cents
  BY DEF At, RowsIn, Cents
<1>7. BookedIn(L, e) \in Int /\ p.cents \in Nat
  BY <1>2, TotalInt DEF BookedIn, LedgerRows
<1>  QED  BY <1>5, <1>6, <1>7

-----------------------------------------------------------------------------
(* The invariant about costs, and what a step may do to those of one       *)
(* execution.                                                              *)

\* No two runs of e, not even those of a doubled one, remember the same
\* attempt, and none remembers one that is posted.
AttemptsDiffer(e) ==
  /\ \A r \in Runners : Works(r, e) =>
       runner[r].snapshot.attempts < execution[e].attempts
  /\ \A r, q \in Runners : Works(r, e) /\ Works(q, e) /\ r # q =>
       runner[r].snapshot.attempts # runner[q].snapshot.attempts
  /\ \A x \in RowsIn(ledger, e) :
       /\ x.attempt <= execution[e].attempts
       /\ \A r \in Runners : Works(r, e) => x.attempt # runner[r].snapshot.attempts + 1

\* An undoubled execution and its run know what is booked.
CostKnown(e) ==
  /\ execution[e].status = "none" => execution[e].attempts = 0 /\ execution[e].cost = 0
  /\ e \notin doubled =>
       /\ execution[e].cost = Booked(e)
       /\ \A r \in Runners : Works(r, e) => runner[r].snapshot.cost = execution[e].cost

CostInv ==
  /\ IsFiniteSet(ledger)
  /\ \A e \in Executions : AttemptsDiffer(e) /\ CostKnown(e)

\* The row of e keeps its attempts and its cost.
RowSteady(e) ==
  /\ execution'[e].attempts = execution[e].attempts
  /\ execution'[e].cost = execution[e].cost
  /\ execution'[e].status = "none" => execution[e].status = "none"
BooksSteady(e) == RowsIn(ledger', e) = RowsIn(ledger, e)

Steady(e) == RowSteady(e) /\ BooksSteady(e) /\ RunsKept(e)

Opened(e) ==
  /\ execution[e].status = "none" /\ execution'[e].status # "none"
  /\ execution'[e].attempts = 0 /\ execution'[e].cost = 0
  /\ BooksSteady(e) /\ RunsKept(e)

Claimed(e) ==
  /\ execution'[e].attempts = execution[e].attempts + 1
  /\ execution'[e].cost = execution[e].cost
  /\ execution'[e].status # "none"
  /\ BooksSteady(e)
  /\ \E r \in Runners :
       /\ runner'[r].snapshot = execution[e]
       /\ \A q \in Runners : Works(q, e)' =>
            q = r \/ (Works(q, e) /\ runner'[q].snapshot = runner[q].snapshot)

Answered(e) ==
  \E r \in Runners, cents \in Nat :
    /\ Works(r, e)
    /\ Post(e, runner[r].snapshot.attempts + 1, cents)
    /\ execution'[e].attempts = execution[e].attempts
    /\ execution'[e].cost = runner[r].snapshot.cost + cents
    /\ execution'[e].status # "none"
    /\ \A q \in Runners : Works(q, e)' =>
         Works(q, e) /\ q # r /\ runner'[q].snapshot = runner[q].snapshot

CostMove(e) == Steady(e) \/ Opened(e) \/ Claimed(e) \/ Answered(e)
CostMoves == /\ \A e \in Executions : CostMove(e)
             /\ IsFiniteSet(ledger) => IsFiniteSet(ledger')
\* A step that leaves the books of e alone leaves what is booked.
LEMMA BooksStay ==
  ASSUME WorkTypeOK, IsFiniteSet(ledger), NEW e \in Executions, BooksSteady(e)
  PROVE  Booked(e)' = Booked(e)
<1>1. ledger \subseteq LedgerRows
  BY DEF WorkTypeOK, LedgerRows
<1>2. BookedIn(ledger', e) = BookedIn(ledger, e)
  BY <1>1, BookedSame DEF BooksSteady
<1>3. Booked(e)' = BookedIn(ledger', e)
  BY DEF Booked, BookedIn, RowsIn, Cents
<1>  QED  BY <1>2, <1>3, BookedRows

\* The answer of a run posts an attempt that nobody posted.
LEMMA PostBooks ==
  ASSUME WorkTypeOK, IsFiniteSet(ledger), NEW e \in Executions, AttemptsDiffer(e),
         NEW r \in Runners, Works(r, e), NEW cents \in Nat,
         Post(e, runner[r].snapshot.attempts + 1, cents)
  PROVE  Booked(e)' = Booked(e) + cents
<1>1. ledger \subseteq LedgerRows
  BY DEF WorkTypeOK, LedgerRows
<1>2. BookedIn(ledger, e) \in Int
  BY <1>1, CentsAre, TotalInt DEF BookedIn
<1>3. Booked(e)' = BookedIn(ledger', e) /\ Booked(e) = BookedIn(ledger, e)
  BY BookedRows DEF Booked, BookedIn, RowsIn, Cents
<1>4. ~ \E x \in ledger : x.execution = e /\ x.attempt = runner[r].snapshot.attempts + 1
  BY DEF AttemptsDiffer, RowsIn
<1>5. CASE cents = 0
  <2>1. ledger' = ledger
    BY <1>5 DEF Post
  <2>  QED  BY <1>2, <1>3, <1>5, <2>1
<1>6. CASE cents # 0
  <2>1. PICK p : p = [execution |-> e, attempt |-> runner[r].snapshot.attempts + 1,
                      cents |-> cents]
    OBVIOUS
  <2>2. ledger' = ledger \cup {p}
    BY <1>4, <1>6, <2>1 DEF Post
  <2>3. runner[r].snapshot.attempts + 1 \in Nat
    BY DEF WorkTypeOK, RunnerRecord, ExecutionRecord
  <2>4. p \in LedgerRows \ ledger /\ p.execution = e /\ p.cents = cents
    BY <1>4, <1>6, <2>1, <2>3 DEF LedgerRows
  <2>5. NewRow(ledger, ledger', e, p)
    BY <1>1, <2>2, <2>4 DEF NewRow
  <2>6. BookedIn(ledger', e) = BookedIn(ledger, e) + p.cents
    BY <2>5, BookedMore
  <2>  QED  BY <1>3, <2>4, <2>6
<1>  QED  BY <1>5, <1>6

\* The attempts that are remembered and posted stay apart: a claim takes a
\* number that nobody had, and an answer posts the one that its run gives up.
LEMMA AttemptsMove ==
  ASSUME WorkTypeOK, WorkTypeOK', NEW e \in Executions, AttemptsDiffer(e),
         CostKnown(e), CostMove(e)
  PROVE  AttemptsDiffer(e)'
<1>1. /\ execution[e].attempts \in Nat /\ execution'[e].attempts \in Nat
      /\ \A r \in Runners : runner[r].snapshot.attempts \in Nat
  BY DEF WorkTypeOK, ExecutionRecord, RunnerRecord
<1>2. \A x \in RowsIn(ledger, e) : x.attempt \in Nat
  BY DEF RowsIn, WorkTypeOK
<1>3. SUFFICES
        /\ \A r \in Runners : Works(r, e)' =>
             runner'[r].snapshot.attempts < execution'[e].attempts
        /\ \A r, q \in Runners : Works(r, e)' /\ Works(q, e)' /\ r # q =>
             runner'[r].snapshot.attempts # runner'[q].snapshot.attempts
        /\ \A x \in RowsIn(ledger', e) :
             /\ x.attempt <= execution'[e].attempts
             /\ \A r \in Runners : Works(r, e)' =>
                  x.attempt # runner'[r].snapshot.attempts + 1
  BY DEF AttemptsDiffer, RowsIn
<1>4. CASE Steady(e)
  BY <1>4 DEF AttemptsDiffer, Steady, RowSteady, BooksSteady, RunsKept
<1>5. CASE Opened(e)
  <2>1. execution[e].attempts = 0
    BY <1>5 DEF Opened, CostKnown
  <2>2. \A r \in Runners : ~Works(r, e)
    BY <1>1, <2>1 DEF AttemptsDiffer
  <2>3. \A r \in Runners : ~Works(r, e)'
    BY <1>5, <2>2 DEF Opened, RunsKept
  <2>4. RowsIn(ledger', e) = RowsIn(ledger, e) /\ execution'[e].attempts = 0
    BY <1>5 DEF Opened, BooksSteady
  <2>  QED  BY <2>1, <2>3, <2>4 DEF AttemptsDiffer
<1>6. CASE Claimed(e)
  <2>1. PICK r \in Runners :
          /\ runner'[r].snapshot = execution[e]
          /\ \A q \in Runners : Works(q, e)' =>
               q = r \/ (Works(q, e) /\ runner'[q].snapshot = runner[q].snapshot)
    BY <1>6 DEF Claimed
  <2>2. execution'[e].attempts = execution[e].attempts + 1
        /\ RowsIn(ledger', e) = RowsIn(ledger, e)
    BY <1>6 DEF Claimed, BooksSteady
  <2>3. \A q \in Runners : Works(q, e)' /\ q # r =>
          /\ runner'[q].snapshot.attempts = runner[q].snapshot.attempts
          /\ runner[q].snapshot.attempts < execution[e].attempts /\ Works(q, e)
    BY <2>1 DEF AttemptsDiffer
  <2>4. runner'[r].snapshot.attempts = execution[e].attempts
    BY <2>1
  <2>5. \A q \in Runners : Works(q, e)' =>
          runner'[q].snapshot.attempts < execution'[e].attempts
    BY <1>1, <2>2, <2>3, <2>4
  <2>6. \A p, q \in Runners : Works(p, e)' /\ Works(q, e)' /\ p # q =>
          runner'[p].snapshot.attempts # runner'[q].snapshot.attempts
    BY <1>1, <2>3, <2>4 DEF AttemptsDiffer
  <2>7. \A x \in RowsIn(ledger, e) :
          /\ x.attempt <= execution'[e].attempts
          /\ \A q \in Runners : Works(q, e)' =>
               x.attempt # runner'[q].snapshot.attempts + 1
    BY <1>1, <1>2, <2>2, <2>3, <2>4 DEF AttemptsDiffer
  <2>  QED  BY <2>2, <2>5, <2>6, <2>7
<1>7. CASE Answered(e)
  <2>1. PICK r \in Runners, cents \in Nat :
          /\ Works(r, e)
          /\ Post(e, runner[r].snapshot.attempts + 1, cents)
          /\ execution'[e].attempts = execution[e].attempts
          /\ \A q \in Runners : Works(q, e)' =>
               Works(q, e) /\ q # r /\ runner'[q].snapshot = runner[q].snapshot
    BY <1>7 DEF Answered
  <2>2. \A x \in RowsIn(ledger', e) :
          x \in RowsIn(ledger, e) \/ x.attempt = runner[r].snapshot.attempts + 1
    BY <2>1 DEF Post, RowsIn
  <2>3. runner[r].snapshot.attempts + 1 <= execution[e].attempts
    BY <1>1, <2>1 DEF AttemptsDiffer
  <2>4. \A q \in Runners : Works(q, e)' =>
          runner[r].snapshot.attempts + 1 # runner'[q].snapshot.attempts + 1
    BY <1>1, <2>1 DEF AttemptsDiffer
  <2>5. \A x \in RowsIn(ledger', e) :
          /\ x.attempt <= execution'[e].attempts
          /\ \A q \in Runners : Works(q, e)' =>
               x.attempt # runner'[q].snapshot.attempts + 1
    BY <2>1, <2>2, <2>3, <2>4 DEF AttemptsDiffer
  <2>  QED  BY <2>1, <2>5 DEF AttemptsDiffer
<1>  QED  BY <1>4, <1>5, <1>6, <1>7 DEF CostMove

\* The row of an execution which one runner worked on shows what is booked.
LEMMA CostsMove ==
  ASSUME WorkTypeOK, WorkTypeOK', IsFiniteSet(ledger), AllOwned,
         doubled \subseteq doubled', NEW e \in Executions, AttemptsDiffer(e),
         CostKnown(e), CostMove(e)
  PROVE  CostKnown(e)'
<1>1. SUFFICES
        /\ execution'[e].status = "none" =>
             execution'[e].attempts = 0 /\ execution'[e].cost = 0
        /\ e \notin doubled' =>
             /\ execution'[e].cost = Booked(e)'
             /\ \A r \in Runners : Works(r, e)' =>
                  runner'[r].snapshot.cost = execution'[e].cost
  BY DEF CostKnown
<1>2. e \notin doubled' =>
        /\ e \notin doubled /\ Owned(e)
        /\ execution[e].cost = Booked(e)
        /\ \A r \in Runners : Works(r, e) => runner[r].snapshot.cost = execution[e].cost
  BY DEF CostKnown, AllOwned
<1>4. CASE Steady(e)
  <2>1. Booked(e)' = Booked(e)
    BY <1>4, BooksStay DEF Steady
  <2>2. execution'[e].cost = execution[e].cost
    BY <1>4 DEF Steady, RowSteady, BooksSteady
  <2>3. execution'[e].status = "none" =>
          execution'[e].attempts = 0 /\ execution'[e].cost = 0
    BY <1>4 DEF Steady, RowSteady, CostKnown
  <2>4. \A r \in Runners : Works(r, e)' =>
          Works(r, e) /\ runner'[r].snapshot = runner[r].snapshot
    BY <1>4 DEF Steady, RunsKept
  <2>  QED  BY <1>2, <2>1, <2>2, <2>3, <2>4
<1>5. CASE Opened(e)
  <2>1. Booked(e)' = Booked(e)
    BY <1>5, BooksStay DEF Opened
  <2>2. /\ execution'[e].cost = execution[e].cost
        /\ execution'[e].status # "none"
    BY <1>5 DEF Opened, BooksSteady, CostKnown
  <2>3. \A r \in Runners : Works(r, e)' =>
          Works(r, e) /\ runner'[r].snapshot = runner[r].snapshot
    BY <1>5 DEF Opened, RunsKept
  <2>  QED  BY <1>2, <2>1, <2>2, <2>3
<1>6. CASE Claimed(e)
  <2>1. Booked(e)' = Booked(e)
    BY <1>6, BooksStay DEF Claimed
  <2>2. /\ execution'[e].cost = execution[e].cost
        /\ execution'[e].status # "none"
    BY <1>6 DEF Claimed, BooksSteady
  <2>3. \A q \in Runners : Works(q, e)' =>
          \/ runner'[q].snapshot = execution[e]
          \/ Works(q, e) /\ runner'[q].snapshot = runner[q].snapshot
    BY <1>6 DEF Claimed
  <2>  QED  BY <1>2, <2>1, <2>2, <2>3
<1>7. CASE Answered(e)
  <2>1. PICK r \in Runners, cents \in Nat :
          /\ Works(r, e)
          /\ Post(e, runner[r].snapshot.attempts + 1, cents)
          /\ execution'[e].cost = runner[r].snapshot.cost + cents
          /\ execution'[e].status # "none"
          /\ \A q \in Runners : Works(q, e)' => Works(q, e) /\ q # r
    BY <1>7 DEF Answered
  <2>2. Booked(e)' = Booked(e) + cents
    BY <2>1, PostBooks
  <2>3. e \notin doubled' => \A q \in Runners : ~Works(q, e)'
    BY <1>2, <2>1 DEF Owned
  <2>  QED  BY <1>2, <2>1, <2>2, <2>3
<1>  QED  BY <1>4, <1>5, <1>6, <1>7 DEF CostMove

\* A step that moves the costs so keeps the invariant about them.
LEMMA CostKept ==
  ASSUME WorkInv, StepKeeps, CostInv, CostMoves
  PROVE  CostInv'
<1>1. WorkTypeOK /\ WorkTypeOK' /\ AllOwned /\ doubled \subseteq doubled'
  BY DEF WorkInv, StepKeeps
<1>2. ASSUME NEW e \in Executions
      PROVE  AttemptsDiffer(e)' /\ CostKnown(e)'
  BY <1>1, AttemptsMove, CostsMove DEF CostInv, CostMoves
<1>  QED  BY <1>2 DEF CostInv, CostMoves
-----------------------------------------------------------------------------
(* What every step does to the costs.                                      *)

\* A step that posts nothing, and of which each row was looked at.
LEMMA NothingPosted ==
  ASSUME UNCHANGED ledger, \A e \in Executions : RunsKept(e),
         \A e \in Executions : RowSteady(e) \/ (BooksSteady(e) => Opened(e))
  PROVE  CostMoves
<1>1. \A e \in Executions : BooksSteady(e)
  BY DEF BooksSteady, RowsIn
<1>  QED  BY <1>1 DEF CostMoves, CostMove, Steady

\* What is started had not begun, and nothing was spent on it.
LEMMA StartAllRow ==
  ASSUME NEW S, StartAll(S), NEW e \in Executions, RunsKept(e)
  PROVE  RowSteady(e) \/ (BooksSteady(e) => Opened(e))
<1>1. CASE e[1] \in S /\ e \in NextRound(e[1])
  <2>1. execution[e].status = "none"  BY <1>1 DEF NextRound, Status
  <2>2. /\ execution'[e].status = "authorized" /\ execution'[e].attempts = 0
        /\ execution'[e].cost = 0
    BY <1>1, StartAllOne
  <2>  QED  BY <2>1, <2>2 DEF Opened
<1>2. CASE ~(e[1] \in S /\ e \in NextRound(e[1]))
  <2>1. execution'[e] = execution[e]  BY <1>2, StartAllOne
  <2>  QED  BY <2>1 DEF RowSteady
<1>  QED  BY <1>1, <1>2

\* Whoever writes a status leaves the costs alone.
LEMMA StatusRow ==
  ASSUME WorkTypeOK, NEW e \in Executions, NEW s, s # "none",
         execution'[e] = [execution[e] EXCEPT !.status = s]
  PROVE  RowSteady(e)
<1>1. execution[e] \in ExecutionRecord  BY DEF WorkTypeOK
<1>2. /\ execution'[e].status = s /\ execution'[e].attempts = execution[e].attempts
      /\ execution'[e].cost = execution[e].cost
  BY <1>1 DEF ExecutionRecord
<1>  QED  BY <1>2 DEF RowSteady

LEMMA CloseSteady ==
  ASSUME WorkTypeOK, NEW f \in Executions, NEW s, s # "none", Close(f, s),
         NEW e \in Executions
  PROVE  RowSteady(e)
<1>1. CASE e = f
  <2>1. execution'[e] = [execution[e] EXCEPT !.status = s]
    BY <1>1 DEF Close, WorkTypeOK
  <2>  QED  BY <2>1, StatusRow
<1>2. CASE e # f
  <2>1. execution'[e] = execution[e]  BY <1>2 DEF Close, WorkTypeOK
  <2>  QED  BY <2>1 DEF RowSteady
<1>  QED  BY <1>1, <1>2

LEMMA ReconcileSteady ==
  ASSUME WorkTypeOK, NEW S, NEW T, Reconcile(S, T), NEW e \in Executions
  PROVE  RowSteady(e)
<1>1. CASE e \in S
  <2>1. PICK s \in {"timed_out", "authorized"} :
          execution'[e] = [execution[e] EXCEPT !.status = s]
    BY <1>1 DEF Reconcile
  <2>  QED  BY <2>1, StatusRow
<1>2. CASE e \notin S
  <2>1. execution'[e] = execution[e]  BY <1>2 DEF Reconcile
  <2>  QED  BY <2>1 DEF RowSteady
<1>  QED  BY <1>1, <1>2

\* A dispatch starts executions and leaves the others.
LEMMA DispatchedRow ==
  ASSUME NEW D, NEW B, NEW A, Dispatched(D, B, A), NEW e \in Executions, RunsKept(e)
  PROVE  RowSteady(e) \/ (BooksSteady(e) => Opened(e))
BY StartAllRow DEF Dispatched

LEMMA TickCosts ==
  ASSUME WorkTypeOK, NEW s \in Schedulers, Tick(s)
  PROVE  CostMoves
<1>1. UNCHANGED ledger
  BY DEF Tick, TickStart, Dispatch, TickEnd, TickThrows, records
<1>2. CASE TickStart(s)
  <2>1. RunsEnd  BY <1>2, RunsStay, TickBegins DEF TickStart
  <2>2. \A e \in Executions : RowSteady(e)
    BY <1>2, ReconcileSteady DEF TickStart
  <2>  QED  BY <1>1, <2>1, <2>2, NothingPosted DEF RunsEnd
<1>3. CASE Dispatch(s)
  <2>1. PICK B, A : Dispatched(Discovered, B, A)  BY <1>3 DEF Dispatch
  <2>2. PICK due \in SUBSET Executions :
          runner' = [runner EXCEPT ![s].step = "between", ![s].due = due]
    BY <1>3 DEF Dispatch
  <2>3. RunsEnd  BY <1>3, <2>2, TickGoesOn DEF Dispatch
  <2>4. \A e \in Executions : RunsKept(e)  BY <2>3 DEF RunsEnd
  <2>5. \A e \in Executions : RowSteady(e) \/ (BooksSteady(e) => Opened(e))
    BY <2>1, <2>4, DispatchedRow
  <2>  QED  BY <1>1, <2>4, <2>5, NothingPosted
<1>4. CASE TickEnd(s) \/ TickThrows(s)
  <2>1. RunsEnd  BY <1>4, AllEnd, IdleEnds DEF TickEnd, TickThrows, EveryRunDies
  <2>2. UNCHANGED execution  BY <1>4 DEF TickEnd, TickThrows
  <2>3. \A e \in Executions : RowSteady(e)  BY <2>2 DEF RowSteady
  <2>  QED  BY <1>1, <2>1, <2>3, NothingPosted DEF RunsEnd
<1>  QED  BY <1>2, <1>3, <1>4 DEF Tick

\* The claim remembers the attempts of the row, and takes the next number.
LEMMA BeginCosts ==
  ASSUME WorkTypeOK, NEW r \in Runners, NEW f \in Executions, Begin(r, f)
  PROVE  CostMoves
<1>1. UNCHANGED ledger  BY DEF Begin, records
<1>2. \A e \in Executions : BooksSteady(e)
  BY <1>1 DEF BooksSteady, RowsIn
<1>3. ASSUME NEW e \in Executions, e # f
      PROVE  CostMove(e)
  <2>1. execution'[e] = execution[e]  BY <1>3 DEF Begin, WorkTypeOK
  <2>2. RunsKept(e)  BY <1>3, BeginRuns
  <2>  QED  BY <1>2, <2>1, <2>2 DEF CostMove, Steady, RowSteady
<1>4. CostMove(f)
  <2>1. execution[f] \in ExecutionRecord  BY DEF WorkTypeOK
  <2>2. /\ execution'[f].status = "running"
        /\ execution'[f].attempts = execution[f].attempts + 1
        /\ execution'[f].cost = execution[f].cost
    BY <2>1 DEF Begin, WorkTypeOK, ExecutionRecord
  <2>3. /\ runner'[r].snapshot = execution[f]
        /\ \A q \in Runners : Works(q, f)' =>
             q = r \/ (Works(q, f) /\ runner'[q].snapshot = runner[q].snapshot)
    BY BeginRuns
  <2>  QED  BY <1>2, <2>2, <2>3 DEF CostMove, Claimed
<1>  QED  BY <1>1, <1>3, <1>4 DEF CostMoves

\* What ends without an answer of the model.
LEMMA EndsCosts ==
  ASSUME WorkTypeOK, NEW r \in Runners, NEW f \in Executions,
         \/ BeginRefused(r, f) \/ ToolReturns(r, f)
         \/ ModelCharges(r, f) \/ RunFails(r, f)
  PROVE  CostMoves
<1>1. UNCHANGED ledger
  BY DEF BeginRefused, ToolReturns, ModelCharges, RunFails, records
<1>2. RunsEnd
  BY ReturnEnds, ModelBegins, RunsStay
  DEF BeginRefused, ToolReturns, ModelCharges, RunFails
<1>3. \/ UNCHANGED execution
      \/ \E s \in {"cancelled", "failed", "authorized"} : Close(f, s)
  BY RefusalStates DEF BeginRefused, ToolReturns, ModelCharges, RunFails
<1>4. \A e \in Executions : RowSteady(e)
  <2>1. CASE UNCHANGED execution  BY <2>1 DEF RowSteady
  <2>2. CASE \E s \in {"cancelled", "failed", "authorized"} : Close(f, s)
    BY <2>2, CloseSteady
  <2>  QED  BY <1>3, <2>1, <2>2
<1>  QED  BY <1>1, <1>2, <1>4, NothingPosted DEF RunsEnd

\* The answer posts the number that its run claimed.
LEMMA AnswerCosts ==
  ASSUME WorkTypeOK, NEW r \in Runners, NEW f \in Executions, ModelAnswers(r, f)
  PROVE  CostMoves
<1>1. Works(r, f) /\ Return(r, f)  BY DEF ModelAnswers
<1>2. PICK v \in BOOLEAN, s \in {"completed", "failed", "cancelled"},
           o \in {"completed", "blocked"} :
        /\ Post(f, runner[r].snapshot.attempts + 1, bill[r])
        /\ Settled(f, runner[r].snapshot.cost + bill[r], v, s, o)
  BY AnswerSettles
<1>3. bill[r] \in Nat  BY DEF WorkTypeOK
<1>4. execution' = [execution EXCEPT ![f].status = s,
                                     ![f].cost = runner[r].snapshot.cost + bill[r]]
  BY <1>2 DEF Settled
<1>5. RunsEnd /\ \A q \in Runners, e \in Executions :
                   Works(q, e)' => Works(q, e) /\ q # r
  BY <1>1, ReturnEnds
<1>6. ASSUME NEW e \in Executions, e # f
      PROVE  CostMove(e)
  <2>1. execution'[e] = execution[e]  BY <1>4, <1>6 DEF WorkTypeOK
  <2>3. RowsIn(ledger', e) = RowsIn(ledger, e)
    BY <1>2, <1>6 DEF Post, RowsIn
  <2>4. RunsKept(e)  BY <1>5 DEF RunsEnd
  <2>  QED  BY <2>1, <2>3, <2>4 DEF CostMove, Steady, RowSteady, BooksSteady
<1>7. CostMove(f)
  <2>1. execution[f] \in ExecutionRecord  BY DEF WorkTypeOK
  <2>2. /\ execution'[f].status # "none"
        /\ execution'[f].attempts = execution[f].attempts
        /\ execution'[f].cost = runner[r].snapshot.cost + bill[r]
    BY <1>4, <2>1 DEF WorkTypeOK, ExecutionRecord
  <2>4. \A q \in Runners : Works(q, f)' =>
          Works(q, f) /\ q # r /\ runner'[q].snapshot = runner[q].snapshot
    BY <1>5 DEF RunsEnd, RunsKept
  <2>5. Answered(f)
    BY <1>1, <1>2, <1>3, <2>2, <2>4 DEF Answered
  <2>  QED  BY <2>5 DEF CostMove
<1>8. IsFiniteSet(ledger) => IsFiniteSet(ledger')
  BY <1>2, FS_AddElement DEF Post
<1>  QED  BY <1>6, <1>7, <1>8 DEF CostMoves

LEMMA OwnerCosts ==
  ASSUME WorkTypeOK,
         \/ \E o \in Opportunities : OwnerAuthorizes(o) \/ OwnerEvaluates(o)
         \/ \E e \in Executions, a \in Agents : Reassign(e, a)
         \/ \E e \in Executions : Expire(e)
         \/ OwnerSwitches
  PROVE  CostMoves
<1>1. UNCHANGED <<ledger, runner>>
  BY DEF OwnerAuthorizes, OwnerEvaluates, Reassign, Expire, OwnerSwitches, records
<1>2. \A e \in Executions : RunsKept(e)
  BY <1>1, RunsStay DEF RunsEnd
<1>3. \A e \in Executions : RowSteady(e) \/ (BooksSteady(e) => Opened(e))
  <2>1. CASE \E o \in Opportunities : OwnerAuthorizes(o)
    BY <1>2, <2>1, StartAllRow DEF OwnerAuthorizes
  <2>2. CASE \E f \in Executions, a \in Agents : Reassign(f, a)
    <3>1. PICK f \in Executions, a \in Agents : Reassign(f, a)  BY <2>2
    <3>2. execution[f] \in ExecutionRecord  BY <3>1 DEF WorkTypeOK
    <3>3. [execution[f] EXCEPT !.agent = a].status = execution[f].status
          /\ [execution[f] EXCEPT !.agent = a].attempts = execution[f].attempts
          /\ [execution[f] EXCEPT !.agent = a].cost = execution[f].cost
      BY <3>2 DEF ExecutionRecord
    <3>  QED  BY <3>1, <3>3 DEF Reassign, WorkTypeOK, RowSteady
  <2>3. CASE UNCHANGED execution
    BY <2>3 DEF RowSteady
  <2>  QED  BY <2>1, <2>2, <2>3 DEF OwnerEvaluates, Expire, OwnerSwitches
<1>  QED  BY <1>1, <1>2, <1>3, NothingPosted

LEMMA CrashCosts ==
  ASSUME WorkTypeOK, Crash
  PROVE  CostMoves
<1>1. UNCHANGED ledger  BY DEF Crash
<1>2. \A e \in Executions : RunsKept(e)
  BY AllEnd DEF Crash, EveryRunDies, RunsEnd
<1>3. \A e \in Executions : RowSteady(e) \/ (BooksSteady(e) => Opened(e))
  <2>1. CASE UNCHANGED execution
    BY <2>1 DEF RowSteady
  <2>2. CASE \E S \in SUBSET Stale : \E f \in S : Reconcile(S, S \ {f})
    BY <2>2, ReconcileSteady
  <2>3. CASE \E D \in SUBSET Discovered : \E B \in SUBSET D, A \in SUBSET D :
               Dispatched(D, B, A)
    BY <1>2, <2>3, DispatchedRow
  <2>4. CASE \E f \in Executions, s \in {"cancelled", "failed"} : Close(f, s)
    BY <2>4, CloseSteady
  <2>  QED  BY <2>1, <2>2, <2>3, <2>4, RefusalStates DEF Crash, PartOfStep
<1>  QED  BY <1>1, <1>2, <1>3, NothingPosted

\* Every step moves the costs so.
LEMMA EveryCost ==
  ASSUME WorkTypeOK, [Next]_vars
  PROVE  CostMoves
<1>1. CASE UNCHANGED vars
  <2>1. UNCHANGED ledger /\ \A e \in Executions : RowSteady(e)
    BY <1>1 DEF vars, records, RowSteady
  <2>2. RunsEnd  BY <1>1, RunsStay DEF vars
  <2>  QED  BY <2>1, <2>2, NothingPosted DEF RunsEnd
<1>2. CASE Next
  BY <1>2, TickCosts, BeginCosts, EndsCosts, AnswerCosts, OwnerCosts, CrashCosts
  DEF Next, RunStep
<1>  QED  BY <1>1, <1>2

\* In the beginning nothing is charged.
LEMMA CostInit ==
  ASSUME Init
  PROVE  CostInv
<1>1. ledger = {} /\ IsFiniteSet(ledger)
  BY FS_EmptySet DEF Init
<1>2. \A e \in Executions : Booked(e) = 0
  <2>1. \A e \in Executions : RowsIn(ledger, e) = {}  BY <1>1 DEF RowsIn
  <2>2. \A e \in Executions : BookedIn(ledger, e) = 0
    BY <2>1, TotalEmpty DEF BookedIn
  <2>  QED  BY <2>2, BookedRows
<1>3. Unstarted.attempts = 0 /\ Unstarted.cost = 0  BY DEF Unstarted
<1>4. \A e \in Executions, r \in Runners : ~Works(r, e)
  BY IdleType DEF Init, Works
<1>5. \A e \in Executions : AttemptsDiffer(e)
  BY <1>1, <1>4 DEF AttemptsDiffer, RowsIn
<1>6. \A e \in Executions : CostKnown(e)
  BY <1>2, <1>3, <1>4 DEF Init, CostKnown
<1>  QED  BY <1>1, <1>5, <1>6 DEF CostInv

-----------------------------------------------------------------------------
(* What the provider charged, and what became of it.                       *)

\* A runner owes something only while it awaits the model.
BillsAwaited == \A r \in Runners : bill[r] # 0 => runner[r].step = "model"
Accounted(e) == charged[e] = Booked(e) + Unbooked(e) + lost[e]
ChargeInv    == BillsAwaited /\ \A e \in Executions : Accounted(e)

\* What a runner owes for e.
Owes(r, e) == At(bill, Workers(e), r)

\* Everything that is summed up is a natural number.
LEMMA BookedInt ==
  ASSUME WorkTypeOK, IsFiniteSet(ledger), NEW e
  PROVE  Booked(e) \in Int
<1>1. ledger \subseteq LedgerRows
  BY DEF WorkTypeOK, LedgerRows
<1>2. BookedIn(ledger, e) \in Int
  BY <1>1, CentsAre, TotalInt DEF BookedIn
<1>  QED  BY <1>2, BookedRows

LEMMA BooksUntouched ==
  ASSUME UNCHANGED ledger, NEW e
  PROVE  Booked(e)' = Booked(e)
BY DEF Booked

\* What one runner does changes its part only.
LEMMA UnbookedOne ==
  ASSUME WorkTypeOK, WorkTypeOK', NEW r, NEW e,
         \A q \in Runners \ {r} : (Works(q, e)' <=> Works(q, e)) /\ bill'[q] = bill[q]
  PROVE  Unbooked(e)' = Unbooked(e) - Owes(r, e) + Owes(r, e)'
<1>1. IntOn(bill, Workers(e))  BY BillsAre
<1>2. IntOn(bill, Workers(e))'
  <2>1. IsFiniteSet(Runners)  BY WorkAssumption, FS_Union
  <2>2. Workers(e)' \subseteq Runners  BY DEF Workers
  <2>3. IsFiniteSet(Workers(e)')  BY <2>1, <2>2, FS_Subset
  <2>4. \A q \in Workers(e)' : bill'[q] \in Int  BY <2>2 DEF WorkTypeOK
  <2>  QED  BY <2>3, <2>4 DEF IntOn
<1>3. PICK f, g, S, T : f = bill /\ g = bill' /\ S = Workers(e) /\ T = Workers(e)'
  OBVIOUS
<1>4. IntOn(f, S)  BY <1>1, <1>3
<1>5. IntOn(g, T)  BY <1>2, <1>3 DEF IntOn
<1>6. S \ {r} = T \ {r}  BY <1>3 DEF Workers
<1>7. \A y \in S \ {r} : f[y] = g[y]  BY <1>3 DEF Workers
<1>8. Total(g, T) = Total(f, S) - At(f, S, r) + At(g, T, r)
  BY <1>4, <1>5, <1>6, <1>7, TotalStep
<1>9. Unbooked(e) = Total(f, S) /\ Unbooked(e)' = Total(g, T)
  BY <1>3 DEF Unbooked, Workers
<1>10. Owes(r, e) = At(f, S, r) /\ Owes(r, e)' = At(g, T, r)
  BY <1>3 DEF Owes, At
<1>  QED  BY <1>8, <1>9, <1>10

\* A step by which nobody is charged, and which only a runner takes that does
\* not await the model.
LEMMA NothingCharged ==
  ASSUME WorkTypeOK, WorkTypeOK', ChargeInv, UNCHANGED <<charges, ledger>>,
         NEW s \in Runners, runner[s].step # "model",
         \A q \in Runners \ {s} : runner'[q] = runner[q]
  PROVE  ChargeInv'
<1>1. bill' = bill /\ charged' = charged /\ lost' = lost  BY DEF charges
<1>2. bill[s] = 0  BY DEF ChargeInv, BillsAwaited
<1>3. BillsAwaited'  BY <1>1, <1>2 DEF ChargeInv, BillsAwaited
<1>4. ASSUME NEW e \in Executions
      PROVE  Accounted(e)'
  <2>1. \A q \in Runners \ {s} : (Works(q, e)' <=> Works(q, e)) /\ bill'[q] = bill[q]
    BY <1>1 DEF Works
  <2>2. Unbooked(e)' = Unbooked(e) - Owes(s, e) + Owes(s, e)'
    BY <2>1, UnbookedOne
  <2>3. Owes(s, e) = 0  BY <1>2 DEF Owes, At
  <2>4. Owes(s, e)' = 0  BY <1>1, <1>2 DEF Owes, At
  <2>5. Unbooked(e) \in Nat  BY UnbookedNat
  <2>6. Unbooked(e)' = Unbooked(e)  BY <2>2, <2>3, <2>4, <2>5
  <2>7. Booked(e)' = Booked(e)  BY BooksUntouched
  <2>  QED  BY <1>1, <2>6, <2>7 DEF Accounted, ChargeInv
<1>  QED  BY <1>3, <1>4 DEF ChargeInv

\* Nor if nobody moves.
LEMMA NobodyMoves ==
  ASSUME ChargeInv, UNCHANGED <<charges, ledger, runner>>
  PROVE  ChargeInv'
<1>1. bill' = bill /\ charged' = charged /\ lost' = lost  BY DEF charges
<1>2. BillsAwaited'  BY <1>1 DEF ChargeInv, BillsAwaited
<1>3. ASSUME NEW e \in Executions
      PROVE  Accounted(e)'
  <2>1. Unbooked(e)' = Unbooked(e)  BY <1>1 DEF Unbooked, Works
  <2>2. Booked(e)' = Booked(e)  BY BooksUntouched
  <2>  QED  BY <1>1, <2>1, <2>2 DEF Accounted, ChargeInv
<1>  QED  BY <1>2, <1>3 DEF ChargeInv

\* When the process dies, what its runs owe is lost.
LEMMA DeathCharges ==
  ASSUME WorkTypeOK, IsFiniteSet(ledger), ChargeInv, EveryRunDies, UNCHANGED ledger
  PROVE  ChargeInv'
<1>1. BillsAwaited'  BY DEF EveryRunDies, BillsAwaited
<1>2. ASSUME NEW e \in Executions
      PROVE  Accounted(e)'
  <2>1. \A r \in Runners : ~Works(r, e)'  BY AllEnd DEF EveryRunDies
  <2>2. Unbooked(e)' = Total(bill', {})
    <3>1. {r \in Runners : Works(r, e)'} = {}  BY <2>1
    <3>  QED  BY <3>1 DEF Unbooked
  <2>3. Unbooked(e)' = 0  BY <2>2, TotalEmpty
  <2>4. Booked(e)' = Booked(e)  BY BooksUntouched
  <2>5. charged'[e] = charged[e] /\ lost'[e] = lost[e] + Unbooked(e)
    BY DEF EveryRunDies
  <2>6. charged[e] = Booked(e) + Unbooked(e) + lost[e]
    BY DEF ChargeInv, Accounted
  <2>7. Booked(e) \in Int /\ Unbooked(e) \in Nat /\ lost[e] \in Nat
    BY BookedInt, UnbookedNat DEF WorkTypeOK
  <2>  QED  BY <2>3, <2>4, <2>5, <2>6, <2>7 DEF Accounted
<1>  QED  BY <1>1, <1>2 DEF ChargeInv

\* What r does that awaits the model for f: x more is charged, y is booked and
\* z is lost of what it owes, and no other runner or execution is concerned.
Bills(r, f, x, y, z) ==
  /\ charged' = [charged EXCEPT ![f] = @ + x]
  /\ lost' = [lost EXCEPT ![f] = @ + z]
  /\ \A q \in Runners \ {r} : runner'[q] = runner[q] /\ bill'[q] = bill[q]
  /\ Owes(r, f)' = bill[r] + x - y - z
  /\ \A e \in Executions \ {f} : ~Works(r, e)'
  /\ bill'[r] # 0 => runner'[r].step = "model"
  /\ Booked(f)' = Booked(f) + y
  /\ \A e \in Executions \ {f} : Booked(e)' = Booked(e)

LEMMA BillsKept ==
  ASSUME WorkTypeOK, WorkTypeOK', IsFiniteSet(ledger), ChargeInv,
         NEW r \in Runners, NEW f \in Executions, Works(r, f),
         NEW x \in Nat, NEW y \in Nat, NEW z \in Nat, Bills(r, f, x, y, z)
  PROVE  ChargeInv'
<1>1. BillsAwaited'  BY DEF Bills, ChargeInv, BillsAwaited
<1>2. \A e \in Executions :
        /\ Booked(e) \in Int /\ Unbooked(e) \in Nat
        /\ lost[e] \in Nat /\ charged[e] \in Nat
        /\ charged[e] = Booked(e) + Unbooked(e) + lost[e]
  BY BookedInt, UnbookedNat DEF WorkTypeOK, ChargeInv, Accounted
<1>3. \A e \in Executions : Unbooked(e)' = Unbooked(e) - Owes(r, e) + Owes(r, e)'
  <2>1. ASSUME NEW e \in Executions
        PROVE  Unbooked(e)' = Unbooked(e) - Owes(r, e) + Owes(r, e)'
    <3>1. \A q \in Runners \ {r} : (Works(q, e)' <=> Works(q, e)) /\ bill'[q] = bill[q]
      BY DEF Bills, Works
    <3>  QED  BY <3>1, UnbookedOne
  <2>  QED  BY <2>1
<1>4. bill[r] \in Nat  BY DEF WorkTypeOK
<1>5. Accounted(f)'
  <2>1. Owes(r, f) = bill[r]  BY DEF Owes, At, Workers
  <2>2. Owes(r, f)' = bill[r] + x - y - z  BY DEF Bills
  <2>3. Unbooked(f)' = Unbooked(f) + x - y - z  BY <1>2, <1>3, <1>4, <2>1, <2>2
  <2>4. charged'[f] = charged[f] + x /\ lost'[f] = lost[f] + z
    BY DEF Bills, WorkTypeOK
  <2>5. Booked(f)' = Booked(f) + y  BY DEF Bills
  <2>6. charged'[f] = Booked(f)' + Unbooked(f)' + lost'[f]
    BY <1>2, <2>3, <2>4, <2>5
  <2>  QED  BY <2>6 DEF Accounted
<1>6. ASSUME NEW e \in Executions, e # f
      PROVE  Accounted(e)'
  <2>1. ~Works(r, e)  BY <1>6 DEF Works
  <2>2. Owes(r, e) = 0  BY <2>1 DEF Owes, At, Workers
  <2>3. Owes(r, e)' = 0  BY <1>6 DEF Bills, Owes, At, Workers
  <2>4. Unbooked(e)' = Unbooked(e)  BY <1>2, <1>3, <2>2, <2>3
  <2>5. charged'[e] = charged[e] /\ lost'[e] = lost[e]
    BY <1>6 DEF Bills, WorkTypeOK
  <2>6. Booked(e)' = Booked(e)  BY <1>6 DEF Bills
  <2>  QED  BY <1>2, <2>4, <2>5, <2>6 DEF Accounted
<1>  QED  BY <1>1, <1>5, <1>6 DEF ChargeInv

\* A model that is called after one that charged: what that cost is lost.
LEMMA ChargeCharges ==
  ASSUME WorkTypeOK, WorkTypeOK', IsFiniteSet(ledger), ChargeInv,
         NEW r \in Runners, NEW f \in Executions, ModelCharges(r, f)
  PROVE  ChargeInv'
<1>1. PICK cents \in Costs \cup {0} :
        /\ charged' = [charged EXCEPT ![f] = @ + cents]
        /\ bill' = [bill EXCEPT ![r] = cents]
  BY DEF ModelCharges
<1>2. cents \in Nat /\ bill[r] \in Nat  BY WorkAssumption DEF WorkTypeOK
<1>3. /\ Works(r, f) /\ runner' = runner /\ ledger' = ledger
      /\ runner[r].step = "model" /\ lost' = [lost EXCEPT ![f] = @ + bill[r]]
  BY DEF ModelCharges
<1>4. bill'[r] = cents /\ \A q \in Runners \ {r} : bill'[q] = bill[q]
  BY <1>1 DEF WorkTypeOK
<1>5. Owes(r, f)' = cents  BY <1>3, <1>4 DEF Owes, At, Workers, Works
<1>6. \A e \in Executions \ {f} : ~Works(r, e)'  BY <1>3 DEF Works
<1>7. \A e \in Executions : Booked(e)' = Booked(e)  BY <1>3, BooksUntouched
<1>8. Booked(f)' = Booked(f) + 0  BY <1>7, BookedInt
<1>9. Bills(r, f, cents, 0, bill[r])
  BY <1>1, <1>2, <1>3, <1>4, <1>5, <1>6, <1>7, <1>8 DEF Bills
<1>  QED  BY <1>2, <1>3, <1>9, BillsKept

\* Who returns owes nothing any more.
LEMMA ReturnOwes ==
  ASSUME WorkTypeOK, NEW r \in Runners, NEW f \in Executions, Return(r, f),
         bill' = [bill EXCEPT ![r] = 0]
  PROVE  /\ \A q \in Runners \ {r} : runner'[q] = runner[q] /\ bill'[q] = bill[q]
         /\ bill'[r] = 0
         /\ \A e \in Executions : ~Works(r, e)'
         /\ Owes(r, f)' = 0
<1>1. \A q \in Runners \ {r} : runner'[q] = runner[q]
  BY DEF Return, WorkTypeOK
<1>2. bill'[r] = 0 /\ \A q \in Runners \ {r} : bill'[q] = bill[q]
  BY DEF WorkTypeOK
<1>3. \A e \in Executions : ~Works(r, e)'  BY ReturnEnds
<1>4. Owes(r, f)' = 0  BY <1>3 DEF Owes, At, Workers
<1>  QED  BY <1>1, <1>2, <1>3, <1>4

\* A run that fails loses what it owes.
LEMMA FailCharges ==
  ASSUME WorkTypeOK, WorkTypeOK', IsFiniteSet(ledger), ChargeInv,
         NEW r \in Runners, NEW f \in Executions, RunFails(r, f)
  PROVE  ChargeInv'
<1>1. /\ Works(r, f) /\ Return(r, f) /\ bill' = [bill EXCEPT ![r] = 0]
      /\ lost' = [lost EXCEPT ![f] = @ + bill[r]] /\ charged' = charged /\ ledger' = ledger
  BY DEF RunFails
<1>2. bill[r] \in Nat /\ charged \in [Executions -> Nat]  BY DEF WorkTypeOK
<1>3. /\ \A q \in Runners \ {r} : runner'[q] = runner[q] /\ bill'[q] = bill[q]
      /\ bill'[r] = 0
      /\ \A e \in Executions : ~Works(r, e)'
      /\ Owes(r, f)' = 0
  BY <1>1, ReturnOwes
<1>4. charged[f] + 0 = charged[f]  BY <1>2
<1>5. charged' = [charged EXCEPT ![f] = @ + 0]  BY <1>1, <1>2, <1>4
<1>6. \A e \in Executions : Booked(e)' = Booked(e)  BY <1>1, BooksUntouched
<1>7. Booked(f)' = Booked(f) + 0  BY <1>6, BookedInt
<1>8. Owes(r, f)' = bill[r] + 0 - 0 - bill[r]  BY <1>2, <1>3
<1>9. Bills(r, f, 0, 0, bill[r])
  BY <1>1, <1>3, <1>5, <1>6, <1>7, <1>8 DEF Bills
<1>  QED  BY <1>1, <1>2, <1>9, BillsKept

\* An answer books it.
LEMMA AnswerCharges ==
  ASSUME WorkTypeOK, WorkTypeOK', CostInv, ChargeInv,
         NEW r \in Runners, NEW f \in Executions, ModelAnswers(r, f)
  PROVE  ChargeInv'
<1>1. /\ Works(r, f) /\ Return(r, f) /\ bill' = [bill EXCEPT ![r] = 0]
      /\ lost' = lost /\ charged' = charged
      /\ Post(f, runner[r].snapshot.attempts + 1, bill[r])
  BY AnswerSettles DEF ModelAnswers
<1>2. /\ bill[r] \in Nat /\ charged \in [Executions -> Nat] /\ lost \in [Executions -> Nat]
      /\ IsFiniteSet(ledger)
  BY DEF WorkTypeOK, CostInv
<1>3. /\ \A q \in Runners \ {r} : runner'[q] = runner[q] /\ bill'[q] = bill[q]
      /\ bill'[r] = 0
      /\ \A e \in Executions : ~Works(r, e)'
      /\ Owes(r, f)' = 0
  BY <1>1, ReturnOwes
<1>4. charged[f] + 0 = charged[f] /\ lost[f] + 0 = lost[f]  BY <1>2
<1>5. charged' = [charged EXCEPT ![f] = @ + 0]  BY <1>1, <1>2, <1>4
<1>6. lost' = [lost EXCEPT ![f] = @ + 0]  BY <1>1, <1>2, <1>4
<1>7. Booked(f)' = Booked(f) + bill[r]
  BY <1>1, <1>2, PostBooks DEF CostInv
<1>8. ASSUME NEW e \in Executions, e # f
      PROVE  Booked(e)' = Booked(e)
  <2>1. RowsIn(ledger', e) = RowsIn(ledger, e)
    BY <1>1, <1>8 DEF Post, RowsIn
  <2>  QED  BY <1>2, <2>1, BooksStay DEF BooksSteady
<1>9. Owes(r, f)' = bill[r] + 0 - bill[r] - 0  BY <1>2, <1>3
<1>10. Bills(r, f, 0, bill[r], 0)
  BY <1>1, <1>3, <1>5, <1>6, <1>7, <1>8, <1>9 DEF Bills
<1>  QED  BY <1>1, <1>2, <1>10, BillsKept

\* Every other step of a tick or a run.
LEMMA TickCharges ==
  ASSUME WorkTypeOK, WorkTypeOK', IsFiniteSet(ledger), ChargeInv,
         NEW s \in Schedulers, Tick(s)
  PROVE  ChargeInv'
<1>1. CASE EveryRunDies /\ UNCHANGED ledger
  BY <1>1, DeathCharges
<1>2. CASE ~(EveryRunDies /\ UNCHANGED ledger)
  <2>1. UNCHANGED <<charges, ledger>>
    BY <1>2 DEF Tick, TickStart, Dispatch, TickEnd, TickThrows, records
  <2>2. runner[s].step # "model"
    BY DEF Tick, TickStart, Dispatch, TickEnd, TickThrows
  <2>3. CASE runner' = runner
    BY <2>1, <2>3, NobodyMoves
  <2>4. CASE runner' # runner
    <3>1. \A q \in Runners \ {s} : runner'[q] = runner[q]
      BY <1>2, <2>4 DEF Tick, TickStart, Dispatch, TickEnd, TickThrows, WorkTypeOK
    <3>  QED  BY <2>1, <2>2, <3>1, NothingCharged
  <2>  QED  BY <2>3, <2>4
<1>  QED  BY <1>1, <1>2

LEMMA RunCharges ==
  ASSUME WorkTypeOK, WorkTypeOK', CostInv, ChargeInv,
         NEW r \in Runners, NEW f \in Executions, RunStep(r, f)
  PROVE  ChargeInv'
<1>1. CASE BeginRefused(r, f) \/ Begin(r, f) \/ ToolReturns(r, f)
  <2>1. UNCHANGED <<charges, ledger>>
    BY <1>1 DEF BeginRefused, Begin, ToolReturns, records
  <2>2. runner[r].step # "model"
    BY <1>1 DEF BeginRefused, Begin, ToolReturns, CanBegin
  <2>3. \A q \in Runners \ {r} : runner'[q] = runner[q]
    BY <1>1 DEF BeginRefused, Begin, ToolReturns, Return, WorkTypeOK
  <2>  QED  BY <2>1, <2>2, <2>3, NothingCharged
<1>2. IsFiniteSet(ledger)  BY DEF CostInv
<1>  QED  BY <1>1, <1>2, ChargeCharges, FailCharges, AnswerCharges DEF RunStep

LEMMA EveryCharge ==
  ASSUME WorkTypeOK, WorkTypeOK', CostInv, ChargeInv, [Next]_vars
  PROVE  ChargeInv'
<1>1. IsFiniteSet(ledger)  BY DEF CostInv
<1>2. CASE UNCHANGED vars
  BY <1>2, NobodyMoves DEF vars, records
<1>3. CASE \E s \in Schedulers : Tick(s)
  BY <1>1, <1>3, TickCharges
<1>4. CASE \E r \in Runners, e \in Executions : RunStep(r, e)
  BY <1>4, RunCharges
<1>5. CASE \/ \E o \in Opportunities : OwnerAuthorizes(o) \/ OwnerEvaluates(o)
           \/ \E e \in Executions : Expire(e) \/ \E a \in Agents : Reassign(e, a)
           \/ OwnerSwitches
  <2>1. UNCHANGED <<charges, ledger, runner>>
    BY <1>5
    DEF OwnerAuthorizes, OwnerEvaluates, Reassign, Expire, OwnerSwitches, records
  <2>  QED  BY <2>1, NobodyMoves
<1>6. CASE Crash
  BY <1>1, <1>6, DeathCharges DEF Crash
<1>  QED  BY <1>2, <1>3, <1>4, <1>5, <1>6 DEF Next

LEMMA ChargeInit ==
  ASSUME Init
  PROVE  ChargeInv
<1>1. BillsAwaited  BY DEF Init, BillsAwaited
<1>2. ASSUME NEW e \in Executions
      PROVE  Accounted(e)
  <2>1. RowsIn(ledger, e) = {}  BY DEF Init, RowsIn
  <2>2. BookedIn(ledger, e) = 0  BY <2>1, TotalEmpty DEF BookedIn
  <2>3. Booked(e) = 0  BY <2>2, BookedRows
  <2>4. \A r \in Runners : ~Works(r, e)  BY IdleType DEF Init, Works
  <2>5. Unbooked(e) = Total(bill, {})
    <3>1. {r \in Runners : Works(r, e)} = {}  BY <2>4
    <3>  QED  BY <3>1 DEF Unbooked
  <2>6. Unbooked(e) = 0  BY <2>5, TotalEmpty
  <2>7. charged[e] = 0 /\ lost[e] = 0  BY DEF Init
  <2>  QED  BY <2>3, <2>6, <2>7 DEF Accounted
<1>  QED  BY <1>1, <1>2 DEF ChargeInv

\* postExecutionCostShares: of what the provider charged, all is booked once,
\* but for the calls that still run and for those that failed or died before
\* the booking, and the row of an execution shows what is booked: no answer
\* goes unbooked, whoever ran it and however the execution ended.
THEOREM CostsBooked == Spec => []CostIsBooked
<1>1. Init => WorkInv /\ CostInv /\ ChargeInv  BY InitInv, CostInit, ChargeInit
<1>2. WorkInv /\ CostInv /\ ChargeInv /\ [Next]_vars => WorkInv' /\ CostInv' /\ ChargeInv'
  <2>1. SUFFICES ASSUME WorkInv, CostInv, ChargeInv, [Next]_vars
                 PROVE  WorkInv' /\ CostInv' /\ ChargeInv'
    OBVIOUS
  <2>2. WorkInv' /\ StepKeeps  BY <2>1, StepInv
  <2>3. CostMoves  BY <2>1, EveryCost DEF WorkInv
  <2>4. CostInv'  BY <2>1, <2>2, <2>3, CostKept
  <2>5. ChargeInv'  BY <2>1, <2>2, EveryCharge DEF WorkInv
  <2>  QED  BY <2>2, <2>4, <2>5
<1>3. CostInv /\ ChargeInv => CostIsBooked
  BY DEF CostInv, CostKnown, ChargeInv, Accounted, CostIsBooked
<1>  QED  BY <1>1, <1>2, <1>3, PTL DEF Spec

-----------------------------------------------------------------------------
(* The treasury.  A process that holds the lock has decided from balances    *)
(* that nobody can change before it commits, so what it decided is still     *)
(* covered when it is posted: that is the invariant.                         *)

AvailableOf(b, a) ==
  Total(b, Receipts \cap ItemsOf(a)) - Total(b, Debits \cap ItemsOf(a))
    - Total(b, Transfers \cap ItemsOf(a))
NetOf(b) == Total(b, Receipts) - Total(b, Debits)

\* The row i, of status s, may be decided to become t and to post c cents.
Decidable(i, s, t, c) ==
  \/ i \in Receipts \cup Work /\ s = "none" /\ t = "booked" /\ c = CentsOf[i]
  \/ i \in Settlements /\ s = "none" /\ t = "pending" /\ c > 0
  \/ i \in Settlements /\ s # "none" /\ t = "completed" /\ c = 0
  \/ i \in Requests /\ s = "none" /\ t = "proposed" /\ c = 0
  \/ i \in Requests /\ s = "proposed" /\ t = "executed" /\ c = CentsOf[i]
  \/ i \in Requests /\ s = "proposed" /\ t = "rejected" /\ c = 0
  \/ i \in Resources /\ s = "none" /\ t \in {"denied", "approved"} /\ c = 0
  \/ i \in Resources /\ s \in {"approved", "retired"} /\ t = "provisioned"

\* The balances of the ledger b cover the c cents of i.
Covered(b, i, c) ==
  c > 0 =>
    /\ i \in Requests => c <= AvailableOf(b, AgentOf[i])
    /\ i \in Settlements \cup Resources => c <= NetOf(b)
    /\ i \in Resources /\ AgentOf[i] # Nobody =>
         Total(b, Debits \cap ItemsOf(AgentOf[i])) + c <= Quota[AgentOf[i]]

\* No payment that i repeats is there.
FirstTime(i, st) == i \in Receipts => \A x \in SameAs[i] : st[x] = "none"

\* What a process may be at, with rows in the statuses st and the ledger b.
OperationOK(d, st, b) ==
  /\ d.step = "locked" =>
       /\ d.item \in Items
       /\ Decidable(d.item, st[d.item], d.then, d.cents)
       /\ Covered(b, d.item, d.cents)
       /\ FirstTime(d.item, st)
  /\ d.step \in {"marking", "paying"} =>
       /\ d.item \in Sound /\ d.then = "applied" /\ d.cents = CentsOf[d.item]
       /\ st[d.item] \in {"applied", "rolled_back"} \cup
                         (IF d.step = "marking" THEN {"proposed"} ELSE {})

\* A row and its entry agree.
RowOK(i, s, c) ==
  /\ i \in Requests =>
       /\ s \in {"none", "proposed", "executed", "rejected"}
       /\ c = IF s = "executed" THEN CentsOf[i] ELSE 0
  /\ i \in Receipts \cup Work =>
       /\ s \in {"none", "booked"}
       /\ c = IF s = "booked" THEN CentsOf[i] ELSE 0
  /\ i \in Settlements =>
       /\ s \in {"none", "pending", "completed"}
       /\ c > 0 <=> s # "none"
  /\ i \in Resources =>
       /\ s \in {"none", "denied", "approved", "provisioned", "retired"}
       /\ c > 0 => s \in {"provisioned", "retired"}
  /\ i \in Upgrades =>
       /\ s \in {"none", "proposed", "rejected", "applied", "rolled_back"}
       /\ c \in {0, CentsOf[i]}
       /\ c > 0 => s \in {"applied", "rolled_back"}

Operations ==
  [step : {"idle", "locked", "marking", "paying"}, item : Items \cup {Nobody},
   then : {"none", "booked", "pending", "completed", "proposed", "executed", "rejected",
           "denied", "approved", "provisioned", "applied"},
   cents : Nat]

TreasuryTypes ==
  /\ DOMAIN status = Items /\ status = [i \in Items |-> status[i]]
  /\ posted \in [Items -> Nat]
  /\ process \in [Processes -> Operations]
  /\ frozen \subseteq {"spending", "withdrawals"}
  /\ interrupted \subseteq Upgrades
  /\ faults \in 0..MaxFaults

Holds(p) == process[p].step = "locked"
Pays(p, u) == process[p].step = "paying" /\ process[p].item = u

RowsOK        == \A i \in Items : RowOK(i, status[i], posted[i])
OperationsOK  == \A p \in Processes : OperationOK(process[p], status, posted)
OneHolder     == \A p, q \in Processes : Holds(p) /\ Holds(q) => p = q
PaidOnce      == \A r \in Receipts : \A x \in SameAs[r] \ {r} :
                   ~(status[r] = "booked" /\ status[x] = "booked")
UpgradesPaid  == \A u \in Upgrades :
                   status[u] \in {"applied", "rolled_back"} =>
                     \/ posted[u] = CentsOf[u] \/ u \in interrupted
                     \/ \E p \in Processes : Pays(p, u)

TreasuryInv ==
  /\ TreasuryTypes /\ RowsOK /\ OperationsOK /\ OneHolder /\ PaidOnce /\ UpgradesPaid
  /\ DecidedFromEarnings /\ SettledFromRevenue

-----------------------------------------------------------------------------
(* The kinds of rows, and sums over the ledger.                              *)

\* Every row is of one table.
LEMMA ItemKinds ==
  /\ \A i \in Items : i \in Receipts \cup Work \/ i \in Settlements \/ i \in Requests
                      \/ i \in Resources \/ i \in Upgrades
  /\ \A i \in Receipts : i \in Items /\ i \notin Work /\ i \notin Settlements
       /\ i \notin Requests /\ i \notin Resources /\ i \notin Upgrades
  /\ \A i \in Work : i \in Items /\ i \notin Settlements
       /\ i \notin Requests /\ i \notin Resources /\ i \notin Upgrades
  /\ \A i \in Settlements : i \in Items
       /\ i \notin Requests /\ i \notin Resources /\ i \notin Upgrades
  /\ \A i \in Requests : i \in Items /\ i \notin Resources /\ i \notin Upgrades
  /\ \A i \in Resources : i \in Items /\ i \notin Upgrades
  /\ \A i \in Upgrades : i \in Items
BY TreasuryAssumption DEF Apart, Items, Debits, Requests

\* What a row costs.
LEMMA ItemCents == \A i \in Items : i \notin Settlements => CentsOf[i] \in Nat \ {0}
BY TreasuryAssumption

\* A part of the ledger is a finite set of natural numbers.
LEMMA LedgerNat ==
  ASSUME NEW b \in [Items -> Nat], NEW S, S \subseteq Items
  PROVE  NatOn(b, S) /\ IntOn(b, S)
BY TreasuryAssumption, FS_Subset DEF NatOn, IntOn

\* One ledger is another with one entry more, of at most c cents.
Posts(b, g, i, c) ==
  /\ b \in [Items -> Nat] /\ g \in [Items -> Nat] /\ i \in Items /\ c \in Nat
  /\ \A j \in Items \ {i} : g[j] = b[j]
  /\ b[i] <= g[i] /\ g[i] <= b[i] + c

\* A sum over rows grows with that entry, and only if it is one of them.
LEMMA SumPosts ==
  ASSUME NEW b, NEW g, NEW i, NEW c, Posts(b, g, i, c), NEW S, S \subseteq Items
  PROVE  /\ Total(b, S) \in Int /\ Total(g, S) \in Int
         /\ Total(b, S) <= Total(g, S)
         /\ Total(g, S) <= Total(b, S) + c
         /\ i \notin S => Total(g, S) = Total(b, S)
<1>1. IntOn(b, S) /\ IntOn(g, S)
  BY LedgerNat DEF Posts
<1>2. \A y \in S \ {i} : b[y] = g[y]
  BY DEF Posts
<1>3. Total(g, S) = Total(b, S) - At(b, S, i) + At(g, S, i)
  BY <1>1, <1>2, TotalStep
<1>4. Total(b, S) \in Int /\ Total(g, S) \in Int
  BY <1>1, TotalInt
<1>5. At(b, S, i) <= At(g, S, i) /\ At(g, S, i) <= At(b, S, i) + c
      /\ At(b, S, i) \in Int /\ At(g, S, i) \in Int /\ c \in Nat
      /\ (i \notin S => At(b, S, i) = At(g, S, i))
  BY DEF At, Posts
<1>  QED  BY <1>3, <1>4, <1>5

Earned(b) ==
  \A a \in Earners :
    Total(b, Requests \cap ItemsOf(a)) <= Total(b, Receipts \cap ItemsOf(a))
Realized(b) ==
  /\ Total(b, Settlements \cup Resources) <= Total(b, Receipts)
  /\ \A a \in Earners : Total(b, Resources \cap ItemsOf(a)) <= Quota[a]

LEMMA LedgerSays == (DecidedFromEarnings <=> Earned(posted)) /\ (SettledFromRevenue <=> Realized(posted))
BY DEF DecidedFromEarnings, SettledFromRevenue, Earned, Realized, Sum

LEMMA ItemSets ==
  /\ Requests \subseteq Items /\ Receipts \subseteq Items /\ Debits \subseteq Items
  /\ Transfers \subseteq Items /\ Resources \subseteq Debits /\ Settlements \subseteq Debits
  /\ Requests \subseteq Transfers \cup Debits
BY DEF Items, Debits, Requests

\* What an agent's account paid for decisions left it within what it earned.
LEMMA DecidedWithin ==
  ASSUME NEW b \in [Items -> Nat], NEW a
  PROVE  Total(b, Requests \cap ItemsOf(a))
           <= Total(b, Debits \cap ItemsOf(a)) + Total(b, Transfers \cap ItemsOf(a))
<1>1. PICK D : D = Debits \cap ItemsOf(a)
  OBVIOUS
<1>2. PICK T : T = Transfers \cap ItemsOf(a)
  OBVIOUS
<1>3. PICK R : R = Requests \cap ItemsOf(a)
  OBVIOUS
<1>4. R \subseteq D \cup T /\ D \cup T \subseteq Items /\ D \subseteq Items /\ T \subseteq Items /\ R \subseteq Items
  BY <1>1, <1>2, <1>3, ItemSets
<1>5. NatOn(b, Items) /\ NatOn(b, D \cup T)
  BY <1>4, LedgerNat
<1>6. Total(b, R) <= Total(b, D \cup T)
  BY <1>4, <1>5, TotalSubset
<1>7. Total(b, D \cup T) <= Total(b, D) + Total(b, T)
  BY <1>4, <1>5, TotalUnion
<1>8. /\ Total(b, R) \in Int /\ Total(b, D) \in Int /\ Total(b, T) \in Int
      /\ Total(b, D \cup T) \in Int
  BY <1>4, LedgerNat, TotalInt
<1>  QED  BY <1>1, <1>2, <1>3, <1>6, <1>7, <1>8

LEMMA EarnedPosts ==
  ASSUME NEW b, NEW g, NEW i, NEW c, Posts(b, g, i, c), Covered(b, i, c), Earned(b)
  PROVE  Earned(g)
<1>  SUFFICES ASSUME NEW a \in Earners
              PROVE  Total(g, Requests \cap ItemsOf(a)) <= Total(g, Receipts \cap ItemsOf(a))
  BY DEF Earned
<1>1. PICK R : R = Requests \cap ItemsOf(a)
  OBVIOUS
<1>2. PICK P : P = Receipts \cap ItemsOf(a)
  OBVIOUS
<1>3. R \subseteq Items /\ P \subseteq Items
  BY <1>1, <1>2, ItemSets
<1>4. /\ Total(b, R) \in Int /\ Total(g, R) \in Int /\ Total(g, R) <= Total(b, R) + c
      /\ i \notin R => Total(g, R) = Total(b, R)
  BY <1>3, SumPosts
<1>5. Total(b, P) \in Int /\ Total(g, P) \in Int /\ Total(b, P) <= Total(g, P)
  BY <1>3, SumPosts
<1>6. Total(b, R) <= Total(b, P)
  BY <1>1, <1>2 DEF Earned
<1>7. c \in Nat /\ b \in [Items -> Nat]
  BY DEF Posts
<1>8. CASE i \notin R \/ c = 0
  <2>  QED  BY <1>4, <1>5, <1>6, <1>7, <1>8, <1>1, <1>2
<1>9. CASE i \in R /\ c > 0
  <2>1. i \in Requests /\ AgentOf[i] = a
    BY <1>1, <1>9 DEF ItemsOf
  <2>2. PICK d : d = Total(b, Debits \cap ItemsOf(a))
    OBVIOUS
  <2>3. PICK t : t = Total(b, Transfers \cap ItemsOf(a))
    OBVIOUS
  <2>4. c <= Total(b, P) - d - t
    BY <1>2, <1>9, <2>1, <2>2, <2>3 DEF Covered, AvailableOf
  <2>5. Total(b, R) <= d + t
    BY <1>1, <1>7, <2>2, <2>3, DecidedWithin
  <2>6. d \in Int /\ t \in Int
    <3>1. Debits \cap ItemsOf(a) \subseteq Items /\ Transfers \cap ItemsOf(a) \subseteq Items
      BY ItemSets
    <3>  QED  BY <1>7, <2>2, <2>3, <3>1, LedgerNat, TotalInt
  <2>  QED  BY <1>1, <1>2, <1>4, <1>5, <1>7, <2>4, <2>5, <2>6
<1>  QED  BY <1>7, <1>8, <1>9

LEMMA RealizedPosts ==
  ASSUME NEW b, NEW g, NEW i, NEW c, Posts(b, g, i, c), Covered(b, i, c), Realized(b)
  PROVE  Realized(g)
<1>1. PICK R : R = Settlements \cup Resources
  OBVIOUS
<1>2. R \subseteq Debits /\ R \subseteq Items /\ Debits \subseteq Items /\ Receipts \subseteq Items
  BY <1>1, ItemSets
<1>3. c \in Nat /\ b \in [Items -> Nat]
  BY DEF Posts
<1>4. /\ Total(b, R) \in Int /\ Total(g, R) \in Int /\ Total(g, R) <= Total(b, R) + c
      /\ i \notin R => Total(g, R) = Total(b, R)
  BY <1>2, SumPosts
<1>5. /\ Total(b, Receipts) \in Int /\ Total(g, Receipts) \in Int
      /\ Total(b, Receipts) <= Total(g, Receipts)
  BY <1>2, SumPosts
<1>6. Total(b, R) <= Total(b, Debits) /\ Total(b, Debits) \in Int
  <2>1. NatOn(b, Debits) /\ IntOn(b, Debits)
    BY <1>2, <1>3, LedgerNat
  <2>2. Total(b, R) <= Total(b, Debits)
    BY <1>2, <2>1, TotalSubset
  <2>  QED  BY <2>1, <2>2, TotalInt
<1>7. Total(g, R) <= Total(g, Receipts)
  <2>1. Total(b, R) <= Total(b, Receipts)
    BY <1>1 DEF Realized
  <2>2. i \in R /\ c > 0 => c <= Total(b, Receipts) - Total(b, Debits)
    BY <1>1 DEF Covered, NetOf
  <2>  QED  BY <1>3, <1>4, <1>5, <1>6, <2>1, <2>2
<1>8. ASSUME NEW a \in Earners
      PROVE  Total(g, Resources \cap ItemsOf(a)) <= Quota[a]
  <2>1. PICK X : X = Resources \cap ItemsOf(a)
    OBVIOUS
  <2>2. PICK D : D = Debits \cap ItemsOf(a)
    OBVIOUS
  <2>3. X \subseteq D /\ X \subseteq Items /\ D \subseteq Items
    BY <2>1, <2>2, ItemSets
  <2>4. /\ Total(b, X) \in Int /\ Total(g, X) \in Int /\ Total(g, X) <= Total(b, X) + c
        /\ i \notin X => Total(g, X) = Total(b, X)
    BY <2>3, SumPosts
  <2>5. Total(b, X) <= Total(b, D) /\ Total(b, D) \in Int
    <3>1. NatOn(b, D) /\ IntOn(b, D)
      BY <1>3, <2>3, LedgerNat
    <3>2. Total(b, X) <= Total(b, D)
      BY <2>3, <3>1, TotalSubset
    <3>  QED  BY <3>1, <3>2, TotalInt
  <2>6. Total(b, X) <= Quota[a] /\ Quota[a] \in Int
    BY <2>1, TreasuryAssumption DEF Realized
  <2>7. i \in X /\ c > 0 => Total(b, D) + c <= Quota[a]
    <3>1. SUFFICES ASSUME i \in X, c > 0 PROVE Total(b, D) + c <= Quota[a]
      OBVIOUS
    <3>2. i \in Resources /\ AgentOf[i] = a /\ a # Nobody
      BY <2>1, <3>1, TreasuryAssumption DEF ItemsOf
    <3>  QED  BY <2>2, <3>1, <3>2 DEF Covered
  <2>  QED  BY <1>3, <2>1, <2>4, <2>5, <2>6, <2>7
<1>  QED  BY <1>1, <1>7, <1>8 DEF Realized

-----------------------------------------------------------------------------
(* Steps that decide, and the step that commits.                             *)

\* A process takes the lock with a decision that stands.
Decides(p) ==
  \E i \in Items, c \in Nat : \E t \in {"booked", "pending", "completed", "proposed", "executed",
                               "rejected", "denied", "approved", "provisioned"} :
    /\ Decide(p, i, t, c)
    /\ Decidable(i, status[i], t, c) /\ Covered(posted, i, c) /\ FirstTime(i, status)

LEMMA ReceiveDecides == \A p, r : r \in Receipts /\ Receive(p, r) => Decides(p)
<1>  SUFFICES ASSUME NEW p, NEW r \in Receipts, Receive(p, r) PROVE Decides(p)
  OBVIOUS
<1>1. r \in Items /\ CentsOf[r] \in Nat
  BY ItemKinds, ItemCents
<1>2. Decide(p, r, "booked", CentsOf[r]) /\ status[r] = "none"
  BY DEF Receive
<1>3. Decidable(r, status[r], "booked", CentsOf[r])
  BY <1>2 DEF Decidable
<1>4. Covered(posted, r, CentsOf[r])
  BY ItemKinds DEF Covered
<1>5. FirstTime(r, status)
  BY DEF Receive, FirstTime
<1>  QED  BY <1>1, <1>2, <1>3, <1>4, <1>5 DEF Decides

LEMMA IncurDecides == \A p, w : w \in Work /\ Incur(p, w) => Decides(p)
<1>  SUFFICES ASSUME NEW p, NEW w \in Work, Incur(p, w) PROVE Decides(p)
  OBVIOUS
<1>1. w \in Items /\ w \notin Receipts /\ CentsOf[w] \in Nat
  BY ItemKinds, ItemCents
<1>2. Decide(p, w, "booked", CentsOf[w]) /\ status[w] = "none"
  BY DEF Incur
<1>3. Decidable(w, status[w], "booked", CentsOf[w])
  BY <1>2 DEF Decidable
<1>4. Covered(posted, w, CentsOf[w])
  BY ItemKinds DEF Covered
<1>5. FirstTime(w, status)
  BY <1>1 DEF FirstTime
<1>  QED  BY <1>1, <1>2, <1>3, <1>4, <1>5 DEF Decides

LEMMA NetInt == posted \in [Items -> Nat] => Net(Debits) = NetOf(posted) /\ Net(Debits) \in Int
<1>  SUFFICES ASSUME posted \in [Items -> Nat]
              PROVE  Net(Debits) = NetOf(posted) /\ Net(Debits) \in Int
  OBVIOUS
<1>1. Total(posted, Receipts) \in Int /\ Total(posted, Debits) \in Int
  BY ItemSets, LedgerNat, TotalInt
<1>  QED  BY <1>1 DEF Net, NetOf, Sum

LEMMA SettleDecides ==
  \A p, s : TreasuryInv /\ s \in Settlements /\ (Settle(p, s) \/ CompleteSettlement(p, s))
            => Decides(p)
<1>  SUFFICES ASSUME NEW p, NEW s \in Settlements, TreasuryInv,
                     Settle(p, s) \/ CompleteSettlement(p, s)
              PROVE  Decides(p)
  OBVIOUS
<1>1. s \in Items /\ s \notin Receipts /\ s \notin Requests /\ s \notin Resources
  BY ItemKinds
<1>2. FirstTime(s, status)
  BY <1>1 DEF FirstTime
<1>3. CASE Settle(p, s)
  <2>1. PICK c : c = Net(Debits) - Threshold
    OBVIOUS
  <2>2. Net(Debits) = NetOf(posted) /\ Net(Debits) \in Int
    BY NetInt DEF TreasuryInv, TreasuryTypes
  <2>3. Decide(p, s, "pending", c) /\ status[s] = "none" /\ Net(Debits) > Threshold
    BY <1>3, <2>1 DEF Settle
  <2>4. c \in Nat /\ c > 0 /\ c <= NetOf(posted)
    BY <2>1, <2>2, <2>3, TreasuryAssumption
  <2>5. Decidable(s, status[s], "pending", c)
    BY <2>3, <2>4 DEF Decidable
  <2>6. Covered(posted, s, c)
    BY <1>1, <2>4 DEF Covered
  <2>  QED  BY <1>1, <1>2, <2>3, <2>4, <2>5, <2>6 DEF Decides
<1>4. CASE CompleteSettlement(p, s)
  <2>1. Decide(p, s, "completed", 0) /\ status[s] # "none"
    BY <1>4 DEF CompleteSettlement
  <2>2. Decidable(s, status[s], "completed", 0)
    BY <2>1 DEF Decidable
  <2>3. Covered(posted, s, 0)
    BY DEF Covered
  <2>  QED  BY <1>1, <1>2, <2>1, <2>2, <2>3 DEF Decides
<1>  QED  BY <1>3, <1>4

LEMMA RequestDecides ==
  \A p, q : q \in Requests /\ (Propose(p, q) \/ Approve(p, q) \/ Reject(p, q)) => Decides(p)
<1>  SUFFICES ASSUME NEW p, NEW q \in Requests, Propose(p, q) \/ Approve(p, q) \/ Reject(p, q)
              PROVE  Decides(p)
  OBVIOUS
<1>1. q \in Items /\ q \notin Receipts /\ q \notin Settlements /\ q \notin Resources
      /\ CentsOf[q] \in Nat
  BY ItemKinds, ItemCents
<1>2. FirstTime(q, status) /\ Covered(posted, q, 0)
  BY <1>1 DEF FirstTime, Covered
<1>3. CASE Propose(p, q)
  <2>1. Decide(p, q, "proposed", 0) /\ status[q] = "none"
    BY <1>3 DEF Propose
  <2>2. Decidable(q, status[q], "proposed", 0)
    BY <2>1 DEF Decidable
  <2>  QED  BY <1>1, <1>2, <2>1, <2>2 DEF Decides
<1>4. CASE status[q] = "proposed" /\ Decide(p, q, "rejected", 0)
  <2>1. Decidable(q, status[q], "rejected", 0)
    BY <1>4 DEF Decidable
  <2>  QED  BY <1>1, <1>2, <1>4, <2>1 DEF Decides
<1>5. CASE /\ status[q] = "proposed" /\ Available(AgentOf[q]) >= CentsOf[q]
           /\ Decide(p, q, "executed", CentsOf[q])
  <2>1. Decidable(q, status[q], "executed", CentsOf[q])
    BY <1>5 DEF Decidable
  <2>2. Available(AgentOf[q]) = AvailableOf(posted, AgentOf[q])
    BY DEF Available, AvailableOf, Sum
  <2>3. Covered(posted, q, CentsOf[q])
    BY <1>1, <1>5, <2>2 DEF Covered
  <2>  QED  BY <1>1, <1>2, <1>5, <2>1, <2>3 DEF Decides
<1>  QED  BY <1>3, <1>4, <1>5 DEF Approve, Reject

LEMMA ResourceDecides ==
  \A p, x : TreasuryInv /\ x \in Resources /\ (RequestResource(p, x) \/ Provision(p, x))
            => Decides(p)
<1>  SUFFICES ASSUME NEW p, NEW x \in Resources, TreasuryInv,
                     RequestResource(p, x) \/ Provision(p, x)
              PROVE  Decides(p)
  OBVIOUS
<1>1. x \in Items /\ x \notin Receipts /\ x \notin Requests /\ CentsOf[x] \in Nat
  BY ItemKinds, ItemCents
<1>2. FirstTime(x, status) /\ Covered(posted, x, 0)
  BY <1>1 DEF FirstTime, Covered
<1>3. CASE RequestResource(p, x)
  <2>1. PICK t \in {"denied", "approved"} : Decide(p, x, t, 0) /\ status[x] = "none"
    BY <1>3 DEF RequestResource
  <2>2. Decidable(x, status[x], t, 0)
    BY <2>1 DEF Decidable
  <2>  QED  BY <1>1, <1>2, <2>1, <2>2 DEF Decides
<1>4. CASE Provision(p, x)
  <2>1. PICK c \in 0..CentsOf[x] :
          WithinQuota(AgentOf[x], c) /\ Affordable(c) /\ Decide(p, x, "provisioned", c)
    BY <1>4 DEF Provision
  <2>2. status[x] = "approved" /\ c \in Nat
    BY <1>1, <1>4, <2>1 DEF Provision
  <2>3. Decidable(x, status[x], "provisioned", c)
    BY <2>2 DEF Decidable
  <2>4. c <= NetOf(posted)
    <3>1. PICK reserved \in Reserves : c <= Net(Debits) - reserved
      BY <2>1 DEF Affordable
    <3>2. Net(Debits) = NetOf(posted) /\ Net(Debits) \in Int
      BY NetInt DEF TreasuryInv, TreasuryTypes
    <3>3. reserved \in Nat
      BY TreasuryAssumption
    <3>  QED  BY <2>2, <3>1, <3>2, <3>3
  <2>5. AgentOf[x] # Nobody =>
          Total(posted, Debits \cap ItemsOf(AgentOf[x])) + c <= Quota[AgentOf[x]]
    BY <2>1 DEF WithinQuota, Sum
  <2>6. Covered(posted, x, c)
    BY <1>1, <2>4, <2>5 DEF Covered
  <2>  QED  BY <1>1, <1>2, <2>1, <2>2, <2>3, <2>6 DEF Decides
<1>  QED  BY <1>3, <1>4

LEMMA DecidesKeeps == \A p : TreasuryInv /\ p \in Processes /\ Decides(p) => TreasuryInv'
<1>1. SUFFICES ASSUME NEW p \in Processes, TreasuryInv, Decides(p) PROVE TreasuryInv'
  OBVIOUS
<1>2. PICK i \in Items, c \in Nat :
        \E t \in {"booked", "pending", "completed", "proposed", "executed",
                  "rejected", "denied", "approved", "provisioned"} :
          /\ Decide(p, i, t, c)
          /\ Decidable(i, status[i], t, c) /\ Covered(posted, i, c) /\ FirstTime(i, status)
  BY <1>1 DEF Decides
<1>3. PICK t \in {"booked", "pending", "completed", "proposed", "executed",
                  "rejected", "denied", "approved", "provisioned"} :
        /\ Decide(p, i, t, c)
        /\ Decidable(i, status[i], t, c) /\ Covered(posted, i, c) /\ FirstTime(i, status)
  BY <1>2
<1>4. PICK d : d = [step |-> "locked", item |-> i, then |-> t, cents |-> c]
  OBVIOUS
<1>5. /\ Free /\ process[p].step = "idle"
      /\ process' = [process EXCEPT ![p] = d]
      /\ UNCHANGED <<status, posted, frozen, interrupted, faults>>
  BY <1>3, <1>4 DEF Decide
<1>6. TreasuryTypes'
  <2>1. d \in Operations
    BY <1>4 DEF Operations
  <2>  QED  BY <1>1, <1>5, <2>1 DEF TreasuryInv, TreasuryTypes
<1>7. process'[p] = d /\ \A q \in Processes \ {p} : process'[q] = process[q]
  BY <1>1, <1>5 DEF TreasuryInv, TreasuryTypes
<1>8. OperationsOK'
  <2>1. OperationOK(d, status, posted)
    BY <1>3, <1>4 DEF OperationOK
  <2>  QED  BY <1>1, <1>5, <1>7, <2>1 DEF TreasuryInv, OperationsOK
<1>9. OneHolder'
  BY <1>5, <1>7 DEF OneHolder, Holds, Free
<1>10. UpgradesPaid'
  <2>1. \A q \in Processes, u \in Upgrades : Pays(q, u) => Pays(q, u)'
    BY <1>5, <1>7 DEF Pays
  <2>  QED  BY <1>1, <1>5, <2>1 DEF TreasuryInv, UpgradesPaid
<1>11. RowsOK' /\ PaidOnce'
  BY <1>1, <1>5 DEF TreasuryInv, RowsOK, PaidOnce
<1>12. DecidedFromEarnings' /\ SettledFromRevenue'
  BY <1>1, <1>5 DEF TreasuryInv, DecidedFromEarnings, SettledFromRevenue, Sum
<1>  QED  BY <1>6, <1>8, <1>9, <1>10, <1>11, <1>12 DEF TreasuryInv

\* postLedger adds an entry, if there is none.
LEMMA PostPosts ==
  \A i, c : posted \in [Items -> Nat] /\ i \in Items /\ c \in Nat /\ PostLedger(i, c) =>
    /\ Posts(posted, posted', i, c)
    /\ posted'[i] = IF posted[i] = 0 THEN c ELSE posted[i]
BY DEF PostLedger, Posts

LEMMA LedgerKeeps ==
  \A i, c : TreasuryInv /\ i \in Items /\ c \in Nat /\ PostLedger(i, c) /\ Covered(posted, i, c)
            => DecidedFromEarnings' /\ SettledFromRevenue'
<1>1. SUFFICES ASSUME NEW i \in Items, NEW c \in Nat, TreasuryInv, PostLedger(i, c),
                      Covered(posted, i, c)
               PROVE  DecidedFromEarnings' /\ SettledFromRevenue'
  OBVIOUS
<1>2. Posts(posted, posted', i, c)
  BY <1>1, PostPosts DEF TreasuryInv, TreasuryTypes
<1>3. Earned(posted) /\ Realized(posted)
  BY <1>1, LedgerSays DEF TreasuryInv
<1>4. Earned(posted')
  BY <1>1, <1>2, <1>3, EarnedPosts
<1>5. Realized(posted')
  BY <1>1, <1>2, <1>3, RealizedPosts
<1>  QED  BY <1>4, <1>5 DEF DecidedFromEarnings, SettledFromRevenue, Earned, Realized, Sum

LEMMA CommitKeeps == \A p : TreasuryInv /\ p \in Processes /\ Commit(p) => TreasuryInv'
<1>1. SUFFICES ASSUME NEW p \in Processes, TreasuryInv, Commit(p) PROVE TreasuryInv'
  OBVIOUS
<1>2. PICK d : d = process[p]
  OBVIOUS
<1>3. PICK i : i = d.item
  OBVIOUS
<1>4. PICK c : c = d.cents
  OBVIOUS
<1>5. PICK t : t = d.then
  OBVIOUS
<1>6. /\ Holds(p) /\ PostLedger(i, c)
      /\ status' = [status EXCEPT ![i] = t]
      /\ process' = [process EXCEPT ![p] = NoOperation]
      /\ UNCHANGED <<frozen, interrupted, faults>>
  BY <1>1, <1>2, <1>3, <1>4, <1>5 DEF Commit, Holds
<1>7. d \in Operations /\ d.step = "locked" /\ OperationOK(d, status, posted)
  BY <1>1, <1>2, <1>6 DEF TreasuryInv, TreasuryTypes, OperationsOK, Holds
<1>8. /\ i \in Items /\ c \in Nat
      /\ Decidable(i, status[i], t, c) /\ Covered(posted, i, c) /\ FirstTime(i, status)
  BY <1>3, <1>4, <1>5, <1>7 DEF OperationOK, Operations
<1>9. /\ posted \in [Items -> Nat] /\ process \in [Processes -> Operations]
      /\ DOMAIN status = Items /\ status = [j \in Items |-> status[j]]
  BY <1>1 DEF TreasuryInv, TreasuryTypes
<1>10. Posts(posted, posted', i, c) /\ posted'[i] = IF posted[i] = 0 THEN c ELSE posted[i]
  BY <1>6, <1>8, <1>9, PostPosts
<1>11. /\ status'[i] = t /\ \A j \in Items \ {i} : status'[j] = status[j]
       /\ \A j \in Items \ {i} : posted'[j] = posted[j]
       /\ process'[p] = NoOperation /\ \A q \in Processes \ {p} : process'[q] = process[q]
  BY <1>6, <1>8, <1>9, <1>10 DEF Posts
<1>12. TreasuryTypes'
  <2>1. NoOperation \in Operations
    BY DEF NoOperation, Operations
  <2>2. process' \in [Processes -> Operations]
    BY <1>6, <1>9, <2>1
  <2>3. DOMAIN status' = Items /\ status' = [j \in Items |-> status'[j]]
    BY <1>6, <1>9
  <2>  QED  BY <1>1, <1>6, <1>10, <2>2, <2>3 DEF TreasuryInv, TreasuryTypes, Posts
<1>13. i \notin Upgrades
  BY <1>8, ItemKinds DEF Decidable
<1>14. RowsOK'
  <2>1. RowOK(i, status[i], posted[i])
    BY <1>1, <1>8 DEF TreasuryInv, RowsOK
  <2>2. posted[i] \in Nat
    BY <1>8, <1>9
  <2>3. RowOK(i, t, posted'[i])
    BY <1>8, <1>10, <2>1, <2>2, ItemKinds DEF RowOK, Decidable
  <2>4. \A j \in Items \ {i} : RowOK(j, status'[j], posted'[j])
    BY <1>1, <1>11 DEF TreasuryInv, RowsOK
  <2>  QED  BY <1>11, <2>3, <2>4 DEF RowsOK
<1>15. OperationsOK'
  <2>  SUFFICES ASSUME NEW q \in Processes PROVE OperationOK(process'[q], status', posted')
    BY DEF OperationsOK
  <2>1. CASE q = p
    BY <1>11, <2>1 DEF OperationOK, NoOperation
  <2>2. CASE q # p
    <3>1. process'[q] = process[q] /\ OperationOK(process[q], status, posted)
      BY <1>1, <1>11, <2>2 DEF TreasuryInv, OperationsOK
    <3>2. process[q].step # "locked"
      BY <1>1, <1>6, <2>2 DEF TreasuryInv, OneHolder, Holds
    <3>3. process[q].step \in {"marking", "paying"} =>
            status'[process[q].item] = status[process[q].item]
      BY <1>11, <1>13, <3>1, TreasuryAssumption, ItemKinds DEF OperationOK
    <3>  QED  BY <3>1, <3>2, <3>3 DEF OperationOK
  <2>  QED  BY <2>1, <2>2
<1>16. OneHolder'
  BY <1>1, <1>11 DEF TreasuryInv, OneHolder, Holds, NoOperation
<1>17. PaidOnce'
  <2>  SUFFICES ASSUME NEW r \in Receipts, NEW x \in SameAs[r] \ {r},
                       status'[r] = "booked", status'[x] = "booked"
                PROVE  FALSE
    BY DEF PaidOnce
  <2>1. x \in Receipts /\ r \in SameAs[x] /\ r \in Items /\ x \in Items
    BY TreasuryAssumption, ItemKinds
  <2>2. CASE i = r
    BY <1>8, <1>11, <2>1, <2>2 DEF FirstTime
  <2>3. CASE i = x
    BY <1>8, <1>11, <2>1, <2>3 DEF FirstTime
  <2>4. CASE i # r /\ i # x
    BY <1>1, <1>11, <2>1, <2>4 DEF TreasuryInv, PaidOnce
  <2>  QED  BY <2>2, <2>3, <2>4
<1>18. UpgradesPaid'
  <2>1. \A u \in Upgrades : status'[u] = status[u] /\ posted'[u] = posted[u]
    BY <1>11, <1>13, ItemKinds
  <2>2. \A q \in Processes, u \in Upgrades : Pays(q, u) => Pays(q, u)'
    BY <1>6, <1>11 DEF Pays, Holds
  <2>  QED  BY <1>1, <1>6, <2>1, <2>2 DEF TreasuryInv, UpgradesPaid
<1>19. DecidedFromEarnings' /\ SettledFromRevenue'
  BY <1>1, <1>6, <1>8, LedgerKeeps
<1>  QED  BY <1>12, <1>14, <1>15, <1>16, <1>17, <1>18, <1>19 DEF TreasuryInv

-----------------------------------------------------------------------------
(* Steps without the lock.                                                   *)

\* What may happen to a row without the lock.
Moves(i, s, t) ==
  \/ i \in Resources /\ s # "none" /\ t = "retired"
  \/ i \in Upgrades /\ s = "none" /\ t = "proposed"
  \/ i \in Upgrades /\ i \notin Sound /\ s = "proposed" /\ t = "rejected"
  \/ i \in Upgrades /\ s = "applied" /\ t = "rolled_back"

MovesRow == \E i \in Items : \E t \in {"retired", "proposed", "rejected", "rolled_back"} :
              Moves(i, status[i], t) /\ SetStatus(i, t) /\ UNCHANGED process

LEMMA RowMoves ==
  (\/ \E u \in Upgrades : ProposeUpgrade(u) \/ RejectUpgrade(u) \/ RollbackUpgrade(u)
   \/ \E x \in Resources : Retire(x)) => MovesRow
BY ItemKinds DEF ProposeUpgrade, RejectUpgrade, RollbackUpgrade, Retire, MovesRow, Moves

\* Nothing but statuses changes, and those of receipts do not.
LEMMA MovesKeep == TreasuryInv /\ MovesRow => TreasuryInv'
<1>1. SUFFICES ASSUME TreasuryInv, MovesRow PROVE TreasuryInv'
  OBVIOUS
<1>2. PICK i \in Items : \E t \in {"retired", "proposed", "rejected", "rolled_back"} :
        Moves(i, status[i], t) /\ SetStatus(i, t) /\ UNCHANGED process
  BY <1>1 DEF MovesRow
<1>3. PICK t \in {"retired", "proposed", "rejected", "rolled_back"} :
        Moves(i, status[i], t) /\ SetStatus(i, t) /\ UNCHANGED process
  BY <1>2
<1>4. /\ status' = [status EXCEPT ![i] = t]
      /\ UNCHANGED <<posted, frozen, process, interrupted, faults>>
      /\ DOMAIN status = Items /\ status = [j \in Items |-> status[j]]
  BY <1>1, <1>3 DEF SetStatus, TreasuryInv, TreasuryTypes
<1>5. status'[i] = t /\ \A j \in Items \ {i} : status'[j] = status[j]
  BY <1>4
<1>6. i \notin Receipts
  BY <1>3, ItemKinds DEF Moves
<1>7. TreasuryTypes'
  <2>1. DOMAIN status' = Items /\ status' = [j \in Items |-> status'[j]]
    BY <1>4
  <2>  QED  BY <1>1, <1>4, <2>1 DEF TreasuryInv, TreasuryTypes
<1>8. RowsOK'
  <2>1. RowOK(i, status[i], posted[i])
    BY <1>1 DEF TreasuryInv, RowsOK
  <2>2. posted[i] \in Nat
    BY <1>1 DEF TreasuryInv, TreasuryTypes
  <2>3. RowOK(i, t, posted[i])
    BY <1>3, <2>1, <2>2, ItemKinds DEF RowOK, Moves
  <2>4. \A j \in Items \ {i} : RowOK(j, status'[j], posted[j])
    BY <1>1, <1>5 DEF TreasuryInv, RowsOK
  <2>  QED  BY <1>4, <1>5, <2>3, <2>4 DEF RowsOK
<1>9. OperationsOK'
  <2>  SUFFICES ASSUME NEW q \in Processes PROVE OperationOK(process[q], status', posted)
    BY <1>4 DEF OperationsOK
  <2>1. PICK d : d = process[q]
    OBVIOUS
  <2>2. OperationOK(d, status, posted)
    BY <1>1, <2>1 DEF TreasuryInv, OperationsOK
  <2>3. d.step = "locked" =>
          Decidable(d.item, status'[d.item], d.then, d.cents) /\ FirstTime(d.item, status')
    <3>1. SUFFICES ASSUME d.step = "locked"
                   PROVE  /\ Decidable(d.item, status'[d.item], d.then, d.cents)
                          /\ FirstTime(d.item, status')
      OBVIOUS
    <3>2. /\ d.item \in Items /\ Decidable(d.item, status[d.item], d.then, d.cents)
          /\ FirstTime(d.item, status)
      BY <2>2, <3>1 DEF OperationOK
    <3>3. FirstTime(d.item, status')
      BY <1>5, <1>6, <3>2, ItemKinds, TreasuryAssumption DEF FirstTime
    <3>4. CASE d.item # i
      BY <1>5, <3>2, <3>3, <3>4
    <3>5. CASE d.item = i
      <4>1. Decidable(i, t, d.then, d.cents)
        BY <1>3, <3>2, <3>5, ItemKinds DEF Decidable, Moves
      <4>  QED  BY <1>5, <3>3, <3>5, <4>1
    <3>  QED  BY <3>4, <3>5
  <2>4. d.step \in {"marking", "paying"} =>
          status'[d.item] \in {"applied", "rolled_back"} \cup
                              (IF d.step = "marking" THEN {"proposed"} ELSE {})
    <3>1. SUFFICES ASSUME d.step \in {"marking", "paying"}
                   PROVE  status'[d.item] \in {"applied", "rolled_back"} \cup
                              (IF d.step = "marking" THEN {"proposed"} ELSE {})
      OBVIOUS
    <3>2. d.item \in Sound /\ d.item \in Items /\ d.item \notin Resources
      BY <2>2, <3>1, ItemKinds, TreasuryAssumption DEF OperationOK
    <3>  QED  BY <1>3, <1>5, <2>2, <3>1, <3>2 DEF OperationOK, Moves
  <2>  QED  BY <2>1, <2>2, <2>3, <2>4 DEF OperationOK
<1>10. OneHolder'
  BY <1>1, <1>4 DEF TreasuryInv, OneHolder, Holds
<1>11. PaidOnce'
  BY <1>1, <1>5, <1>6, ItemKinds, TreasuryAssumption DEF TreasuryInv, PaidOnce
<1>12. UpgradesPaid'
  <2>1. \A q \in Processes, u \in Upgrades : Pays(q, u) => Pays(q, u)'
    BY <1>4 DEF Pays
  <2>2. \A u \in Upgrades : status'[u] \in {"applied", "rolled_back"} =>
                            status[u] \in {"applied", "rolled_back"}
    BY <1>3, <1>5, ItemKinds DEF Moves
  <2>  QED  BY <1>1, <1>4, <2>1, <2>2 DEF TreasuryInv, UpgradesPaid
<1>13. DecidedFromEarnings' /\ SettledFromRevenue'
  BY <1>1, <1>4 DEF TreasuryInv, DecidedFromEarnings, SettledFromRevenue, Sum
<1>  QED  BY <1>7, <1>8, <1>9, <1>10, <1>11, <1>12, <1>13 DEF TreasuryInv

\* The process p changes alone, to an operation that is none of the lock's; rows
\* and entries stay.
LEMMA ProcessKeeps ==
  \A p, d :
    /\ TreasuryInv /\ p \in Processes
    /\ d \in Operations /\ d.step # "locked" /\ OperationOK(d, status, posted)
    /\ process' = [process EXCEPT ![p] = d]
    /\ UNCHANGED <<status, posted>>
    /\ frozen' \subseteq {"spending", "withdrawals"} /\ faults' \in 0..MaxFaults
    /\ interrupted \subseteq interrupted' /\ interrupted' \subseteq Upgrades
    /\ \A u \in Upgrades : Pays(p, u) => u \in interrupted'
    => TreasuryInv'
<1>1. SUFFICES ASSUME NEW p \in Processes, NEW d \in Operations, TreasuryInv,
                      d.step # "locked", OperationOK(d, status, posted),
                      process' = [process EXCEPT ![p] = d],
                      UNCHANGED <<status, posted>>,
                      frozen' \subseteq {"spending", "withdrawals"}, faults' \in 0..MaxFaults,
                      interrupted \subseteq interrupted', interrupted' \subseteq Upgrades,
                      \A u \in Upgrades : Pays(p, u) => u \in interrupted'
               PROVE  TreasuryInv'
  OBVIOUS
<1>2. TreasuryTypes'
  BY <1>1 DEF TreasuryInv, TreasuryTypes
<1>3. process'[p] = d /\ \A q \in Processes \ {p} : process'[q] = process[q]
  BY <1>1 DEF TreasuryInv, TreasuryTypes
<1>4. OperationsOK'
  BY <1>1, <1>3 DEF TreasuryInv, OperationsOK
<1>5. OneHolder'
  BY <1>1, <1>3 DEF TreasuryInv, OneHolder, Holds
<1>6. UpgradesPaid'
  <2>1. \A q \in Processes, u \in Upgrades : q # p /\ Pays(q, u) => Pays(q, u)'
    BY <1>3 DEF Pays
  <2>  QED  BY <1>1, <2>1 DEF TreasuryInv, UpgradesPaid
<1>7. RowsOK' /\ PaidOnce'
  BY <1>1 DEF TreasuryInv, RowsOK, PaidOnce
<1>8. DecidedFromEarnings' /\ SettledFromRevenue'
  BY <1>1 DEF TreasuryInv, DecidedFromEarnings, SettledFromRevenue, Sum
<1>  QED  BY <1>2, <1>4, <1>5, <1>6, <1>7, <1>8 DEF TreasuryInv

LEMMA CheckKeeps ==
  \A p, u : TreasuryInv /\ p \in Processes /\ u \in Upgrades /\ CheckUpgrade(p, u) => TreasuryInv'
<1>1. SUFFICES ASSUME NEW p \in Processes, NEW u \in Upgrades, TreasuryInv, CheckUpgrade(p, u)
               PROVE  TreasuryInv'
  OBVIOUS
<1>2. PICK d : d = [step |-> "marking", item |-> u, then |-> "applied", cents |-> CentsOf[u]]
  OBVIOUS
<1>3. u \in Items /\ CentsOf[u] \in Nat
  BY ItemKinds, ItemCents
<1>4. d \in Operations /\ d.step # "locked"
  BY <1>2, <1>3 DEF Operations
<1>5. OperationOK(d, status, posted)
  BY <1>1, <1>2 DEF CheckUpgrade, OperationOK
<1>6. process' = [process EXCEPT ![p] = d] /\ process[p].step = "idle"
      /\ UNCHANGED <<status, posted, frozen, interrupted, faults>>
  BY <1>1, <1>2 DEF CheckUpgrade
<1>7. \A v \in Upgrades : ~Pays(p, v)
  BY <1>6 DEF Pays
<1>8. /\ frozen' \subseteq {"spending", "withdrawals"} /\ faults' \in 0..MaxFaults
      /\ interrupted \subseteq interrupted' /\ interrupted' \subseteq Upgrades
  BY <1>1, <1>6 DEF TreasuryInv, TreasuryTypes
<1>  QED  BY <1>1, <1>4, <1>5, <1>6, <1>7, <1>8, ProcessKeeps

LEMMA DiesKeeps == \A p : TreasuryInv /\ p \in Processes /\ ProcessDies(p) => TreasuryInv'
<1>1. SUFFICES ASSUME NEW p \in Processes, TreasuryInv, ProcessDies(p) PROVE TreasuryInv'
  OBVIOUS
<1>2. NoOperation \in Operations /\ NoOperation.step # "locked"
      /\ OperationOK(NoOperation, status, posted)
  BY DEF NoOperation, Operations, OperationOK
<1>3. process' = [process EXCEPT ![p] = NoOperation] /\ UNCHANGED <<status, posted, frozen>>
  BY <1>1 DEF ProcessDies
<1>4. interrupted \subseteq interrupted' /\ \A u \in Upgrades : Pays(p, u) => u \in interrupted'
  BY <1>1 DEF ProcessDies, Pays
<1>5. interrupted' \subseteq Upgrades
  <2>1. OperationOK(process[p], status, posted) /\ interrupted \subseteq Upgrades
    BY <1>1 DEF TreasuryInv, TreasuryTypes, OperationsOK
  <2>2. process[p].step = "paying" => process[p].item \in Upgrades
    BY <2>1, TreasuryAssumption DEF OperationOK
  <2>  QED  BY <1>1, <2>1, <2>2 DEF ProcessDies
<1>6. frozen' \subseteq {"spending", "withdrawals"} /\ faults' \in 0..MaxFaults
  BY <1>1, <1>3, TreasuryAssumption DEF ProcessDies, FaultHappens, TreasuryInv, TreasuryTypes
<1>  QED  BY <1>1, <1>2, <1>3, <1>4, <1>5, <1>6, ProcessKeeps

LEMMA FreezeKeeps == TreasuryInv /\ OwnerFreezes => TreasuryInv'
<1>1. SUFFICES ASSUME TreasuryInv, OwnerFreezes PROVE TreasuryInv'
  OBVIOUS
<1>2. UNCHANGED <<status, posted, process, interrupted>>
  BY <1>1 DEF OwnerFreezes
<1>3. TreasuryTypes'
  BY <1>1, TreasuryAssumption DEF OwnerFreezes, FaultHappens, TreasuryInv, TreasuryTypes
<1>4. \A q \in Processes, u \in Upgrades : Pays(q, u) => Pays(q, u)'
  BY <1>2 DEF Pays
<1>5. UpgradesPaid'
  BY <1>1, <1>2, <1>4 DEF TreasuryInv, UpgradesPaid
<1>6. RowsOK' /\ OperationsOK' /\ OneHolder' /\ PaidOnce'
  BY <1>1, <1>2 DEF TreasuryInv, RowsOK, OperationsOK, OneHolder, PaidOnce, Holds
<1>7. DecidedFromEarnings' /\ SettledFromRevenue'
  BY <1>1, <1>2 DEF TreasuryInv, DecidedFromEarnings, SettledFromRevenue, Sum
<1>  QED  BY <1>3, <1>5, <1>6, <1>7 DEF TreasuryInv

LEMMA MarkKeeps == \A p : TreasuryInv /\ p \in Processes /\ MarkUpgrade(p) => TreasuryInv'
<1>1. SUFFICES ASSUME NEW p \in Processes, TreasuryInv, MarkUpgrade(p) PROVE TreasuryInv'
  OBVIOUS
<1>2. PICK d : d = process[p]
  OBVIOUS
<1>3. PICK u : u = d.item
  OBVIOUS
<1>4. PICK f : f = [d EXCEPT !.step = "paying"]
  OBVIOUS
<1>5. /\ d.step = "marking" /\ d \in Operations /\ OperationOK(d, status, posted)
      /\ process \in [Processes -> Operations]
      /\ DOMAIN status = Items /\ status = [j \in Items |-> status[j]]
  BY <1>1, <1>2 DEF MarkUpgrade, TreasuryInv, TreasuryTypes, OperationsOK
<1>6. /\ u \in Sound /\ u \in Upgrades /\ u \in Items /\ u \notin Receipts
      /\ d.then = "applied" /\ d.cents = CentsOf[u]
      /\ status[u] \in {"proposed", "applied", "rolled_back"}
  BY <1>3, <1>5, ItemKinds, TreasuryAssumption DEF OperationOK
<1>7. /\ status' = [status EXCEPT ![u] = "applied"]
      /\ process' = [process EXCEPT ![p] = f]
      /\ UNCHANGED <<posted, frozen, interrupted, faults>>
  BY <1>1, <1>2, <1>3, <1>4 DEF MarkUpgrade, SetStatus
<1>8. /\ f \in Operations /\ f.step = "paying" /\ f.item = u /\ f.then = "applied"
      /\ f.cents = CentsOf[u]
  BY <1>3, <1>4, <1>5, <1>6 DEF Operations
<1>9. /\ status'[u] = "applied" /\ \A j \in Items \ {u} : status'[j] = status[j]
      /\ process'[p] = f /\ \A q \in Processes \ {p} : process'[q] = process[q]
  BY <1>5, <1>6, <1>7
<1>10. TreasuryTypes'
  <2>1. DOMAIN status' = Items /\ status' = [j \in Items |-> status'[j]]
    BY <1>5, <1>7
  <2>2. process' \in [Processes -> Operations]
    BY <1>5, <1>7, <1>8
  <2>  QED  BY <1>1, <1>7, <2>1, <2>2 DEF TreasuryInv, TreasuryTypes
<1>11. RowsOK'
  <2>1. RowOK(u, status[u], posted[u])
    BY <1>1, <1>6 DEF TreasuryInv, RowsOK
  <2>2. RowOK(u, "applied", posted[u])
    BY <1>6, <2>1, ItemKinds DEF RowOK
  <2>3. \A j \in Items \ {u} : RowOK(j, status'[j], posted[j])
    BY <1>1, <1>9 DEF TreasuryInv, RowsOK
  <2>  QED  BY <1>7, <1>9, <2>2, <2>3 DEF RowsOK
<1>12. OperationsOK'
  <2>  SUFFICES ASSUME NEW q \in Processes PROVE OperationOK(process'[q], status', posted)
    BY <1>7 DEF OperationsOK
  <2>1. CASE q = p
    BY <1>6, <1>8, <1>9, <2>1 DEF OperationOK
  <2>2. CASE q # p
    <3>1. PICK e : e = process[q]
      OBVIOUS
    <3>2. process'[q] = e /\ OperationOK(e, status, posted)
      BY <1>1, <1>9, <2>2, <3>1 DEF TreasuryInv, OperationsOK
    <3>3. e.step = "locked" => e.item # u
      BY <1>6, <3>2, ItemKinds DEF OperationOK, Decidable
    <3>4. e.step = "locked" => FirstTime(e.item, status')
      BY <1>6, <1>9, <3>2, ItemKinds, TreasuryAssumption DEF OperationOK, FirstTime
    <3>5. e.step = "locked" => OperationOK(e, status', posted)
      BY <1>9, <3>2, <3>3, <3>4 DEF OperationOK
    <3>6. e.step \in {"marking", "paying"} => OperationOK(e, status', posted)
      BY <1>9, <3>2, ItemKinds, TreasuryAssumption DEF OperationOK
    <3>7. e.step \notin {"locked", "marking", "paying"} => OperationOK(e, status', posted)
      BY DEF OperationOK
    <3>  QED  BY <3>2, <3>5, <3>6, <3>7
  <2>  QED  BY <2>1, <2>2
<1>13. OneHolder'
  BY <1>1, <1>8, <1>9 DEF TreasuryInv, OneHolder, Holds
<1>14. PaidOnce'
  BY <1>1, <1>6, <1>9, ItemKinds, TreasuryAssumption DEF TreasuryInv, PaidOnce
<1>15. UpgradesPaid'
  <2>1. Pays(p, u)'
    BY <1>8, <1>9 DEF Pays
  <2>2. \A q \in Processes, v \in Upgrades : Pays(q, v) => Pays(q, v)'
    BY <1>2, <1>5, <1>9 DEF Pays
  <2>  QED  BY <1>1, <1>7, <1>9, <2>1, <2>2, ItemKinds DEF TreasuryInv, UpgradesPaid
<1>16. DecidedFromEarnings' /\ SettledFromRevenue'
  BY <1>1, <1>7 DEF TreasuryInv, DecidedFromEarnings, SettledFromRevenue, Sum
<1>  QED  BY <1>10, <1>11, <1>12, <1>13, <1>14, <1>15, <1>16 DEF TreasuryInv

LEMMA PayKeeps == \A p : TreasuryInv /\ p \in Processes /\ PayUpgrade(p) => TreasuryInv'
<1>1. SUFFICES ASSUME NEW p \in Processes, TreasuryInv, PayUpgrade(p) PROVE TreasuryInv'
  OBVIOUS
<1>2. PICK d : d = process[p]
  OBVIOUS
<1>3. PICK u : u = d.item
  OBVIOUS
<1>4. PICK c : c = d.cents
  OBVIOUS
<1>5. /\ d.step = "paying" /\ Free /\ PostLedger(u, c)
      /\ process' = [process EXCEPT ![p] = NoOperation]
      /\ UNCHANGED <<status, frozen, interrupted, faults>>
  BY <1>1, <1>2, <1>3, <1>4 DEF PayUpgrade
<1>6. /\ OperationOK(d, status, posted) /\ posted \in [Items -> Nat]
      /\ process \in [Processes -> Operations]
  BY <1>1, <1>2 DEF TreasuryInv, TreasuryTypes, OperationsOK
<1>7. /\ u \in Upgrades /\ u \in Items /\ c = CentsOf[u] /\ c \in Nat \ {0}
      /\ status[u] \in {"applied", "rolled_back"}
  BY <1>3, <1>4, <1>5, <1>6, ItemKinds, ItemCents, TreasuryAssumption DEF OperationOK
<1>8. Posts(posted, posted', u, c) /\ posted'[u] = IF posted[u] = 0 THEN c ELSE posted[u]
  BY <1>5, <1>6, <1>7, PostPosts
<1>9. RowOK(u, status[u], posted[u])
  BY <1>1, <1>7 DEF TreasuryInv, RowsOK
<1>10. posted'[u] = CentsOf[u] /\ \A j \in Items \ {u} : posted'[j] = posted[j]
  BY <1>7, <1>8, <1>9 DEF RowOK, Posts
<1>11. process'[p] = NoOperation /\ \A q \in Processes \ {p} : process'[q] = process[q]
  BY <1>1, <1>5, <1>6
<1>12. TreasuryTypes'
  <2>1. NoOperation \in Operations
    BY DEF NoOperation, Operations
  <2>  QED  BY <1>1, <1>5, <1>6, <1>8, <2>1 DEF TreasuryInv, TreasuryTypes, Posts
<1>13. RowsOK'
  <2>1. RowOK(u, status[u], CentsOf[u])
    BY <1>7, <1>9, ItemKinds DEF RowOK
  <2>2. \A j \in Items \ {u} : RowOK(j, status[j], posted'[j])
    BY <1>1, <1>10 DEF TreasuryInv, RowsOK
  <2>  QED  BY <1>5, <1>10, <2>1, <2>2 DEF RowsOK
<1>14. OperationsOK'
  <2>  SUFFICES ASSUME NEW q \in Processes PROVE OperationOK(process'[q], status, posted')
    BY <1>5 DEF OperationsOK
  <2>1. CASE q = p
    BY <1>11, <2>1 DEF OperationOK, NoOperation
  <2>2. CASE q # p
    <3>1. process'[q] = process[q] /\ process[q].step # "locked"
          /\ OperationOK(process[q], status, posted)
      BY <1>1, <1>5, <1>11, <2>2 DEF TreasuryInv, OperationsOK, Free
    <3>  QED  BY <3>1 DEF OperationOK
  <2>  QED  BY <2>1, <2>2
<1>15. OneHolder'
  BY <1>1, <1>11 DEF TreasuryInv, OneHolder, Holds, NoOperation
<1>16. UpgradesPaid'
  <2>1. \A q \in Processes, v \in Upgrades : v # u /\ Pays(q, v) => Pays(q, v)'
    BY <1>2, <1>3, <1>11 DEF Pays
  <2>  QED  BY <1>1, <1>5, <1>10, <2>1, ItemKinds DEF TreasuryInv, UpgradesPaid
<1>17. PaidOnce'
  BY <1>1, <1>5 DEF TreasuryInv, PaidOnce
<1>18. DecidedFromEarnings' /\ SettledFromRevenue'
  <2>1. Covered(posted, u, c)
    BY <1>7, ItemKinds DEF Covered
  <2>  QED  BY <1>1, <1>5, <1>7, <2>1, LedgerKeeps
<1>  QED  BY <1>12, <1>13, <1>14, <1>15, <1>16, <1>17, <1>18 DEF TreasuryInv

-----------------------------------------------------------------------------
(* Theorems about the treasury.                                              *)

LEMMA TreasuryInitInv == TreasuryInit => TreasuryInv
<1>1. SUFFICES ASSUME TreasuryInit PROVE TreasuryInv
  OBVIOUS
<1>2. /\ status = [i \in Items |-> "none"] /\ posted = [i \in Items |-> 0]
      /\ process = [p \in Processes |-> NoOperation]
      /\ frozen = {} /\ interrupted = {} /\ faults = 0
  BY <1>1 DEF TreasuryInit
<1>3. TreasuryTypes
  BY <1>2, TreasuryAssumption DEF TreasuryTypes, NoOperation, Operations
<1>4. RowsOK
  <2>1. \A i \in Items : RowOK(i, "none", 0)
    BY DEF RowOK
  <2>  QED  BY <1>2, <2>1 DEF RowsOK
<1>5. OperationsOK /\ OneHolder
  BY <1>2 DEF OperationsOK, OperationOK, OneHolder, Holds, NoOperation
<1>6. PaidOnce /\ UpgradesPaid
  BY <1>2, ItemKinds, TreasuryAssumption DEF PaidOnce, UpgradesPaid
<1>7. \A S : S \subseteq Items => Total(posted, S) = 0
  <2>1. SUFFICES ASSUME NEW S, S \subseteq Items, Total(posted, S) # 0 PROVE FALSE
    OBVIOUS
  <2>2. IntOn(posted, S) /\ \A x \in S : posted[x] = posted[x] - posted[x]
    BY <1>2, <2>1, LedgerNat
  <2>3. Total(posted, S) = Total(posted, S) - Total(posted, S)
    BY <2>2, TotalMinus
  <2>4. Total(posted, S) \in Int
    BY <2>2, TotalInt
  <2>  QED  BY <2>1, <2>3, <2>4
<1>8. DecidedFromEarnings
  <2>1. \A a : Requests \cap ItemsOf(a) \subseteq Items /\ Receipts \cap ItemsOf(a) \subseteq Items
    BY ItemSets
  <2>  QED  BY <1>7, <2>1 DEF DecidedFromEarnings, Sum
<1>9. SettledFromRevenue
  <2>1. /\ Settlements \cup Resources \subseteq Items /\ Receipts \subseteq Items
        /\ \A a : Resources \cap ItemsOf(a) \subseteq Items
    BY ItemSets
  <2>2. \A a \in Earners : 0 <= Quota[a]
    BY TreasuryAssumption
  <2>  QED  BY <1>7, <2>1, <2>2 DEF SettledFromRevenue, Sum
<1>  QED  BY <1>3, <1>4, <1>5, <1>6, <1>8, <1>9 DEF TreasuryInv

\* Every step decides, commits, moves a row, is one of an upgrade's, or a fault.
LEMMA TreasurySteps ==
  TreasuryInv /\ TreasuryNext =>
    \/ \E p \in Processes : \/ Decides(p) \/ Commit(p)
                            \/ \E u \in Upgrades : CheckUpgrade(p, u)
                            \/ MarkUpgrade(p) \/ PayUpgrade(p) \/ ProcessDies(p)
    \/ MovesRow \/ OwnerFreezes
<1>1. \A p \in Processes : TreasuryInv /\ Transaction(p) => Decides(p) \/ Commit(p)
  BY ReceiveDecides, IncurDecides, SettleDecides, RequestDecides, ResourceDecides
     DEF Transaction
<1>  QED  BY <1>1, RowMoves DEF TreasuryNext

LEMMA TreasuryStepInv == TreasuryInv /\ [TreasuryNext]_treasuryVars => TreasuryInv'
<1>1. ASSUME TreasuryInv, TreasuryNext PROVE TreasuryInv'
  BY <1>1, TreasurySteps, DecidesKeeps, CommitKeeps, CheckKeeps, MarkKeeps, PayKeeps, DiesKeeps,
     MovesKeep, FreezeKeeps
<1>2. ASSUME TreasuryInv, UNCHANGED treasuryVars PROVE TreasuryInv'
  <2>1. UNCHANGED <<status, posted, frozen, process, interrupted, faults>>
    BY <1>2 DEF treasuryVars
  <2>2. \A q \in Processes, u \in Upgrades : Pays(q, u) => Pays(q, u)'
    BY <2>1 DEF Pays
  <2>3. UpgradesPaid' /\ TreasuryTypes'
    BY <1>2, <2>1, <2>2 DEF TreasuryInv, UpgradesPaid, TreasuryTypes
  <2>4. RowsOK' /\ OperationsOK' /\ OneHolder' /\ PaidOnce'
    BY <1>2, <2>1 DEF TreasuryInv, RowsOK, OperationsOK, OneHolder, PaidOnce, Holds
  <2>5. DecidedFromEarnings' /\ SettledFromRevenue'
    BY <1>2, <2>1 DEF TreasuryInv, DecidedFromEarnings, SettledFromRevenue, Sum
  <2>  QED  BY <2>3, <2>4, <2>5 DEF TreasuryInv
<1>  QED  BY <1>1, <1>2

THEOREM TreasuryInvariant == TreasurySpec => []TreasuryInv
<1>1. TreasuryInit => TreasuryInv
  BY TreasuryInitInv
<1>2. TreasuryInv /\ [TreasuryNext]_treasuryVars => TreasuryInv'
  BY TreasuryStepInv
<1>  QED  BY <1>1, <1>2, PTL DEF TreasurySpec

\* For any number of agents, payments and decisions: an agent's transfers and
\* reinvestments were earned by it.
THEOREM RequestsAreEarned == TreasurySpec => []DecidedFromEarnings
<1>1. TreasuryInv => DecidedFromEarnings
  BY DEF TreasuryInv
<1>  QED  BY <1>1, TreasuryInvariant, PTL

\* Settlements and resources come out of realized revenue, and resources out of
\* their agent's quota.
THEOREM SpendingIsRealized == TreasurySpec => []SettledFromRevenue
<1>1. TreasuryInv => SettledFromRevenue
  BY DEF TreasuryInv
<1>  QED  BY <1>1, TreasuryInvariant, PTL

LEMMA OneLocked == OneHolder => Cardinality({p \in Processes : process[p].step = "locked"}) <= 1
<1>1. SUFFICES ASSUME OneHolder
               PROVE  Cardinality({p \in Processes : process[p].step = "locked"}) <= 1
  OBVIOUS
<1>2. PICK H : H = {p \in Processes : process[p].step = "locked"}
  OBVIOUS
<1>3. CASE H = {}
  BY <1>2, <1>3, FS_EmptySet
<1>4. CASE H # {}
  <2>1. PICK p \in H : TRUE
    BY <1>4
  <2>2. H = {p}
    BY <1>1, <1>2, <2>1 DEF OneHolder, Holds
  <2>3. Cardinality({p}) = 1
    BY FS_Singleton
  <2>  QED  BY <1>2, <2>2, <2>3
<1>  QED  BY <1>3, <1>4

\* Entries and rows agree, of any number of them, with their types; what is
\* applied without an entry had its process die; no payment counts twice.
THEOREM LedgerMatchesRows == TreasurySpec => []BooksMatchRows
<1>1. TreasuryInv => BooksMatchRows
  <2>1. SUFFICES ASSUME TreasuryInv PROVE BooksMatchRows
    OBVIOUS
  <2>2. \A i \in Items : RowOK(i, status[i], posted[i])
    BY <2>1 DEF TreasuryInv, RowsOK
  <2>3. /\ \A i \in Requests : status[i] \in {"none", "proposed", "executed", "rejected"}
        /\ \A i \in Receipts \cup Work : status[i] \in {"none", "booked"}
        /\ \A i \in Settlements : status[i] \in {"none", "pending", "completed"}
        /\ \A i \in Resources :
             status[i] \in {"none", "denied", "approved", "provisioned", "retired"}
        /\ \A i \in Upgrades :
             status[i] \in {"none", "proposed", "rejected", "applied", "rolled_back"}
    BY <2>2, ItemKinds DEF RowOK
  <2>4. \A p \in Processes :
          /\ process[p].step \in {"idle", "locked", "marking", "paying"}
          /\ process[p].step # "idle" => process[p].item \in Items
          /\ process[p].cents \in Nat
    <3>1. \A p \in Processes : process[p] \in Operations /\ OperationOK(process[p], status, posted)
      BY <2>1 DEF TreasuryInv, TreasuryTypes, OperationsOK
    <3>2. Sound \subseteq Items
      BY ItemKinds, TreasuryAssumption
    <3>  QED  BY <3>1, <3>2 DEF Operations, OperationOK
  <2>5. TreasuryTypeOK
    <3>1. Cardinality({p \in Processes : process[p].step = "locked"}) <= 1
      BY <2>1, OneLocked DEF TreasuryInv
    <3>  QED  BY <2>1, <2>3, <2>4, <3>1 DEF TreasuryInv, TreasuryTypes, TreasuryTypeOK
  <2>6. /\ \A q \in Requests : posted[q] = IF status[q] = "executed" THEN CentsOf[q] ELSE 0
        /\ \A i \in Receipts \cup Work :
             posted[i] = IF status[i] = "booked" THEN CentsOf[i] ELSE 0
        /\ \A s \in Settlements : posted[s] > 0 <=> status[s] # "none"
        /\ \A x \in Resources : posted[x] > 0 => status[x] \in {"provisioned", "retired"}
        /\ \A u \in Upgrades : posted[u] > 0 => status[u] \in {"applied", "rolled_back"}
    BY <2>2, ItemKinds DEF RowOK
  <2>7. \A u \in Upgrades : status[u] \in {"applied", "rolled_back"} =>
            \/ posted[u] = CentsOf[u] \/ u \in interrupted
            \/ \E p \in Processes : process[p].step = "paying" /\ process[p].item = u
    BY <2>1 DEF TreasuryInv, UpgradesPaid, Pays
  <2>8. PaidOnce
    BY <2>1 DEF TreasuryInv
  <2>  QED  BY <2>5, <2>6, <2>7, <2>8 DEF BooksMatchRows, PaidOnce
<1>  QED  BY <1>1, TreasuryInvariant, PTL

\* No step changes what was decided about a request: a decision that is about to
\* be committed is about one that is still open.
LEMMA RequestsStay ==
  TreasuryInv /\ [TreasuryNext]_treasuryVars =>
    \A q \in Requests : status[q] \in {"executed", "rejected"} => status'[q] = status[q]
<1>1. SUFFICES ASSUME TreasuryInv, [TreasuryNext]_treasuryVars, NEW q \in Requests,
                      status[q] \in {"executed", "rejected"}
               PROVE  status'[q] = status[q]
  OBVIOUS
<1>2. q \in Items /\ q \notin Resources /\ q \notin Upgrades
  BY ItemKinds
<1>3. DOMAIN status = Items /\ status = [j \in Items |-> status[j]]
  BY <1>1 DEF TreasuryInv, TreasuryTypes
<1>4. ASSUME NEW p \in Processes, Decides(p) PROVE status'[q] = status[q]
  BY <1>4 DEF Decides, Decide
<1>5. ASSUME NEW p \in Processes, Commit(p) PROVE status'[q] = status[q]
  <2>1. /\ status' = [status EXCEPT ![process[p].item] = process[p].then]
        /\ process[p].step = "locked"
    BY <1>5 DEF Commit
  <2>2. Decidable(process[p].item, status[process[p].item], process[p].then, process[p].cents)
    BY <1>1, <2>1 DEF TreasuryInv, OperationsOK, OperationOK
  <2>3. process[p].item # q
    BY <1>1, <1>2, <2>2, ItemKinds DEF Decidable
  <2>  QED  BY <1>2, <1>3, <2>1, <2>3
<1>6. ASSUME NEW p \in Processes, NEW u \in Upgrades, CheckUpgrade(p, u)
      PROVE  status'[q] = status[q]
  BY <1>6 DEF CheckUpgrade
<1>7. ASSUME NEW p \in Processes, MarkUpgrade(p) PROVE status'[q] = status[q]
  <2>1. process[p].item \in Upgrades
    BY <1>1, <1>7, TreasuryAssumption DEF MarkUpgrade, TreasuryInv, OperationsOK, OperationOK
  <2>  QED  BY <1>2, <1>3, <1>7, <2>1 DEF MarkUpgrade, SetStatus
<1>8. ASSUME NEW p \in Processes, PayUpgrade(p) \/ ProcessDies(p) PROVE status'[q] = status[q]
  BY <1>8 DEF PayUpgrade, ProcessDies
<1>9. ASSUME MovesRow PROVE status'[q] = status[q]
  BY <1>2, <1>3, <1>9 DEF MovesRow, Moves, SetStatus
<1>10. ASSUME OwnerFreezes \/ UNCHANGED treasuryVars PROVE status'[q] = status[q]
  BY <1>10 DEF OwnerFreezes, treasuryVars
<1>  QED  BY <1>1, <1>4, <1>5, <1>6, <1>7, <1>8, <1>9, <1>10, TreasurySteps

\* An executed or a rejected request stays so, whoever decides at the same time.
THEOREM RequestsStayDecided == TreasurySpec => DecisionsAreFinal
<1>1. TreasuryInv /\ [TreasuryNext]_treasuryVars =>
        [\A q \in Requests :
           status[q] \in {"executed", "rejected"} => status'[q] = status[q]]_treasuryVars
  BY RequestsStay
<1>  QED  BY <1>1, TreasuryInvariant, PTL DEF TreasurySpec, DecisionsAreFinal
=============================================================================
