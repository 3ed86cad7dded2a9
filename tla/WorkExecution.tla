--------------------------- MODULE WorkExecution ---------------------------
(***************************************************************************)
(* Autonomous work on opportunities: the two schedulers of the process     *)
(* (src/src/economy/operations.ts, src/src/workforce/scheduler.ts), the    *)
(* routes of the owner, and the pipeline both of them run an execution     *)
(* through (src/src/workforce/execution.ts).                               *)
(*                                                                         *)
(* Everything between two awaits is one step: the code is synchronous and  *)
(* there is one process.  A run awaits its tools, then the model; in the   *)
(* meantime the other scheduler and the owner act.  A crash may fall       *)
(* between two statements of such a step that share no transaction.        *)
(***************************************************************************)
EXTENDS Totals

CONSTANTS
  Opportunities,  \* economy_opportunities
  MaxRounds,      \* bound on the executions of an opportunity
  Schedulers,     \* economyScheduler and workforceScheduler
  Owners,         \* requests of the owner that run an execution
  Agents,         \* who may be assigned
  MaxAttempts,    \* economy_executions.max_attempts
  MaxActive,      \* policy.maxConcurrentExecutions
  Costs,          \* cents the provider may charge for a call of the model
  MaxEvents       \* bound on crashes, runs that outlive their timeout, models
                  \* that charge but fail, and switches, evaluations and
                  \* reassignments of the owner, together

ASSUME WorkAssumption ==
  /\ {MaxRounds, MaxAttempts, MaxActive} \subseteq Nat \ {0}
  /\ MaxEvents \in Nat
  /\ Costs \subseteq Nat /\ Agents # {}
  /\ Schedulers \cap Owners = {}
  /\ IsFiniteSet(Schedulers) /\ IsFiniteSet(Owners)

Executions == Opportunities \X (1..MaxRounds) \* `opp:${id}:live#${round}`
Runners    == Schedulers \cup Owners

VARIABLES
  opportunity, \* economy_opportunities.status
  execution,   \* economy_executions
  overdue,     \* the executions whose timeout_at has passed
  delivered,   \* verified deliveries, each with its expected revenue
  ledger,      \* the api_cost debits, by ref_id
  autonomous,  \* policy.autonomousEnabled
  brake,       \* "killed": the kill switch; "held": provider access revoked,
               \* spending frozen, an agent paused or the emergency stop
  runner,      \* where each tick or request is
  charged,     \* external: cents the provider charged for each execution
  bill,        \* external: those it charged for the call a runner awaits
  lost,        \* history: those it charged for calls that no answer booked
  doubled,     \* history: executions reconciliation took from a live runner
  crashes,     \* history: how often the process died of itself
  events       \* how often one of the bounded events happened

policyVars == <<autonomous, brake>>
charges    == <<charged, bill, lost>>
records    == <<delivered, ledger, charges>>
bounds     == <<crashes, events>>
vars == <<opportunity, execution, overdue, records, policyVars, runner, doubled,
          bounds>>

Live  == {"authorized", "running"}
Final == {"completed", "failed", "cancelled", "timed_out"}

Unstarted == [status |-> "none", attempts |-> 0, cost |-> 0,
              agent |-> CHOOSE a \in Agents : TRUE]
\* What a run remembers of its execution, and what its tick has still to run.
Idle == [step |-> "idle", due |-> {}, run |-> {}, snapshot |-> Unstarted]

ExecutionRecord ==
  [status : Live \cup Final \cup {"none"}, attempts : Nat, cost : Nat,
   agent : Agents]

RunnerRecord ==
  [step : {"idle", "ticking", "between", "tools", "model"},
   due : SUBSET Executions, run : {{}} \cup {{e} : e \in Executions},
   snapshot : ExecutionRecord]

WorkTypeOK ==
  /\ opportunity \in [Opportunities ->
       {"discovered", "evaluated", "executing", "completed", "blocked", "failed"}]
  /\ execution \in [Executions -> ExecutionRecord]
  /\ overdue \subseteq Executions /\ doubled \subseteq Executions
  /\ delivered \in [Executions -> Nat] /\ charged \in [Executions -> Nat]
  /\ bill \in [Runners -> Nat] /\ lost \in [Executions -> Nat]
  /\ ledger \subseteq [execution : Executions, attempt : Nat, cents : Nat \ {0}]
  /\ autonomous \in BOOLEAN /\ brake \in {"off", "held", "killed"}
  /\ runner \in [Runners -> RunnerRecord]
  /\ \A r \in Runners :
       runner[r].run # {} <=> runner[r].step \in {"tools", "model"}
  /\ crashes \in 0..events /\ events \in 0..MaxEvents

Init ==
  /\ opportunity = [o \in Opportunities |-> "discovered"]
  /\ execution = [e \in Executions |-> Unstarted]
  /\ overdue = {} /\ doubled = {}
  /\ delivered = [e \in Executions |-> 0] /\ ledger = {}
  /\ charged = [e \in Executions |-> 0] /\ lost = [e \in Executions |-> 0]
  /\ bill = [r \in Runners |-> 0]
  /\ autonomous = TRUE /\ brake = "off"
  /\ runner = [r \in Runners |-> Idle]
  /\ crashes = 0 /\ events = 0

-----------------------------------------------------------------------------
(* Starting and reassigning executions.                                    *)

Status(S)    == {e \in Executions : execution[e].status \in S}
Of(o)        == {e \in Executions : e[1] = o}
HasLive(o)   == Of(o) \cap Status(Live) # {}
Works(r, e)  == runner[r].run = {e}
WorkedOn     == {e \in Executions : \E r \in Runners : Works(r, e)}

\* insertExecution: the next round of o, the least without an execution.
NextRound(o) ==
  {e \in Of(o) \cap Status({"none"}) :
     \A f \in Of(o) : f[2] < e[2] => execution[f].status # "none"}
\* getLiveExecutionForOpportunity: the one that lives must end first.
CanStart(o)  == ~HasLive(o) /\ NextRound(o) # {}

\* startExecution of every opportunity in S, for an agent each.
StartAll(S) ==
  \E agentOf \in [S -> Agents] :
    execution' = [e \in Executions |->
      IF e[1] \in S /\ e \in NextRound(e[1])
      THEN [Unstarted EXCEPT !.status = "authorized", !.agent = agentOf[e[1]]]
      ELSE execution[e]]

\* evaluateOpportunity of D, which blocks B; the policy authorizes A of the
\* others, and startExecution refuses those beyond the limit.
Dispatched(D, B, A) ==
  /\ B \subseteq D /\ A \subseteq {o \in D \ B : CanStart(o)}
  /\ A # {} => /\ brake # "killed" /\ autonomous
               /\ Cardinality(Status(Live)) + Cardinality(A) <= MaxActive
  /\ StartAll(A)
  /\ opportunity' = [o \in Opportunities |->
       IF o \in A THEN "executing"
       ELSE IF o \in B THEN "blocked"
       ELSE IF o \in D THEN "evaluated" ELSE opportunity[o]]

Discovered == {o \in Opportunities : opportunity[o] = "discovered"}

\* One of the events that are bounded.
Happens == events < MaxEvents /\ events' = events + 1

\* POST /opportunities/:id/authorize
OwnerAuthorizes(o) ==
  /\ CanStart(o)
  /\ StartAll({o})
  /\ opportunity' = [opportunity EXCEPT ![o] = "executing"]
  /\ UNCHANGED <<overdue, records, policyVars, runner, doubled, bounds>>

\* POST /opportunities/:id/evaluate, whatever the status
OwnerEvaluates(o) ==
  /\ Happens
  /\ \E s \in {"evaluated", "blocked"} :
       opportunity' = [opportunity EXCEPT ![o] = s]
  /\ UNCHANGED <<execution, overdue, records, policyVars, runner, doubled,
                 crashes>>

\* reassignExecution
Reassign(e, a) ==
  /\ Happens
  /\ execution[e].status = "authorized" /\ execution[e].agent # a
  /\ execution' = [execution EXCEPT ![e].agent = a]
  /\ UNCHANGED <<opportunity, overdue, records, policyVars, runner, doubled,
                 crashes>>

-----------------------------------------------------------------------------
(* Ticks.                                                                  *)

\* A listStaleExecutions that forgets what was running.
StaleAuthorized == overdue \cap Status({"authorized"})
\* listStaleExecutions
Stale == overdue \cap Status(Live)
\* No attempt is left.
Spent(e) == execution[e].attempts >= MaxAttempts

\* reconcileStaleExecutions for S, of which the opportunities in T are told.
Reconcile(S, T) ==
  /\ execution' = [e \in Executions |->
       IF e \notin S THEN execution[e]
       ELSE [execution[e] EXCEPT !.status =
               IF Spent(e) THEN "timed_out" ELSE "authorized"]]
  /\ opportunity' = [o \in Opportunities |->
       IF \E e \in T : Spent(e) /\ e[1] = o THEN "failed" ELSE opportunity[o]]
  /\ overdue' = overdue \ S
  /\ doubled' = doubled \cup (S \cap WorkedOn)

\* tick up to the search for opportunities, which is awaited
TickStart(s) ==
  /\ runner[s].step = "idle"
  /\ Reconcile(Stale, Stale)
  /\ runner' = IF autonomous /\ brake # "killed"
               THEN [runner EXCEPT ![s].step = "ticking"] ELSE runner
  /\ UNCHANGED <<records, policyVars, bounds>>

\* evaluation and authorization, and what is due then
Dispatch(s) ==
  /\ runner[s].step = "ticking"
  /\ \E B \in SUBSET Discovered, A \in SUBSET Discovered : Dispatched(Discovered, B, A)
  /\ LET waiting == {e \in Executions : execution'[e].status = "authorized"}
     IN \E due \in SUBSET waiting :
          /\ \/ due = waiting /\ Cardinality(waiting) <= MaxActive
             \/ Cardinality(due) = MaxActive
          /\ runner' = [runner EXCEPT ![s].step = "between", ![s].due = due]
  /\ UNCHANGED <<overdue, records, policyVars, doubled, bounds>>

\* The tick ends: nothing is left, or the kill switch is engaged.
TickEnd(s) ==
  /\ runner[s].step = "between"
  /\ runner[s].due = {} \/ brake = "killed"
  /\ runner' = [runner EXCEPT ![s] = Idle]
  /\ UNCHANGED <<opportunity, execution, overdue, records, policyVars, doubled,
                 bounds>>

AllIdle == [r \in Runners |-> Idle]

\* What the provider charged for the calls that are awaited for e.
Unbooked(e) == Total(bill, {r \in Runners : Works(r, e)})

\* The process dies, and with it what it would have booked.
EveryRunDies ==
  /\ runner' = AllIdle
  /\ lost' = [e \in Executions |-> lost[e] + Unbooked(e)]
  /\ bill' = [r \in Runners |-> 0]
  /\ UNCHANGED charged

\* runExecution throws for an execution that another runner has taken since:
\* nobody catches it in a tick of the timer, which takes the process down; a
\* tick that a route started just ends.
TickThrows(s) ==
  /\ runner[s].step = "between" /\ brake # "killed"
  /\ \E e \in runner[s].due : execution[e].status # "authorized"
  /\ \/ EveryRunDies
     \/ runner' = [runner EXCEPT ![s] = Idle] /\ UNCHANGED charges
  /\ UNCHANGED <<opportunity, execution, overdue, delivered, ledger, policyVars,
                 doubled, bounds>>

-----------------------------------------------------------------------------
(* One run of an execution.                                                *)

\* A beginning that overlooks who else runs e.
CanBeginAny(r, e) ==
  /\ execution[e].status \in Live
  /\ IF r \in Schedulers
     THEN /\ runner[r].step = "between" /\ e \in runner[r].due
          /\ brake # "killed"
     ELSE runner[r].step = "idle"
\* Who may begin to run e now, and what is left of its tick.
CanBegin(r, e) ==
  /\ execution[e].status = "authorized"
  /\ IF r \in Schedulers
     THEN /\ runner[r].step = "between" /\ e \in runner[r].due
          /\ brake # "killed"
     ELSE runner[r].step = "idle"

\* The rest of the tick, or the answer to the request.
Return(r, e) ==
  runner' = [runner EXCEPT ![r] =
    IF r \in Schedulers
    THEN [Idle EXCEPT !.step = "between", !.due = runner[r].due \ {e}]
    ELSE Idle]

\* Write a final or retried status, without a look at the one in the table.
Close(e, s)       == execution' = [execution EXCEPT ![e].status = s]
Inform(e, status) == opportunity' = [opportunity EXCEPT ![e[1]] = status]

\* cancel before the claim: a brake, an unusable source or workflow; or the
\* agent is not in the registry.
Refusals ==
  {<<"cancelled", IF brake = "killed" THEN "failed" ELSE "blocked">>}
    \cup (IF brake = "off" THEN {<<"failed", "failed">>} ELSE {})

BeginRefused(r, e) ==
  /\ CanBegin(r, e)
  /\ \E f \in Refusals : Close(e, f[1]) /\ Inform(e, f[2])
  /\ Return(r, e)
  /\ UNCHANGED <<overdue, records, policyVars, doubled, bounds>>

\* the claim; the first tool is called
Begin(r, e) ==
  /\ CanBegin(r, e) /\ brake = "off"
  /\ execution' = [execution EXCEPT ![e].status = "running", ![e].attempts = @ + 1]
  /\ runner' = [runner EXCEPT ![r].step = "tools", ![r].run = {e},
                              ![r].due = @ \ {e}, ![r].snapshot = execution[e]]
  /\ UNCHANGED <<opportunity, overdue, records, policyVars, doubled, bounds>>

\* assertRuntime
MayGoOn(r, e) ==
  /\ brake = "off"
  /\ execution[e].status \in Live
  /\ execution[e].agent = runner[r].snapshot.agent

\* A tool returned: the check before the next, or before the model.
ToolReturns(r, e) ==
  /\ runner[r].step = "tools" /\ Works(r, e)
  /\ IF MayGoOn(r, e)
     THEN /\ runner' = [runner EXCEPT ![r].step = "model"]
          /\ UNCHANGED <<opportunity, execution>>
     ELSE Close(e, "cancelled") /\ Inform(e, "blocked") /\ Return(r, e)
  /\ UNCHANGED <<overdue, records, policyVars, doubled, bounds>>

\* A posting under the name of the execution only.
PostOnce(e, attempt, cents) ==
  ledger' = IF cents = 0 \/ \E x \in ledger : x.execution = e
            THEN ledger
            ELSE ledger \cup {[execution |-> e, attempt |-> attempt, cents |-> cents]}
\* postExecutionCostShares: posted under the number of the attempt
Post(e, attempt, cents) ==
  ledger' = IF cents = 0 \/ \E x \in ledger : x.execution = e /\ x.attempt = attempt
            THEN ledger
            ELSE ledger \cup {[execution |-> e, attempt |-> attempt, cents |-> cents]}

\* A delivery that counts before it is verified.
DeliverAnything(e, verified) == delivered' = [delivered EXCEPT ![e] = @ + 1]
\* insertDelivery, and insertRevenue if it is verified
Deliver(e, verified) ==
  delivered' = [delivered EXCEPT ![e] = @ + IF verified THEN 1 ELSE 0]

\* The provider charges for the call that is awaited.  A model that charged
\* before did not answer: the next one of the fallback chain is called.
ModelCharges(r, e) ==
  /\ runner[r].step = "model" /\ Works(r, e)
  /\ \E cents \in Costs \cup {0} :
       /\ charged' = [charged EXCEPT ![e] = @ + cents]
       /\ bill' = [bill EXCEPT ![r] = cents]
  /\ lost' = [lost EXCEPT ![e] = @ + bill[r]]
  /\ IF bill[r] = 0 THEN UNCHANGED events ELSE Happens
  /\ UNCHANGED <<opportunity, execution, overdue, delivered, ledger, policyVars,
                 runner, doubled, crashes>>

\* The model answered: one transaction books the cost of its call and, if the
\* work may still be delivered, the delivery and its expected revenue.
ModelAnswers(r, e) ==
  /\ runner[r].step = "model" /\ Works(r, e)
  /\ \E verified \in BOOLEAN :
       LET before == runner[r].snapshot
           done(s, status) ==
             /\ execution' = [execution EXCEPT ![e].status = s,
                                               ![e].cost = before.cost + bill[r]]
             /\ Inform(e, status)
       IN /\ Post(e, before.attempts + 1, bill[r])
          /\ IF MayGoOn(r, e)
             THEN /\ Deliver(e, verified)
                  /\ IF verified THEN done("completed", "completed")
                                 ELSE done("failed", "blocked")
             ELSE done("cancelled", "blocked") /\ UNCHANGED delivered
  /\ Return(r, e) /\ bill' = [bill EXCEPT ![r] = 0]
  /\ UNCHANGED <<overdue, charged, lost, policyVars, doubled, bounds>>

\* The catch: the tools or the model threw, or a statement behind the answer,
\* whose booking is rolled back.  The remembered attempts decide.
RunFails(r, e) ==
  /\ runner[r].step \in {"tools", "model"} /\ Works(r, e)
  /\ IF runner[r].snapshot.attempts + 1 >= MaxAttempts
     THEN Close(e, "failed") /\ Inform(e, "failed")
     ELSE Close(e, "authorized") /\ UNCHANGED opportunity
  /\ Return(r, e) /\ bill' = [bill EXCEPT ![r] = 0]
  /\ lost' = [lost EXCEPT ![e] = @ + bill[r]]
  /\ UNCHANGED <<overdue, delivered, ledger, charged, policyVars, doubled, bounds>>

-----------------------------------------------------------------------------
(* The world.                                                              *)

\* timeout_at, which is set when e is authorized or requeued, passes.
Expire(e) ==
  /\ e \in Status(Live) \ overdue
  /\ \/ e \notin WorkedOn /\ UNCHANGED events
     \/ e \in WorkedOn /\ Happens
  /\ overdue' = overdue \cup {e}
  /\ UNCHANGED <<opportunity, execution, records, policyVars, runner, doubled,
                 crashes>>

OwnerSwitches ==
  /\ Happens
  /\ \/ \E b \in {"off", "held", "killed"} \ {brake} :
          brake' = b /\ UNCHANGED autonomous
     \/ autonomous' = ~autonomous /\ UNCHANGED brake
  /\ UNCHANGED <<opportunity, execution, overdue, records, runner, doubled,
                 crashes>>

\* What a step may have written when the process dies in it: nothing, part of
\* a reconciliation or of a dispatch, or an execution but not its opportunity.
PartOfStep ==
  \/ UNCHANGED <<opportunity, execution, overdue, doubled>>
  \/ \E S \in SUBSET Stale : \E e \in S : Reconcile(S, S \ {e})
  \/ /\ \E s \in Schedulers : runner[s].step = "ticking"
     /\ \E D \in SUBSET Discovered : \E B \in SUBSET D, A \in SUBSET D : Dispatched(D, B, A)
     /\ UNCHANGED <<overdue, doubled>>
  \/ /\ \E r \in Runners, e \in Executions :
          \/ CanBegin(r, e) /\ \E f \in Refusals : Close(e, f[1])
          \/ Works(r, e) /\ runner[r].step = "tools" /\ ~MayGoOn(r, e)
               /\ Close(e, "cancelled")
          \/ Works(r, e) /\ runner[r].snapshot.attempts + 1 >= MaxAttempts
               /\ Close(e, "failed")
     /\ UNCHANGED <<opportunity, overdue, doubled>>

Crash ==
  /\ Happens /\ crashes' = crashes + 1
  /\ PartOfStep
  /\ EveryRunDies
  /\ UNCHANGED <<delivered, ledger, policyVars>>

-----------------------------------------------------------------------------
RunStep(r, e) == \/ BeginRefused(r, e) \/ Begin(r, e) \/ ToolReturns(r, e)
                 \/ ModelCharges(r, e) \/ ModelAnswers(r, e) \/ RunFails(r, e)
Tick(s) == TickStart(s) \/ Dispatch(s) \/ TickEnd(s) \/ TickThrows(s)

Next ==
  \/ \E s \in Schedulers : Tick(s)
  \/ \E r \in Runners, e \in Executions : RunStep(r, e)
  \/ \E o \in Opportunities : OwnerAuthorizes(o) \/ OwnerEvaluates(o)
  \/ \E e \in Executions : Expire(e) \/ \E a \in Agents : Reassign(e, a)
  \/ OwnerSwitches \/ Crash

Spec == Init /\ [][Next]_vars

\* The timers keep ticking, tools and the model answer or time out (every
\* provider call has a timeout), and time passes.
Fairness ==
  /\ \A s \in Schedulers : WF_vars(Tick(s) \/ \E e \in Executions : RunStep(s, e))
  /\ \A r \in Owners : \A e \in Executions :
       WF_vars(ToolReturns(r, e) \/ ModelAnswers(r, e) \/ RunFails(r, e))
  /\ \A e \in Executions : WF_vars(Expire(e))

FairSpec == Spec /\ Fairness

-----------------------------------------------------------------------------
(* Properties.  An execution whose run outlived its timeout, so that it was *)
(* handed to a second runner, is excepted where `doubled` is named.         *)

\* An execution is worked on by one runner at a time, the one that claimed it,
\* and no more often than its retry budget allows, whatever the two
\* schedulers, the owner and reconciliation do at the same time.
WorkedOnce ==
  \A e \in Executions \ doubled :
    /\ \A r, q \in Runners : Works(r, e) /\ Works(q, e) => r = q
    /\ e \in WorkedOn => execution[e].status = "running"
    /\ execution[e].attempts <= MaxAttempts
    /\ execution[e].status = "authorized" => ~Spent(e)

\* An opportunity has one live execution at most, and is executing only while
\* it has one (a crash between the two updates leaves it executing).
OneLiveExecution ==
  \A o \in Opportunities : Of(o) \cap doubled = {} =>
    /\ \A e, f \in Of(o) \cap Status(Live) : e = f
    /\ opportunity[o] = "executing" /\ crashes = 0 => HasLive(o)

\* A completed execution has its verified delivery, one, and no other
\* execution has any, so that expected revenue is entered once.
CompletedIsDelivered ==
  \A e \in Executions \ doubled :
    delivered[e] = IF execution[e].status = "completed" THEN 1 ELSE 0

\* What the ledger says an execution cost.
Booked(e) == Total([x \in ledger |-> x.cents], {x \in ledger : x.execution = e})

\* Whatever the provider charged for an execution is in the ledger, once, is
\* still to be booked by a run that awaits the model, or went with a run that
\* failed or died and with a model that charged but did not answer.  So no
\* answer goes unbooked, also that of a second attempt or of work that was
\* cancelled or taken over in the meantime, and the row shows what is booked.
CostIsBooked ==
  \A e \in Executions :
    /\ charged[e] = Booked(e) + Unbooked(e) + lost[e]
    /\ e \notin doubled => execution[e].cost = Booked(e)

\* A final execution stays what it is: neither a late answer nor a late
\* failure, reconciliation or the owner reopens it.
FinalStaysFinal ==
  [][\A e \in Executions \ doubled' :
       execution[e].status \in Final => execution'[e].status = execution[e].status]_vars

\* If autonomous work is enabled and no brake is engaged from some time on,
\* an execution that was authorized ends, however often the process died: what
\* a dead run held is requeued.
WorkSettles ==
  <>[](autonomous /\ brake = "off") =>
    \A e \in Executions :
      execution[e].status \in Live ~> execution[e].status \in Final
=============================================================================
