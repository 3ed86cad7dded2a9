------------------------------ MODULE Billing ------------------------------
(***************************************************************************)
(* Billing of one account (src/src/billing/service.ts, the statements of   *)
(* src/src/db/platform-repositories.ts, the webhook routes of              *)
(* src/src/routes/billing.ts) over its credit ledger: credit purchases,    *)
(* plan checkouts, settlement by a provider event or by an admin, refunds. *)
(*                                                                         *)
(* A handler runs without interleaving between two awaits, but each of its *)
(* statements is committed on its own and the process may die in between:  *)
(* a handler puts the statements it is going to execute in stmts.  The     *)
(* provider is external: it sends events in any order, and again.          *)
(***************************************************************************)
EXTENDS CreditLedger, Sequences, SequencesExt

CONSTANTS
  Invoices,   \* the invoices that may ever be created
  Events,     \* provider event ids
  MaxCrashes  \* bound on the crashes of the process

ASSUME BillingAssumption == MaxCrashes \in Nat

Plans         == {"free", "pro"}   \* a plan without a price, and one with
InvoiceStatus == {"absent", "due", "pending", "paid", "refunded"}
PaymentStatus == {"absent", "pending", "succeeded", "failed", "refunded"}
EventTypes    == {"invoice.paid", "payment.failed", "invoice.refunded",
                  "subscription.cancelled"}
NoEvent       == [type |-> "none"]

\* named: does the event carry the id of an invoice of ours.
EventRecord == [type : EventTypes, about : Invoices, named : BOOLEAN]

VARIABLES
  status,       \* invoices.status
  credits,      \* the credits the line item of the invoice buys; 0: a plan
  payment,      \* payments.status of the payment row of the invoice
  checkout,     \* invoices whose provider checkout is being created (awaited)
  session,      \* external: invoices with a checkout at the provider
  live,         \* the number of live subscriptions to each plan
  entitled,     \* entitlement custom_credits
  claimed,      \* processed_billing_events
  sent,         \* external: delivered events that were not claimed yet
  notified,     \* history: invoices that were due when their payment was claimed
  grants,       \* amounts of the grant rows that refer to the invoice
  reversals,    \* amounts of the reversal rows that refer to the invoice
  stmts,        \* statements the running handler is yet to execute
  crashes,
  interrupted   \* history: invoices a crash cut a handler of

invoiceVars == <<status, credits, payment, checkout, session>>
eventVars   == <<claimed, sent, notified>>
billingVars == <<invoiceVars, live, entitled, eventVars, grants, reversals,
                 stmts, crashes, interrupted>>
vars        == <<ledgerVars, billingVars>>

Init ==
  /\ LedgerInit
  /\ status = [i \in Invoices |-> "absent"]
  /\ credits = [i \in Invoices |-> 0]
  /\ payment = [i \in Invoices |-> "absent"]
  /\ checkout = {} /\ session = {}
  /\ live = [p \in Plans |-> IF p = "free" THEN 1 ELSE 0]
  /\ entitled = FALSE
  /\ claimed = {}
  /\ sent = [e \in Events |-> NoEvent]
  /\ notified = {}
  /\ grants = [i \in Invoices |-> <<>>]
  /\ reversals = [i \in Invoices |-> <<>>]
  /\ stmts = <<>> /\ crashes = 0 /\ interrupted = {}

Stmt(op, on, n) == [op |-> op, on |-> on, n |-> n]

\* The handler starts and will execute the statements s.
Begin(s) == stmts = <<>> /\ stmts' = s

-----------------------------------------------------------------------------
(* Handlers.                                                               *)

CreateInvoice(i, s, n) ==
  /\ status[i] = "absent"
  /\ status' = [status EXCEPT ![i] = s]
  /\ credits' = [credits EXCEPT ![i] = n]

\* purchaseCustomCredits with provider 'manual'.
PurchaseManually(i, n) ==
  /\ CreateInvoice(i, "due", n)
  /\ Begin(<<Stmt("CreatePayment", i, 0)>>)
  /\ UNCHANGED <<payment, checkout, session, live, entitled, eventVars,
                 grants, reversals, crashes, interrupted, ledgerVars>>

\* purchaseCustomCredits with a configured provider, up to its await.
PurchaseFromProvider(i, n) ==
  /\ stmts = <<>>
  /\ CreateInvoice(i, "pending", n)
  /\ checkout' = checkout \cup {i}
  /\ UNCHANGED <<payment, session, live, entitled, eventVars, grants,
                 reversals, stmts, crashes, interrupted, ledgerVars>>

\* startPlanCheckout, up to its await.
StartPlanCheckout(i) ==
  /\ stmts = <<>>
  /\ CreateInvoice(i, "due", 0)
  /\ checkout' = checkout \cup {i}
  /\ UNCHANGED <<payment, session, live, entitled, eventVars, grants,
                 reversals, stmts, crashes, interrupted, ledgerVars>>

\* The provider answered: the payment row is created.  Or the call failed and
\* the handler threw.
CheckoutReturns(i) ==
  /\ i \in checkout
  /\ checkout' = checkout \ {i}
  /\ \/ Begin(<<Stmt("CreatePayment", i, 0)>>) /\ session' = session \cup {i}
     \/ stmts = <<>> /\ UNCHANGED <<stmts, session>>
  /\ UNCHANGED <<status, credits, payment, live, entitled, eventVars,
                 grants, reversals, crashes, interrupted, ledgerVars>>

\* cancelActiveSubscriptions, then createSubscription.
Subscribe(p) == <<Stmt("CancelSubscriptions", p, 0),
                  Stmt("CreateSubscription", p, 0)>>

\* switchPlan: the route lets only plans without a price through.
SwitchPlan ==
  /\ Begin(Subscribe("free"))
  /\ UNCHANGED <<invoiceVars, live, entitled, eventVars, grants, reversals,
                 crashes, interrupted, ledgerVars>>

\* grantCustomCredits and ensureEntitlement.
GrantPlan(i, n) == <<Stmt("Grant", i, n), Stmt("Entitle", i, 0)>>

\* Mutant: a refunded invoice can be settled once more.
PayableAgain(i) == status[i] \in {"due", "refunded"}

\* The only status an invoice can be settled from ('open' is never written).
Payable(i) == status[i] = "due"

\* settleInvoicePayment.
Settlement(i) ==
  IF Payable(i)
  THEN <<Stmt("MarkPaid", i, 0), Stmt("PaymentSucceeded", i, 0)>> \o
       (IF credits[i] > 0 THEN GrantPlan(i, credits[i]) ELSE Subscribe("pro"))
  ELSE <<>>

\* Mutant: an invoice that is not paid is refunded too.
RefundUnpaid(i) ==
  <<Stmt("MarkRefunded", i, 0), Stmt("PaymentsRefunded", i, 0)>> \o
  (IF credits[i] > 0 THEN <<Stmt("Reverse", i, credits[i])>> ELSE <<>>)

\* The refund branch of handleWebhookEvent.
Refund(i) ==
  IF status[i] = "paid"
  THEN <<Stmt("MarkRefunded", i, 0), Stmt("PaymentsRefunded", i, 0)>> \o
       (IF credits[i] > 0 THEN <<Stmt("Reverse", i, credits[i])>> ELSE <<>>)
  ELSE <<>>

\* What an event makes handleWebhookEvent do after it was claimed.  An event
\* that names no invoice of ours finds none.
Effects(r) ==
  IF r.type = "subscription.cancelled" THEN <<Stmt("CancelSubscriptions", "free", 0)>>
  ELSE IF ~r.named THEN <<>>
  ELSE IF r.type = "invoice.paid" THEN Settlement(r.about)
  ELSE IF r.type = "invoice.refunded" THEN Refund(r.about)
  ELSE <<Stmt("PaymentFailed", r.about, 0)>>

\* External: a signed event that names an invoice that exists, or the payment
\* of a checkout.  The latter carries what createStripeCheckout put in
\* client_reference_id: the number of the invoice, which is not its id.
MayHappen(r) ==
  IF r.named THEN status[r.about] # "absent"
  ELSE r.about \in session /\ r.type = "invoice.paid"

\* A delivery, the first one or another, of event e with content r:
\* handleWebhookEvent.
Webhook(e, r) ==
  /\ sent[e] \in {NoEvent, r} /\ MayHappen(r)
  /\ e \notin claimed
  /\ sent' = [sent EXCEPT ![e] = r]
  /\ Begin(<<Stmt("Claim", e, 0)>> \o Effects(r))
  /\ UNCHANGED <<invoiceVars, live, entitled, claimed, notified,
                 grants, reversals, crashes, interrupted, ledgerVars>>

\* The generic route also takes events without an id, which are not claimed.
AnonymousWebhook(r) ==
  /\ r.named /\ MayHappen(r)
  /\ Begin(Effects(r))
  /\ UNCHANGED <<invoiceVars, live, entitled, eventVars, grants, reversals,
                 crashes, interrupted, ledgerVars>>

\* settleManualPayment: an admin names the credits, whatever the line item says.
SettleManualPayment(i, n) ==
  /\ Payable(i)
  /\ Begin(<<Stmt("MarkPaid", i, 0)>> \o GrantPlan(i, n))
  /\ UNCHANGED <<invoiceVars, live, entitled, eventVars, grants, reversals,
                 crashes, interrupted, ledgerVars>>

\* The execution engine takes a task credit of the same account, or gives it
\* back, between two handlers.
UseCredit(t) ==
  /\ stmts = <<>>
  /\ ConsumeTaskCredit(t) \/ RefundTaskCredit(t)
  /\ UNCHANGED billingVars

-----------------------------------------------------------------------------
(* Statements.                                                             *)

UpdateInvoice(s) ==
  /\ \/ s.op = "MarkPaid" /\ status' = [status EXCEPT ![s.on] = "paid"]
     \/ /\ s.op = "MarkRefunded"
        /\ status' = [status EXCEPT ![s.on] = IF @ = "paid" THEN "refunded" ELSE @]
  /\ UNCHANGED <<credits, payment, checkout, session, live, entitled, eventVars,
                 grants, reversals, ledgerVars>>

\* The UPDATEs of payments are guarded by the status they replace.
MovePayment(i, from, to) ==
  payment' = [payment EXCEPT ![i] = IF @ = from THEN to ELSE @]

UpdatePayment(s) ==
  /\ \/ s.op = "CreatePayment"    /\ MovePayment(s.on, "absent", "pending")
     \/ s.op = "PaymentSucceeded" /\ MovePayment(s.on, "pending", "succeeded")
     \/ s.op = "PaymentFailed"    /\ MovePayment(s.on, "pending", "failed")
     \/ s.op = "PaymentsRefunded" /\ MovePayment(s.on, "succeeded", "refunded")
  /\ UNCHANGED <<status, credits, checkout, session, live, entitled, eventVars,
                 grants, reversals, ledgerVars>>

\* Mutant: the former subscription is left live.
UpdateSubscriptionsKeeping(s) ==
  /\ live' = IF s.op = "CancelSubscriptions" THEN live
             ELSE [live EXCEPT ![s.on] = @ + 1]
  /\ UNCHANGED <<invoiceVars, entitled, eventVars, grants, reversals, ledgerVars>>

UpdateSubscriptions(s) ==
  /\ live' = IF s.op = "CancelSubscriptions" THEN [p \in Plans |-> 0]
             ELSE [live EXCEPT ![s.on] = @ + 1]
  /\ UNCHANGED <<invoiceVars, entitled, eventVars, grants, reversals, ledgerVars>>

\* grantCustomCredits and reverseCustomCredits: the account and its row.
MoveCredits(s) ==
  /\ \/ /\ s.op = "Grant" /\ GrantCustomCredits(s.n)
        /\ grants' = [grants EXCEPT ![s.on] = Append(@, s.n)]
        /\ UNCHANGED reversals
     \/ /\ s.op = "Reverse" /\ ReverseCustomCredits(s.n)
        /\ reversals' = [reversals EXCEPT
             ![s.on] = Append(@, balance["paid"] - balance'["paid"])]
        /\ UNCHANGED grants
  /\ UNCHANGED <<invoiceVars, live, entitled, eventVars>>

\* claimBillingEvent.
Claim(s) ==
  LET r == sent[s.on]
  IN  /\ claimed' = claimed \cup {s.on}
      /\ sent' = [sent EXCEPT ![s.on] = NoEvent]
      /\ notified' = notified \cup
           {i \in Invoices : r.type = "invoice.paid" /\ r.named
                             /\ r.about = i /\ Payable(i)}
      /\ UNCHANGED <<invoiceVars, live, entitled, grants, reversals, ledgerVars>>

Entitle(s) ==
  /\ entitled' = TRUE
  /\ UNCHANGED <<invoiceVars, live, eventVars, grants, reversals, ledgerVars>>

\* The next statement of the handler is executed and committed.
Execute ==
  /\ stmts # <<>>
  /\ LET s == Head(stmts)
     IN  \/ UpdateInvoice(s) \/ UpdatePayment(s) \/ MoveCredits(s)
         \/ /\ s.op \in {"CancelSubscriptions", "CreateSubscription"}
            /\ UpdateSubscriptions(s)
         \/ s.op = "Claim" /\ Claim(s)
         \/ s.op = "Entitle" /\ Entitle(s)
  /\ stmts' = Tail(stmts)
  /\ UNCHANGED <<crashes, interrupted>>

-----------------------------------------------------------------------------
(* The process.                                                            *)

\* The process dies and is started again; handlers in flight are lost.
Crash ==
  /\ crashes < MaxCrashes /\ crashes' = crashes + 1
  /\ stmts' = <<>> /\ checkout' = {}
  /\ interrupted' = interrupted \cup ({s.on : s \in ToSet(stmts)} \cap Invoices)
  /\ UNCHANGED <<status, credits, payment, session, live, entitled, eventVars,
                 grants, reversals, ledgerVars>>

Next ==
  \/ \E i \in Invoices, n \in GrantSizes :
       PurchaseManually(i, n) \/ PurchaseFromProvider(i, n)
                              \/ SettleManualPayment(i, n)
  \/ \E i \in Invoices : StartPlanCheckout(i) \/ CheckoutReturns(i)
  \/ SwitchPlan
  \/ \E e \in Events, r \in EventRecord : Webhook(e, r)
  \/ \E r \in EventRecord : AnonymousWebhook(r)
  \/ \E t \in Tasks : UseCredit(t)
  \/ Execute
  \/ Crash

Spec == Init /\ [][Next]_vars

-----------------------------------------------------------------------------
StatementOps == {"MarkPaid", "MarkRefunded", "CreatePayment", "PaymentSucceeded",
                 "PaymentFailed", "PaymentsRefunded", "CancelSubscriptions",
                 "CreateSubscription", "Grant", "Reverse", "Claim", "Entitle"}

BillingTypeOK ==
  /\ LedgerTypeOK
  /\ status \in [Invoices -> InvoiceStatus]
  /\ credits \in [Invoices -> GrantSizes \cup {0}]
  /\ payment \in [Invoices -> PaymentStatus]
  /\ checkout \subseteq Invoices /\ session \subseteq Invoices
  /\ live \in [Plans -> Nat]
  /\ entitled \in BOOLEAN
  /\ claimed \subseteq Events
  /\ sent \in [Events -> EventRecord \cup {NoEvent}]
  /\ notified \subseteq Invoices
  /\ grants \in [Invoices -> Seq(GrantSizes)]
  /\ reversals \in [Invoices -> Seq(Nat)]
  /\ stmts \in Seq([op : StatementOps, on : Invoices \cup Events \cup Plans,
                    n : GrantSizes \cup {0}])
  /\ crashes \in 0 .. MaxCrashes
  /\ interrupted \subseteq Invoices

\* An invoice grants its credits at most once, whatever the number and order
\* of its events, replays, admin settlements, refunds and crashes, and takes
\* them back at most once, after they were paid for (handleWebhookEvent: "a
\* paid invoice is never re-settled, so credits cannot be granted twice").
GrantedOnce ==
  \A i \in Invoices :
    /\ Len(grants[i]) <= 1 /\ Len(reversals[i]) <= 1
    /\ grants[i] # <<>> => status[i] \in {"paid", "refunded"}
    /\ reversals[i] # <<>> => status[i] = "refunded"

\* Between two handlers, an invoice that no crash interfered with is paid if a
\* payment that names it was claimed while it was due; once paid for credits it
\* has granted them; and it is refunded exactly if they were reversed.  The
\* types say that no reversal drives the balance below zero.
SettledWhole ==
  /\ BillingTypeOK
  /\ stmts = <<>> =>
    \A i \in Invoices \ interrupted :
      /\ i \in notified => status[i] \in {"paid", "refunded"}
      /\ status[i] \in {"paid", "refunded"} /\ credits[i] > 0
           => /\ Len(grants[i]) = 1 /\ entitled
              /\ status[i] = "refunded" <=> Len(reversals[i]) = 1

\* At most one subscription of the account is live, and one to a plan that
\* costs money only when an invoice for it was paid (switchPlan: "exactly one
\* live subscription per account"; settleInvoicePayment: "this, and only this,
\* activates a paid plan").
LivePlanIsPaidFor ==
  /\ live["free"] + live["pro"] <= 1
  /\ live["pro"] > 0 => \E i \in Invoices : /\ credits[i] = 0
                                            /\ status[i] \in {"paid", "refunded"}
=============================================================================
