---------------------------- MODULE AccountProofs ----------------------------
(***************************************************************************)
(* Proofs about what an account owner keeps with the platform.             *)
(*                                                                         *)
(* Billing, for every set of invoices, events and sizes: its types, that   *)
(* an invoice grants and takes back its credits once, that an invoice no   *)
(* crash cut is settled as a whole, that the live plan is paid for, and    *)
(* that purchases and refunds are operations of the ledger.                *)
(*                                                                         *)
(* AutomationScheduler, for every set of schedules and manual runs and any *)
(* number of faults: its types, that run rows and workflows agree outside  *)
(* a callback, that only a fault makes an occurrence launch again, and     *)
(* that an interval skips the occurrences it missed.                       *)
(***************************************************************************)
EXTENDS Billing, AutomationScheduler, CreditLedgerProofs

-----------------------------------------------------------------------------
(* Billing.  What a handler has read when it left a list of statements     *)
(* still holds at each of them, because no other handler starts before.      *)

\* What is left of the settlement of an invoice, by how far it is.
Paying(i, s) ==
  \/ /\ status[i] = "due"
     /\ \/ \E n \in GrantSizes :
             \/ s = <<Stmt("MarkPaid", i, 0), Stmt("PaymentSucceeded", i, 0),
                      Stmt("Grant", i, n), Stmt("Entitle", i, 0)>>
             \/ s = <<Stmt("MarkPaid", i, 0), Stmt("Grant", i, n), Stmt("Entitle", i, 0)>>
        \/ /\ credits[i] = 0
           /\ s = <<Stmt("MarkPaid", i, 0), Stmt("PaymentSucceeded", i, 0),
                    Stmt("CancelSubscriptions", "pro", 0), Stmt("CreateSubscription", "pro", 0)>>
  \/ /\ status[i] = "paid" /\ grants[i] = <<>>
     /\ \/ \E n \in GrantSizes :
             \/ s = <<Stmt("PaymentSucceeded", i, 0), Stmt("Grant", i, n), Stmt("Entitle", i, 0)>>
             \/ s = <<Stmt("Grant", i, n), Stmt("Entitle", i, 0)>>
        \/ /\ credits[i] = 0
           /\ s = <<Stmt("PaymentSucceeded", i, 0), Stmt("CancelSubscriptions", "pro", 0),
                    Stmt("CreateSubscription", "pro", 0)>>
  \/ status[i] = "paid" /\ Len(grants[i]) = 1 /\ s = <<Stmt("Entitle", i, 0)>>

\* Once paid for credits, an invoice no crash interfered with has granted them.
HasGranted(i) ==
  credits[i] > 0 /\ i \notin interrupted => Len(grants[i]) = 1 /\ entitled

\* The same of a refund.
Refunding(i, s) ==
  /\ HasGranted(i)
  /\ \/ /\ status[i] = "paid"
        /\ \/ /\ credits[i] > 0
              /\ s = <<Stmt("MarkRefunded", i, 0), Stmt("PaymentsRefunded", i, 0),
                       Stmt("Reverse", i, credits[i])>>
           \/ /\ credits[i] = 0
              /\ s = <<Stmt("MarkRefunded", i, 0), Stmt("PaymentsRefunded", i, 0)>>
     \/ /\ status[i] = "refunded" /\ reversals[i] = <<>>
        /\ \/ /\ credits[i] > 0
              /\ \/ s = <<Stmt("PaymentsRefunded", i, 0), Stmt("Reverse", i, credits[i])>>
                 \/ s = <<Stmt("Reverse", i, credits[i])>>
           \/ credits[i] = 0 /\ s = <<Stmt("PaymentsRefunded", i, 0)>>

Handles(i, s) == Paying(i, s) \/ Refunding(i, s)

PlanPaid == \E i \in Invoices : credits[i] = 0 /\ status[i] \in {"paid", "refunded"}

\* A change of the plan: the paid one only if it was paid for.
Subscribing(s) ==
  \E p \in Plans :
    /\ p = "pro" => PlanPaid
    /\ \/ s = <<Stmt("CancelSubscriptions", p, 0), Stmt("CreateSubscription", p, 0)>>
       \/ s = <<Stmt("CreateSubscription", p, 0)>> /\ live = [q \in Plans |-> 0]

\* Lists of statements that concern no property.
Marking(s) ==
  \/ s = <<>>
  \/ s = <<Stmt("CancelSubscriptions", "free", 0)>>
  \/ \E i \in Invoices : s = <<Stmt("CreatePayment", i, 0)>> \/ s = <<Stmt("PaymentFailed", i, 0)>>

\* An event is about to be claimed, with what it asked for when it came.
Claiming(s) ==
  \E e \in Events : sent[e] \in EventRecord /\ s = <<Stmt("Claim", e, 0)>> \o Effects(sent[e])

HandlerSound ==
  \/ Marking(stmts) \/ Subscribing(stmts) \/ Claiming(stmts)
  \/ \E i \in Invoices : Handles(i, stmts)

\* What SettledWhole says of an invoice.
Whole(i) ==
  /\ i \in notified => status[i] \in {"paid", "refunded"}
  /\ status[i] \in {"paid", "refunded"} /\ credits[i] > 0
       => /\ Len(grants[i]) = 1 /\ entitled
          /\ status[i] = "refunded" <=> Len(reversals[i]) = 1

AllWhole == \A i \in Invoices \ interrupted : Whole(i) \/ Handles(i, stmts)

BillingInv ==
  /\ BillingTypeOK /\ LedgerInv /\ GrantedOnce /\ LivePlanIsPaidFor
  /\ HandlerSound /\ AllWhole

-----------------------------------------------------------------------------
(* Lists of statements.                                                      *)

Statements == [op : StatementOps, on : Invoices \cup Events \cup Plans,
               n : GrantSizes \cup {0}]

LEMMA StatementIs ==
  \A op \in StatementOps, on \in Invoices \cup Events \cup Plans, n \in GrantSizes \cup {0} :
    Stmt(op, on, n) \in Statements
BY DEF Stmt, Statements

LEMMA StatementFields ==
  \A op, on, n : Stmt(op, on, n).op = op /\ Stmt(op, on, n).on = on /\ Stmt(op, on, n).n = n
BY DEF Stmt

\* The four lists that are put together of two.
LEMMA FourJoin ==
  \A a, b, c, d \in Statements : <<a, b>> \o <<c, d>> = <<a, b, c, d>>
<1>  SUFFICES ASSUME NEW a \in Statements, NEW b \in Statements,
                     NEW c \in Statements, NEW d \in Statements
              PROVE  <<a, b>> \o <<c, d>> = <<a, b, c, d>>
  OBVIOUS
<1>1. <<a, b>> \in Seq(Statements) /\ <<c, d>> \in Seq(Statements)
      /\ <<a, b, c, d>> \in Seq(Statements)
  OBVIOUS
<1>2. PICK s : s = <<a, b>> \o <<c, d>>
  OBVIOUS
<1>3. s \in Seq(Statements) /\ Len(s) = 4 /\ \A i \in 1 .. 4 : s[i] = <<a, b, c, d>>[i]
  BY <1>1, <1>2, ConcatProperties
<1>  QED  BY <1>1, <1>2, <1>3, SeqEqual

LEMMA ThreeJoin ==
  \A a, b, c \in Statements : <<a, b>> \o <<c>> = <<a, b, c>> /\ <<a>> \o <<b, c>> = <<a, b, c>>
<1>  SUFFICES ASSUME NEW a \in Statements, NEW b \in Statements, NEW c \in Statements
              PROVE  <<a, b>> \o <<c>> = <<a, b, c>> /\ <<a>> \o <<b, c>> = <<a, b, c>>
  OBVIOUS
<1>1. <<a, b>> \in Seq(Statements) /\ <<b, c>> \in Seq(Statements)
      /\ <<a>> \in Seq(Statements) /\ <<c>> \in Seq(Statements)
      /\ <<a, b, c>> \in Seq(Statements)
  OBVIOUS
<1>2. <<a, b>> \o <<c>> = <<a, b, c>>
  <2>1. PICK s : s = <<a, b>> \o <<c>>
    OBVIOUS
  <2>2. s \in Seq(Statements) /\ Len(s) = 3 /\ \A i \in 1 .. 3 : s[i] = <<a, b, c>>[i]
    BY <1>1, <2>1, ConcatProperties
  <2>  QED  BY <1>1, <2>1, <2>2, SeqEqual
<1>3. <<a>> \o <<b, c>> = <<a, b, c>>
  <2>1. PICK s : s = <<a>> \o <<b, c>>
    OBVIOUS
  <2>2. s \in Seq(Statements) /\ Len(s) = 3 /\ \A i \in 1 .. 3 : s[i] = <<a, b, c>>[i]
    BY <1>1, <2>1, ConcatProperties
  <2>  QED  BY <1>1, <2>1, <2>2, SeqEqual
<1>  QED  BY <1>2, <1>3

LEMMA TwoJoin == \A a, b \in Statements : <<a, b>> \o <<>> = <<a, b>>
<1>  SUFFICES ASSUME NEW a \in Statements, NEW b \in Statements
              PROVE  <<a, b>> \o <<>> = <<a, b>>
  OBVIOUS
<1>1. <<a, b>> \in Seq(Statements)
  OBVIOUS
<1>  QED  BY <1>1, ConcatEmptySeq

\* The claim of an event, and what it makes the handler do.
LEMMA ClaimFirst ==
  ASSUME NEW x \in Statements, NEW s \in Seq(Statements)
  PROVE  /\ <<x>> \o s \in Seq(Statements) /\ <<x>> \o s # <<>>
         /\ Head(<<x>> \o s) = x /\ Tail(<<x>> \o s) = s
OBVIOUS

\* What follows the claim of an event: the list that Settlement and Refund write.
LEMMA SettlementIs ==
  ASSUME BillingTypeOK, NEW i \in Invoices, status[i] = "due"
  PROVE  Paying(i, Settlement(i)) /\ Settlement(i) \in Seq(Statements)
<1>1. credits[i] \in GrantSizes \cup {0} /\ GrantSizes \subseteq Nat \ {0}
  BY LedgerAssumption DEF BillingTypeOK
<1>2. /\ Stmt("MarkPaid", i, 0) \in Statements /\ Stmt("PaymentSucceeded", i, 0) \in Statements
      /\ Stmt("Entitle", i, 0) \in Statements
      /\ Stmt("CancelSubscriptions", "pro", 0) \in Statements
      /\ Stmt("CreateSubscription", "pro", 0) \in Statements
      /\ Stmt("Grant", i, credits[i]) \in Statements
  BY <1>1, StatementIs DEF StatementOps, Plans
<1>3. CASE credits[i] > 0
  <2>1. Settlement(i) = <<Stmt("MarkPaid", i, 0), Stmt("PaymentSucceeded", i, 0)>> \o
                        <<Stmt("Grant", i, credits[i]), Stmt("Entitle", i, 0)>>
    BY <1>3 DEF Settlement, Payable, GrantPlan
  <2>2. Settlement(i) = <<Stmt("MarkPaid", i, 0), Stmt("PaymentSucceeded", i, 0),
                          Stmt("Grant", i, credits[i]), Stmt("Entitle", i, 0)>>
    BY <1>2, <2>1, FourJoin
  <2>3. credits[i] \in GrantSizes
    BY <1>1, <1>3
  <2>4. Settlement(i) \in Seq(Statements)
    BY <1>2, <2>2
  <2>  QED  BY <2>2, <2>3, <2>4 DEF Paying
<1>4. CASE credits[i] = 0
  <2>1. Settlement(i) = <<Stmt("MarkPaid", i, 0), Stmt("PaymentSucceeded", i, 0)>> \o
              <<Stmt("CancelSubscriptions", "pro", 0), Stmt("CreateSubscription", "pro", 0)>>
    BY <1>4 DEF Settlement, Payable, Subscribe
  <2>2. Settlement(i) = <<Stmt("MarkPaid", i, 0), Stmt("PaymentSucceeded", i, 0),
              Stmt("CancelSubscriptions", "pro", 0), Stmt("CreateSubscription", "pro", 0)>>
    BY <1>2, <2>1, FourJoin
  <2>3. Settlement(i) \in Seq(Statements)
    BY <1>2, <2>2
  <2>  QED  BY <1>4, <2>2, <2>3 DEF Paying
<1>5. credits[i] > 0 \/ credits[i] = 0
  <2>1. CASE credits[i] \in GrantSizes
    <3>1. credits[i] \in Nat /\ credits[i] # 0
      BY <1>1, <2>1
    <3>  QED  BY <3>1
  <2>  QED  BY <1>1, <2>1
<1>  QED  BY <1>3, <1>4, <1>5

LEMMA RefundIs ==
  ASSUME BillingTypeOK, NEW i \in Invoices, status[i] = "paid"
  PROVE  /\ HasGranted(i) => Refunding(i, Refund(i))
         /\ Refund(i) \in Seq(Statements)
<1>1. credits[i] \in GrantSizes \cup {0} /\ GrantSizes \subseteq Nat \ {0}
  BY LedgerAssumption DEF BillingTypeOK
<1>2. /\ Stmt("MarkRefunded", i, 0) \in Statements /\ Stmt("PaymentsRefunded", i, 0) \in Statements
      /\ Stmt("Reverse", i, credits[i]) \in Statements
  BY <1>1, StatementIs DEF StatementOps
<1>3. CASE credits[i] > 0
  <2>1. Refund(i) = <<Stmt("MarkRefunded", i, 0), Stmt("PaymentsRefunded", i, 0)>> \o
                    <<Stmt("Reverse", i, credits[i])>>
    BY <1>3 DEF Refund
  <2>2. Refund(i) = <<Stmt("MarkRefunded", i, 0), Stmt("PaymentsRefunded", i, 0),
                      Stmt("Reverse", i, credits[i])>>
    BY <1>2, <2>1, ThreeJoin
  <2>3. Refund(i) \in Seq(Statements)
    BY <1>2, <2>2
  <2>  QED  BY <1>3, <2>2, <2>3 DEF Refunding
<1>4. CASE credits[i] = 0
  <2>1. Refund(i) = <<Stmt("MarkRefunded", i, 0), Stmt("PaymentsRefunded", i, 0)>> \o <<>>
    BY <1>4 DEF Refund
  <2>2. Refund(i) = <<Stmt("MarkRefunded", i, 0), Stmt("PaymentsRefunded", i, 0)>>
    BY <1>2, <2>1, TwoJoin
  <2>3. Refund(i) \in Seq(Statements)
    BY <1>2, <2>2
  <2>  QED  BY <1>4, <2>2, <2>3 DEF Refunding
<1>5. credits[i] > 0 \/ credits[i] = 0
  <2>1. CASE credits[i] \in GrantSizes
    <3>1. credits[i] \in Nat /\ credits[i] # 0
      BY <1>1, <2>1
    <3>  QED  BY <3>1
  <2>  QED  BY <1>1, <2>1
<1>  QED  BY <1>3, <1>4, <1>5

LEMMA EffectsList ==
  ASSUME BillingTypeOK, NEW r \in EventRecord
  PROVE  /\ Effects(r) \in Seq(Statements)
         /\ \/ Marking(Effects(r))
            \/ /\ r.named /\ r.type = "invoice.paid" /\ status[r.about] = "due"
               /\ Effects(r) = Settlement(r.about)
            \/ r.named /\ status[r.about] = "paid" /\ Effects(r) = Refund(r.about)
<1>1. r.about \in Invoices /\ r.named \in BOOLEAN /\ r.type \in EventTypes
  BY DEF EventRecord
<1>2. CASE r.type = "subscription.cancelled"
  <2>1. Effects(r) = <<Stmt("CancelSubscriptions", "free", 0)>>
    BY <1>2 DEF Effects
  <2>2. Stmt("CancelSubscriptions", "free", 0) \in Statements
    BY StatementIs DEF StatementOps, Plans
  <2>3. Effects(r) \in Seq(Statements)
    BY <2>1, <2>2
  <2>  QED  BY <2>1, <2>3 DEF Marking
<1>3. CASE r.type # "subscription.cancelled" /\ ~r.named
  <2>1. Effects(r) = <<>>
    BY <1>3 DEF Effects
  <2>  QED  BY <2>1 DEF Marking
<1>4. CASE r.type = "invoice.paid" /\ r.named
  <2>1. Effects(r) = Settlement(r.about)
    BY <1>4 DEF Effects
  <2>2. CASE status[r.about] = "due"
    BY <1>1, <1>4, <2>1, <2>2, SettlementIs
  <2>3. CASE status[r.about] # "due"
    <3>1. Effects(r) = <<>>
      BY <2>1, <2>3 DEF Settlement, Payable
    <3>  QED  BY <3>1 DEF Marking
  <2>  QED  BY <2>2, <2>3
<1>5. CASE r.type = "invoice.refunded" /\ r.named
  <2>1. Effects(r) = Refund(r.about)
    BY <1>5 DEF Effects
  <2>2. CASE status[r.about] = "paid"
    BY <1>1, <1>5, <2>1, <2>2, RefundIs
  <2>3. CASE status[r.about] # "paid"
    <3>1. Effects(r) = <<>>
      BY <2>1, <2>3 DEF Refund
    <3>  QED  BY <3>1 DEF Marking
  <2>  QED  BY <2>2, <2>3
<1>6. CASE r.type = "payment.failed" /\ r.named
  <2>1. Effects(r) = <<Stmt("PaymentFailed", r.about, 0)>>
    BY <1>6 DEF Effects
  <2>2. Stmt("PaymentFailed", r.about, 0) \in Statements
    BY <1>1, StatementIs DEF StatementOps
  <2>3. Effects(r) \in Seq(Statements)
    BY <2>1, <2>2
  <2>  QED  BY <1>1, <2>1, <2>3 DEF Marking
<1>  QED  BY <1>1, <1>2, <1>3, <1>4, <1>5, <1>6 DEF EventTypes

-----------------------------------------------------------------------------
(* The execution of a statement.                                             *)

LEMMA ExecuteIs ==
  ASSUME Execute, NEW s, s = Head(stmts)
  PROVE  /\ stmts # <<>> /\ stmts' = Tail(stmts)
         /\ UNCHANGED <<credits, checkout, session, crashes, interrupted>>
         /\ s.op = "MarkPaid" => status' = [status EXCEPT ![s.on] = "paid"]
         /\ s.op = "MarkRefunded" =>
              status' = [status EXCEPT ![s.on] = IF @ = "paid" THEN "refunded" ELSE @]
         /\ s.op \notin {"MarkPaid", "MarkRefunded"} => status' = status
         /\ \/ payment' = payment
            \/ \E from, to \in PaymentStatus : MovePayment(s.on, from, to)
         /\ s.op = "CancelSubscriptions" => live' = [p \in Plans |-> 0]
         /\ s.op = "CreateSubscription" => live' = [live EXCEPT ![s.on] = @ + 1]
         /\ s.op \notin {"CancelSubscriptions", "CreateSubscription"} => live' = live
         /\ s.op = "Grant" =>
              GrantCustomCredits(s.n) /\ grants' = [grants EXCEPT ![s.on] = Append(@, s.n)]
         /\ s.op # "Grant" => grants' = grants
         /\ s.op = "Reverse" =>
              /\ ReverseCustomCredits(s.n)
              /\ reversals' = [reversals EXCEPT
                   ![s.on] = Append(@, balance["paid"] - balance'["paid"])]
         /\ s.op # "Reverse" => reversals' = reversals
         /\ s.op \notin {"Grant", "Reverse"} => UNCHANGED ledgerVars
         /\ s.op = "Entitle" => entitled' = TRUE
         /\ s.op # "Entitle" => entitled' = entitled
         /\ s.op = "Claim" => Claim(s)
         /\ s.op # "Claim" => UNCHANGED <<claimed, sent, notified>>
<1>1. stmts # <<>> /\ stmts' = Tail(stmts) /\ UNCHANGED <<crashes, interrupted>>
  BY DEF Execute
<1>2. CASE UpdateInvoice(s)
  BY <1>1, <1>2 DEF UpdateInvoice, eventVars
<1>3. CASE UpdatePayment(s)
  <2>1. \E from, to \in PaymentStatus : MovePayment(s.on, from, to)
    BY <1>3 DEF UpdatePayment, PaymentStatus
  <2>  QED  BY <1>1, <1>3, <2>1 DEF UpdatePayment, eventVars
<1>4. CASE MoveCredits(s)
  BY <1>1, <1>4 DEF MoveCredits, eventVars, invoiceVars
<1>5. CASE s.op \in {"CancelSubscriptions", "CreateSubscription"} /\ UpdateSubscriptions(s)
  BY <1>1, <1>5 DEF UpdateSubscriptions, eventVars, invoiceVars
<1>6. CASE s.op = "Claim" /\ Claim(s)
  BY <1>1, <1>6 DEF Claim, invoiceVars
<1>7. CASE s.op = "Entitle" /\ Entitle(s)
  BY <1>1, <1>7 DEF Entitle, invoiceVars, eventVars
<1>  QED  BY <1>2, <1>3, <1>4, <1>5, <1>6, <1>7 DEF Execute

\* The next statement is about a row of its table.
AboutRow(s) ==
  /\ s.op \notin {"Claim", "CancelSubscriptions", "CreateSubscription"} => s.on \in Invoices
  /\ s.op \in {"Grant", "Reverse"} => s.n \in GrantSizes
  /\ s.op \in {"CancelSubscriptions", "CreateSubscription"} => s.on \in Plans
  /\ s.op = "Claim" => s.on \in Events

LEMMA ExecuteLedger ==
  ASSUME LedgerInv, Execute, AboutRow(Head(stmts))
  PROVE  /\ LedgerInv'
         /\ Head(stmts).op = "Reverse" => balance["paid"] - balance'["paid"] \in Nat
<1>1. PICK s : s = Head(stmts)
  OBVIOUS
<1>2. s.op \in {"Grant", "Reverse"} => s.n \in GrantSizes
  BY <1>1 DEF AboutRow
<1>3. CASE s.op = "Grant"
  <2>1. s.n \in GrantSizes /\ GrantCustomCredits(s.n)
    BY <1>1, <1>2, <1>3, ExecuteIs
  <2>  QED  BY <1>1, <1>3, <2>1, PurchaseKeepsLedgerInv
<1>4. CASE s.op = "Reverse"
  <2>1. s.n \in GrantSizes /\ ReverseCustomCredits(s.n)
    BY <1>1, <1>2, <1>4, ExecuteIs
  <2>2. LedgerInv'
    BY <2>1, PurchaseKeepsLedgerInv
  <2>3. balance["paid"] - balance'["paid"] \in Nat
    <3>1. balance \in [Pools -> Nat] /\ s.n \in Nat /\ "paid" \in Pools
      BY <2>1, LedgerAssumption DEF LedgerInv, LedgerTypeOK, Pools
    <3>2. balance' = [balance EXCEPT !["paid"] =
                        @ - (IF balance["paid"] < s.n THEN balance["paid"] ELSE s.n)]
      BY <2>1 DEF ReverseCustomCredits
    <3>  QED  BY <3>1, <3>2
  <2>  QED  BY <2>2, <2>3, <1>1
<1>5. CASE s.op \notin {"Grant", "Reverse"}
  <2>1. UNCHANGED ledgerVars
    BY <1>1, <1>5, ExecuteIs
  <2>2. LedgerInv'
    BY <2>1, LedgerInvStep
  <2>  QED  BY <1>1, <1>5, <2>2
<1>  QED  BY <1>3, <1>4, <1>5

LEMMA ExecuteType ==
  ASSUME BillingTypeOK, LedgerInv, Execute, AboutRow(Head(stmts))
  PROVE  BillingTypeOK' /\ LedgerInv'
<1>1. PICK s : s = Head(stmts)
  OBVIOUS
<1>2. stmts \in Seq(Statements) /\ stmts # <<>>
  BY DEF BillingTypeOK, Statements, Execute
<1>3. s \in Statements /\ AboutRow(s)
  BY <1>1, <1>2, HeadTailProperties
<1>4. stmts' \in Seq([op : StatementOps, on : Invoices \cup Events \cup Plans,
                      n : GrantSizes \cup {0}])
  <2>1. stmts' = Tail(stmts)
    BY DEF Execute
  <2>2. stmts' \in Seq(Statements)
    BY <1>2, <2>1, HeadTailProperties
  <2>  QED  BY <2>2 DEF Statements
<1>5. LedgerInv' /\ LedgerTypeOK'
  BY ExecuteLedger DEF LedgerInv
<1>6. status' \in [Invoices -> InvoiceStatus]
  <2>1. status \in [Invoices -> InvoiceStatus] /\ "paid" \in InvoiceStatus /\ "refunded" \in InvoiceStatus
    BY DEF BillingTypeOK, InvoiceStatus
  <2>2. CASE s.op = "MarkPaid"
    BY <1>1, <2>1, <2>2, ExecuteIs
  <2>3. CASE s.op = "MarkRefunded"
    BY <1>1, <2>1, <2>3, ExecuteIs
  <2>4. CASE s.op \notin {"MarkPaid", "MarkRefunded"}
    BY <1>1, <2>1, <2>4, ExecuteIs
  <2>  QED  BY <2>2, <2>3, <2>4
<1>7. payment' \in [Invoices -> PaymentStatus]
  <2>1. payment \in [Invoices -> PaymentStatus]
    BY DEF BillingTypeOK
  <2>2. \/ payment' = payment
        \/ \E from, to \in PaymentStatus : MovePayment(s.on, from, to)
    BY <1>1, ExecuteIs
  <2>  QED  BY <2>1, <2>2 DEF MovePayment
<1>8. live' \in [Plans -> Nat]
  <2>1. live \in [Plans -> Nat]
    BY DEF BillingTypeOK
  <2>2. CASE s.op = "CancelSubscriptions"
    <3>1. live' = [p \in Plans |-> 0]
      BY <1>1, <2>2, ExecuteIs
    <3>  QED  BY <3>1
  <2>3. CASE s.op = "CreateSubscription"
    <3>1. s.on \in Plans /\ live' = [live EXCEPT ![s.on] = live[s.on] + 1]
      BY <1>1, <1>3, <2>3, ExecuteIs DEF AboutRow
    <3>  QED  BY <2>1, <3>1
  <2>4. CASE s.op \notin {"CancelSubscriptions", "CreateSubscription"}
    BY <1>1, <2>1, <2>4, ExecuteIs
  <2>  QED  BY <2>2, <2>3, <2>4
<1>9. grants' \in [Invoices -> Seq(GrantSizes)]
  <2>1. grants \in [Invoices -> Seq(GrantSizes)]
    BY DEF BillingTypeOK
  <2>2. CASE s.op = "Grant"
    <3>1. s.on \in Invoices /\ s.n \in GrantSizes
          /\ grants' = [grants EXCEPT ![s.on] = Append(grants[s.on], s.n)]
      BY <1>1, <1>3, <2>2, ExecuteIs DEF AboutRow
    <3>2. Append(grants[s.on], s.n) \in Seq(GrantSizes)
      BY <2>1, <3>1
    <3>  QED  BY <2>1, <3>1, <3>2
  <2>3. CASE s.op # "Grant"
    BY <1>1, <2>1, <2>3, ExecuteIs
  <2>  QED  BY <2>2, <2>3
<1>10. reversals' \in [Invoices -> Seq(Nat)]
  <2>1. reversals \in [Invoices -> Seq(Nat)]
    BY DEF BillingTypeOK
  <2>2. CASE s.op = "Reverse"
    <3>1. PICK n : n = balance["paid"] - balance'["paid"]
      OBVIOUS
    <3>2. n \in Nat
      BY <1>1, <2>2, <3>1, ExecuteLedger
    <3>3. s.on \in Invoices /\ reversals' = [reversals EXCEPT ![s.on] = Append(reversals[s.on], n)]
      BY <1>1, <1>3, <2>2, <3>1, ExecuteIs DEF AboutRow
    <3>4. Append(reversals[s.on], n) \in Seq(Nat)
      BY <2>1, <3>2, <3>3
    <3>  QED  BY <2>1, <3>3, <3>4
  <2>3. CASE s.op # "Reverse"
    BY <1>1, <2>1, <2>3, ExecuteIs
  <2>  QED  BY <2>2, <2>3
<1>11. entitled' \in BOOLEAN
  <2>1. entitled \in BOOLEAN
    BY DEF BillingTypeOK
  <2>2. entitled' = TRUE \/ entitled' = entitled
    BY <1>1, ExecuteIs
  <2>  QED  BY <2>1, <2>2
<1>12. claimed' \subseteq Events /\ notified' \subseteq Invoices
       /\ sent' \in [Events -> EventRecord \cup {NoEvent}]
  <2>1. claimed \subseteq Events /\ notified \subseteq Invoices
        /\ sent \in [Events -> EventRecord \cup {NoEvent}]
    BY DEF BillingTypeOK
  <2>2. CASE s.op = "Claim"
    <3>1. Claim(s)
      BY <1>1, <2>2, ExecuteIs
    <3>2. sent' \in [Events -> EventRecord \cup {NoEvent}] /\ notified' \subseteq Invoices
      BY <2>1, <3>1 DEF Claim
    <3>3. s.on \in Events
      BY <1>3, <2>2 DEF AboutRow
    <3>  QED  BY <2>1, <3>1, <3>2, <3>3 DEF Claim
  <2>3. CASE s.op # "Claim"
    BY <1>1, <2>1, <2>3, ExecuteIs
  <2>  QED  BY <2>2, <2>3
<1>13. /\ credits' \in [Invoices -> GrantSizes \cup {0}]
       /\ checkout' \subseteq Invoices /\ session' \subseteq Invoices
       /\ crashes' \in 0 .. MaxCrashes /\ interrupted' \subseteq Invoices
  BY <1>1, ExecuteIs DEF BillingTypeOK
<1>  QED  BY <1>4, <1>5, <1>6, <1>7, <1>8, <1>9, <1>10, <1>11, <1>12, <1>13 DEF BillingTypeOK

-----------------------------------------------------------------------------
(* The statements of a handler that settles or refunds an invoice.           *)

\* What such a handler begins with: a statement about the invoice.
HandlerOps == {"MarkPaid", "PaymentSucceeded", "Grant", "Entitle", "MarkRefunded",
               "PaymentsRefunded", "Reverse"}

LEMMA HandlesHead ==
  ASSUME NEW i, NEW s, Handles(i, s)
  PROVE  s # <<>> /\ Head(s).on = i /\ Head(s).op \in HandlerOps
<1>1. CASE Paying(i, s)
  BY <1>1 DEF Paying, Stmt, HandlerOps
<1>2. CASE Refunding(i, s)
  BY <1>2 DEF Refunding, Stmt, HandlerOps
<1>  QED  BY <1>1, <1>2 DEF Handles

\* The statements that a handler of an invoice executes are about rows.
LEMMA HandlesRow ==
  ASSUME BillingTypeOK, NEW i \in Invoices, Handles(i, stmts)
  PROVE  AboutRow(Head(stmts))
<1>1. credits[i] \in GrantSizes \cup {0} /\ GrantSizes \subseteq Nat \ {0}
  BY LedgerAssumption DEF BillingTypeOK
<1>2. credits[i] > 0 => credits[i] \in GrantSizes
  BY <1>1
<1>3. Head(stmts).on = i /\ Head(stmts).op \in HandlerOps
  BY HandlesHead
<1>4. Head(stmts).op \in {"Grant", "Reverse"} => Head(stmts).n \in GrantSizes
  <2>1. CASE Paying(i, stmts)
    BY <2>1 DEF Paying, Stmt
  <2>2. CASE Refunding(i, stmts)
    BY <1>2, <2>2 DEF Refunding, Stmt
  <2>  QED  BY <2>1, <2>2 DEF Handles
<1>  QED  BY <1>3, <1>4 DEF AboutRow, HandlerOps

\* They leave everything else alone.
LEMMA OnlyThisInvoice ==
  ASSUME BillingTypeOK, Execute, NEW i \in Invoices, Head(stmts).on = i,
         Head(stmts).op \in HandlerOps
  PROVE  /\ UNCHANGED <<credits, live, claimed, sent, notified, interrupted>>
         /\ \A j \in Invoices : j # i =>
              status'[j] = status[j] /\ grants'[j] = grants[j] /\ reversals'[j] = reversals[j]
         /\ entitled => entitled'
<1>1. PICK s : s = Head(stmts)
  OBVIOUS
<1>2. s.on = i /\ s.op \in HandlerOps
  BY <1>1
<1>3. UNCHANGED <<credits, live, claimed, sent, notified, interrupted>>
  BY <1>1, <1>2, ExecuteIs DEF HandlerOps
<1>4. entitled => entitled'
  BY <1>1, ExecuteIs
<1>5. ASSUME NEW j \in Invoices, j # i
      PROVE  status'[j] = status[j] /\ grants'[j] = grants[j] /\ reversals'[j] = reversals[j]
  <2>1. status \in [Invoices -> InvoiceStatus] /\ grants \in [Invoices -> Seq(GrantSizes)]
        /\ reversals \in [Invoices -> Seq(Nat)]
    BY DEF BillingTypeOK
  <2>2. status'[j] = status[j]
    <3>1. \/ status' = [status EXCEPT ![i] = "paid"]
          \/ status' = [status EXCEPT ![i] = IF @ = "paid" THEN "refunded" ELSE @]
          \/ status' = status
      BY <1>1, <1>2, ExecuteIs
    <3>  QED  BY <1>5, <2>1, <3>1
  <2>3. grants'[j] = grants[j]
    <3>1. \/ grants' = [grants EXCEPT ![i] = Append(@, s.n)]
          \/ grants' = grants
      BY <1>1, <1>2, ExecuteIs
    <3>  QED  BY <1>5, <2>1, <3>1
  <2>4. reversals'[j] = reversals[j]
    <3>1. \/ reversals' = [reversals EXCEPT ![i] = Append(@, balance["paid"] - balance'["paid"])]
          \/ reversals' = reversals
      BY <1>1, <1>2, ExecuteIs
    <3>  QED  BY <1>5, <2>1, <3>1
  <2>  QED  BY <2>2, <2>3, <2>4
<1>  QED  BY <1>3, <1>4, <1>5

\* What is said of one invoice by GrantedOnce.
GrantedOnceFor(i) ==
  /\ Len(grants[i]) <= 1 /\ Len(reversals[i]) <= 1
  /\ grants[i] # <<>> => status[i] \in {"paid", "refunded"}
  /\ reversals[i] # <<>> => status[i] = "refunded"

\* So it is enough to look at the invoice.
LEMMA OthersKeep ==
  ASSUME BillingTypeOK, GrantedOnce, LivePlanIsPaidFor, AllWhole, NEW i \in Invoices,
         stmts = <<>> \/ Head(stmts).on = i \/ Head(stmts).op \notin HandlerOps,
         UNCHANGED <<live, interrupted>>,
         \A j \in Invoices : j # i =>
           /\ status'[j] = status[j] /\ grants'[j] = grants[j] /\ reversals'[j] = reversals[j]
           /\ credits'[j] = credits[j] /\ (j \in notified' <=> j \in notified),
         entitled => entitled',
         status[i] \in {"paid", "refunded"} =>
           status'[i] \in {"paid", "refunded"} /\ credits'[i] = credits[i],
         GrantedOnceFor(i)',
         i \notin interrupted => Whole(i)' \/ Handles(i, stmts)'
  PROVE  GrantedOnce' /\ LivePlanIsPaidFor' /\ AllWhole'
<1>1. GrantedOnce'
  <2>1. ASSUME NEW j \in Invoices  PROVE GrantedOnceFor(j)'
    <3>1. CASE j = i
      BY <3>1
    <3>2. CASE j # i
      BY <3>2 DEF GrantedOnce, GrantedOnceFor
    <3>  QED  BY <3>1, <3>2
  <2>  QED  BY <2>1 DEF GrantedOnce, GrantedOnceFor
<1>2. LivePlanIsPaidFor'
  <2>1. ASSUME NEW j \in Invoices, credits[j] = 0, status[j] \in {"paid", "refunded"}
        PROVE  credits'[j] = 0 /\ status'[j] \in {"paid", "refunded"}
    BY <2>1
  <2>  QED  BY <2>1 DEF LivePlanIsPaidFor
<1>3. AllWhole'
  <2>1. ASSUME NEW j \in Invoices, j \notin interrupted  PROVE (Whole(j) \/ Handles(j, stmts))'
    <3>1. CASE j = i
      BY <2>1, <3>1
    <3>2. CASE j # i
      <4>1. ~Handles(j, stmts)
        BY <3>2, HandlesHead
      <4>2. Whole(j)
        BY <2>1, <4>1 DEF AllWhole
      <4>3. Whole(j)'
        BY <3>2, <4>2 DEF Whole
      <4>  QED  BY <4>3
    <3>  QED  BY <3>1, <3>2
  <2>  QED  BY <2>1 DEF AllWhole
<1>  QED  BY <1>1, <1>2, <1>3

LEMMA PayingKeeps ==
  ASSUME BillingTypeOK, LedgerInv, GrantedOnce, LivePlanIsPaidFor, AllWhole,
         NEW i \in Invoices, Paying(i, stmts), Execute
  PROVE  GrantedOnce' /\ LivePlanIsPaidFor' /\ AllWhole' /\ HandlerSound'
<1>  DEFINE ahead == HandlerSound' /\ (i \notin interrupted => Whole(i)' \/ Handles(i, stmts)')
            kept  == /\ GrantedOnceFor(i)'
                     /\ status[i] \in {"paid", "refunded"} => status'[i] \in {"paid", "refunded"}
<1>1. PICK s : s = Head(stmts)
  OBVIOUS
<1>2. Handles(i, stmts) /\ s.on = i /\ s.op \in HandlerOps
  BY <1>1, HandlesHead DEF Handles
<1>3. /\ UNCHANGED <<credits, live, claimed, sent, notified, interrupted>>
      /\ \A j \in Invoices : j # i =>
           status'[j] = status[j] /\ grants'[j] = grants[j] /\ reversals'[j] = reversals[j]
      /\ entitled => entitled'
  BY <1>1, <1>2, OnlyThisInvoice
<1>  SUFFICES ahead /\ kept
  BY <1>1, <1>2, <1>3, OthersKeep
<1>4. GrantedOnceFor(i) /\ status \in [Invoices -> InvoiceStatus]
      /\ grants \in [Invoices -> Seq(GrantSizes)] /\ reversals \in [Invoices -> Seq(Nat)]
  BY DEF GrantedOnce, GrantedOnceFor, BillingTypeOK
<1>5. stmts' = Tail(stmts)
  BY ExecuteIs
<1>6. s.op \notin {"Reverse", "MarkRefunded"}
  BY <1>1 DEF Paying, Stmt
<1>7. reversals' = reversals
  BY <1>1, <1>6, ExecuteIs
\* The invoice is marked as paid.
<1>8. CASE s.op = "MarkPaid"
  <2>1. status' = [status EXCEPT ![i] = "paid"] /\ grants' = grants
    BY <1>1, <1>2, <1>8, ExecuteIs
  <2>2. status[i] = "due"
    BY <1>1, <1>8 DEF Paying, Stmt
  <2>3. status'[i] = "paid" /\ grants'[i] = <<>> /\ reversals'[i] = <<>>
    BY <1>4, <1>7, <2>1, <2>2 DEF GrantedOnceFor
  <2>4. \/ \E n \in GrantSizes :
             \/ stmts' = <<Stmt("PaymentSucceeded", i, 0), Stmt("Grant", i, n), Stmt("Entitle", i, 0)>>
             \/ stmts' = <<Stmt("Grant", i, n), Stmt("Entitle", i, 0)>>
        \/ /\ credits[i] = 0
           /\ stmts' = <<Stmt("PaymentSucceeded", i, 0), Stmt("CancelSubscriptions", "pro", 0),
                         Stmt("CreateSubscription", "pro", 0)>>
    <3>1. CASE \E n \in GrantSizes :
                 stmts = <<Stmt("MarkPaid", i, 0), Stmt("PaymentSucceeded", i, 0),
                           Stmt("Grant", i, n), Stmt("Entitle", i, 0)>>
      BY <1>5, <3>1
    <3>2. CASE \E n \in GrantSizes :
                 stmts = <<Stmt("MarkPaid", i, 0), Stmt("Grant", i, n), Stmt("Entitle", i, 0)>>
      BY <1>5, <3>2
    <3>3. CASE /\ credits[i] = 0
               /\ stmts = <<Stmt("MarkPaid", i, 0), Stmt("PaymentSucceeded", i, 0),
                            Stmt("CancelSubscriptions", "pro", 0),
                            Stmt("CreateSubscription", "pro", 0)>>
      BY <1>5, <3>3
    <3>  QED  BY <2>2, <3>1, <3>2, <3>3 DEF Paying
  <2>5. Paying(i, stmts)'
    BY <1>3, <2>3, <2>4 DEF Paying
  <2>  QED  BY <2>3, <2>5 DEF Handles, HandlerSound, GrantedOnceFor
\* Its payment succeeded.
<1>9. CASE s.op = "PaymentSucceeded"
  <2>1. status' = status /\ grants' = grants
    BY <1>1, <1>2, <1>9, ExecuteIs
  <2>2. status[i] = "paid" /\ grants[i] = <<>>
    BY <1>1, <1>9 DEF Paying, Stmt
  <2>3. CASE \E n \in GrantSizes :
               stmts = <<Stmt("PaymentSucceeded", i, 0), Stmt("Grant", i, n), Stmt("Entitle", i, 0)>>
    <3>1. \E n \in GrantSizes : stmts' = <<Stmt("Grant", i, n), Stmt("Entitle", i, 0)>>
      BY <1>5, <2>3
    <3>2. Paying(i, stmts)'
      BY <2>1, <2>2, <3>1 DEF Paying
    <3>  QED  BY <1>4, <1>7, <2>1, <3>2 DEF Handles, HandlerSound, GrantedOnceFor
  <2>4. CASE /\ credits[i] = 0
             /\ stmts = <<Stmt("PaymentSucceeded", i, 0), Stmt("CancelSubscriptions", "pro", 0),
                          Stmt("CreateSubscription", "pro", 0)>>
    <3>1. stmts' = <<Stmt("CancelSubscriptions", "pro", 0), Stmt("CreateSubscription", "pro", 0)>>
      BY <1>5, <2>4
    <3>2. PlanPaid'
      BY <1>3, <2>1, <2>2, <2>4 DEF PlanPaid
    <3>3. Subscribing(stmts)'
      BY <3>1, <3>2 DEF Subscribing, Plans
    <3>4. Whole(i)'
      BY <1>3, <2>1, <2>2, <2>4 DEF Whole
    <3>  QED  BY <1>4, <1>7, <2>1, <3>3, <3>4 DEF HandlerSound, GrantedOnceFor
  <2>5. \/ \E n \in GrantSizes :
             stmts = <<Stmt("PaymentSucceeded", i, 0), Stmt("Grant", i, n), Stmt("Entitle", i, 0)>>
        \/ /\ credits[i] = 0
           /\ stmts = <<Stmt("PaymentSucceeded", i, 0), Stmt("CancelSubscriptions", "pro", 0),
                        Stmt("CreateSubscription", "pro", 0)>>
    BY <1>1, <1>9 DEF Paying, Stmt
  <2>  QED  BY <2>3, <2>4, <2>5
\* It grants its credits, for the first time.
<1>10. CASE s.op = "Grant"
  <2>1. status' = status /\ grants' = [grants EXCEPT ![i] = Append(grants[i], s.n)]
    BY <1>1, <1>2, <1>10, ExecuteIs
  <2>2. status[i] = "paid" /\ grants[i] = <<>> /\ s.n \in GrantSizes
        /\ stmts = <<Stmt("Grant", i, s.n), Stmt("Entitle", i, 0)>>
    BY <1>1, <1>10 DEF Paying, Stmt
  <2>3. grants'[i] = <<s.n>>
    BY <1>4, <2>1, <2>2
  <2>4. Len(grants'[i]) = 1
    BY <2>3
  <2>5. Paying(i, stmts)'
    BY <1>5, <2>1, <2>2, <2>4 DEF Paying
  <2>  QED  BY <1>4, <1>7, <2>1, <2>2, <2>4, <2>5 DEF Handles, HandlerSound, GrantedOnceFor
\* The account is entitled to use them.
<1>11. CASE s.op = "Entitle"
  <2>1. status' = status /\ grants' = grants /\ entitled' = TRUE
    BY <1>1, <1>2, <1>11, ExecuteIs
  <2>2. status[i] = "paid" /\ Len(grants[i]) = 1 /\ stmts = <<Stmt("Entitle", i, 0)>>
    BY <1>1, <1>11 DEF Paying, Stmt
  <2>3. stmts' = <<>>
    BY <1>5, <2>2
  <2>4. reversals[i] = <<>>
    BY <1>4, <2>2 DEF GrantedOnceFor
  <2>5. Whole(i)'
    BY <1>7, <2>1, <2>2, <2>4 DEF Whole
  <2>  QED  BY <1>4, <1>7, <2>1, <2>3, <2>5 DEF Marking, HandlerSound, GrantedOnceFor
<1>12. s.op \in {"MarkPaid", "PaymentSucceeded", "Grant", "Entitle"}
  BY <1>1 DEF Paying, Stmt
<1>  QED  BY <1>8, <1>9, <1>10, <1>11, <1>12

LEMMA RefundingKeeps ==
  ASSUME BillingTypeOK, LedgerInv, GrantedOnce, LivePlanIsPaidFor, AllWhole,
         NEW i \in Invoices, Refunding(i, stmts), Execute
  PROVE  GrantedOnce' /\ LivePlanIsPaidFor' /\ AllWhole' /\ HandlerSound'
<1>  DEFINE ahead == HandlerSound' /\ (i \notin interrupted => Whole(i)' \/ Handles(i, stmts)')
            kept  == /\ GrantedOnceFor(i)'
                     /\ status[i] \in {"paid", "refunded"} => status'[i] \in {"paid", "refunded"}
<1>1. PICK s : s = Head(stmts)
  OBVIOUS
<1>2. Handles(i, stmts) /\ s.on = i /\ s.op \in HandlerOps
  BY <1>1, HandlesHead DEF Handles
<1>3. /\ UNCHANGED <<credits, live, claimed, sent, notified, interrupted>>
      /\ \A j \in Invoices : j # i =>
           status'[j] = status[j] /\ grants'[j] = grants[j] /\ reversals'[j] = reversals[j]
      /\ entitled => entitled'
  BY <1>1, <1>2, OnlyThisInvoice
<1>  SUFFICES ahead /\ kept
  BY <1>1, <1>2, <1>3, OthersKeep
<1>4. GrantedOnceFor(i) /\ status \in [Invoices -> InvoiceStatus]
      /\ grants \in [Invoices -> Seq(GrantSizes)] /\ reversals \in [Invoices -> Seq(Nat)]
  BY DEF GrantedOnce, GrantedOnceFor, BillingTypeOK
<1>5. stmts' = Tail(stmts)
  BY ExecuteIs
<1>6. s.op \in {"MarkRefunded", "PaymentsRefunded", "Reverse"}
  BY <1>1 DEF Refunding, Stmt
<1>7. grants' = grants /\ entitled' = entitled
  BY <1>1, <1>6, ExecuteIs
<1>8. HasGranted(i)'
  BY <1>3, <1>7 DEF HasGranted, Refunding
\* The invoice is marked as refunded.
<1>9. CASE s.op = "MarkRefunded"
  <2>1. status' = [status EXCEPT ![i] = IF @ = "paid" THEN "refunded" ELSE @]
        /\ reversals' = reversals
    BY <1>1, <1>2, <1>9, ExecuteIs
  <2>2. status[i] = "paid"
    BY <1>1, <1>9 DEF Refunding, Stmt
  <2>3. status'[i] = "refunded" /\ reversals'[i] = <<>>
    BY <1>4, <2>1, <2>2 DEF GrantedOnceFor
  <2>4. \/ /\ credits[i] > 0
           /\ stmts' = <<Stmt("PaymentsRefunded", i, 0), Stmt("Reverse", i, credits[i])>>
        \/ credits[i] = 0 /\ stmts' = <<Stmt("PaymentsRefunded", i, 0)>>
    <3>1. CASE /\ credits[i] > 0
               /\ stmts = <<Stmt("MarkRefunded", i, 0), Stmt("PaymentsRefunded", i, 0),
                            Stmt("Reverse", i, credits[i])>>
      BY <1>5, <3>1
    <3>2. CASE /\ credits[i] = 0
               /\ stmts = <<Stmt("MarkRefunded", i, 0), Stmt("PaymentsRefunded", i, 0)>>
      BY <1>5, <3>2
    <3>  QED  BY <2>2, <3>1, <3>2 DEF Refunding
  <2>5. Refunding(i, stmts)'
    BY <1>3, <1>8, <2>3, <2>4 DEF Refunding
  <2>  QED  BY <1>4, <1>7, <2>3, <2>5 DEF Handles, HandlerSound, GrantedOnceFor
\* Its payment is.
<1>10. CASE s.op = "PaymentsRefunded"
  <2>1. status' = status /\ reversals' = reversals
    BY <1>1, <1>2, <1>10, ExecuteIs
  <2>2. status[i] = "refunded" /\ reversals[i] = <<>>
    BY <1>1, <1>10 DEF Refunding, Stmt
  <2>3. CASE /\ credits[i] > 0
             /\ stmts = <<Stmt("PaymentsRefunded", i, 0), Stmt("Reverse", i, credits[i])>>
    <3>1. stmts' = <<Stmt("Reverse", i, credits[i])>>
      BY <1>5, <2>3
    <3>2. Refunding(i, stmts)'
      BY <1>3, <1>8, <2>1, <2>2, <2>3, <3>1 DEF Refunding
    <3>  QED  BY <1>4, <1>7, <2>1, <3>2 DEF Handles, HandlerSound, GrantedOnceFor
  <2>4. CASE credits[i] = 0 /\ stmts = <<Stmt("PaymentsRefunded", i, 0)>>
    <3>1. stmts' = <<>>
      BY <1>5, <2>4
    <3>2. Whole(i)'
      BY <1>3, <2>1, <2>2, <2>4 DEF Whole
    <3>  QED  BY <1>4, <1>7, <2>1, <3>1, <3>2 DEF Marking, HandlerSound, GrantedOnceFor
  <2>5. \/ /\ credits[i] > 0
           /\ stmts = <<Stmt("PaymentsRefunded", i, 0), Stmt("Reverse", i, credits[i])>>
        \/ credits[i] = 0 /\ stmts = <<Stmt("PaymentsRefunded", i, 0)>>
    BY <1>1, <1>10 DEF Refunding, Stmt
  <2>  QED  BY <2>3, <2>4, <2>5
\* Its credits are taken back, for the first time.
<1>11. CASE s.op = "Reverse"
  <2>1. PICK n : n = balance["paid"] - balance'["paid"]
    OBVIOUS
  <2>2. status' = status /\ reversals' = [reversals EXCEPT ![i] = Append(reversals[i], n)]
    BY <1>1, <1>2, <1>11, <2>1, ExecuteIs
  <2>3. status[i] = "refunded" /\ reversals[i] = <<>> /\ credits[i] > 0
        /\ stmts = <<Stmt("Reverse", i, credits[i])>>
    BY <1>1, <1>11 DEF Refunding, Stmt
  <2>4. reversals'[i] = <<n>>
    BY <1>4, <2>2, <2>3
  <2>5. Len(reversals'[i]) = 1 /\ reversals'[i] # <<>>
    BY <2>4
  <2>6. stmts' = <<>>
    BY <1>5, <2>3
  <2>7. i \notin interrupted => Whole(i)'
    BY <1>3, <1>8, <2>2, <2>3, <2>5 DEF Whole, HasGranted
  <2>  QED  BY <1>4, <1>7, <2>2, <2>3, <2>5, <2>6, <2>7 DEF Marking, HandlerSound, GrantedOnceFor
<1>  QED  BY <1>6, <1>9, <1>10, <1>11

-----------------------------------------------------------------------------
(* The statements of the other handlers.                                     *)

\* No invoice is being settled or refunded then, so each of them is whole.
LEMMA NoneHandled ==
  ASSUME AllWhole, stmts = <<>> \/ Head(stmts).op \notin HandlerOps,
         NEW i \in Invoices, i \notin interrupted
  PROVE  Whole(i)
<1>1. ~Handles(i, stmts)
  BY HandlesHead
<1>  QED  BY <1>1 DEF AllWhole

\* A statement that writes no invoice, grant or reversal leaves them whole.
LEMMA InvoicesKeep ==
  ASSUME GrantedOnce, AllWhole, stmts = <<>> \/ Head(stmts).op \notin HandlerOps,
         UNCHANGED <<status, credits, entitled, notified, grants, reversals>>,
         interrupted \subseteq interrupted'
  PROVE  GrantedOnce' /\ AllWhole'
<1>1. ASSUME NEW i \in Invoices, i \notin interrupted'  PROVE Whole(i)'
  <2>1. Whole(i)
    BY <1>1, NoneHandled
  <2>  QED  BY <2>1 DEF Whole
<1>2. GrantedOnce'
  BY DEF GrantedOnce
<1>  QED  BY <1>1, <1>2 DEF AllWhole

\* The plan is changed: the old subscription ends before the new one starts.
LEMMA SubscribingKeeps ==
  ASSUME BillingTypeOK, GrantedOnce, LivePlanIsPaidFor, AllWhole, Subscribing(stmts), Execute
  PROVE  GrantedOnce' /\ LivePlanIsPaidFor' /\ AllWhole' /\ HandlerSound'
<1>1. PICK s : s = Head(stmts)
  OBVIOUS
<1>2. PICK p \in Plans :
        /\ p = "pro" => PlanPaid
        /\ \/ stmts = <<Stmt("CancelSubscriptions", p, 0), Stmt("CreateSubscription", p, 0)>>
           \/ stmts = <<Stmt("CreateSubscription", p, 0)>> /\ live = [q \in Plans |-> 0]
  BY DEF Subscribing
<1>3. s.op \in {"CancelSubscriptions", "CreateSubscription"} /\ s.on = p
  BY <1>1, <1>2 DEF Stmt
<1>4. UNCHANGED <<status, credits, entitled, notified, grants, reversals, interrupted>>
      /\ stmts' = Tail(stmts)
  BY <1>1, <1>3, ExecuteIs
<1>5. Head(stmts).op \notin HandlerOps
  BY <1>1, <1>3 DEF HandlerOps
<1>6. GrantedOnce' /\ AllWhole'
  BY <1>4, <1>5, InvoicesKeep
<1>7. PlanPaid => PlanPaid'
  BY <1>4 DEF PlanPaid
<1>8. CASE stmts = <<Stmt("CancelSubscriptions", p, 0), Stmt("CreateSubscription", p, 0)>>
  <2>1. s.op = "CancelSubscriptions"
    BY <1>1, <1>8 DEF Stmt
  <2>2. live' = [q \in Plans |-> 0]
    BY <1>1, <2>1, ExecuteIs
  <2>3. stmts' = <<Stmt("CreateSubscription", p, 0)>>
    BY <1>4, <1>8
  <2>4. Subscribing(stmts)'
    BY <1>2, <1>7, <2>2, <2>3 DEF Subscribing
  <2>5. LivePlanIsPaidFor'
    BY <2>2 DEF LivePlanIsPaidFor, Plans
  <2>  QED  BY <1>6, <2>4, <2>5 DEF HandlerSound
<1>9. CASE stmts = <<Stmt("CreateSubscription", p, 0)>> /\ live = [q \in Plans |-> 0]
  <2>1. s.op = "CreateSubscription"
    BY <1>1, <1>9 DEF Stmt
  <2>2. live' = [live EXCEPT ![p] = live[p] + 1]
    BY <1>1, <1>3, <2>1, ExecuteIs
  <2>3. /\ live'["free"] = IF p = "free" THEN 1 ELSE 0
        /\ live'["pro"] = IF p = "pro" THEN 1 ELSE 0
    BY <1>2, <1>9, <2>2 DEF Plans
  <2>4. stmts' = <<>>
    BY <1>4, <1>9
  <2>5. LivePlanIsPaidFor'
    BY <1>2, <1>7, <2>3 DEF LivePlanIsPaidFor, PlanPaid
  <2>  QED  BY <1>6, <2>4, <2>5 DEF HandlerSound, Marking
<1>  QED  BY <1>2, <1>8, <1>9

LEMMA MarkingKeeps ==
  ASSUME BillingTypeOK, GrantedOnce, LivePlanIsPaidFor, AllWhole, Marking(stmts), Execute
  PROVE  GrantedOnce' /\ LivePlanIsPaidFor' /\ AllWhole' /\ HandlerSound'
<1>1. PICK s : s = Head(stmts)
  OBVIOUS
<1>2. stmts # <<>> /\ stmts' = Tail(stmts)
  BY ExecuteIs
<1>3. s.op \in {"CancelSubscriptions", "CreatePayment", "PaymentFailed"} /\ stmts' = <<>>
  BY <1>1, <1>2 DEF Marking, Stmt
<1>4. UNCHANGED <<status, credits, entitled, notified, grants, reversals, interrupted>>
  BY <1>1, <1>3, ExecuteIs
<1>5. Head(stmts).op \notin HandlerOps
  BY <1>1, <1>3 DEF HandlerOps
<1>6. GrantedOnce' /\ AllWhole'
  BY <1>4, <1>5, InvoicesKeep
<1>7. LivePlanIsPaidFor'
  <2>1. CASE s.op = "CancelSubscriptions"
    <3>1. live' = [p \in Plans |-> 0]
      BY <1>1, <2>1, ExecuteIs
    <3>  QED  BY <3>1 DEF LivePlanIsPaidFor, Plans
  <2>2. CASE s.op # "CancelSubscriptions"
    <3>1. live' = live
      BY <1>1, <1>3, <2>2, ExecuteIs
    <3>  QED  BY <1>4, <3>1 DEF LivePlanIsPaidFor
  <2>  QED  BY <2>1, <2>2
<1>  QED  BY <1>3, <1>6, <1>7 DEF HandlerSound, Marking

\* What an event asks for when nothing else runs, in the state it leaves.
LEMMA EffectsSound ==
  ASSUME BillingTypeOK, AllWhole, stmts = <<>> \/ Head(stmts).op \notin HandlerOps,
         NEW r \in EventRecord,
         UNCHANGED <<status, credits, entitled, grants, reversals, interrupted>>,
         GrantedOnce, stmts' = Effects(r)
  PROVE  /\ HandlerSound'
         /\ r.named /\ r.type = "invoice.paid" /\ status[r.about] = "due"
              => Handles(r.about, stmts)'
<1>1. r.about \in Invoices
  BY DEF EventRecord
<1>2. ASSUME NEW i \in Invoices, status[i] = "due", Effects(r) = Settlement(i)
      PROVE  Handles(i, stmts)'
  <2>1. Paying(i, stmts')
    BY <1>2, SettlementIs
  <2>2. Paying(i, stmts)'
    BY <2>1 DEF Paying
  <2>  QED  BY <2>2 DEF Handles
<1>3. ASSUME NEW i \in Invoices, status[i] = "paid", Effects(r) = Refund(i)
      PROVE  Handles(i, stmts)'
  <2>1. HasGranted(i)
    <3>1. CASE i \notin interrupted /\ credits[i] > 0
      <4>1. Whole(i)
        BY <3>1, NoneHandled
      <4>  QED  BY <1>3, <3>1, <4>1 DEF Whole, HasGranted
    <3>  QED  BY <3>1 DEF HasGranted
  <2>2. Refunding(i, stmts')
    BY <1>3, <2>1, RefundIs
  <2>3. Refunding(i, stmts)'
    BY <2>2 DEF Refunding, HasGranted
  <2>  QED  BY <2>3 DEF Handles
<1>4. \/ Marking(Effects(r))
      \/ \E i \in Invoices : Handles(i, stmts)'
  BY <1>1, <1>2, <1>3, EffectsList
<1>5. HandlerSound'
  <2>1. Marking(Effects(r)) => Marking(stmts)'
    BY DEF Marking
  <2>  QED  BY <1>4, <2>1 DEF HandlerSound
<1>6. ASSUME r.named, r.type = "invoice.paid", status[r.about] = "due"
      PROVE  Handles(r.about, stmts)'
  <2>1. Effects(r) = Settlement(r.about)
    BY <1>6 DEF Effects
  <2>  QED  BY <1>1, <1>2, <1>6, <2>1
<1>  QED  BY <1>5, <1>6

LEMMA ClaimingKeeps ==
  ASSUME BillingTypeOK, GrantedOnce, LivePlanIsPaidFor, AllWhole, Claiming(stmts), Execute
  PROVE  GrantedOnce' /\ LivePlanIsPaidFor' /\ AllWhole' /\ HandlerSound'
<1>1. PICK e \in Events : sent[e] \in EventRecord
                          /\ stmts = <<Stmt("Claim", e, 0)>> \o Effects(sent[e])
  BY DEF Claiming
<1>2. PICK r \in EventRecord : r = sent[e]
  BY <1>1
<1>3. Effects(r) \in Seq(Statements) /\ Stmt("Claim", e, 0) \in Statements
  BY EffectsList, StatementIs DEF StatementOps
<1>4. Head(stmts) = Stmt("Claim", e, 0) /\ Tail(stmts) = Effects(r)
  BY <1>1, <1>2, <1>3, ClaimFirst
<1>5. PICK s : s = Head(stmts)
  OBVIOUS
<1>6. s.op = "Claim" /\ s.on = e
  BY <1>4, <1>5, StatementFields
<1>7. UNCHANGED <<status, credits, live, entitled, grants, reversals, interrupted>>
      /\ stmts' = Effects(r)
  BY <1>4, <1>5, <1>6, ExecuteIs
<1>8. Claim(s)
  BY <1>5, <1>6, ExecuteIs
<1>9. Head(stmts).op \notin HandlerOps
  BY <1>5, <1>6 DEF HandlerOps
<1>10. HandlerSound' /\ (r.named /\ r.type = "invoice.paid" /\ status[r.about] = "due"
                           => Handles(r.about, stmts)')
  BY <1>7, <1>9, EffectsSound
<1>11. LivePlanIsPaidFor' /\ GrantedOnce'
  BY <1>7 DEF LivePlanIsPaidFor, GrantedOnce
<1>12. ASSUME NEW i \in Invoices, i \notin interrupted'  PROVE (Whole(i) \/ Handles(i, stmts))'
  <2>1. Whole(i)
    BY <1>7, <1>9, <1>12, NoneHandled
  <2>2. CASE i \in notified' <=> i \in notified
    BY <1>7, <2>1, <2>2 DEF Whole
  <2>3. CASE ~(i \in notified' <=> i \in notified)
    <3>1. r.named /\ r.type = "invoice.paid" /\ r.about = i /\ status[i] = "due"
      BY <1>2, <1>6, <1>8, <2>3 DEF Claim, Payable
    <3>  QED  BY <1>10, <3>1
  <2>  QED  BY <2>2, <2>3
<1>13. AllWhole'
  BY <1>12 DEF AllWhole
<1>  QED  BY <1>10, <1>11, <1>13

\* The next statement, whichever handler left it.
LEMMA SoundIsAboutRow ==
  ASSUME BillingTypeOK, HandlerSound, stmts # <<>>
  PROVE  AboutRow(Head(stmts))
<1>1. CASE Marking(stmts)
  BY <1>1 DEF Marking, Stmt, AboutRow, Plans
<1>2. CASE Subscribing(stmts)
  BY <1>2 DEF Subscribing, Stmt, AboutRow
<1>3. CASE Claiming(stmts)
  <2>1. PICK e \in Events : sent[e] \in EventRecord
                            /\ stmts = <<Stmt("Claim", e, 0)>> \o Effects(sent[e])
    BY <1>3 DEF Claiming
  <2>2. Effects(sent[e]) \in Seq(Statements) /\ Stmt("Claim", e, 0) \in Statements
    BY <2>1, EffectsList, StatementIs DEF StatementOps
  <2>3. Head(stmts) = Stmt("Claim", e, 0)
    BY <2>1, <2>2, ClaimFirst
  <2>  QED  BY <2>3 DEF AboutRow, Stmt
<1>4. CASE \E i \in Invoices : Handles(i, stmts)
  BY <1>4, HandlesRow
<1>  QED  BY <1>1, <1>2, <1>3, <1>4 DEF HandlerSound

LEMMA ExecuteKeeps ==
  ASSUME BillingInv, Execute
  PROVE  BillingInv'
<1>  USE DEF BillingInv
<1>1. AboutRow(Head(stmts))
  BY SoundIsAboutRow DEF Execute
<1>2. BillingTypeOK' /\ LedgerInv'
  BY <1>1, ExecuteType
<1>3. GrantedOnce' /\ LivePlanIsPaidFor' /\ AllWhole' /\ HandlerSound'
  BY MarkingKeeps, SubscribingKeeps, ClaimingKeeps, PayingKeeps, RefundingKeeps
     DEF HandlerSound, Handles
<1>  QED  BY <1>2, <1>3

-----------------------------------------------------------------------------
(* The handlers, up to the statements they leave.                            *)

\* An invoice that was not there yet has nothing to its name.
LEMMA NewInvoiceKeeps ==
  ASSUME BillingTypeOK, GrantedOnce, LivePlanIsPaidFor, AllWhole, stmts = <<>>,
         NEW i \in Invoices, NEW s \in {"due", "pending"}, NEW n, CreateInvoice(i, s, n),
         UNCHANGED <<live, entitled, notified, grants, reversals, interrupted>>
  PROVE  GrantedOnce' /\ LivePlanIsPaidFor' /\ AllWhole'
<1>1. /\ status[i] = "absent" /\ status \in [Invoices -> InvoiceStatus]
      /\ credits \in [Invoices -> GrantSizes \cup {0}]
      /\ status' = [status EXCEPT ![i] = s] /\ credits' = [credits EXCEPT ![i] = n]
      /\ grants \in [Invoices -> Seq(GrantSizes)] /\ reversals \in [Invoices -> Seq(Nat)]
  BY DEF CreateInvoice, BillingTypeOK
<1>2. status'[i] \in {"due", "pending"}
  BY <1>1
<1>3. \A j \in Invoices : j # i => status'[j] = status[j] /\ credits'[j] = credits[j]
  BY <1>1
<1>4. grants[i] = <<>> /\ reversals[i] = <<>>
  BY <1>1 DEF GrantedOnce
<1>5. GrantedOnceFor(i)'
  BY <1>4 DEF GrantedOnceFor
<1>6. i \notin interrupted => Whole(i)'
  <2>1. SUFFICES ASSUME i \notin interrupted  PROVE Whole(i)'
    OBVIOUS
  <2>2. Whole(i)
    BY <2>1, NoneHandled
  <2>3. i \notin notified
    BY <1>1, <2>2 DEF Whole
  <2>  QED  BY <1>2, <2>3 DEF Whole
<1>7. status[i] \notin {"paid", "refunded"}
  BY <1>1
<1>  QED  BY <1>3, <1>5, <1>6, <1>7, OthersKeep

\* What a handler that only reads leaves as it was.
LEMMA ReadingKeeps ==
  ASSUME GrantedOnce, LivePlanIsPaidFor, AllWhole, stmts = <<>>,
         UNCHANGED <<status, credits, live, entitled, notified, grants, reversals, interrupted>>
  PROVE  GrantedOnce' /\ LivePlanIsPaidFor' /\ AllWhole'
BY InvoicesKeep DEF LivePlanIsPaidFor

LEMMA NewInvoiceType ==
  ASSUME BillingTypeOK, NEW i \in Invoices, NEW s \in {"due", "pending"},
         NEW n \in GrantSizes \cup {0}, CreateInvoice(i, s, n)
  PROVE  status' \in [Invoices -> InvoiceStatus] /\ credits' \in [Invoices -> GrantSizes \cup {0}]
<1>1. s \in InvoiceStatus
  BY DEF InvoiceStatus
<1>2. status \in [Invoices -> InvoiceStatus] /\ credits \in [Invoices -> GrantSizes \cup {0}]
  BY DEF BillingTypeOK
<1>  QED  BY <1>1, <1>2 DEF CreateInvoice

\* The lists of statements that the handlers leave are well-typed.
LEMMA ListsAreTyped ==
  ASSUME BillingTypeOK, NEW i \in Invoices, NEW n \in GrantSizes
  PROVE  /\ <<Stmt("CreatePayment", i, 0)>> \in Seq(Statements)
         /\ Subscribe("free") \in Seq(Statements)
         /\ <<Stmt("MarkPaid", i, 0)>> \o GrantPlan(i, n) \in Seq(Statements)
         /\ <<Stmt("MarkPaid", i, 0)>> \o GrantPlan(i, n)
              = <<Stmt("MarkPaid", i, 0), Stmt("Grant", i, n), Stmt("Entitle", i, 0)>>
<1>1. /\ Stmt("CreatePayment", i, 0) \in Statements
      /\ Stmt("CancelSubscriptions", "free", 0) \in Statements
      /\ Stmt("CreateSubscription", "free", 0) \in Statements
      /\ Stmt("MarkPaid", i, 0) \in Statements /\ Stmt("Grant", i, n) \in Statements
      /\ Stmt("Entitle", i, 0) \in Statements
  BY StatementIs DEF StatementOps, Plans
<1>2. <<Stmt("MarkPaid", i, 0)>> \o GrantPlan(i, n)
        = <<Stmt("MarkPaid", i, 0), Stmt("Grant", i, n), Stmt("Entitle", i, 0)>>
  BY <1>1, ThreeJoin DEF GrantPlan
<1>3. <<Stmt("MarkPaid", i, 0), Stmt("Grant", i, n), Stmt("Entitle", i, 0)>> \in Seq(Statements)
  BY <1>1
<1>4. Subscribe("free") \in Seq(Statements)
  BY <1>1 DEF Subscribe
<1>5. <<Stmt("CreatePayment", i, 0)>> \in Seq(Statements)
  BY <1>1
<1>6. <<Stmt("MarkPaid", i, 0)>> \o GrantPlan(i, n) \in Seq(Statements)
  BY <1>2, <1>3
<1>  QED  BY <1>2, <1>4, <1>5, <1>6

LEMMA PurchaseManuallyKeeps ==
  ASSUME BillingInv, NEW i \in Invoices, NEW n \in GrantSizes, PurchaseManually(i, n)
  PROVE  BillingInv'
<1>  USE DEF BillingInv
<1>1. CreateInvoice(i, "due", n) /\ stmts = <<>> /\ stmts' = <<Stmt("CreatePayment", i, 0)>>
  BY DEF PurchaseManually, Begin
<1>2. UNCHANGED <<payment, checkout, session, live, entitled, claimed, sent, notified,
                  grants, reversals, crashes, interrupted, ledgerVars>>
  BY DEF PurchaseManually, eventVars
<1>3. GrantedOnce' /\ LivePlanIsPaidFor' /\ AllWhole'
  BY <1>1, <1>2, NewInvoiceKeeps
<1>4. HandlerSound'
  BY <1>1 DEF HandlerSound, Marking
<1>5. LedgerInv'
  BY <1>2, LedgerInvStep
<1>6. BillingTypeOK'
  <2>1. stmts' \in Seq(Statements)
    BY <1>1, ListsAreTyped
  <2>2. status' \in [Invoices -> InvoiceStatus] /\ credits' \in [Invoices -> GrantSizes \cup {0}]
    BY <1>1, NewInvoiceType
  <2>  QED  BY <1>2, <1>5, <2>1, <2>2 DEF BillingTypeOK, Statements, LedgerInv
<1>  QED  BY <1>3, <1>4, <1>5, <1>6

\* purchaseCustomCredits and startPlanCheckout, up to their await.
LEMMA CheckoutKeeps ==
  ASSUME BillingInv, NEW i \in Invoices,
         (\E n \in GrantSizes : PurchaseFromProvider(i, n)) \/ StartPlanCheckout(i)
  PROVE  BillingInv'
<1>  USE DEF BillingInv
<1>1. PICK s \in {"due", "pending"}, n \in GrantSizes \cup {0} : CreateInvoice(i, s, n)
  BY DEF PurchaseFromProvider, StartPlanCheckout
<1>2. stmts = <<>> /\ checkout' = checkout \cup {i}
  BY DEF PurchaseFromProvider, StartPlanCheckout
<1>3. UNCHANGED <<payment, session, live, entitled, claimed, sent, notified,
                  grants, reversals, stmts, crashes, interrupted, ledgerVars>>
  BY DEF PurchaseFromProvider, StartPlanCheckout, eventVars
<1>4. GrantedOnce' /\ LivePlanIsPaidFor' /\ AllWhole'
  BY <1>1, <1>2, <1>3, NewInvoiceKeeps
<1>5. HandlerSound'
  BY <1>2, <1>3 DEF HandlerSound, Marking
<1>6. LedgerInv'
  BY <1>3, LedgerInvStep
<1>7. BillingTypeOK'
  <2>1. status' \in [Invoices -> InvoiceStatus] /\ credits' \in [Invoices -> GrantSizes \cup {0}]
    BY <1>1, NewInvoiceType
  <2>  QED  BY <1>2, <1>3, <1>6, <2>1 DEF BillingTypeOK, LedgerInv
<1>  QED  BY <1>4, <1>5, <1>6, <1>7

LEMMA CheckoutReturnsKeeps ==
  ASSUME BillingInv, NEW i \in Invoices, CheckoutReturns(i)
  PROVE  BillingInv'
<1>  USE DEF BillingInv
<1>1. /\ stmts = <<>> /\ checkout' = checkout \ {i} /\ session' \subseteq session \cup {i}
      /\ stmts' = <<Stmt("CreatePayment", i, 0)>> \/ stmts' = <<>>
  BY DEF CheckoutReturns, Begin
<1>2. UNCHANGED <<status, credits, payment, live, entitled, claimed, sent, notified,
                  grants, reversals, crashes, interrupted, ledgerVars>>
  BY DEF CheckoutReturns, eventVars
<1>3. GrantedOnce' /\ LivePlanIsPaidFor' /\ AllWhole'
  BY <1>1, <1>2, ReadingKeeps
<1>4. HandlerSound'
  BY <1>1 DEF HandlerSound, Marking
<1>5. LedgerInv'
  BY <1>2, LedgerInvStep
<1>6. BillingTypeOK'
  <2>1. stmts' \in Seq(Statements)
    <3>1. CASE stmts' = <<Stmt("CreatePayment", i, 0)>>
      <4>1. Stmt("CreatePayment", i, 0) \in Statements
        BY StatementIs DEF StatementOps
      <4>  QED  BY <3>1, <4>1
    <3>2. CASE stmts' = <<>>
      BY <3>2
    <3>  QED  BY <1>1, <3>1, <3>2
  <2>2. checkout' \subseteq Invoices /\ session' \subseteq Invoices
    BY <1>1 DEF BillingTypeOK
  <2>  QED  BY <1>2, <1>5, <2>1, <2>2 DEF BillingTypeOK, Statements, LedgerInv
<1>  QED  BY <1>3, <1>4, <1>5, <1>6

\* Handlers that read and then leave a list that goes with what they read.
LEMMA BeginKeeps ==
  ASSUME BillingInv, stmts = <<>>, HandlerSound', stmts' \in Seq(Statements),
         UNCHANGED <<status, credits, payment, checkout, session, live, entitled, claimed,
                     notified, grants, reversals, crashes, interrupted, ledgerVars>>,
         sent' \in [Events -> EventRecord \cup {NoEvent}]
  PROVE  BillingInv'
<1>  USE DEF BillingInv
<1>1. GrantedOnce' /\ LivePlanIsPaidFor' /\ AllWhole'
  BY ReadingKeeps
<1>2. LedgerInv'
  BY LedgerInvStep
<1>3. BillingTypeOK'
  BY <1>2 DEF BillingTypeOK, Statements, LedgerInv
<1>  QED  BY <1>1, <1>2, <1>3

LEMMA SwitchPlanKeeps ==
  ASSUME BillingInv, SwitchPlan
  PROVE  BillingInv'
<1>1. stmts = <<>> /\ stmts' = Subscribe("free")
  BY DEF SwitchPlan, Begin
<1>2. UNCHANGED <<status, credits, payment, checkout, session, live, entitled, claimed, sent,
                  notified, grants, reversals, crashes, interrupted, ledgerVars>>
  BY DEF SwitchPlan, eventVars, invoiceVars
<1>3. stmts' \in Seq(Statements)
  <2>1. Stmt("CancelSubscriptions", "free", 0) \in Statements
        /\ Stmt("CreateSubscription", "free", 0) \in Statements
    BY StatementIs DEF StatementOps, Plans
  <2>  QED  BY <1>1, <2>1 DEF Subscribe
<1>4. Subscribing(stmts)'
  BY <1>1 DEF Subscribing, Subscribe, Plans
<1>5. HandlerSound' /\ sent' \in [Events -> EventRecord \cup {NoEvent}]
  BY <1>2, <1>4 DEF HandlerSound, BillingInv, BillingTypeOK
<1>  QED  BY <1>1, <1>2, <1>3, <1>5, BeginKeeps

LEMMA WebhookKeeps ==
  ASSUME BillingInv, NEW e \in Events, NEW r \in EventRecord, Webhook(e, r)
  PROVE  BillingInv'
<1>1. /\ stmts = <<>> /\ sent' = [sent EXCEPT ![e] = r]
      /\ stmts' = <<Stmt("Claim", e, 0)>> \o Effects(r)
  BY DEF Webhook, Begin
<1>2. UNCHANGED <<status, credits, payment, checkout, session, live, entitled, claimed,
                  notified, grants, reversals, crashes, interrupted, ledgerVars>>
  BY DEF Webhook, invoiceVars
<1>3. sent' \in [Events -> EventRecord \cup {NoEvent}] /\ sent'[e] = r
  BY <1>1 DEF BillingInv, BillingTypeOK
<1>4. stmts' \in Seq(Statements)
  <2>1. Effects(r) \in Seq(Statements) /\ Stmt("Claim", e, 0) \in Statements
    BY EffectsList, StatementIs DEF BillingInv, StatementOps
  <2>  QED  BY <1>1, <2>1, ClaimFirst
<1>5. HandlerSound'
  <2>1. (Effects(sent[e]))' = Effects(r)
    BY <1>2, <1>3 DEF Effects, Settlement, Refund, Payable
  <2>2. Claiming(stmts)'
    BY <1>1, <1>3, <2>1 DEF Claiming
  <2>  QED  BY <2>2 DEF HandlerSound
<1>  QED  BY <1>1, <1>2, <1>3, <1>4, <1>5, BeginKeeps

LEMMA AnonymousWebhookKeeps ==
  ASSUME BillingInv, NEW r \in EventRecord, AnonymousWebhook(r)
  PROVE  BillingInv'
<1>1. stmts = <<>> /\ stmts' = Effects(r)
  BY DEF AnonymousWebhook, Begin
<1>2. UNCHANGED <<status, credits, payment, checkout, session, live, entitled, claimed, sent,
                  notified, grants, reversals, crashes, interrupted, ledgerVars>>
  BY DEF AnonymousWebhook, invoiceVars, eventVars
<1>3. stmts' \in Seq(Statements)
  BY <1>1, EffectsList DEF BillingInv
<1>4. HandlerSound'
  BY <1>1, <1>2, EffectsSound DEF BillingInv
<1>5. sent' \in [Events -> EventRecord \cup {NoEvent}]
  BY <1>2 DEF BillingInv, BillingTypeOK
<1>  QED  BY <1>1, <1>2, <1>3, <1>4, <1>5, BeginKeeps

LEMMA SettleManualPaymentKeeps ==
  ASSUME BillingInv, NEW i \in Invoices, NEW n \in GrantSizes, SettleManualPayment(i, n)
  PROVE  BillingInv'
<1>1. stmts = <<>> /\ status[i] = "due" /\ stmts' = <<Stmt("MarkPaid", i, 0)>> \o GrantPlan(i, n)
  BY DEF SettleManualPayment, Begin, Payable
<1>2. UNCHANGED <<status, credits, payment, checkout, session, live, entitled, claimed, sent,
                  notified, grants, reversals, crashes, interrupted, ledgerVars>>
  BY DEF SettleManualPayment, invoiceVars, eventVars
<1>3. stmts' \in Seq(Statements)
      /\ stmts' = <<Stmt("MarkPaid", i, 0), Stmt("Grant", i, n), Stmt("Entitle", i, 0)>>
  BY <1>1, ListsAreTyped DEF BillingInv
<1>4. Paying(i, stmts)'
  BY <1>1, <1>2, <1>3 DEF Paying
<1>5. HandlerSound' /\ sent' \in [Events -> EventRecord \cup {NoEvent}]
  BY <1>2, <1>4 DEF HandlerSound, Handles, BillingInv, BillingTypeOK
<1>  QED  BY <1>1, <1>2, <1>3, <1>5, BeginKeeps

LEMMA UseCreditKeeps ==
  ASSUME BillingInv, NEW t \in Tasks, UseCredit(t)
  PROVE  BillingInv'
<1>  USE DEF BillingInv
<1>1. stmts = <<>> /\ (ConsumeTaskCredit(t) \/ RefundTaskCredit(t))
  BY DEF UseCredit
<1>2. UNCHANGED <<status, credits, payment, checkout, session, live, entitled, claimed, sent,
                  notified, grants, reversals, stmts, crashes, interrupted>>
  BY DEF UseCredit, billingVars, invoiceVars, eventVars
<1>3. GrantedOnce' /\ LivePlanIsPaidFor' /\ AllWhole'
  BY <1>1, <1>2, ReadingKeeps
<1>4. HandlerSound'
  BY <1>1, <1>2 DEF HandlerSound, Marking
<1>5. LedgerInv'
  BY <1>1, ConsumeKeepsLedgerInv, RefundKeepsLedgerInv
<1>6. BillingTypeOK'
  BY <1>2, <1>5 DEF BillingTypeOK, LedgerInv
<1>  QED  BY <1>3, <1>4, <1>5, <1>6

\* A crash leaves a handler halfway: the invoice it was about is marked.
LEMMA CrashKeeps ==
  ASSUME BillingInv, Crash
  PROVE  BillingInv'
<1>  USE DEF BillingInv
<1>1. /\ stmts' = <<>> /\ checkout' = {} /\ crashes' = crashes + 1 /\ crashes < MaxCrashes
      /\ interrupted' = interrupted \cup ({s.on : s \in ToSet(stmts)} \cap Invoices)
  BY DEF Crash
<1>2. UNCHANGED <<status, credits, payment, session, live, entitled, claimed, sent,
                  notified, grants, reversals, ledgerVars>>
  BY DEF Crash, eventVars
<1>3. ASSUME NEW i \in Invoices, Handles(i, stmts)  PROVE i \in interrupted'
  <2>1. stmts # <<>> /\ Head(stmts).on = i
    BY <1>3, HandlesHead
  <2>2. stmts \in Seq(Statements)
    BY DEF BillingTypeOK, Statements
  <2>3. 1 \in DOMAIN stmts /\ Head(stmts) = stmts[1]
    <3>1. Len(stmts) \in Nat /\ Len(stmts) # 0 /\ DOMAIN stmts = 1 .. Len(stmts)
      BY <2>1, <2>2, LenProperties, EmptySeq
    <3>2. Head(stmts) = stmts[1]
      BY <2>1, <2>2
    <3>  QED  BY <3>1, <3>2
  <2>4. Head(stmts) \in ToSet(stmts)
    BY <2>3 DEF ToSet
  <2>  QED  BY <1>1, <2>1, <2>4
<1>4. ASSUME NEW i \in Invoices, i \notin interrupted'  PROVE Whole(i)'
  <2>1. i \notin interrupted /\ ~Handles(i, stmts)
    BY <1>1, <1>3, <1>4
  <2>2. Whole(i)
    BY <2>1 DEF AllWhole
  <2>  QED  BY <1>2, <2>2 DEF Whole
<1>5. AllWhole'
  BY <1>4 DEF AllWhole
<1>6. GrantedOnce' /\ LivePlanIsPaidFor'
  BY <1>2 DEF GrantedOnce, LivePlanIsPaidFor
<1>7. HandlerSound'
  BY <1>1 DEF HandlerSound, Marking
<1>8. LedgerInv'
  BY <1>2, LedgerInvStep
<1>9. BillingTypeOK'
  <2>1. crashes' \in 0 .. MaxCrashes
    BY <1>1, BillingAssumption DEF BillingTypeOK
  <2>2. interrupted' \subseteq Invoices
    BY <1>1 DEF BillingTypeOK
  <2>3. stmts' \in Seq([op : StatementOps, on : Invoices \cup Events \cup Plans,
                        n : GrantSizes \cup {0}])
    BY <1>1
  <2>  QED  BY <1>1, <1>2, <1>8, <2>1, <2>2, <2>3 DEF BillingTypeOK, LedgerInv
<1>  QED  BY <1>5, <1>6, <1>7, <1>8, <1>9

LEMMA BillingStutters == ASSUME BillingInv, UNCHANGED vars  PROVE BillingInv'
<1>  USE DEF BillingInv
<1>1. UNCHANGED <<status, credits, payment, checkout, session, live, entitled, claimed, sent,
                  notified, grants, reversals, stmts, crashes, interrupted, ledgerVars>>
  BY DEF vars, billingVars, invoiceVars, eventVars
<1>2. LedgerInv'
  BY <1>1, LedgerInvStep
<1>3. BillingTypeOK'
  BY <1>1, <1>2 DEF BillingTypeOK, LedgerInv
<1>4. GrantedOnce' /\ LivePlanIsPaidFor'
  BY <1>1 DEF GrantedOnce, LivePlanIsPaidFor
<1>5. HandlerSound'
  BY <1>1 DEF HandlerSound, Marking, Subscribing, Claiming, Handles, Paying, Refunding,
     HasGranted, PlanPaid, Effects, Settlement, Refund, Payable
<1>6. AllWhole'
  BY <1>1 DEF AllWhole, Whole, Handles, Paying, Refunding, HasGranted
<1>  QED  BY <1>2, <1>3, <1>4, <1>5, <1>6

LEMMA BillingStarts == Init => BillingInv
<1>  SUFFICES ASSUME Init  PROVE BillingInv
  OBVIOUS
<1>1. LedgerInv
  BY LedgerInvInit DEF Init
<1>2. /\ status = [i \in Invoices |-> "absent"] /\ credits = [i \in Invoices |-> 0]
      /\ payment = [i \in Invoices |-> "absent"] /\ checkout = {} /\ session = {}
      /\ live = [p \in Plans |-> IF p = "free" THEN 1 ELSE 0] /\ entitled = FALSE
      /\ claimed = {} /\ sent = [e \in Events |-> NoEvent] /\ notified = {}
      /\ grants = [i \in Invoices |-> <<>>] /\ reversals = [i \in Invoices |-> <<>>]
      /\ stmts = <<>> /\ crashes = 0 /\ interrupted = {}
  BY DEF Init
<1>3. BillingTypeOK
  <2>1. status \in [Invoices -> InvoiceStatus] /\ payment \in [Invoices -> PaymentStatus]
    BY <1>2 DEF InvoiceStatus, PaymentStatus
  <2>2. credits \in [Invoices -> GrantSizes \cup {0}] /\ live \in [Plans -> Nat]
    BY <1>2
  <2>3. grants \in [Invoices -> Seq(GrantSizes)] /\ reversals \in [Invoices -> Seq(Nat)]
    BY <1>2
  <2>4. stmts \in Seq([op : StatementOps, on : Invoices \cup Events \cup Plans,
                       n : GrantSizes \cup {0}])
    BY <1>2
  <2>5. crashes \in 0 .. MaxCrashes
    BY <1>2, BillingAssumption
  <2>6. sent \in [Events -> EventRecord \cup {NoEvent}]
    BY <1>2
  <2>  QED  BY <1>1, <1>2, <2>1, <2>2, <2>3, <2>4, <2>5, <2>6 DEF BillingTypeOK, LedgerInv
<1>4. GrantedOnce
  BY <1>2 DEF GrantedOnce
<1>5. LivePlanIsPaidFor
  BY <1>2 DEF LivePlanIsPaidFor, Plans
<1>6. HandlerSound
  BY <1>2 DEF HandlerSound, Marking
<1>7. AllWhole
  <2>1. ASSUME NEW i \in Invoices  PROVE Whole(i)
    BY <1>2 DEF Whole
  <2>  QED  BY <2>1 DEF AllWhole
<1>  QED  BY <1>1, <1>3, <1>4, <1>5, <1>6, <1>7 DEF BillingInv

LEMMA BillingSteps == BillingInv /\ [Next]_vars => BillingInv'
<1>  SUFFICES ASSUME BillingInv, [Next]_vars  PROVE BillingInv'
  OBVIOUS
<1>1. CASE UNCHANGED vars
  BY <1>1, BillingStutters
<1>2. ASSUME NEW i \in Invoices, NEW n \in GrantSizes, PurchaseManually(i, n)  PROVE BillingInv'
  BY <1>2, PurchaseManuallyKeeps
<1>3. ASSUME NEW i \in Invoices, NEW n \in GrantSizes, PurchaseFromProvider(i, n)
      PROVE  BillingInv'
  BY <1>3, CheckoutKeeps
<1>4. ASSUME NEW i \in Invoices, NEW n \in GrantSizes, SettleManualPayment(i, n)
      PROVE  BillingInv'
  BY <1>4, SettleManualPaymentKeeps
<1>5. ASSUME NEW i \in Invoices, StartPlanCheckout(i)  PROVE BillingInv'
  BY <1>5, CheckoutKeeps
<1>6. ASSUME NEW i \in Invoices, CheckoutReturns(i)  PROVE BillingInv'
  BY <1>6, CheckoutReturnsKeeps
<1>7. CASE SwitchPlan
  BY <1>7, SwitchPlanKeeps
<1>8. ASSUME NEW e \in Events, NEW r \in EventRecord, Webhook(e, r)  PROVE BillingInv'
  BY <1>8, WebhookKeeps
<1>9. ASSUME NEW r \in EventRecord, AnonymousWebhook(r)  PROVE BillingInv'
  BY <1>9, AnonymousWebhookKeeps
<1>10. ASSUME NEW t \in Tasks, UseCredit(t)  PROVE BillingInv'
  BY <1>10, UseCreditKeeps
<1>11. CASE Execute
  BY <1>11, ExecuteKeeps
<1>12. CASE Crash
  BY <1>12, CrashKeeps
<1>  QED  BY <1>1, <1>2, <1>3, <1>4, <1>5, <1>6, <1>7, <1>8, <1>9, <1>10, <1>11, <1>12 DEF Next

-----------------------------------------------------------------------------
(* The theorems.                                                             *)

\* The types, the ledger's books and what every handler leaves behind hold
\* together in every state (src/src/billing/service.ts).
THEOREM BillingInvariant == Spec => []BillingInv
BY BillingStarts, BillingSteps, PTL DEF Spec

\* An invoice grants its credits at most once and takes them back at most
\* once, after it granted them to a paid invoice, however many events name it
\* and whenever the process dies (handleWebhookEvent, settleInvoicePayment).
THEOREM CreditsGrantedOnce == Spec => []GrantedOnce
<1>1. BillingInv => GrantedOnce
  BY DEF BillingInv
<1>  QED  BY <1>1, BillingInvariant, PTL

\* Between two handlers an invoice that no crash cut is settled as a whole:
\* a claimed payment paid it, a paid one granted its credits, a refunded one,
\* and no other, gave them back (settleInvoicePayment, the refund branch).
THEOREM InvoicesSettledWhole == Spec => []SettledWhole
<1>1. BillingInv => SettledWhole
  <2>1. SUFFICES ASSUME BillingInv  PROVE SettledWhole
    OBVIOUS
  <2>2. ASSUME stmts = <<>>, NEW i \in Invoices \ interrupted  PROVE Whole(i)
    BY <2>1, <2>2, NoneHandled DEF BillingInv
  <2>  QED  BY <2>1, <2>2 DEF BillingInv, SettledWhole, Whole
<1>  QED  BY <1>1, BillingInvariant, PTL

\* One subscription is live at most, and one to a plan with a price only
\* after an invoice for it was paid (switchPlan, settleInvoicePayment).
THEOREM PlanIsPaidFor == Spec => []LivePlanIsPaidFor
<1>1. BillingInv => LivePlanIsPaidFor
  BY DEF BillingInv
<1>  QED  BY <1>1, BillingInvariant, PTL

\* Purchases and refunds are ledger operations like those of the engines, so
\* they create and lose no credit: billing implements the ledger.
LEMMA BillingImplementsLedger == Spec => LedgerSpec
<1>1. Init => LedgerInit
  BY DEF Init
<1>2. BillingInv /\ [Next]_vars => [LedgerNext]_ledgerVars
  <2>1. SUFFICES ASSUME BillingInv, [Next]_vars  PROVE [LedgerNext]_ledgerVars
    OBVIOUS
  <2>2. CASE UNCHANGED vars
    BY <2>2 DEF vars
  <2>3. ASSUME NEW t \in Tasks, UseCredit(t)  PROVE LedgerNext
    BY <2>3 DEF UseCredit, LedgerNext
  <2>4. CASE Execute
    <3>1. PICK s : s = Head(stmts)
      OBVIOUS
    <3>2. s.op \in {"Grant", "Reverse"} => s.n \in GrantSizes
      BY <2>1, <2>4, <3>1, SoundIsAboutRow DEF BillingInv, AboutRow, Execute
    <3>3. \/ s.op = "Grant" /\ GrantCustomCredits(s.n)
          \/ s.op = "Reverse" /\ ReverseCustomCredits(s.n)
          \/ UNCHANGED ledgerVars
      BY <2>4, <3>1, ExecuteIs
    <3>  QED  BY <3>2, <3>3 DEF LedgerNext
  <2>5. CASE Crash
    BY <2>5 DEF Crash
  <2>6. CASE Next /\ ~Execute /\ ~Crash /\ ~\E t \in Tasks : UseCredit(t)
    BY <2>6 DEF Next, PurchaseManually, PurchaseFromProvider, SettleManualPayment,
       StartPlanCheckout, CheckoutReturns, SwitchPlan, Webhook, AnonymousWebhook
  <2>  QED  BY <2>1, <2>2, <2>3, <2>4, <2>5, <2>6
<1>  QED  BY <1>1, <1>2, BillingInvariant, PTL DEF Spec, LedgerSpec

\* So credits are conserved across purchases, refunds and crashes, pool by pool.
THEOREM BillingConservesCredits == Spec => []Conservation
<1>1. BillingInv => Conservation
  BY DEF BillingInv, LedgerInv
<1>  QED  BY <1>1, BillingInvariant, PTL

-----------------------------------------------------------------------------
(* The automation scheduler.                                                 *)

\* The time an advance may write: an interval goes on after the present.
NextTimes ==
  {x \in Nat \cup {Never} : schedule.kind = "interval" => x # Never /\ x > now}

PauseRow     == OnAutomation("set_status", "paused", Never)
CancelLoop   == OnAutomation("cancel_open", "cancelled", Never)
DeleteRow    == OnAutomation("delete", "deleted", Never)
AdvanceTo(x) == OnAutomation("advance", "none", x)

\* What a callback still does once it is done with a run.
Afterwards ==
  {<<>>, <<PauseRow>>, <<CancelLoop, DeleteRow>>} \cup {<<AdvanceTo(x)>> : x \in NextTimes}

\* The run k may be inserted: nobody has, and if it is an occurrence it is the
\* one that is due.
Insertable(k) ==
  /\ runs[k] = NoRow
  /\ k \in Occurrences => k = OccurrenceKey(nextRunAt)

\* The run k waits for a workflow of the attempt n or a later one.
Launchable(k, n) ==
  /\ runs[k].status = "queued" /\ ~HasJob(k)
  /\ \A i \in Attempts : i >= n => job[<<k, i>>] = "none"

\* The workflow of the run k is enqueued and not yet attached to it.
Attachable(k) ==
  /\ runs[k].status = "queued" /\ ~HasJob(k)
  /\ job[<<k, runs[k].attempt>>] = "queued"

\* What a callback left to be executed about the run k, and what it has read.
AtRun(k, t) ==
  \/ /\ pending = <<OnRun("run_insert", k), Settle(k, "skipped")>> \o t
     /\ Insertable(k)
  \/ /\ pending = <<Settle(k, "skipped")>> \o t
     /\ Launchable(k, 1)
  \/ /\ pending = <<OnRun("run_insert", k), OnRun("job_enqueue", k), OnRun("run_attach", k)>> \o t
     /\ Insertable(k)
  \/ /\ pending = <<OnRun("run_bump", k), OnRun("job_enqueue", k), OnRun("run_attach", k)>> \o t
     /\ Launchable(k, runs[k].attempt + 1) /\ runs[k].attempt < MaxRecoveryAttempts
  \/ /\ pending = <<OnRun("job_enqueue", k), OnRun("run_attach", k)>> \o t
     /\ Launchable(k, runs[k].attempt)
  \/ /\ pending = <<OnRun("run_attach", k)>> \o t
     /\ Attachable(k)
  \/ /\ pending = <<Settle(k, "failed")>> \o t
     /\ Open(k) /\ ~HasJob(k)
  \/ /\ pending = <<OnRun("job_cancel", k), Settle(k, "cancelled")>> \o t
     /\ Open(k) /\ HasJob(k)
  \/ /\ pending = <<Settle(k, "cancelled")>> \o t
     /\ Open(k) /\ (HasJob(k) => job[JobOf(k)] \in JobEnd)

CallbackGoesOn ==
  \/ pending = <<DeleteRow>> /\ \A k \in RunKeys : ~Open(k)
  \/ pending \in Afterwards
  \/ \E k \in RunKeys : \E t \in Afterwards : AtRun(k, t)

\* A row and its launches: a run that does not exist has launched nothing, an
\* open run without a job is queued, and attempts to come have no job.
RowSound(k) ==
  /\ runs[k].status = "none" => runs[k] = NoRow
  /\ runs[k] = NoRow => \A n \in Attempts : job[<<k, n>>] = "none"
  /\ Open(k) /\ ~HasJob(k) => runs[k].status = "queued"
  /\ \A n \in Attempts : n > runs[k].attempt => job[<<k, n>>] = "none"
  /\ HasJob(k) => job[JobOf(k)] # "none"
  /\ runs[k].createdAt <= now

RowsSound == \A k \in RunKeys : RowSound(k)

\* The launches that no run has as its job, but for the one that the running
\* callback is about to attach: each cost a fault.
InFlight ==
  {l \in Launches : /\ pending # <<>> /\ Head(pending) = OnRun("run_attach", l[1])
                    /\ l[2] = runs[l[1]].attempt}
Lost == {l \in Launches : job[l] # "none" /\ runs[l[1]].jobId # l[2] /\ l \notin InFlight}
LostToFaults == Cardinality(Lost) <= faults

\* The occurrence an interval waits for was not due yet when others fired.
NothingMissed ==
  schedule.kind = "interval" /\ nextRunAt \in 0 .. Horizon
      /\ runs[OccurrenceKey(nextRunAt)] = NoRow
    => \A e \in Occurrences : runs[e].status # "none" => nextRunAt > runs[e].createdAt

\* A deleted automation left no more jobs behind than faults had lost.
GoneForGood ==
  /\ pending = <<>>
  /\ runs = [k \in RunKeys |-> NoRow]
  /\ Cardinality({l \in Launches : job[l] \in LiveJob}) <= faults
  /\ LaunchedOnce

AutomationTypes ==
  /\ autoStatus \in {"active", "paused", "deleted"}
  /\ schedule \in Schedules
  /\ nextRunAt \in Nat \cup {Never}
  /\ runs \in [RunKeys -> [status : RunStatus, attempt : Attempts,
                          jobId : Attempts \cup {Never}, createdAt : 0 .. Horizon]]
  /\ job \in [Launches -> {"none"} \cup LiveJob \cup JobEnd]
  /\ now \in 0 .. Horizon
  /\ firing \in BOOLEAN
  /\ faults \in 0 .. MaxFaults

AutomationLives ==
  /\ CallbackGoesOn
  /\ RowsSound
  /\ SettledRunIsTrue
  /\ LostToFaults
  /\ NothingMissed

AutomationInv ==
  /\ AutomationTypes
  /\ IF autoStatus = "deleted" THEN GoneForGood ELSE AutomationLives

-----------------------------------------------------------------------------
(* Launches, times and sequences.                                          *)

LEMMA LaunchesAreFinite == IsFiniteSet(Launches)
<1>1. IsFiniteSet(0 .. Horizon)
  BY FS_Interval, AutomationAssumption
<1>2. IsFiniteSet(Occurrences)
  <2>1. PICK f : f = [m \in 0 .. Horizon |-> OccurrenceKey(m)]
    OBVIOUS
  <2>2. f \in Surjection(0 .. Horizon, Occurrences)
    BY <2>1, Zenon DEF Surjection, Occurrences
  <2> QED
    BY <1>1, <2>2, FS_Surjection
<1>3. IsFiniteSet({<<"manual", m>> : m \in ManualRuns})
  <2>1. PICK f : f = [m \in ManualRuns |-> <<"manual", m>>]
    OBVIOUS
  <2>2. f \in Surjection(ManualRuns, {<<"manual", m>> : m \in ManualRuns})
    BY <2>1, Zenon DEF Surjection
  <2> QED
    BY <2>2, AutomationAssumption, FS_Surjection
<1>4. IsFiniteSet(RunKeys)
  BY <1>2, <1>3, FS_Union, Zenon DEF RunKeys
<1>5. IsFiniteSet(Attempts)
  BY FS_Interval, AutomationAssumption DEF Attempts
<1> QED
  BY <1>4, <1>5, FS_Product, Zenon DEF Launches

\* An interval's next slot is the first one after the present.
LEMMA NextSlotIsAhead ==
  ASSUME NEW a \in Nat, NEW b \in Nat, b > 0
  PROVE  a \div b \in Nat /\ b * (a \div b + 1) \in Nat /\ b * (a \div b + 1) > a
<1>1. a \div b \in Nat
  OBVIOUS
<1>2. a \div b \in Int /\ a = b * (a \div b) + (a % b) /\ a % b < b
  OBVIOUS
<1>3. b * (a \div b + 1) = b * (a \div b) + b /\ b * (a \div b) \in Nat
  BY <1>1
<1> QED
  BY <1>1, <1>2, <1>3

\* What comes first of statements put before others.
LEMMA FirstBefore ==
  ASSUME NEW S, NEW a \in S, NEW t \in Seq(S)
  PROVE  /\ <<a>> \o t \in Seq(S) /\ <<a>> \o t # <<>>
         /\ Head(<<a>> \o t) = a /\ Tail(<<a>> \o t) = t
  OBVIOUS

LEMMA TwoBefore ==
  ASSUME NEW S, NEW a \in S, NEW b \in S, NEW t \in Seq(S)
  PROVE  <<a, b>> \o t = <<a>> \o (<<b>> \o t)
<1>1. <<a>> \in Seq(S) /\ <<b>> \in Seq(S) /\ <<a, b>> \in Seq(S)
  OBVIOUS
<1>2. <<a, b>> = <<a>> \o <<b>>
  <2>1. PICK s : s = <<a>> \o <<b>>
    OBVIOUS
  <2>2. s \in Seq(S) /\ Len(s) = 2 /\ \A i \in 1 .. 2 : s[i] = <<a, b>>[i]
    BY <1>1, <2>1, ConcatProperties
  <2> QED
    BY <1>1, <2>1, <2>2, SeqEqual
<1> QED
  BY <1>1, <1>2, ConcatAssociative

LEMMA FirstOfThese ==
  ASSUME NEW S, NEW a \in S, NEW b \in S, NEW c \in S, NEW t \in Seq(S)
  PROVE  /\ <<a>> \o t # <<>> /\ Head(<<a>> \o t) = a /\ Tail(<<a>> \o t) = t
         /\ <<a, b>> \o t # <<>> /\ Head(<<a, b>> \o t) = a
         /\ Tail(<<a, b>> \o t) = <<b>> \o t
         /\ <<a, b, c>> \o t # <<>> /\ Head(<<a, b, c>> \o t) = a
         /\ Tail(<<a, b, c>> \o t) = <<b, c>> \o t
<1>1. <<b>> \o t \in Seq(S) /\ <<b, c>> \o t \in Seq(S)
  <2>1. <<b, c>> \in Seq(S)
    OBVIOUS
  <2> QED
    BY <2>1, ConcatProperties, FirstBefore
<1>2. <<a>> \o t # <<>> /\ Head(<<a>> \o t) = a /\ Tail(<<a>> \o t) = t
  BY FirstBefore
<1>3. /\ <<a, b>> \o t # <<>> /\ Head(<<a, b>> \o t) = a
      /\ Tail(<<a, b>> \o t) = <<b>> \o t
  <2>1. <<a, b>> \o t = <<a>> \o (<<b>> \o t)
    BY TwoBefore
  <2> QED
    BY <1>1, <2>1, FirstBefore
<1>4. /\ <<a, b, c>> \o t # <<>> /\ Head(<<a, b, c>> \o t) = a
      /\ Tail(<<a, b, c>> \o t) = <<b, c>> \o t
  <2>a. <<a>> \in Seq(S) /\ <<b, c>> \in Seq(S) /\ <<a, b, c>> \in Seq(S)
    OBVIOUS
  <2>b. <<a, b, c>> = <<a>> \o <<b, c>>
    <3>1. PICK s : s = <<a>> \o <<b, c>>
      OBVIOUS
    <3>2. s \in Seq(S) /\ Len(s) = 3 /\ \A i \in 1 .. 3 : s[i] = <<a, b, c>>[i]
      BY <2>a, <3>1, ConcatProperties
    <3> QED
      BY <2>a, <3>1, <3>2, SeqEqual
  <2>1. <<a, b, c>> \o t = <<a>> \o (<<b, c>> \o t)
    BY <2>a, <2>b, ConcatAssociative
  <2>2. PICK u : u = <<b, c>> \o t
    OBVIOUS
  <2>3. u \in Seq(S)
    BY <1>1, <2>2
  <2>4. <<a>> \o u # <<>> /\ Head(<<a>> \o u) = a /\ Tail(<<a>> \o u) = u
    BY <2>3, FirstBefore
  <2>5. <<a, b, c>> \o t = <<a>> \o u
    BY <2>1, <2>2, Zenon
  <2> QED
    BY <2>2, <2>4, <2>5, Zenon
<1> QED
  BY <1>2, <1>3, <1>4

\* The statements there are.
SqlStatements ==
  {OnRun(op, k) : op \in RunOps, k \in RunKeys}
    \cup {Settle(k, to) : k \in RunKeys, to \in SettledRun}
    \cup {AdvanceTo(x) : x \in Nat \cup {Never}}
    \cup {PauseRow, CancelLoop, DeleteRow}

LEMMA StatementsAreTyped ==
  ASSUME NEW k \in RunKeys
  PROVE  /\ OnRun("run_insert", k) \in SqlStatements /\ OnRun("run_bump", k) \in SqlStatements
         /\ OnRun("job_enqueue", k) \in SqlStatements /\ OnRun("run_attach", k) \in SqlStatements
         /\ OnRun("job_cancel", k) \in SqlStatements
         /\ Settle(k, "skipped") \in SqlStatements /\ Settle(k, "failed") \in SqlStatements
         /\ Settle(k, "cancelled") \in SqlStatements
<1>1. {"run_insert", "run_bump", "job_enqueue", "run_attach", "job_cancel"} \subseteq RunOps
  BY DEF RunOps
<1>2. {"skipped", "failed", "cancelled"} \subseteq SettledRun
  BY DEF SettledRun
<1> QED
  BY <1>1, <1>2, SMT DEF SqlStatements

LEMMA AfterwardsAreStatements == Afterwards \subseteq Seq(SqlStatements)
<1>1. PauseRow \in SqlStatements /\ CancelLoop \in SqlStatements /\ DeleteRow \in SqlStatements
  BY SMT DEF SqlStatements
<1>2. <<>> \in Seq(SqlStatements) /\ <<PauseRow>> \in Seq(SqlStatements)
      /\ <<CancelLoop, DeleteRow>> \in Seq(SqlStatements)
  BY <1>1
<1>3. ASSUME NEW x \in NextTimes PROVE <<AdvanceTo(x)>> \in Seq(SqlStatements)
  <2>1. x \in Nat \cup {Never}
    BY DEF NextTimes
  <2>2. AdvanceTo(x) \in SqlStatements
    BY <2>1, SMT DEF SqlStatements
  <2> QED
    BY <2>2
<1> QED
  BY <1>2, <1>3, Zenon DEF Afterwards

LEMMA FirstOccurrenceIsTyped ==
  ASSUME AutomationTypes, NEW s \in Schedules
  PROVE  FirstOccurrence(s) \in Nat /\ (s.kind = "interval" => FirstOccurrence(s) > now)
<1>1. s.kind \in Kinds /\ s.at \in Nat /\ s.every \in Nat /\ s.every > 0 /\ now \in Nat
  BY AutomationAssumption DEF AutomationTypes
<1>2. CronNextAfter(now, s.every) \in Nat
  <2>1. now \div s.every \in Nat
    BY <1>1, NextSlotIsAhead
  <2> QED
    BY <1>1, <2>1 DEF CronNextAfter
<1> QED
  BY <1>1, <1>2 DEF FirstOccurrence, Kinds

\* advance from an occurrence that is due, or from the present.
LEMMA NextAfterIsAhead ==
  ASSUME AutomationTypes, NEW from \in Nat, from <= now
  PROVE  NextAfter(from) \in NextTimes
<1>1. schedule.kind \in Kinds /\ schedule.every \in Nat /\ schedule.every > 0 /\ now \in Nat
  BY AutomationAssumption DEF AutomationTypes
<1> DEFINE ahead == schedule.every * ((now - from) \div schedule.every + 1)
<1>2. ahead \in Nat /\ ahead > now - from
  <2>1. now - from \in Nat
    BY <1>1
  <2> QED
    BY <1>1, <2>1, NextSlotIsAhead
<1>3. CASE schedule.kind = "once"
  BY <1>3 DEF NextAfter, NextTimes
<1>4. CASE schedule.kind = "cron"
  <2>1. from \div schedule.every \in Nat
    BY <1>1, NextSlotIsAhead
  <2>2. CronNextAfter(from, schedule.every) \in Nat
    BY <1>1, <2>1 DEF CronNextAfter
  <2> QED
    BY <1>4, <2>2 DEF NextAfter, NextTimes
<1>5. CASE schedule.kind = "interval"
  <2>1. NextAfter(from) = from + ahead
    BY <1>5 DEF NextAfter
  <2>2. from + ahead \in Nat /\ from + ahead > now
    BY <1>1, <1>2
  <2>3. from + ahead # Never
    BY <2>2, AutomationAssumption
  <2> QED
    BY <1>5, <2>1, <2>2, <2>3 DEF NextTimes
<1> QED
  BY <1>1, <1>3, <1>4, <1>5 DEF Kinds

LEMMA AfterwardsByTime ==
  ASSUME schedule' = schedule, now' = now
  PROVE  Afterwards' = Afterwards
<1>1. NextTimes' = NextTimes
  BY DEF NextTimes
<1> QED
  BY <1>1 DEF Afterwards, AdvanceTo, OnAutomation, SqlStatement, PauseRow, CancelLoop, DeleteRow

LEMMA Joined ==
  ASSUME NEW S, NEW a \in S, NEW b \in S, NEW c \in S
  PROVE  /\ <<a>> \o <<b>> = <<a, b>> /\ <<>> \o <<a>> = <<a>>
         /\ <<a>> \o <<b, c>> = <<a, b, c>> /\ <<a, b>> \o <<c>> = <<a, b, c>>
         /\ <<a>> \o <<>> = <<a>> /\ <<a, b>> \o <<>> = <<a, b>>
         /\ <<a, b, c>> \o <<>> = <<a, b, c>>
<1>1. <<a>> \in Seq(S) /\ <<b>> \in Seq(S) /\ <<c>> \in Seq(S) /\ <<a, b>> \in Seq(S)
      /\ <<b, c>> \in Seq(S) /\ <<a, b, c>> \in Seq(S)
  OBVIOUS
<1>2. <<a>> \o <<b>> = <<a, b>>
  <2>1. PICK s : s = <<a>> \o <<b>>
    OBVIOUS
  <2>2. s \in Seq(S) /\ Len(s) = 2 /\ \A i \in 1 .. 2 : s[i] = <<a, b>>[i]
    BY <1>1, <2>1, ConcatProperties
  <2> QED
    BY <1>1, <2>1, <2>2, SeqEqual
<1>3. <<a>> \o <<b, c>> = <<a, b, c>>
  <2>1. PICK s : s = <<a>> \o <<b, c>>
    OBVIOUS
  <2>2. s \in Seq(S) /\ Len(s) = 3 /\ \A i \in 1 .. 3 : s[i] = <<a, b, c>>[i]
    BY <1>1, <2>1, ConcatProperties
  <2> QED
    BY <1>1, <2>1, <2>2, SeqEqual
<1>4. <<a, b>> \o <<c>> = <<a, b, c>>
  <2>1. PICK s : s = <<a, b>> \o <<c>>
    OBVIOUS
  <2>2. s \in Seq(S) /\ Len(s) = 3 /\ \A i \in 1 .. 3 : s[i] = <<a, b, c>>[i]
    BY <1>1, <2>1, ConcatProperties
  <2> QED
    BY <1>1, <2>1, <2>2, SeqEqual
<1>5. /\ <<>> \o <<a>> = <<a>> /\ <<a>> \o <<>> = <<a>> /\ <<a, b>> \o <<>> = <<a, b>>
      /\ <<a, b, c>> \o <<>> = <<a, b, c>>
  BY <1>1, ConcatEmptySeq
<1> QED
  BY <1>2, <1>3, <1>4, <1>5

-----------------------------------------------------------------------------
(* The callbacks start with what they have read.                           *)

\* Only a launch about to be attached is in flight.
LEMMA NothingInFlight ==
  ASSUME pending = <<>> \/ Head(pending).op # "run_attach"
  PROVE  InFlight = {}
  BY DEF InFlight, OnRun, SqlStatement

LEMMA LostIsFinite == IsFiniteSet(Lost) /\ Cardinality(Lost) \in Nat
<1>1. Lost \in SUBSET Launches
  BY DEF Lost
<1> QED
  BY <1>1, LaunchesAreFinite, FS_Subset, FS_CardinalityType

LEMMA FewerLost ==
  ASSUME LostToFaults, AutomationTypes, Lost' \subseteq Lost, faults' = faults
  PROVE  LostToFaults'
<1>1. Cardinality(Lost') <= Cardinality(Lost) /\ Cardinality(Lost') \in Nat
  BY LostIsFinite, FS_Subset, FS_CardinalityType
<1>2. Cardinality(Lost)' = Cardinality(Lost') /\ faults \in Nat
  BY DEF AutomationTypes
<1> QED
  BY <1>1, <1>2, LostIsFinite DEF LostToFaults

\* What changes no row loses nothing.
LEMMA SameRowsKeep ==
  ASSUME AutomationInv, autoStatus # "deleted",
         pending = <<>> \/ Head(pending).op # "run_attach",
         UNCHANGED <<autoVars, runs, job, now, faults>>, firing' \in BOOLEAN,
         pending' = <<>> \/ Head(pending').op # "run_attach",
         CallbackGoesOn'
  PROVE  AutomationInv'
<1>1. AutomationTypes /\ AutomationLives
  BY DEF AutomationInv
<1>2. AutomationTypes'
  BY <1>1 DEF AutomationTypes, autoVars
<1>3. RowsSound'
  BY <1>1 DEF AutomationLives, RowsSound, RowSound, Open, HasJob, JobOf
<1>4. SettledRunIsTrue'
  BY <1>1 DEF AutomationLives, SettledRunIsTrue, HasJob, JobOf, LaunchesOf
<1>5. Lost' = Lost
  <2>1. InFlight = {} /\ InFlight' = {}
    BY NothingInFlight DEF InFlight, OnRun, SqlStatement
  <2> QED
    BY <2>1 DEF Lost
<1>6. LostToFaults'
  BY <1>1, <1>5, FewerLost DEF AutomationLives
<1>7. NothingMissed'
  BY <1>1 DEF AutomationLives, NothingMissed, autoVars
<1>8. autoStatus' # "deleted"
  BY DEF autoVars
<1> QED
  BY <1>2, <1>3, <1>4, <1>6, <1>7, <1>8 DEF AutomationInv, AutomationLives

\* A callback that starts changes no row.
LEMMA StartKeeps ==
  ASSUME AutomationInv, autoStatus # "deleted", Idle,
         UNCHANGED <<autoVars, runs, job, now, faults>>, firing' \in BOOLEAN,
         pending' = <<>> \/ Head(pending').op # "run_attach",
         CallbackGoesOn'
  PROVE  AutomationInv'
BY SameRowsKeep DEF Idle

\* What is true of a run goes on being true when a callback starts.
LEMMA ReadingsHold ==
  ASSUME UNCHANGED <<autoVars, runs, job, now>>, NEW k, NEW n
  PROVE  /\ Insertable(k)' = Insertable(k) /\ Launchable(k, n)' = Launchable(k, n)
         /\ Attachable(k)' = Attachable(k) /\ Open(k)' = Open(k) /\ HasJob(k)' = HasJob(k)
         /\ Afterwards' = Afterwards
<1>1. Afterwards' = Afterwards
  BY AfterwardsByTime DEF autoVars
<1> QED
  BY <1>1 DEF Insertable, Launchable, Attachable, Open, HasJob, autoVars

LEMMA NothingAfterwards ==
  <<>> \in Afterwards /\ <<CancelLoop, DeleteRow>> \in Afterwards /\ <<PauseRow>> \in Afterwards
  BY Zenon DEF Afterwards

LEMMA OperationsOfStatements ==
  ASSUME NEW k, NEW to, NEW x
  PROVE  /\ OnRun("run_insert", k).op = "run_insert" /\ OnRun("run_bump", k).op = "run_bump"
         /\ OnRun("job_enqueue", k).op = "job_enqueue" /\ OnRun("run_attach", k).op = "run_attach"
         /\ OnRun("job_cancel", k).op = "job_cancel" /\ Settle(k, to).op = "run_settle"
         /\ AdvanceTo(x).op = "advance" /\ PauseRow.op = "set_status"
         /\ CancelLoop.op = "cancel_open" /\ DeleteRow.op = "delete"
  BY DEF OnRun, Settle, AdvanceTo, PauseRow, CancelLoop, DeleteRow, OnAutomation, SqlStatement

LEMMA StartOf ==
  ASSUME NEW list, NEW inFireDue \in BOOLEAN, Start(list, inFireDue)
  PROVE  /\ UNCHANGED <<autoVars, runs, job, now, faults>>
         /\ pending' = list /\ firing' \in BOOLEAN
  BY DEF Start

LEMMA FireDueKeeps ==
  ASSUME AutomationInv, autoStatus # "deleted", FireDue
  PROVE  AutomationInv'
<1>1. AutomationTypes /\ AutomationLives /\ Idle /\ Due
  BY DEF AutomationInv, FireDue
<1>2. PICK k : k = OccurrenceKey(nextRunAt)
  OBVIOUS
<1>3. k \in RunKeys /\ nextRunAt \in Nat /\ nextRunAt <= now
  <2>1. nextRunAt \in 0 .. Horizon /\ nextRunAt <= now
    BY <1>1, AutomationAssumption DEF AutomationTypes, Due
  <2> QED
    BY <1>2, <2>1 DEF RunKeys, Occurrences
<1>4. PICK x : x = NextAfter(nextRunAt)
  OBVIOUS
<1>5. x \in NextTimes /\ Advance(nextRunAt) = AdvanceTo(x)
  BY <1>1, <1>3, <1>4, NextAfterIsAhead DEF Advance, AdvanceTo
<1>6. <<AdvanceTo(x)>> \in Afterwards
  BY <1>5, Zenon DEF Afterwards
<1>7. AdvanceTo(x) \in SqlStatements /\ PauseRow \in SqlStatements
  <2>1. x \in Nat \cup {Never}
    BY <1>5 DEF NextTimes
  <2> QED
    BY <2>1, SMT DEF SqlStatements
<1>a. PICK ins, skip, enq, att, adv :
        /\ ins = OnRun("run_insert", k) /\ skip = Settle(k, "skipped")
        /\ enq = OnRun("job_enqueue", k) /\ att = OnRun("run_attach", k) /\ adv = AdvanceTo(x)
  OBVIOUS
<1>b. /\ ins \in SqlStatements /\ skip \in SqlStatements /\ enq \in SqlStatements
      /\ att \in SqlStatements /\ adv \in SqlStatements /\ PauseRow \in SqlStatements
  BY <1>3, <1>7, <1>a, StatementsAreTyped
<1>c. /\ ins.op # "run_attach" /\ adv.op # "run_attach"
  BY <1>a, OperationsOfStatements
<1>8. CASE runs[k] # NoRow
  <2>1. Start(<<adv>>, TRUE)
    BY <1>2, <1>5, <1>8, <1>a, Zenon DEF FireDue
  <2>2. UNCHANGED <<autoVars, runs, job, now, faults>> /\ pending' = <<adv>> /\ firing' \in BOOLEAN
    BY <2>1, StartOf
  <2>3. CallbackGoesOn'
    BY <2>2, <1>6, <1>a, ReadingsHold DEF CallbackGoesOn
  <2>4. Head(pending').op # "run_attach"
    BY <2>2, <1>c
  <2> QED
    BY <1>1, <2>2, <2>3, <2>4, StartKeeps
<1>9. CASE runs[k] = NoRow
  <2>1. Insertable(k)
    BY <1>2, <1>9 DEF Insertable
  <2>2. \/ Start(<<ins>> \o <<skip, adv>>, TRUE)
        \/ Start(<<ins>> \o <<skip, PauseRow>>, TRUE)
        \/ Start(<<ins>> \o <<enq, att>> \o <<adv>>, TRUE)
    BY <1>2, <1>5, <1>9, <1>a, Zenon DEF FireDue, Launch, PauseRow
  <2>3. UNCHANGED <<autoVars, runs, job, now, faults>> /\ firing' \in BOOLEAN
        /\ \/ pending' = <<ins>> \o <<skip, adv>>
           \/ pending' = <<ins>> \o <<skip, PauseRow>>
           \/ pending' = <<ins>> \o <<enq, att>> \o <<adv>>
    BY <2>2, StartOf
  <2>4. /\ <<ins>> \o <<skip, adv>> = <<ins, skip>> \o <<adv>>
        /\ <<ins>> \o <<skip, PauseRow>> = <<ins, skip>> \o <<PauseRow>>
        /\ <<ins>> \o <<enq, att>> \o <<adv>> = <<ins, enq, att>> \o <<adv>>
    BY <1>b, Joined
  <2>5. \E t \in Afterwards : \/ pending' = <<ins, skip>> \o t
                              \/ pending' = <<ins, enq, att>> \o t
    BY <2>3, <2>4, <1>6, <1>a, NothingAfterwards, Zenon
  <2>6. PICK t \in Afterwards : \/ pending' = <<ins, skip>> \o t
                                \/ pending' = <<ins, enq, att>> \o t
    BY <2>5
  <2>7. AtRun(k, t)'
    <3>1. Insertable(k)'
      BY <2>1, <2>3, ReadingsHold
    <3> QED
      BY <3>1, <2>6, <1>a DEF AtRun, OnRun, Settle, SqlStatement
  <2>8. CallbackGoesOn'
    BY <2>3, <2>7, <1>3, ReadingsHold, Zenon DEF CallbackGoesOn
  <2>9. Head(pending') = ins
    BY <2>6, <1>b, AfterwardsAreStatements, FirstOfThese
  <2> QED
    BY <1>1, <1>c, <2>3, <2>8, <2>9, StartKeeps
<1> QED
  BY <1>8, <1>9

LEMMA RelaunchKeeps ==
  ASSUME AutomationInv, autoStatus # "deleted", NEW k \in RunKeys, Relaunch(k)
  PROVE  AutomationInv'
<1>1. AutomationTypes /\ AutomationLives /\ Idle /\ Open(k) /\ ~HasJob(k)
  BY DEF AutomationInv, Relaunch
<1>a. PICK bump, enq, att, fail :
        /\ bump = OnRun("run_bump", k) /\ fail = Settle(k, "failed")
        /\ enq = OnRun("job_enqueue", k) /\ att = OnRun("run_attach", k)
  OBVIOUS
<1>b. /\ bump \in SqlStatements /\ fail \in SqlStatements /\ enq \in SqlStatements
      /\ att \in SqlStatements
  BY <1>a, StatementsAreTyped
<1>c. bump.op # "run_attach" /\ fail.op # "run_attach"
  BY <1>a, OperationsOfStatements
<1>2. \/ runs[k].attempt >= MaxRecoveryAttempts /\ Start(<<fail>>, FALSE)
      \/ ~(runs[k].attempt >= MaxRecoveryAttempts) /\ Start(<<bump>> \o <<enq, att>>, FALSE)
  BY <1>a, Zenon DEF Relaunch, Launch
<1>3. <<fail>> = <<fail>> \o <<>> /\ <<bump>> \o <<enq, att>> = <<bump, enq, att>> \o <<>>
      /\ <<bump>> \o <<enq, att>> = <<bump, enq, att>>
  <2>1. <<fail>> \o <<>> = <<fail>>
    BY <1>b, Joined
  <2>2. <<bump>> \o <<enq, att>> = <<bump, enq, att>>
    BY <1>b, Joined
  <2>3. <<bump, enq, att>> \o <<>> = <<bump, enq, att>>
    BY <1>b, Joined
  <2> QED
    BY <2>1, <2>2, <2>3
<1>4. UNCHANGED <<autoVars, runs, job, now, faults>> /\ firing' \in BOOLEAN
      /\ \/ pending' = <<fail>> \o <<>>
         \/ /\ ~(runs[k].attempt >= MaxRecoveryAttempts)
            /\ pending' = <<bump, enq, att>> \o <<>>
  BY <1>2, <1>3, StartOf
<1>5. runs[k].attempt \in Attempts /\ MaxRecoveryAttempts \in Nat
      /\ Launchable(k, runs[k].attempt + 1)
  BY <1>1, AutomationAssumption
     DEF AutomationTypes, AutomationLives, RowsSound, RowSound, Launchable, Attempts
<1>6. AtRun(k, <<>>)'
  <2>1. Open(k)' /\ ~HasJob(k)' /\ runs' = runs
    BY <1>1, <1>4, ReadingsHold
  <2>2. Launchable(k, runs[k].attempt + 1)'
    BY <1>4, <1>5, ReadingsHold DEF Launchable, HasJob
  <2>3. CASE pending' = <<fail>> \o <<>>
    BY <2>1, <2>3, <1>a DEF AtRun, Settle, SqlStatement
  <2>4. CASE ~(runs[k].attempt >= MaxRecoveryAttempts) /\ pending' = <<bump, enq, att>> \o <<>>
    BY <2>1, <2>2, <2>4, <1>a, <1>5 DEF AtRun, OnRun, SqlStatement, Attempts
  <2> QED
    BY <1>4, <2>3, <2>4
<1>7. CallbackGoesOn'
  BY <1>4, <1>6, NothingAfterwards, ReadingsHold, Zenon DEF CallbackGoesOn
<1>8. Head(pending').op # "run_attach"
  BY <1>3, <1>4, <1>c
<1> QED
  BY <1>1, <1>4, <1>7, <1>8, StartKeeps

LEMMA TriggerManualRunKeeps ==
  ASSUME AutomationInv, NEW k \in RunKeys \ Occurrences, TriggerManualRun(k)
  PROVE  AutomationInv'
<1>1. autoStatus # "deleted" /\ AutomationTypes /\ AutomationLives /\ Idle /\ Insertable(k)
  BY DEF AutomationInv, TriggerManualRun, Insertable
<1>a. PICK ins, enq, att :
        /\ ins = OnRun("run_insert", k)
        /\ enq = OnRun("job_enqueue", k) /\ att = OnRun("run_attach", k)
  OBVIOUS
<1>b. /\ ins \in SqlStatements /\ enq \in SqlStatements /\ att \in SqlStatements
  BY <1>a, StatementsAreTyped
<1>c. ins.op # "run_attach"
  BY <1>a, OperationsOfStatements
<1>2. Start(<<ins>> \o <<enq, att>>, FALSE)
  BY <1>a, Zenon DEF TriggerManualRun, Launch
<1>3. <<ins>> \o <<enq, att>> = <<ins, enq, att>> \o <<>>
      /\ <<ins>> \o <<enq, att>> = <<ins, enq, att>>
  <2>1. <<ins>> \o <<enq, att>> = <<ins, enq, att>>
    BY <1>b, Joined
  <2>2. <<ins, enq, att>> \o <<>> = <<ins, enq, att>>
    BY <1>b, Joined
  <2> QED
    BY <2>1, <2>2
<1>4. UNCHANGED <<autoVars, runs, job, now, faults>> /\ firing' \in BOOLEAN
      /\ pending' = <<ins, enq, att>> \o <<>> /\ pending' = <<ins, enq, att>>
  BY <1>2, <1>3, StartOf
<1>5. AtRun(k, <<>>)'
  <2>1. Insertable(k)'
    BY <1>1, <1>4, ReadingsHold
  <2> QED
    BY <2>1, <1>4, <1>a DEF AtRun, OnRun, SqlStatement
<1>6. CallbackGoesOn'
  BY <1>4, <1>5, NothingAfterwards, ReadingsHold, Zenon DEF CallbackGoesOn
<1>7. Head(pending').op # "run_attach"
  BY <1>4, <1>c
<1> QED
  BY <1>1, <1>4, <1>6, <1>7, StartKeeps

\* What cancelling a run does first and then.
LEMMA CancelPlanAtRun ==
  ASSUME AutomationInv, autoStatus # "deleted", NEW k \in RunKeys, Open(k),
         UNCHANGED <<autoVars, runs, job, now>>,
         NEW t \in Afterwards, pending' = CancelPlan(k) \o t
  PROVE  CallbackGoesOn' /\ Head(pending').op # "run_attach"
<1>a. PICK can, set : can = OnRun("job_cancel", k) /\ set = Settle(k, "cancelled")
  OBVIOUS
<1>b. can \in SqlStatements /\ set \in SqlStatements /\ t \in Seq(SqlStatements)
  BY <1>a, StatementsAreTyped, AfterwardsAreStatements
<1>c. can.op # "run_attach" /\ set.op # "run_attach"
  BY <1>a, OperationsOfStatements
<1>1. \/ HasJob(k) /\ pending' = <<can, set>> \o t
      \/ ~HasJob(k) /\ pending' = <<set>> \o t
  <2>1. <<can>> \o <<set>> = <<can, set>> /\ <<>> \o <<set>> = <<set>>
    BY <1>b, Joined
  <2>2. CancelPlan(k) = (IF HasJob(k) THEN <<can>> ELSE <<>>) \o <<set>>
    BY <1>a, Zenon DEF CancelPlan
  <2>3. CASE HasJob(k)
    BY <2>1, <2>2, <2>3
  <2>4. CASE ~HasJob(k)
    BY <2>1, <2>2, <2>4
  <2> QED
    BY <2>3, <2>4
<1>2. AtRun(k, t)'
  <2>1. Open(k)' /\ HasJob(k)' = HasJob(k) /\ runs' = runs /\ job' = job
    BY ReadingsHold
  <2> QED
    BY <1>1, <1>a, <2>1 DEF AtRun, OnRun, Settle, SqlStatement
<1>3. CallbackGoesOn'
  BY <1>2, ReadingsHold, Zenon DEF CallbackGoesOn
<1>4. Head(pending') = can \/ Head(pending') = set
  BY <1>1, <1>b, FirstOfThese
<1> QED
  BY <1>3, <1>4, <1>c

LEMMA CancelRunKeeps ==
  ASSUME AutomationInv, autoStatus # "deleted", NEW k \in RunKeys, CancelRun(k)
  PROVE  AutomationInv'
<1>1. Idle /\ Open(k) /\ Start(CancelPlan(k), FALSE)
  BY DEF CancelRun
<1>2. UNCHANGED <<autoVars, runs, job, now, faults>> /\ firing' \in BOOLEAN
      /\ pending' = CancelPlan(k)
  BY <1>1, StartOf
<1>3. CancelPlan(k) = CancelPlan(k) \o <<>>
  <2>1. OnRun("job_cancel", k) \in SqlStatements /\ Settle(k, "cancelled") \in SqlStatements
    BY StatementsAreTyped
  <2>2. CancelPlan(k) \in Seq(SqlStatements)
    <3>1. <<OnRun("job_cancel", k)>> \in Seq(SqlStatements) /\ <<>> \in Seq(SqlStatements)
          /\ <<Settle(k, "cancelled")>> \in Seq(SqlStatements)
      BY <2>1
    <3> QED
      BY <3>1, ConcatProperties DEF CancelPlan
  <2> QED
    BY <2>2, ConcatEmptySeq
<1>4. CallbackGoesOn' /\ Head(pending').op # "run_attach"
  BY <1>1, <1>2, <1>3, NothingAfterwards, CancelPlanAtRun
<1> QED
  BY <1>1, <1>2, <1>4, StartKeeps

LEMMA DeleteAutomationKeeps ==
  ASSUME AutomationInv, DeleteAutomation
  PROVE  AutomationInv'
<1>1. autoStatus # "deleted" /\ Idle /\ Start(<<CancelLoop, DeleteRow>>, FALSE)
  BY DEF DeleteAutomation, CancelLoop, DeleteRow
<1>2. UNCHANGED <<autoVars, runs, job, now, faults>> /\ firing' \in BOOLEAN
      /\ pending' = <<CancelLoop, DeleteRow>>
  BY <1>1, StartOf
<1>3. CallbackGoesOn'
  BY <1>2, NothingAfterwards, ReadingsHold DEF CallbackGoesOn
<1>4. Head(pending').op # "run_attach"
  BY <1>2, OperationsOfStatements
<1> QED
  BY <1>1, <1>2, <1>3, <1>4, StartKeeps

-----------------------------------------------------------------------------
(* The status of a run moves, or its job does.                             *)

\* What may be written into an open run as its status.
MayBecome(k, to) ==
  /\ to \in OpenRun => HasJob(k)
  /\ to = "completed" => HasJob(k) /\ job[JobOf(k)] = "completed"
  /\ to = "failed" /\ HasJob(k) => job[JobOf(k)] = "failed"
  /\ to = "cancelled" /\ HasJob(k) => job[JobOf(k)] \in JobEnd
  /\ to = "skipped" => LaunchesOf(k) = {}

LEMMA StatusMoves ==
  ASSUME AutomationTypes, AutomationLives, NEW k \in RunKeys, Open(k),
         NEW to \in OpenRun \cup SettledRun, MayBecome(k, to),
         runs' = [runs EXCEPT ![k].status = to],
         UNCHANGED <<autoVars, job, now, faults>>, firing' \in BOOLEAN
  PROVE  /\ AutomationTypes' /\ RowsSound' /\ SettledRunIsTrue' /\ NothingMissed'
         /\ \A q \in RunKeys : /\ runs'[q].jobId = runs[q].jobId
                               /\ runs'[q].attempt = runs[q].attempt
         /\ \A q \in RunKeys \ {k} : runs'[q] = runs[q]
         /\ runs'[k].status = to
<1>1. runs[k] \in [status : RunStatus, attempt : Attempts,
                   jobId : Attempts \cup {Never}, createdAt : 0 .. Horizon]
  BY DEF AutomationTypes
<1>2. /\ runs'[k] = [runs[k] EXCEPT !.status = to]
      /\ \A q \in RunKeys \ {k} : runs'[q] = runs[q]
  BY DEF AutomationTypes
<1>3. /\ runs'[k].status = to /\ runs'[k].attempt = runs[k].attempt
      /\ runs'[k].jobId = runs[k].jobId /\ runs'[k].createdAt = runs[k].createdAt
  BY <1>1, <1>2
<1>4. to # "none" /\ runs[k].status # "none" /\ to \in RunStatus
  BY DEF OpenRun, SettledRun, Open, RunStatus
<1>5. runs'[k] # NoRow /\ runs[k] # NoRow
  BY <1>3, <1>4 DEF NoRow
<1>6. AutomationTypes'
  <2>1. runs'[k] \in [status : RunStatus, attempt : Attempts,
                      jobId : Attempts \cup {Never}, createdAt : 0 .. Horizon]
    BY <1>1, <1>2, <1>4
  <2>2. runs' \in [RunKeys -> [status : RunStatus, attempt : Attempts,
                      jobId : Attempts \cup {Never}, createdAt : 0 .. Horizon]]
    BY <2>1 DEF AutomationTypes
  <2> QED
    BY <2>2 DEF AutomationTypes, autoVars
<1>7. RowsSound'
  <2>1. RowSound(k)'
    BY <1>3, <1>4, <1>5 DEF AutomationLives, RowsSound, RowSound, Open, HasJob, JobOf, MayBecome
  <2>2. ASSUME NEW q \in RunKeys \ {k} PROVE RowSound(q)'
    BY <1>2 DEF AutomationLives, RowsSound, RowSound, Open, HasJob, JobOf
  <2> QED
    BY <2>1, <2>2 DEF RowsSound
<1>8. SettledRunIsTrue'
  BY <1>2, <1>3 DEF AutomationLives, SettledRunIsTrue, HasJob, JobOf, LaunchesOf, MayBecome
<1>9. NothingMissed'
  <2>1. \A q \in RunKeys : /\ runs'[q] = NoRow <=> runs[q] = NoRow
                           /\ runs'[q].status # "none" <=> runs[q].status # "none"
                           /\ runs'[q].createdAt = runs[q].createdAt
    BY <1>2, <1>3, <1>4, <1>5
  <2>2. \A m \in 0 .. Horizon : OccurrenceKey(m) \in RunKeys
    BY DEF RunKeys, Occurrences
  <2>3. Occurrences \subseteq RunKeys
    BY DEF RunKeys
  <2> QED
    BY <2>1, <2>2, <2>3 DEF AutomationLives, NothingMissed, autoVars
<1> QED
  BY <1>2, <1>3, <1>6, <1>7, <1>8, <1>9

\* A live job belongs to an open run, and may end.
LEMMA LiveJobOfOpenRun ==
  ASSUME AutomationTypes, AutomationLives, NEW k \in RunKeys, HasJob(k),
         job[JobOf(k)] \in LiveJob
  PROVE  Open(k)
<1>1. JobOf(k) = <<k, runs[k].jobId>> /\ runs[k].jobId \in Attempts
  BY DEF AutomationTypes, HasJob, JobOf
<1>2. runs[k].status # "none"
  BY DEF AutomationLives, RowsSound, RowSound, HasJob, NoRow
<1>3. runs[k].status # "skipped"
  BY <1>1 DEF AutomationLives, SettledRunIsTrue, LaunchesOf, LiveJob
<1>4. runs[k].status \notin {"completed", "failed", "cancelled"}
  BY DEF AutomationLives, SettledRunIsTrue, LiveJob, JobEnd
<1>5. runs[k].status \in RunStatus
  BY DEF AutomationTypes
<1> QED
  BY <1>2, <1>3, <1>4, <1>5 DEF RunStatus, SettledRun, OpenRun, Open

LEMMA JobMoves ==
  ASSUME AutomationTypes, AutomationLives, NEW k \in RunKeys, HasJob(k),
         job[JobOf(k)] \in LiveJob, NEW s \in LiveJob \cup JobEnd,
         job' = [job EXCEPT ![JobOf(k)] = s],
         UNCHANGED <<autoVars, runs, now, faults>>, firing' \in BOOLEAN
  PROVE  /\ AutomationTypes' /\ RowsSound' /\ SettledRunIsTrue' /\ NothingMissed'
         /\ \A l \in Launches : job'[l] # "none" <=> job[l] # "none"
         /\ job'[JobOf(k)] = s
<1>1. JobOf(k) = <<k, runs[k].jobId>> /\ runs[k].jobId \in Attempts /\ JobOf(k) \in Launches
  BY DEF AutomationTypes, HasJob, JobOf, Launches
<1>2. /\ job'[JobOf(k)] = s
      /\ \A l \in Launches : l # JobOf(k) => job'[l] = job[l]
  BY <1>1 DEF AutomationTypes
<1>3. s # "none" /\ job[JobOf(k)] # "none"
  BY DEF LiveJob, JobEnd
<1>4. \A l \in Launches : job'[l] # "none" <=> job[l] # "none"
  BY <1>2, <1>3
<1>5. AutomationTypes'
  <2>1. job' \in [Launches -> {"none"} \cup LiveJob \cup JobEnd]
    BY DEF AutomationTypes
  <2> QED
    BY <2>1 DEF AutomationTypes, autoVars
<1>6. Open(k)
  BY LiveJobOfOpenRun
<1>7. \A q \in RunKeys : \A n \in Attempts : job'[<<q, n>>] # "none" <=> job[<<q, n>>] # "none"
  BY <1>4 DEF Launches
<1>8. \A q \in RunKeys : HasJob(q) => JobOf(q) \in Launches /\ JobOf(q) = <<q, runs[q].jobId>>
  BY DEF AutomationTypes, HasJob, JobOf, Launches
<1>9. \A q \in RunKeys : q # k /\ HasJob(q) => JobOf(q) # JobOf(k)
  BY <1>1, <1>8
<1>10. \A q \in RunKeys : q # k /\ HasJob(q) => job'[JobOf(q)] = job[JobOf(q)]
  BY <1>2, <1>8, <1>9
<1>11. RowsSound'
  <2>1. ASSUME NEW q \in RunKeys PROVE RowSound(q)'
    <3>1. RowSound(q)
      BY DEF AutomationLives, RowsSound
    <3>2. HasJob(q) => job'[JobOf(q)] # "none"
      BY <1>4, <1>8, <3>1 DEF RowSound
    <3> QED
      BY <3>1, <3>2, <1>7 DEF RowSound, Open, HasJob, JobOf
  <2> QED
    BY <2>1 DEF RowsSound
<1>12. SettledRunIsTrue'
  <2>1. \A q \in RunKeys : LaunchesOf(q)' = LaunchesOf(q)
    BY <1>7 DEF LaunchesOf
  <2>2. runs[k].status \notin {"completed", "failed", "cancelled", "skipped"}
    BY <1>6 DEF Open, OpenRun
  <2> QED
    BY <1>10, <2>1, <2>2 DEF AutomationLives, SettledRunIsTrue, HasJob, JobOf
<1>13. NothingMissed'
  BY DEF AutomationLives, NothingMissed, autoVars
<1> QED
  BY <1>2, <1>4, <1>5, <1>11, <1>12, <1>13

\* Between callbacks, such a step loses no job.
LEMMA IdleStepKeeps ==
  ASSUME AutomationInv, autoStatus # "deleted", Idle, UNCHANGED <<autoVars, callVars>>,
         AutomationTypes', RowsSound', SettledRunIsTrue', NothingMissed',
         \A l \in Launches : /\ job'[l] # "none" <=> job[l] # "none"
                             /\ runs'[l[1]].jobId = runs[l[1]].jobId
  PROVE  AutomationInv'
<1>1. AutomationTypes /\ AutomationLives
  BY DEF AutomationInv
<1>2. pending' = <<>> /\ pending = <<>> /\ faults' = faults /\ autoStatus' # "deleted"
  BY DEF Idle, callVars, autoVars
<1>3. Lost' \subseteq Lost
  <2>1. InFlight = {}
    BY <1>2, NothingInFlight
  <2> QED
    BY <2>1 DEF Lost
<1>4. LostToFaults'
  BY <1>1, <1>2, <1>3, FewerLost DEF AutomationLives
<1>5. CallbackGoesOn'
  BY <1>2, Zenon DEF CallbackGoesOn, Afterwards
<1> QED
  BY <1>2, <1>4, <1>5 DEF AutomationInv, AutomationLives

LEMMA MarkRunningKeeps ==
  ASSUME AutomationInv, autoStatus # "deleted", NEW k \in RunKeys, MarkRunning(k)
  PROVE  AutomationInv'
<1>1. AutomationTypes /\ AutomationLives /\ Idle /\ Open(k)
  BY DEF AutomationInv, MarkRunning
<1>2. MayBecome(k, "running") /\ "running" \in OpenRun \cup SettledRun
  BY DEF MayBecome, MarkRunning, OpenRun
<1>3. /\ runs' = [runs EXCEPT ![k].status = "running"]
      /\ UNCHANGED <<autoVars, job, now, callVars>>
  BY DEF MarkRunning, SetRun
<1>4. faults' = faults /\ firing' \in BOOLEAN
  BY <1>1, <1>3 DEF callVars, AutomationTypes
<1>5. /\ AutomationTypes' /\ RowsSound' /\ SettledRunIsTrue' /\ NothingMissed'
      /\ \A q \in RunKeys : runs'[q].jobId = runs[q].jobId
  BY <1>1, <1>2, <1>3, <1>4, StatusMoves
<1> QED
  BY <1>1, <1>3, <1>5, IdleStepKeeps DEF Launches

LEMMA SettleRunKeeps ==
  ASSUME AutomationInv, autoStatus # "deleted", NEW k \in RunKeys, SettleRun(k)
  PROVE  AutomationInv'
<1>1. AutomationTypes /\ AutomationLives /\ Idle /\ Open(k)
  BY DEF AutomationInv, SettleRun
<1>2. MayBecome(k, job[JobOf(k)]) /\ job[JobOf(k)] \in OpenRun \cup SettledRun
  BY DEF MayBecome, SettleRun, OpenRun, SettledRun, JobEnd
<1>3. /\ runs' = [runs EXCEPT ![k].status = job[JobOf(k)]]
      /\ UNCHANGED <<autoVars, job, now, callVars>>
  BY DEF SettleRun, SetRun
<1>4. faults' = faults /\ firing' \in BOOLEAN
  BY <1>1, <1>3 DEF callVars, AutomationTypes
<1>5. /\ AutomationTypes' /\ RowsSound' /\ SettledRunIsTrue' /\ NothingMissed'
      /\ \A q \in RunKeys : runs'[q].jobId = runs[q].jobId
  BY <1>1, <1>2, <1>3, <1>4, StatusMoves
<1> QED
  BY <1>1, <1>3, <1>5, IdleStepKeeps DEF Launches

LEMMA JobStepKeeps ==
  ASSUME AutomationInv, autoStatus # "deleted", Idle, NEW k \in RunKeys, HasJob(k),
         job[JobOf(k)] \in LiveJob, NEW s \in LiveJob \cup JobEnd,
         job' = [job EXCEPT ![JobOf(k)] = s], UNCHANGED <<autoVars, runs, now, callVars>>
  PROVE  AutomationInv'
<1>1. AutomationTypes /\ AutomationLives
  BY DEF AutomationInv
<1>2. faults' = faults /\ firing' \in BOOLEAN
  BY <1>1 DEF callVars, AutomationTypes
<1>3. /\ AutomationTypes' /\ RowsSound' /\ SettledRunIsTrue' /\ NothingMissed'
      /\ \A l \in Launches : job'[l] # "none" <=> job[l] # "none"
  BY <1>1, <1>2, JobMoves
<1> QED
  BY <1>3, IdleStepKeeps

LEMMA TimeOutKeeps ==
  ASSUME AutomationInv, autoStatus # "deleted", NEW k \in RunKeys, TimeOut(k)
  PROVE  AutomationInv'
<1>1. "cancelled" \in LiveJob \cup JobEnd
  BY DEF JobEnd
<1> QED
  BY <1>1, JobStepKeeps DEF TimeOut

LEMMA EngineStepKeeps ==
  ASSUME AutomationInv, autoStatus # "deleted", NEW k \in RunKeys, EngineStep(k)
  PROVE  AutomationInv'
<1>1. PICK s \in LiveJob \cup JobEnd :
        /\ job[JobOf(k)] \in LiveJob
        /\ job' = [job EXCEPT ![JobOf(k)] = s]
  BY DEF EngineStep, LiveJob
<1> QED
  BY <1>1, JobStepKeeps DEF EngineStep

-----------------------------------------------------------------------------
(* Requests of the owner, and the clock.                                   *)


LEMMA OwnerStepKeeps ==
  ASSUME AutomationInv, autoStatus # "deleted", autoStatus' \in {"active", "paused"}, Idle,
         UNCHANGED <<runs, job, now, callVars>>, schedule' \in Schedules,
         nextRunAt' \in Nat \cup {Never},
         schedule'.kind = "interval" => nextRunAt' = Never \/ nextRunAt' > now
  PROVE  AutomationInv'
<1>1. AutomationTypes /\ AutomationLives
  BY DEF AutomationInv
<1>2. pending' = <<>> /\ pending = <<>> /\ faults' = faults /\ firing' = firing
  BY DEF Idle, callVars
<1>3. AutomationTypes'
  BY <1>1, <1>2 DEF AutomationTypes
<1>4. RowsSound' /\ SettledRunIsTrue'
  BY <1>1 DEF AutomationLives, RowsSound, RowSound, SettledRunIsTrue, Open, HasJob, JobOf, LaunchesOf
<1>5. LostToFaults'
  <2>1. Lost' \subseteq Lost
    BY <1>2 DEF Lost, InFlight
  <2> QED
    BY <1>1, <1>2, <2>1, FewerLost DEF AutomationLives
<1>6. CallbackGoesOn'
  BY <1>2, Zenon DEF CallbackGoesOn, Afterwards
<1>7. NothingMissed'
  <2>1. \A e \in Occurrences : runs[e].createdAt \in 0 .. Horizon /\ runs[e].createdAt <= now
    BY <1>1 DEF RunKeys, AutomationLives, RowsSound, RowSound, AutomationTypes
  <2>2. now \in Nat /\ Never \notin 0 .. Horizon
    BY <1>1, AutomationAssumption DEF AutomationTypes
  <2> QED
    BY <2>1, <2>2 DEF NothingMissed
<1> QED
  BY <1>3, <1>4, <1>5, <1>6, <1>7 DEF AutomationInv, AutomationLives

LEMMA PauseKeeps ==
  ASSUME AutomationInv, Pause
  PROVE  AutomationInv'
<1>1. AutomationTypes /\ autoStatus # "deleted" /\ Idle
  BY DEF AutomationInv, Pause
<1>2. autoStatus' = "paused" /\ nextRunAt' = Never /\ UNCHANGED <<schedule, runs, job, now, callVars>>
  BY DEF Pause, SetAutomation
<1>3. schedule' \in Schedules
  BY <1>1, <1>2 DEF AutomationTypes
<1> QED
  BY <1>1, <1>2, <1>3, OwnerStepKeeps

LEMMA ResumeKeeps ==
  ASSUME AutomationInv, Resume
  PROVE  AutomationInv'
<1>1. AutomationTypes /\ autoStatus # "deleted" /\ Idle
  BY DEF AutomationInv, Resume
<1>2. autoStatus' = "active" /\ nextRunAt' = FirstOccurrence(schedule)
      /\ UNCHANGED <<schedule, runs, job, now, callVars>>
  BY DEF Resume, SetAutomation
<1>3. schedule \in Schedules
  BY <1>1 DEF AutomationTypes
<1>4. nextRunAt' \in Nat /\ (schedule.kind = "interval" => nextRunAt' > now)
  BY <1>1, <1>2, <1>3, FirstOccurrenceIsTyped
<1> QED
  BY <1>1, <1>2, <1>3, <1>4, OwnerStepKeeps

LEMMA EditKeeps ==
  ASSUME AutomationInv, NEW s \in Schedules, Edit(s)
  PROVE  AutomationInv'
<1>1. AutomationTypes /\ autoStatus \in {"active", "paused"} /\ autoStatus # "deleted" /\ Idle
  BY DEF AutomationInv, AutomationTypes, Edit
<1>2. /\ schedule' = s /\ nextRunAt' = (IF autoStatus = "active" THEN FirstOccurrence(s) ELSE Never)
      /\ UNCHANGED <<autoStatus, runs, job, now, callVars>>
  BY DEF Edit
<1>3. FirstOccurrence(s) \in Nat /\ (s.kind = "interval" => FirstOccurrence(s) > now)
  BY <1>1, FirstOccurrenceIsTyped
<1>4. /\ nextRunAt' \in Nat \cup {Never}
      /\ schedule'.kind = "interval" => nextRunAt' = Never \/ nextRunAt' > now
  BY <1>2, <1>3
<1> QED
  BY <1>1, <1>2, <1>4, OwnerStepKeeps

LEMMA TickKeeps ==
  ASSUME AutomationInv, Tick
  PROVE  AutomationInv'
<1>1. AutomationTypes /\ AutomationLives /\ autoStatus # "deleted" /\ Idle
  BY DEF AutomationInv, Tick
<1>2. now' = now + 1 /\ now < Horizon /\ UNCHANGED <<autoVars, runs, job, callVars>>
  BY DEF Tick
<1>3. pending' = <<>> /\ pending = <<>> /\ faults' = faults /\ firing' = firing
  BY <1>1, <1>2 DEF Idle, callVars
<1>4. AutomationTypes' /\ now \in Nat /\ now' \in Nat
  BY <1>1, <1>2, <1>3, AutomationAssumption DEF AutomationTypes, autoVars
<1>5. RowsSound' /\ SettledRunIsTrue'
  <2>1. \A k \in RunKeys : runs[k].createdAt \in 0 .. Horizon
    BY <1>1 DEF AutomationTypes
  <2> QED
    BY <1>1, <1>2, <1>4, <2>1
       DEF AutomationLives, RowsSound, RowSound, SettledRunIsTrue, Open, HasJob, JobOf, LaunchesOf
<1>6. LostToFaults'
  <2>1. Lost' \subseteq Lost
    BY <1>2, <1>3 DEF Lost, InFlight
  <2> QED
    BY <1>1, <1>3, <2>1, FewerLost DEF AutomationLives
<1>7. CallbackGoesOn'
  BY <1>3, Zenon DEF CallbackGoesOn, Afterwards
<1>8. NothingMissed'
  BY <1>1, <1>2 DEF AutomationLives, NothingMissed, autoVars
<1>9. autoStatus' # "deleted"
  BY <1>1, <1>2 DEF autoVars
<1> QED
  BY <1>4, <1>5, <1>6, <1>7, <1>8, <1>9 DEF AutomationInv, AutomationLives

-----------------------------------------------------------------------------
(* Statements.                                                             *)

LEMMA WhatIsExecuted ==
  ASSUME Statement
  PROVE  /\ pending # <<>>
         /\ Head(pending).op = "run_insert" => InsertRun(Head(pending).run)
         /\ Head(pending).op = "run_settle"
              => SettleAutomationRun(Head(pending).run, Head(pending).to)
         /\ Head(pending).op = "run_bump" => BumpRunAttempt(Head(pending).run)
         /\ Head(pending).op = "job_enqueue" => EnqueueWorkflow(Head(pending).run)
         /\ Head(pending).op = "run_attach" => AttachRunExecution(Head(pending).run)
         /\ Head(pending).op = "job_cancel" => CancelJob(Head(pending).run)
         /\ Head(pending).op = "advance" => UpdateAutomation(autoStatus, Head(pending).at)
         /\ Head(pending).op = "set_status"
              => UpdateAutomation(Head(pending).to, Head(pending).at)
         /\ Head(pending).op = "cancel_open" => CancelOpenRuns
         /\ Head(pending).op = "delete" => DeleteAutomationRow
<1>1. PICK s : s = Head(pending)
  OBVIOUS
<1>2. /\ pending # <<>>
      /\ \/ s.op = "run_insert"  /\ InsertRun(s.run)
         \/ s.op = "run_settle"  /\ SettleAutomationRun(s.run, s.to)
         \/ s.op = "run_bump"    /\ BumpRunAttempt(s.run)
         \/ s.op = "job_enqueue" /\ EnqueueWorkflow(s.run)
         \/ s.op = "run_attach"  /\ AttachRunExecution(s.run)
         \/ s.op = "job_cancel"  /\ CancelJob(s.run)
         \/ s.op = "advance"     /\ UpdateAutomation(autoStatus, s.at)
         \/ s.op = "set_status"  /\ UpdateAutomation(s.to, s.at)
         \/ s.op = "cancel_open" /\ CancelOpenRuns
         \/ s.op = "delete"      /\ DeleteAutomationRow
  BY <1>1, Zenon DEF Statement
<1> QED
  BY <1>1, <1>2

LEMMA RunsOfStatements ==
  ASSUME NEW k, NEW op, NEW to, NEW x
  PROVE  /\ OnRun(op, k).run = k /\ Settle(k, to).run = k /\ Settle(k, to).to = to
         /\ AdvanceTo(x).at = x /\ PauseRow.to = "paused" /\ PauseRow.at = Never
  BY DEF OnRun, Settle, AdvanceTo, PauseRow, OnAutomation, SqlStatement

LEMMA DoneKeeps ==
  ASSUME AutomationTypes, Done
  PROVE  /\ pending' = Tail(pending) /\ firing' \in BOOLEAN
         /\ now' = now /\ faults' = faults
  BY DEF Done

\* What a statement leaves, put together.
LEMMA StatementLeaves ==
  ASSUME AutomationLives, AutomationTypes, autoStatus' # "deleted",
         AutomationTypes', RowsSound', SettledRunIsTrue', NothingMissed',
         CallbackGoesOn', Lost' \subseteq Lost, faults' = faults
  PROVE  AutomationInv'
<1>1. LostToFaults'
  BY FewerLost DEF AutomationLives
<1> QED
  BY <1>1 DEF AutomationInv, AutomationLives

LEMMA InsertRunKeeps ==
  ASSUME AutomationTypes, AutomationLives, NEW k \in RunKeys, Insertable(k), InsertRun(k),
         Head(pending).op = "run_insert"
  PROVE  /\ AutomationTypes' /\ RowsSound' /\ SettledRunIsTrue' /\ NothingMissed'
         /\ Lost' \subseteq Lost /\ Launchable(k, 1)' /\ runs'[k].attempt = 1
<1>1. /\ runs' = [runs EXCEPT ![k] = [NoRow EXCEPT !.status = "queued", !.createdAt = now]]
      /\ UNCHANGED <<autoVars, job>> /\ Done
  BY DEF InsertRun
<1>2. firing' \in BOOLEAN /\ now' = now /\ faults' = faults
  BY <1>1, DoneKeeps
<1>3. runs'[k] = [status |-> "queued", attempt |-> 1, jobId |-> Never, createdAt |-> now]
      /\ \A q \in RunKeys \ {k} : runs'[q] = runs[q]
  BY <1>1 DEF AutomationTypes, NoRow
<1>4. 1 \in Attempts /\ now \in 0 .. Horizon /\ Never \notin Attempts
  BY AutomationAssumption DEF Attempts, AutomationTypes
<1>5. AutomationTypes'
  <2>1. runs'[k] \in [status : RunStatus, attempt : Attempts,
                      jobId : Attempts \cup {Never}, createdAt : 0 .. Horizon]
    BY <1>3, <1>4 DEF RunStatus, OpenRun
  <2>2. runs' \in [RunKeys -> [status : RunStatus, attempt : Attempts,
                      jobId : Attempts \cup {Never}, createdAt : 0 .. Horizon]]
    BY <1>1, <1>3, <2>1 DEF AutomationTypes
  <2> QED
    BY <1>1, <1>2, <2>2 DEF AutomationTypes, autoVars
<1>6. \A n \in Attempts : job[<<k, n>>] = "none"
  BY DEF AutomationLives, RowsSound, RowSound, Insertable
<1>7. RowsSound'
  <2>1. RowSound(k)'
    BY <1>1, <1>2, <1>3, <1>4, <1>6, AutomationAssumption
       DEF RowSound, NoRow, Open, OpenRun, HasJob, AutomationTypes
  <2>2. ASSUME NEW q \in RunKeys \ {k} PROVE RowSound(q)'
    BY <1>1, <1>2, <1>3 DEF AutomationLives, RowsSound, RowSound, Open, HasJob, JobOf
  <2> QED
    BY <2>1, <2>2 DEF RowsSound
<1>8. SettledRunIsTrue'
  BY <1>1, <1>3 DEF AutomationLives, SettledRunIsTrue, HasJob, JobOf, LaunchesOf
<1>9. NothingMissed'
  <2>1. runs'[k] # NoRow
    BY <1>3 DEF NoRow
  <2>2. CASE k \in Occurrences
    BY <1>1, <2>1, <2>2 DEF NothingMissed, Insertable, autoVars
  <2>3. CASE k \notin Occurrences
    <3>1. \A e \in Occurrences : runs'[e] = runs[e]
      BY <1>3, <2>3 DEF RunKeys
    <3>2. \A m \in 0 .. Horizon : OccurrenceKey(m) \in Occurrences
      BY DEF Occurrences
    <3> QED
      BY <1>1, <3>1, <3>2 DEF AutomationLives, NothingMissed, autoVars
  <2> QED
    BY <2>2, <2>3
<1>10. Lost' \subseteq Lost
  <2>1. InFlight = {}
    BY NothingInFlight
  <2>2. ASSUME NEW l \in Launches, job[l] # "none" PROVE l[1] \in RunKeys \ {k}
    <3>1. l[1] \in RunKeys /\ l[2] \in Attempts /\ l = <<l[1], l[2]>>
      BY DEF Launches
    <3> QED
      BY <1>6, <2>2, <3>1
  <2> QED
    BY <1>1, <1>3, <2>1, <2>2 DEF Lost
<1>11. Launchable(k, 1)'
  <2>1. runs'[k].status = "queued" /\ runs'[k].jobId = Never
    BY <1>3
  <2> QED
    BY <1>1, <1>6, <2>1 DEF Launchable, HasJob
<1> QED
  BY <1>3, <1>5, <1>7, <1>8, <1>9, <1>10, <1>11

LEMMA SettleStatementKeeps ==
  ASSUME AutomationTypes, AutomationLives, NEW k \in RunKeys, Open(k),
         NEW to \in SettledRun, MayBecome(k, to), SettleAutomationRun(k, to),
         Head(pending).op = "run_settle"
  PROVE  /\ AutomationTypes' /\ RowsSound' /\ SettledRunIsTrue' /\ NothingMissed'
         /\ Lost' \subseteq Lost
<1>1. /\ runs' = [runs EXCEPT ![k].status = to]
      /\ UNCHANGED <<autoVars, job>> /\ Done
  BY DEF SettleAutomationRun
<1>2. firing' \in BOOLEAN /\ now' = now /\ faults' = faults
  BY <1>1, DoneKeeps
<1>3. /\ AutomationTypes' /\ RowsSound' /\ SettledRunIsTrue' /\ NothingMissed'
      /\ \A q \in RunKeys : runs'[q].jobId = runs[q].jobId
  BY <1>1, <1>2, StatusMoves
<1>4. Lost' \subseteq Lost
  <2>1. InFlight = {}
    BY NothingInFlight
  <2> QED
    BY <1>1, <1>3, <2>1 DEF Lost, Launches
<1> QED
  BY <1>3, <1>4

LEMMA BumpRunAttemptKeeps ==
  ASSUME AutomationTypes, AutomationLives, NEW k \in RunKeys,
         Launchable(k, runs[k].attempt + 1), runs[k].attempt < MaxRecoveryAttempts,
         BumpRunAttempt(k), Head(pending).op = "run_bump"
  PROVE  /\ AutomationTypes' /\ RowsSound' /\ SettledRunIsTrue' /\ NothingMissed'
         /\ Lost' \subseteq Lost /\ Launchable(k, runs[k].attempt)'
<1>1. /\ runs' = [runs EXCEPT ![k].attempt = @ + 1]
      /\ UNCHANGED <<autoVars, job>> /\ Done
  BY DEF BumpRunAttempt
<1>2. firing' \in BOOLEAN /\ now' = now /\ faults' = faults
  BY <1>1, DoneKeeps
<1>3. runs[k] \in [status : RunStatus, attempt : Attempts,
                   jobId : Attempts \cup {Never}, createdAt : 0 .. Horizon]
  BY DEF AutomationTypes
<1>4. /\ runs'[k] = [runs[k] EXCEPT !.attempt = runs[k].attempt + 1]
      /\ \A q \in RunKeys \ {k} : runs'[q] = runs[q]
  BY <1>1 DEF AutomationTypes
<1>5. /\ runs'[k].status = runs[k].status /\ runs'[k].attempt = runs[k].attempt + 1
      /\ runs'[k].jobId = runs[k].jobId /\ runs'[k].createdAt = runs[k].createdAt
      /\ runs[k].attempt + 1 \in Attempts
  BY <1>3, <1>4, AutomationAssumption DEF Attempts
<1>6. runs[k].status = "queued" /\ runs'[k] # NoRow /\ runs[k] # NoRow
  BY <1>5 DEF Launchable, NoRow
<1>7. AutomationTypes'
  <2>1. runs'[k] \in [status : RunStatus, attempt : Attempts,
                      jobId : Attempts \cup {Never}, createdAt : 0 .. Horizon]
    BY <1>3, <1>4, <1>5
  <2>2. runs' \in [RunKeys -> [status : RunStatus, attempt : Attempts,
                      jobId : Attempts \cup {Never}, createdAt : 0 .. Horizon]]
    BY <1>1, <2>1 DEF AutomationTypes
  <2> QED
    BY <1>1, <1>2, <2>2 DEF AutomationTypes, autoVars
<1>8. RowsSound'
  <2>1. RowSound(k)'
    <3>1. \A n \in Attempts : n > runs[k].attempt + 1 => job[<<k, n>>] = "none"
      BY <1>3 DEF Launchable, Attempts
    <3> QED
      BY <1>1, <1>2, <1>5, <1>6, <3>1
         DEF AutomationLives, RowsSound, RowSound, Open, HasJob, JobOf, Launchable
  <2>2. ASSUME NEW q \in RunKeys \ {k} PROVE RowSound(q)'
    BY <1>1, <1>2, <1>4 DEF AutomationLives, RowsSound, RowSound, Open, HasJob, JobOf
  <2> QED
    BY <2>1, <2>2 DEF RowsSound
<1>9. SettledRunIsTrue'
  BY <1>1, <1>4, <1>5 DEF AutomationLives, SettledRunIsTrue, HasJob, JobOf, LaunchesOf
<1>10. NothingMissed'
  <2>1. \A q \in RunKeys : /\ runs'[q] = NoRow <=> runs[q] = NoRow
                           /\ runs'[q].status = runs[q].status
                           /\ runs'[q].createdAt = runs[q].createdAt
    BY <1>4, <1>5, <1>6
  <2>2. \A m \in 0 .. Horizon : OccurrenceKey(m) \in RunKeys
    BY DEF RunKeys, Occurrences
  <2>3. Occurrences \subseteq RunKeys
    BY DEF RunKeys
  <2> QED
    BY <1>1, <2>1, <2>2, <2>3 DEF AutomationLives, NothingMissed, autoVars
<1>11. Lost' \subseteq Lost
  <2>1. InFlight = {}
    BY NothingInFlight
  <2>2. \A q \in RunKeys : runs'[q].jobId = runs[q].jobId
    BY <1>4, <1>5
  <2> QED
    BY <1>1, <2>1, <2>2 DEF Lost, Launches
<1>12. Launchable(k, runs[k].attempt)'
  BY <1>1, <1>5 DEF Launchable, HasJob
<1> QED
  BY <1>7, <1>8, <1>9, <1>10, <1>11, <1>12

LEMMA EnqueueWorkflowKeeps ==
  ASSUME AutomationTypes, AutomationLives, NEW k \in RunKeys,
         Launchable(k, runs[k].attempt), EnqueueWorkflow(k), Head(pending).op = "job_enqueue",
         pending' # <<>>, Head(pending') = OnRun("run_attach", k)
  PROVE  /\ AutomationTypes' /\ RowsSound' /\ SettledRunIsTrue' /\ NothingMissed'
         /\ Lost' \subseteq Lost /\ Attachable(k)'
<1>1. PICK n : n = runs[k].attempt
  OBVIOUS
<1>2. n \in Attempts /\ <<k, n>> \in Launches
  BY <1>1 DEF AutomationTypes, Launches
<1>3. /\ job' = [job EXCEPT ![<<k, n>>] = "queued"]
      /\ UNCHANGED <<autoVars, runs>> /\ Done
  BY <1>1 DEF EnqueueWorkflow
<1>4. firing' \in BOOLEAN /\ now' = now /\ faults' = faults
  BY <1>3, DoneKeeps
<1>5. /\ job'[<<k, n>>] = "queued"
      /\ \A l \in Launches : l # <<k, n>> => job'[l] = job[l]
  BY <1>2, <1>3 DEF AutomationTypes
<1>6. \A i \in Attempts : i >= n => job[<<k, i>>] = "none"
  BY <1>1 DEF Launchable
<1>7. AutomationTypes'
  <2>1. job' \in [Launches -> {"none"} \cup LiveJob \cup JobEnd]
    BY <1>3 DEF AutomationTypes, LiveJob
  <2> QED
    BY <1>3, <1>4, <2>1 DEF AutomationTypes, autoVars
<1>8. \A q \in RunKeys : \A i \in Attempts :
         <<q, i>> \in Launches /\ (q # k \/ i # n => job'[<<q, i>>] = job[<<q, i>>])
  BY <1>5 DEF Launches
<1>9. runs[k].status = "queued" /\ ~HasJob(k) /\ runs[k] # NoRow
  BY DEF Launchable, NoRow
<1>10. \A q \in RunKeys : HasJob(q) => /\ q # k /\ runs[q].jobId \in Attempts
                                       /\ JobOf(q) = <<q, runs[q].jobId>>
                                       /\ job'[JobOf(q)] = job[JobOf(q)]
  BY <1>8, <1>9 DEF HasJob, JobOf, AutomationTypes
<1>11. RowsSound'
  <2>1. ASSUME NEW q \in RunKeys PROVE RowSound(q)'
    <3>1. RowSound(q)
      BY DEF AutomationLives, RowsSound
    <3>2. n \in Nat
      BY <1>2 DEF Attempts
    <3>3. CASE q = k
      BY <1>1, <1>3, <1>4, <1>8, <1>9, <3>1, <3>2, <3>3 DEF RowSound, Open, HasJob, Attempts
    <3>4. CASE q # k
      BY <1>3, <1>4, <1>8, <1>10, <3>1, <3>4 DEF RowSound, Open, HasJob, JobOf
    <3> QED
      BY <3>3, <3>4
  <2> QED
    BY <2>1 DEF RowsSound
<1>12. SettledRunIsTrue'
  <2>1. ASSUME NEW q \in RunKeys, q # k PROVE LaunchesOf(q)' = LaunchesOf(q)
    BY <1>8, <2>1 DEF LaunchesOf
  <2> QED
    BY <1>3, <1>9, <1>10, <2>1 DEF AutomationLives, SettledRunIsTrue, HasJob, JobOf
<1>13. NothingMissed'
  BY <1>3 DEF AutomationLives, NothingMissed, autoVars
<1>14. Lost' \subseteq Lost
  <2>1. InFlight = {}
    BY NothingInFlight
  <2>2. <<k, n>> \in InFlight'
    BY <1>1, <1>2, <1>3 DEF InFlight
  <2>3. ASSUME NEW l \in Lost' PROVE l \in Lost
    <3>1. l \in Launches /\ l # <<k, n>>
      BY <2>2 DEF Lost
    <3> QED
      BY <1>3, <1>5, <2>1, <3>1 DEF Lost
  <2> QED
    BY <2>3
<1>15. Attachable(k)'
  BY <1>1, <1>3, <1>5, <1>9 DEF Attachable, HasJob
<1> QED
  BY <1>7, <1>11, <1>12, <1>13, <1>14, <1>15

LEMMA AttachRunExecutionKeeps ==
  ASSUME AutomationTypes, AutomationLives, NEW k \in RunKeys, Attachable(k),
         AttachRunExecution(k), pending # <<>>, Head(pending) = OnRun("run_attach", k)
  PROVE  /\ AutomationTypes' /\ RowsSound' /\ SettledRunIsTrue' /\ NothingMissed'
         /\ Lost' \subseteq Lost
<1>1. PICK n : n = runs[k].attempt
  OBVIOUS
<1>2. n \in Attempts /\ <<k, n>> \in Launches
  BY <1>1 DEF AutomationTypes, Launches
<1>3. /\ runs' = [runs EXCEPT ![k].jobId = n]
      /\ UNCHANGED <<autoVars, job>> /\ Done
  BY <1>1 DEF AttachRunExecution, Attachable
<1>4. firing' \in BOOLEAN /\ now' = now /\ faults' = faults
  BY <1>3, DoneKeeps
<1>5. runs[k] \in [status : RunStatus, attempt : Attempts,
                   jobId : Attempts \cup {Never}, createdAt : 0 .. Horizon]
  BY DEF AutomationTypes
<1>6. /\ runs'[k] = [runs[k] EXCEPT !.jobId = n]
      /\ \A q \in RunKeys \ {k} : runs'[q] = runs[q]
  BY <1>3 DEF AutomationTypes
<1>7. /\ runs'[k].status = "queued" /\ runs'[k].attempt = n /\ runs'[k].jobId = n
      /\ runs'[k].createdAt = runs[k].createdAt /\ runs[k].status = "queued"
  BY <1>1, <1>5, <1>6 DEF Attachable
<1>8. runs'[k] # NoRow /\ runs[k] # NoRow
  BY <1>7 DEF NoRow
<1>9. AutomationTypes'
  <2>1. runs'[k] \in [status : RunStatus, attempt : Attempts,
                      jobId : Attempts \cup {Never}, createdAt : 0 .. Horizon]
    BY <1>2, <1>5, <1>6
  <2>2. runs' \in [RunKeys -> [status : RunStatus, attempt : Attempts,
                      jobId : Attempts \cup {Never}, createdAt : 0 .. Horizon]]
    BY <1>3, <2>1 DEF AutomationTypes
  <2> QED
    BY <1>3, <1>4, <2>2 DEF AutomationTypes, autoVars
<1>10. RowsSound'
  <2>1. RowSound(k)'
    <3>1. job[<<k, n>>] # "none"
      BY <1>1 DEF Attachable
    <3> QED
      BY <1>1, <1>3, <1>4, <1>7, <1>8, <3>1
         DEF AutomationLives, RowsSound, RowSound, Open, HasJob, JobOf
  <2>2. ASSUME NEW q \in RunKeys \ {k} PROVE RowSound(q)'
    BY <1>3, <1>4, <1>6 DEF AutomationLives, RowsSound, RowSound, Open, HasJob, JobOf
  <2> QED
    BY <2>1, <2>2 DEF RowsSound
<1>11. SettledRunIsTrue'
  BY <1>3, <1>6, <1>7 DEF AutomationLives, SettledRunIsTrue, HasJob, JobOf, LaunchesOf
<1>12. NothingMissed'
  <2>1. \A q \in RunKeys : /\ runs'[q] = NoRow <=> runs[q] = NoRow
                           /\ runs'[q].status = runs[q].status
                           /\ runs'[q].createdAt = runs[q].createdAt
    BY <1>6, <1>7, <1>8
  <2>2. \A m \in 0 .. Horizon : OccurrenceKey(m) \in RunKeys
    BY DEF RunKeys, Occurrences
  <2>3. Occurrences \subseteq RunKeys
    BY DEF RunKeys
  <2> QED
    BY <1>3, <2>1, <2>2, <2>3 DEF AutomationLives, NothingMissed, autoVars
<1>13. Lost' \subseteq Lost
  <2>1. ASSUME NEW l \in Lost' PROVE l \in Lost
    <3>1. l \in Launches /\ l[1] \in RunKeys /\ job[l] # "none" /\ runs'[l[1]].jobId # l[2]
      BY <1>3 DEF Lost, Launches
    <3>2. CASE l[1] = k
      <4>1. l[2] # n /\ l[2] # runs[k].jobId
        <5>1. l[2] \in Attempts /\ Never \notin Attempts
          BY <3>1, AutomationAssumption DEF Launches, Attempts
        <5>2. runs[k].jobId = Never
          BY DEF Attachable, HasJob
        <5> QED
          BY <1>7, <3>1, <3>2, <5>1, <5>2
      <4> QED
        BY <1>1, <3>1, <3>2, <4>1 DEF Lost, InFlight
    <3>3. CASE l[1] # k
      <4>1. OnRun("run_attach", l[1]) # OnRun("run_attach", k)
        BY <3>3, RunsOfStatements
      <4>2. l \notin InFlight
        BY <4>1 DEF InFlight
      <4> QED
        BY <1>6, <3>1, <3>3, <4>2 DEF Lost
    <3> QED
      BY <3>2, <3>3
  <2> QED
    BY <2>1
<1> QED
  BY <1>9, <1>10, <1>11, <1>12, <1>13

LEMMA CancelJobKeeps ==
  ASSUME AutomationTypes, AutomationLives, NEW k \in RunKeys, Open(k), HasJob(k),
         CancelJob(k), Head(pending).op = "job_cancel"
  PROVE  /\ AutomationTypes' /\ RowsSound' /\ SettledRunIsTrue' /\ NothingMissed'
         /\ Lost' \subseteq Lost /\ job'[JobOf(k)] \in JobEnd
         /\ UNCHANGED <<autoVars, runs>>
<1>1. /\ job' = IF job[JobOf(k)] \in LiveJob
                THEN [job EXCEPT ![JobOf(k)] = "cancelled"] ELSE job
      /\ UNCHANGED <<autoVars, runs>> /\ Done
  BY DEF CancelJob
<1>2. firing' \in BOOLEAN /\ now' = now /\ faults' = faults
  BY <1>1, DoneKeeps
<1>3. InFlight = {}
  BY NothingInFlight
<1>4. CASE job[JobOf(k)] \in LiveJob
  <2>1. /\ AutomationTypes' /\ RowsSound' /\ SettledRunIsTrue' /\ NothingMissed'
        /\ \A l \in Launches : job'[l] # "none" <=> job[l] # "none"
        /\ job'[JobOf(k)] = "cancelled"
    <3>1. "cancelled" \in LiveJob \cup JobEnd
      BY DEF JobEnd
    <3> QED
      BY <1>1, <1>2, <1>4, <3>1, JobMoves
  <2> QED
    BY <1>1, <1>3, <2>1 DEF Lost, JobEnd
<1>5. CASE job[JobOf(k)] \notin LiveJob
  <2>1. job' = job
    BY <1>1, <1>5
  <2>2. job[JobOf(k)] \in JobEnd
    <3>1. JobOf(k) \in Launches
      BY DEF AutomationTypes, HasJob, JobOf, Launches
    <3>2. job[JobOf(k)] # "none"
      BY DEF AutomationLives, RowsSound, RowSound
    <3> QED
      BY <1>5, <3>1, <3>2 DEF AutomationTypes
  <2>3. AutomationTypes'
    BY <1>1, <1>2, <2>1 DEF AutomationTypes, autoVars
  <2>4. RowsSound' /\ SettledRunIsTrue' /\ NothingMissed'
    BY <1>1, <1>2, <2>1 DEF AutomationLives, RowsSound, RowSound, SettledRunIsTrue, NothingMissed,
                            Open, HasJob, JobOf, LaunchesOf, autoVars
  <2> QED
    BY <1>1, <1>3, <2>1, <2>2, <2>3, <2>4 DEF Lost
<1> QED
  BY <1>4, <1>5

LEMMA UpdateAutomationKeeps ==
  ASSUME AutomationTypes, AutomationLives, NEW s \in {"active", "paused"}, NEW x \in Nat \cup {Never},
         x = Never \/ x \in NextTimes, UpdateAutomation(s, x), Head(pending).op # "run_attach"
  PROVE  /\ AutomationTypes' /\ RowsSound' /\ SettledRunIsTrue' /\ NothingMissed'
         /\ Lost' \subseteq Lost
<1>1. /\ autoStatus' = s /\ nextRunAt' = x
      /\ UNCHANGED <<schedule, runs, job>> /\ Done
  BY DEF UpdateAutomation
<1>2. firing' \in BOOLEAN /\ now' = now /\ faults' = faults
  BY <1>1, DoneKeeps
<1>3. AutomationTypes'
  BY <1>1, <1>2 DEF AutomationTypes
<1>4. RowsSound' /\ SettledRunIsTrue'
  BY <1>1, <1>2 DEF AutomationLives, RowsSound, RowSound, SettledRunIsTrue, Open, HasJob, JobOf, LaunchesOf
<1>5. NothingMissed'
  <2>1. \A e \in Occurrences : runs[e].createdAt \in 0 .. Horizon /\ runs[e].createdAt <= now
    BY DEF RunKeys, AutomationLives, RowsSound, RowSound, AutomationTypes
  <2>2. now \in Nat /\ Never \notin 0 .. Horizon
    BY AutomationAssumption DEF AutomationTypes
  <2>3. schedule.kind = "interval" => x = Never \/ x > now
    BY DEF NextTimes
  <2> QED
    BY <1>1, <1>2, <2>1, <2>2, <2>3 DEF NothingMissed
<1>6. Lost' \subseteq Lost
  <2>1. InFlight = {}
    BY NothingInFlight
  <2> QED
    BY <1>1, <2>1 DEF Lost
<1> QED
  BY <1>3, <1>4, <1>5, <1>6

\* Once its runs are settled, an automation has no live job but lost ones.
LEMMA UnownedIsLost ==
  ASSUME AutomationTypes, AutomationLives, InFlight = {},
         NEW l \in Launches, job[l] \in LiveJob, ~Owned(l)
  PROVE  l \in Lost
<1>1. l[1] \in RunKeys /\ l[2] \in Attempts /\ l = <<l[1], l[2]>> /\ Never \notin Attempts
  BY AutomationAssumption DEF Launches, Attempts
<1>2. CASE runs[l[1]].jobId = l[2]
  <2>1. HasJob(l[1]) /\ JobOf(l[1]) = l
    BY <1>1, <1>2 DEF HasJob, JobOf
  <2>2. Open(l[1])
    BY <1>1, <2>1, LiveJobOfOpenRun
  <2> QED
    BY <1>2, <2>2 DEF Owned
<1>3. CASE runs[l[1]].jobId # l[2]
  BY <1>3 DEF Lost, LiveJob
<1> QED
  BY <1>2, <1>3

\* The statement that attaches comes up for the run that waits for it.
LEMMA OnlyAttachable ==
  ASSUME CallbackGoesOn, NEW k \in RunKeys, pending # <<>>,
         Head(pending) = OnRun("run_attach", k)
  PROVE  Attachable(k)
<1>1. Head(pending).op = "run_attach" /\ Head(pending).run = k
  BY OperationsOfStatements, RunsOfStatements
<1>2. CASE pending = <<DeleteRow>>
  BY <1>1, <1>2, OperationsOfStatements
<1>3. CASE pending \in Afterwards
  <2>1. \/ pending = <<PauseRow>> \/ pending = <<CancelLoop, DeleteRow>>
        \/ \E x \in NextTimes : pending = <<AdvanceTo(x)>>
    BY <1>3, Zenon DEF Afterwards
  <2> QED
    BY <1>1, <2>1, OperationsOfStatements
<1>4. ASSUME NEW q \in RunKeys, NEW t \in Afterwards, AtRun(q, t) PROVE Attachable(k)
  <2>a. PICK ins, skip, enq, att, bump, fail, can, set :
          /\ ins = OnRun("run_insert", q) /\ skip = Settle(q, "skipped")
          /\ enq = OnRun("job_enqueue", q) /\ att = OnRun("run_attach", q)
          /\ bump = OnRun("run_bump", q) /\ fail = Settle(q, "failed")
          /\ can = OnRun("job_cancel", q) /\ set = Settle(q, "cancelled")
    OBVIOUS
  <2>b. /\ ins \in SqlStatements /\ skip \in SqlStatements /\ enq \in SqlStatements
        /\ att \in SqlStatements /\ bump \in SqlStatements /\ fail \in SqlStatements
        /\ can \in SqlStatements /\ set \in SqlStatements /\ t \in Seq(SqlStatements)
    BY <2>a, StatementsAreTyped, AfterwardsAreStatements
  <2>1. \/ pending = <<ins, skip>> \o t \/ pending = <<skip>> \o t
        \/ pending = <<ins, enq, att>> \o t \/ pending = <<bump, enq, att>> \o t
        \/ pending = <<enq, att>> \o t
        \/ pending = <<att>> \o t /\ Attachable(q)
        \/ pending = <<fail>> \o t
        \/ pending = <<can, set>> \o t \/ pending = <<set>> \o t
    BY <1>4, <2>a, Zenon DEF AtRun
  <2>2. \/ Head(pending) \in {ins, skip, enq, bump, fail, can, set}
        \/ Head(pending) = att /\ Attachable(q)
    BY <2>1, <2>b, FirstOfThese
  <2>3. \A s \in {ins, skip, enq, bump, fail, can, set} : s.op # "run_attach"
    BY <2>a, OperationsOfStatements
  <2>4. att.run = q
    BY <2>a, RunsOfStatements
  <2> QED
    BY <1>1, <2>2, <2>3, <2>4
<1> QED
  BY <1>2, <1>3, <1>4 DEF CallbackGoesOn

\* A run has its job and what faults lost.
LEMMA LaunchesAreCounted ==
  ASSUME AutomationTypes, AutomationLives
  PROVE  LaunchedOnce
<1>1. SUFFICES ASSUME NEW k \in RunKeys PROVE Cardinality(LaunchesOf(k)) <= 1 + faults
  BY DEF LaunchedOnce
<1>2. PICK n : n = IF HasJob(k) THEN runs[k].jobId ELSE runs[k].attempt
  OBVIOUS
<1>3. \A i \in LaunchesOf(k) : i # n => <<k, i>> \in Lost
  <2>1. SUFFICES ASSUME NEW i \in LaunchesOf(k), i # n PROVE <<k, i>> \in Lost
    OBVIOUS
  <2>2. i \in Attempts /\ job[<<k, i>>] # "none" /\ <<k, i>> \in Launches
    BY DEF LaunchesOf, Launches
  <2>3. runs[k].jobId # i
    BY <1>2, <2>1, <2>2, AutomationAssumption DEF HasJob, Attempts
  <2>4. <<k, i>> \notin InFlight
    <3>1. SUFFICES ASSUME <<k, i>> \in InFlight PROVE FALSE
      OBVIOUS
    <3>2. pending # <<>> /\ Head(pending) = OnRun("run_attach", k) /\ i = runs[k].attempt
      BY <3>1 DEF InFlight
    <3>3. ~HasJob(k)
      BY <3>2, OnlyAttachable DEF AutomationLives, Attachable
    <3> QED
      BY <1>2, <2>1, <3>2, <3>3
  <2> QED
    BY <2>2, <2>3, <2>4 DEF Lost
<1>4. PICK f : f = [i \in LaunchesOf(k) \ {n} |-> <<k, i>>]
  OBVIOUS
<1>5. f \in Injection(LaunchesOf(k) \ {n}, Lost)
  <2>1. f \in [LaunchesOf(k) \ {n} -> Lost]
    BY <1>3, <1>4
  <2>2. \A i, j \in LaunchesOf(k) \ {n} : f[i] = f[j] => i = j
    BY <1>4
  <2> QED
    BY <1>4, <2>1, <2>2 DEF Injection, IsInjective
<1>6. IsFiniteSet(LaunchesOf(k) \ {n}) /\ Cardinality(LaunchesOf(k) \ {n}) <= Cardinality(Lost)
  BY <1>5, LostIsFinite, FS_Injection
<1>7. IsFiniteSet(LaunchesOf(k))
  <2>1. LaunchesOf(k) \subseteq (LaunchesOf(k) \ {n}) \cup {n}
    OBVIOUS
  <2> QED
    BY <1>6, <2>1, FS_AddElement, FS_Subset
<1>8. Cardinality(LaunchesOf(k)) <= Cardinality(LaunchesOf(k) \ {n}) + 1
      /\ Cardinality(LaunchesOf(k)) \in Nat /\ Cardinality(LaunchesOf(k) \ {n}) \in Nat
  BY <1>6, <1>7, FS_RemoveElement, FS_CardinalityType
<1>9. Cardinality(Lost) \in Nat /\ Cardinality(Lost) <= faults /\ faults \in Nat
  BY LostIsFinite DEF AutomationLives, LostToFaults, AutomationTypes
<1> QED
  BY <1>6, <1>8, <1>9

-----------------------------------------------------------------------------
(* Every statement leaves what the next one relies on.                     *)

LEMMA RunStatementKeeps ==
  ASSUME AutomationInv, autoStatus # "deleted", Statement,
         NEW k \in RunKeys, NEW t \in Afterwards, AtRun(k, t)
  PROVE  AutomationInv'
<1>a. PICK ins, skip, enq, att, bump, fail, can, set :
        /\ ins = OnRun("run_insert", k) /\ skip = Settle(k, "skipped")
        /\ enq = OnRun("job_enqueue", k) /\ att = OnRun("run_attach", k)
        /\ bump = OnRun("run_bump", k) /\ fail = Settle(k, "failed")
        /\ can = OnRun("job_cancel", k) /\ set = Settle(k, "cancelled")
  OBVIOUS
<1>b. /\ ins \in SqlStatements /\ skip \in SqlStatements /\ enq \in SqlStatements
      /\ att \in SqlStatements /\ bump \in SqlStatements /\ fail \in SqlStatements
      /\ can \in SqlStatements /\ set \in SqlStatements /\ t \in Seq(SqlStatements)
  BY <1>a, StatementsAreTyped, AfterwardsAreStatements
<1>c. /\ ins.op = "run_insert" /\ bump.op = "run_bump" /\ enq.op = "job_enqueue"
      /\ att.op = "run_attach" /\ can.op = "job_cancel" /\ skip.op = "run_settle"
      /\ fail.op = "run_settle" /\ set.op = "run_settle"
  BY <1>a, OperationsOfStatements
<1>d. /\ ins.run = k /\ bump.run = k /\ enq.run = k /\ att.run = k /\ can.run = k
      /\ skip.run = k /\ fail.run = k /\ set.run = k
      /\ skip.to = "skipped" /\ fail.to = "failed" /\ set.to = "cancelled"
  BY <1>a, RunsOfStatements
<1>e. AutomationTypes /\ AutomationLives
  BY DEF AutomationInv
<1>f. ASSUME NEW u, pending' = u, u \in Afterwards, UNCHANGED <<schedule, now>>
      PROVE  CallbackGoesOn'
  BY <1>f, AfterwardsByTime DEF CallbackGoesOn
<1>g. ASSUME AtRun(k, t)', UNCHANGED <<schedule, now>>
      PROVE  CallbackGoesOn'
  BY <1>g, AfterwardsByTime, Zenon DEF CallbackGoesOn
<1>1. CASE pending = <<ins, skip>> \o t /\ Insertable(k)
  <2>1. Head(pending) = ins /\ Tail(pending) = <<skip>> \o t
    BY <1>1, <1>b, FirstOfThese
  <2>2. InsertRun(k)
    BY <2>1, <1>c, <1>d, WhatIsExecuted
  <2>3. /\ AutomationTypes' /\ RowsSound' /\ SettledRunIsTrue' /\ NothingMissed'
        /\ Lost' \subseteq Lost /\ Launchable(k, 1)'
    BY <1>1, <1>c, <1>e, <2>1, <2>2, InsertRunKeeps
  <2>4. Done /\ UNCHANGED autoVars
    BY <2>2 DEF InsertRun
  <2>5. pending' = <<skip>> \o t /\ now' = now /\ faults' = faults
    BY <1>e, <2>1, <2>4, DoneKeeps
  <2>6. AtRun(k, t)'
    BY <2>3, <2>5, <1>a DEF AtRun, Settle, SqlStatement
  <2>7. CallbackGoesOn'
    BY <1>g, <2>4, <2>5, <2>6 DEF autoVars
  <2> QED
    BY <1>e, <2>3, <2>4, <2>5, <2>7, StatementLeaves DEF autoVars
<1>2. CASE pending = <<skip>> \o t /\ Launchable(k, 1)
  <2>1. Head(pending) = skip /\ Tail(pending) = t
    BY <1>2, <1>b, FirstOfThese
  <2>2. SettleAutomationRun(k, "skipped")
    BY <2>1, <1>c, <1>d, WhatIsExecuted
  <2>3. Open(k) /\ MayBecome(k, "skipped") /\ "skipped" \in SettledRun
    BY <1>2 DEF Launchable, Open, OpenRun, MayBecome, LaunchesOf, SettledRun, Attempts
  <2>4. /\ AutomationTypes' /\ RowsSound' /\ SettledRunIsTrue' /\ NothingMissed'
        /\ Lost' \subseteq Lost
    BY <1>c, <1>e, <2>1, <2>2, <2>3, SettleStatementKeeps
  <2>5. Done /\ UNCHANGED autoVars
    BY <2>2 DEF SettleAutomationRun
  <2>6. pending' = t /\ now' = now /\ faults' = faults
    BY <1>e, <2>1, <2>5, DoneKeeps
  <2>7. CallbackGoesOn'
    BY <1>f, <2>5, <2>6 DEF autoVars
  <2> QED
    BY <1>e, <2>4, <2>5, <2>6, <2>7, StatementLeaves DEF autoVars
<1>3. CASE pending = <<ins, enq, att>> \o t /\ Insertable(k)
  <2>1. Head(pending) = ins /\ Tail(pending) = <<enq, att>> \o t
    BY <1>3, <1>b, FirstOfThese
  <2>2. InsertRun(k)
    BY <2>1, <1>c, <1>d, WhatIsExecuted
  <2>3. /\ AutomationTypes' /\ RowsSound' /\ SettledRunIsTrue' /\ NothingMissed'
        /\ Lost' \subseteq Lost /\ Launchable(k, 1)' /\ runs'[k].attempt = 1
    BY <1>3, <1>c, <1>e, <2>1, <2>2, InsertRunKeeps
  <2>4. Done /\ UNCHANGED autoVars
    BY <2>2 DEF InsertRun
  <2>5. pending' = <<enq, att>> \o t /\ now' = now /\ faults' = faults
    BY <1>e, <2>1, <2>4, DoneKeeps
  <2>6. Launchable(k, runs[k].attempt)'
    BY <2>3 DEF Launchable, HasJob
  <2>7. AtRun(k, t)'
    BY <2>5, <2>6, <1>a DEF AtRun, OnRun, SqlStatement
  <2>8. CallbackGoesOn'
    BY <1>g, <2>4, <2>5, <2>7 DEF autoVars
  <2> QED
    BY <1>e, <2>3, <2>4, <2>5, <2>8, StatementLeaves DEF autoVars
<1>4. CASE /\ pending = <<bump, enq, att>> \o t
           /\ Launchable(k, runs[k].attempt + 1) /\ runs[k].attempt < MaxRecoveryAttempts
  <2>1. Head(pending) = bump /\ Tail(pending) = <<enq, att>> \o t
    BY <1>4, <1>b, FirstOfThese
  <2>2. BumpRunAttempt(k)
    BY <2>1, <1>c, <1>d, WhatIsExecuted
  <2>3. /\ AutomationTypes' /\ RowsSound' /\ SettledRunIsTrue' /\ NothingMissed'
        /\ Lost' \subseteq Lost /\ Launchable(k, runs[k].attempt)'
    BY <1>4, <1>c, <1>e, <2>1, <2>2, BumpRunAttemptKeeps
  <2>4. Done /\ UNCHANGED autoVars
    BY <2>2 DEF BumpRunAttempt
  <2>5. pending' = <<enq, att>> \o t /\ now' = now /\ faults' = faults
    BY <1>e, <2>1, <2>4, DoneKeeps
  <2>6. AtRun(k, t)'
    BY <2>3, <2>5, <1>a DEF AtRun, OnRun, SqlStatement
  <2>7. CallbackGoesOn'
    BY <1>g, <2>4, <2>5, <2>6 DEF autoVars
  <2> QED
    BY <1>e, <2>3, <2>4, <2>5, <2>7, StatementLeaves DEF autoVars
<1>5. CASE pending = <<enq, att>> \o t /\ Launchable(k, runs[k].attempt)
  <2>1. Head(pending) = enq /\ Tail(pending) = <<att>> \o t
    BY <1>5, <1>b, FirstOfThese
  <2>2. EnqueueWorkflow(k)
    BY <2>1, <1>c, <1>d, WhatIsExecuted
  <2>3. Done /\ UNCHANGED autoVars
    BY <2>2 DEF EnqueueWorkflow
  <2>4. pending' = <<att>> \o t /\ now' = now /\ faults' = faults
    BY <1>e, <2>1, <2>3, DoneKeeps
  <2>5. pending' # <<>> /\ Head(pending') = OnRun("run_attach", k)
    BY <2>4, <1>a, <1>b, FirstOfThese
  <2>6. /\ AutomationTypes' /\ RowsSound' /\ SettledRunIsTrue' /\ NothingMissed'
        /\ Lost' \subseteq Lost /\ Attachable(k)'
    BY <1>5, <1>c, <1>e, <2>1, <2>2, <2>5, EnqueueWorkflowKeeps
  <2>7. AtRun(k, t)'
    BY <2>4, <2>6, <1>a DEF AtRun, OnRun, SqlStatement
  <2>8. CallbackGoesOn'
    BY <1>g, <2>3, <2>4, <2>7 DEF autoVars
  <2> QED
    BY <1>e, <2>3, <2>4, <2>6, <2>8, StatementLeaves DEF autoVars
<1>6. CASE pending = <<att>> \o t /\ Attachable(k)
  <2>1. pending # <<>> /\ Head(pending) = att /\ Tail(pending) = t
    BY <1>6, <1>b, FirstOfThese
  <2>2. AttachRunExecution(k)
    BY <2>1, <1>c, <1>d, WhatIsExecuted
  <2>3. /\ AutomationTypes' /\ RowsSound' /\ SettledRunIsTrue' /\ NothingMissed'
        /\ Lost' \subseteq Lost
    BY <1>6, <1>a, <1>e, <2>1, <2>2, AttachRunExecutionKeeps
  <2>4. Done /\ UNCHANGED autoVars
    BY <2>2 DEF AttachRunExecution
  <2>5. pending' = t /\ now' = now /\ faults' = faults
    BY <1>e, <2>1, <2>4, DoneKeeps
  <2>6. CallbackGoesOn'
    BY <1>f, <2>4, <2>5 DEF autoVars
  <2> QED
    BY <1>e, <2>3, <2>4, <2>5, <2>6, StatementLeaves DEF autoVars
<1>7. CASE pending = <<fail>> \o t /\ Open(k) /\ ~HasJob(k)
  <2>1. Head(pending) = fail /\ Tail(pending) = t
    BY <1>7, <1>b, FirstOfThese
  <2>2. SettleAutomationRun(k, "failed")
    BY <2>1, <1>c, <1>d, WhatIsExecuted
  <2>3. MayBecome(k, "failed") /\ "failed" \in SettledRun
    BY <1>7 DEF OpenRun, MayBecome, SettledRun
  <2>4. /\ AutomationTypes' /\ RowsSound' /\ SettledRunIsTrue' /\ NothingMissed'
        /\ Lost' \subseteq Lost
    BY <1>7, <1>c, <1>e, <2>1, <2>2, <2>3, SettleStatementKeeps
  <2>5. Done /\ UNCHANGED autoVars
    BY <2>2 DEF SettleAutomationRun
  <2>6. pending' = t /\ now' = now /\ faults' = faults
    BY <1>e, <2>1, <2>5, DoneKeeps
  <2>7. CallbackGoesOn'
    BY <1>f, <2>5, <2>6 DEF autoVars
  <2> QED
    BY <1>e, <2>4, <2>5, <2>6, <2>7, StatementLeaves DEF autoVars
<1>8. CASE pending = <<can, set>> \o t /\ Open(k) /\ HasJob(k)
  <2>1. Head(pending) = can /\ Tail(pending) = <<set>> \o t
    BY <1>8, <1>b, FirstOfThese
  <2>2. CancelJob(k)
    BY <2>1, <1>c, <1>d, WhatIsExecuted
  <2>3. /\ AutomationTypes' /\ RowsSound' /\ SettledRunIsTrue' /\ NothingMissed'
        /\ Lost' \subseteq Lost /\ job'[JobOf(k)] \in JobEnd /\ UNCHANGED <<autoVars, runs>>
    BY <1>8, <1>c, <1>e, <2>1, <2>2, CancelJobKeeps
  <2>4. Done
    BY <2>2 DEF CancelJob
  <2>5. pending' = <<set>> \o t /\ now' = now /\ faults' = faults
    BY <1>e, <2>1, <2>4, DoneKeeps
  <2>6. AtRun(k, t)'
    <3>1. Open(k)' /\ job'[JobOf(k)'] \in JobEnd
      BY <1>8, <2>3 DEF Open, JobOf
    <3> QED
      BY <2>5, <3>1, <1>a DEF AtRun, Settle, SqlStatement
  <2>7. CallbackGoesOn'
    BY <1>g, <2>3, <2>5, <2>6 DEF autoVars
  <2> QED
    BY <1>e, <2>3, <2>5, <2>7, StatementLeaves DEF autoVars
<1>9. CASE /\ pending = <<set>> \o t
           /\ Open(k) /\ (HasJob(k) => job[JobOf(k)] \in JobEnd)
  <2>1. Head(pending) = set /\ Tail(pending) = t
    BY <1>9, <1>b, FirstOfThese
  <2>2. SettleAutomationRun(k, "cancelled")
    BY <2>1, <1>c, <1>d, WhatIsExecuted
  <2>3. MayBecome(k, "cancelled") /\ "cancelled" \in SettledRun
    BY <1>9 DEF OpenRun, MayBecome, SettledRun
  <2>4. /\ AutomationTypes' /\ RowsSound' /\ SettledRunIsTrue' /\ NothingMissed'
        /\ Lost' \subseteq Lost
    BY <1>9, <1>c, <1>e, <2>1, <2>2, <2>3, SettleStatementKeeps
  <2>5. Done /\ UNCHANGED autoVars
    BY <2>2 DEF SettleAutomationRun
  <2>6. pending' = t /\ now' = now /\ faults' = faults
    BY <1>e, <2>1, <2>5, DoneKeeps
  <2>7. CallbackGoesOn'
    BY <1>f, <2>5, <2>6 DEF autoVars
  <2> QED
    BY <1>e, <2>4, <2>5, <2>6, <2>7, StatementLeaves DEF autoVars
<1> QED
  BY <1>1, <1>2, <1>3, <1>4, <1>5, <1>6, <1>7, <1>8, <1>9, <1>a, Zenon DEF AtRun

LEMMA AfterwardsKeep ==
  ASSUME AutomationInv, autoStatus # "deleted", Statement, pending \in Afterwards
  PROVE  AutomationInv'
<1>1. AutomationTypes /\ AutomationLives
  BY DEF AutomationInv
<1>2. pending # <<>>
  BY WhatIsExecuted
<1>3. CASE pending = <<PauseRow>>
  <2>1. Head(pending) = PauseRow /\ Tail(pending) = <<>>
    BY <1>3
  <2>2. UpdateAutomation("paused", Never) /\ Head(pending).op # "run_attach"
    BY <2>1, WhatIsExecuted, OperationsOfStatements, RunsOfStatements
  <2>3. /\ AutomationTypes' /\ RowsSound' /\ SettledRunIsTrue' /\ NothingMissed'
        /\ Lost' \subseteq Lost
    BY <1>1, <2>2, UpdateAutomationKeeps
  <2>4. Done /\ autoStatus' = "paused"
    BY <2>2 DEF UpdateAutomation
  <2>5. pending' = <<>> /\ faults' = faults
    BY <1>1, <2>1, <2>4, DoneKeeps
  <2>6. CallbackGoesOn'
    BY <2>5, Zenon DEF CallbackGoesOn, Afterwards
  <2> QED
    BY <1>1, <2>3, <2>4, <2>5, <2>6, StatementLeaves
<1>4. ASSUME NEW x \in NextTimes, pending = <<AdvanceTo(x)>> PROVE AutomationInv'
  <2>1. Head(pending) = AdvanceTo(x) /\ Tail(pending) = <<>>
    BY <1>4
  <2>2. UpdateAutomation(autoStatus, x) /\ Head(pending).op # "run_attach"
    BY <2>1, WhatIsExecuted, OperationsOfStatements, RunsOfStatements
  <2>3. autoStatus \in {"active", "paused"} /\ x \in Nat \cup {Never}
    BY <1>1 DEF AutomationTypes, NextTimes
  <2>4. /\ AutomationTypes' /\ RowsSound' /\ SettledRunIsTrue' /\ NothingMissed'
        /\ Lost' \subseteq Lost
    BY <1>1, <2>2, <2>3, UpdateAutomationKeeps
  <2>5. Done /\ autoStatus' = autoStatus
    BY <2>2 DEF UpdateAutomation
  <2>6. pending' = <<>> /\ faults' = faults
    BY <1>1, <2>1, <2>5, DoneKeeps
  <2>7. CallbackGoesOn'
    BY <2>6, Zenon DEF CallbackGoesOn, Afterwards
  <2> QED
    BY <1>1, <2>4, <2>5, <2>6, <2>7, StatementLeaves
<1>5. CASE pending = <<CancelLoop, DeleteRow>>
  <2>1. Head(pending) = CancelLoop /\ Tail(pending) = <<DeleteRow>>
    BY <1>5
  <2>2. CancelOpenRuns /\ Head(pending).op # "run_attach"
    BY <2>1, WhatIsExecuted, OperationsOfStatements
  <2>3. UNCHANGED <<autoVars, runs, job, now, faults>> /\ firing' \in BOOLEAN
    BY <1>1, <2>2 DEF CancelOpenRuns, AutomationTypes
  <2>4. CASE (\A k \in RunKeys : ~Open(k)) /\ pending' = Tail(pending)
    <3>1. pending' = <<DeleteRow>>
      BY <2>1, <2>4
    <3>2. CallbackGoesOn'
      BY <2>3, <2>4, <3>1 DEF CallbackGoesOn, Open, DeleteRow, OnAutomation, SqlStatement
    <3>3. Head(pending').op # "run_attach"
      BY <3>1, OperationsOfStatements
    <3> QED
      BY <2>2, <2>3, <3>2, <3>3, SameRowsKeep
  <2>5. ASSUME NEW k \in RunKeys, Open(k), pending' = CancelPlan(k) \o pending
        PROVE  AutomationInv'
    <3>1. CallbackGoesOn' /\ Head(pending').op # "run_attach"
      BY <2>3, <2>5, CancelPlanAtRun
    <3> QED
      BY <2>2, <2>3, <3>1, SameRowsKeep
  <2> QED
    BY <2>2, <2>4, <2>5 DEF CancelOpenRuns
<1> QED
  BY <1>2, <1>3, <1>4, <1>5, Zenon DEF Afterwards

LEMMA DeleteAutomationRowKeeps ==
  ASSUME AutomationInv, autoStatus # "deleted", Statement,
         pending = <<DeleteRow>>, \A k \in RunKeys : ~Open(k)
  PROVE  AutomationInv'
<1>1. AutomationTypes /\ AutomationLives
  BY DEF AutomationInv
<1>2. Head(pending) = DeleteRow /\ Tail(pending) = <<>>
  OBVIOUS
<1>3. DeleteAutomationRow /\ Head(pending).op # "run_attach"
  BY <1>2, WhatIsExecuted, OperationsOfStatements
<1>4. /\ autoStatus' = "deleted" /\ nextRunAt' = Never /\ runs' = [k \in RunKeys |-> NoRow]
      /\ UNCHANGED <<schedule, job>> /\ Done
  BY <1>3 DEF DeleteAutomationRow
<1>5. pending' = <<>> /\ firing' \in BOOLEAN /\ now' = now /\ faults' = faults
  BY <1>1, <1>2, <1>4, DoneKeeps
<1>6. AutomationTypes'
  <2>1. NoRow \in [status : RunStatus, attempt : Attempts,
                   jobId : Attempts \cup {Never}, createdAt : 0 .. Horizon]
    BY AutomationAssumption DEF NoRow, RunStatus, Attempts
  <2>2. runs' \in [RunKeys -> [status : RunStatus, attempt : Attempts,
                      jobId : Attempts \cup {Never}, createdAt : 0 .. Horizon]]
    BY <1>4, <2>1
  <2> QED
    BY <1>1, <1>4, <1>5, <2>2 DEF AutomationTypes
<1>7. Cardinality({l \in Launches : job'[l] \in LiveJob}) <= faults'
  <2>1. InFlight = {}
    BY <1>3, NothingInFlight
  <2>2. \A l \in Launches : ~Owned(l)
    BY DEF Launches, Owned
  <2>3. {l \in Launches : job'[l] \in LiveJob} \in SUBSET Lost
    BY <1>1, <1>4, <2>1, <2>2, UnownedIsLost
  <2>4. PICK S : S = {l \in Launches : job'[l] \in LiveJob}
    OBVIOUS
  <2>5. Cardinality(S) <= Cardinality(Lost) /\ Cardinality(S) \in Nat
    BY <2>3, <2>4, LostIsFinite, FS_Subset, FS_CardinalityType
  <2>6. Cardinality(Lost) <= faults /\ Cardinality(Lost) \in Nat /\ faults \in Nat
    BY <1>1, LostIsFinite DEF AutomationLives, LostToFaults, AutomationTypes
  <2>7. Cardinality(S) <= faults'
    BY <1>5, <2>5, <2>6
  <2> QED
    BY <2>4, <2>7
<1>8. LaunchedOnce'
  <2>1. LaunchedOnce
    BY <1>1, LaunchesAreCounted
  <2> QED
    BY <1>4, <1>5, <2>1 DEF LaunchedOnce, LaunchesOf
<1> QED
  BY <1>4, <1>5, <1>6, <1>7, <1>8 DEF AutomationInv, GoneForGood

LEMMA StatementKeepsAutomation ==
  ASSUME AutomationInv, autoStatus # "deleted", Statement
  PROVE  AutomationInv'
<1>1. CallbackGoesOn
  BY DEF AutomationInv, AutomationLives
<1> QED
  BY <1>1, AfterwardsKeep, DeleteAutomationRowKeeps, RunStatementKeeps DEF CallbackGoesOn

-----------------------------------------------------------------------------
(* Faults.                                                                 *)

\* A fault loses the launch in flight and nothing else.
LEMMA FaultKeeps ==
  ASSUME AutomationInv, autoStatus # "deleted", faults < MaxFaults, faults' = faults + 1,
         UNCHANGED <<autoVars, runs, job, now>>, firing' \in BOOLEAN,
         pending' = <<>> \/ \E x \in NextTimes : pending' = <<AdvanceTo(x)>>
  PROVE  AutomationInv'
<1>1. AutomationTypes /\ AutomationLives /\ faults \in Nat
  BY DEF AutomationInv, AutomationTypes
<1>2. AutomationTypes'
  BY <1>1, AutomationAssumption DEF AutomationTypes, autoVars
<1>3. RowsSound' /\ SettledRunIsTrue' /\ NothingMissed'
  BY <1>1 DEF AutomationLives, RowsSound, RowSound, SettledRunIsTrue, NothingMissed,
              Open, HasJob, JobOf, LaunchesOf, autoVars
<1>4. CallbackGoesOn'
  <2>1. pending' \in Afterwards
    BY Zenon DEF Afterwards
  <2> QED
    BY <2>1, AfterwardsByTime DEF CallbackGoesOn, autoVars
<1>5. PICK f : InFlight \subseteq {f}
  <2>1. ASSUME NEW f \in InFlight, NEW l \in InFlight PROVE l = f
    <3>1. /\ OnRun("run_attach", l[1]) = OnRun("run_attach", f[1])
          /\ l[2] = runs[l[1]].attempt /\ f[2] = runs[f[1]].attempt
          /\ l = <<l[1], l[2]>> /\ f = <<f[1], f[2]>>
      BY DEF InFlight, Launches
    <3>2. l[1] = f[1]
      BY <3>1, RunsOfStatements
    <3> QED
      BY <3>1, <3>2
  <2>2. CASE InFlight = {}
    BY <2>2
  <2>3. CASE InFlight # {}
    BY <2>1, <2>3
  <2> QED
    BY <2>2, <2>3
<1>6. Lost' \subseteq Lost \cup {f}
  BY <1>5 DEF Lost
<1>7. LostToFaults'
  <2>1. IsFiniteSet(Lost \cup {f}) /\ Cardinality(Lost \cup {f}) <= Cardinality(Lost) + 1
        /\ Cardinality(Lost \cup {f}) \in Nat
    BY LostIsFinite, FS_AddElement, FS_CardinalityType
  <2>2. Cardinality(Lost') <= Cardinality(Lost \cup {f}) /\ Cardinality(Lost') \in Nat
    BY <1>6, <2>1, FS_Subset, FS_CardinalityType
  <2>3. Cardinality(Lost) <= faults /\ Cardinality(Lost) \in Nat
    BY <1>1, LostIsFinite DEF AutomationLives, LostToFaults
  <2>4. Cardinality(Lost') <= faults'
    BY <1>1, <2>1, <2>2, <2>3
  <2> QED
    BY <2>4 DEF LostToFaults
<1>8. autoStatus' # "deleted"
  BY DEF autoVars
<1> QED
  BY <1>2, <1>3, <1>4, <1>7, <1>8 DEF AutomationInv, AutomationLives

LEMMA ThrowKeeps ==
  ASSUME AutomationInv, autoStatus # "deleted", Throw
  PROVE  AutomationInv'
<1>1. /\ faults < MaxFaults /\ faults' = faults + 1 /\ firing' = FALSE
      /\ pending' = (IF firing THEN <<Advance(now)>> ELSE <<>>)
      /\ UNCHANGED <<autoVars, runs, job, now>>
  BY DEF Throw
<1>2. PICK x : x = NextAfter(now)
  OBVIOUS
<1>3. x \in NextTimes /\ Advance(now) = AdvanceTo(x)
  <2>1. AutomationTypes /\ now \in Nat
    BY DEF AutomationInv, AutomationTypes
  <2> QED
    BY <1>2, <2>1, NextAfterIsAhead DEF Advance, AdvanceTo
<1>4. pending' = <<>> \/ \E y \in NextTimes : pending' = <<AdvanceTo(y)>>
  BY <1>1, <1>3
<1>5. firing' \in BOOLEAN
  BY <1>1
<1> QED
  BY <1>1, <1>4, <1>5, FaultKeeps

LEMMA ProcessDiesKeeps ==
  ASSUME AutomationInv, autoStatus # "deleted", ProcessDies
  PROVE  AutomationInv'
BY FaultKeeps DEF ProcessDies

-----------------------------------------------------------------------------
(* The specification.                                                      *)

\* A deleted automation does nothing any more.
LEMMA DeletedIsFrozen ==
  ASSUME AutomationInv, autoStatus = "deleted", AutomationNext
  PROVE  FALSE
<1>1. pending = <<>> /\ \A k \in RunKeys : runs[k] = NoRow
  BY DEF AutomationInv, GoneForGood
<1>2. \A k \in RunKeys : ~Open(k) /\ ~HasJob(k)
  BY <1>1 DEF Open, HasJob, NoRow, OpenRun
<1>3. \A k \in RunKeys : ~(ReconcileRun(k) \/ CancelRun(k) \/ EngineStep(k))
  BY <1>2 DEF ReconcileRun, Relaunch, MarkRunning, SettleRun, TimeOut, CancelRun, EngineStep
<1>4. ~FireDue
  BY DEF FireDue, Due
<1>5. \A k \in RunKeys : ~TriggerManualRun(k)
  BY DEF TriggerManualRun
<1>6. ~Pause /\ ~Resume /\ ~DeleteAutomation /\ ~Tick
  BY DEF Pause, Resume, DeleteAutomation, Tick
<1>7. \A s \in Schedules : ~Edit(s)
  BY DEF Edit
<1>8. ~Statement /\ ~Throw /\ ~ProcessDies
  BY <1>1 DEF Statement, Throw, ProcessDies
<1> QED
  BY <1>3, <1>4, <1>5, <1>6, <1>7, <1>8 DEF AutomationNext

LEMMA AutomationStepKeeps ==
  ASSUME AutomationInv, [AutomationNext]_automationVars
  PROVE  AutomationInv'
<1>1. CASE UNCHANGED automationVars
  <2>1. /\ autoStatus' = autoStatus /\ schedule' = schedule /\ nextRunAt' = nextRunAt
        /\ runs' = runs /\ job' = job /\ now' = now /\ pending' = pending
        /\ firing' = firing /\ faults' = faults
    BY <1>1 DEF automationVars, autoVars, callVars
  <2>2. AutomationTypes'
    BY <2>1 DEF AutomationInv, AutomationTypes
  <2>3. CASE autoStatus = "deleted"
    <3>1. GoneForGood'
      BY <2>1, <2>3 DEF AutomationInv, GoneForGood, LaunchedOnce, LaunchesOf
    <3> QED
      BY <2>1, <2>2, <2>3, <3>1 DEF AutomationInv
  <2>4. CASE autoStatus # "deleted"
    <3>1. AutomationLives
      BY <2>4 DEF AutomationInv
    <3>2. RowsSound' /\ SettledRunIsTrue' /\ NothingMissed'
      BY <2>1, <3>1 DEF AutomationLives, RowsSound, RowSound, SettledRunIsTrue, NothingMissed,
                        Open, HasJob, JobOf, LaunchesOf
    <3>3. Lost' \subseteq Lost
      BY <2>1 DEF Lost, InFlight
    <3>4. CallbackGoesOn'
      <4>1. ASSUME NEW k \in RunKeys, NEW t \in Afterwards, AtRun(k, t) PROVE AtRun(k, t)'
        BY <2>1, <4>1 DEF AtRun, Insertable, Launchable, Attachable, Open, HasJob, JobOf,
                          OnRun, Settle, SqlStatement
      <4>2. Afterwards' = Afterwards
        BY <2>1, AfterwardsByTime
      <4>3. CASE \E k \in RunKeys : \E t \in Afterwards : AtRun(k, t)
        BY <4>1, <4>2, <4>3 DEF CallbackGoesOn
      <4>4. CASE pending \in Afterwards
        BY <2>1, <4>2, <4>4 DEF CallbackGoesOn
      <4>5. CASE pending = <<DeleteRow>> /\ \A k \in RunKeys : ~Open(k)
        BY <2>1, <4>5 DEF CallbackGoesOn, Open, DeleteRow, OnAutomation, SqlStatement
      <4> QED
        BY <3>1, <4>3, <4>4, <4>5 DEF AutomationLives, CallbackGoesOn
    <3> QED
      BY <2>1, <2>2, <2>4, <3>1, <3>2, <3>3, <3>4, StatementLeaves DEF AutomationInv
  <2> QED
    BY <2>3, <2>4
<1>2. CASE autoStatus = "deleted" /\ AutomationNext
  BY <1>2, DeletedIsFrozen
<1>3. CASE autoStatus # "deleted" /\ AutomationNext
  <2>1. CASE FireDue
    BY <1>3, <2>1, FireDueKeeps
  <2>2. ASSUME NEW k \in RunKeys, ReconcileRun(k) PROVE AutomationInv'
    BY <1>3, <2>2, RelaunchKeeps, MarkRunningKeeps, SettleRunKeeps, TimeOutKeeps DEF ReconcileRun
  <2>3. ASSUME NEW k \in RunKeys, CancelRun(k) PROVE AutomationInv'
    BY <1>3, <2>3, CancelRunKeeps
  <2>4. ASSUME NEW k \in RunKeys, EngineStep(k) PROVE AutomationInv'
    BY <1>3, <2>4, EngineStepKeeps
  <2>5. ASSUME NEW k \in RunKeys \ Occurrences, TriggerManualRun(k) PROVE AutomationInv'
    BY <2>5, TriggerManualRunKeeps
  <2>6. CASE Pause \/ Resume \/ DeleteAutomation \/ Tick
    BY <2>6, PauseKeeps, ResumeKeeps, DeleteAutomationKeeps, TickKeeps
  <2>7. ASSUME NEW s \in Schedules, Edit(s) PROVE AutomationInv'
    BY <2>7, EditKeeps
  <2>8. CASE Statement
    BY <1>3, <2>8, StatementKeepsAutomation
  <2>9. CASE Throw \/ ProcessDies
    BY <1>3, <2>9, ThrowKeeps, ProcessDiesKeeps
  <2> QED
    BY <1>3, <2>1, <2>2, <2>3, <2>4, <2>5, <2>6, <2>7, <2>8, <2>9 DEF AutomationNext
<1> QED
  BY <1>1, <1>2, <1>3

LEMMA AutomationStarts == AutomationInit => AutomationInv
<1> SUFFICES ASSUME AutomationInit PROVE AutomationInv
  OBVIOUS
<1>1. /\ autoStatus = "active" /\ schedule \in Schedules /\ now = 0
      /\ runs = [k \in RunKeys |-> NoRow] /\ job = [l \in Launches |-> "none"]
      /\ pending = <<>> /\ firing = FALSE /\ faults = 0
      /\ nextRunAt = FirstOccurrence(schedule)
  BY DEF AutomationInit
<1>2. NoRow \in [status : RunStatus, attempt : Attempts,
                 jobId : Attempts \cup {Never}, createdAt : 0 .. Horizon]
  BY AutomationAssumption DEF NoRow, RunStatus, Attempts
<1>3. nextRunAt \in Nat
  <2>1. schedule.kind \in Kinds /\ schedule.at \in Nat /\ schedule.every \in Nat /\ schedule.every > 0
    BY <1>1, AutomationAssumption
  <2>2. CronNextAfter(now, schedule.every) \in Nat
    <3>1. now \div schedule.every \in Nat
      BY <1>1, <2>1, NextSlotIsAhead
    <3> QED
      BY <1>1, <2>1, <3>1 DEF CronNextAfter
  <2> QED
    BY <1>1, <2>1, <2>2 DEF FirstOccurrence, Kinds
<1>4. AutomationTypes
  <2>1. runs \in [RunKeys -> [status : RunStatus, attempt : Attempts,
                              jobId : Attempts \cup {Never}, createdAt : 0 .. Horizon]]
    BY <1>1, <1>2
  <2>2. job \in [Launches -> {"none"} \cup LiveJob \cup JobEnd]
    BY <1>1
  <2>3. now \in 0 .. Horizon /\ faults \in 0 .. MaxFaults
    BY <1>1, AutomationAssumption
  <2>4. firing \in BOOLEAN
    BY <1>1
  <2> QED
    BY <1>1, <1>3, <2>1, <2>2, <2>3, <2>4 DEF AutomationTypes
<1>5. \A k \in RunKeys : /\ runs[k] = NoRow /\ ~Open(k) /\ ~HasJob(k)
                         /\ \A n \in Attempts : job[<<k, n>>] = "none"
  BY <1>1 DEF NoRow, Open, OpenRun, HasJob, Launches
<1>6. RowsSound
  BY <1>1, <1>5 DEF RowsSound, RowSound, NoRow
<1>7. SettledRunIsTrue
  BY <1>5 DEF SettledRunIsTrue, NoRow
<1>8. NothingMissed
  BY <1>5 DEF NothingMissed, RunKeys, NoRow
<1>9. LostToFaults
  <2>1. Lost = {}
    BY <1>1 DEF Lost
  <2> QED
    BY <1>1, <2>1, FS_EmptySet DEF LostToFaults
<1>10. CallbackGoesOn
  BY <1>1, Zenon DEF CallbackGoesOn, Afterwards
<1> QED
  BY <1>1, <1>4, <1>6, <1>7, <1>8, <1>9, <1>10 DEF AutomationInv, AutomationLives

\* The invariant holds of the automation scheduler.
THEOREM AutomationInvariant == AutomationSpec => []AutomationInv
<1>1. AutomationInv /\ [AutomationNext]_automationVars => AutomationInv'
  BY AutomationStepKeeps
<1> QED
  BY <1>1, AutomationStarts, PTL DEF AutomationSpec

\* What is executed next is a statement about a run there may be.
LEMMA StatementsHaveTypes ==
  ASSUME NEW s \in SqlStatements
  PROVE  \/ s.op \in RunOps /\ s.run \in RunKeys
         \/ s.op \in AutomationOps /\ s.at \in Nat \cup {Never}
<1>1. CASE \E op \in RunOps : \E k \in RunKeys : s = OnRun(op, k)
  BY <1>1 DEF OnRun, SqlStatement
<1>2. CASE \E k \in RunKeys : \E to \in SettledRun : s = Settle(k, to)
  BY <1>2 DEF Settle, SqlStatement, RunOps
<1>3. CASE \E x \in Nat \cup {Never} : s = AdvanceTo(x)
  BY <1>3 DEF AdvanceTo, OnAutomation, SqlStatement, AutomationOps
<1>4. CASE s \in {PauseRow, CancelLoop, DeleteRow}
  BY <1>4 DEF PauseRow, CancelLoop, DeleteRow, OnAutomation, SqlStatement, AutomationOps
<1> QED
  BY <1>1, <1>2, <1>3, <1>4, SMT DEF SqlStatements

LEMMA PendingIsTyped ==
  ASSUME CallbackGoesOn
  PROVE  pending \in Seq(SqlStatements)
<1>1. CASE pending = <<DeleteRow>>
  <2>1. DeleteRow \in SqlStatements
    BY SMT DEF SqlStatements
  <2> QED
    BY <1>1, <2>1
<1>2. CASE pending \in Afterwards
  BY <1>2, AfterwardsAreStatements
<1>3. ASSUME NEW k \in RunKeys, NEW t \in Afterwards, AtRun(k, t)
      PROVE  pending \in Seq(SqlStatements)
  <2>a. PICK ins, skip, enq, att, bump, fail, can, set :
          /\ ins = OnRun("run_insert", k) /\ skip = Settle(k, "skipped")
          /\ enq = OnRun("job_enqueue", k) /\ att = OnRun("run_attach", k)
          /\ bump = OnRun("run_bump", k) /\ fail = Settle(k, "failed")
          /\ can = OnRun("job_cancel", k) /\ set = Settle(k, "cancelled")
    OBVIOUS
  <2>b. /\ ins \in SqlStatements /\ skip \in SqlStatements /\ enq \in SqlStatements
        /\ att \in SqlStatements /\ bump \in SqlStatements /\ fail \in SqlStatements
        /\ can \in SqlStatements /\ set \in SqlStatements /\ t \in Seq(SqlStatements)
    BY <2>a, StatementsAreTyped, AfterwardsAreStatements
  <2>1. \E u \in {<<ins, skip>>, <<skip>>, <<ins, enq, att>>, <<bump, enq, att>>, <<enq, att>>,
                  <<att>>, <<fail>>, <<can, set>>, <<set>>} : pending = u \o t
    BY <1>3, <2>a, Zenon DEF AtRun
  <2>2. {<<ins, skip>>, <<skip>>, <<ins, enq, att>>, <<bump, enq, att>>, <<enq, att>>,
         <<att>>, <<fail>>, <<can, set>>, <<set>>} \subseteq Seq(SqlStatements)
    BY <2>b
  <2> QED
    BY <2>1, <2>2, <2>b, ConcatProperties
<1> QED
  BY <1>1, <1>2, <1>3 DEF CallbackGoesOn

\* Runs and jobs tell the same story: the types; a job that is queued or
\* running belongs to an open run, but for one per fault; and what a settled
\* run says of its job is true.  (reconcileRun, the cancel and delete routes.)
THEOREM RunsAndJobsAgree == AutomationSpec => []RunsMatchJobs
<1>1. AutomationInv => RunsMatchJobs
  <2> SUFFICES ASSUME AutomationInv PROVE RunsMatchJobs
    OBVIOUS
  <2>1. CASE autoStatus = "deleted"
    <3>1. /\ pending = <<>> /\ \A k \in RunKeys : runs[k] = NoRow
          /\ Cardinality({l \in Launches : job[l] \in LiveJob}) <= faults
      BY <2>1 DEF AutomationInv, GoneForGood
    <3>2. AutomationTypeOK
      BY <3>1 DEF AutomationInv, AutomationTypes, AutomationTypeOK
    <3>3. LiveJobIsOwned
      <4>1. Unowned = {l \in Launches : job[l] \in LiveJob}
        BY <3>1 DEF Unowned, Owned, Open, NoRow, OpenRun, Launches
      <4> QED
        BY <3>1, <4>1 DEF LiveJobIsOwned
    <3>4. SettledRunIsTrue
      BY <3>1 DEF SettledRunIsTrue, NoRow
    <3> QED
      BY <3>2, <3>3, <3>4 DEF RunsMatchJobs
  <2>2. CASE autoStatus # "deleted"
    <3>1. AutomationTypes /\ AutomationLives
      BY <2>2 DEF AutomationInv
    <3>2. AutomationTypeOK
      <4>1. pending \in Seq(SqlStatements)
        BY <3>1, PendingIsTyped DEF AutomationLives
      <4>2. \A i \in 1 .. Len(pending) : pending[i] \in SqlStatements
        BY <4>1
      <4> QED
        BY <3>1, <4>2, StatementsHaveTypes DEF AutomationTypes, AutomationTypeOK
    <3>3. LiveJobIsOwned
      <4>1. SUFFICES ASSUME Idle PROVE Cardinality(Unowned) <= faults
        BY DEF LiveJobIsOwned
      <4>2. InFlight = {}
        BY <4>1, NothingInFlight DEF Idle
      <4>3. Unowned \in SUBSET Lost
        BY <3>1, <4>2, UnownedIsLost DEF Unowned
      <4>4. Cardinality(Unowned) <= Cardinality(Lost) /\ Cardinality(Unowned) \in Nat
        BY <4>3, LostIsFinite, FS_Subset, FS_CardinalityType
      <4> QED
        BY <3>1, <4>4, LostIsFinite DEF AutomationLives, LostToFaults, AutomationTypes
    <3> QED
      BY <3>1, <3>2, <3>3 DEF RunsMatchJobs, AutomationLives
  <2> QED
    BY <2>1, <2>2
<1> QED
  BY <1>1, AutomationInvariant, PTL

\* However often the scheduler dies or a statement throws, each further launch
\* of an occurrence or of a manual run cost a fault of its own.  (fireAutomation
\* and the recovery in reconcileRun.)
THEOREM OccurrencesLaunchedOnce == AutomationSpec => []LaunchedOnce
<1>1. AutomationInv => LaunchedOnce
  BY LaunchesAreCounted DEF AutomationInv, GoneForGood
<1> QED
  BY <1>1, AutomationInvariant, PTL

-----------------------------------------------------------------------------
(* Rows appear where an occurrence is due.                                 *)

\* What the callback has read when it inserts a run or raises its attempt.
LEMMA WhatIsRead ==
  ASSUME AutomationLives, pending # <<>>
  PROVE  /\ Head(pending).op = "run_insert" => Insertable(Head(pending).run)
         /\ Head(pending).op = "run_bump" => runs[Head(pending).run].status = "queued"
<1>1. CASE pending = <<DeleteRow>>
  BY <1>1, OperationsOfStatements
<1>2. CASE pending \in Afterwards
  <2>1. \/ pending = <<PauseRow>> \/ pending = <<CancelLoop, DeleteRow>>
        \/ \E x \in NextTimes : pending = <<AdvanceTo(x)>>
    BY <1>2, Zenon DEF Afterwards
  <2> QED
    BY <2>1, OperationsOfStatements
<1>3. ASSUME NEW k \in RunKeys, NEW t \in Afterwards, AtRun(k, t)
      PROVE  /\ Head(pending).op = "run_insert" => Insertable(Head(pending).run)
             /\ Head(pending).op = "run_bump" => runs[Head(pending).run].status = "queued"
  <2>a. PICK ins, skip, enq, att, bump, fail, can, set :
          /\ ins = OnRun("run_insert", k) /\ skip = Settle(k, "skipped")
          /\ enq = OnRun("job_enqueue", k) /\ att = OnRun("run_attach", k)
          /\ bump = OnRun("run_bump", k) /\ fail = Settle(k, "failed")
          /\ can = OnRun("job_cancel", k) /\ set = Settle(k, "cancelled")
    OBVIOUS
  <2>b. /\ ins \in SqlStatements /\ skip \in SqlStatements /\ enq \in SqlStatements
        /\ att \in SqlStatements /\ bump \in SqlStatements /\ fail \in SqlStatements
        /\ can \in SqlStatements /\ set \in SqlStatements /\ t \in Seq(SqlStatements)
    BY <2>a, StatementsAreTyped, AfterwardsAreStatements
  <2>1. \/ pending = <<ins, skip>> \o t /\ Insertable(k)
        \/ pending = <<skip>> \o t
        \/ pending = <<ins, enq, att>> \o t /\ Insertable(k)
        \/ pending = <<bump, enq, att>> \o t /\ Launchable(k, runs[k].attempt + 1)
        \/ pending = <<enq, att>> \o t \/ pending = <<att>> \o t \/ pending = <<fail>> \o t
        \/ pending = <<can, set>> \o t \/ pending = <<set>> \o t
    BY <1>3, <2>a, Zenon DEF AtRun
  <2>2. \/ Head(pending) = ins /\ Insertable(k)
        \/ Head(pending) = bump /\ runs[k].status = "queued"
        \/ Head(pending) \in {skip, enq, att, fail, can, set}
    BY <2>1, <2>b, FirstOfThese DEF Launchable
  <2>3. \A s \in {skip, enq, att, fail, can, set} : s.op # "run_insert" /\ s.op # "run_bump"
    BY <2>a, OperationsOfStatements
  <2>4. ins.run = k /\ bump.run = k /\ ins.op = "run_insert" /\ bump.op = "run_bump"
    BY <2>a, OperationsOfStatements, RunsOfStatements
  <2> QED
    BY <2>2, <2>3, <2>4
<1> QED
  BY <1>1, <1>2, <1>3 DEF AutomationLives, CallbackGoesOn

LEMMA RowsAppearWhenDue ==
  ASSUME AutomationInv, [AutomationNext]_automationVars, NEW k \in RunKeys,
         runs[k] = NoRow, runs'[k] # NoRow
  PROVE  AutomationLives /\ Insertable(k)
<1>1. runs' # runs
  OBVIOUS
<1>2. AutomationNext
  BY <1>1 DEF automationVars
<1>3. autoStatus # "deleted" /\ AutomationTypes /\ AutomationLives
  BY <1>2, DeletedIsFrozen DEF AutomationInv
<1>4. ~Open(k)
  BY DEF Open, OpenRun, NoRow
<1>5. ASSUME NEW q \in RunKeys, Open(q), NEW to, runs' = [runs EXCEPT ![q].status = to] PROVE FALSE
  <2>1. q # k
    BY <1>4, <1>5
  <2> QED
    BY <1>3, <1>5, <2>1 DEF AutomationTypes
<1>6. Statement
  <2>1. ASSUME FireDue PROVE FALSE
    BY <1>1, <2>1 DEF FireDue, Start
  <2>2. ASSUME NEW q \in RunKeys, ReconcileRun(q) PROVE FALSE
    <3>1. CASE Relaunch(q)
      BY <1>1, <3>1 DEF Relaunch, Start
    <3>2. CASE MarkRunning(q)
      BY <1>5, <3>2 DEF MarkRunning, SetRun
    <3>3. CASE SettleRun(q)
      BY <1>5, <3>3 DEF SettleRun, SetRun
    <3>4. CASE TimeOut(q)
      BY <1>1, <3>4 DEF TimeOut
    <3> QED
      BY <2>2, <3>1, <3>2, <3>3, <3>4 DEF ReconcileRun
  <2>3. ASSUME NEW q \in RunKeys, CancelRun(q) \/ EngineStep(q) \/ TriggerManualRun(q) PROVE FALSE
    BY <1>1, <2>3 DEF CancelRun, EngineStep, TriggerManualRun, Start
  <2>4. ASSUME Pause \/ Resume \/ DeleteAutomation \/ Tick \/ Throw \/ ProcessDies PROVE FALSE
    BY <1>1, <2>4 DEF Pause, Resume, SetAutomation, DeleteAutomation, Start, Tick, Throw, ProcessDies
  <2>5. ASSUME NEW s \in Schedules, Edit(s) PROVE FALSE
    BY <1>1, <2>5 DEF Edit
  <2> QED
    BY <1>2, <2>1, <2>2, <2>3, <2>4, <2>5 DEF AutomationNext
<1>7. PICK s : s = Head(pending)
  OBVIOUS
<1>8. /\ pending # <<>>
      /\ \/ s.op = "run_insert"  /\ InsertRun(s.run)
         \/ s.op = "run_settle"  /\ SettleAutomationRun(s.run, s.to)
         \/ s.op = "run_bump"    /\ BumpRunAttempt(s.run)
         \/ s.op = "job_enqueue" /\ EnqueueWorkflow(s.run)
         \/ s.op = "run_attach"  /\ AttachRunExecution(s.run)
         \/ s.op = "job_cancel"  /\ CancelJob(s.run)
         \/ s.op = "advance"     /\ UpdateAutomation(autoStatus, s.at)
         \/ s.op = "set_status"  /\ UpdateAutomation(s.to, s.at)
         \/ s.op = "cancel_open" /\ CancelOpenRuns
         \/ s.op = "delete"      /\ DeleteAutomationRow
  BY <1>6, <1>7, Zenon DEF Statement
<1>10. CASE s.op = "run_insert" /\ InsertRun(s.run)
  <2>1. s.run = k
    <3>1. SUFFICES ASSUME s.run # k PROVE FALSE
      OBVIOUS
    <3>2. runs'[k] = runs[k]
      BY <1>3, <1>10, <3>1 DEF InsertRun, AutomationTypes
    <3> QED
      BY <3>2
  <2> QED
    BY <1>3, <1>7, <1>8, <1>10, <2>1, WhatIsRead
<1>11. CASE SettleAutomationRun(s.run, s.to)
  BY <1>1, <1>3, <1>4, <1>11 DEF SettleAutomationRun, AutomationTypes
<1>12. CASE s.op = "run_bump" /\ BumpRunAttempt(s.run)
  <2>1. s.run # k
    <3>1. runs[s.run].status = "queued"
      BY <1>3, <1>7, <1>8, <1>12, WhatIsRead
    <3> QED
      BY <3>1 DEF NoRow
  <2> QED
    BY <1>3, <1>12, <2>1 DEF BumpRunAttempt, AutomationTypes
<1>13. CASE AttachRunExecution(s.run)
  <2>1. runs[k].status # "queued"
    BY DEF NoRow
  <2> QED
    BY <1>1, <1>3, <1>13, <2>1 DEF AttachRunExecution, AutomationTypes
<1>14. CASE \/ EnqueueWorkflow(s.run) \/ CancelJob(s.run) \/ CancelOpenRuns
            \/ UpdateAutomation(autoStatus, s.at) \/ UpdateAutomation(s.to, s.at)
  BY <1>1, <1>14 DEF EnqueueWorkflow, CancelJob, CancelOpenRuns, UpdateAutomation
<1>15. CASE DeleteAutomationRow
  BY <1>15 DEF DeleteAutomationRow
<1> QED
  BY <1>8, <1>10, <1>11, <1>12, <1>13, <1>14, <1>15

\* An interval fires no occurrence that was due when an earlier one was fired:
\* what was missed during downtime is skipped.  (advance.)
THEOREM MissedOccurrencesAreSkipped == AutomationSpec => NoBackfill
<1>1. AutomationInv /\ [AutomationNext]_automationVars
        => [\A m \in 0 .. Horizon :
              LET k == OccurrenceKey(m)
              IN  runs[k] = NoRow /\ runs'[k] # NoRow /\ schedule.kind = "interval"
                    => \A e \in Occurrences :
                         runs[e].status # "none" => m > runs[e].createdAt]_automationVars
  <2> SUFFICES ASSUME AutomationInv, [AutomationNext]_automationVars, NEW m \in 0 .. Horizon,
                      runs[OccurrenceKey(m)] = NoRow, runs'[OccurrenceKey(m)] # NoRow,
                      schedule.kind = "interval"
               PROVE  \A e \in Occurrences : runs[e].status # "none" => m > runs[e].createdAt
    OBVIOUS
  <2>1. OccurrenceKey(m) \in Occurrences /\ OccurrenceKey(m) \in RunKeys
    BY DEF Occurrences, RunKeys
  <2>2. AutomationLives /\ Insertable(OccurrenceKey(m))
    BY <2>1, RowsAppearWhenDue
  <2>3. nextRunAt = m
    BY <2>1, <2>2 DEF Insertable, OccurrenceKey
  <2> QED
    BY <2>2, <2>3 DEF AutomationLives, NothingMissed
<1> QED
  BY <1>1, AutomationInvariant, PTL DEF AutomationSpec, NoBackfill

=============================================================================
