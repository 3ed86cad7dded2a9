----------------------------- MODULE MCBilling -----------------------------
(* A small instance of Billing for TLC. *)
EXTENDS Billing

CONSTANTS t1, i1, i2, e1

MCTasks    == {t1}
MCCredits  == [p \in Pools |-> IF p = "free" THEN 1 ELSE 0]
MCGrants   == {1}
MCInvoices == {i1, i2}
MCEvents   == {e1}
=============================================================================
