----------------------- MODULE MCAutomationScheduler -----------------------
(* A small instance of AutomationScheduler for TLC. *)
EXTENDS AutomationScheduler

CONSTANT m1

OneManualRun == {m1}
EveryKind == { [kind |-> "once",     at |-> 1, every |-> 1],
               [kind |-> "cron",     at |-> 0, every |-> 1],
               [kind |-> "interval", at |-> 0, every |-> 1] }
=============================================================================
