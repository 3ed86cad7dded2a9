---------------------------- MODULE MCAgentQueue ----------------------------
(* Small instances of AgentQueue for TLC. *)
EXTENDS AgentQueue

CONSTANTS t1, t2

OneTask     == {t1}
TwoTasks    == {t1, t2}
NoTasks     == {}
SecondTask  == {t2}
NoGrants    == {}
OneFree     == [p \in Pools |-> IF p = "free" THEN 1 ELSE 0]
=============================================================================
