--------------------------- MODULE MCWorkflowQueue ---------------------------
(* Small instances of WorkflowQueue for TLC. *)
EXTENDS WorkflowQueue

StepTasks    == (1 .. MaxAttempts) \X (1 .. StepCount)
\* Step 2 has no agent, hence step 3 is blocked and step 4 is not.
Branches     == [s \in 1 .. 4 |-> CASE s = 3 -> {2} [] s = 4 -> {1}
                                    [] OTHER -> {}]
SecondStep   == {2}
Chain        == [s \in 1 .. StepCount |-> IF s = 1 THEN {} ELSE {s - 1}]
NoSteps      == {}
NoGrants     == {}
ThreeCredits == [p \in Pools |-> IF p = "bonus" THEN 0
                                 ELSE IF p = "paid" THEN 1 ELSE 2]
=============================================================================
