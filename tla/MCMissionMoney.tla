--------------------------- MODULE MCMissionMoney ---------------------------
(* Small instances of MissionMoney for TLC: two expenses of one agent that   *)
(* contend for its limit; a withdrawal of the owner that is sent, asked      *)
(* about and returned while a customer takes a payment back.                 *)
EXTENDS MissionMoney

CONSTANTS a1, treasury, x1, x2, w1, e1, e2, server, worker

MCAgents   == {a1}
MCEarnings == {e1}
MCWorth    == [e \in MCEarnings |-> 3]
MCCallers  == {server, worker}
MCWorker   == {worker}
MCAuto     == [a \in MCAgents |-> 2]
MCLimit    == [a \in MCAgents |-> 2]

Contending == {x1, x2}
Withdrawal == {w1}
OneCaller  == {worker}
Approval   == {x2}

MCAccount  == [o \in {x1, x2} |-> a1]
MCAmount   == [o \in {x1, x2} |-> 1]
MCMaxCost  == [o \in {x1, x2} |-> IF o = x1 THEN 2 ELSE 1]
WAccount   == [o \in {w1} |-> treasury]
WAmount    == [o \in {w1} |-> 1]
TwoEarnings == {e1, e2}
TwoWorth   == [e \in {e1, e2} |-> 2]
WMaxCost   == [o \in {w1} |-> 2]
=============================================================================
