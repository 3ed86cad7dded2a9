-------------------------- MODULE MCWorkExecution --------------------------
(* A small instance of WorkExecution for TLC: one opportunity between both   *)
(* schedulers of the process and a request of the owner.                     *)
EXTENDS WorkExecution

CONSTANTS o1, economy, workforce, owner, a1, a2

MCOpportunities == {o1}
MCSchedulers    == {economy, workforce}
MCOwners        == {owner}
MCAgents        == {a1, a2}
=============================================================================
