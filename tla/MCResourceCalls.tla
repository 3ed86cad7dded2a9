-------------------------- MODULE MCResourceCalls --------------------------
(* Small instance of ResourceCalls for TLC: two messages of one agent, two   *)
(* workers on its queue, quota and funds for both calls and no more.         *)
EXTENDS ResourceCalls, TLC

CONSTANTS j1, j2, w1, w2

MCJobs  == {j1, j2}
MCWorkers == {w1, w2}
Symmetry == Permutations(MCJobs) \cup Permutations(MCWorkers)
MCUnits == [j \in MCJobs |-> 1]
MCCost  == [j \in MCJobs |-> 1]
MCOutcomes == {[outcome |-> "succeeded", units |-> 1],
               [outcome |-> "failed", units |-> 2]}
=============================================================================
