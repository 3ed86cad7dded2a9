------------------------- MODULE MCEconomyTreasury -------------------------
(* Small instances of EconomyTreasury for TLC: two processes, an agent, a    *)
(* payment that is entered twice, and decisions that want more than it.  The *)
(* resource may cost less than approved, just what is left of the quota.     *)
EXTENDS EconomyTreasury, TLC

CONSTANTS p1, p2, a1, r1, r2, t1, v1, x1, u1, u2, s1, w1

MCProcesses == {p1, p2}
Symmetry    == Permutations(MCProcesses)

MCAgentOf == [i \in Items |-> IF i \in Settlements THEN Nobody ELSE a1]
MCCentsOf == [i \in Items \ Settlements |-> IF i \in Receipts \cup {t1, x1} THEN 2 ELSE 1]
MCSameAs  == [r \in Receipts |-> Receipts]
MCQuota   == [a \in Earners |-> 2]
=============================================================================
