------------------------------- MODULE Totals -------------------------------
(* The SUM(...) of a column over a set of rows, which the accounts, quotas    *)
(* and ledgers of the mission compare with each other.                        *)
EXTENDS Integers, FiniteSets, FiniteSetsExt

Total(f, S) == MapThenSumSet(LAMBDA x : f[x], S)
=============================================================================
