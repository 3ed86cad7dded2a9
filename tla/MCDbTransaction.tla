--------------------------- MODULE MCDbTransaction ---------------------------
(* Small instances of DbTransaction for TLC. *)
EXTENDS DbTransaction

CONSTANTS w1, w2, w3

ThreeWrites == {w1, w2, w3}

\* Everything but callbacks that swallow errors on PostgreSQL, and only that.
AllSetups    == [postgres : BOOLEAN, swallows : BOOLEAN, catches : BOOLEAN]
SwallowSetup == {s \in AllSetups : s.postgres /\ s.swallows}
SoundSetups  == AllSetups \ SwallowSetup
=============================================================================
