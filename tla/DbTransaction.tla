--------------------------- MODULE DbTransaction ----------------------------
(***************************************************************************)
(* Database.transaction (src/src/db/driver.ts) over the calls of the       *)
(* synchronous database layer, on either engine.  Each SQL statement is    *)
(* one call of SyncDatabase: it comes back with a result, with an error,   *)
(* or, on PostgreSQL only, uncertain with the connection closed.           *)
(*                                                                         *)
(* A nested transaction() of the driver runs its callback in the outer     *)
(* one; one of the mission's database (src/src/mission/database.ts) sets a *)
(* savepoint, and an error in it undoes only the inner work.  The database *)
(* itself is external: an error aborts a PostgreSQL transaction (COMMIT    *)
(* then rolls back and reports success, ROLLBACK TO brings it back) and    *)
(* undoes only the statement on SQLite.                                    *)
(***************************************************************************)
EXTENDS Naturals, Sequences, SequencesExt

CONSTANTS
  Writes,  \* the statements the program may ever execute
  Setups,  \* engines and callbacks: is the engine PostgreSQL, not SQLite; may
           \* a callback catch the error of a statement and go on; may it catch
           \* that of a nested transaction() and go on
  MaxDepth \* savepoints within each other; none in the platform's database

ASSUME TransactionAssumption ==
  /\ Setups \subseteq [postgres : BOOLEAN, swallows : BOOLEAN, catches : BOOLEAN]
  /\ MaxDepth \in Nat

VARIABLES
  setup,      \* chosen once, when the process starts
  pc,         \* where transaction() is; "idle" outside of it
  inTx,       \* isTransaction: what the driver believes
  session,    \* external: the transaction state of the connection
  pending,    \* external: effects of the open transaction
  committed,  \* external: durable effects
  stack,      \* the savepoints of the nested transactions, innermost last,
              \* with what was pending and issued when each was set
  issued,     \* statements of the last transaction that came back "ok" and
              \* were not undone by a nested one
  undone,     \* history: statements that a nested transaction undid
  used,       \* statements that were ever executed
  result,     \* how the last transaction() ended
  gaveUp      \* the connection was given up

nestVars   == <<stack, undone>>
driverVars == <<pc, inTx, issued, used, result, gaveUp, nestVars>>
dbVars     == <<session, pending, committed>>
transactionVars == <<setup, driverVars, dbVars>>

Postgres == setup.postgres
Swallows == setup.swallows
Catches  == setup.catches

TransactionInit ==
  /\ setup \in Setups
  /\ pc = "idle" /\ inTx = FALSE
  /\ session = "none" /\ pending = {} /\ committed = {}
  /\ stack = <<>> /\ undone = {}
  /\ issued = {} /\ used = {} /\ result = "none" /\ gaveUp = FALSE

\* A call that times out closes the connection for good.
Uncertain == Postgres /\ gaveUp' = TRUE

\* transaction() is over: inTransaction is reset and the caller learns r.
Finish(r) == pc' = "idle" /\ inTx' = FALSE /\ result' = r

\* External: a statement takes effect in the open transaction, or for good.
TakeEffect(w) ==
  IF session = "open"
  THEN pending' = pending \cup {w} /\ UNCHANGED committed
  ELSE committed' = committed \cup {w} /\ UNCHANGED pending

\* External: what is durable after a COMMIT in this session.
AfterCommit == committed \cup (IF session = "open" THEN pending ELSE {})

-----------------------------------------------------------------------------
(* transaction().                                                          *)

\* BEGIN, outside the try block: if it fails transaction() throws at once.
BeginTransaction ==
  /\ pc = "idle" /\ ~gaveUp
  /\ issued' = {}
  /\ \/ /\ session' = "open"
        /\ pc' = "body" /\ inTx' = TRUE /\ result' = "none"
        /\ UNCHANGED gaveUp
     \/ Finish("threw") /\ UNCHANGED <<gaveUp, session>>
     \/ Finish("threw") /\ Uncertain /\ session' \in {session, "open"}
  /\ UNCHANGED <<pending, committed, used, nestVars>>

\* Where an error goes that the callback at this depth does not catch.
CatchBlock(depth) == IF depth = 0 THEN "rollback" ELSE "rollback_to"

\* The error of a statement reaches the callback, which passes it on unless
\* it is one that swallows errors.
CallbackGetsError == \/ pc' = CatchBlock(Len(stack))
                     \/ Swallows /\ UNCHANGED pc

\* That of a nested transaction() reaches the callback around it.
OuterGetsError(depth) == \/ pc' = CatchBlock(depth)
                         \/ Catches /\ pc' = "body"

\* A statement of the callback.
Execute(w) ==
  /\ pc = "body" /\ w \notin used
  /\ used' = used \cup {w}
  /\ \/ /\ session # "aborted" /\ ~gaveUp
        /\ TakeEffect(w)
        /\ issued' = issued \cup {w}
        /\ UNCHANGED <<pc, session, gaveUp>>
     \/ /\ session' = IF Postgres /\ ~gaveUp THEN "aborted" ELSE session
        /\ CallbackGetsError
        /\ UNCHANGED <<pending, committed, issued, gaveUp>>
     \/ /\ session # "aborted" /\ ~gaveUp /\ Uncertain
        /\ TakeEffect(w) \/ UNCHANGED <<pending, committed>>
        /\ CallbackGetsError
        /\ UNCHANGED <<session, issued>>
  /\ UNCHANGED <<inTx, result, nestVars>>

\* The callback throws an error of its own, or returns.
CallbackEnds ==
  /\ pc = "body"
  /\ pc' \in {CatchBlock(Len(stack)), IF stack = <<>> THEN "commit" ELSE "release"}
  /\ UNCHANGED <<inTx, issued, used, result, gaveUp, nestVars, dbVars>>

\* Mutant: the result is returned although COMMIT failed.
CommitIgnoresError ==
  /\ pc = "commit"
  /\ committed' \in {committed, AfterCommit}
  /\ session' = "none" /\ pending' = {}
  /\ Finish("returned")
  /\ UNCHANGED <<issued, used, gaveUp, nestVars>>

\* COMMIT.  In an aborted transaction it rolls back and still comes back ok;
\* a refused COMMIT ends the transaction on PostgreSQL only.
Commit ==
  /\ pc = "commit"
  /\ \/ /\ ~gaveUp
        /\ committed' = AfterCommit /\ session' = "none" /\ pending' = {}
        /\ Finish("returned")
        /\ UNCHANGED gaveUp
     \/ /\ pc' = "rollback"
        /\ IF Postgres /\ ~gaveUp
           THEN session' = "none" /\ pending' = {}
           ELSE UNCHANGED <<session, pending>>
        /\ UNCHANGED <<committed, gaveUp, inTx, result>>
     \/ /\ pc' = "rollback"
        /\ ~gaveUp /\ Uncertain
        /\ \/ committed' = AfterCommit /\ session' = "none" /\ pending' = {}
           \/ UNCHANGED dbVars
        /\ UNCHANGED <<inTx, result>>
  /\ UNCHANGED <<issued, used, nestVars>>

\* The catch block: ROLLBACK, whose own failure on PostgreSQL is ignored, and
\* the error is thrown on.
Rollback ==
  /\ pc = "rollback"
  /\ Finish("threw")
  /\ \/ ~gaveUp /\ session' = "none" /\ pending' = {} /\ UNCHANGED gaveUp
     \/ Uncertain /\ UNCHANGED <<session, pending>>
  /\ UNCHANGED <<committed, issued, used, nestVars>>

-----------------------------------------------------------------------------
(* A nested transaction() of the mission's database.                       *)

\* SAVEPOINT, outside the try block.
Nest ==
  /\ pc = "body" /\ Len(stack) < MaxDepth
  /\ \/ /\ session # "aborted" /\ ~gaveUp
        /\ stack' = Append(stack, [pending |-> pending, issued |-> issued])
        /\ UNCHANGED <<pc, gaveUp>>
     \/ /\ session = "aborted" \/ gaveUp
        /\ OuterGetsError(Len(stack))
        /\ UNCHANGED <<stack, gaveUp>>
     \/ /\ session # "aborted" /\ ~gaveUp /\ Uncertain
        /\ OuterGetsError(Len(stack))
        /\ UNCHANGED stack
  /\ UNCHANGED <<inTx, issued, used, result, undone, dbVars>>

\* RELEASE, inside the try block: it fails where an error was swallowed.
Release ==
  /\ pc = "release"
  /\ \/ /\ session # "aborted" /\ ~gaveUp
        /\ pc' = "body" /\ stack' = Front(stack)
        /\ UNCHANGED gaveUp
     \/ /\ session = "aborted" \/ gaveUp
        /\ pc' = "rollback_to"
        /\ UNCHANGED <<stack, gaveUp>>
     \/ /\ session # "aborted" /\ ~gaveUp /\ Uncertain
        /\ pc' = "rollback_to"
        /\ UNCHANGED stack
  /\ UNCHANGED <<inTx, issued, used, result, undone, dbVars>>

\* Mutant: the savepoint is released without going back to it.
ReleaseOnly ==
  /\ pc = "rollback_to"
  /\ stack' = Front(stack)
  /\ issued' = Last(stack).issued
  /\ undone' = undone \cup (issued \ Last(stack).issued)
  /\ OuterGetsError(Len(stack) - 1)
  /\ UNCHANGED <<inTx, used, result, gaveUp, dbVars>>

\* The catch block: back to the savepoint, whose own failure is ignored, and
\* the error is thrown on.  ROLLBACK TO ends the abortion of the transaction.
RollbackTo ==
  /\ pc = "rollback_to"
  /\ \/ /\ ~gaveUp
        /\ session' = "open" /\ pending' = Last(stack).pending
        /\ issued' = Last(stack).issued
        /\ undone' = undone \cup (issued \ Last(stack).issued)
        /\ UNCHANGED gaveUp
     \/ Uncertain /\ UNCHANGED <<session, pending, issued, undone>>
  /\ stack' = Front(stack)
  /\ OuterGetsError(Len(stack) - 1)
  /\ UNCHANGED <<inTx, used, result, committed>>

-----------------------------------------------------------------------------
\* A statement outside of transaction(): it commits by itself, unless the
\* connection was left in a transaction.
ExecutePlain(w) ==
  /\ pc = "idle" /\ ~gaveUp /\ w \notin used
  /\ used' = used \cup {w}
  /\ TakeEffect(w)
  /\ UNCHANGED <<pc, inTx, issued, result, gaveUp, session, nestVars>>

\* External: the server notices that its client is gone.
Disconnect ==
  /\ gaveUp /\ session # "none"
  /\ session' = "none" /\ pending' = {}
  /\ UNCHANGED <<driverVars, committed>>

TransactionNext ==
  /\ UNCHANGED setup
  /\ \/ BeginTransaction \/ CallbackEnds \/ Commit \/ Rollback \/ Disconnect
     \/ Nest \/ Release \/ RollbackTo
     \/ \E w \in Writes : Execute(w) \/ ExecutePlain(w)

TransactionSpec == TransactionInit /\ [][TransactionNext]_transactionVars

-----------------------------------------------------------------------------
\* Types; isTransaction is set exactly inside of transaction().
TransactionTypeOK ==
  /\ setup \in Setups
  /\ pc \in {"idle", "body", "commit", "rollback", "release", "rollback_to"}
  /\ inTx = (pc # "idle") /\ gaveUp \in BOOLEAN
  /\ session \in {"none", "open", "aborted"}
  /\ pending \subseteq used /\ committed \subseteq used /\ issued \subseteq used
  /\ used \subseteq Writes /\ undone \subseteq used
  /\ stack \in Seq([pending : SUBSET Writes, issued : SUBSET Writes])
  /\ Len(stack) <= MaxDepth
  /\ result \in {"none", "returned", "threw"}

\* transaction() returned: every statement that it reported to the callback
\* as executed, and that no nested transaction undid, is durable, even if the
\* callback caught the error of a nested one and went on.
ReturnedIsDurable == pc = "idle" /\ result = "returned" => issued \subseteq committed

\* transaction() threw and the connection is still in use: nothing of the
\* transaction is durable.
ThrewLeavesNothing ==
  pc = "idle" /\ result = "threw" /\ ~gaveUp => issued \cap committed = {}

\* No transaction is left open on a connection that is still used: a later
\* statement would land in one that nobody commits.
NoLeftoverTransaction == pc = "idle" /\ ~gaveUp => session = "none"

\* What a nested transaction undid never becomes durable ("an inner failure
\* rolls back only the inner work", mission/database.ts).
UndoneStaysUndone == undone \cap (pending \cup committed) = {}

\* Nothing is left over from a transaction, outer or nested, that failed.
FailedLeavesNothing == NoLeftoverTransaction /\ UndoneStaysUndone
=============================================================================
