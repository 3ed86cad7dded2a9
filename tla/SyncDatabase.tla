---------------------------- MODULE SyncDatabase ----------------------------
(***************************************************************************)
(* What the synchronous database layer promises its callers (the headers   *)
(* of src/src/db/driver.ts and src/src/db/pg-worker.mjs): one call at a    *)
(* time, each executed at most once; a call that comes back with a result  *)
(* was executed and one that comes back with an error was not.  Only when  *)
(* the connection breaks is the outcome of the last call uncertain, and it *)
(* may even be decided later.  PgBridge implements this specification.     *)
(***************************************************************************)
EXTENDS Naturals

CONSTANT MaxCalls  \* bound on the calls that are made

VARIABLES
  calls,   \* the number of calls made, and the last one's number
  busy,    \* the last call has not come back
  answer,  \* how each call came back
  runs,    \* how often each call took effect in the database
  broken   \* the connection is closed

syncVars == <<calls, busy, answer, runs, broken>>

CallNumber == 1 .. MaxCalls
Answers    == {"none", "ok", "error", "uncertain"}

SyncInit ==
  /\ calls = 0
  /\ busy = FALSE
  /\ answer = [c \in CallNumber |-> "none"]
  /\ runs = [c \in CallNumber |-> 0]
  /\ broken = FALSE

Start ==
  /\ ~busy /\ ~broken /\ calls < MaxCalls
  /\ calls' = calls + 1
  /\ busy' = TRUE
  /\ UNCHANGED <<answer, runs, broken>>

\* The last call takes effect: once, and never after it came back decided.
Execute ==
  /\ calls > 0 /\ runs[calls] = 0
  /\ answer[calls] \in {"none", "uncertain"}
  /\ runs' = [runs EXCEPT ![calls] = 1]
  /\ UNCHANGED <<calls, busy, answer, broken>>

ComeBack(a) ==
  /\ busy
  /\ busy' = FALSE
  /\ answer' = [answer EXCEPT ![calls] = a]
  /\ UNCHANGED <<calls, runs>>

Return == busy /\ runs[calls] = 1 /\ ComeBack("ok") /\ UNCHANGED broken
Refuse == busy /\ runs[calls] = 0 /\ ComeBack("error") /\ UNCHANGED broken
Break  == ComeBack("uncertain") /\ broken' = TRUE

Close ==
  /\ ~busy /\ ~broken
  /\ broken' = TRUE
  /\ UNCHANGED <<calls, busy, answer, runs>>

SyncNext == Start \/ Execute \/ Return \/ Refuse \/ Break \/ Close
SyncSpec == SyncInit /\ [][SyncNext]_syncVars
=============================================================================
