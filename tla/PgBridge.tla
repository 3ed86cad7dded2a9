------------------------------ MODULE PgBridge ------------------------------
(***************************************************************************)
(* The synchronous PostgreSQL bridge: the main thread                      *)
(* (pgBridge in src/src/db/driver.ts) posts a request in shared memory and *)
(* blocks; a worker thread (src/src/db/pg-worker.mjs) owns the client,     *)
(* executes the request and publishes the reply.  They share one state     *)
(* word, accessed with Atomics; every access of it is a step, and so are   *)
(* the notify after a store and the wait before a sleep.                   *)
(*                                                                         *)
(* A request or reply is represented by the number of its call.  The       *)
(* PostgreSQL server is external: a query succeeds, fails without effect,  *)
(* hangs, or loses the connection with or without effect.                  *)
(***************************************************************************)
EXTENDS Naturals

CONSTANT MaxCalls  \* bound on the calls of the main thread

ASSUME BridgeAssumption == MaxCalls \in Nat \ {0}

VARIABLES
  state,     \* shared state[0]
  reqBuf,    \* shared request buffer and state[1]: the call it belongs to
  resBuf,    \* shared response buffer and state[2]: the call and its outcome
  main,      \* where the main thread is in pgBridge
  call,      \* number of the last call
  status,    \* main's local copy of the state word
  expired,   \* the deadline of the call has passed
  closed,    \* pgClosed: refused further calls, terminate() was called
  worker,    \* where the worker thread is
  payload,   \* worker's local copy of the request
  outcome,   \* worker's local result: the query succeeded
  runs,      \* external: how often a call took effect at the server
  answer     \* how each call came back to its caller

mainVars   == <<main, call, status, expired, closed, answer>>
workerVars == <<worker, payload, outcome, runs>>
sharedVars == <<state, reqBuf, resBuf>>
vars       == <<mainVars, workerVars, sharedVars>>

CallNumber  == 1 .. MaxCalls
States      == {"idle", "req", "done", "error", "fatal"}
MainPC      == {"idle", "check", "encode", "post", "notify", "load", "wait",
                "asleep", "read", "release"}
WorkerPC    == {"connect", "fatal_reply", "fatal_post", "fatal_notify",
                "wait", "asleep", "test", "decode", "query", "reply", "post",
                "notify", "dead"}
FatalReply  == [of |-> 0, ok |-> FALSE]
Replies     == [of : 0 .. MaxCalls, ok : BOOLEAN]
Answers     == {"none", "ok", "error", "uncertain"}

Init ==
  /\ state = "idle" /\ reqBuf = 0 /\ resBuf = FatalReply
  /\ main = "idle" /\ call = 0 /\ status = "idle"
  /\ expired = FALSE /\ closed = FALSE
  /\ worker = "connect" /\ payload = 0 /\ outcome = FALSE
  /\ runs = [c \in CallNumber |-> 0]
  /\ answer = [c \in CallNumber |-> "none"]

-----------------------------------------------------------------------------
(* The main thread.                                                        *)

MainGoes(to) == main' = to /\ UNCHANGED <<workerVars, reqBuf, resBuf>>

\* The call comes back to its caller with an error or a result.
Answer(a) == MainGoes("idle") /\ answer' = [answer EXCEPT ![call] = a]

\* Mutant: a call that timed out leaves the connection open.
GiveUpKeepsOpen ==
  /\ Answer("uncertain")
  /\ UNCHANGED <<call, status, expired, closed, state>>

\* pgClosed is set, the worker terminated and an error thrown.
GiveUp ==
  /\ Answer("uncertain")
  /\ closed' = TRUE
  /\ UNCHANGED <<call, status, expired, state>>

StartCall ==
  /\ main = "idle" /\ ~closed /\ call < MaxCalls
  /\ call' = call + 1
  /\ expired' = FALSE
  /\ MainGoes("check")
  /\ UNCHANGED <<status, closed, answer, state>>

CheckFatal ==
  /\ main = "check"
  /\ \/ state = "fatal" /\ GiveUp
     \/ /\ state # "fatal"
        /\ MainGoes("encode")
        /\ UNCHANGED <<call, status, expired, closed, answer, state>>

RequestTooLarge ==
  /\ main = "encode"
  /\ Answer("error")
  /\ UNCHANGED <<call, status, expired, closed, state>>

EncodeRequest ==
  /\ main = "encode"
  /\ main' = "post"
  /\ reqBuf' = call
  /\ UNCHANGED <<call, status, expired, closed, answer, state, resBuf,
                 workerVars>>

PostRequest ==
  /\ main = "post"
  /\ state' = "req"
  /\ MainGoes("notify")
  /\ UNCHANGED <<call, status, expired, closed, answer>>

NotifyWorker ==
  /\ main = "notify"
  /\ main' = "load"
  /\ worker' = IF worker = "asleep" THEN "test" ELSE worker
  /\ UNCHANGED <<call, status, expired, closed, answer, payload, outcome,
                 runs, sharedVars>>

LoadState ==
  /\ main = "load"
  /\ status' = state
  /\ MainGoes(IF state = "req" THEN "wait" ELSE "read")
  /\ UNCHANGED <<call, expired, closed, answer, state>>

\* Mutant: the deadline is not looked at between two waits.
WaitForReplyOnly ==
  /\ main = "wait"
  /\ MainGoes(IF state = "req" THEN "asleep" ELSE "load")
  /\ UNCHANGED <<call, status, expired, closed, answer, state>>

\* Atomics.wait(state, 0, 1, remaining), behind the check of the deadline.
WaitForReply ==
  /\ main = "wait"
  /\ \/ expired /\ GiveUp
     \/ /\ ~expired
        /\ MainGoes(IF state = "req" THEN "asleep" ELSE "load")
        /\ UNCHANGED <<call, status, expired, closed, answer, state>>

\* Where main goes on when Atomics.wait returns: "notification is not
\* completion", the state is loaded again.
AfterWake == "load"

\* The time of the call is up; a wait in progress returns.
DeadlinePasses ==
  /\ main \in {"notify", "load", "wait", "asleep"}
  /\ ~expired
  /\ expired' = TRUE
  /\ MainGoes(IF main = "asleep" THEN AfterWake ELSE main)
  /\ UNCHANGED <<call, status, closed, answer, state>>

\* The reply is decoded into a local copy.
ReadReply ==
  /\ main = "read"
  /\ \/ status = "fatal" /\ GiveUp
     \/ /\ status # "fatal"
        /\ MainGoes("release")
        /\ UNCHANGED <<call, status, expired, closed, answer, state>>

\* The copy is acknowledged and returned, or thrown if it holds an error.
ReleaseReply ==
  /\ main = "release"
  /\ state' = "idle"
  /\ Answer(IF resBuf.ok THEN "ok" ELSE "error")
  /\ UNCHANGED <<call, status, expired, closed>>

CloseBridge ==
  /\ main = "idle" /\ ~closed
  /\ closed' = TRUE
  /\ UNCHANGED <<main, call, status, expired, answer, workerVars, sharedVars>>

MainStep ==
  \/ StartCall \/ CheckFatal \/ RequestTooLarge \/ EncodeRequest
  \/ PostRequest \/ NotifyWorker \/ LoadState \/ WaitForReply
  \/ ReadReply \/ ReleaseReply \/ CloseBridge

-----------------------------------------------------------------------------
(* The worker thread.                                                      *)

WorkerGoes(to) == worker' = to /\ UNCHANGED <<mainVars, reqBuf>>

\* All bounded connection attempts together.
Connect ==
  /\ worker = "connect"
  /\ \E to \in {"wait", "fatal_reply"} : WorkerGoes(to)
  /\ UNCHANGED <<payload, outcome, runs, state, resBuf>>

WriteFatal ==
  /\ worker = "fatal_reply"
  /\ resBuf' = FatalReply
  /\ WorkerGoes("fatal_post")
  /\ UNCHANGED <<payload, outcome, runs, state>>

PostFatal ==
  /\ worker = "fatal_post"
  /\ state' = "fatal"
  /\ WorkerGoes("fatal_notify")
  /\ UNCHANGED <<payload, outcome, runs, resBuf>>

\* Atomics.wait(state, 0, IDLE): no timeout.
WaitForRequest ==
  /\ worker = "wait"
  /\ WorkerGoes(IF state = "idle" THEN "asleep" ELSE "test")
  /\ UNCHANGED <<payload, outcome, runs, state, resBuf>>

TestRequest ==
  /\ worker = "test"
  /\ WorkerGoes(IF state = "req" THEN "decode" ELSE "wait")
  /\ UNCHANGED <<payload, outcome, runs, state, resBuf>>

DecodeRequest ==
  /\ worker = "decode"
  /\ payload' = reqBuf
  /\ WorkerGoes("query")
  /\ UNCHANGED <<outcome, runs, state, resBuf>>

\* client.query; a result over the cap counts as a failure (only reads can
\* produce one).
Query ==
  /\ worker = "query"
  /\ \E ok \in BOOLEAN :
       /\ outcome' = ok
       /\ runs' = IF ok THEN [runs EXCEPT ![payload] = @ + 1] ELSE runs
  /\ WorkerGoes("reply")
  /\ UNCHANGED <<payload, state, resBuf>>

\* The connection drops during a query: the client's error event has no
\* listener and ends the thread.
LoseConnection ==
  /\ worker = "query"
  /\ \E ok \in BOOLEAN :
       runs' = IF ok THEN [runs EXCEPT ![payload] = @ + 1] ELSE runs
  /\ WorkerGoes("dead")
  /\ UNCHANGED <<payload, outcome, state, resBuf>>

WriteReply ==
  /\ worker = "reply"
  /\ resBuf' = [of |-> payload, ok |-> outcome]
  /\ WorkerGoes("post")
  /\ UNCHANGED <<payload, outcome, runs, state>>

PostReply ==
  /\ worker = "post"
  /\ state' = IF outcome THEN "done" ELSE "error"
  /\ WorkerGoes("notify")
  /\ UNCHANGED <<payload, outcome, runs, resBuf>>

\* Wakes main if it sleeps, even if the reply was picked up without it.
NotifyMain ==
  /\ worker \in {"notify", "fatal_notify"}
  /\ worker' = IF worker = "notify" THEN "wait" ELSE "dead"
  /\ main' = IF main = "asleep" THEN AfterWake ELSE main
  /\ UNCHANGED <<call, status, expired, closed, answer, payload, outcome, runs,
                 sharedVars>>

\* terminate() takes effect between any two steps of the worker.
Terminate ==
  /\ closed /\ worker # "dead"
  /\ WorkerGoes("dead")
  /\ UNCHANGED <<payload, outcome, runs, state, resBuf>>

WorkerStep ==
  \/ Connect \/ WriteFatal \/ PostFatal \/ WaitForRequest \/ TestRequest
  \/ DecodeRequest \/ Query \/ LoseConnection \/ WriteReply \/ PostReply
  \/ NotifyMain \/ Terminate

-----------------------------------------------------------------------------
Next == MainStep \/ DeadlinePasses \/ WorkerStep

\* The main thread runs until the call comes back and its deadline comes;
\* nothing is assumed of the worker or of PostgreSQL.
Fairness == /\ WF_vars(MainStep /\ main # "idle")
            /\ WF_vars(DeadlinePasses)

Spec     == Init /\ [][Next]_vars
FairSpec == Spec /\ Fairness

-----------------------------------------------------------------------------
\* Types; the server executes no call twice.
BridgeTypeOK ==
  /\ state \in States /\ reqBuf \in 0 .. MaxCalls /\ resBuf \in Replies
  /\ main \in MainPC /\ call \in 0 .. MaxCalls /\ status \in States
  /\ expired \in BOOLEAN /\ closed \in BOOLEAN
  /\ worker \in WorkerPC /\ payload \in 0 .. MaxCalls /\ outcome \in BOOLEAN
  /\ runs \in [CallNumber -> {0, 1}]
  /\ answer \in [CallNumber -> Answers]

\* The worker has taken a request and not yet published its reply.
Working == worker \in {"decode", "query", "reply", "post"}

\* The reply a call returns is its own, never the one an earlier call left
\* behind or a wake-up meant for an earlier call announced.
ReplyIsOwn == main = "release" => resBuf.of = call

\* When the next call may start, nothing of the earlier ones is under way: a
\* bridge whose last call is uncertain is closed, so that request is neither
\* overwritten nor answered late.
OpenMeansSettled ==
  main = "idle" /\ ~closed => ~Working /\ state # "req"

\* No wake-up is lost: main sleeps on a published reply only while the worker
\* has yet to notify it, and the worker on a posted request only while main
\* has.  Otherwise main would sleep until its deadline and lose the answer.
NoLostWakeup ==
  /\ main = "asleep" /\ state # "req" => worker \in {"notify", "fatal_notify"}
  /\ worker = "asleep" /\ state # "idle" => main = "notify"

\* The bridge is the synchronous database its callers think it is.
SyncView == INSTANCE SyncDatabase
              WITH calls <- call, busy <- main # "idle", broken <- closed
ImplementsSyncDatabase == SyncView!SyncSpec

\* Every call comes back, even from a dead worker or a server that hangs.
CallsReturn == main # "idle" ~> main = "idle"
=============================================================================
