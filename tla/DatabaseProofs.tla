--------------------------- MODULE DatabaseProofs ---------------------------
(***************************************************************************)
(* Proofs about the two layers of the database access.  PgBridge, for any  *)
(* number of calls: the handshake never hands a call another call's reply, *)
(* loses no wake-up, and implements the synchronous database of            *)
(* SyncDatabase.  DbTransaction, for any set of statements and either      *)
(* engine: what a transaction() that returned or threw has left behind.    *)
(***************************************************************************)
EXTENDS PgBridge, DbTransaction, SequenceTheorems, TLAPS

\* What is known of the main thread in each of its places.
MainInv ==
  /\ main # "idle" => call > 0 /\ ~closed /\ answer[call] = "none"
  /\ main \in {"check", "encode", "post"} =>
       runs[call] = 0 /\ ~Working /\ state \in {"idle", "fatal"}
  /\ main = "post" => reqBuf = call
  /\ main \in {"notify", "load", "wait", "asleep"} => state # "idle"
  /\ main = "read" => status = state /\ state \in {"done", "error", "fatal"}
  /\ main = "release" => state \in {"done", "error"}
  /\ main = "idle" /\ ~closed => ~Working /\ state \in {"idle", "fatal"}

\* What each value of the state word says of the last call.
StateInv ==
  /\ state = "req" =>
       /\ call > 0 /\ reqBuf = call
       /\ answer[call] \in {"none", "uncertain"}
       /\ worker \notin {"reply", "post", "dead"} => runs[call] = 0
  /\ state \in {"done", "error"} =>
       /\ call > 0 /\ resBuf.of = call
       /\ resBuf.ok <=> runs[call] = 1
       /\ worker \in {"notify", "wait", "test", "dead"}
  /\ state = "fatal" => worker \in {"fatal_notify", "dead"}
  /\ worker \in {"connect", "fatal_reply", "fatal_post"} =>
       state \in {"idle", "req"}

\* What is known of the worker while it works on a request.
WorkerInv ==
  /\ Working => state = "req"
  /\ worker \in {"query", "reply", "post"} => payload = call
  /\ worker \in {"reply", "post"} => (outcome <=> runs[call] = 1)
  /\ worker = "post" => resBuf.of = call /\ (resBuf.ok <=> outcome)

\* Calls that were not made yet left no trace.
FreshCalls == \A c \in CallNumber : c > call => runs[c] = 0 /\ answer[c] = "none"

BridgeInv ==
  /\ BridgeTypeOK /\ MainInv /\ StateInv /\ WorkerInv /\ NoLostWakeup
  /\ FreshCalls

-----------------------------------------------------------------------------
\* BridgeInv holds before the first call.
LEMMA BridgeInvInit == Init => BridgeInv
<1>  SUFFICES ASSUME Init PROVE BridgeInv
  OBVIOUS
<1>1. BridgeTypeOK
  <2>1. resBuf \in Replies
    BY BridgeAssumption DEF BridgeAssumption, Init, Replies, FatalReply
  <2>2. runs \in [CallNumber -> {0, 1}] /\ answer \in [CallNumber -> Answers]
    BY DEF Init, Answers
  <2>3. /\ state \in States /\ main \in MainPC /\ status \in States
        /\ worker \in WorkerPC
    BY DEF Init, States, MainPC, WorkerPC
  <2>4. /\ reqBuf \in 0 .. MaxCalls /\ call \in 0 .. MaxCalls
        /\ payload \in 0 .. MaxCalls
    BY BridgeAssumption DEF BridgeAssumption, Init
  <2>5. expired \in BOOLEAN /\ closed \in BOOLEAN /\ outcome \in BOOLEAN
    BY DEF Init
  <2>  QED  BY <2>1, <2>2, <2>3, <2>4, <2>5 DEF BridgeTypeOK
<1>2. MainInv /\ StateInv /\ WorkerInv /\ NoLostWakeup
  BY DEF Init, MainInv, StateInv, WorkerInv, NoLostWakeup, Working
<1>3. FreshCalls
  BY DEF Init, FreshCalls
<1>  QED  BY <1>1, <1>2, <1>3 DEF BridgeInv

\* Giving up preserves BridgeInv.
LEMMA GiveUpKeepsInv ==
  ASSUME BridgeInv, GiveUp, main \in {"check", "wait", "read"}
  PROVE  BridgeInv'
<1>  USE DEF BridgeInv, GiveUp, Answer, MainGoes, workerVars, BridgeTypeOK
<1>1. call \in CallNumber /\ answer[call] = "none"
  BY DEF MainInv, CallNumber
<1>2. BridgeTypeOK'
  BY <1>1 DEF MainPC, Answers
<1>3. MainInv'
  BY DEF MainInv
<1>4. StateInv'
  BY <1>1 DEF StateInv
<1>5. WorkerInv' /\ NoLostWakeup'
  BY DEF WorkerInv, Working, NoLostWakeup, MainInv
<1>6. FreshCalls'
  BY <1>1 DEF FreshCalls, CallNumber
<1>  QED  BY <1>2, <1>3, <1>4, <1>5, <1>6

\* Every step of the main thread preserves BridgeInv.
LEMMA MainStepKeepsInv ==
  ASSUME BridgeInv, MainStep
  PROVE  BridgeInv'
<1>  USE BridgeAssumption
     DEF BridgeAssumption, BridgeInv, BridgeTypeOK, MainInv, StateInv,
         WorkerInv, NoLostWakeup, FreshCalls, Working, States, MainPC,
         WorkerPC, Replies, Answers, CallNumber, mainVars, workerVars,
         sharedVars, MainGoes, Answer
<1>1. CASE StartCall
  <2>1. call + 1 \in CallNumber /\ runs[call + 1] = 0 /\ answer[call + 1] = "none"
    BY <1>1 DEF StartCall
  <2>2. BridgeTypeOK'
    <3>1. call' \in 0 .. MaxCalls /\ expired' = FALSE /\ main' = "check"
      BY <1>1 DEF StartCall
    <3>  QED  BY <1>1, <3>1 DEF StartCall
  <2>3. MainInv' /\ StateInv' /\ WorkerInv' /\ NoLostWakeup'
    BY <1>1, <2>1 DEF StartCall
  <2>4. FreshCalls'
    BY <1>1 DEF StartCall
  <2>  QED  BY <2>2, <2>3, <2>4
<1>2. CASE CheckFatal
  BY <1>2, GiveUpKeepsInv DEF CheckFatal
<1>3. CASE RequestTooLarge
  BY <1>3 DEF RequestTooLarge
<1>4. CASE EncodeRequest
  BY <1>4 DEF EncodeRequest
<1>5. CASE PostRequest
  BY <1>5 DEF PostRequest
<1>6. CASE NotifyWorker
  BY <1>6 DEF NotifyWorker
<1>7. CASE LoadState
  BY <1>7 DEF LoadState
<1>8. CASE WaitForReply
  BY <1>8, GiveUpKeepsInv DEF WaitForReply
<1>9. CASE ReadReply
  BY <1>9, GiveUpKeepsInv DEF ReadReply
<1>10. CASE ReleaseReply
  BY <1>10 DEF ReleaseReply
<1>11. CASE CloseBridge
  BY <1>11 DEF CloseBridge
<1>  QED
  BY <1>1, <1>2, <1>3, <1>4, <1>5, <1>6, <1>7, <1>8, <1>9, <1>10, <1>11
     DEF MainStep

\* So does every step of the worker.
LEMMA WorkerStepKeepsInv ==
  ASSUME BridgeInv, WorkerStep
  PROVE  BridgeInv'
<1>  USE BridgeAssumption
     DEF BridgeAssumption, BridgeInv, BridgeTypeOK, MainInv, StateInv,
         WorkerInv, NoLostWakeup, FreshCalls, Working, States, MainPC,
         WorkerPC, Replies, Answers, CallNumber, mainVars, workerVars,
         sharedVars, WorkerGoes
<1>1. CASE Connect
  BY <1>1 DEF Connect
<1>2. CASE WriteFatal
  BY <1>2 DEF WriteFatal, FatalReply
<1>3. CASE PostFatal
  BY <1>3 DEF PostFatal
<1>4. CASE WaitForRequest
  BY <1>4 DEF WaitForRequest
<1>5. CASE TestRequest
  BY <1>5 DEF TestRequest
<1>6. CASE DecodeRequest
  BY <1>6 DEF DecodeRequest
<1>7. CASE Query
  BY <1>7 DEF Query
<1>8. CASE LoseConnection
  BY <1>8 DEF LoseConnection
<1>9. CASE WriteReply
  BY <1>9 DEF WriteReply
<1>10. CASE PostReply
  BY <1>10 DEF PostReply
<1>11. CASE NotifyMain
  BY <1>11 DEF NotifyMain, AfterWake
<1>12. CASE Terminate
  BY <1>12 DEF Terminate
<1>  QED
  BY <1>1, <1>2, <1>3, <1>4, <1>5, <1>6, <1>7, <1>8, <1>9, <1>10, <1>11,
     <1>12 DEF WorkerStep

\* The inductive invariant.
LEMMA BridgeInvariant == Spec => []BridgeInv
<1>1. ASSUME BridgeInv, [Next]_vars PROVE BridgeInv'
  <2>1. CASE UNCHANGED vars
    BY <1>1, <2>1 DEF vars, mainVars, workerVars, sharedVars, BridgeInv,
       BridgeTypeOK, MainInv, StateInv, WorkerInv, NoLostWakeup, FreshCalls,
       Working
  <2>2. CASE DeadlinePasses
    BY <1>1, <2>2 DEF DeadlinePasses, AfterWake, MainGoes, mainVars,
       workerVars, sharedVars, BridgeInv, BridgeTypeOK, MainPC, MainInv,
       StateInv, WorkerInv, NoLostWakeup, FreshCalls, Working
  <2>  QED
    BY <1>1, <2>1, <2>2, MainStepKeepsInv, WorkerStepKeepsInv DEF Next
<1>  QED  BY <1>1, BridgeInvInit, PTL DEF Spec

-----------------------------------------------------------------------------
\* Types; the server executes no call twice.
THEOREM BridgeTypeCorrect == Spec => []BridgeTypeOK
<1>1. BridgeInv => BridgeTypeOK
  BY DEF BridgeInv
<1>  QED  BY <1>1, BridgeInvariant, PTL

\* A call only ever returns its own reply.
THEOREM BridgeReplyIsOwn == Spec => []ReplyIsOwn
<1>1. BridgeInv => ReplyIsOwn
  BY DEF BridgeInv, MainInv, StateInv, ReplyIsOwn
<1>  QED  BY <1>1, BridgeInvariant, PTL

\* Between two calls of an open bridge nothing is under way.
THEOREM BridgeOpenMeansSettled == Spec => []OpenMeansSettled
<1>1. BridgeInv => OpenMeansSettled
  BY DEF BridgeInv, MainInv, OpenMeansSettled
<1>  QED  BY <1>1, BridgeInvariant, PTL

\* Neither thread sleeps through the other's store.
THEOREM BridgeLosesNoWakeup == Spec => []NoLostWakeup
<1>1. BridgeInv => NoLostWakeup
  BY DEF BridgeInv
<1>  QED  BY <1>1, BridgeInvariant, PTL

-----------------------------------------------------------------------------
\* A step of the bridge is a step of the synchronous database or a stutter.
LEMMA BridgeStepRefines ==
  ASSUME BridgeInv, [Next]_vars
  PROVE  [SyncView!SyncNext]_(SyncView!syncVars)
<1>  USE DEF SyncView!syncVars, mainVars, workerVars, sharedVars, MainGoes,
             WorkerGoes, Answer
<1>  USE DEF BridgeInv
<1>1. CASE UNCHANGED vars
  BY <1>1 DEF vars
<1>2. CASE StartCall
  <2>1. SyncView!Start
    BY <1>2 DEF StartCall, SyncView!Start
  <2>  QED  BY <2>1 DEF SyncView!SyncNext
<1>3. ASSUME GiveUp, main # "idle" PROVE SyncView!SyncNext
  <2>1. SyncView!Break
    BY <1>3 DEF GiveUp, SyncView!Break, SyncView!ComeBack
  <2>  QED  BY <2>1 DEF SyncView!SyncNext
<1>4. CASE CheckFatal \/ WaitForReply \/ ReadReply
  BY <1>3, <1>4 DEF CheckFatal, WaitForReply, ReadReply
<1>5. CASE RequestTooLarge
  <2>1. SyncView!Refuse
    BY <1>5 DEF RequestTooLarge, MainInv, SyncView!Refuse, SyncView!ComeBack
  <2>  QED  BY <2>1 DEF SyncView!SyncNext
<1>6. CASE ReleaseReply
  <2>1. CASE resBuf.ok
    <3>1. SyncView!Return
      BY <1>6, <2>1 DEF ReleaseReply, MainInv, StateInv, SyncView!Return,
         SyncView!ComeBack
    <3>  QED  BY <3>1 DEF SyncView!SyncNext
  <2>2. CASE ~resBuf.ok
    <3>1. runs[call] = 0
      BY <1>6, <2>2 DEF ReleaseReply, MainInv, StateInv, BridgeTypeOK,
         CallNumber
    <3>2. SyncView!Refuse
      BY <1>6, <2>2, <3>1 DEF ReleaseReply, SyncView!Refuse,
         SyncView!ComeBack
    <3>  QED  BY <3>2 DEF SyncView!SyncNext
  <2>  QED  BY <2>1, <2>2
<1>7. CASE CloseBridge
  <2>1. SyncView!Close
    BY <1>7 DEF CloseBridge, SyncView!Close
  <2>  QED  BY <2>1 DEF SyncView!SyncNext
<1>8. CASE Query \/ LoseConnection
  <2>1. /\ call > 0 /\ runs[call] = 0 /\ payload = call
        /\ answer[call] \in {"none", "uncertain"}
        /\ call \in CallNumber
    BY <1>8 DEF Query, LoseConnection, WorkerInv, StateInv, Working,
       BridgeTypeOK, CallNumber
  <2>2. UNCHANGED <<main, call, answer, closed>>
    BY <1>8 DEF Query, LoseConnection
  <2>3. runs' = runs \/ runs' = [runs EXCEPT ![call] = 1]
    BY <1>8, <2>1 DEF Query, LoseConnection
  <2>4. CASE runs' = [runs EXCEPT ![call] = 1]
    <3>1. SyncView!Execute
      BY <2>1, <2>2, <2>4 DEF SyncView!Execute
    <3>  QED  BY <3>1 DEF SyncView!SyncNext
  <2>  QED  BY <2>2, <2>3, <2>4
<1>9. CASE EncodeRequest \/ PostRequest \/ NotifyWorker \/ LoadState
           \/ DeadlinePasses
  BY <1>9 DEF EncodeRequest, PostRequest, NotifyWorker, LoadState,
     DeadlinePasses, AfterWake
<1>10. CASE Connect \/ WriteFatal \/ PostFatal \/ WaitForRequest
            \/ TestRequest \/ DecodeRequest \/ WriteReply \/ PostReply
            \/ NotifyMain \/ Terminate
  BY <1>10 DEF Connect, WriteFatal, PostFatal, WaitForRequest, TestRequest,
     DecodeRequest, WriteReply, PostReply, NotifyMain, AfterWake, Terminate
<1>  QED
  BY <1>1, <1>2, <1>4, <1>5, <1>6, <1>7, <1>8, <1>9, <1>10
     DEF Next, MainStep, WorkerStep

\* The bridge implements the synchronous database.
THEOREM BridgeIsSynchronous == Spec => ImplementsSyncDatabase
<1>1. Init => SyncView!SyncInit
  BY DEF Init, SyncView!SyncInit, CallNumber, SyncView!CallNumber
<1>2. ASSUME BridgeInv, [Next]_vars
      PROVE  [SyncView!SyncNext]_(SyncView!syncVars)
  BY <1>2, BridgeStepRefines
<1>  QED
  BY <1>1, <1>2, BridgeInvariant, PTL
     DEF Spec, ImplementsSyncDatabase, SyncView!SyncSpec

-----------------------------------------------------------------------------
(* Transactions.                                                           *)

\* Where a transaction is under way and may still commit.
Inside == {"body", "commit", "release", "rollback_to"}

\* The session follows transaction() as long as the connection is used.  In
\* an aborted session a callback only goes on after it swallowed an error.
SessionInv ==
  /\ pc = "idle" /\ ~gaveUp => session = "none"
  /\ pc \in Inside /\ ~gaveUp => session # "none"
  /\ pc \in Inside \ {"rollback_to"} /\ ~gaveUp /\ session = "aborted" =>
       Postgres /\ Swallows
  /\ session = "none" => pending = {}
  /\ stack # <<>> => pc \in {"body", "release", "rollback_to"}
  /\ pc \in {"release", "rollback_to"} => stack # <<>>

\* Until it commits, a transaction has touched nothing durable, and what it
\* reported as executed waits for the commit.
EffectInv ==
  /\ pending \cap committed = {}
  /\ pc \in Inside /\ ~gaveUp => issued = pending
  /\ pc # "idle" /\ ~gaveUp => issued \cap committed = {}
  /\ undone \cap (pending \cup committed) = {}

\* What the savepoints lead back to is part of what is pending, of which nothing
\* was undone.
StackInv ==
  ~gaveUp => \A i \in 1 .. Len(stack) :
    /\ stack[i].issued = stack[i].pending
    /\ stack[i].pending \subseteq pending
    /\ \A k \in 1 .. i : stack[k].pending \subseteq stack[i].pending
    /\ stack[i].pending \cap undone = {}

TransactionInv ==
  /\ TransactionTypeOK /\ SessionInv /\ EffectInv /\ StackInv /\ ThrewLeavesNothing

Savepoint == [pending : SUBSET Writes, issued : SUBSET Writes]

\* The first n elements of a sequence.
LEMMA Prefix ==
  ASSUME NEW S, NEW s \in Seq(S), NEW n \in Nat, n <= Len(s)
  PROVE  /\ SubSeq(s, 1, n) \in Seq(S)
         /\ Len(SubSeq(s, 1, n)) = n
         /\ \A i \in 1 .. n : SubSeq(s, 1, n)[i] = s[i]
<1>1. 1 \in Int /\ n \in Int /\ \A i \in 1 .. n : s[i] \in S
  OBVIOUS
<1>2. /\ SubSeq(s, 1, n) \in Seq(S)
      /\ Len(SubSeq(s, 1, n)) = IF 1 <= n THEN n - 1 + 1 ELSE 0
      /\ \A i \in 1 .. n - 1 + 1 : SubSeq(s, 1, n)[i] = s[1 + i - 1]
  BY <1>1, SubSeqProperties
<1>3. Len(SubSeq(s, 1, n)) = n
  <2>1. CASE n = 0
    BY <1>2, <2>1
  <2>2. CASE n # 0
    BY <1>2, <2>2
  <2>  QED  BY <2>1, <2>2
<1>4. ASSUME NEW i \in 1 .. n PROVE SubSeq(s, 1, n)[i] = s[i]
  <2>1. i \in 1 .. n - 1 + 1 /\ 1 + i - 1 = i
    OBVIOUS
  <2>  QED  BY <1>2, <2>1
<1>  QED  BY <1>2, <1>3, <1>4

\* Leaving the innermost savepoint.
LEMMA Leave ==
  ASSUME stack \in Seq(Savepoint), stack # <<>>
  PROVE  /\ Len(stack) \in Nat \ {0}
         /\ Last(stack) = stack[Len(stack)] /\ Last(stack) \in Savepoint
         /\ Front(stack) \in Seq(Savepoint)
         /\ Len(Front(stack)) = Len(stack) - 1
         /\ \A i \in 1 .. Len(stack) - 1 : Front(stack)[i] = stack[i]
         /\ Front(stack) = <<>> <=> Len(stack) = 1
<1>1. Len(stack) \in Nat \ {0} /\ \A i \in 1 .. Len(stack) : stack[i] \in Savepoint
  OBVIOUS
<1>2. Last(stack) = stack[Len(stack)] /\ Last(stack) \in Savepoint
  BY <1>1 DEF Last
<1>3. /\ Front(stack) \in Seq(Savepoint)
      /\ Len(Front(stack)) = Len(stack) - 1
      /\ \A i \in 1 .. Len(stack) - 1 : Front(stack)[i] = stack[i]
  <2>1. Len(stack) - 1 \in Nat /\ Len(stack) - 1 <= Len(stack)
    BY <1>1
  <2>2. /\ SubSeq(stack, 1, Len(stack) - 1) \in Seq(Savepoint)
        /\ Len(SubSeq(stack, 1, Len(stack) - 1)) = Len(stack) - 1
        /\ \A i \in 1 .. Len(stack) - 1 : SubSeq(stack, 1, Len(stack) - 1)[i] = stack[i]
    BY <2>1, Prefix, Zenon
  <2>  QED  BY <2>2, Zenon DEF Front
<1>4. Front(stack) = <<>> <=> Len(stack) = 1
  BY <1>1, <1>3
<1>  QED  BY <1>1, <1>2, <1>3, <1>4

\* Setting another savepoint.
LEMMA Enter ==
  ASSUME stack \in Seq(Savepoint), NEW r \in Savepoint
  PROVE  /\ Append(stack, r) \in Seq(Savepoint)
         /\ Append(stack, r) # <<>>
         /\ Len(Append(stack, r)) = Len(stack) + 1
         /\ \A i \in 1 .. Len(stack) : Append(stack, r)[i] = stack[i]
         /\ Append(stack, r)[Len(stack) + 1] = r
OBVIOUS

\* Steps that leave the savepoints alone, and take nothing back.
LEMMA SameStack ==
  ASSUME StackInv, UNCHANGED <<stack, undone>>,
         gaveUp' = gaveUp \/ gaveUp',
         gaveUp' \/ pending \subseteq pending' \/ stack = <<>>
  PROVE  StackInv'
BY DEF StackInv

\* The inductive invariant.
LEMMA TransactionInvariant == TransactionSpec => []TransactionInv
<1>1. TransactionInit => TransactionInv
  <2>  SUFFICES ASSUME TransactionInit PROVE TransactionInv
    OBVIOUS
  <2>1. TransactionTypeOK
    <3>1. /\ stack \in Seq([pending : SUBSET Writes, issued : SUBSET Writes])
          /\ Len(stack) = 0
      BY EmptySeq DEF TransactionInit
    <3>2. Len(stack) <= MaxDepth
      BY <3>1, TransactionAssumption DEF TransactionAssumption
    <3>  QED  BY <3>1, <3>2 DEF TransactionInit, TransactionTypeOK
  <2>2. SessionInv /\ EffectInv /\ ThrewLeavesNothing
    BY DEF TransactionInit, SessionInv, EffectInv, ThrewLeavesNothing, Inside
  <2>3. StackInv
    BY DEF TransactionInit, StackInv
  <2>  QED  BY <2>1, <2>2, <2>3 DEF TransactionInv
<1>2. ASSUME TransactionInv, [TransactionNext]_transactionVars PROVE TransactionInv'
  <2>0. setup' = setup
    BY <1>2 DEF TransactionNext, transactionVars
  <2>a. /\ TransactionTypeOK /\ SessionInv /\ EffectInv /\ StackInv
        /\ ThrewLeavesNothing
    BY <1>2 DEF TransactionInv
  <2>b. /\ setup \in [postgres : BOOLEAN, swallows : BOOLEAN, catches : BOOLEAN]
        /\ MaxDepth \in Nat /\ stack \in Seq(Savepoint)
    BY <2>a, TransactionAssumption
       DEF TransactionTypeOK, TransactionAssumption, Savepoint
  <2>  USE <2>0, <2>a, <2>b
       DEF driverVars, dbVars, nestVars, Finish, Uncertain, Postgres, Swallows,
           Catches, CatchBlock
  <2>1. CASE UNCHANGED transactionVars
    BY <2>1 DEF transactionVars, TransactionInv, TransactionTypeOK, SessionInv, EffectInv,
                StackInv, ThrewLeavesNothing, Inside
  <2>2. CASE BeginTransaction
    <3>1. TransactionTypeOK' /\ SessionInv' /\ EffectInv' /\ ThrewLeavesNothing'
      BY <2>2 DEF BeginTransaction, TransactionTypeOK, SessionInv, EffectInv,
                  ThrewLeavesNothing, Inside
    <3>2. StackInv'
      BY <2>2, SameStack DEF BeginTransaction
    <3>  QED  BY <3>1, <3>2 DEF TransactionInv
  <2>3. CASE CallbackEnds
    <3>1. Len(stack) = 0 <=> stack = <<>>
      OBVIOUS
    <3>2. TransactionTypeOK' /\ EffectInv' /\ ThrewLeavesNothing'
      BY <2>3 DEF CallbackEnds, TransactionTypeOK, EffectInv, ThrewLeavesNothing, Inside
    <3>3. SessionInv'
      BY <2>3, <3>1 DEF CallbackEnds, SessionInv, Inside
    <3>4. StackInv'
      BY <2>3, SameStack DEF CallbackEnds
    <3>  QED  BY <3>2, <3>3, <3>4 DEF TransactionInv
  <2>4. CASE Commit
    <3>1. TransactionTypeOK'
      BY <2>4 DEF Commit, AfterCommit, TransactionTypeOK
    <3>2. SessionInv'
      BY <2>4 DEF Commit, SessionInv, Inside
    <3>3. EffectInv' /\ ThrewLeavesNothing'
      BY <2>4 DEF Commit, AfterCommit, EffectInv, ThrewLeavesNothing, SessionInv, Inside
    <3>4. stack = <<>>
      BY <2>4 DEF Commit, SessionInv
    <3>5. StackInv'
      BY <2>4, <3>4, SameStack DEF Commit
    <3>  QED  BY <3>1, <3>2, <3>3, <3>5 DEF TransactionInv
  <2>5. CASE Rollback
    <3>1. stack = <<>>
      BY <2>5 DEF Rollback, SessionInv
    <3>2. TransactionTypeOK' /\ SessionInv' /\ EffectInv' /\ ThrewLeavesNothing'
      BY <2>5, <3>1 DEF Rollback, TransactionTypeOK, SessionInv, EffectInv,
                  ThrewLeavesNothing, Inside
    <3>3. StackInv'
      BY <2>5, <3>1, SameStack DEF Rollback
    <3>  QED  BY <3>2, <3>3 DEF TransactionInv
  <2>6. CASE Disconnect
    <3>1. TransactionTypeOK' /\ SessionInv' /\ EffectInv' /\ ThrewLeavesNothing'
      BY <2>6 DEF Disconnect, TransactionTypeOK, SessionInv, EffectInv,
                  ThrewLeavesNothing, Inside
    <3>2. StackInv'
      BY <2>6, SameStack DEF Disconnect
    <3>  QED  BY <3>1, <3>2 DEF TransactionInv
  <2>7. ASSUME NEW w \in Writes, Execute(w) PROVE TransactionInv'
    <3>0. pc = "body" /\ w \notin used /\ used' = used \cup {w}
          /\ UNCHANGED <<stack, undone, inTx, result>>
      BY <2>7 DEF Execute
    <3>1. CASE /\ session # "aborted" /\ ~gaveUp /\ TakeEffect(w)
               /\ issued' = issued \cup {w} /\ UNCHANGED <<pc, session, gaveUp>>
      <4>1. session = "open" /\ pending' = pending \cup {w} /\ committed' = committed
        BY <3>0, <3>1 DEF TakeEffect, SessionInv, TransactionTypeOK, Inside
      <4>2. TransactionTypeOK' /\ SessionInv'
        BY <3>0, <3>1, <4>1 DEF TransactionTypeOK, SessionInv, Inside
      <4>3. EffectInv' /\ ThrewLeavesNothing'
        BY <3>0, <3>1, <4>1 DEF EffectInv, ThrewLeavesNothing, TransactionTypeOK, Inside
      <4>4. StackInv'
        BY <3>0, <3>1, <4>1, SameStack
      <4>  QED  BY <4>2, <4>3, <4>4 DEF TransactionInv
    <3>2. CASE /\ session' = IF Postgres /\ ~gaveUp THEN "aborted" ELSE session
               /\ CallbackGetsError
               /\ UNCHANGED <<pending, committed, issued, gaveUp>>
      <4>1. Len(stack) = 0 <=> stack = <<>>
        OBVIOUS
      <4>2. \/ stack = <<>> /\ pc' = "rollback"
            \/ stack # <<>> /\ pc' = "rollback_to"
            \/ Swallows /\ pc' = "body"
        BY <3>0, <3>2, <4>1 DEF CallbackGetsError
      <4>3. TransactionTypeOK'
        BY <3>0, <3>2, <4>2 DEF TransactionTypeOK
      <4>4. SessionInv'
        BY <3>0, <3>2, <4>2 DEF SessionInv, Inside
      <4>5. EffectInv' /\ ThrewLeavesNothing'
        BY <3>0, <3>2, <4>2 DEF EffectInv, ThrewLeavesNothing, Inside
      <4>6. StackInv'
        BY <3>0, <3>2, SameStack
      <4>  QED  BY <4>3, <4>4, <4>5, <4>6 DEF TransactionInv
    <3>3. CASE /\ session # "aborted" /\ ~gaveUp /\ Uncertain
               /\ TakeEffect(w) \/ UNCHANGED <<pending, committed>>
               /\ CallbackGetsError /\ UNCHANGED <<session, issued>>
      <4>1. Len(stack) = 0 <=> stack = <<>>
        OBVIOUS
      <4>2. \/ stack = <<>> /\ pc' = "rollback"
            \/ stack # <<>> /\ pc' = "rollback_to"
            \/ Swallows /\ pc' = "body"
        BY <3>0, <3>3, <4>1 DEF CallbackGetsError
      <4>3. /\ session = "open" /\ committed' = committed /\ gaveUp' = TRUE
            /\ pending' = pending \cup {w} \/ pending' = pending
        BY <3>0, <3>3 DEF TakeEffect, SessionInv, TransactionTypeOK, Inside
      <4>4. TransactionTypeOK'
        BY <3>0, <3>3, <4>2, <4>3 DEF TransactionTypeOK
      <4>5. SessionInv'
        BY <3>0, <3>3, <4>2, <4>3 DEF SessionInv, Inside
      <4>6. EffectInv' /\ ThrewLeavesNothing'
        BY <3>0, <4>3 DEF EffectInv, ThrewLeavesNothing, TransactionTypeOK
      <4>7. StackInv'
        BY <3>0, <4>3, SameStack
      <4>  QED  BY <4>4, <4>5, <4>6, <4>7 DEF TransactionInv
    <3>  QED  BY <2>7, <3>1, <3>2, <3>3 DEF Execute
  <2>8. ASSUME NEW w \in Writes, ExecutePlain(w) PROVE TransactionInv'
    <3>1. TransactionTypeOK' /\ SessionInv' /\ EffectInv' /\ ThrewLeavesNothing'
      BY <2>8 DEF ExecutePlain, TakeEffect, TransactionTypeOK, SessionInv, EffectInv,
                  ThrewLeavesNothing, Inside
    <3>2. StackInv'
      BY <2>8, SameStack DEF ExecutePlain, TakeEffect
    <3>  QED  BY <3>1, <3>2 DEF TransactionInv
  <2>9. CASE Nest
    <3>1. /\ pc = "body" /\ Len(stack) < MaxDepth
          /\ UNCHANGED <<inTx, issued, used, result, undone, session, pending, committed>>
      BY <2>9 DEF Nest
    <3>2. ASSUME NEW r \in Savepoint, r.pending = pending, r.issued = issued,
                 stack' = Append(stack, r), ~gaveUp, UNCHANGED <<pc, gaveUp>>
          PROVE  TransactionInv'
      <4>1. TransactionTypeOK'
        BY <3>1, <3>2, Enter DEF TransactionTypeOK, Savepoint
      <4>2. SessionInv'
        BY <3>1, <3>2, Enter DEF SessionInv, Inside
      <4>3. EffectInv' /\ ThrewLeavesNothing'
        BY <3>1, <3>2 DEF EffectInv, ThrewLeavesNothing, Inside
      <4>4. Len(stack) \in Nat /\ issued = pending /\ pending \cap undone = {}
        BY <3>1, <3>2 DEF EffectInv, Inside
      <4>5. /\ Len(stack') = Len(stack) + 1 /\ stack'[Len(stack) + 1] = r
            /\ \A i \in 1 .. Len(stack) : stack'[i] = stack[i]
        BY <3>2, Enter
      <4>6. StackInv'
        BY <3>1, <3>2, <4>4, <4>5 DEF StackInv
      <4>  QED  BY <4>1, <4>2, <4>3, <4>6 DEF TransactionInv
    <3>3. CASE /\ stack' = stack /\ OuterGetsError(Len(stack))
               /\ gaveUp' = gaveUp \/ gaveUp' = TRUE
               /\ session = "aborted" \/ gaveUp \/ gaveUp'
      <4>1. Len(stack) = 0 <=> stack = <<>>
        OBVIOUS
      <4>2. \/ stack = <<>> /\ pc' = "rollback"
            \/ stack # <<>> /\ pc' = "rollback_to"
            \/ pc' = "body"
        BY <3>3, <4>1 DEF OuterGetsError
      <4>3. TransactionTypeOK'
        BY <3>1, <3>3, <4>2 DEF TransactionTypeOK
      <4>4. SessionInv'
        BY <3>1, <3>3, <4>2 DEF SessionInv, Inside
      <4>5. EffectInv' /\ ThrewLeavesNothing'
        BY <3>1, <3>3, <4>2 DEF EffectInv, ThrewLeavesNothing, Inside
      <4>6. StackInv'
        BY <3>1, <3>3, SameStack
      <4>  QED  BY <4>3, <4>4, <4>5, <4>6 DEF TransactionInv
    <3>4. [pending |-> pending, issued |-> issued] \in Savepoint
      BY DEF TransactionTypeOK, Savepoint
    <3>5. TransactionTypeOK => gaveUp \in BOOLEAN
      BY DEF TransactionTypeOK
    <3>  QED  BY <2>9, <3>2, <3>3, <3>4 DEF Nest
  <2>10. CASE Release
    <3>1. stack # <<>> /\ pc = "release"
      BY <2>10 DEF Release, SessionInv
    <3>2. UNCHANGED <<inTx, issued, used, result, undone, session, pending, committed>>
      BY <2>10 DEF Release
    <3>3. CASE /\ session # "aborted" /\ ~gaveUp
               /\ pc' = "body" /\ stack' = Front(stack) /\ UNCHANGED gaveUp
      <4>1. TransactionTypeOK'
        BY <3>1, <3>2, <3>3, Leave DEF TransactionTypeOK, Savepoint
      <4>2. SessionInv' /\ EffectInv' /\ ThrewLeavesNothing'
        BY <3>1, <3>2, <3>3 DEF SessionInv, EffectInv, ThrewLeavesNothing, Inside
      <4>3. StackInv'
        BY <3>1, <3>2, <3>3, Leave DEF StackInv
      <4>  QED  BY <4>1, <4>2, <4>3 DEF TransactionInv
    <3>4. CASE /\ pc' = "rollback_to" /\ stack' = stack
               /\ gaveUp' = gaveUp \/ gaveUp' = TRUE
      <4>1. TransactionTypeOK'
        BY <3>1, <3>2, <3>4 DEF TransactionTypeOK
      <4>2. SessionInv' /\ EffectInv' /\ ThrewLeavesNothing'
        BY <3>1, <3>2, <3>4 DEF SessionInv, EffectInv, ThrewLeavesNothing, Inside
      <4>3. StackInv'
        BY <3>2, <3>4, SameStack
      <4>  QED  BY <4>1, <4>2, <4>3 DEF TransactionInv
    <3>  QED  BY <2>10, <3>3, <3>4 DEF Release
  <2>11. CASE RollbackTo
    <3>1. stack # <<>> /\ pc = "rollback_to"
      BY <2>11 DEF RollbackTo, SessionInv
    <3>2. /\ UNCHANGED <<inTx, used, result, committed>> /\ stack' = Front(stack)
          /\ OuterGetsError(Len(stack) - 1)
      BY <2>11 DEF RollbackTo
    <3>3. /\ Len(stack) \in Nat \ {0} /\ Last(stack) = stack[Len(stack)]
          /\ stack' \in Seq(Savepoint) /\ Len(stack') = Len(stack) - 1
          /\ \A i \in 1 .. Len(stack) - 1 : stack'[i] = stack[i]
          /\ stack' = <<>> <=> Len(stack) = 1
      BY <3>1, <3>2, Leave
    <3>4. \/ stack' = <<>> /\ pc' = "rollback"
          \/ stack' # <<>> /\ pc' = "rollback_to"
          \/ pc' = "body"
      BY <3>2, <3>3 DEF OuterGetsError
    <3>5. CASE /\ ~gaveUp /\ session' = "open" /\ pending' = Last(stack).pending
               /\ issued' = Last(stack).issued
               /\ undone' = undone \cup (issued \ Last(stack).issued)
               /\ UNCHANGED gaveUp
      <4>1. /\ issued = pending /\ issued' = pending' /\ pending' \subseteq pending
            /\ pending' \cap undone = {}
            /\ \A k \in 1 .. Len(stack) : stack[k].pending \subseteq pending'
        BY <3>1, <3>3, <3>5 DEF StackInv, EffectInv, Inside
      <4>2. TransactionTypeOK'
        <5>1. used' = used /\ pending' \subseteq used /\ issued' \subseteq used
              /\ undone' \subseteq used /\ committed' \subseteq used
          BY <3>2, <3>5, <4>1 DEF TransactionTypeOK
        <5>  QED  BY <3>1, <3>2, <3>3, <3>4, <3>5, <5>1
                  DEF TransactionTypeOK, Savepoint
      <4>3. SessionInv'
        BY <3>3, <3>4, <3>5 DEF SessionInv, Inside
      <4>4. EffectInv' /\ ThrewLeavesNothing'
        BY <3>1, <3>2, <3>4, <3>5, <4>1 DEF EffectInv, ThrewLeavesNothing, Inside
      <4>5. StackInv'
        BY <3>3, <3>5, <4>1 DEF StackInv
      <4>  QED  BY <4>2, <4>3, <4>4, <4>5 DEF TransactionInv
    <3>6. CASE gaveUp' = TRUE /\ UNCHANGED <<session, pending, issued, undone>>
      <4>1. TransactionTypeOK'
        BY <3>1, <3>2, <3>3, <3>4, <3>6 DEF TransactionTypeOK, Savepoint
      <4>2. SessionInv'
        BY <3>1, <3>3, <3>4, <3>6 DEF SessionInv, Inside
      <4>3. EffectInv' /\ ThrewLeavesNothing' /\ StackInv'
        BY <3>2, <3>6 DEF EffectInv, ThrewLeavesNothing, StackInv
      <4>  QED  BY <4>1, <4>2, <4>3 DEF TransactionInv
    <3>  QED  BY <2>11, <3>5, <3>6 DEF RollbackTo
  <2>  QED
    BY <1>2, <2>1, <2>2, <2>3, <2>4, <2>5, <2>6, <2>7, <2>8, <2>9, <2>10, <2>11 DEF TransactionNext
<1>  QED  BY <1>1, <1>2, PTL DEF TransactionSpec

\* Types; isTransaction is set exactly inside of transaction().
THEOREM TransactionTypeCorrect == TransactionSpec => []TransactionTypeOK
<1>1. TransactionInv => TransactionTypeOK
  BY DEF TransactionInv
<1>  QED  BY <1>1, TransactionInvariant, PTL

\* A transaction() that threw left nothing behind, whatever its callback does.
THEOREM FailedTransactionLeavesNothing == TransactionSpec => []ThrewLeavesNothing
<1>1. TransactionInv => ThrewLeavesNothing
  BY DEF TransactionInv
<1>  QED  BY <1>1, TransactionInvariant, PTL

\* No transaction is left open on a connection that is still used, and what a
\* nested transaction undid never becomes durable.
THEOREM TransactionIsClosed == TransactionSpec => []FailedLeavesNothing
<1>1. TransactionInv => FailedLeavesNothing
  BY DEF TransactionInv, SessionInv, EffectInv, FailedLeavesNothing,
         NoLeftoverTransaction, UndoneStaysUndone
<1>  QED  BY <1>1, TransactionInvariant, PTL

\* A transaction() that returned is durable on SQLite, and on PostgreSQL as
\* long as no callback swallows the error of a statement.
THEOREM ReturnedTransactionIsDurable ==
  ASSUME \A s \in Setups : ~(s.postgres /\ s.swallows)
  PROVE  TransactionSpec => []ReturnedIsDurable
<1>1. TransactionInit => ReturnedIsDurable
  BY DEF TransactionInit, ReturnedIsDurable
<1>2. ASSUME TransactionInv, ReturnedIsDurable, [TransactionNext]_transactionVars
      PROVE  ReturnedIsDurable'
  <2>0. setup' = setup /\ setup \in Setups
    BY <1>2 DEF TransactionNext, transactionVars, TransactionInv, TransactionTypeOK
  <2>a. TransactionTypeOK /\ SessionInv /\ EffectInv
    BY <1>2 DEF TransactionInv
  <2>  USE <1>2, <2>0 DEF ReturnedIsDurable, driverVars, dbVars, nestVars, Finish,
             Uncertain, Postgres, Swallows
  <2>1. CASE UNCHANGED transactionVars
    BY <2>1 DEF transactionVars
  <2>2. CASE BeginTransaction \/ Rollback
    BY <2>2 DEF BeginTransaction, Rollback
  <2>3. CASE CallbackEnds \/ Disconnect
    BY <2>3 DEF CallbackEnds, CatchBlock, Disconnect
  <2>4. CASE Commit
    <3>1. CASE pc' = "rollback"
      BY <3>1
    <3>2. CASE ~gaveUp /\ committed' = AfterCommit /\ issued' = issued
      <4>1. session = "open" /\ issued = pending
        BY <2>a, <2>0, <2>4, <3>2
           DEF Commit, SessionInv, EffectInv, TransactionTypeOK, Inside
      <4>  QED  BY <3>2, <4>1 DEF AfterCommit
    <3>  QED  BY <2>4, <3>1, <3>2 DEF Commit
  <2>5. CASE Nest \/ Release \/ RollbackTo
    <3>1. pc' # "idle"
      BY <2>5 DEF Nest, Release, RollbackTo, OuterGetsError, CatchBlock
    <3>  QED  BY <3>1
  <2>6. ASSUME NEW w \in Writes, Execute(w) PROVE ReturnedIsDurable'
    <3>1. pc' # "idle"
      BY <2>6 DEF Execute, CallbackGetsError, CatchBlock
    <3>  QED  BY <3>1
  <2>7. ASSUME NEW w \in Writes, ExecutePlain(w) PROVE ReturnedIsDurable'
    BY <2>7 DEF ExecutePlain, TakeEffect
  <2>  QED  BY <2>1, <2>2, <2>3, <2>4, <2>5, <2>6, <2>7 DEF TransactionNext
<1>  QED  BY <1>1, <1>2, TransactionInvariant, PTL DEF TransactionSpec
=============================================================================
