---------------------------- MODULE JobLifecycle ----------------------------
(***************************************************************************)
(* What the execution engine promises about the row of one job             *)
(* (src/src/orchestrator/queue.ts, header; the guarded statements of       *)
(* src/src/db/queue-repositories.ts): a job is created once, is claimed at *)
(* most MaxAttempts times, goes back to the queue only while attempts      *)
(* remain, and never leaves a terminal status.  AgentQueue and             *)
(* WorkflowQueue implement this specification.                             *)
(***************************************************************************)
EXTENDS Naturals

CONSTANTS
  Jobs,        \* the jobs that may ever be enqueued
  MaxAttempts  \* max_attempts of every job

VARIABLES
  status,  \* execution_jobs.status, or "none" before the insert
  used     \* execution_jobs.attempts

lifecycleVars == <<status, used>>

Waiting   == {"queued", "retrying"}
Active    == Waiting \cup {"running"}
Final     == {"completed", "failed", "timed_out", "cancelled"}
JobStatus == {"none"} \cup Active \cup Final

LifecycleTypeOK ==
  /\ status \in [Jobs -> JobStatus]
  /\ used \in [Jobs -> 0 .. MaxAttempts]

LifecycleInit ==
  /\ status = [j \in Jobs |-> "none"]
  /\ used = [j \in Jobs |-> 0]

Become(j, s) == status' = [status EXCEPT ![j] = s]

Enqueue(j) ==
  /\ status[j] = "none"
  /\ Become(j, "queued")
  /\ UNCHANGED used

Claim(j) ==
  /\ status[j] \in Waiting
  /\ used[j] < MaxAttempts
  /\ Become(j, "running")
  /\ used' = [used EXCEPT ![j] = @ + 1]

\* A retry after a failed attempt, or a requeue after a restart.
BackToQueue(j) ==
  /\ status[j] = "running"
  /\ used[j] < MaxAttempts
  /\ \E s \in Waiting : Become(j, s)
  /\ UNCHANGED used

Finish(j) ==
  /\ status[j] = "running"
  /\ \E s \in Final \ {"cancelled"} : Become(j, s)
  /\ UNCHANGED used

Cancel(j) ==
  /\ status[j] \in Active
  /\ Become(j, "cancelled")
  /\ UNCHANGED used

LifecycleNext ==
  \E j \in Jobs : \/ Enqueue(j) \/ Claim(j) \/ BackToQueue(j)
                  \/ Finish(j) \/ Cancel(j)

LifecycleSpec == LifecycleInit /\ [][LifecycleNext]_lifecycleVars
=============================================================================
