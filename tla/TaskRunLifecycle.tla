-------------------------- MODULE TaskRunLifecycle --------------------------
(***************************************************************************)
(* The durable life of a TaskRun of TAgent Core: its Attempts, the          *)
(* execution lease and fence of each Attempt, the Candidate result, the     *)
(* Supervisor decision that settles it, the automatic Continuations that    *)
(* re-run a blocked TaskRun, and what start, shutdown and crash of the      *)
(* Generation (the one Node.js process that owns the database) do to them.  *)
(*                                                                          *)
(* Granularity.  A SQLite transaction is atomic, and JavaScript runs to     *)
(* completion between awaits, so one action is one synchronous segment of   *)
(* a handler.  Where a segment commits two transactions whose separation a  *)
(* crash can expose, the segment is split into micro-steps (MicroStages):   *)
(* while one is pending no other handler runs, but Crash may.               *)
(*                                                                          *)
(* Scope: ordinary TaskRuns of one Session (no external-action policy).     *)
(* Time is the nondeterministic expiry of leases, due times and timers.     *)
(***************************************************************************)
EXTENDS Naturals, FiniteSets

CONSTANTS
    Runs,                \* TaskRuns of the Session
    MaxAttempts,         \* bound: Attempts of one TaskRun that are explored
    MaxContinuations,    \* runtimeDefaults.maxContinuations (default 4)
    MaxCrashRecoveries,  \* DEFAULT_MAX_SAFE_CRASH_RECOVERIES (2)
    MaxGenerations       \* bound: process starts that are explored

ASSUME BoundsAssumption ==
    /\ MaxAttempts \in Nat \ {0}
    /\ MaxContinuations \in Nat
    /\ MaxCrashRecoveries \in Nat
    /\ MaxGenerations \in Nat \ {0}

VARIABLES
    runs,             \* table runs
    attempts,         \* table attempts, by run and ordinal
    leases,           \* table execution_leases, one row per Attempt
    candidates,       \* table candidate_results, one row per Attempt
    decisions,        \* table supervisor_decisions, the latest of an Attempt
    tools,            \* table tool_attempts, the latest call of an Attempt
    continuations,    \* table run_continuations, the active row and counts
    inputs,           \* table user_input_requests of the current Attempt
    pendingApproval,  \* runs with a pending row in approval_requests
    phase,            \* life of the Generation process
    generation,       \* number of process starts so far
    proc              \* in-memory executor of a run (launch and its promise)

durable == <<runs, attempts, leases, candidates, decisions, tools,
             continuations, inputs, pendingApproval>>
vars == <<runs, attempts, leases, candidates, decisions, tools,
          continuations, inputs, pendingApproval, phase, generation, proc>>

-----------------------------------------------------------------------------
Ordinals == 1..MaxAttempts

RunStatus == {"absent", "running", "waiting_input", "completed", "blocked",
              "interrupted", "cancelled", "failed"}

\* The reason in the run.failed event of the current Attempt: resume accepts
\* "timeout", a launch retry accepts "init".
Failures == {"none", "timeout", "init", "other"}

AttemptStatus == {"absent", "running", "settling", "waiting_input", "blocked",
                  "completed", "failed", "cancelled", "interrupted",
                  "superseded"}
ActiveStatus == {"running", "settling"}

LeaseStatus     == {"none", "live", "expired", "released"}
CandidateStatus == {"none", "proposed", "accepted", "rejected"}
DecisionStatus  == {"none", "proposed", "executed", "superseded"}

SettledActions == {"complete_taskrun", "start_continuation",
                   "wait_for_runtime", "pause_for_approval", "block_taskrun"}
FailureActions == {"start_continuation", "pause_for_approval", "block_taskrun"}

\* Where the in-memory executor of a run stands: awaiting preparation,
\* runtime.initialize, the prompt, the Supervisor or the disposer; or between
\* two transactions of one synchronous segment.
MicroStages == {"approving", "then", "queueing"}
WorkStages  == {"initializing", "executing", "reviewing", "failReview"}
Stages == {"none", "preparing", "finalizing", "retained"}
            \cup WorkStages \cup MicroStages

RunRecord     == [status : RunStatus, attempt : Nat, failure : Failures,
                  restarted : BOOLEAN]
AttemptRecord == [status : AttemptStatus, version : Nat]
LeaseRecord   == [status : LeaseStatus, attemptVersion : Nat]
CandidateRecord == [status : CandidateStatus, attemptVersion : Nat]

\* bound: candidate_response_hash is the hash of the Attempt's Candidate, as
\* reviewSettled (and nothing else) records it.
DecisionRecord == [status : DecisionStatus,
                   action : SettledActions \cup {"none"}, bound : BOOLEAN]
ContinuationRecord == [status : {"none", "queued", "running"}, mine : BOOLEAN,
                       live : BOOLEAN, due : BOOLEAN, total : Nat,
                       crashes : Nat]
ProcRecord == [stage : Stages, attempt : Nat, continuation : BOOLEAN,
               again : BOOLEAN]

TypeOK ==
    /\ runs \in [Runs -> RunRecord]
    /\ attempts \in [Runs -> [Ordinals -> AttemptRecord]]
    /\ leases \in [Runs -> [Ordinals -> LeaseRecord]]
    /\ candidates \in [Runs -> [Ordinals -> CandidateRecord]]
    /\ decisions \in [Runs -> [Ordinals -> DecisionRecord]]
    /\ tools \in [Runs -> [Ordinals -> {"none", "running", "unknown"}]]
    /\ continuations \in [Runs -> ContinuationRecord]
    /\ inputs \in [Runs -> {"none", "pending", "submitted"}]
    /\ pendingApproval \in SUBSET Runs
    /\ phase \in {"up", "closing", "released", "down", "interrupted",
                  "reconciled"}
    /\ generation \in Nat
    /\ proc \in [Runs -> ProcRecord]
    /\ \A r \in Runs :
          /\ runs[r].attempt \in 0..MaxAttempts
          /\ runs[r].status # "absent" => runs[r].attempt \in Ordinals
          /\ proc[r].attempt \in 0..MaxAttempts
          /\ proc[r].stage # "none" => proc[r].attempt \in Ordinals

-----------------------------------------------------------------------------
(* Derived state and row updates.                                           *)

Executor(stage, n, continuation) ==
    [stage |-> stage, attempt |-> n, continuation |-> continuation,
     again |-> FALSE]
Idle == Executor("none", 0, FALSE)

Cur(r) == runs[r].attempt

\* No promise reaction is pending: a new macrotask may run.
Quiet == \A r \in Runs : proc[r].stage \notin MicroStages
Serving == phase = "up" /\ Quiet
Alive == phase \in {"up", "closing"} /\ Quiet
closing == phase = "closing"

Moved(r, stage) == [proc EXCEPT ![r].stage = stage]
Returned(r, again) == [proc EXCEPT ![r].stage = "then", ![r].again = again]

\* Store.projectAttempt on an existing row.
Projected(r, n, status) ==
    [attempts EXCEPT ![r][n] = [status |-> status, version |-> @.version + 1]]

\* Faulty variant: the status filter of the superseding UPDATE is missing.
StartedUnfiltered(r, n, status) ==
    [attempts EXCEPT ![r] = [m \in Ordinals |->
        IF m = n THEN [status |-> status,
                       version |-> IF status = "running" THEN 1 ELSE 2]
        ELSE IF attempts[r][m].status # "absent"
             THEN [attempts[r][m] EXCEPT !.status = "superseded"]
             ELSE attempts[r][m]]]

\* Store.projectAttempt of a new running row: any other row of the run that is
\* running becomes superseded.  A launch that fails in the same segment leaves
\* the row at its second version.
Started(r, n, status) ==
    [attempts EXCEPT ![r] = [m \in Ordinals |->
        IF m = n THEN [status |-> status,
                       version |-> IF status = "running" THEN 1 ELSE 2]
        ELSE IF attempts[r][m].status = "running"
             THEN [attempts[r][m] EXCEPT !.status = "superseded"]
             ELSE attempts[r][m]]]

RunMoved(r, status) == [runs EXCEPT ![r].status = status]
RunFailed(r, why) == [runs EXCEPT ![r].status = "failed", ![r].failure = why]
RunAt(r, n, status, why) ==
    [runs EXCEPT ![r] = [status |-> status, attempt |-> n, failure |-> why,
                         restarted |-> runs[r].restarted]]

\* SqliteAttemptRepository.releaseExecutionLease and acquireExecutionLease.
Released(r, n) ==
    [leases EXCEPT ![r][n].status = IF @ = "none" THEN @ ELSE "released"]
Acquired(base, r, n) ==
    [base EXCEPT ![r][n] = [status |-> "live", attemptVersion |-> 1]]

\* A continuation row that ends, that is put back to the queue (owner and
\* lease cleared), that this process claims, and that is inserted.
Ended(c) == [status |-> "none", mine |-> FALSE, live |-> FALSE, due |-> FALSE,
             total |-> c.total, crashes |-> c.crashes]
Requeued(c) == [status |-> "queued", mine |-> FALSE, live |-> FALSE,
                due |-> c.due, total |-> c.total, crashes |-> c.crashes]
Claimed(c) == [status |-> "running", mine |-> TRUE, live |-> TRUE,
               due |-> c.due, total |-> c.total, crashes |-> c.crashes]
Queued(c, due, crash) ==
    [status |-> "queued", mine |-> c.mine, live |-> c.live, due |-> due,
     total |-> c.total + 1, crashes |-> c.crashes + crash]

\* Store.updateContinuation to a terminal status, and cancelQueuedContinuations.
EndedContinuation(r) == [continuations EXCEPT ![r] = Ended(@)]
CancelledQueued(r) ==
    IF continuations[r].status = "queued" THEN EndedContinuation(r)
    ELSE continuations

Proposed(r, n, action, bound) ==
    [decisions EXCEPT ![r][n] = [status |-> "proposed", action |-> action,
                                 bound |-> bound]]
Superseded(base, r, n) ==
    [base EXCEPT ![r][n].status = IF @ = "proposed" THEN "superseded" ELSE @]
Rejected(r, n) ==
    [candidates EXCEPT ![r][n].status =
        IF @ = "proposed" THEN "rejected" ELSE @]

-----------------------------------------------------------------------------
(* Fences: what a callback of an executor may still write.                  *)

\* The Attempt of r's executor is the current one of a running TaskRun.
Current(r) == runs[r].status = "running" /\ Cur(r) = proc[r].attempt

\* TaskRunExecutionFenceValidator.validate for the token of r's executor.
FenceValid(r) ==
    LET n == proc[r].attempt IN
    /\ Current(r)
    /\ attempts[r][n].status = "running"
    /\ attempts[r][n].version = leases[r][n].attemptVersion
    /\ leases[r][n].status = "live"

\* Store.ownsContinuationLease, when the executor runs a continuation.
OwnsContinuation(r) ==
    /\ continuations[r].status = "running"
    /\ continuations[r].mine
    /\ continuations[r].live
LostContinuation(r) == proc[r].continuation /\ ~OwnsContinuation(r)

\* The conditions of settleAttempt.
CanSettle(r) ==
    LET n == proc[r].attempt IN
    /\ Current(r)
    /\ attempts[r][n].status = "settling"
    /\ attempts[r][n].version = candidates[r][n].attemptVersion
    /\ leases[r][n].status = "live"
    /\ leases[r][n].attemptVersion + 1 = attempts[r][n].version
    /\ candidates[r][n].status = "proposed"

\* The conditions of recoverInterruptedAttempt: an expired lease still proves
\* ownership, a released one does not.
Recoverable(r) ==
    LET n == proc[r].attempt IN
    /\ Current(r)
    /\ leases[r][n].status \in {"live", "expired"}
    /\ \/ /\ attempts[r][n].status = "running"
          /\ attempts[r][n].version = leases[r][n].attemptVersion
       \/ /\ attempts[r][n].status = "settling"
          /\ attempts[r][n].version = leases[r][n].attemptVersion + 1
          /\ candidates[r][n].status = "proposed"
          /\ candidates[r][n].attemptVersion = attempts[r][n].version

\* recoverInterruptedAttempt: one transaction, or no write at all.  decs is
\* the decision table after a decision the caller has recorded.
RecoverInterruptedAttempt(r, decs) ==
    LET n == proc[r].attempt IN
    IF Recoverable(r)
    THEN /\ runs' = RunMoved(r, "interrupted")
         /\ attempts' = Projected(r, n, "interrupted")
         /\ candidates' = Rejected(r, n)
         /\ decisions' = Superseded(decs, r, n)
         /\ leases' = Released(r, n)
    ELSE /\ decisions' = decs
         /\ UNCHANGED <<runs, attempts, candidates, leases>>

\* Faulty variant: a decision that awaits approval already delivers.
SettleApproved(r, action, decs) ==
    LET n == proc[r].attempt
        status == IF action \in {"complete_taskrun", "pause_for_approval"}
                  THEN "completed" ELSE "blocked"
    IN  /\ attempts' = Projected(r, n, status)
        /\ runs' = RunMoved(r, status)
        /\ candidates' = [candidates EXCEPT ![r][n].status =
                             IF status = "completed" THEN "accepted"
                             ELSE "rejected"]
        /\ leases' = Released(r, n)
        /\ decisions' = [decs EXCEPT ![r][n].status = "executed"]

\* settleAttempt by the decision recorded in decs.
SettleAttempt(r, action, decs) ==
    LET n == proc[r].attempt
        status == IF action = "complete_taskrun" THEN "completed"
                  ELSE "blocked"
    IN  /\ attempts' = Projected(r, n, status)
        /\ runs' = RunMoved(r, status)
        /\ candidates' = [candidates EXCEPT ![r][n].status =
                             IF status = "completed" THEN "accepted"
                             ELSE "rejected"]
        /\ leases' = Released(r, n)
        /\ decisions' = [decs EXCEPT ![r][n].status = "executed"]

\* recordCandidateResult: the fence must hold, the Attempt starts settling.
RecordCandidate(r) ==
    LET n == proc[r].attempt IN
    /\ attempts' = Projected(r, n, "settling")
    /\ candidates' = [candidates EXCEPT ![r][n] =
                        [status |-> "proposed",
                         attemptVersion |-> attempts[r][n].version + 1]]

-----------------------------------------------------------------------------
(* Continuation repair.                                                     *)

\* Faulty variant: the status filter of the UPDATE on runs is missing.
RequeueAnyStatus(S) ==
    /\ continuations' = [r \in Runs |-> IF r \in S
                            THEN Requeued(continuations[r])
                            ELSE continuations[r]]
    /\ runs' = [r \in Runs |-> IF r \in S
                   THEN [runs[r] EXCEPT !.status = "blocked"] ELSE runs[r]]
    /\ attempts' = [r \in Runs |-> [n \in Ordinals |->
          IF r \in S /\ n = Cur(r)
          THEN [status |-> "blocked", version |-> attempts[r][n].version + 1]
          ELSE attempts[r][n]]]

\* What recoverContinuationsAfterRestart, releaseContinuationLeases and
\* releaseContinuationLease do to the run of each continuation they requeue.
Requeue(S) ==
    /\ continuations' = [r \in Runs |-> IF r \in S
                            THEN Requeued(continuations[r])
                            ELSE continuations[r]]
    /\ runs' = [r \in Runs |->
          IF r \in S /\ runs[r].status \in {"running", "interrupted", "blocked"}
          THEN [runs[r] EXCEPT !.status = "blocked"]
          ELSE runs[r]]
    /\ attempts' = [r \in Runs |-> [n \in Ordinals |->
          IF r \in S /\ n = Cur(r)
          THEN [status |-> "blocked", version |-> attempts[r][n].version + 1]
          ELSE attempts[r][n]]]

Stale == {r \in Runs : continuations[r].status = "running"
                       /\ ~continuations[r].live}

\* RecoveryCoordinator.recoverContinuations after the startup reconciliation.
RecoverStale ==
    IF closing THEN UNCHANGED <<continuations, runs, attempts>>
    ELSE Requeue(Stale)

\* The recovery timer, or the heartbeat of a lost continuation lease.
RecoverContinuations ==
    /\ Serving
    /\ Stale # {}
    /\ Requeue(Stale)
    /\ UNCHANGED <<leases, candidates, decisions, tools, inputs,
                   pendingApproval, phase, generation, proc>>

-----------------------------------------------------------------------------
(* Admission and launch of the first Attempt.                               *)

\* claimSessionInboxNow, claimNextSessionInbox and retryInboxLaunch: no other
\* TaskRun of the Session runs or is about to be continued.
SessionFree(r) ==
    \A q \in Runs \ {r} :
        /\ runs[q].status # "running"
        /\ runs[q].status \in {"blocked", "interrupted"}
              => continuations[q].status = "none"

Preparing(n) == Executor("preparing", n, FALSE)

\* claimSessionInboxItem: the TaskRun and its first Attempt; a refused
\* Workspace Goal authorization fails them in the same transaction.
CreateRun(r) ==
    /\ Serving
    /\ runs[r].status = "absent"
    /\ SessionFree(r)
    /\ \/ /\ runs' = RunAt(r, 1, "running", "none")
          /\ attempts' = Started(r, 1, "running")
          /\ proc' = [proc EXCEPT ![r] = Preparing(1)]
       \/ /\ runs' = RunAt(r, 1, "failed", "other")
          /\ attempts' = Started(r, 1, "failed")
          /\ UNCHANGED proc
    /\ UNCHANGED <<leases, candidates, decisions, tools, continuations, inputs,
                   pendingApproval, phase, generation>>

\* retryInboxLaunch of a TaskRun whose launch failed.
RetryLaunch(r) ==
    /\ Serving
    /\ proc[r].stage = "none"
    /\ runs[r].status = "failed" /\ runs[r].failure = "init"
    /\ SessionFree(r)
    /\ Cur(r) < MaxAttempts
    /\ runs' = RunAt(r, Cur(r) + 1, "running", "none")
    /\ attempts' = Started(r, Cur(r) + 1, "running")
    /\ inputs' = [inputs EXCEPT ![r] = "none"]
    /\ proc' = [proc EXCEPT ![r] = Preparing(Cur(r) + 1)]
    /\ UNCHANGED <<leases, candidates, decisions, tools, continuations,
                   pendingApproval, phase, generation>>

\* completeClaimedSessionLaunch: context is ready, launch acquires the lease;
\* a runtime factory that throws fails the Attempt and releases it.
Launch(r) ==
    /\ Serving
    /\ proc[r].stage = "preparing" /\ Current(r)
    /\ LET n == proc[r].attempt
           acquired == Acquired(leases, r, n)
       IN  \/ /\ leases' = acquired
              /\ proc' = Moved(r, "initializing")
              /\ UNCHANGED <<runs, attempts>>
           \/ /\ leases' = [acquired EXCEPT ![r][n].status = "released"]
              /\ runs' = RunFailed(r, "init")
              /\ attempts' = Projected(r, n, "failed")
              /\ proc' = [proc EXCEPT ![r] = Idle]
    /\ UNCHANGED <<candidates, decisions, tools, continuations, inputs,
                   pendingApproval, phase, generation>>

\* failClaimedSessionLaunch: "init" when the error is retryable.
LaunchFails(r) ==
    /\ Serving
    /\ proc[r].stage = "preparing" /\ Current(r)
    /\ \E why \in {"init", "other"} : runs' = RunFailed(r, why)
    /\ attempts' = Projected(r, proc[r].attempt, "failed")
    /\ proc' = [proc EXCEPT ![r] = Idle]
    /\ UNCHANGED <<leases, candidates, decisions, tools, continuations, inputs,
                   pendingApproval, phase, generation>>

\* The preparation was aborted, by cancel or by shutdown.
LaunchAbandoned(r) ==
    /\ Alive
    /\ proc[r].stage = "preparing"
    /\ closing \/ ~Current(r)
    /\ proc' = [proc EXCEPT ![r] = Idle]
    /\ UNCHANGED <<durable, phase, generation>>

RuntimeInitialized(r) ==
    /\ Alive
    /\ proc[r].stage = "initializing"
    /\ FenceValid(r)
    /\ proc' = Moved(r, "executing")
    /\ UNCHANGED <<durable, phase, generation>>

\* runtime.initialize throws, or its event is refused by the fence
\* (settleRuntimeInitializationFailure, then settleAttemptExecutionFailure).
InitializationFails(r) ==
    /\ Alive
    /\ proc[r].stage = "initializing"
    /\ \/ /\ closing \/ ~Current(r)
          /\ UNCHANGED <<runs, attempts, candidates, decisions, leases>>
       \/ /\ ~closing /\ FenceValid(r)
          /\ runs' = RunFailed(r, "init")
          /\ attempts' = Projected(r, proc[r].attempt, "failed")
          /\ UNCHANGED <<candidates, decisions, leases>>
       \/ /\ ~closing /\ Current(r) /\ ~FenceValid(r)
          /\ RecoverInterruptedAttempt(r, decisions)
    /\ proc' = Moved(r, "finalizing")
    /\ UNCHANGED <<tools, continuations, inputs, pendingApproval, phase,
                   generation>>

-----------------------------------------------------------------------------
(* The prompt: tool calls, user input, and how it ends.                     *)

ToolStarts(r) ==
    /\ Alive
    /\ proc[r].stage = "executing" /\ FenceValid(r)
    /\ tools[r][proc[r].attempt] = "none"
    /\ tools' = [tools EXCEPT ![r][proc[r].attempt] = "running"]
    /\ UNCHANGED <<runs, attempts, leases, candidates, decisions,
                   continuations, inputs, pendingApproval, phase, generation,
                   proc>>

\* completeToolAttempt is fenced: once the fence is lost the row stays running.
ToolCompletes(r) ==
    /\ Alive
    /\ proc[r].stage = "executing" /\ FenceValid(r)
    /\ tools[r][proc[r].attempt] = "running"
    /\ tools' = [tools EXCEPT ![r][proc[r].attempt] = "none"]
    /\ UNCHANGED <<runs, attempts, leases, candidates, decisions,
                   continuations, inputs, pendingApproval, phase, generation,
                   proc>>

\* The request_user_input tool: request, run, Attempt and tool row in one
\* fenced transaction.
RequestUserInput(r) ==
    /\ Alive
    /\ proc[r].stage = "executing" /\ FenceValid(r)
    /\ tools[r][proc[r].attempt] = "running"
    /\ tools' = [tools EXCEPT ![r][proc[r].attempt] = "none"]
    /\ inputs' = [inputs EXCEPT ![r] = "pending"]
    /\ runs' = RunMoved(r, "waiting_input")
    /\ attempts' = Projected(r, proc[r].attempt, "waiting_input")
    /\ UNCHANGED <<leases, candidates, decisions, continuations,
                   pendingApproval, phase, generation, proc>>

\* The prompt ended and a response was produced: recordCandidate, then the
\* Supervisor reviews it; a truncated response is reviewed as a failure.
RuntimeSettles(r) ==
    /\ Alive
    /\ proc[r].stage = "executing"
    /\ FenceValid(r) /\ ~LostContinuation(r)
    /\ tools[r][proc[r].attempt] # "running"
    /\ RecordCandidate(r)
    /\ \/ proc' = Moved(r, "reviewing")
       \/ ~closing /\ proc' = Moved(r, "failReview")
       \/ closing /\ proc' = Returned(r, FALSE)
    /\ UNCHANGED <<runs, leases, decisions, tools, continuations, inputs,
                   pendingApproval, phase, generation>>

\* The prompt threw, or left no deliverable response.
RuntimeFails(r) ==
    /\ Serving
    /\ proc[r].stage = "executing"
    /\ FenceValid(r) /\ ~LostContinuation(r)
    /\ tools[r][proc[r].attempt] # "running"
    /\ RecordCandidate(r)
    /\ proc' = Moved(r, "failReview")
    /\ UNCHANGED <<runs, leases, decisions, tools, continuations, inputs,
                   pendingApproval, phase, generation>>

\* Faulty variant: the refusal is returned without recovering the Attempt.
RuntimeEndsUnrecovered(r) ==
    /\ Serving
    /\ proc[r].stage = "executing"
    /\ Current(r) /\ ~FenceValid(r) /\ ~LostContinuation(r)
    /\ proc' = Returned(r, FALSE)
    /\ UNCHANGED <<durable, phase, generation>>

\* The fence refuses the Candidate: the Attempt is recovered as interrupted.
RuntimeEndsFenced(r) ==
    /\ Serving
    /\ proc[r].stage = "executing"
    /\ Current(r) /\ ~FenceValid(r) /\ ~LostContinuation(r)
    /\ RecoverInterruptedAttempt(r, decisions)
    /\ proc' = Returned(r, FALSE)
    /\ UNCHANGED <<tools, continuations, inputs, pendingApproval, phase,
                   generation>>

\* execute returns without a write: the run is no longer running, or the
\* prompt or the review threw during shutdown.
EndsIdle(r) ==
    /\ Alive
    /\ proc[r].stage \in {"executing", "reviewing"}
    /\ ~LostContinuation(r)
    /\ closing \/ ~Current(r)
    /\ proc' = Returned(r, FALSE)
    /\ UNCHANGED <<durable, phase, generation>>

\* execute finds that the continuation lease is gone.
EndsUnowned(r) ==
    /\ Alive
    /\ proc[r].stage \in {"executing", "reviewing"}
    /\ LostContinuation(r)
    /\ RecoverStale
    /\ proc' = Returned(r, FALSE)
    /\ UNCHANGED <<leases, candidates, decisions, tools, inputs,
                   pendingApproval, phase, generation>>

-----------------------------------------------------------------------------
(* Supervisor review and settlement.                                        *)

\* What follows a committed settlement: the approval request is a transaction
\* of its own; "again" is the value execute returns.
AfterSettlement(r, action) ==
    IF action = "pause_for_approval" THEN Moved(r, "approving")
    ELSE Returned(r, action \in {"start_continuation", "wait_for_runtime"})

\* reviewSettled returned: its decision is recorded before the run is read
\* again.  The continuation lease is not read again.
ReviewDone(r, action) ==
    LET n == proc[r].attempt
        decs == Proposed(r, n, action, TRUE)
    IN  /\ Alive
        /\ proc[r].stage = "reviewing"
        /\ \/ /\ ~Current(r)
              /\ decisions' = Superseded(decs, r, n)
              /\ proc' = Returned(r, FALSE)
              /\ UNCHANGED <<runs, attempts, candidates, leases>>
           \/ /\ CanSettle(r)
              /\ SettleAttempt(r, action, decs)
              /\ proc' = AfterSettlement(r, action)
           \/ /\ Current(r) /\ ~CanSettle(r) /\ ~closing
              /\ RecoverInterruptedAttempt(r, decs)
              /\ proc' = Returned(r, FALSE)
           \/ /\ Current(r) /\ ~CanSettle(r) /\ closing
              /\ decisions' = decs
              /\ proc' = Returned(r, FALSE)
              /\ UNCHANGED <<runs, attempts, candidates, leases>>
        /\ UNCHANGED <<tools, continuations, inputs, pendingApproval, phase,
                       generation>>

\* settleCandidate by a decision not bound to the response; when settlement is
\* refused the Attempt is recovered as interrupted.
SettleUnbound(r, action) ==
    LET decs == Proposed(r, proc[r].attempt, action, FALSE) IN
    \/ /\ CanSettle(r)
       /\ SettleAttempt(r, action, decs)
       /\ proc' = AfterSettlement(r, action)
    \/ /\ ~CanSettle(r)
       /\ RecoverInterruptedAttempt(r, decs)
       /\ proc' = Returned(r, FALSE)

\* The reviewer failed after its retries (recordReviewFailure), or something
\* else threw during the review.
ReviewFails(r) ==
    /\ Serving
    /\ proc[r].stage = "reviewing"
    /\ Current(r) /\ ~LostContinuation(r)
    /\ \/ SettleUnbound(r, "block_taskrun")
       \/ /\ proc' = Moved(r, "failReview")
          /\ UNCHANGED <<runs, attempts, candidates, decisions, leases>>
    /\ UNCHANGED <<tools, continuations, inputs, pendingApproval, phase,
                   generation>>

\* reviewAttemptFailure returned.  Neither closing nor the continuation lease
\* is read again.
FailReviewDone(r, action) ==
    /\ Alive
    /\ proc[r].stage = "failReview"
    /\ SettleUnbound(r, action)
    /\ UNCHANGED <<tools, continuations, inputs, pendingApproval, phase,
                   generation>>

\* ensureSettlementApproval.
RequestApproval(r) ==
    /\ proc[r].stage = "approving"
    /\ pendingApproval' = pendingApproval \cup {r}
    /\ proc' = Returned(r, FALSE)
    /\ UNCHANGED <<runs, attempts, leases, candidates, decisions, tools,
                   continuations, inputs, phase, generation>>

\* The reaction to execute: updateContinuation, then queueContinuation.
AfterExecute(r) ==
    /\ proc[r].stage = "then"
    /\ IF closing \/ LostContinuation(r)
       THEN /\ proc' = Moved(r, "finalizing")
            /\ UNCHANGED continuations
       ELSE /\ proc' = Moved(r, IF proc[r].again THEN "queueing"
                                ELSE "finalizing")
            /\ continuations' = IF proc[r].continuation
                                THEN EndedContinuation(r)
                                ELSE continuations
    /\ UNCHANGED <<runs, attempts, leases, candidates, decisions, tools,
                   inputs, pendingApproval, phase, generation>>

\* The continuation budget of a run is used up.
Exhausted(r) == continuations[r].total >= MaxContinuations

Queueable(r) ==
    /\ runs[r].status = "blocked"
    /\ continuations[r].status = "none"
    /\ ~Exhausted(r)

\* ContinuationScheduler.queueContinuation.  After two continuations with the
\* same progress signature the run is left blocked; a provider retry is queued
\* with a not_before in the future.
QueueContinuation(r) ==
    /\ proc[r].stage = "queueing"
    /\ \/ /\ ~Queueable(r) \/ continuations[r].total >= 2
          /\ UNCHANGED continuations
       \/ /\ Queueable(r)
          /\ \E due \in BOOLEAN :
                continuations' = [continuations EXCEPT ![r] = Queued(@, due, 0)]
    /\ proc' = Moved(r, "finalizing")
    /\ UNCHANGED <<runs, attempts, leases, candidates, decisions, tools,
                   inputs, pendingApproval, phase, generation>>

\* not_before passes.
ContinuationDue(r) ==
    /\ continuations[r].status = "queued" /\ ~continuations[r].due
    /\ continuations' = [continuations EXCEPT ![r].due = TRUE]
    /\ UNCHANGED <<runs, attempts, leases, candidates, decisions, tools,
                   inputs, pendingApproval, phase, generation, proc>>

-----------------------------------------------------------------------------
(* Starting a further Attempt: continuation, resume, approval, input.       *)

\* Faulty variant: the budget is checked a second time, at the claim.
ClaimableInBudget(r) ==
    /\ phase = "up"
    /\ continuations[r].status = "queued" /\ continuations[r].due
    /\ runs[r].status = "blocked"
    /\ \A q \in Runs \ {r} : runs[q].status # "running"
    /\ Cur(r) < MaxAttempts
    /\ ~Exhausted(r)

\* claimContinuation, within the bound on Attempts.
Claimable(r) ==
    /\ phase = "up"
    /\ continuations[r].status = "queued" /\ continuations[r].due
    /\ runs[r].status = "blocked"
    /\ \A q \in Runs \ {r} : runs[q].status # "running"
    /\ Cur(r) < MaxAttempts

\* state.runtimes has no runtime of r: a preparation is not registered there.
Unregistered(r) == proc[r].stage \in {"none", "preparing"}

Outcomes == {"launched", "preparation_failed", "factory_failed"}

\* startQueuedContinuation: claim and launch in one synchronous segment.  A
\* preparation that throws requeues the continuation (releaseContinuationLease)
\* and a runtime factory that throws ends it.  base is the lease table.
ClaimAndLaunch(r, outcome, base) ==
    LET n == Cur(r) + 1
        acquired == Acquired(base, r, n)
    IN  /\ \/ /\ outcome = "launched"
              /\ runs' = RunAt(r, n, "running", "none")
              /\ attempts' = Started(r, n, "running")
              /\ leases' = acquired
              /\ continuations' = [continuations EXCEPT ![r] = Claimed(@)]
              /\ proc' = [proc EXCEPT ![r] = Executor("executing", n, TRUE)]
           \/ /\ outcome = "preparation_failed"
              /\ runs' = RunAt(r, n, "blocked", "none")
              /\ attempts' = Started(r, n, "blocked")
              /\ leases' = base
              /\ proc' = [proc EXCEPT ![r] = Idle]
              /\ UNCHANGED continuations
           \/ /\ outcome = "factory_failed"
              /\ runs' = RunAt(r, n, "failed", "init")
              /\ attempts' = Started(r, n, "failed")
              /\ leases' = [acquired EXCEPT ![r][n].status = "released"]
              /\ continuations' = EndedContinuation(r)
              /\ proc' = [proc EXCEPT ![r] = Idle]
        /\ inputs' = [inputs EXCEPT ![r] = "none"]

\* The recovery timer's startQueuedContinuation.
StartQueuedContinuation(r, outcome) ==
    /\ Serving
    /\ Unregistered(r)
    /\ Claimable(r)
    /\ ClaimAndLaunch(r, outcome, leases)
    /\ UNCHANGED <<candidates, decisions, tools, pendingApproval, phase,
                   generation>>

\* The runtime is disposed: the executor releases its lease and, in the same
\* segment, starts a continuation that is due (finalizePostAttempt).
Finalize(r, outcome) ==
    /\ Alive
    /\ proc[r].stage = "finalizing"
    /\ \/ /\ Claimable(r)
          /\ ClaimAndLaunch(r, outcome, Released(r, proc[r].attempt))
       \/ /\ ~Claimable(r)
          /\ leases' = Released(r, proc[r].attempt)
          /\ proc' = [proc EXCEPT ![r] = Idle]
          /\ UNCHANGED <<runs, attempts, continuations, inputs>>
    /\ UNCHANGED <<candidates, decisions, tools, pendingApproval, phase,
                   generation>>

\* A disposer that fails keeps the run's runtime registered: no new Attempt of
\* it is launched by this process.
DisposeFails(r) ==
    /\ Alive
    /\ proc[r].stage = "finalizing"
    /\ leases' = Released(r, proc[r].attempt)
    /\ proc' = [proc EXCEPT ![r] = Executor("retained", @.attempt, FALSE)]
    /\ UNCHANGED <<runs, attempts, candidates, decisions, tools, continuations,
                   inputs, pendingApproval, phase, generation>>

\* isRunResumable.
Resumable(r) ==
    \/ runs[r].status \in {"blocked", "interrupted"}
    \/ runs[r].status = "failed" /\ runs[r].failure = "timeout"

\* RunContextService.resume past its guards: queued continuations (only) are
\* cancelled, then a new Attempt is started and launched.
ResumeAttempt(r, outcome) ==
    LET n == Cur(r) + 1
        acquired == Acquired(leases, r, n)
    IN  /\ Cur(r) < MaxAttempts
        /\ continuations' = CancelledQueued(r)
        /\ inputs' = [inputs EXCEPT ![r] = "none"]
        /\ \/ /\ outcome = "launched"
              /\ runs' = RunAt(r, n, "running", "none")
              /\ attempts' = Started(r, n, "running")
              /\ leases' = acquired
              /\ proc' = [proc EXCEPT ![r] = Executor("executing", n, FALSE)]
           \/ /\ outcome = "preparation_failed"
              /\ runs' = RunAt(r, n, "failed", "other")
              /\ attempts' = Started(r, n, "failed")
              /\ UNCHANGED <<leases, proc>>
           \/ /\ outcome = "factory_failed"
              /\ runs' = RunAt(r, n, "failed", "init")
              /\ attempts' = Started(r, n, "failed")
              /\ leases' = [acquired EXCEPT ![r][n].status = "released"]
              /\ UNCHANGED proc

\* resume of a run the transition refuses: the queued continuation is already
\* cancelled when transitionSystem throws.
ResumeRefused(r) ==
    /\ continuations' = CancelledQueued(r)
    /\ UNCHANGED <<runs, attempts, leases, inputs, proc>>

\* A manual resume.  A run whose executor is still ending is waited for; one
\* with a pending approval is refused before anything is written.
Resume(r, outcome) ==
    /\ Serving
    /\ Unregistered(r)
    /\ runs[r].status # "absent"
    /\ r \notin pendingApproval
    /\ \/ Resumable(r) /\ ResumeAttempt(r, outcome)
       \/ ~Resumable(r) /\ ResumeRefused(r)
    /\ UNCHANGED <<candidates, decisions, tools, pendingApproval, phase,
                   generation>>

\* approveRunApproval of a resume_taskrun request: resolve, then resume.
Approve(r, outcome) ==
    /\ Serving
    /\ r \in pendingApproval
    /\ pendingApproval' = pendingApproval \ {r}
    /\ \/ Unregistered(r) /\ Resumable(r) /\ ResumeAttempt(r, outcome)
       \/ Unregistered(r) /\ ~Resumable(r) /\ ResumeRefused(r)
       \/ /\ ~Unregistered(r)
          /\ UNCHANGED <<runs, attempts, leases, continuations, inputs, proc>>
    /\ UNCHANGED <<candidates, decisions, tools, phase, generation>>

\* rejectRunApproval.
RejectApproval(r) ==
    /\ Serving
    /\ r \in pendingApproval
    /\ pendingApproval' = pendingApproval \ {r}
    /\ UNCHANGED <<runs, attempts, leases, candidates, decisions, tools,
                   continuations, inputs, phase, generation, proc>>

\* submitRunUserInput: the executor is aborted and awaited, the response is
\* stored, and the run resumes in the same segment unless resume throws (the
\* runtime is retained, or an approval is pending); a resubmission retries it.
SubmitInput(r, outcome) ==
    /\ Serving
    /\ inputs[r] \in {"pending", "submitted"}
    /\ Unregistered(r) \/ proc[r].stage = "retained"
    /\ \/ /\ Unregistered(r) /\ r \notin pendingApproval
          /\ runs[r].status = "waiting_input"
          /\ ResumeAttempt(r, outcome)
       \/ /\ proc[r].stage = "retained" \/ r \in pendingApproval
          /\ inputs' = [inputs EXCEPT ![r] = "submitted"]
          /\ UNCHANGED <<runs, attempts, leases, continuations, proc>>
    /\ UNCHANGED <<candidates, decisions, tools, pendingApproval, phase,
                   generation>>

-----------------------------------------------------------------------------
(* Timers, cancellation and re-adjudication.                                *)

\* The event loop was held long enough, or the process was down; a synchronous
\* segment takes no time.
LeaseExpires(r) ==
    /\ Quiet
    /\ \E n \in Ordinals :
          /\ leases[r][n].status = "live"
          /\ leases' = [leases EXCEPT ![r][n].status = "expired"]
    /\ UNCHANGED <<runs, attempts, candidates, decisions, tools, continuations,
                   inputs, pendingApproval, phase, generation, proc>>

ContinuationLeaseExpires(r) ==
    /\ Quiet
    /\ continuations[r].status = "running" /\ continuations[r].live
    /\ continuations' = [continuations EXCEPT ![r].live = FALSE]
    /\ UNCHANGED <<runs, attempts, leases, candidates, decisions, tools,
                   inputs, pendingApproval, phase, generation, proc>>

\* Faulty variant: the heartbeat starts only after runtime.initialize.
HeartbeatAfterInitialize(r) ==
    /\ Alive
    /\ proc[r].stage \in WorkStages \ {"initializing"}
    /\ leases[r][proc[r].attempt].status = "expired"
    /\ Recoverable(r)
    /\ RecoverInterruptedAttempt(r, decisions)
    /\ UNCHANGED <<tools, continuations, inputs, pendingApproval, phase,
                   generation, proc>>

\* The execution lease heartbeat is refused: the Attempt is recovered.
HeartbeatFails(r) ==
    /\ Alive
    /\ proc[r].stage \in WorkStages
    /\ leases[r][proc[r].attempt].status = "expired"
    /\ Recoverable(r)
    /\ RecoverInterruptedAttempt(r, decisions)
    /\ UNCHANGED <<tools, continuations, inputs, pendingApproval, phase,
                   generation, proc>>

\* failTimeout, of the idle watchdog or the hard timer.  With an expired lease
\* and a running Attempt it throws out of the timer, which ends the process
\* (Crash).
Timeout(r) ==
    LET n == proc[r].attempt IN
    /\ Alive
    /\ proc[r].stage \in WorkStages
    /\ Current(r)
    /\ \/ /\ FenceValid(r)
          /\ runs' = RunFailed(r, "timeout")
          /\ attempts' = Projected(r, n, "failed")
          /\ UNCHANGED <<candidates, decisions, leases>>
       \/ /\ attempts[r][n].status = "settling"
          /\ RecoverInterruptedAttempt(r, decisions)
    /\ UNCHANGED <<tools, continuations, inputs, pendingApproval, phase,
                   generation, proc>>

\* cancelAttempt of the active Attempt: whatever its executor is doing.
Cancel(r) ==
    LET n == Cur(r) IN
    /\ Serving
    /\ runs[r].status = "running"
    /\ attempts[r][n].status \in ActiveStatus
    /\ runs' = RunMoved(r, "cancelled")
    /\ attempts' = Projected(r, n, "cancelled")
    /\ candidates' = Rejected(r, n)
    /\ decisions' = Superseded(decisions, r, n)
    /\ leases' = Released(r, n)
    /\ UNCHANGED <<tools, continuations, inputs, pendingApproval, phase,
                   generation, proc>>

\* The conditions of acceptRunUncertainty and reAdjudicateBlockedCandidate.
CanReAdjudicate(r) ==
    LET n == Cur(r) IN
    /\ runs[r].status = "blocked"
    /\ attempts[r][n].status = "blocked"
    /\ candidates[r][n].status = "rejected"
    /\ candidates[r][n].attemptVersion + 1 = attempts[r][n].version
    /\ decisions[r][n].status = "executed"
    /\ decisions[r][n].action = "block_taskrun"
    /\ decisions[r][n].bound

\* Every unsupported criterion was accepted by an operator: the preserved
\* Candidate is delivered without running the Agent again.
ReAdjudicate(r) ==
    LET n == Cur(r) IN
    /\ Serving
    /\ CanReAdjudicate(r)
    /\ runs' = RunMoved(r, "completed")
    /\ attempts' = Projected(r, n, "completed")
    /\ candidates' = [candidates EXCEPT ![r][n].status = "accepted"]
    /\ decisions' = [decisions EXCEPT ![r][n] =
                        [status |-> "executed", action |-> "complete_taskrun",
                         bound |-> TRUE]]
    /\ UNCHANGED <<leases, tools, continuations, inputs, pendingApproval,
                   phase, generation, proc>>

-----------------------------------------------------------------------------
(* The Generation process: crash, shutdown, startup.                        *)

\* The process ends without a further write, at any point of its life.
Crash ==
    /\ phase # "down"
    /\ generation < MaxGenerations
    /\ phase' = "down"
    /\ proc' = [r \in Runs |-> Idle]
    /\ continuations' = [r \in Runs |-> [continuations[r] EXCEPT
                                            !.mine = FALSE]]
    /\ UNCHANGED <<runs, attempts, leases, candidates, decisions, tools,
                   inputs, pendingApproval, generation>>

BeginShutdown ==
    /\ Serving
    /\ generation < MaxGenerations
    /\ phase' = "closing"
    /\ UNCHANGED <<durable, generation, proc>>

\* closeRuntimes once every executor has settled and every disposer succeeded:
\* releaseContinuationLeases of this process ...
ShutdownRelease ==
    /\ closing
    /\ \A r \in Runs : proc[r].stage \in {"none", "retained"}
    /\ Requeue({r \in Runs : continuations[r].status = "running"
                             /\ continuations[r].mine})
    /\ phase' = "released"
    /\ UNCHANGED <<leases, candidates, decisions, tools, inputs,
                   pendingApproval, generation, proc>>

\* listInterruptibleSystemAttempts throws unless every running TaskRun has a
\* running Attempt.
InterruptReady ==
    \A r \in Runs : runs[r].status = "running"
                       => attempts[r][Cur(r)].status = "running"

\* Faulty variant: only the runs table is updated.
MarkRunsInterrupted ==
    /\ InterruptReady
    /\ runs' = [r \in Runs |->
          IF runs[r].status = "running"
          THEN [runs[r] EXCEPT !.status = "interrupted", !.restarted = TRUE]
          ELSE runs[r]]
    /\ UNCHANGED attempts

\* markInterrupted.
MarkInterrupted ==
    /\ InterruptReady
    /\ runs' = [r \in Runs |->
          IF runs[r].status = "running"
          THEN [runs[r] EXCEPT !.status = "interrupted", !.restarted = TRUE]
          ELSE runs[r]]
    /\ attempts' = [r \in Runs |-> [n \in Ordinals |->
          IF runs[r].status = "running" /\ n = Cur(r)
          THEN [status |-> "interrupted",
                version |-> attempts[r][n].version + 1]
          ELSE attempts[r][n]]]

\* ... then shutdown_interrupt_active, and the process exits.
ShutdownInterrupt ==
    /\ phase = "released"
    /\ MarkInterrupted
    /\ phase' = "down"
    /\ proc' = [r \in Runs |-> Idle]
    /\ UNCHANGED <<leases, candidates, decisions, tools, continuations, inputs,
                   pendingApproval, generation>>

\* A new process: runStartupRecovery, then startup_interrupt_active.
Startup ==
    /\ phase = "down"
    /\ generation < MaxGenerations
    /\ MarkInterrupted
    /\ tools' = [r \in Runs |-> [n \in Ordinals |->
          IF tools[r][n] = "running" THEN "unknown" ELSE tools[r][n]]]
    /\ generation' = generation + 1
    /\ phase' = "interrupted"
    /\ UNCHANGED <<leases, candidates, decisions, continuations, inputs,
                   pendingApproval, proc>>

\* listSupervisorContinuationsNeedingReconcile.
NeedsReconcile(r) ==
    /\ Queueable(r)
    /\ decisions[r][Cur(r)].status = "executed"
    /\ decisions[r][Cur(r)].action = "start_continuation"

\* reconcileSupervisorDecisionStatuses, then queueContinuation of each listed
\* run that is not stalled (as in QueueContinuation).
StartupReconcile ==
    /\ phase = "interrupted"
    /\ decisions' = [r \in Runs |-> [n \in Ordinals |->
          IF decisions[r][n].status = "proposed"
          THEN [decisions[r][n] EXCEPT !.status = "superseded"]
          ELSE decisions[r][n]]]
    /\ \E stalled \in SUBSET {r \in Runs : continuations[r].total >= 2} :
          continuations' = [r \in Runs |->
             IF r \notin stalled /\ NeedsReconcile(r)
             THEN Queued(continuations[r], TRUE, 0)
             ELSE continuations[r]]
    /\ phase' = "reconciled"
    /\ UNCHANGED <<runs, attempts, leases, candidates, tools, inputs,
                   pendingApproval, generation, proc>>

\* The conditions of queueSafeCrashRecoveryContinuations.
SafeToRecover(r) ==
    /\ runs[r].status = "interrupted" /\ runs[r].restarted
    /\ continuations[r].status = "none"
    /\ \A n \in Ordinals : tools[r][n] = "none"
    /\ inputs[r] # "pending"
    /\ r \notin pendingApproval
    /\ continuations[r].crashes < MaxCrashRecoveries

\* The rest of the first recoverContinuations: the safe crash recoveries, then
\* the running continuations whose lease expired while the process was down.
StartupRecover ==
    LET S == {r \in Runs : SafeToRecover(r)} IN
    /\ phase = "reconciled"
    /\ continuations' = [r \in Runs |->
          IF r \in S THEN Queued(continuations[r], TRUE, 1)
          ELSE IF r \in Stale THEN Requeued(continuations[r])
          ELSE continuations[r]]
    /\ runs' = [r \in Runs |->
          IF r \in S \/ (r \in Stale /\ runs[r].status
                              \in {"running", "interrupted", "blocked"})
          THEN [runs[r] EXCEPT !.status = "blocked"]
          ELSE runs[r]]
    /\ attempts' = [r \in Runs |-> [n \in Ordinals |->
          IF r \in S \cup Stale /\ n = Cur(r)
          THEN [status |-> "blocked", version |-> attempts[r][n].version + 1]
          ELSE attempts[r][n]]]
    /\ phase' = "up"
    /\ UNCHANGED <<leases, candidates, decisions, tools, inputs,
                   pendingApproval, generation, proc>>

-----------------------------------------------------------------------------
Init ==
    /\ runs = [r \in Runs |-> [status |-> "absent", attempt |-> 0,
                               failure |-> "none", restarted |-> FALSE]]
    /\ attempts = [r \in Runs |-> [n \in Ordinals |->
                      [status |-> "absent", version |-> 0]]]
    /\ leases = [r \in Runs |-> [n \in Ordinals |->
                      [status |-> "none", attemptVersion |-> 0]]]
    /\ candidates = [r \in Runs |-> [n \in Ordinals |->
                      [status |-> "none", attemptVersion |-> 0]]]
    /\ decisions = [r \in Runs |-> [n \in Ordinals |->
                      [status |-> "none", action |-> "none",
                       bound |-> FALSE]]]
    /\ tools = [r \in Runs |-> [n \in Ordinals |-> "none"]]
    /\ continuations = [r \in Runs |->
                          [status |-> "none", mine |-> FALSE, live |-> FALSE,
                           due |-> FALSE, total |-> 0, crashes |-> 0]]
    /\ inputs = [r \in Runs |-> "none"]
    /\ pendingApproval = {}
    /\ phase = "up"
    /\ generation = 1
    /\ proc = [r \in Runs |-> Idle]

LaunchStep(r) ==
    \/ CreateRun(r) \/ RetryLaunch(r) \/ Launch(r) \/ LaunchFails(r)
    \/ LaunchAbandoned(r) \/ RuntimeInitialized(r) \/ InitializationFails(r)

PromptStep(r) ==
    \/ ToolStarts(r) \/ ToolCompletes(r) \/ RequestUserInput(r)
    \/ RuntimeSettles(r) \/ RuntimeFails(r) \/ RuntimeEndsFenced(r)
    \/ EndsIdle(r) \/ EndsUnowned(r)

SettlementStep(r) ==
    \/ \E action \in SettledActions : ReviewDone(r, action)
    \/ ReviewFails(r)
    \/ \E action \in FailureActions : FailReviewDone(r, action)
    \/ RequestApproval(r) \/ AfterExecute(r) \/ QueueContinuation(r)
    \/ DisposeFails(r)
    \/ \E outcome \in Outcomes : Finalize(r, outcome)

UserStep(r) ==
    \/ \E outcome \in Outcomes :
          Resume(r, outcome) \/ Approve(r, outcome) \/ SubmitInput(r, outcome)
    \/ RejectApproval(r) \/ Cancel(r) \/ ReAdjudicate(r)

TimerStep(r) ==
    \/ \E outcome \in Outcomes : StartQueuedContinuation(r, outcome)
    \/ ContinuationDue(r) \/ LeaseExpires(r) \/ ContinuationLeaseExpires(r)
    \/ HeartbeatFails(r) \/ Timeout(r)

ProcessStep ==
    \/ RecoverContinuations \/ Crash \/ BeginShutdown \/ ShutdownRelease
    \/ ShutdownInterrupt \/ Startup \/ StartupReconcile \/ StartupRecover

Next ==
    \/ \E r \in Runs : \/ LaunchStep(r) \/ PromptStep(r) \/ SettlementStep(r)
                       \/ UserStep(r) \/ TimerStep(r)
    \/ ProcessStep

Spec == Init /\ [][Next]_vars

\* What the process does by itself while it lives: preparations and disposers
\* end (each has its own timeout), promise reactions run, the heartbeat, the
\* hard timer and the recovery timer fire.  That a prompt or a review of an
\* Attempt that is still current ever returns is not assumed; once the Attempt
\* is no longer current its runtime was aborted, and the reviewer's stream has
\* an idle timeout of its own.
ExecutorStep(r) ==
    \/ Launch(r) \/ LaunchFails(r) \/ LaunchAbandoned(r)
    \/ RequestApproval(r) \/ AfterExecute(r) \/ QueueContinuation(r)
    \/ HeartbeatFails(r) \/ Timeout(r)
EndsStep(r) ==
    \/ EndsIdle(r) \/ EndsUnowned(r)
    \/ /\ ~Current(r)
       /\ \E action \in FailureActions :
             ReviewDone(r, action) \/ FailReviewDone(r, action)
DisposeStep(r) ==
    DisposeFails(r) \/ \E outcome \in Outcomes : Finalize(r, outcome)
RecoveryTimer(r) ==
    \/ ContinuationDue(r)
    \/ \E outcome \in Outcomes : StartQueuedContinuation(r, outcome)

FairSpec ==
    /\ Spec
    /\ \A r \in Runs : /\ WF_vars(ExecutorStep(r)) /\ WF_vars(EndsStep(r))
                       /\ WF_vars(DisposeStep(r)) /\ WF_vars(RecoveryTimer(r))

-----------------------------------------------------------------------------
(* Properties that hold.                                                    *)

\* The two projections of "this TaskRun executes", runs.status and the Attempt
\* row, are written by a dozen transactions of four repositories, and agree in
\* every state a crash can expose: an Attempt is active (running or settling)
\* exactly when it is the current Attempt of a running TaskRun.
RunningIffActive ==
    \A r \in Runs : \A n \in Ordinals :
        attempts[r][n].status \in ActiveStatus
            <=> runs[r].status = "running" /\ n = Cur(r)

\* A response is delivered (its Candidate is accepted) only in a completed
\* TaskRun, from its current Attempt, under an executed complete_taskrun
\* decision of that Attempt; and a completed TaskRun has delivered one.
DeliveryAuthorized ==
    \A r \in Runs :
        /\ \A n \in Ordinals :
              candidates[r][n].status = "accepted" =>
                 /\ runs[r].status = "completed" /\ n = Cur(r)
                 /\ decisions[r][n].status = "executed"
                 /\ decisions[r][n].action = "complete_taskrun"
        /\ runs[r].status = "completed" =>
              candidates[r][Cur(r)].status = "accepted"

\* While the process serves, a running TaskRun has an executor for its current
\* Attempt that either still prepares it or holds an unreleased lease with
\* which the heartbeat and the timeout can end it: no lease expiry, lost
\* continuation, refused settlement or failed review strands it.
NoOrphanedRun ==
    \A r \in Runs :
        phase = "up" /\ runs[r].status = "running" =>
            /\ proc[r].attempt = Cur(r)
            /\ \/ proc[r].stage = "preparing"
               \/ proc[r].stage \in WorkStages /\ Recoverable(r)

\* An Attempt that a newer one has replaced keeps its row and its Candidate:
\* neither the start of the newer Attempt nor a late callback of the old
\* executor writes them.
OldAttemptsFrozen ==
    [][\A r \in Runs : \A n \in Ordinals :
          n < runs'[r].attempt =>
              /\ attempts'[r][n] = attempts[r][n]
              /\ candidates'[r][n] = candidates[r][n]]_vars

\* completed and cancelled are final: no resume, continuation, crash recovery
\* or late settlement starts the TaskRun again.
TerminalIsFinal ==
    [][\A r \in Runs :
          runs[r].status \in {"completed", "cancelled"} =>
              /\ runs'[r].status = runs[r].status
              /\ runs'[r].attempt = runs[r].attempt]_vars

\* A TaskRun that runs comes to rest while its process serves, after a restart
\* too, although neither the model nor the reviewer ever answers: the timers and
\* the lease heartbeat suffice.
Executing(r) == phase = "up" /\ runs[r].status = "running"
RunEventuallyRests ==
    \A r \in Runs : Executing(r) ~> ~Executing(r)

\* A queued continuation of a blocked TaskRun is eventually claimed (or
\* superseded) by the recovery timer; only a runtime whose disposal failed keeps
\* it waiting.
WaitingToContinue(r) ==
    /\ phase = "up"
    /\ continuations[r].status = "queued"
    /\ runs[r].status = "blocked"
    /\ Cur(r) < MaxAttempts
    /\ proc[r].stage # "retained"
ContinuationEventuallyStarts ==
    \A r \in Runs : WaitingToContinue(r) ~> ~WaitingToContinue(r)

-----------------------------------------------------------------------------
(* Statements of the documentation that the code does not keep.             *)

\* "a Generation crash restarts the committed release and resumes only
\* provably safe interrupted TaskRuns" (README.md): whenever the process is
\* down, listInterruptibleSystemAttempts lets the next one start.
StartupInterruptPossible == phase = "down" => InterruptReady

\* "pause_for_approval: create/retain a durable approval request; do not
\* auto-continue" (docs/SUPERVISOR.md): a TaskRun with a pending approval does
\* not run.
ApprovalStopsExecution ==
    \A r \in pendingApproval : runs[r].status # "running"

\* "Any ambiguity leaves the Run interrupted for human reconciliation"
\* (docs/PERSISTENCE_AND_RECOVERY.md): a TaskRun whose current Attempt has a
\* tool call of unknown outcome is not queued for an automatic continuation.
AmbiguityAwaitsHuman ==
    \A r \in Runs :
        phase = "up" /\ runs[r].status = "blocked"
            /\ continuations[r].status = "queued"
            => tools[r][Cur(r)] # "unknown"

\* "enforces the first-class Attempt state machine exhaustively" with
\* "completed: []" (tests/attempt-domain.test.ts): the Attempt that completed
\* its TaskRun stays completed.
CompletedAttemptIsFinal ==
    \A r \in Runs :
        runs[r].status = "completed" => attempts[r][Cur(r)].status = "completed"
=============================================================================
