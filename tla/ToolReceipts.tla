---------------------------- MODULE ToolReceipts ----------------------------
(***************************************************************************)
(* The tool pipeline of one TaskRun: authorization, tool attempts,         *)
(* operation receipts, tool processes and the checks that cite receipts.   *)
(*                                                                         *)
(* The harness announces a call (beforeToolCall), dispatches it (the       *)
(* wrapped execute) and reports its result (afterToolCall); the same call  *)
(* id may come again.  Tools work through detached child processes: the    *)
(* effect lands at some moment while the process lives, and the process    *)
(* may outlive the Core that started it.  Every write is fenced by the     *)
(* Attempt's lease; the process may die anywhere, and startup then turns   *)
(* what was running into outcome_unknown.  One Attempt runs at a time      *)
(* (TaskRunLifecycle models how they follow one another).                  *)
(***************************************************************************)
EXTENDS Naturals, Sequences, FiniteSets, ShellPolicy

CONSTANTS
    Calls,          \* tool call ids the model produces
    Scripts,        \* bound: sequences of requests, [tool, action, command]
    MaxAttempts,    \* bound: Attempts of the TaskRun
    MaxFaults,      \* bound: aborts, lost leases, expiries and restarts
    SameArgsLimit,  \* evaluateToolGuard: repeats with the same arguments
    SameFailureLimit, ToolFailureLimit

ASSUME ToolAssumption ==
    /\ MaxAttempts \in Nat \ {0} /\ MaxFaults \in Nat
    /\ {SameArgsLimit, SameFailureLimit, ToolFailureLimit} \subseteq Nat \ {0}
    /\ \A s \in Scripts : \A i \in DOMAIN s :
          s[i].tool \in {"ls", "write", "bash", "task_run"}

VARIABLES
    attempt,    \* the current Attempt's ordinal
    run,        \* "running", "waiting_input" or "ended"
    lease,      \* the Attempt's execution lease is valid
    aborted,    \* the Attempt's abort signal
    approvals,  \* approvals[a]: the external-action approval of Attempt a
    calls,      \* ToolExecutionPipeline.calls, with the harness's own stage
    rows,       \* tool_attempts of the TaskRun by id
    operations, \* operations: the receipts
    trees,      \* trees[o]: the operation's process tree
    check,      \* one required row of run_checks
    script,     \* what the model still asks for
    faults,     \* faults so far
    effects,    \* history: how often each operation's effect landed
    since       \* history: mutations landed since the check was registered

vars == <<attempt, run, lease, aborted, approvals, calls, rows, operations,
          trees, check, script, faults, effects, since>>

Ids == (1..MaxAttempts) \X Calls
OperationId(c) == <<attempt, c>>

-----------------------------------------------------------------------------
\* Tool policies

OperationType(q) == IF q.tool = "task_run" THEN "none" ELSE q.tool
WorkspaceAccess(q) ==
    CASE q.tool = "ls"    -> "read_only"
      [] q.tool = "write" -> "mutation"
      [] q.tool = "bash"  -> BashCommandEffect(q.command)
      [] OTHER            -> "none"
RequireExplicit(q) ==
    q.tool = "bash" /\ BashRequiresExplicitApproval(q.command)
InvalidatesChecks(q) ==
    \/ q.tool = "write"
    \/ q.tool = "bash" /\ BashInvalidatesChecks(q.command)
ExecutionModeSequential(q) == q.tool # "ls"
PreflightGuard(q) ==
    q.tool = "bash" /\ BashCommandTargetsHostingCore(q.command)

NoRequest == [tool |-> "none", action |-> "none", command |-> <<>>]
NoCall == [stage |-> "idle", q |-> NoRequest, blocked |-> FALSE,
           activated |-> FALSE, settled |-> FALSE, recorded |-> FALSE]
NoOperation == [status |-> "absent", q |-> NoRequest]
NoCheck == [status |-> "none", stale |-> FALSE, source |-> <<>>]

Init ==
    /\ attempt = 1 /\ run = "running" /\ lease = TRUE /\ aborted = FALSE
    /\ approvals \in [1..MaxAttempts -> {"none", "approved"}]
    /\ calls = [c \in Calls |-> NoCall]
    /\ rows = <<>>
    /\ operations = [o \in Ids |-> NoOperation]
    /\ trees = [o \in Ids |-> "none"]
    /\ check = NoCheck
    /\ script \in Scripts /\ faults = 0
    /\ effects = [o \in Ids |-> 0]
    /\ since = {}

\* currentAttempt, and withFence
CurrentAttempt == run = "running"
FenceValid == CurrentAttempt /\ lease

-----------------------------------------------------------------------------
\* tool_attempts

Recorded(c) == \E i \in DOMAIN rows : rows[i].id = OperationId(c)

\* The length of the longest run, from the newest, of settled rows that satisfy P.
Streak(P(_)) ==
    Cardinality({i \in DOMAIN rows :
                    /\ rows[i].status # "running"
                    /\ \A j \in i..Len(rows) : rows[j].status # "running" => P(rows[j])})

\* Faulty variant: failures with the same arguments are not looked at.
EvaluateToolGuardRepeatsOnly(q) == Streak(LAMBDA r : r.q = q) >= SameArgsLimit

\* evaluateToolGuard
EvaluateToolGuard(q) ==
    LET failures == Streak(LAMBDA r : r.q = q /\ r.status = "failed")
    IN  \/ Streak(LAMBDA r : r.q = q) >= SameArgsLimit
        \/ q.tool = "bash" /\ failures >= 1
        \/ failures >= SameFailureLimit
        \/ Streak(LAMBDA r : r.q.tool = q.tool /\ r.status = "failed") >= ToolFailureLimit

\* completeToolAttempt
Completed(rs, o, ok) ==
    [i \in DOMAIN rs |->
        IF rs[i].id = o /\ rs[i].status = "running"
        THEN [rs[i] EXCEPT !.status = IF ok THEN "succeeded" ELSE "failed"]
        ELSE rs[i]]

\* settle: once per call, and only while the Attempt is current.  An expired
\* lease makes the write throw; the call counts as settled all the same.
Settle(cs, rs, c, ok) ==
    /\ calls' = [cs EXCEPT ![c].settled = TRUE, ![c].stage = "returned"]
    /\ rows' = IF ~cs[c].settled /\ cs[c].recorded /\ FenceValid
               THEN Completed(rs, OperationId(c), ok) ELSE rs

-----------------------------------------------------------------------------
\* beforeToolCall

\* Two calls run side by side only when neither tool is sequential.
MayStart(q) ==
    \A c \in Calls : calls[c].stage \in {"hooked", "executing"}
        => ~ExecutionModeSequential(q) /\ ~ExecutionModeSequential(calls[c].q)

\* inspectExternalActionAuthorization for the current Attempt
Authorized == CurrentAttempt /\ approvals[attempt] \in {"approved", "active"}

\* authorizeWorkspaceMutation is Workspace Goals' answer: either.
Preflight(q, goalAllows) ==
    /\ CurrentAttempt
    /\ ~PreflightGuard(q)
    /\ RequireExplicit(q) => Authorized
    /\ WorkspaceAccess(q) \in {"mutation", "code_execution"} => goalAllows

\* A call id the pipeline has not seen.  One without authority also asks for an
\* approval, which stops the TaskRun (SessionInbox!ToolNeedsApproval).  The record
\* of a blocked call and its settlement are one step of the event loop.
Announce(c, q) ==
    /\ calls[c].stage = "idle" /\ MayStart(q)
    /\ \E goalAllows \in BOOLEAN :
          LET admitted == Preflight(q, goalAllows)
              created == admitted /\ ~Recorded(c)
              blocked == ~admitted \/ Recorded(c) \/ EvaluateToolGuard(q)
              called == [NoCall EXCEPT !.stage = "hooked", !.q = q,
                                       !.blocked = blocked, !.recorded = created]
              recorded == IF created
                          THEN Append(rows, [id |-> OperationId(c), q |-> q,
                                             status |-> "running"])
                          ELSE rows
          IN  /\ admitted => FenceValid      \* otherwise the hook throws
              /\ IF blocked
                 THEN Settle([calls EXCEPT ![c] = called], recorded, c, FALSE)
                 ELSE /\ calls' = [calls EXCEPT ![c] = called]
                      /\ rows' = recorded

\* The id again: another payload, a settled call without a receipt and a
\* blocked call are refused, a call in flight is not started twice.
AnnounceAgain(c, q) ==
    /\ calls[c].stage = "returned" /\ MayStart(q)
    /\ calls[c].q = q /\ ~calls[c].blocked
    /\ OperationType(q) # "none"
    /\ calls' = [calls EXCEPT ![c].stage = "hooked"]
    /\ UNCHANGED rows

BeforeToolCall(c, q) ==
    /\ Announce(c, q) \/ AnnounceAgain(c, q)
    /\ script' = Tail(script)
    /\ UNCHANGED <<attempt, run, lease, aborted, approvals, operations, trees,
                   check, effects, since, faults>>

-----------------------------------------------------------------------------
\* execute, up to the tool's first await

Fails(c) == Settle(calls, rows, c, FALSE)

\* A signal aborted between the hook and the dispatch; afterToolCall settles
\* a call that the harness no longer dispatches in the same way.
AbortedBeforeDispatch(c) ==
    /\ calls[c].stage = "hooked" /\ aborted
    /\ Fails(c)
    /\ UNCHANGED <<attempt, run, lease, aborted, approvals, operations, trees,
                   check, script, effects, since, faults>>

\* claimOperation under a lost fence throws; the receipt of an earlier
\* dispatch is returned when it succeeded and refused otherwise.
Unclaimed(c) ==
    \/ ~FenceValid /\ Fails(c)
    \/ /\ FenceValid /\ operations[OperationId(c)].status # "absent"
       /\ Settle(calls, rows, c, operations[OperationId(c)].status = "succeeded")

\* Faulty variant: an existing receipt does not stop the caller.
ClaimedAnyway(c) == FenceValid

\* INSERT OR IGNORE decides who executes.
Claimed(c) == FenceValid /\ operations[OperationId(c)].status = "absent"

ReplayOrRefuse(c) ==
    /\ calls[c].stage = "hooked" /\ ~aborted
    /\ OperationType(calls[c].q) # "none"
    /\ Unclaimed(c)
    /\ UNCHANGED <<attempt, run, lease, aborted, approvals, operations, trees,
                   check, script, effects, since, faults>>

\* activateExternalActionAuthorization: the first activation of the Attempt
\* consumes the approval; an approval that expired since the hook refuses.
Activates(c) == RequireExplicit(calls[c].q) /\ ~calls[c].activated

ReceiptWritten(c, status) ==
    operations' = [operations EXCEPT ![OperationId(c)] =
                      [status |-> status, q |-> calls[c].q]]

AuthorizationRejected(c) ==
    /\ calls[c].stage = "hooked" /\ ~aborted
    /\ OperationType(calls[c].q) # "none" /\ Claimed(c)
    /\ Activates(c) /\ ~Authorized
    /\ ReceiptWritten(c, "pre_effect_rejected")
    /\ Fails(c)
    /\ UNCHANGED <<attempt, run, lease, aborted, approvals, trees, check,
                   script, effects, since, faults>>

\* Faulty variant: running workspace code is not taken for a mutation.
MarkChecksStaleOnMutation(c) ==
    IF WorkspaceAccess(calls[c].q) = "mutation" /\ check.status = "passed"
    THEN [check EXCEPT !.stale = TRUE] ELSE check

\* markChecksStale
MarkChecksStale(c) ==
    IF InvalidatesChecks(calls[c].q) /\ check.status = "passed"
    THEN [check EXCEPT !.stale = TRUE] ELSE check

\* The bash tool refuses a catastrophic command after the claim.
Destructive(q) == q.tool = "bash" /\ BashCommandIsDestructive(q.command)

CommandBlocked(c) ==
    /\ calls[c].stage = "hooked" /\ ~aborted
    /\ Claimed(c) /\ Destructive(calls[c].q) /\ Authorized
    /\ approvals' = [approvals EXCEPT ![attempt] = "active"]
    /\ check' = MarkChecksStale(c)
    /\ ReceiptWritten(c, "failed")
    /\ Fails(c)
    /\ UNCHANGED <<attempt, run, lease, aborted, trees, script, effects, since,
                   faults>>

Dispatch(c) ==
    /\ calls[c].stage = "hooked" /\ ~aborted
    /\ OperationType(calls[c].q) # "none" /\ Claimed(c)
    /\ Activates(c) => Authorized
    /\ ~Destructive(calls[c].q)
    /\ ReceiptWritten(c, "running")
    /\ approvals' = [approvals EXCEPT ![attempt] =
                        IF Activates(c) THEN "active" ELSE @]
    /\ trees' = [trees EXCEPT ![OperationId(c)] = "working"]
    /\ calls' = [calls EXCEPT ![c].stage = "executing",
                              ![c].activated = Activates(c)]
    /\ UNCHANGED <<attempt, run, lease, aborted, rows, check, script, effects,
                   since, faults>>

-----------------------------------------------------------------------------
\* The tool's process

\* The effect of the child process; nothing ties it to the Core's life.
EffectLands(o) ==
    /\ trees[o] = "working"
    /\ trees' = [trees EXCEPT ![o] = "done"]
    /\ effects' = [effects EXCEPT ![o] = @ + 1]
    /\ since' = since \cup {x \in {o} : InvalidatesChecks(operations[x].q)}
    /\ UNCHANGED <<attempt, run, lease, aborted, approvals, calls, rows,
                   operations, check, script, faults>>

\* The process has exited and the body returned: the checks are marked and
\* the receipt is updated.  Under a lost fence both writes throw, and so does
\* the second attempt to record the failure: the receipt stays running.
BodyEnds(c, ok) ==
    LET o == OperationId(c)
    IN  /\ calls[c].stage = "executing"
        /\ ok => trees[o] = "done" /\ ~aborted
        /\ trees' = [trees EXCEPT ![o] = "none"]
        /\ IF FenceValid
           THEN /\ check' = MarkChecksStale(c)
                /\ ReceiptWritten(c, IF ok THEN "succeeded" ELSE "failed")
           ELSE UNCHANGED <<check, operations>>
        /\ Settle(calls, rows, c, ok /\ FenceValid)
        /\ UNCHANGED <<attempt, run, lease, aborted, approvals, script,
                       effects, since, faults>>

\* waitForTreeExit gives up on a tree that SIGKILL has not ended: the body
\* throws while the process lives on.
CleanupTimesOut(c) ==
    /\ calls[c].stage = "executing" /\ calls[c].q.tool = "bash"
    /\ IF FenceValid
       THEN /\ check' = MarkChecksStale(c)
            /\ ReceiptWritten(c, "failed")
       ELSE UNCHANGED <<check, operations>>
    /\ Fails(c)
    /\ UNCHANGED <<attempt, run, lease, aborted, approvals, trees, script,
                   effects, since, faults>>

-----------------------------------------------------------------------------
\* task_run: no receipt, the database write is the effect

\* bindTrustedCheckEvidence: a successful Bash receipt of this Attempt, named
\* by the caller or found by its command.
Bindable == {o \in Ids : /\ o[1] = attempt
                         /\ operations[o].status = "succeeded"
                         /\ operations[o].q.tool = "bash"}

RegisterCheck(c) ==
    /\ calls[c].stage = "hooked" /\ ~aborted
    /\ calls[c].q.tool = "task_run" /\ calls[c].q.action = "check"
    /\ \/ /\ FenceValid
          /\ \E o \in Bindable :
                check' = [status |-> "passed", stale |-> FALSE, source |-> o]
          /\ since' = {}
          /\ Settle(calls, rows, c, TRUE)
       \/ /\ ~FenceValid \/ Bindable = {}
          /\ Fails(c)
          /\ UNCHANGED <<check, since>>
    /\ UNCHANGED <<attempt, run, lease, aborted, approvals, operations, trees,
                   script, effects, faults>>

\* requestUserInput: the TaskRun waits and the tool attempt is completed in
\* one transaction; settle finds it consumed.
RequestUserInput(c) ==
    /\ calls[c].stage = "hooked" /\ ~aborted
    /\ calls[c].q.tool = "task_run" /\ calls[c].q.action = "request_user_input"
    /\ \/ /\ FenceValid
          /\ run' = "waiting_input"
          /\ rows' = Completed(rows, OperationId(c), TRUE)
          /\ calls' = [calls EXCEPT ![c].stage = "returned", ![c].settled = TRUE]
       \/ /\ ~FenceValid
          /\ Fails(c)
          /\ UNCHANGED run
    /\ UNCHANGED <<attempt, lease, aborted, approvals, operations, trees, check,
                   script, effects, since, faults>>

-----------------------------------------------------------------------------
\* The Attempt's end, the next one, and restarts

Fault == faults < MaxFaults /\ faults' = faults + 1

Abort ==
    /\ Fault
    /\ ~aborted
    /\ aborted' = TRUE
    /\ UNCHANGED <<attempt, run, lease, approvals, calls, rows, operations,
                   trees, check, script, effects, since>>

\* A time limit, a cancellation or settlement ends the Attempt under a body
\* that still runs.
AttemptEnds ==
    /\ Fault
    /\ run = "running"
    /\ run' = "ended" /\ aborted' = TRUE
    /\ UNCHANGED <<attempt, lease, approvals, calls, rows, operations, trees,
                   check, script, effects, since>>

LeaseExpires ==
    /\ Fault
    /\ run = "running" /\ lease
    /\ lease' = FALSE
    /\ UNCHANGED <<attempt, run, aborted, approvals, calls, rows, operations,
                   trees, check, script, effects, since>>

ApprovalExpires ==
    /\ Fault
    /\ approvals[attempt] = "approved"
    /\ approvals' = [approvals EXCEPT ![attempt] = "expired"]
    /\ UNCHANGED <<attempt, run, lease, aborted, calls, rows, operations, trees,
                   check, script, effects, since>>

\* A resumed or continued TaskRun: a new Attempt with a new pipeline, once
\* the old runtime has settled.
NextAttempt ==
    /\ run # "running" /\ attempt < MaxAttempts
    /\ \A c \in Calls : calls[c].stage \in {"idle", "returned"}
    /\ attempt' = attempt + 1 /\ run' = "running" /\ lease' = TRUE
    /\ aborted' = FALSE
    /\ calls' = [c \in Calls |-> NoCall]
    /\ UNCHANGED <<approvals, rows, operations, trees, check, script, faults,
                   effects, since>>

\* runStartupRecovery
Recovered(status) == IF status = "running" THEN "outcome_unknown" ELSE status

\* The process dies, possibly between marking the checks and updating the
\* receipt, and starts again; the Attempt is interrupted.
Restart ==
    /\ Fault
    /\ \/ UNCHANGED check
       \/ \E c \in Calls : calls[c].stage = "executing" /\ FenceValid
                           /\ check' = MarkChecksStale(c) /\ check' # check
    /\ calls' = [c \in Calls |-> NoCall] /\ aborted' = FALSE
    /\ run' = IF run = "running" THEN "ended" ELSE run
    /\ rows' = [i \in DOMAIN rows |->
                   [rows[i] EXCEPT !.status = Recovered(@)]]
    /\ operations' = [o \in Ids |->
                         [operations[o] EXCEPT !.status = Recovered(@)]]
    /\ UNCHANGED <<attempt, lease, approvals, trees, script, effects, since>>

Next ==
    \/ \E c \in Calls :
          \/ script # <<>> /\ BeforeToolCall(c, Head(script))
          \/ AbortedBeforeDispatch(c) \/ ReplayOrRefuse(c)
          \/ AuthorizationRejected(c) \/ CommandBlocked(c) \/ Dispatch(c)
          \/ \E ok \in BOOLEAN : BodyEnds(c, ok)
          \/ CleanupTimesOut(c) \/ RegisterCheck(c) \/ RequestUserInput(c)
    \/ \E o \in Ids : EffectLands(o)
    \/ Abort \/ AttemptEnds \/ LeaseExpires \/ ApprovalExpires \/ NextAttempt
    \/ Restart

Spec == Init /\ [][Next]_vars

-----------------------------------------------------------------------------
\* Properties

\* The receipts implement the ledger: claimed once, the effect lands at most
\* once per operation and never without a claim, success is written only over
\* an effect that landed, settled receipts never change; across replays of a
\* call id, lost fences, processes that outlive the Core, and restarts
\* (executeWithReceipt, claimOperation, updateOperation, runStartupRecovery).
Entry(o) ==
    LET s == operations[o].status
    IN  CASE s = "running"             -> "claimed"
          [] s = "pre_effect_rejected" -> "rejected"
          [] s = "outcome_unknown"     -> "unknown"
          [] OTHER                     -> s

Ledger == INSTANCE EffectLedger WITH
              Operations <- Ids, entry <- [o \in Ids |-> Entry(o)],
              landed <- effects

EffectsAreLedgered == Ledger!LedgerSpec

\* A check the completion gate trusts (evaluateGate's trustedCheck) has not
\* been overtaken: every mutation that landed since it was registered belongs
\* to a receipt that never settled, or to a process that outlived its body.
TrustedCheck ==
    /\ CurrentAttempt
    /\ check.status = "passed" /\ ~check.stale
    /\ check.source[1] = attempt
    /\ operations[check.source].status = "succeeded"

TrustedCheckIsCurrent ==
    TrustedCheck =>
        /\ effects[check.source] = 1
        /\ \A o \in since :
              \/ operations[o].status = "running"
              \/ operations[o].status = "outcome_unknown" /\ o[1] < attempt
              \/ operations[o].status = "failed" /\ trees[o] = "done"

\* A Bash command that failed does not run again with the same arguments as
\* the TaskRun's next settled call, in this Attempt or a later one
\* (evaluateToolGuard): a claimed receipt never follows such a failure.
NoBlindRepeat ==
    \A i, j \in DOMAIN rows :
        /\ i < j /\ rows[i].q = rows[j].q /\ rows[i].q.tool = "bash"
        /\ rows[i].status = "failed"
        /\ \A k \in (i + 1)..(j - 1) : rows[k].q = rows[i].q
        => operations[rows[j].id].status = "absent"
=============================================================================
