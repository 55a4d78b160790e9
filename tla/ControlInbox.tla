---------------------------- MODULE ControlInbox ----------------------------
(***************************************************************************)
(* The durable inbox of steer and follow-up controls and its dispatcher,   *)
(* composed with the Pi runtime that takes the controls.                   *)
(*                                                                         *)
(* A control is accepted when its row is written (enqueueControl); a       *)
(* detached delivery task claims rows in order, calls the runtime and      *)
(* records the outcome under the execution fence of the Attempt.  The      *)
(* process may die at any point: startup turns rows found in delivery into *)
(* outcome_unknown.  Attempts follow one another; the old runtime has      *)
(* settled, or died with its process, before the next Attempt has one      *)
(* (TaskRunLifecycle models that part).                                    *)
(***************************************************************************)
EXTENDS PiRuntime

CONSTANT Capacity       \* controlInboxCapacity

ASSUME ControlInboxAssumption == Capacity \in Nat \ {0}

VARIABLES
    attempt,    \* the current Attempt's ordinal
    ready,      \* runtimes: the Attempt's runtime is registered
    order,      \* rows of control_inbox by created_at
    item,       \* their status and Attempt
    task,       \* controlDeliveryTasks: the delivery under way
    chained     \* runtimeReady waits for that task to end

inboxVars == <<attempt, ready, order, item, task, chained>>
vars == <<piVars, inboxVars>>

Open == {"queued", "delivering"}
NoTask == [stage |-> "none", attempt |-> 0, control |-> {}]
Init ==
    /\ PiInit
    /\ attempt = 1 /\ ready = FALSE /\ order = <<>>
    /\ item = [c \in Controls |-> [status |-> "absent", attempt |-> 0]]
    /\ task = NoTask /\ chained = FALSE

Active == {c \in Controls : item[c].attempt = attempt /\ item[c].status \in Open}
Queued(a) == {i \in DOMAIN order : item[order[i]] = [status |-> "queued", attempt |-> a]}

\* validateTaskRunExecutionFence for a token of Attempt a
FenceValid(a) == run = "running" /\ a = attempt

\* scheduleControlDelivery
Schedule(a) ==
    task' = IF task = NoTask THEN [NoTask EXCEPT !.stage = "start", !.attempt = a]
            ELSE task

-----------------------------------------------------------------------------
\* Commands

\* Store.enqueueControl: a repeated request id finds its row and changes
\* nothing; an inactive TaskRun or a full inbox refuses.
Insert(c) ==
    /\ item[c].status = "absent"
    /\ run = "running" /\ Cardinality(Active) < Capacity
    /\ order' = Append(order, c)
    /\ item' = [item EXCEPT ![c] = [status |-> "queued", attempt |-> attempt]]

Enqueue(c) ==
    /\ c \in options.controls
    /\ Insert(c)
    /\ Schedule(attempt)
    /\ UNCHANGED <<piVars, attempt, ready, chained>>

-----------------------------------------------------------------------------
\* The delivery task

\* completeControlItem: only a row in delivery gets an outcome
SetStatus(c, s) ==
    item' = [item EXCEPT ![c].status = IF @ = "delivering" THEN s ELSE @]

\* claimControlItem: queued rows of other Attempts are superseded first.
Superseded(a) ==
    [c \in Controls |->
        IF item[c].status = "queued" /\ item[c].attempt # a
        THEN [item[c] EXCEPT !.status = "superseded"] ELSE item[c]]

TaskEnds == task' = NoTask

\* One round of deliverControlInbox up to the call of the runtime.
Deliver ==
    /\ task.stage = "start"
    /\ LET a == task.attempt IN
       \/ /\ ~ready \/ ~FenceValid(a)
          /\ TaskEnds /\ UNCHANGED item
       \/ /\ ready /\ FenceValid(a)
          /\ \/ /\ Queued(a) = {}
                /\ TaskEnds /\ item' = Superseded(a)
             \/ \E i \in Queued(a) :
                /\ \A j \in Queued(a) : i <= j
                /\ item' = [Superseded(a) EXCEPT ![order[i]].status = "delivering"]
                /\ task' = [stage |-> "calling", attempt |-> a, control |-> {order[i]}]
    /\ UNCHANGED <<piVars, attempt, ready, order, chained>>

\* The control reaches queueControl of the runtime the task took at its
\* start: the one of an older Attempt has settled.
Called(c) == task.stage = "calling" /\ task.control = {c}

CallSettled(c) ==
    /\ Called(c)
    /\ IF task.attempt = attempt THEN QueueSettled ELSE UNCHANGED piVars
    /\ task' = [task EXCEPT !.stage = "settled"]
    /\ UNCHANGED <<attempt, ready, order, item, chained>>

CallAccepted(c) ==
    /\ Called(c) /\ task.attempt = attempt
    /\ QueueHarness(c) \/ (~turnActive /\ QueueDeferred(c))
    /\ task' = [task EXCEPT !.stage = "accepted"]
    /\ UNCHANGED <<attempt, ready, order, item, chained>>

\* The turn ended under the call: steer throws invalid_state.
CallThrows(c) ==
    /\ Called(c) /\ task.attempt = attempt
    /\ Streaming /\ turnActive /\ ~turn
    /\ task' = [task EXCEPT !.stage = "threw"]
    /\ UNCHANGED <<piVars, attempt, ready, order, item, chained>>

\* The catch of queueControl: a prompt that still streams keeps the control
\* for its next turn.
CallCaught(c) ==
    /\ task.stage = "threw" /\ task.control = {c}
    /\ \/ /\ task.attempt = attempt /\ QueueDeferred(c)
          /\ task' = [task EXCEPT !.stage = "accepted"]
       \/ /\ ~(task.attempt = attempt /\ Streaming)
          /\ task' = [task EXCEPT !.stage = "failed"]
          /\ UNCHANGED piVars
    /\ UNCHANGED <<attempt, ready, order, item, chained>>

\* completeControlDelivery writes the answer under the fence
Answer == IF task.stage = "accepted" THEN "delivered" ELSE "rejected"

\* An Attempt that advanced meanwhile leaves the row superseded.  Only an
\* accepted control lets the task go on.
Complete(c) ==
    /\ task.control = {c} /\ task.stage \in {"accepted", "settled", "failed"}
    /\ SetStatus(c, IF FenceValid(task.attempt) THEN Answer ELSE "superseded")
    /\ IF task.stage = "accepted" /\ FenceValid(task.attempt)
       THEN task' = [NoTask EXCEPT !.stage = "start", !.attempt = task.attempt]
       ELSE TaskEnds
    /\ UNCHANGED <<piVars, attempt, ready, order, chained>>

\* runtimeReady's continuation once the older task has ended
ReadyDelivers ==
    /\ chained /\ task = NoTask
    /\ chained' = FALSE /\ Schedule(attempt)
    /\ UNCHANGED <<piVars, attempt, ready, order, item>>

-----------------------------------------------------------------------------
\* The Attempt

\* The executor registers the runtime and calls runtimeReady.
RuntimeReady ==
    /\ ~ready /\ run = "running"
    /\ ready' = TRUE
    /\ IF task = NoTask THEN Schedule(attempt) /\ UNCHANGED chained
       ELSE chained' = TRUE /\ UNCHANGED task
    /\ UNCHANGED <<piVars, attempt, order, item>>

\* A continuation starts the next Attempt.
NextAttempt ==
    /\ run # "running" /\ ~Streaming /\ attempt < options.attempts
    /\ attempt' = attempt + 1 /\ ready' = FALSE /\ run' = "running"
    /\ PiRenew
    /\ UNCHANGED <<options, entered, order, item, task, chained>>

\* The bug of putting rows found in delivery back in the queue.
RecoveredRequeued(s) == IF s = "delivering" THEN "queued" ELSE s

\* runStartupRecovery
Recovered(s) == IF s = "delivering" THEN "outcome_unknown" ELSE s

\* The process dies and starts again; the Attempt is interrupted.
Restart ==
    /\ run' = "ended" /\ ready' = FALSE
    /\ PiRenew
    /\ item' = [c \in Controls |-> [item[c] EXCEPT !.status = Recovered(@)]]
    /\ task' = NoTask /\ chained' = FALSE
    /\ UNCHANGED <<options, entered, attempt, order>>

-----------------------------------------------------------------------------
Query ==
    \/ ready /\ Prompt
    \/ FirstTurn \/ FlushControl \/ FlushDone \/ FlushThrows \/ TurnReturns
    \/ LoopStops \/ LoopOverflowsAgain \/ LoopCompacts \/ GoesOnCompacted
    \/ LoopOverflows \/ LoopWindowTooLong \/ LoopRetries \/ RetryCancelled
    \/ LoopFallsBack \/ ModelSet \/ LoopFailsQueued \/ LoopFails
    \/ LoopSucceeds \/ CompactedLast \/ AbortWaited
    \/ \E ok \in BOOLEAN : PendingCompacted(ok) \/ OverflowCompacted(ok)

Harness ==
    \/ ProviderAnswers \/ StreamIdle \/ ScheduleThreshold \/ RetryElapses
    \/ \E c \in Controls : Consume(c)
    \/ \E res \in Retryable \cup {"permanent"}, after \in Windows : ProviderFails(res, after)
    \/ \E res \in Overflows : ContextOverflows(res)
    \/ StreamTruncated \/ CallBlocked \/ ToolAsksUser

Callers ==
    \/ CompactPending \/ DirectCompacted \/ RunEnds
    \/ ready /\ (CompactDirect \/ Abort)

Delivery ==
    \/ Deliver \/ ReadyDelivers
    \/ \E c \in Controls :
        CallSettled(c) \/ CallAccepted(c) \/ CallThrows(c) \/ CallCaught(c) \/ Complete(c)

Next ==
    \/ (Query \/ Harness \/ Callers \/ TurnStopped) /\ UNCHANGED inboxVars
    \/ Delivery
    \/ \E c \in Controls : Enqueue(c)
    \/ RuntimeReady \/ NextAttempt \/ Restart

Spec == Init /\ [][Next]_vars

\* The event loop runs every continuation of executeQuery that is due; the
\* harness honours abort and the refusal of a request, and ends a compaction.
\* Nothing is assumed of the provider, of a retry delay or of the callers.
Progress == Query \/ TurnStopped \/ (Refused /\ StreamIdle)
FairSpec == Spec /\ WF_vars(Progress /\ UNCHANGED inboxVars)

-----------------------------------------------------------------------------
\* Where a control went: it is handed to a harness at most once, whatever
\* Attempts, restarts and failed calls lie between (claimControlItem,
\* queueControl's catch, runStartupRecovery), and its row says so truthfully:
\* a row that is queued or rejected was never handed over.
OutcomeIsTrue ==
    /\ IsInjective(entered)
    /\ \A c \in Controls :
        item[c].status \in {"absent", "queued", "rejected"} =>
            c \notin ToSet(entered) \cup ToSet(deferred)

\* Pending delivery prevents settled completion: a prompt that ends by itself,
\* with an answer or with a failure nothing recovers, leaves no control that
\* the runtime accepted unconsumed.
SettlesEmpty ==
    pc = "done" /\ why = "clean" => Unconsumed = {}

\* abort() ends the prompt: no retry delay, compaction, turn or flush started
\* before or after it holds executeQuery.
AbortSettles == aborted /\ Streaming ~> ~Streaming

=============================================================================
