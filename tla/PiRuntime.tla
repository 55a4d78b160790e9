----------------------------- MODULE PiRuntime -----------------------------
(***************************************************************************)
(* The Pi runtime adapter: one Attempt's prompt, from the call of          *)
(* executeQuery to its settlement.  adapters/runtime-pi/src/pi-runtime.ts  *)
(* drives AgentHarness, a library object that runs turns, compacts the     *)
(* context and keeps a queue of controls; provider-transport.ts and        *)
(* provider-errors.ts decide how a turn can fail.                          *)
(*                                                                         *)
(* JavaScript runs one callback at a time, so an action is the code        *)
(* between two awaits.  The harness is external.  Of it the code relies    *)
(* on: prompt throws unless the harness is idle, steer and followUp throw  *)
(* invalid_state unless a turn runs, abort clears the queue and ends the   *)
(* turn or the compaction, and a turn may end with the queue non-empty.    *)
(*                                                                         *)
(* The text of messages is left out.  Whether the context is over budget   *)
(* is a free choice wherever the code estimates it.                        *)
(***************************************************************************)
EXTENDS Naturals, Sequences, FiniteSets, SequencesExt, FiniteSetsExt

CONSTANTS
    Controls,       \* the steer and follow-up requests of one TaskRun
    FollowUps,      \* those of them that are follow-ups
    Scenarios,      \* the configurations explored, see options
    Budget,         \* what the watchdogs leave for a retry delay, in seconds
    Windows         \* the Retry-After values a provider may send, 0 for none

ASSUME PiRuntimeAssumption ==
    /\ FollowUps \subseteq Controls
    /\ {Budget} \cup Windows \subseteq Nat
    /\ \A o \in Scenarios :
        /\ {o.maxRetries, o.fallbacks} \subseteq Nat
        /\ o.attempts \in Nat \ {0}
        /\ o.controls \subseteq Controls

VARIABLES
    options,    \* provideroptions.maxRetries, the number of fallbackModels; and two
                \* bounds: the Attempts of the TaskRun, the controls sent to it
    run,        \* what eventSink reports: running, waiting (input), ended
    pc,         \* where executeQuery is
    turn,       \* harness: a turn is running
    stopped,    \* harness: abort was called on the running turn
    turnActive, \* harnessTurnActive
    flushing,   \* flushDeferredControls of the current turn has not returned
    queue,      \* harness: the controls it accepted and has not consumed
    deferred,   \* deferredControls
    result,     \* how the last turn ended
    window,     \* the Retry-After of that failure
    pending,    \* the reason of pendingCompaction, or none
    compacting, \* who runs a compaction: none, query (executeQuery), direct
    waiter,     \* a caller of compact() waits for the pending compaction
    tried,      \* overflowRecoveryAttempted
    retry,      \* retryAttempt
    fallback,   \* fallbackIndex
    cancelled,  \* retryDelayAbort of the current delay was signalled
    aborted,    \* abortRequested
    entered,    \* history: controls in the order the harness took them
    why         \* history: the prompt ended by itself (clean) or was cut short

turnVars == <<turn, stopped, turnActive, flushing>>
queueVars == <<queue, deferred, entered>>
loopVars == <<result, window, tried, retry, fallback>>
compactVars == <<pending, compacting, waiter>>
piVars == <<options, run, pc, turnVars, queueVars, loopVars, compactVars,
            cancelled, aborted, why>>

Overflows == {"overflow", "overflow_stop"}
Retryable == {"rate_limit", "transient"}
Streaming == pc \notin {"idle", "done"}
Live == run = "running" /\ ~aborted
Unconsumed == queue \cup ToSet(deferred)

\* Initial field values of a PiRuntime.
PiFresh ==
    /\ pc = "idle" /\ turn = FALSE /\ stopped = FALSE /\ turnActive = FALSE
    /\ flushing = FALSE /\ queue = {} /\ deferred = <<>>
    /\ result = "none" /\ window = 0 /\ pending = "none"
    /\ compacting = "none" /\ waiter = FALSE /\ tried = FALSE
    /\ retry = 0 /\ fallback = 0 /\ cancelled = FALSE /\ aborted = FALSE
    /\ why = "none"

PiInit == PiFresh /\ options \in Scenarios /\ run = "running" /\ entered = <<>>

\* A later Attempt has a runtime of its own.
PiRenew ==
    /\ pc' = "idle" /\ turn' = FALSE /\ stopped' = FALSE /\ turnActive' = FALSE
    /\ flushing' = FALSE /\ queue' = {} /\ deferred' = <<>>
    /\ result' = "none" /\ window' = 0 /\ pending' = "none"
    /\ compacting' = "none" /\ waiter' = FALSE /\ tried' = FALSE
    /\ retry' = 0 /\ fallback' = 0 /\ cancelled' = FALSE /\ aborted' = FALSE
    /\ why' = "none"

-----------------------------------------------------------------------------
\* Steps shared by several points of executeQuery.

\* rejectPendingCompaction: the caller of compact(), if any, gets an error.
RejectPending ==
    /\ pending' = "none"
    /\ waiter' = (waiter /\ pending # "manual")

\* The locals of executeQuery end with it.
LocalsEnd == /\ result' = "none" /\ window' = 0
             /\ tried' = FALSE /\ retry' = 0 /\ fallback' = 0

\* The finally block of executeQuery.
Settle(reason) ==
    /\ pc' = "done" /\ why' = reason
    /\ RejectPending
    /\ LocalsEnd

\* The end of the loop: a TaskRun that waits for input aborts the harness
\* before the prompt settles.
Finish(reason) ==
    \/ run # "waiting" /\ Settle(reason) /\ UNCHANGED queueVars
    \/ /\ run = "waiting" /\ pc' = "abort_wait" /\ why' = reason /\ LocalsEnd
       /\ queue' = {}
       /\ UNCHANGED <<deferred, entered, pending, waiter>>

\* continueHarness and runHarnessPrompt up to their first await: a follow-up
\* at the head of the deferred controls becomes the prompt of the turn, any
\* other head leaves an internal marker as the prompt.
StartTurn ==
    /\ pc' = "turn" /\ turn' = TRUE /\ stopped' = FALSE
    /\ turnActive' = TRUE /\ flushing' = TRUE
    /\ result' = "none" /\ window' = 0
    /\ IF deferred # <<>> /\ Head(deferred) \in FollowUps
       THEN /\ deferred' = Tail(deferred)
            /\ entered' = Append(entered, Head(deferred))
       ELSE UNCHANGED <<deferred, entered>>
    /\ UNCHANGED <<queue, pending, waiter, why>>

\* providerContextBudget compares an estimate of the projected context and a
\* reserve for the answer with the window: either outcome is possible.
OverBudget == BOOLEAN

\* compactIfNeeded, which leaves a compaction under way alone
MayCompact ==
    \E over \in OverBudget :
        compacting' = IF over /\ compacting = "none" THEN "query" ELSE compacting

NotCompacting == compacting' = IF compacting = "query" THEN "none" ELSE compacting

-----------------------------------------------------------------------------
\* executeQuery

Prompt ==
    /\ pc = "idle"
    /\ \/ aborted /\ Settle("cut") /\ UNCHANGED compacting
       \/ ~aborted /\ pc' = "compact_first" /\ MayCompact
          /\ UNCHANGED <<loopVars, pending, waiter, why>>
    /\ UNCHANGED <<options, run, turnVars, queueVars, cancelled, aborted>>

\* The await of the first compactIfNeeded returns, whether it compacted,
\* failed to, or had nothing to do; the first turn starts without looking
\* at abortRequested again.
FirstTurn ==
    /\ pc = "compact_first"
    /\ NotCompacting
    /\ \/ /\ compacting = "direct" /\ Settle("cut")
          /\ UNCHANGED <<turnVars, queueVars>>
       \/ /\ compacting # "direct"
          /\ pc' = "turn" /\ turn' = TRUE /\ stopped' = FALSE
          /\ turnActive' = TRUE /\ flushing' = TRUE
          /\ UNCHANGED <<queueVars, loopVars, pending, waiter, why>>
    /\ UNCHANGED <<options, run, cancelled, aborted>>

\* One round of deliverDeferredControls.
FlushControl ==
    /\ pc = "turn" /\ flushing /\ deferred # <<>> /\ turn
    /\ queue' = queue \cup {Head(deferred)}
    /\ entered' = Append(entered, Head(deferred))
    /\ deferred' = Tail(deferred)
    /\ UNCHANGED <<options, run, pc, turnVars, loopVars, compactVars,
                   cancelled, aborted, why>>

FlushDone ==
    /\ pc = "turn" /\ flushing /\ deferred = <<>>
    /\ flushing' = FALSE
    /\ UNCHANGED <<options, run, pc, turn, stopped, turnActive, queueVars, loopVars,
                   compactVars, cancelled, aborted, why>>

\* The turn was over before a deferred control reached the harness: steer
\* throws, and so do runHarnessPrompt and executeQuery.
FlushThrows ==
    /\ pc = "turn" /\ flushing /\ deferred # <<>> /\ ~turn
    /\ turnActive' = FALSE /\ flushing' = FALSE
    /\ Settle("cut")
    /\ UNCHANGED <<options, run, turn, stopped, queueVars, compacting, cancelled, aborted>>

TurnReturns ==
    /\ pc = "turn" /\ ~flushing /\ ~turn
    /\ pc' = "loop" /\ turnActive' = FALSE
    /\ UNCHANGED <<options, run, turn, stopped, flushing, queueVars, loopVars,
                   compactVars, cancelled, aborted, why>>

LoopStops ==
    /\ pc = "loop" /\ ~Live
    /\ Finish("cut")
    /\ UNCHANGED <<options, run, turnVars, compacting, cancelled, aborted>>

\* A second overflow of the same input is not compacted again.
LoopOverflowsAgain ==
    /\ pc = "loop" /\ Live /\ pending = "overflow" /\ tried
    /\ Settle("cut")
    /\ UNCHANGED <<options, run, turnVars, queueVars, compacting, cancelled, aborted>>

\* runPendingCompaction takes the request.
LoopCompacts ==
    /\ pc = "loop" /\ Live /\ pending # "none"
    /\ ~(pending = "overflow" /\ tried)
    /\ pc' = "pending" /\ pending' = "none" /\ compacting' = "query"
    /\ tried' = (tried \/ pending = "overflow")
    /\ UNCHANGED <<options, run, turnVars, queueVars, result, window, retry, fallback,
                   waiter, cancelled, aborted, why>>

\* The compaction of runPendingCompaction ends.  A manual one answers its
\* caller; its failure is rethrown out of executeQuery.
PendingCompacted(ok) ==
    /\ pc = "pending"
    /\ compacting' = "none"
    /\ \/ /\ ok /\ pc' = "compacted"
          /\ waiter' = FALSE
          /\ UNCHANGED <<queueVars, loopVars, pending, why>>
       \/ /\ ~ok /\ waiter
          /\ pc' = "done" /\ why' = "cut" /\ waiter' = FALSE /\ LocalsEnd
          /\ UNCHANGED <<queueVars, pending>>
       \/ ~ok /\ ~waiter /\ Finish("cut")
    /\ UNCHANGED <<options, run, turnVars, cancelled, aborted>>

GoesOnCompacted ==
    /\ pc = "compacted"
    /\ \/ Live /\ StartTurn /\ UNCHANGED <<tried, retry, fallback>>
       \/ ~Live /\ Finish("cut") /\ UNCHANGED turnVars
    /\ UNCHANGED <<options, run, compacting, cancelled, aborted>>

LoopOverflows ==
    /\ pc = "loop" /\ Live /\ pending = "none" /\ result \in Overflows /\ ~tried
    /\ pc' = "overflow" /\ tried' = TRUE /\ compacting' = "query"
    /\ UNCHANGED <<options, run, turnVars, queueVars, result, window, retry, fallback,
                   pending, waiter, cancelled, aborted, why>>

OverflowCompacted(ok) ==
    /\ pc = "overflow"
    /\ compacting' = "none"
    /\ \/ ok /\ result = "overflow" /\ StartTurn /\ UNCHANGED <<tried, retry, fallback>>
       \/ ~(ok /\ result = "overflow") /\ Finish("cut")
          /\ UNCHANGED turnVars
    /\ UNCHANGED <<options, run, cancelled, aborted>>

\* providerRetryDelayMs, in seconds
RetryDelay(attempt, after) ==
    Min({Max({Min({2 ^ (attempt - 1), Budget}), after}), Budget})

CanRetry == result \in Retryable /\ retry < options.maxRetries

\* A window that the watchdog budget cannot hold is left to the durable
\* continuation: the prompt ends.
LoopWindowTooLong ==
    /\ pc = "loop" /\ Live /\ pending = "none" /\ CanRetry
    /\ RetryDelay(retry + 1, window) < window
    /\ Settle("cut")
    /\ UNCHANGED <<options, run, turnVars, queueVars, compacting, cancelled, aborted>>

LoopRetries ==
    /\ pc = "loop" /\ Live /\ pending = "none" /\ CanRetry
    /\ RetryDelay(retry + 1, window) >= window
    /\ retry' = retry + 1 /\ pc' = "retry_wait" /\ cancelled' = FALSE
    /\ UNCHANGED <<options, run, turnVars, queueVars, result, window, tried, fallback,
                   compactVars, aborted, why>>

RetryElapses ==
    /\ pc = "retry_wait" /\ ~cancelled
    /\ StartTurn
    /\ UNCHANGED <<options, run, tried, retry, fallback, compacting, cancelled, aborted>>

\* waitForRetry answers false: a pending compaction is the next round's work.
RetryCancelled ==
    /\ pc = "retry_wait" /\ cancelled
    /\ \/ pending # "none" /\ pc' = "loop"
          /\ UNCHANGED <<queueVars, loopVars, pending, waiter, why>>
       \/ pending = "none" /\ Finish("cut")
    /\ cancelled' = FALSE
    /\ UNCHANGED <<options, run, turnVars, compacting, aborted>>

HasFallback == result = "rate_limit" /\ fallback < options.fallbacks

LoopFallsBack ==
    /\ pc = "loop" /\ Live /\ pending = "none" /\ ~CanRetry /\ HasFallback
    /\ pc' = "set_model" /\ fallback' = fallback + 1
    /\ UNCHANGED <<options, run, turnVars, queueVars, result, window, tried, retry,
                   compactVars, cancelled, aborted, why>>

ModelSet ==
    /\ pc = "set_model"
    /\ retry' = 0
    /\ StartTurn
    /\ UNCHANGED <<options, run, tried, fallback, compacting, cancelled, aborted>>

\* A failure no retry, compaction or fallback recovers.
Failed ==
    /\ pc = "loop" /\ Live /\ pending = "none" /\ result # "ok"
    /\ ~CanRetry /\ ~HasFallback /\ ~(result \in Overflows /\ ~tried)

\* Queued controls are a new input: the prompt goes on after the failure.
LoopFailsQueued ==
    /\ Failed /\ Unconsumed # {}
    /\ retry' = 0
    /\ StartTurn
    /\ UNCHANGED <<options, run, tried, fallback, compacting, cancelled, aborted>>

LoopFails ==
    /\ Failed /\ Unconsumed = {}
    /\ Settle("clean")
    /\ UNCHANGED <<options, run, turnVars, queueVars, compacting, cancelled, aborted>>

\* The bug of testing only the harness's own queue at the end.
AfterSuccessHarnessOnly ==
    \/ pending # "none" /\ pc' = "loop" /\ retry' = 0
       /\ UNCHANGED <<turnVars, queueVars, result, window, tried, fallback,
                      pending, waiter, why>>
    \/ pending = "none" /\ queue # {} /\ StartTurn
       /\ retry' = 0 /\ UNCHANGED <<tried, fallback>>
    \/ pending = "none" /\ queue = {} /\ Finish("clean")
       /\ UNCHANGED turnVars

\* What follows the last compactIfNeeded of a successful turn.
AfterSuccess ==
    \/ pending # "none" /\ pc' = "loop" /\ retry' = 0
       /\ UNCHANGED <<turnVars, queueVars, result, window, tried, fallback,
                      pending, waiter, why>>
    \/ pending = "none" /\ Unconsumed # {} /\ StartTurn
       /\ retry' = 0 /\ UNCHANGED <<tried, fallback>>
    \/ pending = "none" /\ Unconsumed = {} /\ Finish("clean")
       /\ UNCHANGED turnVars

\* A successful turn: the context may be compacted again before the prompt
\* is declared complete.
LoopSucceeds ==
    /\ pc = "loop" /\ Live /\ pending = "none" /\ result = "ok"
    /\ \/ tried /\ AfterSuccess /\ UNCHANGED compacting
       \/ /\ ~tried /\ pc' = "compact_last" /\ retry' = 0 /\ MayCompact
          /\ UNCHANGED <<turnVars, queueVars, result, window, tried, fallback,
                         pending, waiter, why>>
    /\ UNCHANGED <<options, run, cancelled, aborted>>

CompactedLast ==
    /\ pc = "compact_last"
    /\ NotCompacting
    /\ AfterSuccess
    /\ UNCHANGED <<options, run, cancelled, aborted>>

\* harness.abort() returned for a TaskRun that waits for input.
AbortWaited ==
    /\ pc = "abort_wait"
    /\ Settle(why)
    /\ UNCHANGED <<options, run, turnVars, queueVars, compacting, cancelled, aborted>>

-----------------------------------------------------------------------------
\* The harness and the provider (external), as the hooks of createHarness and
\* handleEvent see them.

\* Before every provider request the hooks refuse a TaskRun that is paused
\* and a context that waits for compaction.
Refused == run # "running" \/ pending # "none"

\* A turn delivers a queued control to the model.
Consume(c) ==
    /\ turn /\ ~stopped /\ c \in queue
    /\ queue' = queue \ {c}
    /\ UNCHANGED <<options, run, pc, turnVars, deferred, entered, loopVars,
                   compactVars, cancelled, aborted, why>>

\* The context hook, or save_point when the turn needs another request, finds
\* the context over budget.
ScheduleThreshold ==
    /\ TRUE \in OverBudget
    /\ turn /\ pending = "none" /\ compacting = "none"
    /\ pending' = "threshold"
    /\ UNCHANGED <<options, run, pc, turnVars, queueVars, loopVars, compacting, waiter,
                   cancelled, aborted, why>>

EndTurn(res, after, reason) ==
    /\ turn' = FALSE /\ stopped' = FALSE
    /\ result' = res /\ window' = after /\ pending' = reason
    /\ UNCHANGED <<options, run, pc, turnActive, flushing, queueVars, tried, retry,
                   fallback, compacting, waiter, cancelled, aborted, why>>

\* The model answers without a further tool call.
ProviderAnswers ==
    turn /\ ~stopped /\ ~aborted /\ ~Refused /\ EndTurn("ok", 0, pending)

\* providerRetryAfterMs and providerRetryAfterHeaderMs: a window is read from
\* the error text or from the header, never from a permanent failure.
RetryAfter(res) == IF res = "permanent" THEN {0} ELSE Windows

\* describeProviderFailure: an error response, classified.  The refusal of a
\* request is an error without a window, of the retryable kind unknown.
ProviderFails(res, after) ==
    /\ turn /\ ~stopped /\ ~aborted
    /\ after \in RetryAfter(res)
    /\ Refused => res = "transient" /\ after = 0
    /\ EndTurn(res, after, pending)

\* The idle watchdog of the transport ends a silent stream.
StreamIdle == turn /\ ~stopped /\ ~aborted /\ EndTurn("transient", 0, pending)

\* A stream that closes without its completion sentinel is an error too.
StreamTruncated ==
    turn /\ ~stopped /\ ~aborted /\ ~Refused /\ EndTurn("transient", 0, pending)

\* shouldRetainSessionMessage discards an overflow that cannot stand as an
\* answer, and save_point schedules its recovery.
Recovery(res) == IF res = "overflow" THEN "overflow" ELSE pending

ContextOverflows(res) ==
    /\ turn /\ ~stopped /\ ~aborted /\ ~Refused
    /\ EndTurn(res, 0, Recovery(res))

\* Tools and provider streams run under the signal of the runtime's lifetime.
Cut == stopped \/ aborted

TurnStopped == turn /\ Cut /\ EndTurn("aborted", 0, pending)

\* The tool_call hook: a call that needs approval is blocked, and the pause of
\* the TaskRun aborts the harness.
CallBlocked ==
    /\ turn /\ run = "running"
    /\ run' = "waiting"
    /\ stopped' = TRUE /\ queue' = {}
    /\ UNCHANGED <<options, pc, turn, turnActive, flushing, deferred, entered,
                   loopVars, compactVars, cancelled, aborted, why>>

\* The tool_result hook: a tool asked the user; its result ends the turn.
ToolAsksUser ==
    /\ turn /\ run = "running"
    /\ run' = "waiting"
    /\ UNCHANGED <<options, pc, turnVars, queueVars, loopVars, compactVars,
                   cancelled, aborted, why>>

-----------------------------------------------------------------------------
\* The other callers of the runtime.

\* harness.abort()
AbortHarness ==
    /\ queue' = {}
    /\ stopped' = turn

\* compact() while a prompt streams: the request waits for the loop, which a
\* retry delay must not hold up.
CompactPending ==
    /\ Streaming /\ compacting = "none" /\ pending # "manual"
    /\ pending' = "manual" /\ waiter' = TRUE
    /\ cancelled' = (pc = "retry_wait")
    /\ AbortHarness
    /\ UNCHANGED <<options, run, pc, turn, turnActive, flushing, deferred, entered,
                   loopVars, compacting, aborted, why>>

\* compact() before the prompt starts.
CompactDirect ==
    /\ pc = "idle" /\ compacting = "none"
    /\ compacting' = "direct"
    /\ UNCHANGED <<options, run, pc, turnVars, queueVars, loopVars, pending, waiter,
                   cancelled, aborted, why>>

DirectCompacted ==
    /\ compacting = "direct"
    /\ compacting' = "none"
    /\ UNCHANGED <<options, run, pc, turnVars, queueVars, loopVars, pending, waiter,
                   cancelled, aborted, why>>

\* The bug of leaving the retry delay to its timer.
AbortKeepsDelay ==
    /\ ~aborted
    /\ aborted' = TRUE
    /\ RejectPending
    /\ queue' = {} /\ deferred' = <<>>
    /\ stopped' = turn
    /\ UNCHANGED <<options, run, pc, turn, turnActive, flushing, entered, loopVars,
                   compacting, cancelled, why>>

\* abort() and dispose()
Abort ==
    /\ ~aborted
    /\ aborted' = TRUE /\ cancelled' = (pc = "retry_wait")
    /\ RejectPending
    /\ queue' = {} /\ deferred' = <<>>
    /\ stopped' = turn
    /\ UNCHANGED <<options, run, pc, turn, turnActive, flushing, entered, loopVars,
                   compacting, why>>

\* Cancellation, timeout or a lost fence: the Attempt is no longer running.
RunEnds ==
    /\ run # "ended"
    /\ run' = "ended"
    /\ UNCHANGED <<options, pc, turnVars, queueVars, loopVars, compactVars, cancelled,
                   aborted, why>>

\* queueControl after its await of initialize(), and what it answers.
QueueSettled == ~Streaming /\ UNCHANGED piVars

QueueHarness(c) ==
    /\ Streaming /\ turnActive /\ turn
    /\ queue' = queue \cup {c} /\ entered' = Append(entered, c)
    /\ UNCHANGED <<options, run, pc, turnVars, deferred, loopVars, compactVars,
                   cancelled, aborted, why>>

QueueDeferred(c) ==
    /\ Streaming
    /\ deferred' = Append(deferred, c)
    /\ UNCHANGED <<options, run, pc, turnVars, queue, entered, loopVars,
                   compactVars, cancelled, aborted, why>>

=============================================================================
