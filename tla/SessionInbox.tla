---------------------------- MODULE SessionInbox ----------------------------
(***************************************************************************)
(* The inbox of one Session: submissions are routed by a model, queued,    *)
(* edited by the operator and started one after the other as TaskRuns      *)
(* (admission/application/admission-coordinator.ts, the session_supervisor_*)
(* inbox of persistence-sqlite/src/store.ts, and the approval boundary of  *)
(* external actions).  The life of an Attempt is TaskRunLifecycle's; here  *)
(* an Attempt prepares, runs and ends, and what matters is which TaskRun   *)
(* of the Session may run next.                                            *)
(*                                                                         *)
(* An item and the TaskRun created from it share a name: createRun uses    *)
(* the request id inbox:<item>, which is unique.  Store calls are          *)
(* synchronous, so an action is a segment between two awaits: the Router,  *)
(* the preparation of a context, setImmediate and the end of an Attempt.   *)
(***************************************************************************)
EXTENDS Naturals, Sequences, FiniteSets

CONSTANTS
    Requests,        \* idempotency keys of submissions: the items they make
    Related,         \* items derived from a parallel objective of a submission
    Roadmap,         \* items enqueued for a Workspace Goal
    Urgent,          \* items the Router gives priority
    External,        \* items whose policy is external_action (TaskPolicy)
    Callers,         \* concurrent HTTP requests
    None,
    Scenarios,       \* bound: the sets of items a behaviour may use
    AsyncContext,    \* does the preparation of a context await memory recall?
    MaxAttempts,     \* bound: Attempts of each TaskRun
    MaxCommands,     \* bound: commands of the operator
    MaxRestarts      \* bound: restarts of the Generation

Items == Requests \union Related \union Roadmap

ASSUME InboxAssumption ==
    /\ None \notin Items
    /\ Requests \intersect (Related \union Roadmap) = {}
    /\ Related \intersect Roadmap = {}
    /\ IsFiniteSet(Items)
    /\ Urgent \subseteq Items /\ External \subseteq Requests
    /\ Scenarios \subseteq SUBSET Items
    /\ AsyncContext \in BOOLEAN
    /\ MaxAttempts \in [Items -> Nat \ {0}]
    /\ MaxCommands \in Nat /\ MaxRestarts \in Nat

VARIABLES
    up,          \* the Generation: "up", "closing", "down"
    item,        \* session_supervisor_inbox
    run,         \* the TaskRun of each item
    order,       \* TaskRuns in the order of their rowid
    parallel,    \* approval requests start_parallel_taskrun, by item
    calls,       \* enqueueSessionInput awaiting the Router, by caller
    edit,        \* updateSessionInputProfile awaiting the Router, or None
    finalizing,  \* TaskRuns whose Attempt settled, before finalizePostAttempt
    kicks,       \* setImmediate callbacks that will dispatch
    chosen,      \* history: TaskRuns a person put beside another one
    stalled,     \* history: an operation that does not dispatch let the queue go
    commands, restarts

bounds == <<commands, restarts>>
memory == <<calls, edit, finalizing, kicks>>
vars   == <<up, item, run, order, parallel, memory, chosen, stalled, bounds>>

-----------------------------------------------------------------------------
(* Records.                                                                 *)

\* A control input and a follow-up both go to the running TaskRun: "message".
Intents == {"message", "parallel", "task", "defer"}

\* What the Router returns: confidence is above the threshold of its intent or
\* not, a control input may carry an independent objective.
Analyses(seen) ==
    {a \in [intent : Intents, sure : BOOLEAN, split : BOOLEAN] :
        /\ a.intent \in {"message", "parallel"} => seen # None
        /\ a.intent = "defer" => a.sure
        /\ a.split => a.intent = "message" /\ a.sure}

NoItem == [status |-> "none", decision |-> "pending", intent |-> "task",
           target |-> None, urgent |-> FALSE, manual |-> FALSE, position |-> 0,
           into |-> None]

NoRun == [status |-> "none", attempt |-> 0, external |-> FALSE, asked |-> 0,
          granted |-> {}, retried |-> 0, continuation |-> FALSE]

Queued(s) == {i \in Items : s.item[i].status = "queued"}

NextPosition(s) ==
    1 + (IF Queued(s) = {} THEN 0
         ELSE CHOOSE p \in {s.item[i].position : i \in Queued(s)} :
                  \A i \in Queued(s) : s.item[i].position <= p)

\* Only a parallel task keeps the TaskRun it belongs to.
Target(intent, seen) == IF intent = "parallel" THEN seen ELSE None

Enqueued(s, i, intent, seen) ==
    [s EXCEPT !.item[i] =
        [NoItem EXCEPT !.status = "queued", !.intent = intent,
            !.target = Target(intent, seen), !.urgent = i \in Urgent,
            !.position = NextPosition(s)]]

\* The tables, and the memory a dispatch touches.
Session == [item |-> item, run |-> run, order |-> order, kicks |-> kicks,
            stalled |-> stalled]

Outdated == IF edit = None THEN None ELSE [edit EXCEPT !.fresh = FALSE]

\* Every write of an item touches session_inbox_revisions.
Becomes(s) ==
    /\ item' = s.item /\ run' = s.run /\ order' = s.order
    /\ kicks' = s.kicks /\ stalled' = s.stalled
    /\ edit' = IF s.item = item THEN edit ELSE Outdated

BecomesClosingEdit(s) ==
    /\ item' = s.item /\ run' = s.run /\ order' = s.order
    /\ kicks' = s.kicks /\ stalled' = s.stalled
    /\ edit' = None

\* One command of the operator or the user, beyond their submissions.
Command ==
    /\ commands < MaxCommands
    /\ commands' = commands + 1
    /\ UNCHANGED restarts

-----------------------------------------------------------------------------
(* Claiming and launching.                                                  *)

Running(s) == {r \in Items : s.run[r].status \in {"preparing", "running"}}

\* What holds the queue back: a running or waiting TaskRun, and the latest
\* TaskRun if it is blocked or interrupted.
Held(s) ==
    \E r \in Items :
        \/ s.run[r].status \in {"preparing", "running", "waiting", "answered"}
        \/ /\ s.run[r].status \in {"blocked", "interrupted"}
           /\ s.order[Len(s.order)] = r

Before(s, i, j) ==
    LET x == s.item[i]  y == s.item[j] IN
    \/ x.manual /\ ~y.manual
    \/ x.manual /\ y.manual /\ x.position < y.position
    \/ ~x.manual /\ ~y.manual /\ x.urgent /\ ~y.urgent
    \/ /\ ~x.manual /\ ~y.manual /\ x.urgent = y.urgent
       /\ x.position < y.position

Pending(s) == {i \in Queued(s) : s.item[i].decision = "pending"}

\* The rows the query may return first: those that no other row precedes.
Firsts(s) == {i \in Pending(s) : \A j \in Pending(s) : ~Before(s, j, i)}

\* What the model keeps of an item that left the queue.
Left(x, status) ==
    [NoItem EXCEPT !.status = status, !.target = x.target]

\* claimSessionInboxItem: the item is started and its TaskRun created in one
\* transaction; the authorization of a Goal may fail in it.
Claimed(s, i) ==
    [s EXCEPT !.item[i] = Left(@, "started"),
              !.run[i] = [NoRun EXCEPT !.status = "preparing", !.attempt = 1,
                                       !.external = i \in External],
              !.order = Append(@, i)]

AuthorizationFailed(s, i) ==
    [Claimed(s, i) EXCEPT !.run[i].status = "ended", !.stalled = TRUE]

\* requireBoundary: the Attempt gives way to an approval of the next one.
Paused(s, r) ==
    [s EXCEPT !.run[r].status = "blocked", !.run[r].external = TRUE,
              !.run[r].asked = s.run[r].attempt + 1]

\* Mutant: a failed launch does not serve the queue again.
LaunchFailedQuietly(s, r) ==
    {[s EXCEPT !.run[r].status = st] : st \in {"launch_failed", "ended"}}

\* failClaimedSessionLaunch; a model that is not allowed is not retryable.
LaunchFailed(s, r) ==
    {[s EXCEPT !.run[r].status = st, !.kicks = @ + 1] :
        st \in {"launch_failed", "ended"}}

LaunchCompleted(s, r) == [s EXCEPT !.run[r].status = "running"]

\* launchClaimedSessionInbox asks for the mode of the contract only, not whether
\* a tool made the TaskRun external.
Launched(s, r) ==
    IF r \in External THEN {Paused(s, r)}
    ELSE IF AsyncContext THEN {s}
    ELSE {LaunchCompleted(s, r)} \union LaunchFailed(s, r)

Started(s, i) ==
    Launched(Claimed(s, i), i) \union
    (IF i \in Roadmap THEN {AuthorizationFailed(s, i)} ELSE {})

\* dispatchSessionInbox, with claimNextSessionInbox.
Dispatch(s) ==
    LET t == [s EXCEPT !.stalled = FALSE] IN
    IF up # "up" THEN {s}
    ELSE IF Held(t) \/ Pending(t) = {} THEN {t}
    ELSE UNION {Started(t, i) : i \in Firsts(t)}

\* An operation that leaves the queue to the next dispatch, whoever makes it.
Undispatched(s) ==
    [s EXCEPT !.stalled = @ \/ (~Held(s) /\ Pending(s) # {})]

-----------------------------------------------------------------------------
(* Submission.                                                              *)

ActiveRuns == IF Running(Session) = {} THEN {None} ELSE Running(Session)

\* A known request is answered from its item; otherwise the Router is asked,
\* about the TaskRun that is running now.
Submit(c, r) ==
    /\ up = "up" /\ calls[c] = None /\ item[r].status = "none"
    /\ \E seen \in ActiveRuns : calls' = [calls EXCEPT ![c] = [item |-> r, seen |-> seen]]
    /\ UNCHANGED <<up, item, run, order, parallel, edit, finalizing, kicks,
                   chosen, stalled, bounds>>

\* findMergeCandidate: a queued item of the same intent whose summary the
\* model phrased alike.
MergeCandidates(seen, a) ==
    {None} \union
    (IF seen # None THEN {}
     ELSE {d \in Pending(Session) :
              d \notin Roadmap /\ item[d].intent = a.intent})

Inserted(i, seen, a) ==
    IF item[i].status = "none" THEN Enqueued(Session, i, a.intent, seen)
    ELSE Session

\* The later statements of enqueueSessionInput; each is a no-op on an item
\* that is not queued any more.
Decided(s, i, decision) ==
    IF s.item[i].status = "queued" /\ i \notin Roadmap
    THEN [s EXCEPT !.item[i].decision = decision] ELSE s

Duplicate(s, i, d) ==
    IF s.item[i].status = "queued"
    THEN [s EXCEPT !.item[i] = [Left(@, "deleted") EXCEPT !.into = d]] ELSE s

Clarify(s, i) ==
    IF s.item[i].status = "queued" /\ s.item[i].decision = "pending"
    THEN [s EXCEPT !.item[i].decision = "needs_clarification"] ELSE s

RouteToRun(s, i) ==
    IF s.item[i].status = "queued" THEN [s EXCEPT !.item[i] = Left(@, "routed")]
    ELSE s

\* enqueueRelatedSessionTask, for an independent objective in the input.
WithRelated(s, seen, a) ==
    {s} \union
    (IF ~a.split THEN {}
     ELSE {Enqueued(s, x, "parallel", seen) :
              x \in {y \in Related : s.item[y].status = "none"}})

Admitted(i, seen, a, d) ==
    LET s == Inserted(i, seen, a) IN
    IF a.intent = "defer" THEN {Undispatched(Decided(s, i, "defer"))}
    ELSE IF d # None THEN {Undispatched(Duplicate(s, i, d))}
    ELSE IF ~a.sure THEN {Undispatched(Clarify(s, i))}
    ELSE IF a.intent = "message"
    THEN {Undispatched(RouteToRun(t, i)) : t \in WithRelated(s, seen, a)}
    ELSE IF a.intent = "parallel" THEN {Undispatched(s)}
    ELSE Dispatch(s)

\* The Router answered.  `closing` is not read again: the item is stored, and
\* only the dispatch refuses.
Routed(c) ==
    /\ up # "down" /\ calls[c] # None
    /\ LET i == calls[c].item  seen == calls[c].seen IN
       \E a \in Analyses(seen) : \E d \in MergeCandidates(seen, a) :
       \E s \in Admitted(i, seen, a, d) :
           Becomes(s)
    /\ calls' = [calls EXCEPT ![c] = None]
    /\ UNCHANGED <<up, parallel, finalizing, chosen, bounds>>

\* enqueueGoalRoadmapItem: no Router; a failed link discards the item.  A
\* repeated request dispatches a queued item again.
EnqueueRoadmapItem(g) ==
    /\ up = "up"
    /\ \/ /\ item[g].status = "none"
          /\ \E s \in Dispatch(Enqueued(Session, g, "task", None)) : Becomes(s)
       \/ /\ item[g].status = "queued"
          /\ \E s \in Dispatch(Session) : Becomes(s)
    /\ UNCHANGED <<up, parallel, calls, finalizing, chosen, bounds>>

-----------------------------------------------------------------------------
(* The operator's changes of the queue.  Each is checked against the        *)
(* revision of the collection; a request with another revision is refused.  *)

BeginEdit(i) ==
    /\ up = "up" /\ edit = None /\ item[i].status = "queued"
    /\ \E seen \in ActiveRuns :
           edit' = [item |-> i, seen |-> seen, fresh |-> TRUE]
    /\ UNCHANGED <<up, item, run, order, parallel, calls, finalizing, kicks,
                   chosen, stalled>>
    /\ Command

\* Mutant: the status read before the await decides.
AcceptedEarly(e) == e.item \notin Roadmap

\* updateSessionInboxItemProfile after the Router: the revision the operator
\* saw decides, not the status read before the await.
Accepted(e) == e.fresh /\ item[e.item].status = "queued" /\ e.item \notin Roadmap

FinishEdit ==
    /\ up # "down" /\ edit # None
    /\ IF Accepted(edit)
       THEN \E a \in Analyses(edit.seen) :
                BecomesClosingEdit([Session EXCEPT !.item[edit.item] =
                    [@ EXCEPT !.intent = a.intent,
                              !.target = Target(a.intent, edit.seen)]])
       ELSE BecomesClosingEdit(Session)
    /\ UNCHANGED <<up, parallel, calls, finalizing, chosen, bounds>>

Change(s) ==
    /\ up = "up"
    /\ Becomes(Undispatched(s))
    /\ UNCHANGED <<up, parallel, calls, finalizing, chosen>>
    /\ Command

\* reorderSessionInbox: positions from the list, and the whole queue is manual.
Reorder(i) ==
    /\ item[i].status = "queued" /\ Cardinality(Queued(Session)) > 1
    /\ LET q == Queued(Session)
           place(j) == IF j = i THEN 1
                       ELSE 2 + Cardinality({k \in q \ {i} :
                                    item[k].position < item[j].position})
       IN  Change([Session EXCEPT !.item =
               [j \in Items |-> IF j \in q
                    THEN [item[j] EXCEPT !.position = place(j), !.manual = TRUE]
                    ELSE item[j]]])

Delete(i) ==
    /\ item[i].status = "queued" /\ i \notin Roadmap
    /\ Change([Session EXCEPT !.item[i] = Left(@, "deleted")])

Decide(i, decision) ==
    /\ item[i].status = "queued" /\ i \notin Roadmap
    /\ Change([Session EXCEPT !.item[i].decision = decision])

Merge(i, j) ==
    /\ i # j
    /\ \A k \in {i, j} : item[k].status = "queued" /\ k \notin Roadmap
    /\ Change([Session EXCEPT
           !.item[i] = [Left(@, "deleted") EXCEPT !.into = j],
           !.item[j].decision = "pending",
           !.item[j].urgent = item[j].urgent \/ item[i].urgent])

-----------------------------------------------------------------------------
(* Starting one item now.                                                   *)

ContinuationWaits(s) ==
    \E r \in Items : /\ s.run[r].status \in {"blocked", "interrupted"}
                     /\ s.run[r].continuation

\* Mutant: an immediate start does not look for a running TaskRun.
ClaimableBeside(i, allowParallel) ==
    item[i].status = "queued" /\ ~ContinuationWaits(Session)

\* claimSessionInboxNow: beside a running TaskRun only with its approval.
ClaimableNow(i, allowParallel) ==
    /\ item[i].status = "queued"
    /\ \/ Running(Session) = {}
       \/ /\ allowParallel /\ item[i].intent = "parallel"
          /\ item[i].target \in Running(Session)
    /\ ~ContinuationWaits(Session)

StartNow(i) ==
    /\ up = "up" /\ ClaimableNow(i, FALSE)
    /\ \E s \in Started(Session, i) : Becomes(s)
    /\ UNCHANGED <<up, parallel, calls, finalizing, chosen>>
    /\ Command

RequestParallel(i) ==
    /\ up = "up" /\ parallel[i] # "pending"
    /\ item[i].status = "queued" /\ item[i].intent = "parallel"
    /\ item[i].target # None
    /\ parallel' = [parallel EXCEPT ![i] = "pending"]
    /\ UNCHANGED <<up, item, run, order, memory, chosen, stalled>>
    /\ Command

\* The approval is resolved only after the launch; a launch that fails at once
\* leaves it pending.
ApproveParallel(i) ==
    /\ up = "up" /\ parallel[i] = "pending" /\ ClaimableNow(i, TRUE)
    /\ \E s \in Started(Session, i) :
           /\ Becomes(s)
           /\ parallel' = IF s.run[i].status \in {"launch_failed", "ended"}
                          THEN parallel
                          ELSE [parallel EXCEPT ![i] = "resolved"]
    /\ chosen' = chosen \union {i}
    /\ UNCHANGED <<up, calls, finalizing>>
    /\ Command

RejectParallel(i) ==
    /\ up # "down" /\ parallel[i] = "pending"
    /\ parallel' = [parallel EXCEPT ![i] = "resolved"]
    /\ UNCHANGED <<up, item, run, order, memory, chosen, stalled>>
    /\ Command

\* retryInboxLaunch: the last failure of the TaskRun is one of its runtime, in
\* whichever Attempt, and the failed runtime is disposed.
Retried(s, r) ==
    [s EXCEPT !.run[r] = [s.run[r] EXCEPT !.status = "preparing", !.attempt = @ + 1,
                                          !.retried = s.run[r].attempt + 1]]

RetryLaunch(r) ==
    /\ up = "up" /\ run[r].status = "launch_failed" /\ r \notin finalizing
    /\ run[r].attempt < MaxAttempts[r]
    /\ Running(Session) = {} /\ ~ContinuationWaits(Session)
    /\ \E s \in Launched(Retried(Session, r), r) : Becomes(s)
    /\ UNCHANGED <<up, parallel, calls, finalizing, chosen>>
    /\ Command

-----------------------------------------------------------------------------
(* Attempts.                                                                *)

\* The context is prepared, or not: completeClaimedSessionLaunch or
\* failClaimedSessionLaunch, if the launch is still current.
ContextReady(r) ==
    /\ up = "up" /\ run[r].status = "preparing"
    /\ \E s \in {LaunchCompleted(Session, r)} \union LaunchFailed(Session, r) :
           Becomes(s)
    /\ UNCHANGED <<up, parallel, calls, finalizing, chosen, bounds>>

\* An Attempt settles: the TaskRun ends, waits for input, is blocked with or
\* without a continuation, a timeout fails it, or its runtime cannot be built or
\* initialized ("launch_failed", which a closing Core does not record).  The
\* factory throws within the launch, first, resumed or continued; the model lets
\* its failure come later, as that of the initialization does.
Settle(r, status, continue) ==
    /\ up # "down" /\ run[r].status = "running"
    /\ continue => status = "blocked"
    /\ status = "launch_failed" => up = "up"
    /\ Becomes([Session EXCEPT !.run[r].status = status,
                               !.run[r].continuation = continue])
    /\ finalizing' = finalizing \union {r}
    /\ UNCHANGED <<up, parallel, calls, chosen, bounds>>

\* requestForTool: a guarded tool stops the Attempt.
ToolNeedsApproval(r) ==
    /\ up = "up" /\ run[r].status = "running"
    /\ run[r].attempt \notin run[r].granted
    /\ Becomes(Paused(Session, r))
    /\ finalizing' = finalizing \union {r}
    /\ UNCHANGED <<up, parallel, calls, chosen, bounds>>

\* cancel: with a runtime the finalizer follows; a TaskRun that is still being
\* prepared has none.
Cancel(r) ==
    /\ up = "up" /\ run[r].status \in {"preparing", "running"}
    /\ LET s == [Session EXCEPT !.run[r].status = "ended"] IN
       IF run[r].status = "running"
       THEN Becomes(s) /\ finalizing' = finalizing \union {r}
       ELSE Becomes(Undispatched(s)) /\ UNCHANGED finalizing
    /\ UNCHANGED <<up, parallel, calls, chosen>>
    /\ Command

\* Mutant: a continuation does not ask what the policy of its TaskRun is.
ContinuedUnapproved(s, r) ==
    IF /\ s.run[r].continuation /\ s.run[r].status = "blocked"
       /\ Running(s) = {} /\ s.run[r].attempt < MaxAttempts[r]
    THEN [s EXCEPT !.run[r].status = "running", !.run[r].attempt = @ + 1,
                   !.run[r].continuation = FALSE]
    ELSE s

\* startQueuedContinuation and claimContinuation.
Continued(s, r) ==
    IF ~s.run[r].continuation THEN s
    ELSE IF s.run[r].external THEN [s EXCEPT !.run[r].continuation = FALSE]
    ELSE IF /\ s.run[r].status = "blocked" /\ Running(s) = {}
            /\ s.run[r].attempt < MaxAttempts[r]
    THEN [s EXCEPT !.run[r] = [s.run[r] EXCEPT !.status = "running", !.attempt = @ + 1,
                                               !.continuation = FALSE]]
    ELSE s

\* finalizePostAttempt: the inbox is served first, then the continuation.
Finalize(r) ==
    /\ up # "down" /\ r \in finalizing
    /\ \E s \in Dispatch(Session) :
           Becomes(IF up = "up" THEN Continued(s, r) ELSE s)
    /\ finalizing' = finalizing \ {r}
    /\ UNCHANGED <<up, parallel, calls, chosen, bounds>>

\* The timer of recoverContinuations.
ContinuationTimer(r) ==
    /\ up = "up" /\ r \notin finalizing
    /\ Continued(Session, r) # Session
    /\ Becomes(Continued(Session, r))
    /\ UNCHANGED <<up, parallel, calls, finalizing, chosen, bounds>>

\* The setImmediate of a failed launch.
Kick ==
    /\ up # "down" /\ kicks > 0
    /\ \E s \in Dispatch([Session EXCEPT !.kicks = @ - 1]) : Becomes(s)
    /\ UNCHANGED <<up, parallel, calls, finalizing, chosen, bounds>>

\* A blocked TaskRun may be completed by a review of its preserved candidate;
\* taskFinalized dispatches.
Readjudicated(r) ==
    /\ up = "up" /\ run[r].status = "blocked" /\ r \notin finalizing
    /\ run[r].asked = 0 /\ ~run[r].continuation
    /\ \E s \in Dispatch([Session EXCEPT !.run[r].status = "ended"]) : Becomes(s)
    /\ UNCHANGED <<up, parallel, calls, finalizing, chosen>>
    /\ Command

-----------------------------------------------------------------------------
(* Resuming.                                                                *)

Undecided(r) == \E i \in Items : parallel[i] = "pending" /\ item[i].target = r

Resumable(r) == run[r].status \in {"blocked", "interrupted", "timed_out"}

\* resume past its boundary; the preparation of the transcript may throw, and
\* then nothing dispatches.
Resumed(s, r) ==
    LET t == [s EXCEPT !.run[r].continuation = FALSE,
                       !.run[r].attempt = @ + 1]
    IN  {[t EXCEPT !.run[r].status = "running"],
         Undispatched([t EXCEPT !.run[r].status = "ended"])}

CanResume(r) == up = "up" /\ r \notin finalizing /\ run[r].attempt < MaxAttempts[r]

\* A person resumes a TaskRun.  An external one gets a request for approval of
\* its next Attempt instead; an undecided approval refuses.
Resume(r) ==
    /\ CanResume(r) /\ Resumable(r) /\ ~Undecided(r)
    /\ \/ /\ run[r].external
          /\ run[r].asked \in {0, run[r].attempt + 1}
          /\ Becomes(Paused(Session, r))
          /\ UNCHANGED chosen
       \/ /\ ~run[r].external
          /\ \E s \in Resumed(Session, r) : Becomes(s)
          /\ chosen' = chosen \union {r}
    /\ UNCHANGED <<up, parallel, calls, finalizing>>
    /\ Command

Granted(s, r) ==
    [s EXCEPT !.run[r].granted = @ \union {s.run[r].asked},
              !.run[r].asked = 0]

\* resume with an approval: bound to the next Attempt.
ApprovedResume(s, r) ==
    IF /\ s.run[r].attempt + 1 \in s.run[r].granted
       /\ Resumable(r) /\ CanResume(r) /\ ~Undecided(r) /\ s.run[r].asked = 0
    THEN Resumed(s, r) ELSE {s}

\* approveRunApproval of an external action; a repeated approval may resume the
\* Attempt it was given for, and no other.
Approve(r) ==
    /\ up = "up"
    /\ \/ /\ run[r].asked # 0
          /\ \E s \in ApprovedResume(Granted(Session, r), r) : Becomes(s)
       \/ /\ run[r].asked = 0
          /\ \E s \in ApprovedResume(Session, r) \ {Session} : Becomes(s)
    /\ chosen' = chosen \union {r}
    /\ UNCHANGED <<up, parallel, calls, finalizing>>
    /\ Command

Reject(r) ==
    /\ up # "down" /\ run[r].asked # 0
    /\ Becomes([Session EXCEPT !.run[r].asked = 0])
    /\ UNCHANGED <<up, parallel, calls, finalizing, chosen>>
    /\ Command

\* submitRunUserInput: the answer is stored, then the TaskRun resumes; one with
\* an external policy gets its approval boundary, and the queue it held back is
\* not served if a later TaskRun was started meanwhile.  A TaskRun that became
\* external by a tool is refused by the resume boundary and stays answered.
SubmitInput(r) ==
    /\ CanResume(r) /\ run[r].status \in {"waiting", "answered"}
    /\ \/ /\ r \in External
          /\ Becomes(Undispatched(Paused(Session, r)))
          /\ UNCHANGED chosen
       \/ /\ r \notin External
          /\ \E s \in IF run[r].external \/ Undecided(r) \/ run[r].asked # 0
                      THEN {[Session EXCEPT !.run[r].status = "answered"]}
                      ELSE Resumed(Session, r) :
                 Becomes(s)
          /\ chosen' = chosen \union {r}
    /\ UNCHANGED <<up, parallel, calls, finalizing>>
    /\ Command

-----------------------------------------------------------------------------
(* Shutdown, crash and startup.                                             *)

Close ==
    /\ up = "up" /\ up' = "closing"
    /\ UNCHANGED <<item, run, order, parallel, memory, chosen, stalled,
                   bounds>>

\* The process ends, drained or not.
Down ==
    /\ up # "down" /\ up' = "down" /\ restarts < MaxRestarts
    /\ calls' = [c \in Callers |-> None] /\ edit' = None
    /\ finalizing' = {} /\ kicks' = 0
    /\ restarts' = restarts + 1
    /\ UNCHANGED <<item, run, order, parallel, chosen, stalled, commands>>

\* initialize, recoverContinuations and recoverSessionInbox.  A crash of an
\* Attempt that can be proved harmless gets a continuation.
Interrupted(safe) ==
    [r \in Items |->
        LET st == IF run[r].status \in {"preparing", "running"}
                  THEN "interrupted" ELSE run[r].status
        IN  IF st = "interrupted" /\ r \in safe
            THEN [run[r] EXCEPT !.status = "blocked", !.continuation = TRUE]
            ELSE [run[r] EXCEPT !.status = st]]

Startup ==
    /\ up = "down" /\ up' = "up"
    /\ \E safe \in SUBSET {r \in Items : ~run[r].external /\ ~Undecided(r)} :
           LET t == [Session EXCEPT !.run = Interrupted(safe), !.stalled = FALSE]
           IN  \E s \in IF Held(t) \/ Pending(t) = {} THEN {t}
                        ELSE UNION {Started(t, i) : i \in Firsts(t)} :
                   Becomes(s)
    /\ UNCHANGED <<parallel, calls, finalizing, chosen, bounds>>

-----------------------------------------------------------------------------
Init ==
    /\ up = "up"
    /\ \E used \in Scenarios :
           item = [i \in Items |->
                      IF i \in used THEN NoItem
                      ELSE [NoItem EXCEPT !.status = "unused"]]
    /\ run = [i \in Items |-> NoRun]
    /\ order = << >> /\ parallel = [i \in Items |-> "none"]
    /\ calls = [c \in Callers |-> None] /\ edit = None
    /\ finalizing = {} /\ kicks = 0
    /\ chosen = {} /\ stalled = FALSE /\ commands = 0 /\ restarts = 0

Admission ==
    \/ \E c \in Callers : Routed(c) \/ \E r \in Requests : Submit(c, r)
    \/ \E g \in Roadmap : EnqueueRoadmapItem(g)

Operator ==
    \/ FinishEdit
    \/ \E i \in Items :
           \/ BeginEdit(i) \/ Reorder(i) \/ Delete(i)
           \/ \E d \in {"pending", "defer"} : Decide(i, d)
           \/ \E j \in Items : Merge(i, j)
           \/ StartNow(i) \/ RequestParallel(i) \/ ApproveParallel(i)
           \/ RejectParallel(i) \/ RetryLaunch(i)

Attempt ==
    \E r \in Items :
        \/ ContextReady(r) \/ ToolNeedsApproval(r) \/ Cancel(r)
        \/ \E st \in {"ended", "waiting", "blocked", "timed_out", "launch_failed"} :
           \E c \in BOOLEAN : Settle(r, st, c)
        \/ Finalize(r) \/ ContinuationTimer(r) \/ Readjudicated(r)
        \/ Resume(r) \/ Approve(r) \/ Reject(r) \/ SubmitInput(r)

Process == Kick \/ Close \/ Down \/ Startup

Next == Admission \/ Operator \/ Attempt \/ Process

Spec == Init /\ [][Next]_vars

-----------------------------------------------------------------------------
(* Properties.                                                              *)

\* A TaskRun of the Session starts beside a running one only because a person
\* approved a parallel task or resumed, approved or answered this TaskRun.
\* Three claims exclude others by three different queries (store.ts:977, 995,
\* 1618), on state that finalizers, timers and setImmediate callbacks change.
\* The rows a dead process left running do not count.
StartsAlone ==
    [][LET started == Running(Session)' \ Running(Session)
           beside  == IF up = "down" THEN {} ELSE Running(Session)
       IN  /\ Cardinality(started) <= 1
           /\ beside # {} => started \subseteq chosen']_vars

\* No lost wakeup: while the Session is idle, pending work has a dispatch
\* coming, unless one of the operations that never dispatch let it go (an
\* operator's decision or merge, the cancellation of a TaskRun in preparation,
\* a Roadmap item that lost its authorization, an input routed to a TaskRun
\* that had ended meanwhile, a resume that could not be prepared, an answer
\* that an external action keeps for its approval).
NoIdleBacklog ==
    up = "up" /\ Pending(Session) # {} /\ ~Held(Session) =>
        stalled \/ kicks > 0 \/ finalizing # {}

\* An Attempt of a TaskRun that needs approval for external actions runs only
\* with an approval given for this very Attempt (SUPERVISOR.md:31), whichever
\* of launch, continuation, crash recovery, resume and answer began it, and a
\* retry if the TaskRun was routed as an external action.  A retry asks the
\* contract alone (admission-coordinator.ts:401): one of a TaskRun that a
\* guarded tool made external is the exception, for that Attempt.
ExternalAwaitsApproval ==
    \A r \in Running(Session) :
        run[r].external =>
            \/ run[r].attempt \in run[r].granted
            \/ r \notin External /\ run[r].attempt = run[r].retried

\* "Any later Attempt ... requires a fresh real approval.  If ... a transient
\* failure would otherwise require another Attempt, Core pauses instead of
\* launching a retry that cannot inherit authority" (SUPERVISOR.md:31).
RetryAwaitsApproval ==
    \A r \in Running(Session) :
        run[r].external => run[r].attempt \in run[r].granted

\* An item that left the queue is never changed again: an operator's edit that
\* waited for the Router while the item was claimed does not reach the
\* contract of a TaskRun (store.ts:706, 722).
SettledItemFrozen ==
    [][\A i \in Items : item[i].status \in {"started", "routed", "deleted"} =>
           item'[i] = item[i]]_vars

\* "Their intermediate states are recoverable" (PERSISTENCE_AND_RECOVERY.md:45):
\* an answered TaskRun is one a repeated submission resumes or pauses for
\* approval.
SubmittedInputRecoverable ==
    \A r \in Items : run[r].status = "answered" =>
        r \in External \/ ~run[r].external

\* "Submission reuse with the same canonical content ... returns the existing
\* submission state" (API_V1.md:222): it does not delete it as its own duplicate.
DuplicateOfAnother == \A i \in Items : item[i].into # i

=============================================================================
