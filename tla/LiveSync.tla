------------------------------ MODULE LiveSync ------------------------------
(***************************************************************************)
(* The console's live view of one Workspace and its one TaskRun, on top of *)
(* EventStream: a snapshot load when the Workspace is entered, an effect   *)
(* that claims the event consumer and follows the stream, and a poll every *)
(* five seconds that stands back while the stream is fresh.                *)
(*                                                                         *)
(* A read of the Core is given a window: it finds the TaskRun as it was at *)
(* some moment between the request and the answer.  Any request may fail.  *)
(* liveRevision is kept as what its users ask of it: a poll or a load      *)
(* under way is given up when it moves after their guard was taken.        *)
(***************************************************************************)
EXTENDS EventStream

CONSTANT Disturbances   \* faults, losses of attention and re-entries in all

ASSUME LiveSyncAssumption == Disturbances \in Nat

VARIABLES
    view,       \* activeRun as shown, and how far the conversation is
    stream,     \* the stream effect's instance
    handler,    \* the event whose handler awaits
    late,       \* claims of closed instances still on their way
    acks,       \* acknowledgements on their way
    health,     \* healthyRunId and the age of lastStreamActivityAt
    poll,       \* the poll under way
    load,       \* the snapshot load under way
    attentive,  \* the page is visible and online
    left,       \* disturbances left
    handled     \* history: events handled to the end, or found to be part of
                \* the TaskRun the instance was started with

clientVars == <<view, stream, handler, late, acks, health, poll, load, attentive, left, handled>>
vars == <<serverVars, clientVars>>

NoRun == [seq |-> -1, after |-> -1]
NoStream == [stage |-> "off", after |-> 0, newest |-> FALSE, due |-> 0, retry |-> FALSE]
NoHandler == [seq |-> 0, from |-> 0]
NoGuard == [active |-> FALSE, from |-> 0]

\* A TaskRun as api.run finds it when the journal ends at p
RunsAt(p) == {[seq |-> p, after |-> a] : a \in CheckpointAfters(p)}
ShownStatus(run) == IF run = NoRun THEN "none" ELSE StatusAt(run.seq)

\* Where the journal can end for a reader, between two ends of it
Moments(from, to) == {p \in from..to : p = from \/ script[p] # "started"}

\* A conversation read then goes up to the last turn that ended.
ContentAt(p) == Max({0} \cup {e \in 1..p : script[e] \in Rests})

\* loadWorkspaceSnapshot: the list of TaskRuns, then the active one of it
Snapshots(from, to) ==
    UNION {{[run |-> r, content |-> ContentAt(p)] :
                r \in IF ActiveAt(p) THEN UNION {RunsAt(q) : q \in Moments(p, to)} ELSE {NoRun}} :
           p \in Moments(from, to)}

Init ==
    /\ ServerInit
    /\ view = [run |-> NoRun, content |-> 0]
    /\ stream = NoStream /\ handler = NoHandler
    /\ late = 0 /\ acks = {}
    /\ health = "none"
    /\ poll = NoGuard
    /\ load = [active |-> TRUE, from |-> 0]
    /\ attentive = TRUE
    /\ left = Disturbances
    /\ handled = {}

Disturb == left > 0 /\ left' = left - 1

-----------------------------------------------------------------------------
\* WorkspaceLiveSyncCoordinator

\* liveRevision moves: guards taken before do not commit any more.
MoveRevision == poll' = NoGuard /\ load' = NoGuard

\* For a mutant: the age of a stream is not looked at.
HasStream == health # "none"

HasFreshStream == health = "fresh"

\* commitSnapshot renews the age of a healthy stream
Renewed == IF health = "none" THEN "none" ELSE "fresh"

-----------------------------------------------------------------------------
\* The stream effect: [activeRun.id, activeRun.status, streamGeneration]

\* event-acknowledger: what is due is sent when the instance closes.
Flush(due) == IF due = 0 THEN acks ELSE acks \cup {[newest |-> stream.newest, seq |-> due]}

\* The cleanup of the current instance (due: the highest sequence scheduled
\* with it), and a new one for the TaskRun shown if it is active.
Restart(run, due) ==
    /\ acks' = Flush(due)
    /\ late' = IF stream.stage = "claiming" THEN late + 1 ELSE late
    /\ conn' = NoConn
    /\ health' = "none"
    /\ handler' = NoHandler
    /\ stream' = IF ShownStatus(run) \in ActiveStatus
                 THEN [NoStream EXCEPT !.stage = "claiming", !.after = run.after]
                 ELSE NoStream

StreamGoesOn(due) ==
    /\ stream' = [stream EXCEPT !.due = due]
    /\ handler' = NoHandler
    /\ UNCHANGED <<acks, late, conn, health, poll, load>>

\* setActiveRun: the effect restarts when the status it depends on changes.
StatusChanges(run) == ShownStatus(run) # ShownStatus(view.run)

Show(run, content, due) ==
    /\ view' = [run |-> run, content |-> content]
    /\ IF StatusChanges(run) THEN Restart(run, due) /\ MoveRevision ELSE StreamGoesOn(due)

OthersOvertaken ==
    /\ conn' = Overtaken(conn)
    /\ acks' = {Overtaken(a) : a \in acks}

\* A claim reaches the Core.  One of a closed instance takes the generation
\* all the same.
ClaimLate ==
    /\ late > 0 /\ late' = late - 1
    /\ stream' = Overtaken(stream)
    /\ OthersOvertaken
    /\ UNCHANGED <<script, last, acked, view, handler, health, poll, load, attentive, left,
                   handled>>

Claim ==
    /\ stream.stage = "claiming"
    /\ stream' = [stream EXCEPT !.stage = "claimed", !.newest = TRUE]
    /\ OthersOvertaken
    /\ UNCHANGED <<script, last, acked, view, handler, late, health, poll, load,
                   attentive, left, handled>>

\* claimConsumer's continuation: subscribe, markStreamHealthy
Subscribe ==
    /\ stream.stage = "claimed"
    /\ stream' = [stream EXCEPT !.stage = "open"]
    /\ conn' = [NoConn EXCEPT !.phase = "requested", !.newest = stream.newest]
    /\ health' = "fresh"
    /\ MoveRevision
    /\ UNCHANGED <<script, last, acked, view, handler, late, acks, attentive, left,
                   handled>>

\* onError of the stream, or the claim's catch: scheduleReconnect
Break ==
    /\ stream' = [stream EXCEPT !.stage = "broken", !.retry = TRUE]
    /\ conn' = NoConn
    /\ health' = "none"
    /\ handler' = NoHandler
    /\ MoveRevision
    /\ UNCHANGED <<script, last, acked, view, acks, attentive>>

ClaimFails ==
    /\ stream.stage \in {"claiming", "claimed"}
    /\ Disturb /\ Break
    /\ UNCHANGED <<handled, late>>

StreamRefused ==
    /\ stream.stage = "open" /\ conn.phase = "failed"
    /\ Break
    /\ UNCHANGED <<left, handled, late>>

StreamFails ==
    /\ stream.stage = "open" /\ handler = NoHandler
    /\ Disturb /\ Break
    /\ UNCHANGED <<handled, late>>

\* A response that ends cleanly completes the subscription: nobody is told.
StreamEnds ==
    /\ stream.stage = "open" /\ handler = NoHandler
    /\ conn.phase = "closed" /\ conn.read = Len(conn.frames)
    /\ stream' = [stream EXCEPT !.stage = "ended"]
    /\ conn' = NoConn
    /\ UNCHANGED <<script, last, acked, view, handler, late, acks, health, poll, load,
                   attentive, left, handled>>

\* setStreamGeneration: the stream and the poll effects start anew.
Generation ==
    /\ Restart(view.run, stream.due)
    /\ MoveRevision

TimerFires ==
    /\ stream.retry
    /\ IF attentive THEN Generation
       ELSE stream' = [stream EXCEPT !.retry = FALSE]
            /\ UNCHANGED <<conn, handler, late, acks, health, poll, load>>
    /\ UNCHANGED <<script, last, acked, view, attentive, left, handled>>

LoseAttention ==
    /\ attentive /\ Disturb
    /\ attentive' = FALSE
    /\ UNCHANGED <<serverVars, view, stream, handler, late, acks, health, poll, load, handled>>

RegainAttention ==
    /\ ~attentive /\ attentive' = TRUE
    /\ Generation
    /\ UNCHANGED <<script, last, acked, view, left, handled>>

-----------------------------------------------------------------------------
\* The handler of one event; the reader awaits it before the next one.

\* terminalRunEvents.  run.waiting_for_input is listed too, but arrives as
\* run.waiting_input; the branches for run.updated, continuation.* and
\* transcript.updated have no event that reaches them.
Terminal == {"blocked", "ended"}

Plain(e) == script[e] \notin Terminal      \* applied at once

Due(e) == Max({stream.due, e})      \* acknowledger.schedule

\* For a mutant: scheduled when the event is received.
DueAtOnce(e) == Due(e)

\* An event whose handler awaits is not scheduled until it returns.
DueAtStart(e) == stream.due

Receive ==
    /\ stream.stage = "open" /\ handler = NoHandler
    /\ conn.read < Len(conn.frames)
    /\ conn' = [conn EXCEPT !.read = @ + 1]
    /\ health' = "fresh"
    /\ MoveRevision
    /\ LET e == conn.frames[conn.read + 1]
       IN  IF e <= stream.after \/ Plain(e)
           THEN /\ stream' = [stream EXCEPT !.due = Due(e)]
                /\ handled' = handled \cup {e}
                /\ UNCHANGED handler
           ELSE /\ stream' = [stream EXCEPT !.due = DueAtStart(e)]
                /\ handler' = [seq |-> e, from |-> last]
                /\ UNCHANGED handled
    /\ UNCHANGED <<script, last, acked, view, late, acks, attentive, left>>

\* api.run, api.runs, api.messages, the transcript; all are requested at once.
TerminalRefreshed ==
    /\ handler # NoHandler
    /\ handled' = handled \cup {handler.seq}
    /\ \E p, list, c \in Moments(handler.from, last) : \E run \in RunsAt(p) :
           Show(IF ActiveAt(list) THEN run ELSE NoRun, ContentAt(c), Due(handler.seq))
    /\ UNCHANGED <<script, last, acked, attentive, left>>

HandlerFails ==
    /\ handler # NoHandler
    /\ Disturb /\ Break
    /\ UNCHANGED <<handled, late>>

\* The acknowledger's timer
AckTimer ==
    /\ stream.due > 0
    /\ acks' = Flush(stream.due)
    /\ stream' = [stream EXCEPT !.due = 0]
    /\ UNCHANGED <<serverVars, view, handler, late, health, poll, load, attentive, left,
                   handled>>

\* Acknowledgements arrive in any order; a lost one is not sent again.
AckArrives ==
    /\ \E a \in acks : acks' = acks \ {a} /\ AckEventConsumer(a)
    /\ UNCHANGED <<script, last, conn, view, stream, handler, late, health, poll, load,
                   attentive, left, handled>>

AckLost ==
    /\ Disturb
    /\ \E a \in acks : acks' = acks \ {a}
    /\ UNCHANGED <<serverVars, view, stream, handler, late, health, poll, load, attentive,
                   handled>>

\* Fifteen seconds without a frame; heartbeats are comments and do not count.
Age ==
    /\ health = "fresh" /\ health' = "aged"
    /\ UNCHANGED <<serverVars, view, stream, handler, late, acks, poll, load, attentive,
                   left, handled>>

-----------------------------------------------------------------------------
\* The poll

\* The guard is taken and the lists are read.
PollStart ==
    /\ ~poll.active /\ attentive
    /\ poll' = [active |-> TRUE, from |-> last]
    /\ UNCHANGED <<serverVars, view, stream, handler, late, acks, health, load, attentive,
                   left, handled>>

\* A fresh stream, or nothing to show or to put away, ends the poll.
Listed == ActiveAt(poll.from)
Useless == (view.run # NoRun /\ HasFreshStream) \/ (view.run = NoRun /\ ~Listed)

PollEnds ==
    /\ poll' = NoGuard
    /\ UNCHANGED <<serverVars, view, stream, handler, late, acks, health, load, attentive,
                   handled>>
PollDropped == poll.active /\ Useless /\ PollEnds /\ UNCHANGED left
PollFails == poll.active /\ Disturb /\ PollEnds

\* A snapshot is applied, and the age of a healthy stream renewed.
Apply(run, content) ==
    /\ view' = [run |-> run, content |-> content]
    /\ IF StatusChanges(run) THEN Restart(run, stream.due)
       ELSE health' = Renewed /\ UNCHANGED <<conn, stream, handler, late, acks>>

\* api.run, then the conversation, which is read again unless the TaskRun
\* shown has the same lastEventSeq.  A TaskRun that is no longer listed is
\* put away.
PollCommit ==
    /\ poll.active /\ ~Useless
    /\ \E p, c \in Moments(poll.from, last) : \E run \in RunsAt(p) :
           /\ c >= p
           /\ Apply(IF Listed THEN run ELSE NoRun,
                    IF Listed /\ p = view.run.seq THEN view.content ELSE ContentAt(c))
    /\ MoveRevision
    /\ UNCHANGED <<script, last, acked, attentive, left, handled>>

-----------------------------------------------------------------------------
\* Entering the Workspace

\* The snapshot of the load effect is applied unless the view has moved on.
LoadDone ==
    /\ load.active
    /\ \E s \in Snapshots(load.from, last) : Apply(s.run, s.content)
    /\ MoveRevision
    /\ UNCHANGED <<script, last, acked, attentive, left, handled>>

LoadFails ==
    /\ load.active /\ Disturb
    /\ load' = NoGuard
    /\ UNCHANGED <<serverVars, view, stream, handler, late, acks, health, poll, attentive,
                   handled>>

\* The user leaves and comes back.  A prefetched snapshot, taken at any time
\* before, is shown at once; otherwise nothing is, and the load may be the
\* prefetch still under way.  A stream that begins moves the revision.
Enter(run, content, from) ==
    /\ view' = [run |-> run, content |-> content]
    /\ Restart(run, stream.due)
    /\ load' = IF ShownStatus(run) \in ActiveStatus THEN NoGuard
               ELSE [active |-> TRUE, from |-> from]

EnterWorkspace ==
    /\ Disturb
    /\ \/ \E s \in Snapshots(0, last) : Enter(s.run, s.content, last)
       \/ \E from \in Moments(0, last) : Enter(NoRun, 0, from)
    /\ poll' = NoGuard
    /\ UNCHANGED <<script, last, acked, attentive, handled>>

-----------------------------------------------------------------------------
Journal == (AppendEvent \/ StartContinuation) /\ UNCHANGED clientVars
Serve == Server /\ UNCHANGED clientVars
Effect == Claim \/ Subscribe \/ StreamRefused \/ StreamEnds \/ TimerFires
Handler == Receive \/ TerminalRefreshed
Polling == PollStart \/ PollCommit \/ PollDropped
Acks == AckTimer \/ AckArrives

Next ==
    \/ Journal \/ Serve \/ Effect \/ Handler \/ Polling \/ Acks \/ Age \/ LoadDone \/ ClaimLate
    \/ StreamFails \/ ClaimFails \/ HandlerFails \/ AckLost \/ PollFails \/ LoadFails
    \/ LoseAttention \/ RegainAttention \/ EnterWorkspace

Spec == Init /\ [][Next]_vars

FairSpec ==
    /\ Spec
    /\ WF_vars(Serve) /\ WF_vars(Effect) /\ WF_vars(Handler) /\ WF_vars(Polling)
    /\ WF_vars(Acks) /\ WF_vars(Age) /\ WF_vars(LoadDone) /\ WF_vars(ClaimLate)

-----------------------------------------------------------------------------
(* Properties *)

\* On every connection the frames continue from the durable cursor with each
\* public event once and in order, whatever is journaled while the replay
\* runs, the buffer drains and the stream goes live (event-routes.ts): a frame
\* passes over no public event, and none is crossed when a frame goes back,
\* as the late continuation.started does.
Skipped(previous, e) == IF previous < e THEN previous + 1 .. e - 1 ELSE e .. previous
StreamIsGapless ==
    \A i \in DOMAIN conn.frames :
        LET previous == IF i = 1 THEN conn.base ELSE conn.frames[i - 1]
        IN  \A e \in Skipped(previous, conn.frames[i]) : ~Public(e)

\* The durable cursor never passes a public event that no instance of the
\* console handled to its end: a handler that fails, a stream that breaks, a
\* restart or a generation taken over in between leaves it to be replayed.
AckedWasHandled ==
    \A e \in 1..acked : Public(e) => e \in handled

\* While the page stays visible and online, what it shows of the TaskRun is
\* the Core's state in the end, for whatever reason the stream was lost.
RunIsCurrent == view.run.seq = IF ActiveAt(last) THEN last ELSE -1
RunEventuallyCurrent == <>[]attentive => <>[]RunIsCurrent

\* The same of the conversation: "polling provides eventual UI recovery"
\* (use-workspace-live-sync.ts:235).
ContentIsCurrent == view.content = ContentAt(last)
ContentEventuallyCurrent == <>[]attentive => <>[]ContentIsCurrent
=============================================================================
