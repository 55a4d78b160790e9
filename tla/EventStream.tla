----------------------------- MODULE EventStream -----------------------------
(***************************************************************************)
(* The Core's side of the TaskRun event stream: the journal, the durable   *)
(* cursor of one event consumer, and the SSE route that replays the        *)
(* journal after the cursor and then follows it.                           *)
(*                                                                         *)
(* Events are named by their sequence numbers; what the journal holds at   *)
(* each number is fixed by a script.  Some events are journaled without    *)
(* being published to the listeners (the memory port's appendEvent); a     *)
(* replay finds them, a live stream does not.  The start of a continuation *)
(* is published after the context events that are journaled after it.      *)
(*                                                                         *)
(* The frame of an event holds its public projection: all types the        *)
(* contract does not name become diagnostic.internal.  An event is called  *)
(* public if its own type survives.                                        *)
(*                                                                         *)
(* Generations are only ever compared with the cursor's: instead of its    *)
(* number, a holder keeps whether its generation is still the newest.      *)
(***************************************************************************)
EXTENDS Integers, Sequences, FiniteSets, FiniteSetsExt, SequencesExt

CONSTANTS
    Scripts,    \* the journals considered: sequences of event kinds
    Limit,      \* EVENT_REPLAY_BUFFER_LIMIT, of the buffer and of the pump
    Window      \* frames in flight before write() asks to wait for drain

PublicKinds == {
    "delta",        \* message.*, tool.progress, approvals, submitted input
    "boundary",     \* tool.started, tool.completed, message.completed
    "waiting",      \* run.waiting_for_input
    "blocked",      \* run.blocked
    "ended",        \* run.completed, failed, cancelled, interrupted
    "resumed"}      \* run.resumed

Kinds == PublicKinds \cup {
    "internal",     \* run.updated, transcript.updated, most of supervisor.*
    "started",      \* continuation.started
    "context",      \* context.loaded (and context.pruned) of a continuation
    "unprepared",   \* continuation.preparation.failed
    "silent"}       \* journaled, not published

ASSUME EventStreamAssumption ==
    /\ \A s \in Scripts :
           /\ s \in Seq(Kinds)
           /\ \A i \in DOMAIN s : s[i] = "started" =>
                 i < Len(s) /\ s[i + 1] \in {"context", "unprepared"}
    /\ Limit \in Nat \ {0} /\ Window \in Nat \ {0}

VARIABLES
    script,     \* what the TaskRun will have journaled
    last,       \* last_event_seq: how much of it is in the journal
    acked,      \* acked_seq of the consumer's cursor
    conn        \* the consumer's current SSE connection, and what it carries

serverVars == <<script, last, acked, conn>>

NoConn == [phase |-> "none", newest |-> FALSE, base |-> 0, high |-> 0, delivered |-> 0,
           buffer |-> <<>>, pump |-> <<>>, frames |-> <<>>, read |-> 0]

ServerInit ==
    /\ script \in Scripts
    /\ last = 0
    /\ acked = 0
    /\ conn = NoConn

-----------------------------------------------------------------------------
\* What a read of the TaskRun finds when the journal ends at p

Rests == {"waiting", "blocked", "ended"}

\* The status set with the last transition; the TaskRun is admitted running.
StatusAt(p) ==
    LET turns == {i \in 1..p : script[i] \in Rests \cup {"resumed", "started"}}
    IN  IF turns = {} \/ script[Max(turns)] \notin Rests THEN "running"
        ELSE script[Max(turns)]

ActiveStatus == {"running", "waiting", "blocked"}      \* activeRunStatuses
ActiveAt(p) == StatusAt(p) \in ActiveStatus

\* updateCheckpoint, scheduleCheckpoint, flushCheckpoint: the checkpoint of a
\* running Attempt is written when it starts and at every boundary, and some
\* time after any other message event; a transition deactivates it.
Flushed(p) == {0} \cup {i \in 1..p : script[i] \in {"boundary", "resumed", "context"}}
CheckpointSeqs(p) ==
    {Max(Flushed(p))} \cup {i \in Max(Flushed(p))..p : i > 0 /\ script[i] = "delta"}

\* checkpoint.lastEventSeq while active, the TaskRun's lastEventSeq otherwise
CheckpointAfters(p) == IF StatusAt(p) = "running" THEN CheckpointSeqs(p) ELSE {p}

-----------------------------------------------------------------------------
\* The consumer's cursor.  settled_acked_seq and final_acked_seq always are
\* the last settling and the last final event up to acked_seq and are left
\* to that definition.

\* A claim takes a new generation: every holder of one is overtaken.
Overtaken(holder) == [holder EXCEPT !.newest = FALSE]

\* stale, invalid or accepted
AckAccepted(a) == a.newest /\ a.seq >= acked /\ a.seq <= last
AckEventConsumer(a) == acked' = IF AckAccepted(a) THEN a.seq ELSE acked

-----------------------------------------------------------------------------
\* The stream

\* closeStream: pending writes are dropped, the response ends cleanly after
\* what was written.
Closed(c) == [c EXCEPT !.phase = "closed", !.buffer = <<>>, !.pump = <<>>]

\* publicEventProjection: what the console can tell from diagnostic.internal
Public(e) == script[e] \in PublicKinds

Writable == Len(conn.frames) - conn.read < Window

\* frame: the projection keeps the sequence number; what it makes of the kind
\* is Public.
Written(c, e) == [c EXCEPT !.frames = Append(@, e)]

\* For a mutant: the listener is registered after the replay.
NotifiedWhenLive(c, e) ==
    IF c.phase = "live" /\ Len(c.pump) < Limit THEN [c EXCEPT !.pump = Append(@, e)] ELSE c

\* The listener: buffered while the replay is under way, queued for writing
\* after it; a full queue closes the stream.
Notified(c, e) ==
    CASE c.phase = "replay" /\ Len(c.buffer) < Limit -> [c EXCEPT !.buffer = Append(@, e)]
      [] c.phase = "live" /\ Len(c.pump) < Limit -> [c EXCEPT !.pump = Append(@, e)]
      [] c.phase \in {"replay", "live"} -> Closed(c)
      [] OTHER -> c

\* appendEvent and RunEventHub.publish
AppendEvent ==
    /\ last < Len(script) /\ script[last + 1] # "started"
    /\ last' = last + 1
    /\ conn' = IF script[last + 1] = "silent" THEN conn ELSE Notified(conn, last + 1)
    /\ UNCHANGED <<script, acked>>

\* startQueuedContinuation: the claim journals continuation.started, the
\* preparation journals and publishes its context events, and only then is
\* the start published; all in one step of the event loop.  If the
\* preparation throws, it never is.
StartContinuation ==
    /\ last + 1 < Len(script) /\ script[last + 1] = "started"
    /\ last' = last + 2
    /\ \/ /\ script[last + 2] = "context"
          /\ conn' = Notified(Notified(conn, last + 2), last + 1)
       \/ /\ script[last + 2] = "unprepared"
          /\ conn' = Notified(conn, last + 2)
    /\ UNCHANGED <<script, acked>>

\* GET events: the listener is registered, then the high watermark is read.
Accept ==
    /\ conn.phase = "requested" /\ conn.newest
    /\ conn' = [conn EXCEPT !.phase = "replay", !.base = acked,
                            !.delivered = acked, !.high = last]
    /\ UNCHANGED <<script, last, acked>>

\* A stale generation is refused.
Reject ==
    /\ conn.phase = "requested" /\ ~conn.newest
    /\ conn' = [conn EXCEPT !.phase = "failed"]
    /\ UNCHANGED <<script, last, acked>>

Replay ==
    /\ conn.phase = "replay" /\ conn.delivered < conn.high /\ Writable
    /\ conn' = [Written(conn, conn.delivered + 1) EXCEPT !.delivered = @ + 1]
    /\ UNCHANGED <<script, last, acked>>

Replayed == conn.phase = "replay" /\ conn.delivered >= conn.high

\* Events of the buffer the replay has delivered already are passed over.
Undelivered(e) == e > conn.delivered
DrainBuffered ==
    /\ Replayed /\ conn.buffer # <<>> /\ Writable
    /\ LET e == Head(conn.buffer)
           c == [conn EXCEPT !.buffer = Tail(@)]
       IN  conn' = IF Undelivered(e) THEN [Written(c, e) EXCEPT !.delivered = e] ELSE c
    /\ UNCHANGED <<script, last, acked>>

GoLive ==
    /\ Replayed /\ conn.buffer = <<>>
    /\ conn' = [conn EXCEPT !.phase = "live"]
    /\ UNCHANGED <<script, last, acked>>

\* yieldReplaySlice: between two events of the replay, if the slice is over,
\* the generation is looked at.
ReplayStale ==
    /\ conn.phase = "replay" /\ conn.frames # <<>> /\ ~conn.newest
    /\ conn' = Closed(conn)
    /\ UNCHANGED <<script, last, acked>>

\* SseWritePump: the generation is looked at when the frame is made.
WriteLive ==
    /\ conn.phase = "live" /\ conn.pump # <<>> /\ Writable
    /\ conn' = IF conn.newest
               THEN [Written(conn, Head(conn.pump)) EXCEPT !.pump = Tail(@)]
               ELSE Closed(conn)
    /\ UNCHANGED <<script, last, acked>>

Heartbeat ==
    /\ conn.phase = "live" /\ ~conn.newest
    /\ conn' = Closed(conn)
    /\ UNCHANGED <<script, last, acked>>

Server == Accept \/ Reject \/ Replay \/ DrainBuffered \/ GoLive
          \/ ReplayStale \/ WriteLive \/ Heartbeat
=============================================================================
