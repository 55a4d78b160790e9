------------------------- MODULE SessionInboxProofs -------------------------
(***************************************************************************)
(* Proofs about the inbox of a Session, for any number of submissions,     *)
(* callers, commands, Attempts and restarts.                               *)
(*                                                                         *)
(* The operations are functions on the tables of the Session, so the       *)
(* proofs follow them: Step(s, t, X) says what every operation keeps when  *)
(* it turns s into t and starts at most the TaskRuns of X, and Woken(t)    *)
(* what a dispatch, or an operation that admits it makes none, leaves.     *)
(* InboxInv collects the shapes and the two state invariants; the two      *)
(* action properties come with it.                                         *)
(***************************************************************************)
EXTENDS SessionInbox, FiniteSetTheorems, TLAPS

RunStatus == {"none", "preparing", "running", "waiting", "answered", "blocked",
              "interrupted", "timed_out", "ended", "launch_failed"}
ActiveStatus == {"preparing", "running"}
SettledStatus == {"started", "routed", "deleted"}

RunRecord == [status : RunStatus, attempt : Nat, external : BOOLEAN, asked : Nat,
              granted : SUBSET Nat, retried : Nat, continuation : BOOLEAN]
ItemFields == {"status", "decision", "intent", "target", "urgent", "manual",
               "position", "into"}
Tables == {"item", "run", "order", "kicks", "stalled"}

\* The tables of a Session: what the operators below rely on
Shape(s) ==
    /\ Tables \subseteq DOMAIN s
    /\ s.run \in [Items -> RunRecord]
    /\ s.order \in Seq(Items)
    /\ DOMAIN s.item = Items
    /\ \A i \in Items : ItemFields \subseteq DOMAIN s.item[i]
    /\ s.kicks \in Nat /\ s.stalled \in BOOLEAN

\* what ExternalAwaitsApproval says of TaskRun r, recorded as x, when it runs
MayRun(x, r) ==
    x.external => x.attempt \in x.granted \/ (r \notin External /\ x.attempt = x.retried)

\* ExternalAwaitsApproval in the tables s
Approved(s) ==
    \A r \in Items : s.run[r].status \in ActiveStatus => MayRun(s.run[r], r)

\* Items that left the queue are the same in t.
Frozen(s, t) ==
    \A i \in Items : s.item[i].status \in SettledStatus => t.item[i] = s.item[i]

\* Every operation that turns s into t, where X is what it may start
Step(s, t, X) ==
    /\ Shape(t)
    /\ Frozen(s, t)
    /\ Approved(s) => Approved(t)
    /\ Running(t) \subseteq Running(s) \union X

Idle(s) == Pending(s) # {} /\ ~Held(s)

\* An idle Session with pending work has a dispatch coming, or was let go.
Woken(s) == Idle(s) => s.stalled \/ s.kicks > 0

\* An operation that neither dispatches nor lets the queue go
Quiet(s, t) == (Idle(t) => Idle(s)) /\ t.stalled = s.stalled /\ t.kicks = s.kicks

Seen == Items \union {None}
Call == [item : Requests, seen : Seen]
Edit == [item : Items, seen : Seen, fresh : BOOLEAN]

CallsOK ==
    /\ calls \in [Callers -> Call \union {None}]
    /\ finalizing \subseteq Items

MemoryOK == CallsOK /\ edit \in Edit \union {None}

InboxInv ==
    /\ Shape(Session) /\ MemoryOK
    /\ Approved(Session)
    /\ NoIdleBacklog

-----------------------------------------------------------------------------
\* One TaskRun of the tables changes

OnlyRun(s, t, r) ==
    /\ Shape(t)
    /\ t.item = s.item /\ t.order = s.order
    /\ \A q \in Items : q # r => t.run[q] = s.run[q]

\* The TaskRun of t does not run as an external action without its approval.
Allowed(t, r) == t.run[r].status \in ActiveStatus => MayRun(t.run[r], r)

LEMMA OneRun ==
    ASSUME NEW s, NEW t, NEW r \in Items, Shape(s), OnlyRun(s, t, r), Allowed(t, r)
    PROVE  /\ Step(s, t, {r})
           /\ Pending(t) = Pending(s)
           /\ t.run[r].status \notin ActiveStatus => Running(t) \subseteq Running(s)
  <1>1. Shape(t) /\ t.item = s.item /\ \A q \in Items : q # r => t.run[q] = s.run[q]
    BY DEF OnlyRun
  <1>2. Frozen(s, t) /\ Pending(t) = Pending(s)
    BY <1>1 DEF Frozen, Pending, Queued
  <1>3. Approved(s) => Approved(t)
    BY <1>1 DEF Approved, Allowed
  <1>4. /\ Running(t) \subseteq Running(s) \union {r}
        /\ t.run[r].status \notin ActiveStatus => Running(t) \subseteq Running(s)
    BY <1>1 DEF Running, ActiveStatus
  <1> QED
    BY <1>1, <1>2, <1>3, <1>4 DEF Step

\* The tables with one TaskRun written anew
Wrote(s, t, r, x) ==
    /\ Tables \subseteq DOMAIN t
    /\ t.run = [s.run EXCEPT ![r] = x]
    /\ t.item = s.item /\ t.order = s.order
    /\ t.kicks \in Nat /\ t.stalled \in BOOLEAN

LEMMA WrittenRun ==
    ASSUME NEW s, Shape(s), NEW r \in Items, NEW x \in RunRecord,
           NEW t, Wrote(s, t, r, x)
    PROVE  OnlyRun(s, t, r) /\ t.run[r] = x
  <1>0. t.item = s.item /\ t.order = s.order
    BY DEF Wrote
  <1>1. t.run \in [Items -> RunRecord] /\ t.run[r] = x
    BY DEF Shape, Wrote
  <1>2. \A q \in Items : q # r => t.run[q] = s.run[q]
    BY DEF Shape, Wrote
  <1>3. Shape(t)
    BY <1>1 DEF Shape, Wrote
  <1> QED
    BY <1>0, <1>1, <1>2, <1>3 DEF OnlyRun

\* requireBoundary
LEMMA PausedRun ==
    ASSUME NEW s, Shape(s), NEW r \in Items
    PROVE  /\ OnlyRun(s, Paused(s, r), r)
           /\ Paused(s, r).run[r].status = "blocked"
           /\ Paused(s, r).kicks = s.kicks /\ Paused(s, r).stalled = s.stalled
  <1> DEFINE x == [s.run[r] EXCEPT !.status = "blocked", !.external = TRUE,
                                   !.asked = s.run[r].attempt + 1]
             t == Paused(s, r)
  <1>1. s.run[r] \in RunRecord /\ Tables \subseteq DOMAIN s
    BY DEF Shape
  <1>2. x \in RunRecord /\ x.status = "blocked"
    <2>1. s.run[r].attempt + 1 \in Nat
      BY <1>1 DEF RunRecord
    <2>2. x \in RunRecord
      BY <1>1, <2>1 DEF RunRecord, RunStatus
    <2>3. x.status = "blocked"
      BY <1>1 DEF RunRecord
    <2> QED
      BY <2>2, <2>3
  <1>3. /\ Tables \subseteq DOMAIN t
        /\ t.item = s.item /\ t.order = s.order /\ t.kicks = s.kicks /\ t.stalled = s.stalled
    BY <1>1 DEF Paused, Tables
  <1>4. t.run = [s.run EXCEPT ![r] = x]
    BY <1>1 DEF Paused, Tables, Shape, RunRecord
  <1> HIDE DEF x, t
  <1>5. Wrote(s, t, r, x)
    BY <1>3, <1>4 DEF Wrote, Shape
  <1>6. OnlyRun(s, t, r) /\ t.run[r] = x
    BY <1>2, <1>5, WrittenRun
  <1> QED
    BY <1>2, <1>3, <1>6 DEF t

\* A TaskRun gets another status, and nothing else changes.
WithStatus(s, r, st) == [s EXCEPT !.run[r].status = st]

LEMMA StatusOnly ==
    ASSUME NEW s, Shape(s), NEW r \in Items, NEW st \in RunStatus,
           NEW t, t = WithStatus(s, r, st)
    PROVE  /\ OnlyRun(s, t, r)
           /\ t.run[r] = [s.run[r] EXCEPT !.status = st] /\ t.run[r].status = st
           /\ t.kicks = s.kicks /\ t.stalled = s.stalled
  <1> DEFINE x == [s.run[r] EXCEPT !.status = st]
  <1>1. s.run[r] \in RunRecord /\ Tables \subseteq DOMAIN s
    BY DEF Shape
  <1>2. x \in RunRecord /\ x.status = st
    BY <1>1 DEF RunRecord
  <1>3. /\ Tables \subseteq DOMAIN t
        /\ t.item = s.item /\ t.order = s.order /\ t.kicks = s.kicks /\ t.stalled = s.stalled
        /\ t.run = [s.run EXCEPT ![r] = x]
    BY <1>1 DEF Tables, WithStatus
  <1> HIDE DEF x
  <1>4. Wrote(s, t, r, x)
    BY <1>3 DEF Wrote, Shape
  <1>5. OnlyRun(s, t, r) /\ t.run[r] = x
    BY <1>2, <1>4, WrittenRun
  <1> QED
    BY <1>2, <1>3, <1>5 DEF x

LEMMA EndedRun ==
    ASSUME NEW s, Shape(s), NEW r \in Items, NEW t, t = WithStatus(s, r, "ended")
    PROVE  OnlyRun(s, t, r) /\ t.run[r].status = "ended"
  <1>1. "ended" \in RunStatus
    BY DEF RunStatus
  <1>2. /\ OnlyRun(s, t, r) /\ t.run[r].status = "ended"
        /\ t.run[r] = [s.run[r] EXCEPT !.status = "ended"]
    BY <1>1, StatusOnly
  <1> QED
    BY <1>2

\* failClaimedSessionLaunch, for either outcome
WithFailure(s, r, st) == [s EXCEPT !.run[r].status = st, !.kicks = @ + 1]

LEMMA FailedRun ==
    ASSUME NEW s, Shape(s), NEW r \in Items, NEW st \in RunStatus,
           NEW t, t = WithFailure(s, r, st)
    PROVE  /\ OnlyRun(s, t, r) /\ t.run[r].status = st
           /\ t.kicks = s.kicks + 1 /\ t.kicks > 0 /\ t.stalled = s.stalled
  <1> DEFINE x == [s.run[r] EXCEPT !.status = st]
  <1>1. /\ s.run[r] \in RunRecord /\ Tables \subseteq DOMAIN s
        /\ s.kicks + 1 \in Nat /\ s.kicks + 1 > 0 /\ s.stalled \in BOOLEAN
    BY DEF Shape
  <1>2. x \in RunRecord /\ x.status = st
    BY <1>1 DEF RunRecord
  <1>3. /\ Tables \subseteq DOMAIN t
        /\ t.item = s.item /\ t.order = s.order
        /\ t.kicks = s.kicks + 1 /\ t.stalled = s.stalled
        /\ t.run = [s.run EXCEPT ![r] = x]
    BY <1>1 DEF Tables, WithFailure
  <1> HIDE DEF x
  <1>4. Wrote(s, t, r, x)
    BY <1>1, <1>3 DEF Wrote
  <1>5. OnlyRun(s, t, r) /\ t.run[r] = x
    BY <1>2, <1>4, WrittenRun
  <1> QED
    BY <1>1, <1>2, <1>3, <1>5

\* launchClaimedSessionInbox: the TaskRun runs, is prepared, waits for its
\* approval, or its failure has scheduled another dispatch.
LEMMA LaunchedRun ==
    ASSUME NEW s, Shape(s), NEW r \in Items, s.run[r].status = "preparing",
           r \notin External => MayRun(s.run[r], r),
           NEW t \in Launched(s, r)
    PROVE  /\ OnlyRun(s, t, r) /\ Allowed(t, r)
           /\ t.stalled = s.stalled
           /\ t.kicks = s.kicks \/ t.kicks = s.kicks + 1
           /\ t.run[r].status \in {"preparing", "running", "blocked"} \/ t.kicks > 0
  <1>0. /\ s.kicks \in Nat /\ s.run[r] \in RunRecord
        /\ {"running", "launch_failed", "ended"} \subseteq RunStatus
    BY DEF Shape, RunStatus
  <1>1. CASE r \in External
    <2>1. t = Paused(s, r)
      BY <1>1 DEF Launched
    <2>2. OnlyRun(s, t, r) /\ t.run[r].status = "blocked"
          /\ t.kicks = s.kicks /\ t.stalled = s.stalled
      BY <2>1, PausedRun
    <2> QED
      BY <2>2 DEF Allowed, ActiveStatus
  <1>2. CASE r \notin External /\ t = s
    BY <1>0, <1>2 DEF OnlyRun, Allowed
  <1>3. CASE r \notin External /\ t = LaunchCompleted(s, r)
    <2>1. /\ OnlyRun(s, t, r)
          /\ t.run[r] = [s.run[r] EXCEPT !.status = "running"] /\ t.run[r].status = "running"
          /\ t.kicks = s.kicks /\ t.stalled = s.stalled
      <3>1. t = WithStatus(s, r, "running") /\ "running" \in RunStatus
        BY <1>0, <1>3 DEF LaunchCompleted, WithStatus
      <3> QED
        BY <3>1, StatusOnly
    <2>2. /\ t.run[r].external = s.run[r].external /\ t.run[r].attempt = s.run[r].attempt
          /\ t.run[r].granted = s.run[r].granted /\ t.run[r].retried = s.run[r].retried
      BY <1>0, <2>1 DEF RunRecord
    <2> QED
      BY <1>3, <2>1, <2>2 DEF Allowed, MayRun
  <1>5. CASE t \in LaunchFailed(s, r)
    <2>1. PICK st \in {"launch_failed", "ended"} :
            t = WithFailure(s, r, st)
      BY <1>5 DEF LaunchFailed, WithFailure
    <2>2. /\ OnlyRun(s, t, r) /\ t.run[r].status = st
          /\ t.kicks = s.kicks + 1 /\ t.kicks > 0 /\ t.stalled = s.stalled
      BY <1>0, <2>1, FailedRun
    <2> QED
      BY <2>2 DEF Allowed, ActiveStatus
  <1> QED
    BY <1>1, <1>2, <1>3, <1>5 DEF Launched

-----------------------------------------------------------------------------
\* Claiming and dispatching

\* claimSessionInboxItem
LEMMA ClaimedItem ==
    ASSUME NEW s, Shape(s), NEW i \in Items, s.item[i].status = "queued"
    PROVE  /\ Shape(Claimed(s, i)) /\ Frozen(s, Claimed(s, i))
           /\ Claimed(s, i).run[i].status = "preparing"
           /\ Claimed(s, i).run[i].external = (i \in External)
           /\ Claimed(s, i).order[Len(Claimed(s, i).order)] = i
           /\ \A q \in Items : q # i => Claimed(s, i).run[q] = s.run[q]
           /\ Claimed(s, i).kicks = s.kicks /\ Claimed(s, i).stalled = s.stalled
  <1> DEFINE c == Claimed(s, i)
             e == i \in External
             x == [NoRun EXCEPT !.status = "preparing", !.attempt = 1, !.external = e]
             y == Left(s.item[i], "started")
  <1>1. Tables \subseteq DOMAIN s
    BY DEF Shape
  <1>2. /\ Tables \subseteq DOMAIN c
        /\ c.run = [s.run EXCEPT ![i] = x] /\ c.item = [s.item EXCEPT ![i] = y]
        /\ c.order = Append(s.order, i) /\ c.kicks = s.kicks /\ c.stalled = s.stalled
    BY <1>1 DEF Claimed, Tables
  <1>3. x \in RunRecord /\ x.status = "preparing" /\ x.external = e
    <2>1. e \in BOOLEAN
      OBVIOUS
    <2> HIDE DEF e
    <2> QED
      BY <2>1 DEF NoRun, RunRecord, RunStatus
  <1>4. ItemFields \subseteq DOMAIN y
    BY DEF Left, NoItem, ItemFields
  <1> HIDE DEF c, x, y
  <1>5. /\ c.run \in [Items -> RunRecord] /\ c.run[i] = x
        /\ \A q \in Items : q # i => c.run[q] = s.run[q]
    BY <1>2, <1>3 DEF Shape
  <1>6. /\ DOMAIN c.item = Items /\ \A j \in Items : ItemFields \subseteq DOMAIN c.item[j]
        /\ \A j \in Items : j # i => c.item[j] = s.item[j]
    BY <1>2, <1>4 DEF Shape
  <1>7. c.order \in Seq(Items) /\ c.order[Len(c.order)] = i
    BY <1>2 DEF Shape
  <1>8. Shape(c)
    BY <1>2, <1>5, <1>6, <1>7 DEF Shape
  <1>9. Frozen(s, c)
    BY <1>6 DEF Frozen, SettledStatus
  <1> QED
    BY <1>2, <1>3, <1>5, <1>7, <1>8, <1>9 DEF c

\* A claim and its launch: whatever comes of it, the Session is held by the
\* TaskRun, its failure has scheduled a dispatch, or the queue was let go.
LEMMA StartedItem ==
    ASSUME NEW s, Shape(s), NEW i \in Items, s.item[i].status = "queued",
           NEW t \in Started(s, i)
    PROVE  Step(s, t, {i}) /\ Woken(t)
  <1> DEFINE c == Claimed(s, i)
  <1>1. /\ Shape(c) /\ Frozen(s, c) /\ c.run[i].status = "preparing"
        /\ c.run[i].external = (i \in External)
        /\ c.order[Len(c.order)] = i /\ c.kicks = s.kicks /\ c.stalled = s.stalled
        /\ \A q \in Items : q # i => c.run[q] = s.run[q]
    BY ClaimedItem
  <1> HIDE DEF c
  <1>2. ASSUME OnlyRun(c, t, i), Allowed(t, i)
        PROVE  Step(s, t, {i})
    <2>1. /\ Shape(t) /\ t.item = c.item
          /\ \A q \in Items : q # i => t.run[q] = s.run[q]
      BY <1>1, <1>2 DEF OnlyRun
    <2>2. Frozen(s, t)
      BY <1>1, <2>1 DEF Frozen
    <2>3. Approved(s) => Approved(t)
      BY <1>2, <2>1 DEF Approved, Allowed
    <2>4. Running(t) \subseteq Running(s) \union {i}
      BY <2>1 DEF Running
    <2> QED
      BY <2>1, <2>2, <2>3, <2>4 DEF Step
  <1>3. CASE t \in Launched(c, i)
    <2>1. /\ OnlyRun(c, t, i) /\ Allowed(t, i)
          /\ t.run[i].status \in {"preparing", "running", "blocked"} \/ t.kicks > 0
      <3>1. i \notin External => MayRun(c.run[i], i)
        BY <1>1 DEF MayRun
      <3> QED
        BY <1>1, <1>3, <3>1, LaunchedRun
    <2>2. t.order[Len(t.order)] = i
      BY <1>1, <2>1 DEF OnlyRun
    <2>3. Held(t) \/ t.kicks > 0
      BY <2>1, <2>2 DEF Held
    <2> QED
      BY <1>2, <2>1, <2>3 DEF Woken, Idle
  <1>4. CASE t = AuthorizationFailed(s, i)
    <2> DEFINE x == [c.run[i] EXCEPT !.status = "ended"]
    <2>1. Tables \subseteq DOMAIN c /\ c.run[i] \in RunRecord
      BY <1>1 DEF Shape
    <2>2. /\ Tables \subseteq DOMAIN t
          /\ t.item = c.item /\ t.order = c.order /\ t.kicks = c.kicks /\ t.stalled = TRUE
          /\ t.run = [c.run EXCEPT ![i] = x]
      BY <1>4, <2>1 DEF AuthorizationFailed, Tables, c
    <2>3. x \in RunRecord /\ x.status = "ended"
      BY <2>1 DEF RunRecord, RunStatus
    <2>4. c.kicks \in Nat /\ t.stalled \in BOOLEAN
      BY <1>1, <2>2 DEF Shape
    <2> HIDE DEF x
    <2>6. Wrote(c, t, i, x)
      BY <2>2, <2>4 DEF Wrote
    <2>5. OnlyRun(c, t, i) /\ t.run[i].status = "ended"
      BY <1>1, <2>3, <2>6, WrittenRun
    <2> QED
      BY <1>2, <2>2, <2>5 DEF Allowed, ActiveStatus, Woken
  <1> QED
    BY <1>3, <1>4 DEF Started, c

\* dispatchSessionInbox starts a TaskRun only in an idle Session.
LEMMA DispatchedQueue ==
    ASSUME NEW s, Shape(s), NEW t \in Dispatch(s)
    PROVE  /\ up = "up" => Woken(t)
           /\ Running(s) \subseteq Running(t)
           /\ Step(s, t, {})
                \/ (Running(s) = {} /\ \E i \in Items : Step(s, t, {i}))
  <1> DEFINE n == [s EXCEPT !.stalled = FALSE]
  <1>1. /\ Shape(n) /\ n.item = s.item /\ n.run = s.run /\ n.order = s.order
        /\ n.kicks = s.kicks /\ n.stalled = FALSE
    BY DEF Shape, Tables
  <1> HIDE DEF n
  <1>2. Frozen(s, n) /\ (Approved(s) => Approved(n)) /\ Running(n) = Running(s)
    BY <1>1 DEF Frozen, Approved, Running
  <1>3. CASE up # "up"
    <2>1. t = s
      BY <1>3 DEF Dispatch
    <2> QED
      BY <1>3, <2>1 DEF Step, Frozen
  <1>4. CASE up = "up" /\ (Held(n) \/ Pending(n) = {})
    <2>1. t = n
      BY <1>4 DEF Dispatch, n
    <2> QED
      BY <1>1, <1>2, <1>4, <2>1 DEF Step, Woken, Idle
  <1>5. CASE up = "up" /\ ~Held(n) /\ Pending(n) # {}
    <2>1. PICK i \in Firsts(n) : t \in Started(n, i)
      BY <1>5 DEF Dispatch, n
    <2>2. i \in Items /\ n.item[i].status = "queued"
      BY DEF Firsts, Pending, Queued
    <2>3. Step(n, t, {i}) /\ Woken(t)
      BY <1>1, <2>1, <2>2, StartedItem
    <2>4. Step(s, t, {i})
      BY <1>1, <1>2, <2>3 DEF Step, Frozen
    <2>5. Running(s) = {}
      BY <1>2, <1>5 DEF Held, Running
    <2> QED
      BY <2>2, <2>3, <2>4, <2>5
  <1> QED
    BY <1>3, <1>4, <1>5

\* An operation that leaves the queue alone says so.
LEMMA UndispatchedQueue ==
    ASSUME NEW s, Shape(s)
    PROVE  /\ Shape(Undispatched(s)) /\ Woken(Undispatched(s))
           /\ Undispatched(s).item = s.item /\ Undispatched(s).run = s.run
           /\ Undispatched(s).order = s.order /\ Undispatched(s).kicks = s.kicks
  <1> DEFINE idle == ~Held(s) /\ Pending(s) # {}
             b == s.stalled \/ idle
             u == [s EXCEPT !.stalled = b]
  <1>0. Undispatched(s) = u
    BY DEF Undispatched
  <1>1. b \in BOOLEAN /\ (idle => b)
    OBVIOUS
  <1> HIDE DEF b, idle
  <1>2. /\ Shape(u) /\ u.item = s.item /\ u.run = s.run /\ u.order = s.order
        /\ u.kicks = s.kicks /\ u.stalled = b
    BY <1>1 DEF Shape, Tables
  <1> HIDE DEF u
  <1>3. Pending(u) = Pending(s) /\ (Held(u) <=> Held(s))
    BY <1>2 DEF Pending, Queued, Held
  <1>4. Woken(u)
    BY <1>1, <1>2, <1>3 DEF Woken, Idle, idle
  <1> QED
    BY <1>0, <1>2, <1>4

\* Step and Undispatched
LEMMA UndispatchedStep ==
    ASSUME NEW s, NEW t, NEW X, Step(s, t, X)
    PROVE  Step(s, Undispatched(t), X) /\ Woken(Undispatched(t))
  <1> DEFINE u == Undispatched(t)
  <1>1. Shape(u) /\ Woken(u) /\ u.item = t.item /\ u.run = t.run
    BY UndispatchedQueue DEF Step
  <1> HIDE DEF u
  <1>2. Step(s, u, X)
    BY <1>1 DEF Step, Frozen, Approved, Running
  <1> QED
    BY <1>1, <1>2 DEF u

\* Only the queue changes: an item that had not left it.
LEMMA ItemStep ==
    ASSUME NEW s, Shape(s), NEW t, Tables \subseteq DOMAIN t,
           DOMAIN t.item = Items,
           \A i \in Items : ItemFields \subseteq DOMAIN t.item[i],
           Frozen(s, t),
           t.run = s.run, t.order = s.order, t.kicks = s.kicks, t.stalled = s.stalled
    PROVE  Step(s, t, {})
  <1>1. Shape(t)
    BY DEF Shape
  <1> QED
    BY <1>1 DEF Step, Approved, Running

\* One item that had not left the queue is written anew.
WroteItem(s, t, i, y) ==
    /\ Tables \subseteq DOMAIN t
    /\ t.item = [s.item EXCEPT ![i] = y]
    /\ t.run = s.run /\ t.order = s.order /\ t.kicks = s.kicks /\ t.stalled = s.stalled

LEMMA OneItem ==
    ASSUME NEW s, Shape(s), NEW i \in Items, s.item[i].status \notin SettledStatus,
           NEW y, ItemFields \subseteq DOMAIN y, NEW t, WroteItem(s, t, i, y)
    PROVE  Step(s, t, {}) /\ t.item[i] = y
  <1>1. /\ DOMAIN t.item = Items /\ t.item[i] = y
        /\ \A j \in Items : j # i => t.item[j] = s.item[j]
    BY DEF WroteItem, Shape
  <1>2. \A j \in Items : ItemFields \subseteq DOMAIN t.item[j]
    BY <1>1 DEF Shape
  <1>3. Frozen(s, t)
    BY <1>1 DEF Frozen
  <1>4. /\ Tables \subseteq DOMAIN t /\ t.run = s.run /\ t.order = s.order
        /\ t.kicks = s.kicks /\ t.stalled = s.stalled
    BY DEF WroteItem
  <1> QED
    BY <1>1, <1>2, <1>3, <1>4, ItemStep

\* Operations one after the other
LEMMA StepTwice ==
    ASSUME NEW s, NEW t, NEW u, NEW X, Step(s, t, {}), Step(t, u, X)
    PROVE  Step(s, u, X)
  BY DEF Step, Frozen

LEMMA StepThen ==
    ASSUME NEW s, NEW t, NEW u, NEW X, Step(s, t, X), Step(t, u, {})
    PROVE  Step(s, u, X)
  BY DEF Step, Frozen

LEMMA NoStep == ASSUME NEW s, Shape(s) PROVE Step(s, s, {})
  BY DEF Step, Frozen

\* The writes of a submission
LEMMA EnqueuedStep ==
    ASSUME NEW s, Shape(s), NEW i \in Items, s.item[i].status = "none",
           NEW intent, NEW seen
    PROVE  Step(s, Enqueued(s, i, intent, seen), {})
  <1> DEFINE t == Enqueued(s, i, intent, seen)
             b == i \in Urgent
             y == [NoItem EXCEPT !.status = "queued", !.intent = intent,
                      !.target = Target(intent, seen), !.urgent = b,
                      !.position = NextPosition(s)]
  <1>1. ItemFields \subseteq DOMAIN y
    <2> HIDE DEF b
    <2> QED
      BY DEF NoItem, ItemFields
  <1>2. WroteItem(s, t, i, y)
    <2> HIDE DEF y
    <2>1. t = [s EXCEPT !.item[i] = y]
      BY DEF Enqueued, y
    <2> QED
      BY <2>1 DEF WroteItem, Shape, Tables
  <1> HIDE DEF t, y
  <1> QED
    BY <1>1, <1>2, OneItem DEF SettledStatus, t

LEMMA DecisionStep ==
    ASSUME NEW s, Shape(s), NEW i \in Items, s.item[i].status = "queued", NEW d
    PROVE  Step(s, [s EXCEPT !.item[i].decision = d], {})
  <1> DEFINE y == [s.item[i] EXCEPT !.decision = d]
             t == [s EXCEPT !.item[i].decision = d]
  <1>1. ItemFields \subseteq DOMAIN y
    BY DEF Shape
  <1>2. WroteItem(s, t, i, y)
    BY DEF WroteItem, Shape, Tables
  <1> HIDE DEF t, y
  <1> QED
    BY <1>1, <1>2, OneItem DEF SettledStatus, t

LEMMA LeftStep ==
    ASSUME NEW s, Shape(s), NEW i \in Items, s.item[i].status = "queued",
           NEW y, \E st, d : y \in {Left(s.item[i], st), [Left(s.item[i], st) EXCEPT !.into = d]}
    PROVE  Step(s, [s EXCEPT !.item[i] = y], {})
  <1> DEFINE t == [s EXCEPT !.item[i] = y]
  <1>1. ItemFields \subseteq DOMAIN y
    BY DEF Left, NoItem, ItemFields
  <1>2. WroteItem(s, t, i, y)
    BY DEF WroteItem, Shape, Tables
  <1> HIDE DEF t
  <1> QED
    BY <1>1, <1>2, OneItem DEF SettledStatus, t

-----------------------------------------------------------------------------
\* From operations on tables to steps of the system

\* The action properties, as formulas about one step
FrozenStep ==
    \A i \in Items : item[i].status \in {"started", "routed", "deleted"} =>
        item'[i] = item[i]

AloneStep ==
    LET started == Running(Session)' \ Running(Session)
        beside  == IF up = "down" THEN {} ELSE Running(Session)
    IN  /\ Cardinality(started) <= 1
        /\ beside # {} => started \subseteq chosen'

Good == InboxInv' /\ FrozenStep /\ AloneStep

LEMMA SessionFields ==
    /\ Session.item = item /\ Session.run = run /\ Session.order = order
    /\ Session.kicks = kicks /\ Session.stalled = stalled
    /\ Tables \subseteq DOMAIN Session
  BY DEF Session, Tables

\* The next Session is t.
Becoming(t) ==
    item' = t.item /\ run' = t.run /\ order' = t.order /\ kicks' = t.kicks /\ stalled' = t.stalled

LEMMA NextSession ==
    ASSUME NEW t, Becoming(t)
    PROVE  /\ Running(Session)' = Running(t) /\ Pending(Session)' = Pending(t)
           /\ Held(Session)' <=> Held(t)
           /\ Approved(Session)' <=> Approved(t)
           /\ Shape(t) => Shape(Session)'
  <1>1. /\ Session'.item = t.item /\ Session'.run = t.run /\ Session'.order = t.order
        /\ Session'.kicks = t.kicks /\ Session'.stalled = t.stalled
        /\ Tables \subseteq DOMAIN Session'
    BY DEF Becoming, Session, Tables
  <1> DEFINE u == Session'
  <1> HIDE DEF u
  <1>2. /\ u.item = t.item /\ u.run = t.run /\ u.order = t.order
        /\ u.kicks = t.kicks /\ u.stalled = t.stalled /\ Tables \subseteq DOMAIN u
    BY <1>1 DEF u
  <1>3. Running(u) = Running(t) /\ Pending(u) = Pending(t) /\ (Held(u) <=> Held(t))
    BY <1>2 DEF Running, Pending, Queued, Held
  <1>4. Approved(u) <=> Approved(t)
    BY <1>2 DEF Approved
  <1>5. Shape(t) => Shape(u)
    BY <1>2 DEF Shape
  <1> QED
    BY <1>3, <1>4, <1>5 DEF u

\* The queue is served by somebody after the step.
Attended(t) ==
    up' = "up" =>
        \/ Woken(t)
        \/ finalizing' # {}
        \/ up = "up" /\ Quiet(Session, t) /\ finalizing' = finalizing

\* At most one TaskRun starts, beside another one only if a person chose it.
MayStart(X) ==
    /\ X = {} \/ \E x : X = {x}
    /\ X \subseteq chosen' \/ Running(Session) = {} \/ up = "down"

LEMMA Finished ==
    ASSUME InboxInv, NEW t, NEW X, Becoming(t), Step(Session, t, X), MayStart(X),
           CallsOK', edit' \in Edit \union {None}, Attended(t)
    PROVE  Good
  <1>1. /\ Shape(t) /\ Frozen(Session, t) /\ Approved(t)
        /\ Running(t) \subseteq Running(Session) \union X
    BY DEF Step, InboxInv
  <1>2. /\ Running(Session)' = Running(t) /\ Pending(Session)' = Pending(t)
        /\ Held(Session)' <=> Held(t)
        /\ Approved(Session)' /\ Shape(Session)'
    BY <1>1, NextSession
  <1>3. NoIdleBacklog'
    <2> SUFFICES ASSUME up' = "up", Idle(t)
                 PROVE  stalled' \/ kicks' > 0 \/ finalizing' # {}
      BY <1>2 DEF NoIdleBacklog, Idle
    <2>1. CASE Woken(t)
      BY <2>1 DEF Woken, Becoming
    <2>2. CASE up = "up" /\ Quiet(Session, t) /\ finalizing' = finalizing
      <3>1. Idle(Session) /\ stalled' = stalled /\ kicks' = kicks
        BY <2>2, SessionFields DEF Quiet, Becoming
      <3> QED
        BY <2>2, <3>1 DEF InboxInv, NoIdleBacklog, Idle
    <2> QED
      BY <2>1, <2>2 DEF Attended
  <1>4. FrozenStep
    BY <1>1, SessionFields DEF Frozen, FrozenStep, SettledStatus, Becoming
  <1>5. AloneStep
    <2> DEFINE S == Running(t) \ Running(Session)
    <2>1. S \subseteq X
      BY <1>1
    <2>2. Cardinality(S) <= 1
      <3>1. CASE S = {}
        BY <3>1, FS_EmptySet
      <3>2. CASE S # {}
        <4>1. PICK x : X = {x}
          BY <2>1, <3>2 DEF MayStart
        <4>2. S = {x}
          BY <2>1, <3>2, <4>1
        <4> QED
          BY <4>2, FS_Singleton
      <3> QED
        BY <3>1, <3>2
    <2> QED
      BY <1>2, <2>1, <2>2 DEF AloneStep, MayStart
  <1> QED
    BY <1>2, <1>3, <1>4, <1>5 DEF Good, InboxInv, MemoryOK

\* Becomes, with what is left of an edit that waits for the Router
LEMMA Became ==
    ASSUME InboxInv, NEW t, Becomes(t) \/ BecomesClosingEdit(t)
    PROVE  Becoming(t) /\ edit' \in Edit \union {None}
  <1>1. edit \in Edit \union {None}
    BY DEF InboxInv, MemoryOK
  <1>2. Outdated \in Edit \union {None}
    BY <1>1 DEF Outdated, Edit
  <1> QED
    BY <1>1, <1>2 DEF Becomes, BecomesClosingEdit, Becoming

\* Steps that leave the tables alone
LEMMA Untouched ==
    ASSUME InboxInv, UNCHANGED <<item, run, order, kicks, stalled>>, MemoryOK',
           up' = "up" => up = "up" /\ finalizing' = finalizing
    PROVE  Good
  <1>1. Becoming(Session)
    BY SessionFields DEF Becoming
  <1>2. Step(Session, Session, {})
    BY NoStep DEF InboxInv
  <1>3. Attended(Session) /\ MayStart({})
    BY DEF Attended, Quiet, MayStart
  <1> QED
    BY <1>1, <1>2, <1>3, Finished DEF MemoryOK

-----------------------------------------------------------------------------
\* Submission

LEMMA AdmittedQueue ==
    ASSUME InboxInv, NEW i \in Items, NEW seen, NEW a, NEW d,
           NEW t \in Admitted(i, seen, a, d)
    PROVE  /\ up = "up" => Woken(t)
           /\ Step(Session, t, {})
                \/ (Running(Session) = {} /\ \E x \in Items : Step(Session, t, {x}))
  <1> DEFINE s == Inserted(i, seen, a)
  <1>0. Shape(Session)
    BY DEF InboxInv
  <1>1. Step(Session, s, {}) /\ Shape(s)
    <2>1. CASE item[i].status = "none"
      BY <1>0, <2>1, SessionFields, EnqueuedStep DEF Inserted, Step
    <2>2. CASE item[i].status # "none"
      BY <1>0, <2>2, NoStep DEF Inserted
    <2> QED
      BY <2>1, <2>2
  <1> HIDE DEF s
  <1>2. ASSUME NEW u, Step(s, u, {}), t = Undispatched(u)
        PROVE  Step(Session, t, {}) /\ Woken(t)
    BY <1>1, <1>2, StepTwice, UndispatchedStep
  <1>3. CASE a.intent = "defer"
    <2>1. Step(s, Decided(s, i, "defer"), {})
      BY <1>1, NoStep, DecisionStep DEF Decided
    <2> QED
      BY <1>2, <1>3, <2>1 DEF Admitted, s
  <1>4. CASE a.intent # "defer" /\ d # None
    <2>1. Step(s, Duplicate(s, i, d), {})
      BY <1>1, NoStep, LeftStep DEF Duplicate
    <2> QED
      BY <1>2, <1>4, <2>1 DEF Admitted, s
  <1>5. CASE a.intent # "defer" /\ d = None /\ ~a.sure
    <2>1. Step(s, Clarify(s, i), {})
      BY <1>1, NoStep, DecisionStep DEF Clarify
    <2> QED
      BY <1>2, <1>5, <2>1 DEF Admitted, s
  <1>6. CASE a.sure /\ d = None /\ a.intent = "message"
    <2>1. PICK w \in WithRelated(s, seen, a) : t = Undispatched(RouteToRun(w, i))
      BY <1>6 DEF Admitted, s
    <2>2. Step(s, w, {}) /\ Shape(w)
      <3>1. CASE w = s
        BY <1>1, <3>1, NoStep
      <3>2. CASE w # s
        <4>1. PICK x \in Items : s.item[x].status = "none" /\ w = Enqueued(s, x, "parallel", seen)
          BY <3>2 DEF WithRelated, Items
        <4> QED
          BY <1>1, <4>1, EnqueuedStep DEF Step
      <3> QED
        BY <3>1, <3>2
    <2>3. Step(w, RouteToRun(w, i), {})
      BY <2>2, NoStep, LeftStep DEF RouteToRun
    <2>4. Step(s, RouteToRun(w, i), {})
      BY <2>2, <2>3, StepTwice
    <2> QED
      BY <1>2, <2>1, <2>4
  <1>7. CASE a.sure /\ d = None /\ a.intent = "parallel"
    <2>1. t = Undispatched(s)
      BY <1>7 DEF Admitted, s
    <2> QED
      BY <1>1, <1>2, <2>1, NoStep
  <1>8. CASE a.sure /\ d = None /\ a.intent \notin {"defer", "message", "parallel"}
    <2>1. t \in Dispatch(s)
      BY <1>8 DEF Admitted, s
    <2>2. /\ up = "up" => Woken(t)
          /\ \/ Step(s, t, {})
             \/ (Running(s) = {} /\ \E x \in Items : Step(s, t, {x}))
      BY <1>1, <2>1, DispatchedQueue
    <2>3. CASE Step(s, t, {})
      BY <1>1, <2>2, <2>3, StepTwice
    <2>4. CASE Running(s) = {} /\ \E x \in Items : Step(s, t, {x})
      <3>1. PICK x \in Items : Step(s, t, {x})
        BY <2>4
      <3>2. Step(Session, t, {x})
        BY <1>1, <3>1, StepTwice
      <3>3. Running(Session) = {}
        <4>1. s.run = Session.run
          BY DEF s, Inserted, Enqueued, Session
        <4> QED
          BY <2>4, <4>1 DEF Running
      <3> QED
        BY <2>2, <3>2, <3>3
    <2> QED
      BY <2>2, <2>3, <2>4
  <1> QED
    BY <1>3, <1>4, <1>5, <1>6, <1>7, <1>8

\* A dispatch, alone or behind another operation
LEMMA DispatchedGood ==
    ASSUME InboxInv, NEW t, Becoming(t), edit' \in Edit \union {None}, CallsOK',
           up' = "up" => Woken(t),
           \/ Step(Session, t, {})
           \/ (Running(Session) = {} /\ \E x \in Items : Step(Session, t, {x}))
    PROVE  Good
  <1>1. Attended(t)
    BY DEF Attended
  <1>2. CASE Step(Session, t, {})
    BY <1>1, <1>2, Finished DEF MayStart
  <1>3. CASE Running(Session) = {} /\ \E x \in Items : Step(Session, t, {x})
    <2>1. PICK x \in Items : Step(Session, t, {x})
      BY <1>3
    <2>2. MayStart({x})
      BY <1>3 DEF MayStart
    <2> QED
      BY <1>1, <2>1, <2>2, Finished
  <1> QED
    BY <1>2, <1>3

LEMMA SubmitGood ==
    ASSUME InboxInv, NEW c \in Callers, NEW r \in Requests, Submit(c, r)
    PROVE  Good
  <1>1. CallsOK' /\ UNCHANGED <<up, item, run, order, kicks, stalled, edit, finalizing>>
    <2>1. PICK seen \in ActiveRuns : calls' = [calls EXCEPT ![c] = [item |-> r, seen |-> seen]]
      BY DEF Submit
    <2>2. seen \in Seen
      BY DEF ActiveRuns, Running, Seen
    <2>3. calls' \in [Callers -> Call \union {None}]
      BY <2>1, <2>2 DEF InboxInv, MemoryOK, CallsOK, Call
    <2> QED
      BY <2>3 DEF Submit, InboxInv, MemoryOK, CallsOK
  <1> QED
    BY <1>1, Untouched DEF InboxInv, MemoryOK

LEMMA RoutedGood == ASSUME InboxInv, NEW c \in Callers, Routed(c) PROVE Good
  <1> DEFINE i == calls[c].item
             seen == calls[c].seen
  <1>1. calls[c] \in Call
    BY DEF Routed, InboxInv, MemoryOK, CallsOK
  <1>2. i \in Items
    BY <1>1 DEF Call, Items
  <1>3. PICK a, d, t : t \in Admitted(i, seen, a, d) /\ Becomes(t)
    BY DEF Routed
  <1>4. Becoming(t) /\ edit' \in Edit \union {None}
    BY <1>3, Became
  <1>5. CallsOK' /\ up' = up
    BY DEF Routed, InboxInv, MemoryOK, CallsOK
  <1> HIDE DEF i, seen
  <1> QED
    BY <1>2, <1>3, <1>4, <1>5, AdmittedQueue, DispatchedGood

LEMMA RoadmapGood ==
    ASSUME InboxInv, NEW g \in Roadmap, EnqueueRoadmapItem(g)
    PROVE  Good
  <1>0. Shape(Session) /\ g \in Items
    BY DEF InboxInv, Items
  <1>1. /\ up' = up /\ up = "up" /\ CallsOK'
    BY DEF EnqueueRoadmapItem, InboxInv, MemoryOK, CallsOK
  <1>2. CASE item[g].status = "none"
             /\ \E s \in Dispatch(Enqueued(Session, g, "task", None)) : Becomes(s)
    <2> DEFINE e == Enqueued(Session, g, "task", None)
    <2>1. Step(Session, e, {}) /\ Shape(e)
      BY <1>0, <1>2, SessionFields, EnqueuedStep DEF Step
    <2>2. Running(e) = Running(Session)
      BY DEF Enqueued, Session, Running
    <2> HIDE DEF e
    <2>3. PICK t \in Dispatch(e) : Becomes(t)
      BY <1>2 DEF e
    <2>4. /\ up = "up" => Woken(t)
          /\ \/ Step(e, t, {})
             \/ (Running(e) = {} /\ \E x \in Items : Step(e, t, {x}))
      BY <2>1, DispatchedQueue
    <2>5. \/ Step(Session, t, {})
          \/ (Running(Session) = {} /\ \E x \in Items : Step(Session, t, {x}))
      BY <2>1, <2>2, <2>4, StepTwice
    <2> QED
      BY <1>1, <2>3, <2>4, <2>5, Became, DispatchedGood
  <1>3. CASE \E s \in Dispatch(Session) : Becomes(s)
    <2>1. PICK t \in Dispatch(Session) : Becomes(t)
      BY <1>3
    <2> QED
      BY <1>0, <1>1, <2>1, Became, DispatchedQueue, DispatchedGood
  <1> QED
    BY <1>2, <1>3 DEF EnqueueRoadmapItem

-----------------------------------------------------------------------------
\* The operator

LEMMA BeginEditGood == ASSUME InboxInv, NEW i \in Items, BeginEdit(i) PROVE Good
  <1>1. PICK seen \in ActiveRuns : edit' = [item |-> i, seen |-> seen, fresh |-> TRUE]
    BY DEF BeginEdit
  <1>2. seen \in Seen
    BY DEF ActiveRuns, Running, Seen
  <1>3. edit' \in Edit
    BY <1>1, <1>2 DEF Edit
  <1>4. UNCHANGED <<up, item, run, order, kicks, stalled, calls, finalizing>>
    BY DEF BeginEdit
  <1> QED
    BY <1>3, <1>4, Untouched DEF InboxInv, MemoryOK, CallsOK

LEMMA FinishEditGood == ASSUME InboxInv, FinishEdit PROVE Good
  <1>0. /\ Shape(Session) /\ edit \in Edit
        /\ up' = up /\ CallsOK' /\ finalizing' = finalizing
    BY DEF InboxInv, FinishEdit, MemoryOK, CallsOK
  <1>1. CASE Accepted(edit)
    <2> DEFINE i == edit.item
    <2>1. PICK a : BecomesClosingEdit([Session EXCEPT !.item[i] =
                    [@ EXCEPT !.intent = a.intent, !.target = Target(a.intent, edit.seen)]])
      BY <1>1 DEF FinishEdit
    <2> DEFINE y == [Session.item[i] EXCEPT !.intent = a.intent,
                                            !.target = Target(a.intent, edit.seen)]
               t == [Session EXCEPT !.item[i] = y]
    <2>2. i \in Items /\ Session.item[i].status = "queued"
      BY <1>0, <1>1, SessionFields DEF Accepted, Edit
    <2>3. ItemFields \subseteq DOMAIN y /\ y.status = "queued" /\ y.decision = Session.item[i].decision
      BY <1>0, <2>2 DEF Shape, ItemFields
    <2>4. BecomesClosingEdit(t)
      BY <2>1
    <2> HIDE DEF y, i
    <2>5. WroteItem(Session, t, i, y)
      BY <1>0 DEF WroteItem, Shape, Tables
    <2> HIDE DEF t
    <2>6. Step(Session, t, {}) /\ t.item[i] = y
      BY <1>0, <2>2, <2>3, <2>5, OneItem DEF SettledStatus
    <2>7. /\ \A j \in Items : j # i => t.item[j] = Session.item[j]
          /\ t.run = Session.run /\ t.order = Session.order
          /\ t.kicks = Session.kicks /\ t.stalled = Session.stalled
      BY <1>0, <2>2, <2>5 DEF WroteItem, Shape
    <2>8. Pending(t) = Pending(Session)
      BY <2>2, <2>3, <2>6, <2>7 DEF Pending, Queued
    <2>9. Quiet(Session, t)
      BY <2>7, <2>8 DEF Quiet, Idle, Held
    <2>10. Attended(t) /\ MayStart({})
      BY <1>0, <2>9 DEF Attended, MayStart
    <2> QED
      BY <1>0, <2>4, <2>6, <2>10, Became, Finished
  <1>2. CASE ~Accepted(edit)
    <2>1. UNCHANGED <<item, run, order, kicks, stalled>> /\ edit' = None
      BY <1>2, SessionFields DEF FinishEdit, BecomesClosingEdit
    <2> QED
      BY <1>0, <2>1, Untouched DEF MemoryOK
  <1> QED
    BY <1>1, <1>2

\* A change of the queue, which never dispatches
LEMMA ChangeGood == ASSUME InboxInv, NEW s, Step(Session, s, {}), Change(s) PROVE Good
  <1>1. Step(Session, Undispatched(s), {}) /\ Woken(Undispatched(s))
    BY UndispatchedStep
  <1>2. Becomes(Undispatched(s)) /\ CallsOK'
    BY DEF Change, InboxInv, MemoryOK, CallsOK
  <1>3. Attended(Undispatched(s)) /\ MayStart({})
    BY <1>1 DEF Attended, MayStart
  <1> QED
    BY <1>1, <1>2, <1>3, Became, Finished

LEMMA ReorderGood == ASSUME InboxInv, NEW i \in Items, Reorder(i) PROVE Good
  <1> DEFINE q == Queued(Session)
             place(j) == IF j = i THEN 1
                         ELSE 2 + Cardinality({k \in q \ {i} :
                                      item[k].position < item[j].position})
             m == [j \in Items |-> IF j \in q
                    THEN [item[j] EXCEPT !.position = place(j), !.manual = TRUE]
                    ELSE item[j]]
             t == [Session EXCEPT !.item = m]
  <1>1. Change(t)
    BY DEF Reorder
  <1>2. \A j \in Items : ItemFields \subseteq DOMAIN m[j]
    <2> HIDE DEF place
    <2> QED
      BY SessionFields DEF InboxInv, Shape
  <1>3. \A j \in Items : item[j].status \in SettledStatus => m[j] = item[j]
    <2> HIDE DEF place
    <2> QED
      BY SessionFields DEF Queued, SettledStatus
  <1>4. DOMAIN m = Items
    <2> HIDE DEF place
    <2> QED
      OBVIOUS
  <1> HIDE DEF m
  <1>5. /\ t.item = m /\ Tables \subseteq DOMAIN t
        /\ t.run = Session.run /\ t.order = Session.order
        /\ t.kicks = Session.kicks /\ t.stalled = Session.stalled
    BY SessionFields DEF Tables
  <1> HIDE DEF t
  <1>6. Step(Session, t, {})
    BY <1>2, <1>3, <1>4, <1>5, ItemStep, SessionFields DEF InboxInv, Frozen
  <1> QED
    BY <1>1, <1>6, ChangeGood

LEMMA DeleteGood == ASSUME InboxInv, NEW i \in Items, Delete(i) PROVE Good
  <1>1. Shape(Session) /\ Session.item[i].status = "queued"
    BY SessionFields DEF Delete, InboxInv
  <1>2. PICK y : y = Left(Session.item[i], "deleted")
    OBVIOUS
  <1>3. Change([Session EXCEPT !.item[i] = y])
    BY <1>2 DEF Delete
  <1>4. Step(Session, [Session EXCEPT !.item[i] = y], {})
    BY <1>1, <1>2, LeftStep
  <1> QED
    BY <1>3, <1>4, ChangeGood

LEMMA DecideGood == ASSUME InboxInv, NEW i \in Items, NEW d, Decide(i, d) PROVE Good
  <1>1. Shape(Session) /\ Session.item[i].status = "queued"
    BY SessionFields DEF Decide, InboxInv
  <1>2. Step(Session, [Session EXCEPT !.item[i].decision = d], {})
    BY <1>1, DecisionStep
  <1> QED
    BY <1>2, ChangeGood DEF Decide

LEMMA MergeGood ==
    ASSUME InboxInv, NEW i \in Items, NEW j \in Items, Merge(i, j)
    PROVE  Good
  <1> DEFINE u == item[j].urgent \/ item[i].urgent
             y == [Left(item[i], "deleted") EXCEPT !.into = j]
             z == [item[j] EXCEPT !.decision = "pending", !.urgent = u]
             m == [[item EXCEPT ![i] = y] EXCEPT ![j] = z]
             t == [Session EXCEPT !.item = m]
  <1>1. /\ Shape(Session) /\ i # j
        /\ item[i].status = "queued" /\ item[j].status = "queued"
        /\ DOMAIN item = Items /\ \A k \in Items : ItemFields \subseteq DOMAIN item[k]
    BY SessionFields DEF Merge, InboxInv, Shape
  <1>2. Change(t)
    <2> HIDE DEF u
    <2>1. t = [Session EXCEPT
                !.item[i] = [Left(@, "deleted") EXCEPT !.into = j],
                !.item[j].decision = "pending",
                !.item[j].urgent = u]
      BY <1>1 DEF Session
    <2> QED
      BY <1>1, <2>1 DEF Merge, u
  <1>3. ItemFields \subseteq DOMAIN y /\ ItemFields \subseteq DOMAIN z
    <2> HIDE DEF u
    <2> QED
      BY <1>1 DEF Left, NoItem, ItemFields
  <1> HIDE DEF y, z
  <1>4. /\ DOMAIN m = Items /\ \A k \in Items : ItemFields \subseteq DOMAIN m[k]
        /\ \A k \in Items : item[k].status \in SettledStatus => m[k] = item[k]
    BY <1>1, <1>3 DEF SettledStatus
  <1> HIDE DEF m
  <1>5. /\ t.item = m /\ Tables \subseteq DOMAIN t
        /\ t.run = Session.run /\ t.order = Session.order
        /\ t.kicks = Session.kicks /\ t.stalled = Session.stalled
    BY SessionFields DEF Tables
  <1> HIDE DEF t
  <1>6. Step(Session, t, {})
    BY <1>1, <1>4, <1>5, ItemStep, SessionFields DEF Frozen
  <1> QED
    BY <1>2, <1>6, ChangeGood

\* An immediate start: alone, or beside its target because a person approved.
LEMMA StartGood ==
    ASSUME InboxInv, NEW i \in Items, item[i].status = "queued",
           NEW t \in Started(Session, i), Becomes(t), CallsOK',
           Running(Session) = {} \/ i \in chosen'
    PROVE  Good
  <1>1. Step(Session, t, {i}) /\ Woken(t)
    BY StartedItem, SessionFields DEF InboxInv
  <1>2. Attended(t) /\ MayStart({i})
    BY <1>1 DEF Attended, MayStart
  <1> QED
    BY <1>1, <1>2, Became, Finished

LEMMA StartNowGood == ASSUME InboxInv, NEW i \in Items, StartNow(i) PROVE Good
  <1>1. CallsOK' /\ item[i].status = "queued" /\ Running(Session) = {}
    BY DEF StartNow, ClaimableNow, InboxInv, MemoryOK, CallsOK
  <1> QED
    BY <1>1, StartGood DEF StartNow

LEMMA ApproveParallelGood == ASSUME InboxInv, NEW i \in Items, ApproveParallel(i) PROVE Good
  <1>1. CallsOK' /\ item[i].status = "queued" /\ i \in chosen'
    BY DEF ApproveParallel, ClaimableNow, InboxInv, MemoryOK, CallsOK
  <1> QED
    BY <1>1, StartGood DEF ApproveParallel

LEMMA ParallelGood ==
    ASSUME InboxInv, NEW i \in Items, RequestParallel(i) \/ RejectParallel(i)
    PROVE  Good
  <1>1. UNCHANGED <<up, item, run, order, kicks, stalled, edit, calls, finalizing>>
    BY DEF RequestParallel, RejectParallel, memory
  <1> QED
    BY <1>1, Untouched DEF InboxInv, MemoryOK, CallsOK

-----------------------------------------------------------------------------
\* Attempts

\* TaskRun r holds the queue of s back.
Holds(s, r) ==
    \/ s.run[r].status \in {"preparing", "running", "waiting", "answered"}
    \/ /\ s.run[r].status \in {"blocked", "interrupted"}
       /\ s.order[Len(s.order)] = r

LEMMA HeldRun ==
    ASSUME NEW s, NEW t, NEW r \in Items, OnlyRun(s, t, r), Holds(s, r) => Holds(t, r)
    PROVE  /\ Idle(t) => Idle(s)
           /\ Holds(t, r) => Woken(t)
  <1>1. /\ t.item = s.item /\ t.order = s.order
        /\ \A q \in Items : q # r => t.run[q] = s.run[q]
    BY DEF OnlyRun
  <1>2. Pending(t) = Pending(s)
    BY <1>1 DEF Pending, Queued
  <1>3. \A q \in Items : q # r /\ Holds(s, q) => Holds(t, q)
    BY <1>1 DEF Holds
  <1>4. /\ Held(s) <=> \E q \in Items : Holds(s, q)
        /\ Held(t) <=> \E q \in Items : Holds(t, q)
    BY DEF Held, Holds
  <1> QED
    BY <1>2, <1>3, <1>4 DEF Idle, Woken

\* A TaskRun does not run after the operation.
LEMMA StoppedRun ==
    ASSUME NEW s, NEW t, NEW r \in Items, Shape(s), OnlyRun(s, t, r),
           t.run[r].status \notin ActiveStatus
    PROVE  Step(s, t, {})
  <1>1. Allowed(t, r)
    BY DEF Allowed
  <1>2. Step(s, t, {r}) /\ Running(t) \subseteq Running(s)
    BY <1>1, OneRun
  <1> QED
    BY <1>2 DEF Step

\* The tables with TaskRun r as x
WithRun(s, r, x) == [s EXCEPT !.run[r] = x]

LEMMA RunWritten ==
    ASSUME NEW s, Shape(s), NEW r \in Items, NEW x \in RunRecord,
           NEW t, t = WithRun(s, r, x)
    PROVE  /\ OnlyRun(s, t, r) /\ t.run[r] = x
           /\ t.kicks = s.kicks /\ t.stalled = s.stalled
  <1>1. /\ Wrote(s, t, r, x)
        /\ t.kicks = s.kicks /\ t.stalled = s.stalled
    BY DEF Wrote, WithRun, Shape, Tables
  <1> QED
    BY <1>1, WrittenRun

LEMMA RetryGood == ASSUME InboxInv, NEW r \in Items, RetryLaunch(r) PROVE Good
  <1> DEFINE x == [run[r] EXCEPT !.status = "preparing", !.attempt = run[r].attempt + 1,
                                 !.retried = run[r].attempt + 1]
             s == WithRun(Session, r, x)
  <1>0. /\ Shape(Session) /\ run[r] \in RunRecord /\ run[r].status = "launch_failed"
        /\ Running(Session) = {} /\ CallsOK' /\ up = "up" /\ finalizing' = finalizing
    BY SessionFields DEF InboxInv, RetryLaunch, MemoryOK, CallsOK, Shape
  <1>1. x \in RunRecord /\ x.status = "preparing" /\ x.attempt = x.retried
    <2>1. run[r].attempt + 1 \in Nat
      BY <1>0 DEF RunRecord
    <2>2. x \in RunRecord
      BY <1>0, <2>1 DEF RunRecord, RunStatus
    <2>3. x.status = "preparing" /\ x.attempt = x.retried
      BY <1>0 DEF RunRecord
    <2> QED
      BY <2>2, <2>3
  <1>2. s = Retried(Session, r)
    BY <1>0 DEF WithRun, Session, Shape, RunRecord, Retried
  <1>3. PICK t \in Launched(s, r) : Becomes(t)
    BY <1>2 DEF RetryLaunch
  <1> HIDE DEF x, s
  <1>4. /\ OnlyRun(Session, s, r) /\ s.run[r].status = "preparing"
        /\ s.kicks = Session.kicks /\ s.stalled = Session.stalled /\ Shape(s)
    BY <1>0, <1>1, RunWritten DEF s, OnlyRun
  <1>5. /\ OnlyRun(s, t, r) /\ Allowed(t, r) /\ t.stalled = s.stalled
        /\ t.kicks = s.kicks \/ t.kicks = s.kicks + 1
    <2>1. s.run[r] = x
      BY <1>0, <1>1, RunWritten DEF s
    <2>2. r \notin External => MayRun(s.run[r], r)
      BY <1>1, <2>1 DEF MayRun
    <2> QED
      BY <1>4, <2>2, LaunchedRun
  <1>6. OnlyRun(Session, t, r)
    BY <1>4, <1>5 DEF OnlyRun
  <1>7. Step(Session, t, {r})
    BY <1>0, <1>5, <1>6, OneRun
  <1>8. Attended(t)
    <2>1. CASE t.kicks = s.kicks
      <3>1. ~Holds(Session, r)
        BY <1>0, SessionFields DEF Holds
      <3>2. Quiet(Session, t)
        BY <1>4, <1>5, <1>6, <2>1, <3>1, HeldRun DEF Quiet
      <3> QED
        BY <1>0, <3>2 DEF Attended
    <2>2. CASE t.kicks = s.kicks + 1
      <3>1. t.kicks > 0
        BY <1>4, <2>2 DEF Shape
      <3> QED
        BY <3>1 DEF Attended, Woken
    <2> QED
      BY <1>5, <2>1, <2>2
  <1>9. MayStart({r})
    BY <1>0 DEF MayStart
  <1> QED
    BY <1>0, <1>3, <1>7, <1>8, <1>9, Became, Finished

LEMMA ContextReadyGood == ASSUME InboxInv, NEW r \in Items, ContextReady(r) PROVE Good
  <1>0. /\ Shape(Session) /\ run[r] \in RunRecord /\ run[r].status = "preparing"
        /\ CallsOK' /\ Session.run[r] = run[r] /\ Approved(Session)
    BY SessionFields DEF InboxInv, ContextReady, MemoryOK, CallsOK, Shape
  <1>1. PICK t : /\ t \in {LaunchCompleted(Session, r)} \union LaunchFailed(Session, r)
                 /\ Becomes(t)
    BY DEF ContextReady
  <1>2. Step(Session, t, {}) /\ Woken(t)
    <2>1. CASE t = LaunchCompleted(Session, r)
      <3>1. t = WithStatus(Session, r, "running") /\ "running" \in RunStatus
        BY <2>1 DEF LaunchCompleted, WithStatus, RunStatus
      <3>2. /\ OnlyRun(Session, t, r) /\ t.run[r].status = "running"
            /\ t.run[r] = [run[r] EXCEPT !.status = "running"]
        BY <1>0, <3>1, StatusOnly
      <3>3. /\ t.run[r].external = run[r].external /\ t.run[r].attempt = run[r].attempt
            /\ t.run[r].granted = run[r].granted /\ t.run[r].retried = run[r].retried
        BY <1>0, <3>2 DEF RunRecord
      <3>4. Allowed(t, r)
        BY <1>0, <3>3 DEF Allowed, Approved, ActiveStatus, MayRun
      <3>5. Step(Session, t, {r})
        BY <1>0, <3>2, <3>4, OneRun
      <3>6. r \in Running(Session)
        BY <1>0 DEF Running
      <3>7. Step(Session, t, {})
        BY <3>5, <3>6 DEF Step
      <3>8. Holds(t, r)
        BY <3>2 DEF Holds
      <3> QED
        BY <3>2, <3>7, <3>8, HeldRun
    <2>2. CASE t \in LaunchFailed(Session, r)
      <3>1. PICK st \in {"launch_failed", "ended"} : t = WithFailure(Session, r, st)
        BY <2>2 DEF LaunchFailed, WithFailure
      <3>2. st \in RunStatus
        BY DEF RunStatus
      <3>3. OnlyRun(Session, t, r) /\ t.run[r].status = st /\ t.kicks > 0
        BY <1>0, <3>1, <3>2, FailedRun
      <3>4. Step(Session, t, {})
        BY <1>0, <3>3, StoppedRun DEF ActiveStatus
      <3> QED
        BY <3>3, <3>4 DEF Woken
    <2> QED
      BY <1>1, <2>1, <2>2
  <1>3. Attended(t) /\ MayStart({})
    BY <1>2 DEF Attended, MayStart
  <1> QED
    BY <1>0, <1>1, <1>2, <1>3, Became, Finished

LEMMA SettleGood ==
    ASSUME InboxInv, NEW r \in Items, 
           NEW st \in {"ended", "waiting", "blocked", "timed_out", "launch_failed"},
           NEW c \in BOOLEAN, Settle(r, st, c)
    PROVE  Good
  <1> DEFINE x == [run[r] EXCEPT !.status = st, !.continuation = c]
             t == WithRun(Session, r, x)
  <1>0. /\ Shape(Session) /\ run[r] \in RunRecord
        /\ CallsOK' /\ finalizing' # {}
    BY SessionFields DEF InboxInv, Settle, MemoryOK, CallsOK, Shape
  <1>1. x \in RunRecord /\ x.status = st
    BY <1>0 DEF RunRecord, RunStatus
  <1>2. t = [Session EXCEPT !.run[r].status = st, !.run[r].continuation = c]
    BY <1>0 DEF WithRun, Session, Shape, RunRecord
  <1>3. Becomes(t)
    BY <1>2 DEF Settle
  <1> HIDE DEF x, t
  <1>4. OnlyRun(Session, t, r) /\ t.run[r].status = st
    BY <1>0, <1>1, RunWritten DEF t
  <1>5. Step(Session, t, {})
    BY <1>0, <1>4, StoppedRun DEF ActiveStatus
  <1>6. Attended(t) /\ MayStart({})
    BY <1>0 DEF Attended, MayStart
  <1> QED
    BY <1>0, <1>3, <1>5, <1>6, Became, Finished

LEMMA ToolGood == ASSUME InboxInv, NEW r \in Items, ToolNeedsApproval(r) PROVE Good
  <1> DEFINE t == Paused(Session, r)
  <1>0. Shape(Session) /\ CallsOK' /\ finalizing' # {} /\ Becomes(t)
    BY DEF InboxInv, ToolNeedsApproval, MemoryOK, CallsOK
  <1>1. OnlyRun(Session, t, r) /\ t.run[r].status = "blocked"
    BY <1>0, PausedRun
  <1> HIDE DEF t
  <1>2. Step(Session, t, {})
    BY <1>0, <1>1, StoppedRun DEF ActiveStatus
  <1>3. Attended(t) /\ MayStart({})
    BY <1>0 DEF Attended, MayStart
  <1> QED
    BY <1>0, <1>2, <1>3, Became, Finished

LEMMA CancelGood == ASSUME InboxInv, NEW r \in Items, Cancel(r) PROVE Good
  <1>0. Shape(Session) /\ CallsOK' /\ "ended" \in RunStatus
    BY DEF InboxInv, Cancel, MemoryOK, CallsOK, RunStatus
  <1>6. PICK t : t = WithStatus(Session, r, "ended")
    OBVIOUS
  <1>1. \/ Becomes(t) /\ finalizing' # {}
        \/ Becomes(Undispatched(t))
    BY <1>6 DEF Cancel, WithStatus
  <1>2. OnlyRun(Session, t, r) /\ t.run[r].status = "ended"
    BY <1>0, <1>6, EndedRun
  <1>3. Step(Session, t, {})
    BY <1>0, <1>2, StoppedRun DEF ActiveStatus
  <1>4. Step(Session, Undispatched(t), {}) /\ Woken(Undispatched(t))
    BY <1>3, UndispatchedStep
  <1>5. MayStart({}) /\ Attended(Undispatched(t)) /\ (finalizing' # {} => Attended(t))
    BY <1>4 DEF Attended, MayStart
  <1> QED
    BY <1>0, <1>1, <1>3, <1>4, <1>5, Became, Finished

\* startQueuedContinuation: an external action is left to its approval, any
\* other TaskRun runs only when no other one does.
LEMMA ContinuedRun ==
    ASSUME NEW s, Shape(s), NEW r \in Items, NEW t, t = Continued(s, r)
    PROVE  /\ Idle(t) => Idle(s)
           /\ t.kicks = s.kicks /\ t.stalled = s.stalled
           /\ Step(s, t, {}) \/ (Running(s) = {} /\ Step(s, t, {r}))
  <1>0. s.run[r] \in RunRecord
    BY DEF Shape
  <1>1. CASE t = s
    BY <1>1, NoStep
  <1>2. CASE s.run[r].external /\ t = [s EXCEPT !.run[r].continuation = FALSE]
    <2> DEFINE x == [s.run[r] EXCEPT !.continuation = FALSE]
    <2>1. /\ x \in RunRecord /\ x.status = s.run[r].status
          /\ x.external = s.run[r].external /\ x.attempt = s.run[r].attempt
          /\ x.granted = s.run[r].granted /\ x.retried = s.run[r].retried
      BY <1>0 DEF RunRecord
    <2>2. t = WithRun(s, r, x)
      BY <1>2 DEF WithRun
    <2> HIDE DEF x
    <2>3. /\ OnlyRun(s, t, r) /\ t.run[r] = x
          /\ t.kicks = s.kicks /\ t.stalled = s.stalled
      BY <2>1, <2>2, RunWritten
    <2>4. Holds(s, r) => Holds(t, r)
      BY <2>1, <2>3 DEF Holds, OnlyRun
    <2>5. Idle(t) => Idle(s)
      BY <2>3, <2>4, HeldRun
    <2>6. Step(s, t, {})
      <3>1. Approved(s) => Approved(t)
        BY <2>1, <2>3 DEF Approved, OnlyRun, MayRun
      <3>2. Running(t) \subseteq Running(s)
        BY <2>1, <2>3 DEF Running, OnlyRun
      <3> QED
        BY <2>3, <3>1, <3>2 DEF Step, Frozen, OnlyRun
    <2> QED
      BY <2>3, <2>5, <2>6 DEF OnlyRun
  <1>3. CASE /\ ~s.run[r].external /\ s.run[r].status = "blocked" /\ Running(s) = {}
             /\ t = [s EXCEPT !.run[r] = [s.run[r] EXCEPT !.status = "running", !.attempt = @ + 1,
                                                          !.continuation = FALSE]]
    <2> DEFINE x == [s.run[r] EXCEPT !.status = "running",
                        !.attempt = @ + 1, !.continuation = FALSE]
    <2>1. /\ x \in RunRecord /\ x.status = "running" /\ x.external = s.run[r].external
      <3>1. s.run[r].attempt + 1 \in Nat
        BY <1>0 DEF RunRecord
      <3>2. x \in RunRecord
        BY <1>0, <3>1 DEF RunRecord, RunStatus
      <3>3. x.status = "running" /\ x.external = s.run[r].external
        BY <1>0 DEF RunRecord
      <3> QED
        BY <3>2, <3>3
    <2>2. t = WithRun(s, r, x)
      BY <1>3 DEF WithRun
    <2> HIDE DEF x
    <2>3. /\ OnlyRun(s, t, r) /\ t.run[r] = x
          /\ t.kicks = s.kicks /\ t.stalled = s.stalled
      BY <2>1, <2>2, RunWritten
    <2>4. Holds(t, r) /\ Allowed(t, r)
      BY <1>3, <2>1, <2>3 DEF Holds, Allowed, MayRun
    <2>5. Idle(t) => Idle(s)
      BY <2>3, <2>4, HeldRun
    <2>6. Step(s, t, {r})
      BY <2>3, <2>4, OneRun
    <2> QED
      BY <1>3, <2>3, <2>5, <2>6 DEF OnlyRun
  <1> QED
    BY <1>1, <1>2, <1>3 DEF Continued

LEMMA FinalizeGood == ASSUME InboxInv, NEW r \in Items, Finalize(r) PROVE Good
  <1>0. Shape(Session) /\ up' = up /\ CallsOK'
    BY DEF Finalize, InboxInv, MemoryOK, CallsOK
  <1>1. PICK s \in Dispatch(Session) : Becomes(IF up = "up" THEN Continued(s, r) ELSE s)
    BY DEF Finalize
  <1>2. /\ up = "up" => Woken(s)
        /\ Running(Session) \subseteq Running(s)
        /\ \/ Step(Session, s, {})
           \/ (Running(Session) = {} /\ \E x \in Items : Step(Session, s, {x}))
    BY <1>0, DispatchedQueue
  <1>3. CASE up # "up"
    BY <1>0, <1>1, <1>2, <1>3, Became, DispatchedGood
  <1>4. CASE up = "up"
    <2>1. PICK t : t = Continued(s, r)
      OBVIOUS
    <2>2. Becomes(t)
      BY <1>1, <1>4, <2>1
    <2>3. Shape(s)
      BY <1>2 DEF Step
    <2>4. /\ Idle(t) => Idle(s)
          /\ t.kicks = s.kicks /\ t.stalled = s.stalled
          /\ Step(s, t, {}) \/ (Running(s) = {} /\ Step(s, t, {r}))
      BY <2>1, <2>3, ContinuedRun
    <2>5. Woken(t)
      BY <1>2, <1>4, <2>4 DEF Woken
    <2>6. \/ Step(Session, t, {})
          \/ (Running(Session) = {} /\ \E x \in Items : Step(Session, t, {x}))
      <3>1. CASE Step(s, t, {})
        BY <1>2, <3>1, StepTwice, StepThen
      <3>2. CASE Running(s) = {} /\ Step(s, t, {r})
        <4>1. Running(Session) = {}
          BY <1>2, <3>2
        <4>2. Step(Session, t, {r})
          BY <1>2, <3>2 DEF Step, Frozen
        <4> QED
          BY <4>1, <4>2
      <3> QED
        BY <2>4, <3>1, <3>2
    <2> QED
      BY <1>0, <2>2, <2>5, <2>6, Became, DispatchedGood
  <1> QED
    BY <1>3, <1>4

LEMMA TimerGood == ASSUME InboxInv, NEW r \in Items, ContinuationTimer(r) PROVE Good
  <1>0. Shape(Session) /\ up = "up" /\ CallsOK' /\ finalizing' = finalizing
    BY DEF ContinuationTimer, InboxInv, MemoryOK, CallsOK
  <1>1. PICK t : t = Continued(Session, r)
    OBVIOUS
  <1>2. Becomes(t)
    BY <1>1 DEF ContinuationTimer
  <1>3. /\ Idle(t) => Idle(Session)
        /\ t.kicks = Session.kicks /\ t.stalled = Session.stalled
        /\ Step(Session, t, {}) \/ (Running(Session) = {} /\ Step(Session, t, {r}))
    BY <1>0, <1>1, ContinuedRun
  <1>4. Attended(t)
    BY <1>0, <1>3 DEF Attended, Quiet
  <1>5. MayStart({}) /\ (Running(Session) = {} => MayStart({r}))
    BY DEF MayStart
  <1> QED
    BY <1>0, <1>2, <1>3, <1>4, <1>5, Became, Finished

\* A dispatch behind an operation that starts and stops nothing
LEMMA ThenDispatched ==
    ASSUME InboxInv, NEW s, Step(Session, s, {}), Running(Session) \subseteq Running(s),
           NEW t \in Dispatch(s), Becomes(t), CallsOK', up' = up
    PROVE  Good
  <1>1. Shape(s)
    BY DEF Step
  <1>2. /\ up = "up" => Woken(t)
        /\ Step(s, t, {})
             \/ (Running(s) = {} /\ \E x \in Items : Step(s, t, {x}))
    BY <1>1, DispatchedQueue
  <1>3. \/ Step(Session, t, {})
        \/ (Running(Session) = {} /\ \E x \in Items : Step(Session, t, {x}))
    <2>1. CASE Step(s, t, {})
      BY <2>1, StepTwice
    <2>2. CASE Running(s) = {} /\ \E x \in Items : Step(s, t, {x})
      <3>1. PICK x \in Items : Step(s, t, {x})
        BY <2>2
      <3>2. Step(Session, t, {x}) /\ Running(Session) = {}
        BY <2>2, <3>1, StepTwice
      <3> QED
        BY <3>2
    <2> QED
      BY <1>2, <2>1, <2>2
  <1> QED
    BY <1>2, <1>3, Became, DispatchedGood

LEMMA KickGood == ASSUME InboxInv, Kick PROVE Good
  <1> DEFINE s == [Session EXCEPT !.kicks = @ - 1]
  <1>0. Shape(Session) /\ up' = up /\ CallsOK' /\ kicks > 0
    BY DEF Kick, InboxInv, MemoryOK, CallsOK
  <1>1. PICK t \in Dispatch(s) : Becomes(t)
    BY DEF Kick
  <1>2. /\ Tables \subseteq DOMAIN s /\ s.item = Session.item /\ s.run = Session.run
        /\ s.order = Session.order /\ s.stalled = Session.stalled /\ s.kicks \in Nat
    BY <1>0, SessionFields DEF Shape, Tables
  <1> HIDE DEF s
  <1>3. Step(Session, s, {}) /\ Running(Session) = Running(s)
    BY <1>0, <1>2 DEF Step, Shape, Frozen, Approved, Running
  <1> QED
    BY <1>0, <1>1, <1>3, ThenDispatched

LEMMA ReadjudicatedGood == ASSUME InboxInv, NEW r \in Items, Readjudicated(r) PROVE Good
  <1>0. /\ Shape(Session) /\ up' = up /\ CallsOK' /\ "ended" \in RunStatus
        /\ Session.run[r].status = "blocked"
    BY SessionFields DEF Readjudicated, InboxInv, MemoryOK, CallsOK, RunStatus
  <1>1. PICK s : s = WithStatus(Session, r, "ended")
    OBVIOUS
  <1>2. PICK t \in Dispatch(s) : Becomes(t)
    BY <1>1 DEF Readjudicated, WithStatus
  <1>3. OnlyRun(Session, s, r) /\ s.run[r].status = "ended"
    BY <1>0, <1>1, EndedRun
  <1>4. Step(Session, s, {})
    BY <1>0, <1>3, StoppedRun DEF ActiveStatus
  <1>5. Running(Session) \subseteq Running(s)
    BY <1>0, <1>3 DEF Running, OnlyRun
  <1> QED
    BY <1>0, <1>2, <1>4, <1>5, ThenDispatched

-----------------------------------------------------------------------------
\* Resuming

\* resume past its boundary, of a TaskRun whose next Attempt may run
LEMMA ResumedRun ==
    ASSUME NEW s, Shape(s), NEW r \in Items, NEW t \in Resumed(s, r),
           s.run[r].external => s.run[r].attempt + 1 \in s.run[r].granted
    PROVE  /\ Step(s, t, {r}) /\ Woken(t)
  <1>0. /\ s.run[r] \in RunRecord /\ s.run[r].attempt + 1 \in Nat
        /\ Tables \subseteq DOMAIN s
    BY DEF Shape, RunRecord
  <1> DEFINE x(st) == [s.run[r] EXCEPT !.continuation = FALSE,
                          !.attempt = s.run[r].attempt + 1, !.status = st]
             u(st) == WithRun(s, r, x(st))
             c == [s EXCEPT !.run[r].continuation = FALSE, !.run[r].attempt = @ + 1]
  <1>1. ASSUME NEW st \in RunStatus
        PROVE  /\ x(st) \in RunRecord /\ x(st).status = st
               /\ x(st).external = s.run[r].external
               /\ x(st).attempt = s.run[r].attempt + 1
               /\ x(st).granted = s.run[r].granted
    <2>1. x(st) \in RunRecord
      BY <1>0 DEF RunRecord
    <2>2. /\ x(st).status = st /\ x(st).external = s.run[r].external
          /\ x(st).attempt = s.run[r].attempt + 1 /\ x(st).granted = s.run[r].granted
      BY <1>0 DEF RunRecord
    <2> QED
      BY <2>1, <2>2
  <1>2. ASSUME NEW st
        PROVE  [c EXCEPT !.run[r].status = st] = u(st)
    BY <1>0 DEF WithRun, Shape, Tables, RunRecord
  <1>3. t = u("running") \/ t = Undispatched(u("ended"))
    <2> HIDE DEF u
    <2> QED
      BY <1>2 DEF Resumed
  <1>4. {"running", "ended"} \subseteq RunStatus
    BY DEF RunStatus
  <1> HIDE DEF x, u
  <1>5. CASE t = u("running")
    <2>1. OnlyRun(s, t, r) /\ t.run[r] = x("running")
      BY <1>1, <1>4, <1>5, RunWritten DEF u
    <2>2. Allowed(t, r) /\ Holds(t, r)
      BY <1>1, <1>4, <2>1 DEF Allowed, Holds, MayRun
    <2> QED
      BY <2>1, <2>2, OneRun, HeldRun
  <1>6. CASE t = Undispatched(u("ended"))
    <2>1. PICK w : w = u("ended")
      OBVIOUS
    <2>2. OnlyRun(s, w, r) /\ w.run[r] = x("ended")
      BY <1>1, <1>4, <2>1, RunWritten DEF u
    <2>3. Step(s, w, {})
      BY <1>1, <1>4, <2>2, StoppedRun DEF ActiveStatus
    <2>4. Step(s, t, {}) /\ Woken(t)
      BY <1>6, <2>1, <2>3, UndispatchedStep
    <2> QED
      BY <2>4 DEF Step
  <1> QED
    BY <1>3, <1>5, <1>6

\* A person resumed the TaskRun: it may run beside another one.
LEMMA ResumedGood ==
    ASSUME InboxInv, NEW r \in Items, NEW t, Step(Session, t, {r}), Woken(t),
           Becomes(t), CallsOK', r \in chosen'
    PROVE  Good
  <1>1. Attended(t) /\ MayStart({r})
    BY DEF Attended, MayStart
  <1> QED
    BY <1>1, Became, Finished

\* Only the approvals of a TaskRun change, and none is taken back.
LEMMA ApprovalsOnly ==
    ASSUME NEW s, NEW t, NEW r \in Items, OnlyRun(s, t, r),
           t.run[r].status = s.run[r].status, t.run[r].external = s.run[r].external,
           t.run[r].attempt = s.run[r].attempt, s.run[r].granted \subseteq t.run[r].granted,
           t.run[r].retried = s.run[r].retried
    PROVE  /\ Step(s, t, {})
           /\ Idle(t) => Idle(s)
  <1>1. Shape(t) /\ t.item = s.item /\ \A q \in Items : q # r => t.run[q] = s.run[q]
    BY DEF OnlyRun
  <1>2. Approved(s) => Approved(t)
    BY <1>1 DEF Approved, MayRun
  <1>3. Running(t) \subseteq Running(s)
    BY <1>1 DEF Running
  <1>4. Step(s, t, {})
    BY <1>1, <1>2, <1>3 DEF Step, Frozen
  <1>5. Holds(s, r) => Holds(t, r)
    BY DEF Holds, OnlyRun
  <1> QED
    BY <1>4, <1>5, HeldRun

\* requireBoundary of a TaskRun that does not run
LEMMA ResumeGood == ASSUME InboxInv, NEW r \in Items, Resume(r) PROVE Good
  <1>0. /\ Shape(Session) /\ up = "up" /\ CallsOK' /\ finalizing' = finalizing
        /\ Session.run[r].status \in {"blocked", "interrupted", "timed_out"}
        /\ Session.run[r].external = run[r].external
    BY SessionFields DEF Resume, CanResume, Resumable, InboxInv, MemoryOK, CallsOK
  <1>1. CASE Becomes(Paused(Session, r))
    <2>1. PICK t : t = Paused(Session, r)
      OBVIOUS
    <2>2. /\ OnlyRun(Session, t, r) /\ t.run[r].status = "blocked"
          /\ t.kicks = Session.kicks /\ t.stalled = Session.stalled
      BY <1>0, <2>1, PausedRun
    <2>3. Step(Session, t, {})
      BY <1>0, <2>2, StoppedRun DEF ActiveStatus
    <2>4. Holds(Session, r) => Holds(t, r)
      BY <1>0, <2>2 DEF Holds, OnlyRun
    <2>5. Quiet(Session, t)
      BY <2>2, <2>4, HeldRun DEF Quiet
    <2>6. Attended(t) /\ MayStart({})
      BY <1>0, <2>5 DEF Attended, MayStart
    <2> QED
      BY <1>0, <1>1, <2>1, <2>3, <2>6, Became, Finished
  <1>2. CASE /\ ~run[r].external /\ r \in chosen'
             /\ \E t \in Resumed(Session, r) : Becomes(t)
    <2>1. PICK t \in Resumed(Session, r) : Becomes(t)
      BY <1>2
    <2>2. Step(Session, t, {r}) /\ Woken(t)
      BY <1>0, <1>2, ResumedRun
    <2> QED
      BY <1>0, <1>2, <2>1, <2>2, ResumedGood
  <1> QED
    BY <1>1, <1>2 DEF Resume

LEMMA ApproveGood == ASSUME InboxInv, NEW r \in Items, Approve(r) PROVE Good
  <1>0. /\ Shape(Session) /\ up = "up" /\ CallsOK' /\ finalizing' = finalizing
        /\ r \in chosen' /\ Session.run[r] = run[r] /\ run[r] \in RunRecord
    BY SessionFields DEF Approve, InboxInv, MemoryOK, CallsOK, Shape
  <1>1. CASE run[r].asked # 0
    <2> DEFINE x == [run[r] EXCEPT !.granted = run[r].granted \union {run[r].asked},
                                   !.asked = 0]
    <2>1. PICK g : g = Granted(Session, r)
      OBVIOUS
    <2>2. PICK t \in ApprovedResume(g, r) : Becomes(t)
      BY <1>1, <2>1 DEF Approve
    <2>3. /\ x \in RunRecord
          /\ x.status = run[r].status /\ x.external = run[r].external
          /\ x.attempt = run[r].attempt /\ run[r].granted \subseteq x.granted
          /\ x.retried = run[r].retried
      <3>1. /\ run[r].granted \union {run[r].asked} \in SUBSET Nat /\ 0 \in Nat
        BY <1>0 DEF RunRecord
      <3>2. x \in RunRecord
        BY <1>0, <3>1 DEF RunRecord
      <3>3. /\ x.status = run[r].status /\ x.external = run[r].external
            /\ x.attempt = run[r].attempt /\ run[r].granted \subseteq x.granted
            /\ x.retried = run[r].retried
        BY <1>0 DEF RunRecord
      <3> QED
        BY <3>2, <3>3
    <2>4. g = WithRun(Session, r, x)
      BY <1>0, <2>1 DEF Granted, WithRun, Session, Shape, RunRecord
    <2> HIDE DEF x
    <2>5. /\ OnlyRun(Session, g, r) /\ g.run[r] = x
          /\ g.kicks = Session.kicks /\ g.stalled = Session.stalled
      BY <1>0, <2>3, <2>4, RunWritten
    <2>6. Step(Session, g, {}) /\ Quiet(Session, g) /\ Shape(g)
      <3>1. /\ Step(Session, g, {})
            /\ Idle(g) => Idle(Session)
        BY <1>0, <2>3, <2>5, ApprovalsOnly
      <3> QED
        BY <2>5, <3>1 DEF Quiet, OnlyRun
    <2>7. CASE t = g
      <3>1. Attended(t) /\ MayStart({})
        BY <1>0, <2>6, <2>7 DEF Attended, MayStart
      <3> QED
        BY <1>0, <2>2, <2>6, <2>7, <3>1, Became, Finished
    <2>8. CASE t \in Resumed(g, r) /\ g.run[r].attempt + 1 \in g.run[r].granted
      <3>1. Step(g, t, {r}) /\ Woken(t)
        BY <2>6, <2>8, ResumedRun
      <3>2. Step(Session, t, {r})
        BY <2>6, <3>1, StepTwice
      <3> QED
        BY <1>0, <2>2, <3>1, <3>2, ResumedGood
    <2> QED
      BY <2>2, <2>7, <2>8 DEF ApprovedResume
  <1>2. CASE run[r].asked = 0
    <2>1. PICK t \in ApprovedResume(Session, r) \ {Session} : Becomes(t)
      BY <1>2 DEF Approve
    <2>2. t \in Resumed(Session, r) /\ Session.run[r].attempt + 1 \in Session.run[r].granted
      BY <2>1 DEF ApprovedResume
    <2>3. Step(Session, t, {r}) /\ Woken(t)
      BY <1>0, <2>2, ResumedRun
    <2> QED
      BY <1>0, <2>1, <2>3, ResumedGood
  <1> QED
    BY <1>1, <1>2

LEMMA RejectGood == ASSUME InboxInv, NEW r \in Items, Reject(r) PROVE Good
  <1> DEFINE x == [run[r] EXCEPT !.asked = 0]
  <1>0. /\ Shape(Session) /\ CallsOK' /\ finalizing' = finalizing /\ up' = up
        /\ Session.run[r] = run[r] /\ run[r] \in RunRecord
    BY SessionFields DEF Reject, InboxInv, MemoryOK, CallsOK, Shape
  <1>1. PICK t : t = WithRun(Session, r, x)
    OBVIOUS
  <1>2. Becomes(t)
    BY <1>1, SessionFields DEF Reject, WithRun
  <1>3. /\ x \in RunRecord
        /\ x.status = run[r].status /\ x.external = run[r].external
        /\ x.attempt = run[r].attempt /\ run[r].granted \subseteq x.granted
        /\ x.retried = run[r].retried
    BY <1>0 DEF RunRecord
  <1> HIDE DEF x
  <1>4. /\ OnlyRun(Session, t, r) /\ t.run[r] = x
        /\ t.kicks = Session.kicks /\ t.stalled = Session.stalled
    BY <1>0, <1>1, <1>3, RunWritten
  <1>5. /\ Step(Session, t, {})
        /\ Idle(t) => Idle(Session)
    BY <1>0, <1>3, <1>4, ApprovalsOnly
  <1>6. Attended(t) /\ MayStart({})
    BY <1>0, <1>4, <1>5 DEF Attended, MayStart, Quiet
  <1> QED
    BY <1>0, <1>2, <1>5, <1>6, Became, Finished

LEMMA SubmitInputGood == ASSUME InboxInv, NEW r \in Items, SubmitInput(r) PROVE Good
  <1>0. /\ Shape(Session) /\ up = "up" /\ CallsOK' /\ "answered" \in RunStatus
        /\ Session.run[r].external = run[r].external
    BY SessionFields DEF SubmitInput, CanResume, InboxInv, MemoryOK, CallsOK, RunStatus
  <1>1. CASE Becomes(Undispatched(Paused(Session, r)))
    <2>1. PICK t : t = Paused(Session, r)
      OBVIOUS
    <2>2. OnlyRun(Session, t, r) /\ t.run[r].status = "blocked"
      BY <1>0, <2>1, PausedRun
    <2>3. Step(Session, t, {})
      BY <1>0, <2>2, StoppedRun DEF ActiveStatus
    <2>4. Step(Session, Undispatched(t), {}) /\ Woken(Undispatched(t))
      BY <2>3, UndispatchedStep
    <2>5. Attended(Undispatched(t)) /\ MayStart({})
      BY <2>4 DEF Attended, MayStart
    <2> QED
      BY <1>0, <1>1, <2>1, <2>4, <2>5, Became, Finished
  <1>2. CASE Becomes([Session EXCEPT !.run[r].status = "answered"])
    <2>1. PICK t : t = WithStatus(Session, r, "answered")
      OBVIOUS
    <2>2. Becomes(t)
      BY <1>2, <2>1 DEF WithStatus
    <2>3. /\ OnlyRun(Session, t, r) /\ t.run[r].status = "answered"
          /\ t.run[r] = [Session.run[r] EXCEPT !.status = "answered"]
      BY <1>0, <2>1, StatusOnly
    <2>4. Step(Session, t, {}) /\ Holds(t, r)
      BY <1>0, <2>3, StoppedRun DEF ActiveStatus, Holds
    <2>5. Woken(t)
      BY <2>3, <2>4, HeldRun
    <2>6. Attended(t) /\ MayStart({})
      BY <2>5 DEF Attended, MayStart
    <2> QED
      BY <1>0, <2>2, <2>4, <2>6, Became, Finished
  <1>3. CASE /\ ~run[r].external /\ r \in chosen'
             /\ \E t \in Resumed(Session, r) : Becomes(t)
    <2>1. PICK t \in Resumed(Session, r) : Becomes(t)
      BY <1>3
    <2>2. Step(Session, t, {r}) /\ Woken(t)
      BY <1>0, <1>3, ResumedRun
    <2> QED
      BY <1>0, <1>3, <2>1, <2>2, ResumedGood
  <1> QED
    BY <1>1, <1>2, <1>3 DEF SubmitInput

-----------------------------------------------------------------------------
\* Shutdown, crash and startup

LEMMA CloseGood == ASSUME InboxInv, Close PROVE Good
  <1>1. /\ UNCHANGED <<item, run, order, kicks, stalled, edit, calls, finalizing>>
        /\ up' # "up"
    BY DEF Close, memory
  <1> QED
    BY <1>1, Untouched DEF InboxInv, MemoryOK, CallsOK

LEMMA DownGood == ASSUME InboxInv, Down PROVE Good
  <1> DEFINE t == [Session EXCEPT !.kicks = 0]
  <1>0. /\ Shape(Session) /\ up' # "up" /\ edit' \in Edit \union {None}
        /\ CallsOK'
    <2>1. calls' = [c \in Callers |-> None] /\ finalizing' = {} /\ edit' = None /\ up' # "up"
      BY DEF Down
    <2>2. CallsOK'
      BY <2>1 DEF CallsOK
    <2> QED
      BY <2>1, <2>2 DEF InboxInv
  <1>1. /\ Tables \subseteq DOMAIN t /\ t.item = Session.item /\ t.run = Session.run
        /\ t.order = Session.order /\ t.stalled = Session.stalled /\ t.kicks = 0
    BY SessionFields DEF Tables
  <1> HIDE DEF t
  <1>2. Step(Session, t, {})
    BY <1>0, <1>1 DEF Step, Shape, Frozen, Approved, Running
  <1>3. Becoming(t)
    BY <1>1, SessionFields DEF Down, Becoming
  <1>4. Attended(t) /\ MayStart({})
    BY <1>0 DEF Attended, MayStart
  <1> QED
    BY <1>0, <1>2, <1>3, <1>4, Finished

\* initialize: no TaskRun runs after it, whatever could be proved harmless.
LEMMA InterruptedRuns ==
    ASSUME NEW safe, run \in [Items -> RunRecord]
    PROVE  /\ Interrupted(safe) \in [Items -> RunRecord]
           /\ \A r \in Items : Interrupted(safe)[r].status \notin ActiveStatus
  <1>1. ASSUME NEW r \in Items
        PROVE  /\ Interrupted(safe)[r] \in RunRecord
               /\ Interrupted(safe)[r].status \notin ActiveStatus
    <2> DEFINE st == IF run[r].status \in {"preparing", "running"}
                     THEN "interrupted" ELSE run[r].status
    <2>1. run[r] \in RunRecord
      OBVIOUS
    <2>2. st \in RunStatus /\ st \notin ActiveStatus
      BY <2>1 DEF RunRecord, RunStatus, ActiveStatus
    <2>3. Interrupted(safe)[r] =
            IF st = "interrupted" /\ r \in safe
            THEN [run[r] EXCEPT !.status = "blocked", !.continuation = TRUE]
            ELSE [run[r] EXCEPT !.status = st]
      BY DEF Interrupted
    <2> HIDE DEF st
    <2>4. CASE st = "interrupted" /\ r \in safe
      <3>1. Interrupted(safe)[r] =
              [run[r] EXCEPT !.status = "blocked", !.continuation = TRUE]
        BY <2>3, <2>4
      <3> QED
        BY <2>1, <3>1 DEF RunRecord, RunStatus, ActiveStatus
    <2>5. CASE ~(st = "interrupted" /\ r \in safe)
      <3>1. Interrupted(safe)[r] = [run[r] EXCEPT !.status = st]
        BY <2>3, <2>5
      <3> QED
        BY <2>1, <2>2, <3>1 DEF RunRecord
    <2> QED
      BY <2>4, <2>5
  <1>2. Interrupted(safe) = [r \in Items |-> Interrupted(safe)[r]]
    BY DEF Interrupted
  <1> DEFINE f == Interrupted(safe)
  <1> HIDE DEF f
  <1>3. f \in [Items -> RunRecord]
    BY <1>1, <1>2 DEF f
  <1> QED
    BY <1>1, <1>3 DEF f

LEMMA StartupGood == ASSUME InboxInv, Startup PROVE Good
  <1>0. /\ Shape(Session) /\ up = "down" /\ CallsOK' /\ run \in [Items -> RunRecord]
    BY SessionFields DEF Startup, InboxInv, MemoryOK, CallsOK, Shape
  <1>1. PICK safe \in SUBSET {r \in Items : ~run[r].external /\ ~Undecided(r)} :
           LET t == [Session EXCEPT !.run = Interrupted(safe), !.stalled = FALSE]
           IN  \E s \in IF Held(t) \/ Pending(t) = {} THEN {t}
                        ELSE UNION {Started(t, i) : i \in Firsts(t)} :
                   Becomes(s)
    BY DEF Startup
  <1>2. PICK t : t = [Session EXCEPT !.run = Interrupted(safe), !.stalled = FALSE]
    OBVIOUS
  <1>3. PICK s : /\ \/ s = t /\ (Held(t) \/ Pending(t) = {})
                    \/ \E i \in Firsts(t) : s \in Started(t, i)
                 /\ Becomes(s)
    BY <1>1, <1>2
  <1>4. /\ Tables \subseteq DOMAIN t /\ t.item = Session.item /\ t.run = Interrupted(safe)
        /\ t.order = Session.order /\ t.stalled = FALSE /\ t.kicks = Session.kicks
    BY <1>2, SessionFields DEF Tables
  <1>5. /\ t.run \in [Items -> RunRecord]
        /\ \A r \in Items : t.run[r].status \notin ActiveStatus
    BY <1>0, <1>4, InterruptedRuns
  <1>6. Shape(t)
    BY <1>0, <1>4, <1>5 DEF Shape
  <1>7. Step(Session, t, {})
    BY <1>4, <1>5, <1>6 DEF Step, Frozen, Approved, Running, ActiveStatus
  <1>8. CASE s = t /\ (Held(t) \/ Pending(t) = {})
    <2>1. Attended(s) /\ MayStart({})
      BY <1>8 DEF Attended, MayStart, Woken, Idle
    <2> QED
      BY <1>0, <1>3, <1>7, <1>8, <2>1, Became, Finished
  <1>9. CASE \E i \in Firsts(t) : s \in Started(t, i)
    <2>1. PICK i \in Firsts(t) : s \in Started(t, i)
      BY <1>9
    <2>2. i \in Items /\ t.item[i].status = "queued"
      BY DEF Firsts, Pending, Queued
    <2>3. Step(t, s, {i}) /\ Woken(s)
      BY <1>6, <2>1, <2>2, StartedItem
    <2>4. Step(Session, s, {i})
      BY <1>7, <2>3, StepTwice
    <2>5. Attended(s) /\ MayStart({i})
      BY <1>0, <2>3 DEF Attended, MayStart
    <2> QED
      BY <1>0, <1>3, <2>4, <2>5, Became, Finished
  <1> QED
    BY <1>3, <1>8, <1>9

-----------------------------------------------------------------------------
\* The theorems

LEMMA InboxInit == ASSUME Init PROVE InboxInv
  <1>1. PICK used \in Scenarios :
          item = [i \in Items |->
                     IF i \in used THEN NoItem ELSE [NoItem EXCEPT !.status = "unused"]]
    BY DEF Init
  <1>2. /\ DOMAIN item = Items
        /\ \A i \in Items : ItemFields \subseteq DOMAIN item[i] /\ item[i].status # "queued"
    BY <1>1 DEF NoItem, ItemFields
  <1>3. NoRun \in RunRecord /\ NoRun.status = "none"
    BY DEF NoRun, RunRecord, RunStatus
  <1>4. run \in [Items -> RunRecord] /\ \A r \in Items : run[r].status = "none"
    BY <1>3 DEF Init
  <1>5. order \in Seq(Items) /\ kicks \in Nat /\ stalled \in BOOLEAN
    <2>1. order = << >> /\ kicks = 0 /\ stalled = FALSE
      BY DEF Init
    <2>2. << >> \in Seq(Items)
      OBVIOUS
    <2>3. FALSE \in BOOLEAN /\ 0 \in Nat
      OBVIOUS
    <2> QED
      BY <2>1, <2>2, <2>3, Zenon
  <1>6. Shape(Session)
    BY <1>2, <1>4, <1>5, SessionFields DEF Shape
  <1>7. Approved(Session)
    BY <1>4, SessionFields DEF Approved, ActiveStatus
  <1>8. MemoryOK
    BY DEF Init, MemoryOK, CallsOK
  <1>9. NoIdleBacklog
    BY <1>2, SessionFields DEF NoIdleBacklog, Pending, Queued
  <1> QED
    BY <1>6, <1>7, <1>8, <1>9 DEF InboxInv

LEMMA InboxNext == ASSUME InboxInv, [Next]_vars PROVE Good
  <1>1. CASE Admission
    <2>1. Requests \subseteq Items /\ Roadmap \subseteq Items
      BY DEF Items
    <2> QED
      BY <1>1, <2>1, SubmitGood, RoutedGood, RoadmapGood DEF Admission
  <1>2. CASE Operator
    BY <1>2, FinishEditGood, BeginEditGood, ReorderGood, DeleteGood, DecideGood,
       MergeGood, StartNowGood, ParallelGood, ApproveParallelGood, RetryGood DEF Operator
  <1>3. CASE Attempt
    BY <1>3, ContextReadyGood, ToolGood, CancelGood, SettleGood, FinalizeGood, TimerGood,
       ReadjudicatedGood, ResumeGood, ApproveGood, RejectGood, SubmitInputGood DEF Attempt
  <1>4. CASE Process
    BY <1>4, KickGood, CloseGood, DownGood, StartupGood DEF Process
  <1>5. CASE UNCHANGED vars
    <2>1. UNCHANGED <<up, item, run, order, kicks, stalled, edit, calls, finalizing>>
      BY <1>5 DEF vars, memory
    <2> QED
      BY <2>1, Untouched DEF InboxInv, MemoryOK, CallsOK
  <1> QED
    BY <1>1, <1>2, <1>3, <1>4, <1>5 DEF Next

LEMMA InboxInvariant == Spec => []InboxInv
  <1>1. Init => InboxInv
    BY InboxInit
  <1>2. InboxInv /\ [Next]_vars => InboxInv'
    BY InboxNext DEF Good
  <1> QED
    BY <1>1, <1>2, PTL DEF Spec

\* No lost wakeup: the queue of an idle Session that is up has a dispatch
\* coming, or one of the operations that never dispatch let it go.
THEOREM QueueIsServed == Spec => []NoIdleBacklog
  <1>1. InboxInv => NoIdleBacklog
    BY DEF InboxInv
  <1> QED
    BY <1>1, InboxInvariant, PTL

\* Whatever began the Attempt of an external action, a person approved this
\* very Attempt, unless it is the retry of a TaskRun that only a tool made one.
THEOREM ExternalActionsAreApproved == Spec => []ExternalAwaitsApproval
  <1>1. InboxInv => ExternalAwaitsApproval
    BY SessionFields DEF InboxInv, Approved, MayRun, ExternalAwaitsApproval, Running, ActiveStatus
  <1> QED
    BY <1>1, InboxInvariant, PTL

\* A TaskRun starts alone, or beside another one because a person chose it.
THEOREM TaskRunsStartAlone == Spec => StartsAlone
  <1>1. InboxInv /\ [Next]_vars => [AloneStep]_vars
    BY InboxNext DEF Good
  <1>2. InboxInv /\ [Next]_vars =>
          [LET started == Running(Session)' \ Running(Session)
               beside  == IF up = "down" THEN {} ELSE Running(Session)
           IN  /\ Cardinality(started) <= 1
               /\ beside # {} => started \subseteq chosen']_vars
    BY <1>1 DEF AloneStep
  <1> QED
    BY <1>2, InboxInvariant, PTL DEF Spec, StartsAlone

\* An item that left the queue is never written again.
THEOREM SettledItemsStay == Spec => SettledItemFrozen
  <1>1. InboxInv /\ [Next]_vars =>
          [\A i \in Items : item[i].status \in {"started", "routed", "deleted"} =>
               item'[i] = item[i]]_vars
    BY InboxNext DEF Good, FrozenStep
  <1> QED
    BY <1>1, InboxInvariant, PTL DEF Spec, SettledItemFrozen

=============================================================================
