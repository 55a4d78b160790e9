--------------------------- MODULE HostActivation ---------------------------
(***************************************************************************)
(* The stable Core Host: it supervises one replaceable Generation process, *)
(* restarts it after a crash, and moves the installation to another        *)
(* release when the Generation asks for it (apps/core-service/src/host.ts  *)
(* with host-generation-session.ts, host-state-store.ts,                   *)
(* host-release-registry.ts, and the Generation's side of the protocol in  *)
(* generation-maintenance-coordinator.ts and                               *)
(* managed-generation-adapter.ts).                                         *)
(*                                                                         *)
(* The Host is one event loop.  An action is a synchronous segment between *)
(* two awaits, or an event: an exit, a message, a timer.  A task that      *)
(* awaits a write of activation.json keeps the state object it passed to   *)
(* the store; the rename and the continuation are one action.              *)
(***************************************************************************)
EXTENDS Naturals, Sequences, FiniteSets

CONSTANTS
    Releases,        \* installed immutable releases
    FirstRelease,    \* the release `current` names at installation
    MaxRequests,     \* activation requests the Generations make
    MaxCrashes,      \* CoreHostOptions.maxCrashes
    MaxFaults,       \* failures of processes and of the file system
    MaxEvents,       \* requests, failures and an early activation together
    MaxHostStarts    \* lives of the Host process

ASSUME HostAssumption ==
    /\ FirstRelease \in Releases
    /\ MaxRequests \in Nat /\ MaxFaults \in Nat /\ MaxEvents \in Nat
    /\ MaxCrashes \in Nat \ {0} /\ MaxHostStarts \in Nat \ {0}

VARIABLES
    current,    \* the `current` link
    file,       \* activation.json
    reqs,       \* the activation operations and their terminal events
    lastFence,  \* the fence of the writer lease
    gens,       \* every Generation process ever forked, in fork order
    phase,      \* the Host process: "down", "up", "closed"
    stopped,    \* CoreHost.stopped
    active,     \* CoreHost.active, 0 if undefined
    deadline,   \* the session the heartbeat deadline is armed for, or 0
    state,      \* CoreHost.state
    start,      \* the task of start()
    act,        \* the activation task
    restart,    \* restartTask
    exits,      \* calls of unexpectedExit that record their crash
    closing,    \* the task of close()
    faults,     \* failures so far
    starts,     \* lives of the Host so far
    early       \* an activation began before startRelease had resumed

disk     == <<current, file>>
database == <<reqs, lastFence>>
tasks    == <<start, act, restart, exits, closing>>
bounds   == <<faults, starts>>
hostVars == <<disk, database, early, gens, phase, stopped, active, deadline,
              state, tasks, bounds>>

-----------------------------------------------------------------------------
(* Records.                                                                 *)

Requests == 1..MaxRequests

Terminal == {"committed", "rolled_back", "failed"}
Phases   == Terminal \cup {"none", "validating", "draining", "starting"}

\* The statuses of an answer.  "identity_conflict" is the status failed with the
\* one error text that is not the text of the activation record: the terminal
\* event holds the error, so the two are different events.
Statuses == {"succeeded", "rolled_back", "failed", "blocked",
             "identity_conflict"}

\* CoreHostActivationState and CoreHostDurableState.  Timestamps are a count of
\* the crashes inside the window; a crash may leave it whenever it is read.
ActivationState == [q : 0..MaxRequests, prev : Releases, target : Releases,
                    phase : Phases]
HostState == [activation : ActivationState, crashes : 0..(MaxCrashes + 1)]

NoActivation == [q |-> 0, prev |-> FirstRelease, target |-> FirstRelease,
                 phase |-> "none"]
InitialState == [activation |-> NoActivation, crashes |-> 0]

Result == [q : Requests, status : Statuses, release : Releases]

\* One maintenance.activate_generation operation: its durable parameters, and
\* its terminal event once there is one.
Request == [stage : {"none", "pending", "settled"},
            expected : Releases, target : Releases,
            status : Statuses \cup {"none"}, release : Releases]
Unrequested == [stage |-> "none", expected |-> FirstRelease,
                target |-> FirstRelease, status |-> "none",
                release |-> FirstRelease]

\* A GenerationSession and its child process.  env is the activation request
\* the child was started for, out the request it has dispatched and not seen
\* answered, act an ACTIVATE on its way, results the answers on their way.
\* fence is the writer fence of its READY message, 0 before it.
Generation == [release : Releases,
               stage : {"spawned", "locked", "ready", "dead"},
               hung : BOOLEAN, killed : BOOLEAN, orphan : BOOLEAN,
               managed : BOOLEAN, reported : BOOLEAN, fence : Nat,
               env : 0..MaxRequests, out : 0..MaxRequests,
               act : 0..MaxRequests, results : SUBSET Result]

Gens     == DOMAIN gens
Alive(s) == gens[s].stage # "dead"
Gone(s)  == s # 0 => gens[s].stage = "dead"

Pending  == {q \in Requests : reqs[q].stage = "pending"}

-----------------------------------------------------------------------------
(* Processes and sessions.                                                  *)

\* new GenerationSession: the child is Host-owned before it is ready.
Spawned(release, env) ==
    Append(gens, [release |-> release, stage |-> "spawned", hung |-> FALSE,
                  killed |-> FALSE, orphan |-> FALSE, managed |-> TRUE,
                  reported |-> FALSE, fence |-> 0, env |-> env, out |-> env,
                  act |-> 0, results |-> {}])

NewGen == Len(gens) + 1

\* finishExit in the session table g: what a dead process leaves behind.
Exited(g, s) ==
    [g EXCEPT ![s].stage = "dead", ![s].hung = FALSE, ![s].killed = FALSE,
              ![s].orphan = FALSE, ![s].out = 0, ![s].act = 0,
              ![s].results = {}]

\* send of an ACTIVATION_RESULT; lost when the child has exited.
Sent(g, s, q, status, release) ==
    IF g[s].stage = "dead" THEN g
    ELSE [g EXCEPT ![s].results =
             @ \cup {[q |-> q, status |-> status, release |-> release]}]

\* How many of c recorded crashes are still inside the window.  It is far longer
\* than a process survives its parent, and than the restarts take that an early
\* activation runs beside.
Recent(c) == IF early \/ \E s \in Gens : gens[s].orphan THEN {c} ELSE {0, c}

\* recordCrash: the n crashes still inside the window, and this one.  More than
\* MaxCrashes is one value.
Crashed(n) ==
    [state EXCEPT !.crashes = IF n > MaxCrashes THEN n ELSE n + 1]

\* reportUnexpectedExitIfNeeded for an unmanaged session that has exited, in
\* the table g: unexpectedExit up to its first await.
ReportExit(g, s) ==
    IF ~stopped /\ active = s
    THEN /\ gens' = [g EXCEPT ![s].reported = TRUE]
         /\ active' = 0
         /\ deadline' = 0
         /\ \E n \in Recent(state.crashes) :
               /\ state' = Crashed(n)
               /\ exits' = exits \cup {[gen |-> s, snap |-> state']}
    ELSE /\ gens' = [g EXCEPT ![s].reported = TRUE]
         /\ UNCHANGED <<active, deadline, state, exits>>

\* Faulty variant: an exit that came before is not reported.
AllowRecoveryLater(g, s) ==
    /\ gens' = [g EXCEPT ![s].managed = FALSE]
    /\ UNCHANGED <<active, deadline, state, exits>>

\* allowUnexpectedExitRecovery in the table g.
AllowRecovery(g, s) ==
    LET h == [g EXCEPT ![s].managed = FALSE] IN
    IF g[s].stage = "dead" /\ ~g[s].reported
    THEN ReportExit(h, s)
    ELSE gens' = h /\ UNCHANGED <<active, deadline, state, exits>>

\* stopSession(s) when a is the active session: SIGTERM, then SIGKILL.  The
\* caller awaits Gone(s).
StopSession(s, a) ==
    /\ gens' = IF Gone(s) THEN gens
               ELSE [gens EXCEPT ![s].managed = TRUE, ![s].killed = TRUE]
    /\ active' = IF a = s THEN 0 ELSE a
    /\ deadline' = IF s # 0 /\ a = s THEN 0 ELSE deadline

\* A failure the environment may still produce.
Requested == {q \in Requests : reqs[q].stage # "none"}
Bounded ==
    faults + Cardinality(Requested) + (IF early THEN 1 ELSE 0) < MaxEvents
Fault == faults < MaxFaults /\ Bounded /\ faults' = faults + 1

\* writeState of the object snap: it is renamed into place, or an error is
\* thrown before or after the rename.
WriteLands(snap) == file' = snap /\ UNCHANGED faults
WriteFails(snap) == file' \in {file, snap} /\ Fault

IdleStart   == [pc |-> "idle", gen |-> 0, snap |-> InitialState]
IdleAct     == [pc |-> "idle", q |-> 0, old |-> 0, cand |-> 0, gen |-> 0,
                target |-> FirstRelease, snap |-> InitialState]
IdleRestart == [pc |-> "idle", dead |-> 0, gen |-> 0, snap |-> InitialState]
IdleClose   == [pc |-> "idle", gen |-> 0]

\* The sessions end with their Host: children that still run lose their parent,
\* and a request on its way is lost.
Orphaned ==
    [s \in Gens |-> [gens[s] EXCEPT !.orphan = Alive(s), !.act = 0,
                                    !.managed = TRUE, !.reported = FALSE]]

\* The Host process ends, in `fatal`, by a crash or after close().
HostEnds(p) ==
    /\ phase' = p
    /\ stopped' = FALSE /\ active' = 0 /\ deadline' = 0
    /\ state' = InitialState
    /\ start' = IdleStart /\ act' = IdleAct /\ restart' = IdleRestart
    /\ exits' = {} /\ closing' = IdleClose
    /\ gens' = Orphaned

Up == phase = "up"

-----------------------------------------------------------------------------
(* startRelease.  Three tasks await it: start, the activation (for the      *)
(* candidate and for the release rolled back to) and the restart.           *)

\* startRelease of session s has not resumed yet.
Settling(s) ==
    \/ start.pc = "starting" /\ start.gen = s
    \/ act.pc \in {"starting", "rbStarting"} /\ act.gen = s
    \/ restart.pc = "starting" /\ restart.gen = s

FenceOf(s) == IF s = 0 THEN 0 ELSE gens[s].fence
Larger(m, n) == IF m < n THEN n ELSE m

\* minimumWriterFence of the startRelease that waits for s.
MinimumFence(s) ==
    IF start.pc = "starting" /\ start.gen = s THEN 0
    ELSE IF restart.pc = "starting" /\ restart.gen = s
         THEN FenceOf(restart.dead)
         ELSE Larger(FenceOf(act.old), FenceOf(act.cand))

\* READY has arrived with an advanced fence, and one more turn of the event
\* loop has passed without an exit.
Readied(s) == gens[s].stage = "ready" /\ gens[s].fence > MinimumFence(s)

\* The readiness deadline passes, or the fence did not advance.
Unready(s) == IF gens[s].stage = "ready" THEN gens[s].fence <= MinimumFence(s)
              ELSE gens[s].hung

\* The catch of startRelease: SIGKILL.  The task that awaits startRelease
\* continues when the child has exited.
RefuseReady(s) ==
    /\ Up /\ Settling(s) /\ Alive(s) /\ ~gens[s].killed /\ Unready(s)
    /\ gens' = [gens EXCEPT ![s].managed = TRUE, ![s].killed = TRUE]
    /\ UNCHANGED <<disk, database, early, phase, stopped, active, deadline,
                   state, tasks, bounds>>

\* The active session once startRelease of s has thrown.
ActiveWithout(s) == IF active = s THEN 0 ELSE active

\* Faulty variant: a release is forked whether or not the Host was closed.
MayForkAlways == TRUE

\* The stopped boundary is checked again before every fork of a task.
MayFork == ~stopped

-----------------------------------------------------------------------------
(* start().                                                                 *)

\* systemd starts the Host: it reads its state, refuses to start beyond the
\* crash budget, resolves and verifies `current`, and forks the Generation with
\* the identity of the latest activation.
HostStart ==
    /\ phase # "up" /\ starts < MaxHostStarts
    /\ starts' = starts + 1
    /\ \E n \in Recent(file.crashes) :
          IF n > MaxCrashes
          THEN /\ phase' = "down"
               /\ UNCHANGED <<file, gens, active, state, start, faults>>
          ELSE /\ file' = [file EXCEPT !.crashes = n]
               /\ \/ /\ phase' = "up"
                     /\ state' = file'
                     /\ gens' = Spawned(current, file.activation.q)
                     /\ active' = NewGen
                     /\ start' = [IdleStart EXCEPT !.pc = "starting",
                                                   !.gen = NewGen]
                     /\ UNCHANGED faults
                  \/ /\ Fault /\ phase' = "down"
                     /\ UNCHANGED <<gens, active, state, start>>
    /\ UNCHANGED <<current, database, early, stopped, deadline, act, restart,
                   exits, closing>>

StatusOf(a) == CASE a.phase = "committed"   -> "succeeded"
                 [] a.phase = "rolled_back" -> "rolled_back"
                 [] OTHER                   -> "failed"

\* Faulty variant: the release before the activation, whatever its phase.
ReleaseBefore(a) == a.prev

ReleaseOf(a) == IF a.phase = "committed" THEN a.target ELSE a.prev

\* The answer that the activation record a stands for, sent to session s.
Answered(g, s, a) == Sent(g, s, a.q, StatusOf(a), ReleaseOf(a))

\* The recovered activation, decided by the release that runs.
Reconciled(a, s) ==
    [a EXCEPT !.phase = IF gens[s].release = a.target THEN "committed"
                        ELSE "rolled_back"]

\* The Generation is ready: normal crash recovery begins, and
\* reconcileRecoveredActivation runs to its write or to its end.
StartReady ==
    LET s == start.gen
        g == [gens EXCEPT ![s].managed = FALSE] IN
    /\ Up /\ start.pc = "starting" /\ Readied(s)
    /\ deadline' = s
    /\ IF state.activation.phase \in Terminal \cup {"none"}
       THEN /\ gens' = IF state.activation.q = 0 THEN g
                       ELSE Answered(g, s, state.activation)
            /\ start' = IdleStart
            /\ UNCHANGED state
       ELSE /\ gens' = g
            /\ state' = [state EXCEPT !.activation = Reconciled(@, s)]
            /\ start' = [start EXCEPT !.pc = "reconciling", !.snap = state']
    /\ UNCHANGED <<disk, database, early, phase, stopped, active, act, restart,
                   exits, closing, bounds>>

\* The write of the reconciled activation; the state is read again after it.
StartReconciled ==
    /\ Up /\ start.pc = "reconciling"
    /\ WriteLands(start.snap)
    /\ gens' = Answered(gens, start.gen, state.activation)
    /\ start' = IdleStart
    /\ UNCHANGED <<current, database, early, phase, stopped, active, deadline,
                   state, act, restart, exits, closing, starts>>

\* The catch of start(): the Host stops and terminates its Generation.
StartThrows(a) ==
    /\ stopped' = TRUE
    /\ gens' = IF Gone(a) THEN gens
               ELSE [gens EXCEPT ![a].managed = TRUE, ![a].killed = TRUE]
    /\ active' = 0 /\ deadline' = 0
    /\ start' = [start EXCEPT !.pc = "stopping", !.gen = a]

StartFails ==
    /\ Up
    /\ \/ /\ start.pc = "starting" /\ Gone(start.gen)
          /\ StartThrows(ActiveWithout(start.gen))
          /\ UNCHANGED <<file, faults>>
       \/ /\ start.pc = "reconciling" /\ WriteFails(start.snap)
          /\ StartThrows(active)
    /\ UNCHANGED <<current, database, early, phase, state, act, restart, exits,
                   closing, starts>>

\* ... then records the crash, and the process ends whether or not this write
\* succeeds.
StartStopped ==
    /\ Up /\ start.pc = "stopping" /\ Gone(start.gen)
    /\ \/ \E n \in Recent(state.crashes) : WriteLands(Crashed(n))
       \/ Fault /\ UNCHANGED file
    /\ HostEnds("down")
    /\ UNCHANGED <<current, database, early, starts>>

-----------------------------------------------------------------------------
(* activate().                                                              *)

Previous == gens[act.old].release

\* activationState of the running activation.
Activation(target, ph) ==
    [q |-> act.q, prev |-> Previous, target |-> target, phase |-> ph]

\* The activation enters phase ph, and its task awaits the write.
Persist(target, ph, pc) ==
    /\ state' = [state EXCEPT !.activation = Activation(target, ph)]
    /\ act' = [act EXCEPT !.pc = pc, !.target = target, !.snap = state']

\* The catch of activate(), with active session a.  A stopped Host leaves the
\* durable phase alone; a Generation that was not stopped yet goes on serving;
\* otherwise the previous release is restored.
Caught(oldStopped, cand, a) ==
    IF stopped
    THEN /\ StopSession(cand, a)
         /\ act' = IF Gone(cand) THEN IdleAct
                   ELSE [act EXCEPT !.pc = "stopping", !.gen = cand]
         /\ UNCHANGED state
    ELSE IF ~oldStopped /\ a = act.old /\ Alive(act.old)
    THEN /\ Persist(act.target, "failed", "wFailed")
         /\ UNCHANGED <<gens, active, deadline>>
    ELSE /\ StopSession(cand, a)
         /\ act' = [act EXCEPT !.pc = "rbVerify", !.cand = cand]
         /\ UNCHANGED state

\* The identity of a request that repeats the recorded one must be the same.
SameIdentity(q) ==
    /\ state.activation.prev = reqs[q].expected
    /\ state.activation.target = reqs[q].target

\* replayActivationResult: no answer while the activation is in progress.
Replayed(g, s, q) ==
    IF ~SameIdentity(q) THEN Sent(g, s, q, "identity_conflict", g[s].release)
    ELSE IF state.activation.phase \notin Terminal THEN g
    ELSE Answered(g, s, state.activation)

\* Faulty variant: the exit of the session is still recovered by a restart.
OwnedLater(g, s) == g

\* The activation owns the exit path of the Generation that asked for it.
Owned(g, s) == [g EXCEPT ![s].managed = TRUE]

\* An activation would begin between READY of its session and the turn of the
\* event loop in which startRelease resumes: a restarted Generation sends READY
\* and ACTIVATE together.
BeginsEarly(s) ==
    /\ Settling(s) /\ ~stopped /\ active = s
    /\ state.activation.q # gens[s].act /\ act.pc = "idle"

\* ACTIVATE arrives: activate() up to its first await, or to the failure of a
\* request made under another release.  It may come before startRelease resumes;
\* MaxEvents bounds that as it bounds the failures.
Receive(s) ==
    LET q == gens[s].act
        g == [gens EXCEPT ![s].act = 0]
        begun == [IdleAct EXCEPT !.pc = "resolving", !.q = q, !.old = s,
                                 !.target = g[s].release] IN
    /\ Up /\ Alive(s) /\ ~gens[s].orphan /\ q # 0
    /\ BeginsEarly(s) => Bounded
    /\ IF stopped \/ active # s
       THEN gens' = g /\ UNCHANGED <<act, state>>
       ELSE IF state.activation.q = q
       THEN gens' = Replayed(g, s, q) /\ UNCHANGED <<act, state>>
       ELSE IF act.pc # "idle"
       THEN /\ gens' = Sent(g, s, q, "blocked", g[s].release)
            /\ UNCHANGED <<act, state>>
       ELSE /\ gens' = Owned(g, s)
            /\ IF reqs[q].expected = g[s].release
               THEN act' = begun /\ UNCHANGED state
               ELSE /\ state' = [state EXCEPT !.activation =
                          [q |-> q, prev |-> g[s].release,
                           target |-> g[s].release, phase |-> "failed"]]
                    /\ act' = [begun EXCEPT !.pc = "wFailed", !.snap = state']
    /\ early' = (early \/ BeginsEarly(s))
    /\ UNCHANGED <<disk, database, phase, stopped, active, deadline, start,
                   restart, exits, closing, bounds>>

\* resolveTarget.
ActResolved ==
    /\ Up /\ act.pc = "resolving"
    /\ \/ /\ Persist(reqs[act.q].target, "validating", "wValidating")
          /\ UNCHANGED <<gens, active, deadline, faults>>
       \/ Fault /\ Caught(FALSE, 0, active)
    /\ UNCHANGED <<disk, database, early, phase, stopped, start, restart, exits,
                   closing, starts>>

\* A write lands in a later turn of the event loop than the one that began it:
\* a startRelease that has yet to resume comes first.
ActValidating ==
    /\ Up /\ act.pc = "wValidating" /\ ~Settling(act.old)
    /\ \/ /\ WriteLands(act.snap)
          /\ act' = [act EXCEPT !.pc = "verifying"]
          /\ UNCHANGED <<gens, active, deadline, state>>
       \/ WriteFails(act.snap) /\ Caught(FALSE, 0, active)
    /\ UNCHANGED <<current, database, early, phase, stopped, start, restart,
                   exits, closing, starts>>

\* The target is verified with the trusted verifier of the Host.
ActVerified ==
    /\ Up /\ act.pc = "verifying"
    /\ \/ /\ ~stopped
          /\ Persist(act.target, "draining", "wDraining")
          /\ UNCHANGED <<gens, active, deadline, faults>>
       \/ stopped /\ Caught(FALSE, 0, active) /\ UNCHANGED faults
       \/ Fault /\ Caught(FALSE, 0, active)
    /\ UNCHANGED <<disk, database, early, phase, stopped, start, restart, exits,
                   closing, starts>>

\* drain(): the drain deadline replaces the heartbeat deadline, and ends in
\* SIGTERM and SIGKILL.
ActDraining ==
    /\ Up /\ act.pc = "wDraining"
    /\ \/ /\ WriteLands(act.snap)
          /\ gens' = IF Gone(act.old) THEN gens
                     ELSE [gens EXCEPT ![act.old].managed = TRUE,
                                       ![act.old].killed = TRUE]
          /\ deadline' = 0
          /\ act' = [act EXCEPT !.pc = "draining"]
          /\ UNCHANGED <<active, state>>
       \/ WriteFails(act.snap) /\ Caught(FALSE, 0, active)
    /\ UNCHANGED <<current, database, early, phase, stopped, start, restart,
                   exits, closing, starts>>

\* The exit of the old Generation is the exclusive-writer barrier.
ActDrained ==
    /\ Up /\ act.pc = "draining" /\ Gone(act.old)
    /\ active' = ActiveWithout(act.old)
    /\ deadline' = IF active = act.old THEN 0 ELSE deadline
    /\ IF stopped THEN act' = IdleAct /\ UNCHANGED state
       ELSE Persist(act.target, "starting", "wStarting")
    /\ UNCHANGED <<disk, database, early, gens, phase, stopped, start, restart,
                   exits, closing, bounds>>

\* The release is forked for the activation, which awaits it at pc.
Fork(release, pc) ==
    /\ gens' = Spawned(release, act.q)
    /\ active' = NewGen
    /\ act' = [act EXCEPT !.pc = pc, !.gen = NewGen]

ActStarting ==
    /\ Up /\ act.pc = "wStarting"
    /\ \/ /\ WriteLands(act.snap)
          /\ IF MayFork THEN Fork(act.target, "starting")
             ELSE act' = IdleAct /\ UNCHANGED <<gens, active>>
          /\ UNCHANGED <<deadline, state>>
       \/ WriteFails(act.snap) /\ Caught(TRUE, 0, active)
    /\ UNCHANGED <<current, database, early, phase, stopped, start, restart,
                   exits, closing, starts>>

\* The candidate is ready, and must now live through the stabilization window.
ActStarted ==
    /\ Up /\ act.pc = "starting"
    /\ \/ /\ Readied(act.gen)
          /\ deadline' = act.gen
          /\ act' = [act EXCEPT !.pc = "stabilizing", !.cand = act.gen]
          /\ UNCHANGED <<gens, active, state>>
       \/ Gone(act.gen) /\ Caught(TRUE, 0, ActiveWithout(act.gen))
    /\ UNCHANGED <<disk, database, early, phase, stopped, start, restart, exits,
                   closing, bounds>>

\* The window has passed, or the exit of the candidate was observed.  A restart
\* of the same release has nothing to commit.
ActStable ==
    /\ Up /\ act.pc = "stabilizing"
    /\ IF stopped \/ Gone(act.cand)
       THEN Caught(TRUE, act.cand, active)
       ELSE /\ IF act.target = Previous
               THEN Persist(act.target, "committed", "wCommitted")
               ELSE /\ act' = [act EXCEPT !.pc = "committing"]
                    /\ UNCHANGED state
            /\ UNCHANGED <<gens, active, deadline>>
    /\ UNCHANGED <<disk, database, early, phase, stopped, start, restart, exits,
                   closing, bounds>>

\* releaseRegistry.commit: `current` is replaced; an error may come before or
\* after the rename.
ActCommitting ==
    /\ Up /\ act.pc = "committing"
    /\ \/ /\ current' = act.target
          /\ UNCHANGED faults
          /\ IF stopped
             THEN act' = IdleAct /\ UNCHANGED <<gens, active, deadline, state>>
             ELSE IF Gone(act.cand) THEN Caught(TRUE, act.cand, active)
             ELSE /\ Persist(act.target, "committed", "wCommitted")
                  /\ UNCHANGED <<gens, active, deadline>>
       \/ /\ current' \in {current, act.target}
          /\ Fault
          /\ Caught(TRUE, act.cand, active)
    /\ UNCHANGED <<file, database, early, phase, stopped, start, restart, exits,
                   closing, starts>>

ActCommitted ==
    /\ Up /\ act.pc = "wCommitted"
    /\ \/ /\ WriteLands(act.snap)
          /\ IF Gone(act.cand) THEN Caught(TRUE, act.cand, active)
             ELSE /\ gens' = Sent([gens EXCEPT ![act.cand].managed = FALSE],
                                  act.cand, act.q, "succeeded", act.target)
                  /\ act' = IdleAct
                  /\ UNCHANGED <<active, deadline, state>>
       \/ WriteFails(act.snap) /\ Caught(TRUE, act.cand, active)
    /\ UNCHANGED <<current, database, early, phase, stopped, start, restart,
                   exits, closing, starts>>

\* The activation failed before the drain: the Generation is answered and
\* supervised as before.  Without the durable failure the Host stops.
ActFailed ==
    /\ Up /\ act.pc = "wFailed" /\ ~Settling(act.old)
    /\ \/ /\ WriteLands(act.snap)
          /\ AllowRecovery(Sent(gens, act.old, act.q, "failed", Previous),
                           act.old)
          /\ act' = IdleAct
          /\ UNCHANGED stopped
       \/ /\ WriteFails(act.snap)
          /\ stopped' = TRUE
          /\ StopSession(act.old, active)
          /\ act' = [act EXCEPT !.pc = "fatal", !.gen = act.old]
          /\ UNCHANGED <<state, exits>>
    /\ UNCHANGED <<current, database, early, phase, start, restart, closing,
                   starts>>

-----------------------------------------------------------------------------
(* rollback().                                                              *)

\* The catch of rollback(), with active session a.
RollbackThrows(a) ==
    /\ active' = a
    /\ IF stopped THEN act' = IdleAct /\ UNCHANGED state
       ELSE Persist(reqs[act.q].target, "failed", "wRollbackFailed")

\* The candidate is gone and the previous release is verified.
RollbackVerified ==
    /\ Up /\ act.pc = "rbVerify" /\ Gone(act.cand)
    /\ \/ /\ act' = IF stopped THEN IdleAct
                    ELSE [act EXCEPT !.pc = "rbCommit"]
          /\ UNCHANGED <<active, state, faults>>
       \/ Fault /\ RollbackThrows(active)
    /\ UNCHANGED <<disk, database, early, gens, phase, stopped, deadline, start,
                   restart, exits, closing, starts>>

RollbackCommitted ==
    /\ Up /\ act.pc = "rbCommit"
    /\ \/ /\ current' = Previous
          /\ IF MayFork THEN Fork(Previous, "rbStarting")
             ELSE act' = IdleAct /\ UNCHANGED <<gens, active>>
          /\ UNCHANGED <<state, faults>>
       \/ /\ current' \in {current, Previous}
          /\ Fault
          /\ RollbackThrows(active)
          /\ UNCHANGED gens
    /\ UNCHANGED <<file, database, early, phase, stopped, deadline, start,
                   restart, exits, closing, starts>>

RollbackStarted ==
    /\ Up /\ act.pc = "rbStarting"
    /\ \/ /\ Readied(act.gen)
          /\ deadline' = act.gen
          /\ Persist(reqs[act.q].target, "rolled_back", "wRolledBack")
          /\ UNCHANGED active
       \/ /\ Gone(act.gen)
          /\ RollbackThrows(ActiveWithout(act.gen))
          /\ UNCHANGED deadline
    /\ UNCHANGED <<disk, database, early, gens, phase, stopped, start, restart,
                   exits, closing, bounds>>

RolledBack ==
    /\ Up /\ act.pc = "wRolledBack"
    /\ \/ /\ WriteLands(act.snap)
          /\ AllowRecovery(Sent(gens, act.gen, act.q, "rolled_back", Previous),
                           act.gen)
          /\ act' = IdleAct
       \/ /\ WriteFails(act.snap)
          /\ RollbackThrows(active)
          /\ UNCHANGED <<gens, deadline, exits>>
    /\ UNCHANGED <<current, database, early, phase, stopped, start, restart,
                   closing, starts>>

\* The failed rollback is written if possible, and the Host stops.
RollbackFailed ==
    /\ Up /\ act.pc = "wRollbackFailed"
    /\ WriteLands(act.snap) \/ WriteFails(act.snap)
    /\ stopped' = TRUE
    /\ StopSession(active, active)
    /\ act' = [act EXCEPT !.pc = "fatal", !.gen = active]
    /\ UNCHANGED <<current, database, early, phase, state, start, restart,
                   exits, closing, starts>>

\* stopSession has returned: the activation of a closed Host ends, or `fatal`
\* ends the process.
ActStopped ==
    /\ Up /\ Gone(act.gen)
    /\ \/ /\ act.pc = "stopping"
          /\ act' = IdleAct
          /\ UNCHANGED <<gens, phase, stopped, active, deadline, state, start,
                         restart, exits, closing>>
       \/ act.pc = "fatal" /\ HostEnds("down")
    /\ UNCHANGED <<disk, database, early, bounds>>

-----------------------------------------------------------------------------
(* unexpectedExit() and the restart task.                                   *)

\* The crash of a Generation is recorded: the Host ends beyond the budget or
\* without the record, and starts the restart task unless it runs.
ExitRecorded(e) ==
    /\ Up /\ e \in exits
    /\ \/ /\ WriteLands(e.snap)
          /\ IF e.snap.crashes > MaxCrashes THEN HostEnds("down")
             ELSE /\ exits' = exits \ {e}
                  /\ restart' = IF restart.pc # "idle" \/ stopped THEN restart
                                ELSE [IdleRestart EXCEPT !.pc = "delaying",
                                                         !.dead = e.gen]
                  /\ UNCHANGED <<gens, phase, stopped, active, deadline, state,
                                 start, act, closing>>
       \/ WriteFails(e.snap) /\ HostEnds("down")
    /\ UNCHANGED <<current, database, early, starts>>

\* The back-off has passed, or close() cancelled it; `current` is resolved and
\* verified, and its release is forked.
RestartDelayed ==
    /\ Up /\ restart.pc = "delaying"
    /\ \/ /\ ~MayFork
          /\ restart' = IdleRestart
          /\ UNCHANGED <<gens, phase, stopped, active, deadline, state, start,
                         act, exits, closing, faults>>
       \/ /\ MayFork
          /\ gens' = Spawned(current, 0)
          /\ active' = NewGen
          /\ restart' = [restart EXCEPT !.pc = "starting", !.gen = NewGen]
          /\ UNCHANGED <<phase, stopped, deadline, state, start, act, exits,
                         closing, faults>>
       \/ MayFork /\ Fault /\ HostEnds("down")
    /\ UNCHANGED <<disk, database, early, starts>>

\* startRelease has returned, or thrown; then the crash is recorded.
RestartStarted ==
    LET s == restart.gen IN
    /\ Up /\ restart.pc = "starting"
    /\ \/ /\ Readied(s)
          /\ gens' = [gens EXCEPT ![s].managed = FALSE]
          /\ deadline' = s
          /\ restart' = IdleRestart
          /\ UNCHANGED <<active, state>>
       \/ /\ Gone(s)
          /\ active' = ActiveWithout(s)
          /\ IF stopped THEN restart' = IdleRestart /\ UNCHANGED state
             ELSE \E n \in Recent(state.crashes) :
                     /\ state' = Crashed(n)
                     /\ restart' = [restart EXCEPT !.pc = "recording",
                                                   !.snap = state']
          /\ UNCHANGED <<gens, deadline>>
    /\ UNCHANGED <<disk, database, early, phase, stopped, start, act, exits,
                   closing, bounds>>

RestartRecorded ==
    /\ Up /\ restart.pc = "recording"
    /\ \/ /\ WriteLands(restart.snap)
          /\ IF restart.snap.crashes > MaxCrashes THEN HostEnds("down")
             ELSE /\ restart' = IF stopped THEN IdleRestart
                                ELSE [restart EXCEPT !.pc = "delaying"]
                  /\ UNCHANGED <<gens, phase, stopped, active, deadline, state,
                                 start, act, exits, closing>>
       \/ WriteFails(restart.snap) /\ HostEnds("down")
    /\ UNCHANGED <<current, database, early, starts>>

-----------------------------------------------------------------------------
(* close() and the end of the Host process.                                 *)

\* SIGTERM to the Host; the handler exists once start() has returned.
Close ==
    /\ Up /\ start.pc = "idle" /\ closing.pc = "idle"
    /\ stopped' = TRUE
    /\ StopSession(active, active)
    /\ closing' = [pc |-> "joining", gen |-> active]
    /\ UNCHANGED <<disk, database, early, phase, state, start, act, restart,
                   exits, bounds>>

\* The activation in flight has been joined; what it left active is stopped.
CloseJoined ==
    /\ Up /\ closing.pc = "joining" /\ Gone(closing.gen) /\ act.pc = "idle"
    /\ StopSession(active, active)
    /\ closing' = [pc |-> "stopping", gen |-> active]
    /\ UNCHANGED <<disk, database, early, phase, stopped, state, start, act,
                   restart, exits, bounds>>

CloseDone ==
    /\ Up /\ closing.pc = "stopping" /\ Gone(closing.gen)
    /\ restart.pc = "idle" /\ exits = {}
    /\ HostEnds("closed")
    /\ UNCHANGED <<disk, database, early, bounds>>

\* The Host process dies.
HostCrash ==
    /\ Up /\ starts < MaxHostStarts
    /\ HostEnds("down")
    /\ UNCHANGED <<disk, database, early, bounds>>

-----------------------------------------------------------------------------
(* The Generation process.                                                  *)

\* finishExit.
ProcessExits(s) ==
    LET g == Exited(gens, s) IN
    IF gens[s].managed \/ gens[s].orphan
    THEN gens' = g /\ UNCHANGED <<active, deadline, state, exits>>
    ELSE ReportExit(g, s)

\* The instance lock of a live process refuses a second Generation.
Boot(s) ==
    /\ Alive(s) /\ gens[s].stage = "spawned" /\ ~gens[s].hung
    /\ IF \E t \in Gens \ {s} : gens[t].stage \in {"locked", "ready"}
       THEN ProcessExits(s)
       ELSE /\ gens' = [gens EXCEPT ![s].stage = "locked"]
            /\ UNCHANGED <<active, deadline, state, exits>>
    /\ UNCHANGED <<disk, database, early, phase, stopped, start, act, restart,
                   closing, bounds>>

\* dispatch: ACTIVATE is sent, and q is the request on its way.
Dispatched(g, s, q) == [g EXCEPT ![s].out = q, ![s].act = q]

\* Faulty variant: a restarted Generation waits for a new request.
RedispatchedNever(g, s, p) == g

\* redispatchPending in the table g, for the pending requests of p.
Redispatched(g, s, p) ==
    LET waiting == p \ {g[s].env} IN
    IF g[s].out # 0 \/ g[s].orphan \/ waiting = {} THEN g
    ELSE Dispatched(g, s, CHOOSE q \in waiting : \A r \in waiting : q <= r)

\* announceReady: the writer lease is claimed with the next fence, READY is
\* sent, and the oldest unanswered request with it.
Ready(s) ==
    /\ gens[s].stage = "locked" /\ ~gens[s].hung /\ ~gens[s].killed
    /\ ~gens[s].orphan
    /\ lastFence' = lastFence + 1
    /\ gens' = Redispatched([gens EXCEPT ![s].stage = "ready",
                                         ![s].fence = lastFence'], s, Pending)
    /\ UNCHANGED <<disk, reqs, early, phase, stopped, active, deadline, state,
                   tasks, bounds>>

\* accept: one request at a time is on its way; without a Host none is sent.
Accepted(s, q) ==
    IF gens[s].out # 0 \/ gens[s].orphan THEN gens ELSE Dispatched(gens, s, q)

\* core_generation_activate: the receipt is durable, then accept() dispatches.
Ask(s) ==
    /\ gens[s].stage = "ready" /\ ~gens[s].hung /\ Bounded
    /\ \E q \in Requests, t \in Releases :
          /\ reqs[q].stage = "none"
          /\ \A p \in 1..(q - 1) : reqs[p].stage # "none"
          /\ reqs' = [reqs EXCEPT ![q].stage = "pending", ![q].target = t,
                                  ![q].expected = gens[s].release]
          /\ gens' = Accepted(s, q)
    /\ UNCHANGED <<disk, lastFence, early, phase, stopped, active, deadline,
                   state, tasks, bounds>>

\* The terminal event of a request; a second, different one is refused.
Recordable(r) ==
    \/ reqs[r.q].stage = "pending"
    \/ reqs[r.q].status = r.status /\ reqs[r.q].release = r.release

RecordResult(r) ==
    reqs' = [reqs EXCEPT ![r.q].stage = "settled", ![r.q].status = r.status,
                         ![r.q].release = r.release]

\* handleActivationResult: an answer that cannot be recorded is a fail stop.
FailStopped(s, r) ==
    [gens EXCEPT ![s].results = @ \ {r}, ![s].killed = TRUE]

\* activationResult: the event is recorded and the next request dispatched.  A
\* conflicting answer ends the Generation.
Deliver(s, r) ==
    LET g == [gens EXCEPT ![s].results = @ \ {r},
                          ![s].out = IF @ = r.q THEN 0 ELSE @] IN
    /\ gens[s].stage = "ready" /\ ~gens[s].hung /\ r \in gens[s].results
    /\ IF Recordable(r)
       THEN RecordResult(r) /\ gens' = Redispatched(g, s, Pending \ {r.q})
       ELSE gens' = FailStopped(s, r) /\ UNCHANGED reqs
    /\ UNCHANGED <<disk, lastFence, early, phase, stopped, active, deadline,
                   state, tasks, bounds>>

\* The process crashes, or stops answering.
Break(s) ==
    /\ Alive(s) /\ Fault
    /\ \/ ProcessExits(s)
       \/ /\ ~gens[s].hung
          /\ gens' = [gens EXCEPT ![s].hung = TRUE]
          /\ UNCHANGED <<active, deadline, state, exits>>
    /\ UNCHANGED <<disk, database, early, phase, stopped, start, act, restart,
                   closing, starts>>

\* Faulty variant: SIGTERM is not followed by SIGKILL.
EndGracefully(s) ==
    /\ Alive(s) /\ ~gens[s].hung
    /\ gens[s].killed \/ gens[s].orphan
    /\ ProcessExits(s)
    /\ UNCHANGED <<disk, database, early, phase, stopped, start, act, restart,
                   closing, bounds>>

\* A process that its Host told to end does so, at the latest by SIGKILL; one
\* that lost its parent does so unless it hangs.
End(s) ==
    /\ Alive(s)
    /\ IF gens[s].orphan THEN ~gens[s].hung ELSE gens[s].killed
    /\ ProcessExits(s)
    /\ UNCHANGED <<disk, database, early, phase, stopped, start, act, restart,
                   closing, bounds>>

\* The heartbeat deadline of an unresponsive Generation.
HeartbeatExpires(s) ==
    /\ Up /\ deadline = s /\ Alive(s) /\ gens[s].hung
    /\ deadline' = 0
    /\ gens' = IF stopped \/ active # s THEN gens
               ELSE [gens EXCEPT ![s].killed = TRUE]
    /\ UNCHANGED <<disk, database, early, phase, stopped, active, state, tasks,
                   bounds>>

-----------------------------------------------------------------------------
HostInit ==
    /\ current = FirstRelease /\ file = InitialState
    /\ reqs = [q \in Requests |-> Unrequested] /\ lastFence = 0
    /\ gens = <<>>
    /\ phase = "down" /\ stopped = FALSE /\ active = 0 /\ deadline = 0
    /\ state = InitialState
    /\ start = IdleStart /\ act = IdleAct /\ restart = IdleRestart
    /\ exits = {} /\ closing = IdleClose
    /\ faults = 0 /\ starts = 0 /\ early = FALSE

StartStep == HostStart \/ StartReady \/ StartReconciled \/ StartFails
             \/ StartStopped

ActivateStep ==
    \/ ActResolved \/ ActValidating \/ ActVerified \/ ActDraining \/ ActDrained
    \/ ActStarting \/ ActStarted \/ ActStable \/ ActCommitting \/ ActCommitted
    \/ ActFailed \/ ActStopped

RollbackStep == RollbackVerified \/ RollbackCommitted \/ RollbackStarted
                \/ RolledBack \/ RollbackFailed

RestartStep == (\E e \in exits : ExitRecorded(e)) \/ RestartDelayed
               \/ RestartStarted \/ RestartRecorded

CloseStep == CloseJoined \/ CloseDone

\* What a session or its process does without a failure.
GenStep(s) ==
    \/ RefuseReady(s) \/ Receive(s) \/ Boot(s) \/ Ready(s)
    \/ \E r \in gens[s].results : Deliver(s, r)
    \/ End(s) \/ HeartbeatExpires(s)

HostNext ==
    \/ StartStep \/ ActivateStep \/ RollbackStep \/ RestartStep
    \/ Close \/ CloseStep \/ HostCrash
    \/ \E s \in Gens : GenStep(s) \/ Ask(s) \/ Break(s)

HostSpec == HostInit /\ [][HostNext]_hostVars

\* systemd restarts a Host that failed; the reactions of the Host to promises,
\* timers and messages run; a Generation that does not hang goes on.  No
\* behaviour visits a state twice, so the fairness of all of these together is
\* that of each of them.  Requests, failures, crashes and SIGTERM are not fair.
Progress ==
    \/ phase = "down" /\ HostStart
    \/ StartReady \/ StartReconciled \/ StartFails \/ StartStopped
    \/ ActivateStep \/ RollbackStep \/ RestartStep \/ CloseStep
    \/ \E s \in Gens : GenStep(s)

Fairness == WF_hostVars(Progress)

FairHostSpec == HostSpec /\ Fairness

-----------------------------------------------------------------------------
(* Properties.                                                              *)

\* The children of the Host that is up.
Running == {s \in Gens : Alive(s) /\ ~gens[s].orphan}

\* "The Host ... supervises exactly one Generation" (docs/
\* DEPLOYMENT_AND_GATEWAY.md): it never has two children, although start,
\* activation, rollback and restart each fork one after an await.  What is
\* excluded is the history after an activation that began before startRelease
\* had resumed: startRelease then takes the exit path back from the activation.
AtMostOneGeneration == early \/ Cardinality(Running) <= 1

\* "Activation now owns this Generation's exit path.  A crash while release
\* verification is in flight must not start a parallel crash-restart loop"
\* (host.ts:334): AtMostOneGeneration in every history.
NoParallelRestart == Cardinality(Running) <= 1

\* A Host without work in flight supervises a Generation that has reported
\* READY: its exit would be answered by a restart and its silence by SIGKILL.
\* No order of exits, failures and answers leaves the service dead or unwatched,
\* an activation that began early excepted.
IdleHostSupervises ==
    /\ Up /\ ~stopped /\ ~early
    /\ start.pc = "idle" /\ act.pc = "idle" /\ restart.pc = "idle"
    /\ exits = {}
    => /\ active # 0 /\ gens[active].stage = "ready" /\ ~gens[active].managed
       /\ deadline = active \/ gens[active].killed

\* close() returns when no child of the Host runs, whatever it crossed: "Host
\* close tracks and joins every in-flight activation ... and terminates any
\* candidate that crossed close before returning"
\* (docs/PERSISTENCE_AND_RECOVERY.md).  Beside an activation that began early,
\* the restart may leave a child that close() does not know of.
CloseLeavesNoChild ==
    [][phase = "up" /\ phase' = "closed" /\ ~early => Running = {}]_hostVars

\* All answers to a request on their way to a Generation.
Answers(q) == UNION {{r \in gens[s].results : r.q = q} : s \in Gens}

Outcome(status) == IF status = "identity_conflict" THEN "failed" ELSE status

SameOutcome(r, status, release) ==
    Outcome(r.status) = Outcome(status) /\ r.release = release

\* A request has one outcome: what the Host sends, repeats after a restart or
\* derives from its file agrees, in status and release, with what it sent before
\* and with the event a Generation recorded, whatever was lost between them, an
\* activation that began early excepted.
OneAnswer ==
    ~early => \A q \in Requests : \A r \in Answers(q) :
       /\ \A o \in Answers(q) : SameOutcome(r, o.status, o.release)
       /\ reqs[q].stage = "settled"
             => SameOutcome(r, reqs[q].status, reqs[q].release)

\* The Host "exactly replays the result" (tests/core-host.test.ts): an answer
\* that repeats a recorded one is the same event, error text included.
\* recordGenerationActivationResult throws otherwise, and the Generation that
\* received the repetition terminates.
ReplayIsExact ==
    ~early => \A q \in Requests :
       reqs[q].stage = "settled" => \A r \in Answers(q) : Recordable(r)

\* An accepted activation is answered, unless the Host is closed or systemd has
\* given it up: no loss of a message, of a Generation or of the Host strands it.
RequestEventuallyAnswered ==
    \A q \in Requests :
       reqs[q].stage = "pending"
          ~> \/ reqs[q].stage = "settled"
             \/ phase = "closed"
             \/ phase = "down" /\ starts = MaxHostStarts

\* A stopped Host ends: close(), a failed start and a fatal error do not wait
\* for each other, for a hung child or for a restart forever.
StoppedHostEnds == stopped ~> ~Up

\* "If the Host itself crashes during activation, `current` plus
\* `activation.json` deterministically decides whether the recovered result is
\* committed or rolled back" (docs/PERSISTENCE_AND_RECOVERY.md): a Generation
\* that is told its activation succeeded runs the target release.
SucceededRunsTarget ==
    ~early => \A s \in Gens : \A r \in gens[s].results :
       r.status = "succeeded" => gens[s].release = reqs[r.q].target

=============================================================================
