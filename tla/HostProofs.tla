---------------------------- MODULE HostProofs -----------------------------
(***************************************************************************)
(* Proofs about HostActivation, for every set of releases and every bound   *)
(* on requests, failures, crashes and lives of the Host: which Generation   *)
(* the Host supervises, and what it answers to an activation.               *)
(*                                                                          *)
(* 1. HostTypeOK is inductive: a task that awaits a session names one of    *)
(*    the table, an activation the request it runs for.                     *)
(* 2. SupInv says what children the Host has by where its tasks are: at     *)
(*    most one task is between two sessions, the one it waits for or serves *)
(*    with is the only child, and the exit of that child is owned by the    *)
(*    task or reported.  A step that begins no activation before            *)
(*    startRelease resumes keeps it, and `early` records one that did; so   *)
(*    early \/ SupInv is inductive, and gives AtMostOneGeneration,          *)
(*    IdleHostSupervises and CloseLeavesNoChild.                            *)
(* 3. AnsInv says that everything an answer is read from (the file, the     *)
(*    record of the Host, the snapshots on their way to the file) agrees    *)
(*    with what was told before, on the wire or in the database; that the   *)
(*    request of a running activation is unknown to everybody, with every   *)
(*    other one settled; and that the session that will be told waits for   *)
(*    it.  It is inductive relative to HostTypeOK and SupInv, and gives     *)
(*    OneAnswer.                                                            *)
(***************************************************************************)
EXTENDS HostActivation, FiniteSetTheorems, SequenceTheorems, TLAPS

-----------------------------------------------------------------------------
(* The tasks of the Host.                                                   *)

ActPcs == {"idle", "resolving", "wValidating", "verifying", "wDraining", "wFailed",
           "draining", "wStarting", "starting", "stabilizing", "committing",
           "wCommitted", "rbVerify", "rbCommit", "rbStarting", "wRolledBack",
           "wRollbackFailed", "stopping", "fatal"}

\* before the drain, and between the candidate's READY and the answer
PreDrain == {"resolving", "wValidating", "verifying", "wDraining", "wFailed"}
Testing  == {"stabilizing", "committing", "wCommitted"}

\* a state of the Host that names a request in every phase
Recorded == {h \in HostState : h.activation.q = 0 => h.activation.phase = "none"}

StartTask   == [pc : {"idle", "starting", "reconciling", "stopping"}, gen : Nat,
                snap : Recorded]
ActTask     == [pc : ActPcs, q : 0..MaxRequests, old : Nat, cand : Nat, gen : Nat,
                target : Releases, snap : Recorded]
RestartTask == [pc : {"idle", "delaying", "starting", "recording"}, dead : Nat,
                gen : Nat, snap : Recorded]
CloseTask   == [pc : {"idle", "joining", "stopping"}, gen : Nat]
ExitTask    == [gen : Nat, snap : Recorded]

\* the session a task works on is one of the table
StartTyped(d, st) ==
    /\ st \in StartTask
    /\ st.pc \in {"starting", "reconciling"} => st.gen \in DOMAIN d
ActTyped(d, ac) ==
    /\ ac \in ActTask
    /\ ac.cand \in 0..Len(d)
    /\ ac.pc # "idle" => ac.q # 0 /\ ac.old \in DOMAIN d
    /\ ac.pc \in {"starting", "rbStarting", "wRolledBack"} => ac.gen \in DOMAIN d
    /\ ac.pc \in Testing => ac.cand \in DOMAIN d
RestartTyped(d, re) ==
    /\ re \in RestartTask
    /\ re.pc = "starting" => re.gen \in DOMAIN d

DataTyped ==
    /\ current \in Releases /\ file \in Recorded
    /\ reqs \in [Requests -> Request] /\ lastFence \in Nat
    /\ phase \in {"down", "up", "closed"} /\ stopped \in BOOLEAN
    /\ faults \in Nat /\ starts \in Nat /\ early \in BOOLEAN

TableTyped ==
    gens \in Seq(Generation) /\ active \in 0..Len(gens) /\ deadline \in Nat

StateTyped ==
    /\ state \in Recorded
    /\ start.pc = "reconciling" => state.activation.q # 0

\* the type invariant of the Host
HostTypeOK ==
    /\ DataTyped /\ TableTyped /\ StateTyped
    /\ StartTyped(gens, start) /\ ActTyped(gens, act) /\ RestartTyped(gens, restart)
    /\ exits \subseteq ExitTask /\ closing \in CloseTask

-----------------------------------------------------------------------------
(* What the Host has of children, by where its tasks are.                   *)

\* session s of the table d is a running child of the Host that is up
Kid(d, s) == d[s].stage # "dead" /\ ~d[s].orphan

OnlyKid(d, a) == \A s \in DOMAIN d : Kid(d, s) => s = a

OneKid(d) == \A s, t \in DOMAIN d : Kid(d, s) /\ Kid(d, t) => s = t

\* a, the only child, is ready; its exit is reported and its silence noticed
Serving(d, a, dl) ==
    /\ a \in DOMAIN d /\ OnlyKid(d, a)
    /\ d[a].stage = "ready" /\ ~d[a].orphan /\ ~d[a].managed /\ ~d[a].reported
    /\ dl = a \/ d[a].killed

\* a is the only child, and a task owns its exit
Held(d, a) ==
    /\ a \in DOMAIN d /\ OnlyKid(d, a)
    /\ ~d[a].orphan /\ d[a].managed /\ ~d[a].reported

\* ... and it has been ready
Tended(d, a, dl) ==
    /\ Held(d, a)
    /\ d[a].stage = "dead" \/ (d[a].stage = "ready" /\ (dl = a \/ d[a].killed))

\* the exit of session a would not be reported
Quiet(d, a) == a \in DOMAIN d => d[a].stage = "dead" \/ d[a].managed

ActSup(d, a, dl, ac) ==
    /\ ac.pc \notin {"stopping", "fatal"}
    /\ ac.pc \in PreDrain => a = ac.old /\ Tended(d, a, dl)
    /\ ac.pc = "draining" => a = ac.old /\ Held(d, a)
    /\ ac.pc = "wStarting" => a = 0 /\ OnlyKid(d, 0)
    /\ ac.pc \in {"starting", "rbStarting"} => a = ac.gen /\ Held(d, a)
    /\ ac.pc \in Testing => a = ac.cand /\ Tended(d, a, dl)
    /\ ac.pc = "rbVerify" =>
         OnlyKid(d, ac.cand) /\ (a \in DOMAIN d => d[a].stage = "dead")
    /\ ac.pc = "rbCommit" => OnlyKid(d, 0) /\ Quiet(d, a)
    /\ ac.pc = "wRolledBack" => a = ac.gen /\ Tended(d, a, dl)
    /\ ac.pc = "wRollbackFailed" => OnlyKid(d, a) /\ Quiet(d, a)

\* a Host that was not stopped: one task at most is between two sessions
LiveSup(d, a, dl, st, ac, re, x, cl) ==
    /\ cl.pc = "idle" /\ st.pc # "stopping"
    /\ st.pc = "starting" =>
         ac.pc = "idle" /\ re.pc = "idle" /\ x = {} /\ a = st.gen /\ Held(d, a)
    /\ ac.pc # "idle" => re.pc = "idle" /\ x = {} /\ ActSup(d, a, dl, ac)
    /\ x # {} => re.pc = "idle" /\ a = 0 /\ OnlyKid(d, 0) /\ (\A e, f \in x : e = f)
    /\ re.pc \in {"delaying", "recording"} => a = 0 /\ OnlyKid(d, 0)
    /\ re.pc = "starting" => a = re.gen /\ Held(d, a)
    /\ st.pc # "starting" /\ ac.pc = "idle" /\ re.pc = "idle" /\ x = {}
         => Serving(d, a, dl)

\* a stopped Host forks nothing: what close() awaits is all that runs
StoppedSup(d, st, ac, cl) ==
    /\ cl.pc = "idle" => ac.pc = "fatal" \/ st.pc = "stopping"
    /\ cl.pc # "idle" => st.pc = "idle"
    /\ cl.pc = "joining" =>
         \/ ac.pc = "fatal"
         \/ OnlyKid(d, cl.gen)
         \/ ac.pc = "rbVerify" /\ OnlyKid(d, ac.cand)
    /\ cl.pc = "stopping" => ac.pc = "idle" /\ OnlyKid(d, 0)

\* no Host: what still runs has lost its parent
DownSup ==
    /\ OnlyKid(gens, 0)
    /\ ~stopped /\ active = 0 /\ deadline = 0 /\ exits = {}
    /\ start = IdleStart /\ act = IdleAct /\ restart = IdleRestart
    /\ closing = IdleClose

SupInv ==
    /\ OneKid(gens)
    /\ phase # "up" => DownSup
    /\ phase = "up" /\ ~stopped
         => LiveSup(gens, active, deadline, start, act, restart, exits, closing)
    /\ phase = "up" /\ stopped => StoppedSup(gens, start, act, closing)

-----------------------------------------------------------------------------
(* Edits of the session table.                                              *)

\* the fields of a session, by what they are about
SameFate(d, e, s) ==
    /\ e[s].stage = d[s].stage /\ e[s].hung = d[s].hung
    /\ e[s].killed = d[s].killed /\ e[s].orphan = d[s].orphan
SameWatch(d, e, s) == e[s].managed = d[s].managed /\ e[s].reported = d[s].reported
SameOrigin(d, e, s) ==
    e[s].release = d[s].release /\ e[s].fence = d[s].fence /\ e[s].env = d[s].env
SameMail(d, e, s) ==
    e[s].out = d[s].out /\ e[s].act = d[s].act /\ e[s].results = d[s].results

\* the table e is d but for session s
Edited(d, e, s) ==
    /\ e \in Seq(Generation) /\ Len(e) = Len(d) /\ DOMAIN e = DOMAIN d
    /\ \A t \in DOMAIN d \ {s} : e[t] = d[t]

TerminatedIn(d, s) == [d EXCEPT ![s].managed = TRUE, ![s].killed = TRUE]
KilledIn(d, s) == [d EXCEPT ![s].killed = TRUE]
ManagedIn(d, s, b) == [d EXCEPT ![s].managed = b]
ReportedIn(d, s) == [d EXCEPT ![s].reported = TRUE]
HungIn(d, s) == [d EXCEPT ![s].hung = TRUE]
ReceivedIn(d, s) == [d EXCEPT ![s].act = 0]
LockedIn(d, s) == [d EXCEPT ![s].stage = "locked"]
ReadyIn(d, s, n) == [d EXCEPT ![s].stage = "ready", ![s].fence = n]
AnsweredIn(d, s, R) == [d EXCEPT ![s].results = R]
DroppedIn(d, s, R, o) == [d EXCEPT ![s].results = R, ![s].out = o]
FailStoppedIn(d, s, R) == [d EXCEPT ![s].results = R, ![s].killed = TRUE]

\* An edit of one session leaves the others.
LEMMA EditTable ==
    ASSUME NEW d \in Seq(Generation), NEW s \in DOMAIN d, NEW r \in Generation,
           NEW e, e = [d EXCEPT ![s] = r]
    PROVE  Edited(d, e, s) /\ e[s] = r
  <1> USE DEF Edited
  <1> HIDE DEF Generation
  <1> QED
    OBVIOUS

\* GenerationSession.terminate: SIGTERM, and the exit is Host-owned.
LEMMA TerminatedTable ==
    ASSUME NEW d \in Seq(Generation), NEW s \in DOMAIN d,
           NEW e, e = TerminatedIn(d, s)
    PROVE  /\ Edited(d, e, s)
           /\ e[s].stage = d[s].stage
           /\ e[s].hung = d[s].hung
           /\ e[s].killed
           /\ e[s].orphan = d[s].orphan
           /\ e[s].managed
           /\ e[s].reported = d[s].reported
           /\ SameOrigin(d, e, s)
           /\ SameMail(d, e, s)
  <1>1. d[s] \in Generation
    OBVIOUS
  <1>2. 0 \in 0..MaxRequests
    BY HostAssumption
  <1>3. PICK r : r = [d[s] EXCEPT !.managed = TRUE, !.killed = TRUE]
    OBVIOUS
  <1>4. r \in Generation
    BY <1>1, <1>2, <1>3 DEF Generation
  <1>5. e = [d EXCEPT ![s] = r]
    BY <1>3 DEF TerminatedIn
  <1>6. Edited(d, e, s) /\ e[s] = r
    BY <1>4, <1>5, EditTable
  <1> QED
    BY <1>1, <1>3, <1>6 DEF Generation, SameFate, SameWatch, SameOrigin, SameMail

\* SIGKILL or SIGTERM is sent to a session.
LEMMA KilledTable ==
    ASSUME NEW d \in Seq(Generation), NEW s \in DOMAIN d,
           NEW e, e = KilledIn(d, s)
    PROVE  /\ Edited(d, e, s)
           /\ e[s].stage = d[s].stage
           /\ e[s].hung = d[s].hung
           /\ e[s].killed
           /\ e[s].orphan = d[s].orphan
           /\ SameWatch(d, e, s)
           /\ SameOrigin(d, e, s)
           /\ SameMail(d, e, s)
  <1>1. d[s] \in Generation
    OBVIOUS
  <1>2. 0 \in 0..MaxRequests
    BY HostAssumption
  <1>3. PICK r : r = [d[s] EXCEPT !.killed = TRUE]
    OBVIOUS
  <1>4. r \in Generation
    BY <1>1, <1>2, <1>3 DEF Generation
  <1>5. e = [d EXCEPT ![s] = r]
    BY <1>3 DEF KilledIn
  <1>6. Edited(d, e, s) /\ e[s] = r
    BY <1>4, <1>5, EditTable
  <1> QED
    BY <1>1, <1>3, <1>6 DEF Generation, SameFate, SameWatch, SameOrigin, SameMail

\* A session changes hands between a task and crash recovery.
LEMMA ManagedTable ==
    ASSUME NEW d \in Seq(Generation), NEW s \in DOMAIN d, NEW b \in BOOLEAN,
           NEW e, e = ManagedIn(d, s, b)
    PROVE  /\ Edited(d, e, s)
           /\ SameFate(d, e, s)
           /\ e[s].managed = b
           /\ e[s].reported = d[s].reported
           /\ SameOrigin(d, e, s)
           /\ SameMail(d, e, s)
  <1>1. d[s] \in Generation
    OBVIOUS
  <1>2. 0 \in 0..MaxRequests
    BY HostAssumption
  <1>3. PICK r : r = [d[s] EXCEPT !.managed = b]
    OBVIOUS
  <1>4. r \in Generation
    BY <1>1, <1>2, <1>3 DEF Generation
  <1>5. e = [d EXCEPT ![s] = r]
    BY <1>3 DEF ManagedIn
  <1>6. Edited(d, e, s) /\ e[s] = r
    BY <1>4, <1>5, EditTable
  <1> QED
    BY <1>1, <1>3, <1>6 DEF Generation, SameFate, SameWatch, SameOrigin, SameMail

\* The exit of a session is reported.
LEMMA ReportedTable ==
    ASSUME NEW d \in Seq(Generation), NEW s \in DOMAIN d,
           NEW e, e = ReportedIn(d, s)
    PROVE  /\ Edited(d, e, s)
           /\ SameFate(d, e, s)
           /\ e[s].managed = d[s].managed
           /\ e[s].reported
           /\ SameOrigin(d, e, s)
           /\ SameMail(d, e, s)
  <1>1. d[s] \in Generation
    OBVIOUS
  <1>2. 0 \in 0..MaxRequests
    BY HostAssumption
  <1>3. PICK r : r = [d[s] EXCEPT !.reported = TRUE]
    OBVIOUS
  <1>4. r \in Generation
    BY <1>1, <1>2, <1>3 DEF Generation
  <1>5. e = [d EXCEPT ![s] = r]
    BY <1>3 DEF ReportedIn
  <1>6. Edited(d, e, s) /\ e[s] = r
    BY <1>4, <1>5, EditTable
  <1> QED
    BY <1>1, <1>3, <1>6 DEF Generation, SameFate, SameWatch, SameOrigin, SameMail

\* A session stops answering.
LEMMA HungTable ==
    ASSUME NEW d \in Seq(Generation), NEW s \in DOMAIN d,
           NEW e, e = HungIn(d, s)
    PROVE  /\ Edited(d, e, s)
           /\ e[s].stage = d[s].stage
           /\ e[s].hung
           /\ e[s].killed = d[s].killed
           /\ e[s].orphan = d[s].orphan
           /\ SameWatch(d, e, s)
           /\ SameOrigin(d, e, s)
           /\ SameMail(d, e, s)
  <1>1. d[s] \in Generation
    OBVIOUS
  <1>2. 0 \in 0..MaxRequests
    BY HostAssumption
  <1>3. PICK r : r = [d[s] EXCEPT !.hung = TRUE]
    OBVIOUS
  <1>4. r \in Generation
    BY <1>1, <1>2, <1>3 DEF Generation
  <1>5. e = [d EXCEPT ![s] = r]
    BY <1>3 DEF HungIn
  <1>6. Edited(d, e, s) /\ e[s] = r
    BY <1>4, <1>5, EditTable
  <1> QED
    BY <1>1, <1>3, <1>6 DEF Generation, SameFate, SameWatch, SameOrigin, SameMail

\* The ACTIVATE of a session is taken from the wire.
LEMMA ReceivedTable ==
    ASSUME NEW d \in Seq(Generation), NEW s \in DOMAIN d,
           NEW e, e = ReceivedIn(d, s)
    PROVE  /\ Edited(d, e, s)
           /\ SameFate(d, e, s)
           /\ SameWatch(d, e, s)
           /\ SameOrigin(d, e, s)
           /\ e[s].out = d[s].out
           /\ e[s].act = 0
           /\ e[s].results = d[s].results
  <1>1. d[s] \in Generation
    OBVIOUS
  <1>2. 0 \in 0..MaxRequests
    BY HostAssumption
  <1>3. PICK r : r = [d[s] EXCEPT !.act = 0]
    OBVIOUS
  <1>4. r \in Generation
    BY <1>1, <1>2, <1>3 DEF Generation
  <1>5. e = [d EXCEPT ![s] = r]
    BY <1>3 DEF ReceivedIn
  <1>6. Edited(d, e, s) /\ e[s] = r
    BY <1>4, <1>5, EditTable
  <1> QED
    BY <1>1, <1>3, <1>6 DEF Generation, SameFate, SameWatch, SameOrigin, SameMail

\* A session takes the instance lock.
LEMMA LockedTable ==
    ASSUME NEW d \in Seq(Generation), NEW s \in DOMAIN d,
           NEW e, e = LockedIn(d, s)
    PROVE  /\ Edited(d, e, s)
           /\ e[s].stage = "locked"
           /\ e[s].hung = d[s].hung
           /\ e[s].killed = d[s].killed
           /\ e[s].orphan = d[s].orphan
           /\ SameWatch(d, e, s)
           /\ SameOrigin(d, e, s)
           /\ SameMail(d, e, s)
  <1>1. d[s] \in Generation
    OBVIOUS
  <1>2. 0 \in 0..MaxRequests
    BY HostAssumption
  <1>3. PICK r : r = [d[s] EXCEPT !.stage = "locked"]
    OBVIOUS
  <1>4. r \in Generation
    BY <1>1, <1>2, <1>3 DEF Generation
  <1>5. e = [d EXCEPT ![s] = r]
    BY <1>3 DEF LockedIn
  <1>6. Edited(d, e, s) /\ e[s] = r
    BY <1>4, <1>5, EditTable
  <1> QED
    BY <1>1, <1>3, <1>6 DEF Generation, SameFate, SameWatch, SameOrigin, SameMail

\* A session claims the writer lease.
LEMMA ReadyTable ==
    ASSUME NEW d \in Seq(Generation), NEW s \in DOMAIN d, NEW n \in Nat,
           NEW e, e = ReadyIn(d, s, n)
    PROVE  /\ Edited(d, e, s)
           /\ e[s].stage = "ready"
           /\ e[s].hung = d[s].hung
           /\ e[s].killed = d[s].killed
           /\ e[s].orphan = d[s].orphan
           /\ SameWatch(d, e, s)
           /\ e[s].release = d[s].release
           /\ e[s].fence = n
           /\ e[s].env = d[s].env
           /\ SameMail(d, e, s)
  <1>1. d[s] \in Generation
    OBVIOUS
  <1>2. 0 \in 0..MaxRequests
    BY HostAssumption
  <1>3. PICK r : r = [d[s] EXCEPT !.stage = "ready", !.fence = n]
    OBVIOUS
  <1>4. r \in Generation
    BY <1>1, <1>2, <1>3 DEF Generation
  <1>5. e = [d EXCEPT ![s] = r]
    BY <1>3 DEF ReadyIn
  <1>6. Edited(d, e, s) /\ e[s] = r
    BY <1>4, <1>5, EditTable
  <1> QED
    BY <1>1, <1>3, <1>6 DEF Generation, SameFate, SameWatch, SameOrigin, SameMail

\* A session sends ACTIVATE.
LEMMA DispatchedTable ==
    ASSUME NEW d \in Seq(Generation), NEW s \in DOMAIN d, NEW q \in 0..MaxRequests,
           NEW e, e = Dispatched(d, s, q)
    PROVE  /\ Edited(d, e, s)
           /\ SameFate(d, e, s)
           /\ SameWatch(d, e, s)
           /\ SameOrigin(d, e, s)
           /\ e[s].out = q
           /\ e[s].act = q
           /\ e[s].results = d[s].results
  <1>1. d[s] \in Generation
    OBVIOUS
  <1>2. 0 \in 0..MaxRequests
    BY HostAssumption
  <1>3. PICK r : r = [d[s] EXCEPT !.out = q, !.act = q]
    OBVIOUS
  <1>4. r \in Generation
    BY <1>1, <1>2, <1>3 DEF Generation
  <1>5. e = [d EXCEPT ![s] = r]
    BY <1>3 DEF Dispatched
  <1>6. Edited(d, e, s) /\ e[s] = r
    BY <1>4, <1>5, EditTable
  <1> QED
    BY <1>1, <1>3, <1>6 DEF Generation, SameFate, SameWatch, SameOrigin, SameMail

\* What an exit leaves of a session.
LEMMA ExitedTable ==
    ASSUME NEW d \in Seq(Generation), NEW s \in DOMAIN d,
           NEW e, e = Exited(d, s)
    PROVE  /\ Edited(d, e, s)
           /\ e[s].stage = "dead"
           /\ ~e[s].hung
           /\ ~e[s].killed
           /\ ~e[s].orphan
           /\ SameWatch(d, e, s)
           /\ SameOrigin(d, e, s)
           /\ e[s].out = 0
           /\ e[s].act = 0
           /\ e[s].results = {}
  <1>1. d[s] \in Generation
    OBVIOUS
  <1>2. 0 \in 0..MaxRequests
    BY HostAssumption
  <1>3. PICK r : r = [d[s] EXCEPT !.stage = "dead", !.hung = FALSE, !.killed = FALSE, !.orphan = FALSE, !.out = 0, !.act = 0, !.results = {}]
    OBVIOUS
  <1>4. r \in Generation
    BY <1>1, <1>2, <1>3 DEF Generation
  <1>5. e = [d EXCEPT ![s] = r]
    BY <1>3 DEF Exited
  <1>6. Edited(d, e, s) /\ e[s] = r
    BY <1>4, <1>5, EditTable
  <1> QED
    BY <1>1, <1>3, <1>6 DEF Generation, SameFate, SameWatch, SameOrigin, SameMail

\* An answer is put on the wire.
LEMMA AnsweredTable ==
    ASSUME NEW d \in Seq(Generation), NEW s \in DOMAIN d, NEW R \in SUBSET Result,
           NEW e, e = AnsweredIn(d, s, R)
    PROVE  /\ Edited(d, e, s)
           /\ SameFate(d, e, s)
           /\ SameWatch(d, e, s)
           /\ SameOrigin(d, e, s)
           /\ e[s].out = d[s].out
           /\ e[s].act = d[s].act
           /\ e[s].results = R
  <1>1. d[s] \in Generation
    OBVIOUS
  <1>2. 0 \in 0..MaxRequests
    BY HostAssumption
  <1>3. PICK r : r = [d[s] EXCEPT !.results = R]
    OBVIOUS
  <1>4. r \in Generation
    BY <1>1, <1>2, <1>3 DEF Generation
  <1>5. e = [d EXCEPT ![s] = r]
    BY <1>3 DEF AnsweredIn
  <1>6. Edited(d, e, s) /\ e[s] = r
    BY <1>4, <1>5, EditTable
  <1> QED
    BY <1>1, <1>3, <1>6 DEF Generation, SameFate, SameWatch, SameOrigin, SameMail

\* An answer is taken from the wire.
LEMMA DroppedTable ==
    ASSUME NEW d \in Seq(Generation), NEW s \in DOMAIN d, NEW R \in SUBSET Result, NEW o \in 0..MaxRequests,
           NEW e, e = DroppedIn(d, s, R, o)
    PROVE  /\ Edited(d, e, s)
           /\ SameFate(d, e, s)
           /\ SameWatch(d, e, s)
           /\ SameOrigin(d, e, s)
           /\ e[s].out = o
           /\ e[s].act = d[s].act
           /\ e[s].results = R
  <1>1. d[s] \in Generation
    OBVIOUS
  <1>2. 0 \in 0..MaxRequests
    BY HostAssumption
  <1>3. PICK r : r = [d[s] EXCEPT !.results = R, !.out = o]
    OBVIOUS
  <1>4. r \in Generation
    BY <1>1, <1>2, <1>3 DEF Generation
  <1>5. e = [d EXCEPT ![s] = r]
    BY <1>3 DEF DroppedIn
  <1>6. Edited(d, e, s) /\ e[s] = r
    BY <1>4, <1>5, EditTable
  <1> QED
    BY <1>1, <1>3, <1>6 DEF Generation, SameFate, SameWatch, SameOrigin, SameMail

\* A refused answer ends the session.
LEMMA FailStoppedTable ==
    ASSUME NEW d \in Seq(Generation), NEW s \in DOMAIN d, NEW R \in SUBSET Result,
           NEW e, e = FailStoppedIn(d, s, R)
    PROVE  /\ Edited(d, e, s)
           /\ e[s].stage = d[s].stage
           /\ e[s].hung = d[s].hung
           /\ e[s].killed
           /\ e[s].orphan = d[s].orphan
           /\ SameWatch(d, e, s)
           /\ SameOrigin(d, e, s)
           /\ e[s].out = d[s].out
           /\ e[s].act = d[s].act
           /\ e[s].results = R
  <1>1. d[s] \in Generation
    OBVIOUS
  <1>2. 0 \in 0..MaxRequests
    BY HostAssumption
  <1>3. PICK r : r = [d[s] EXCEPT !.results = R, !.killed = TRUE]
    OBVIOUS
  <1>4. r \in Generation
    BY <1>1, <1>2, <1>3 DEF Generation
  <1>5. e = [d EXCEPT ![s] = r]
    BY <1>3 DEF FailStoppedIn
  <1>6. Edited(d, e, s) /\ e[s] = r
    BY <1>4, <1>5, EditTable
  <1> QED
    BY <1>1, <1>3, <1>6 DEF Generation, SameFate, SameWatch, SameOrigin, SameMail

-----------------------------------------------------------------------------
(* 1. Types.                                                                *)

\* The idle tasks and the initial records.
LEMMA IdleTyped ==
    /\ 0 \in 0..MaxRequests /\ InitialState \in Recorded
    /\ IdleStart \in StartTask /\ IdleStart.pc = "idle"
    /\ IdleAct \in ActTask /\ IdleAct.pc = "idle" /\ IdleAct.cand = 0
    /\ IdleRestart \in RestartTask /\ IdleRestart.pc = "idle"
    /\ IdleClose \in CloseTask /\ IdleClose.pc = "idle"
  <1>1. 0 \in 0..MaxRequests /\ 0 \in 0..(MaxCrashes + 1)
    BY HostAssumption
  <1>2. InitialState \in Recorded
    BY <1>1, HostAssumption DEF InitialState, NoActivation, HostState, ActivationState,
                                Phases, Recorded
  <1>3. PICK i : i = InitialState
    OBVIOUS
  <1>4. /\ [pc |-> "idle", gen |-> 0, snap |-> i] \in StartTask
        /\ [pc |-> "idle", q |-> 0, old |-> 0, cand |-> 0, gen |-> 0,
            target |-> FirstRelease, snap |-> i] \in ActTask
        /\ [pc |-> "idle", dead |-> 0, gen |-> 0, snap |-> i] \in RestartTask
    BY <1>1, <1>2, <1>3, HostAssumption DEF StartTask, ActTask, RestartTask, ActPcs
  <1> QED
    BY <1>1, <1>2, <1>3, <1>4 DEF IdleStart, IdleAct, IdleRestart, IdleClose, CloseTask

\* An idle task works on no session.
LEMMA IdleFits ==
    ASSUME NEW d \in Seq(Generation)
    PROVE  StartTyped(d, IdleStart) /\ ActTyped(d, IdleAct) /\ RestartTyped(d, IdleRestart)
  BY IdleTyped DEF StartTyped, ActTyped, RestartTyped, Testing

\* A session once in the table stays there.
LEMMA GrownFits ==
    ASSUME NEW d \in Seq(Generation), NEW e \in Seq(Generation), Len(d) <= Len(e)
    PROVE  /\ \A st : StartTyped(d, st) => StartTyped(e, st)
           /\ \A ac : ActTyped(d, ac) => ActTyped(e, ac)
           /\ \A re : RestartTyped(d, re) => RestartTyped(e, re)
  <1>1. DOMAIN d \subseteq DOMAIN e /\ 0..Len(d) \subseteq 0..Len(e)
    OBVIOUS
  <1> QED
    BY <1>1 DEF StartTyped, ActTyped, RestartTyped

\* a living session gets one more answer
AnswerAdded(d, e, s, q, status, release) ==
    e[s].results =
      IF d[s].stage = "dead" THEN d[s].results
      ELSE d[s].results \cup {[q |-> q, status |-> status, release |-> release]}

\* What send does to the table.
LEMMA SentTable ==
    ASSUME NEW d \in Seq(Generation), NEW s \in DOMAIN d, NEW q \in Requests,
           NEW status \in Statuses, NEW release \in Releases,
           NEW e, e = Sent(d, s, q, status, release)
    PROVE  /\ Edited(d, e, s)
           /\ SameFate(d, e, s) /\ SameWatch(d, e, s) /\ SameOrigin(d, e, s)
           /\ e[s].out = d[s].out /\ e[s].act = d[s].act
           /\ AnswerAdded(d, e, s, q, status, release)
  <1>1. CASE d[s].stage = "dead"
    <2>1. e = d
      BY <1>1 DEF Sent
    <2> QED
      BY <1>1, <2>1 DEF Edited, SameFate, SameWatch, SameOrigin, AnswerAdded
  <1>2. CASE d[s].stage # "dead"
    <2>1. PICK r : r = [q |-> q, status |-> status, release |-> release]
      OBVIOUS
    <2>2. r \in Result
      BY <2>1 DEF Result
    <2>3. PICK R : R = d[s].results \cup {r}
      OBVIOUS
    <2>4. R \in SUBSET Result
      <3>1. d[s].results \in SUBSET Result
        <4>1. d[s] \in Generation
          OBVIOUS
        <4> QED
          BY <4>1 DEF Generation
      <3> QED
        BY <2>2, <2>3, <3>1
    <2>5. e = AnsweredIn(d, s, R)
      BY <1>2, <2>1, <2>3 DEF Sent, AnsweredIn
    <2>6. /\ Edited(d, e, s) /\ SameFate(d, e, s) /\ SameWatch(d, e, s)
          /\ SameOrigin(d, e, s) /\ e[s].out = d[s].out /\ e[s].act = d[s].act
          /\ e[s].results = R
      BY <2>4, <2>5, AnsweredTable
    <2> QED
      BY <1>2, <2>1, <2>3, <2>6 DEF AnswerAdded
  <1> QED
    BY <1>1, <1>2

\* The answer a record stands for is an answer.
LEMMA AnswerTyped ==
    ASSUME NEW a \in ActivationState, a.q # 0
    PROVE  a.q \in Requests /\ StatusOf(a) \in Statuses /\ ReleaseOf(a) \in Releases
  BY HostAssumption DEF ActivationState, Requests, StatusOf, Statuses, ReleaseOf

\* the table e is d with the new session n
Forked(d, e, n) ==
    /\ DOMAIN e = DOMAIN d \cup {n} /\ n \notin DOMAIN d /\ n # 0
    /\ \A t \in DOMAIN d : e[t] = d[t]

\* What a fork does to the table.
LEMMA SpawnedTable ==
    ASSUME gens \in Seq(Generation), NEW release \in Releases, NEW env \in 0..MaxRequests,
           NEW e, e = Spawned(release, env)
    PROVE  /\ e \in Seq(Generation) /\ Len(e) = NewGen /\ NewGen = Len(gens) + 1
           /\ Forked(gens, e, NewGen) /\ NewGen \in DOMAIN e
           /\ e[NewGen].stage = "spawned" /\ ~e[NewGen].orphan /\ ~e[NewGen].killed
           /\ ~e[NewGen].hung
           /\ e[NewGen].managed /\ ~e[NewGen].reported /\ e[NewGen].release = release
           /\ e[NewGen].env = env /\ e[NewGen].out = env /\ e[NewGen].act = 0
           /\ e[NewGen].results = {} /\ e[NewGen].fence = 0
  <1>1. PICK r : r = [release |-> release, stage |-> "spawned", hung |-> FALSE,
                  killed |-> FALSE, orphan |-> FALSE, managed |-> TRUE,
                  reported |-> FALSE, fence |-> 0, env |-> env, out |-> env,
                  act |-> 0, results |-> {}]
    OBVIOUS
  <1>2. r \in Generation
    BY <1>1, IdleTyped DEF Generation
  <1>3. e = Append(gens, r)
    BY <1>1 DEF Spawned
  <1>4. /\ e \in Seq(Generation) /\ Len(e) = Len(gens) + 1 /\ e[Len(gens) + 1] = r
        /\ \A t \in 1..Len(gens) : e[t] = gens[t]
    BY <1>2, <1>3
  <1>5. /\ DOMAIN gens = 1..Len(gens) /\ DOMAIN e = 1..Len(e) /\ Len(gens) \in Nat
    BY <1>4
  <1>6. DOMAIN e = DOMAIN gens \cup {Len(gens) + 1} /\ Len(gens) + 1 \notin DOMAIN gens
    BY <1>4, <1>5
  <1> QED
    BY <1>1, <1>4, <1>5, <1>6 DEF NewGen, Forked

\* What the end of the Host does to the table.
LEMMA OrphanedTable ==
    ASSUME gens \in Seq(Generation), NEW e, e = Orphaned
    PROVE  /\ e \in Seq(Generation) /\ Len(e) = Len(gens) /\ DOMAIN e = Gens
           /\ \A s \in Gens :
                /\ e[s].stage = gens[s].stage /\ e[s].hung = gens[s].hung
                /\ e[s].killed = gens[s].killed /\ SameOrigin(gens, e, s)
                /\ e[s].out = gens[s].out /\ e[s].results = gens[s].results
                /\ e[s].act = 0
                /\ gens[s].stage # "dead" => e[s].orphan
  <1>0. DOMAIN gens = 1..Len(gens) /\ Len(gens) \in Nat
    OBVIOUS
  <1>1. DOMAIN e = 1..Len(gens)
    BY <1>0 DEF Orphaned, Gens
  <1>2. ASSUME NEW s \in Gens
        PROVE  /\ e[s] \in Generation
               /\ e[s].stage = gens[s].stage /\ e[s].hung = gens[s].hung
               /\ e[s].killed = gens[s].killed /\ SameOrigin(gens, e, s)
               /\ e[s].out = gens[s].out /\ e[s].results = gens[s].results
               /\ e[s].act = 0
               /\ gens[s].stage # "dead" => e[s].orphan
    <2>1. gens[s] \in Generation
      BY <1>2 DEF Gens
    <2>2. PICK b : b = Alive(s) /\ b \in BOOLEAN
      BY DEF Alive
    <2>3. e[s] = [gens[s] EXCEPT !.orphan = b, !.act = 0, !.managed = TRUE, !.reported = FALSE]
      BY <1>2, <2>2 DEF Orphaned, Gens
    <2>4. e[s] \in Generation
      BY <2>1, <2>2, <2>3, IdleTyped DEF Generation
    <2>5. gens[s].stage # "dead" => e[s].orphan
      BY <2>1, <2>2, <2>3 DEF Generation, Alive
    <2> QED
      BY <2>1, <2>3, <2>4, <2>5 DEF Generation, SameOrigin
  <1>3. e \in Seq(Generation)
    <2>1. e = [s \in 1..Len(gens) |-> e[s]]
      BY <1>0, <1>1 DEF Orphaned, Gens
    <2>2. e \in [1..Len(gens) -> Generation]
      BY <1>0, <1>2, <2>1 DEF Gens
    <2> QED
      BY <1>0, <2>2, SeqDef
  <1>4. Len(e) = Len(gens)
    BY <1>0, <1>1, <1>3
  <1> QED
    BY <1>0, <1>1, <1>2, <1>3, <1>4 DEF Gens

\* A task that is left alone, and the table grows or stays.
LEMMA TasksStay ==
    ASSUME HostTypeOK, TableTyped', Len(gens) <= Len(gens')
    PROVE  /\ start' = start => StartTyped(gens', start')
           /\ act' = act => ActTyped(gens', act')
           /\ restart' = restart => RestartTyped(gens', restart')
           /\ start' = IdleStart => StartTyped(gens', start')
           /\ act' = IdleAct => ActTyped(gens', act')
           /\ restart' = IdleRestart => RestartTyped(gens', restart')
  BY GrownFits, IdleFits DEF HostTypeOK, TableTyped

\* What is written to activation.json is a state of the Host.
LEMMA WriteTyped ==
    ASSUME DataTyped, NEW snap \in Recorded, WriteLands(snap) \/ WriteFails(snap)
    PROVE  file' \in Recorded /\ faults' \in Nat
  BY DEF DataTyped, WriteLands, WriteFails, Fault

\* The count of failures stays one.
LEMMA FaultTyped == ASSUME DataTyped, Fault PROVE faults' \in Nat
  BY DEF DataTyped, Fault

\* recordCrash makes a state of the Host.
LEMMA CrashTyped ==
    ASSUME state \in Recorded, NEW n \in Recent(state.crashes)
    PROVE  /\ Crashed(n) \in Recorded
           /\ Crashed(n).activation = state.activation
  <1>1. n \in 0..(MaxCrashes + 1)
    BY HostAssumption DEF Recent, HostState, Recorded
  <1>2. PICK m : m = IF n > MaxCrashes THEN n ELSE n + 1
    OBVIOUS
  <1>3. m \in 0..(MaxCrashes + 1)
    BY <1>1, <1>2, HostAssumption
  <1>4. Crashed(n) = [state EXCEPT !.crashes = m]
    BY <1>2 DEF Crashed
  <1> QED
    BY <1>3, <1>4 DEF HostState, Recorded

\* stopSession of s.
LEMMA StopTyped ==
    ASSUME TableTyped, NEW s \in 0..Len(gens), NEW a \in 0..Len(gens), StopSession(s, a)
    PROVE  /\ TableTyped' /\ Len(gens') = Len(gens)
           /\ \/ gens' = gens /\ (s = 0 \/ gens[s].stage = "dead")
              \/ s \in Gens /\ gens[s].stage # "dead" /\ gens' = TerminatedIn(gens, s)
  <1>1. 0 \in 0..Len(gens) /\ DOMAIN gens = 1..Len(gens)
    BY DEF TableTyped
  <1>2. active' \in 0..Len(gens) /\ deadline' \in Nat
    BY <1>1 DEF StopSession, TableTyped
  <1>3. CASE Gone(s)
    BY <1>2, <1>3 DEF StopSession, TableTyped, Gone
  <1>4. CASE ~Gone(s)
    <2>1. s \in Gens /\ gens[s].stage # "dead"
      BY <1>1, <1>4 DEF Gone, Gens
    <2>2. gens' = TerminatedIn(gens, s)
      BY <1>4 DEF StopSession, TerminatedIn
    <2>3. Edited(gens, gens', s)
      BY <2>1, <2>2, TerminatedTable DEF TableTyped, Gens
    <2> QED
      BY <1>2, <2>1, <2>2, <2>3 DEF TableTyped, Edited
  <1> QED
    BY <1>3, <1>4

\* the activation is written into the state and into the task
LEMMA PersistTyped ==
    ASSUME HostTypeOK, act.pc # "idle", NEW target \in Releases, NEW ph \in Phases,
           NEW pc \in ActPcs, Persist(target, ph, pc)
    PROVE  /\ state' \in Recorded /\ state'.activation = Activation(target, ph)
           /\ state'.crashes = state.crashes
           /\ state'.activation \in ActivationState
           /\ state'.activation.q = act.q /\ act.q # 0 /\ act.q \in Requests
           /\ act' \in ActTask
           /\ act'.pc = pc /\ act'.q = act.q /\ act'.old = act.old /\ act'.cand = act.cand
           /\ act'.gen = act.gen /\ act'.target = target /\ act'.snap = state'
  <1>1. act \in ActTask /\ act.q # 0 /\ act.old \in DOMAIN gens /\ state \in Recorded
    BY DEF HostTypeOK, ActTyped, StateTyped
  <1>2. act.q \in 0..MaxRequests /\ act.q \in Requests
    BY <1>1, HostAssumption DEF ActTask, Requests
  <1>3. gens[act.old] \in Generation
    BY <1>1 DEF HostTypeOK, TableTyped
  <1>4. Previous \in Releases
    BY <1>3 DEF Previous, Generation
  <1>5. PICK r : r = Activation(target, ph)
    OBVIOUS
  <1>6. r \in ActivationState /\ r.q = act.q
    BY <1>2, <1>4, <1>5 DEF Activation, ActivationState
  <1>7. state' = [state EXCEPT !.activation = r]
    BY <1>5 DEF Persist
  <1>8. state' \in Recorded /\ state'.activation = r /\ state'.crashes = state.crashes
    BY <1>1, <1>6, <1>7 DEF HostState, Recorded
  <1>9. act' = [act EXCEPT !.pc = pc, !.target = target, !.snap = state']
    BY DEF Persist
  <1>10. PICK x : x = state'
    OBVIOUS
  <1>11. act' = [act EXCEPT !.pc = pc, !.target = target, !.snap = x]
    BY <1>9, <1>10
  <1>12. /\ act' \in ActTask
         /\ act'.pc = pc /\ act'.q = act.q /\ act'.old = act.old /\ act'.cand = act.cand
         /\ act'.gen = act.gen /\ act'.target = target /\ act'.snap = x
    BY <1>1, <1>8, <1>10, <1>11 DEF ActTask
  <1> QED
    BY <1>1, <1>2, <1>5, <1>6, <1>8, <1>10, <1>12

\* The catch of activate() keeps the types.
LEMMA CaughtTyped ==
    ASSUME HostTypeOK, act.pc # "idle", NEW b, NEW c \in 0..Len(gens),
           NEW a \in 0..Len(gens), Caught(b, c, a), start' = start
    PROVE  /\ TableTyped' /\ Len(gens') = Len(gens)
           /\ StateTyped' /\ ActTyped(gens', act')
           /\ act'.q = act.q \/ act' = IdleAct
  <1>0. /\ TableTyped /\ act \in ActTask /\ act.q # 0 /\ act.old \in DOMAIN gens
        /\ act.target \in Releases /\ c \in Nat
        /\ DOMAIN gens = 1..Len(gens)
    BY DEF HostTypeOK, ActTyped, TableTyped, ActTask
  <1>1. CASE StopSession(c, a) /\ UNCHANGED state
              /\ act' \in {IdleAct, [act EXCEPT !.pc = "stopping", !.gen = c],
                           [act EXCEPT !.pc = "rbVerify", !.cand = c]}
    <2>1. TableTyped' /\ Len(gens') = Len(gens)
      BY <1>0, <1>1, StopTyped
    <2>2. DOMAIN gens' = DOMAIN gens
      BY <1>0, <2>1 DEF TableTyped
    <2>3. ASSUME act' = [act EXCEPT !.pc = "stopping", !.gen = c]
          PROVE  ActTyped(gens', act') /\ act'.q = act.q
      <3>1. /\ act' \in ActTask /\ act'.pc = "stopping" /\ act'.q = act.q
            /\ act'.old = act.old /\ act'.cand = act.cand
        BY <1>0, <2>3 DEF ActTask, ActPcs
      <3>2. act.cand \in 0..Len(gens)
        BY DEF HostTypeOK, ActTyped
      <3> QED
        BY <1>0, <2>1, <2>2, <3>1, <3>2 DEF ActTyped, Testing
    <2>4. ASSUME act' = [act EXCEPT !.pc = "rbVerify", !.cand = c]
          PROVE  ActTyped(gens', act') /\ act'.q = act.q
      <3>1. /\ act' \in ActTask /\ act'.pc = "rbVerify" /\ act'.q = act.q
            /\ act'.old = act.old /\ act'.cand = c
        BY <1>0, <2>4 DEF ActTask, ActPcs
      <3> QED
        BY <1>0, <2>1, <2>2, <3>1 DEF ActTyped, Testing
    <2> QED
      BY <1>1, <2>1, <2>3, <2>4, IdleFits DEF HostTypeOK, StateTyped, TableTyped
  <1>2. CASE Persist(act.target, "failed", "wFailed") /\ UNCHANGED <<gens, active, deadline>>
    <2>1. "failed" \in Phases /\ "wFailed" \in ActPcs
      BY DEF Phases, Terminal, ActPcs
    <2>2. /\ state' \in Recorded /\ state'.activation.q = act.q
          /\ act' \in ActTask /\ act'.pc = "wFailed" /\ act'.q = act.q
          /\ act'.old = act.old /\ act'.cand = act.cand
      BY <1>0, <1>2, <2>1, PersistTyped
    <2> QED
      BY <1>0, <1>2, <2>2 DEF TableTyped, StateTyped, ActTyped, HostTypeOK, Testing
  <1> QED
    BY <1>1, <1>2 DEF Caught

\* The catch of rollback() makes a task and a state.
LEMMA RollbackThrowsTyped ==
    ASSUME HostTypeOK, act.pc # "idle", NEW a \in 0..Len(gens), RollbackThrows(a),
           gens' = gens, deadline' \in Nat, start' = start
    PROVE  /\ TableTyped' /\ StateTyped' /\ ActTyped(gens', act')
  <1>0. /\ TableTyped /\ act \in ActTask /\ act.q # 0 /\ act.old \in DOMAIN gens
        /\ act.cand \in 0..Len(gens)
    BY DEF HostTypeOK, ActTyped, TableTyped, ActTask
  <1>1. TableTyped'
    BY <1>0 DEF TableTyped, RollbackThrows
  <1>2. CASE act' = IdleAct /\ UNCHANGED state
    BY <1>0, <1>1, <1>2, IdleFits DEF HostTypeOK, StateTyped, TableTyped
  <1>3. CASE Persist(reqs[act.q].target, "failed", "wRollbackFailed")
    <2>1. act.q \in Requests
      BY <1>0, HostAssumption DEF ActTask, Requests
    <2>2. reqs[act.q].target \in Releases
      BY <2>1 DEF HostTypeOK, DataTyped, Request
    <2>3. "failed" \in Phases /\ "wRollbackFailed" \in ActPcs
      BY DEF Phases, Terminal, ActPcs
    <2>4. /\ state' \in Recorded /\ state'.activation.q = act.q
          /\ act' \in ActTask /\ act'.pc = "wRollbackFailed" /\ act'.q = act.q
          /\ act'.old = act.old /\ act'.cand = act.cand
      BY <1>0, <1>3, <2>2, <2>3, PersistTyped
    <2> QED
      BY <1>0, <1>1, <2>4 DEF TableTyped, StateTyped, ActTyped, HostTypeOK, Testing
  <1> QED
    BY <1>1, <1>2, <1>3 DEF RollbackThrows

\* The Host process ends.
LEMMA HostEndsTyped ==
    ASSUME HostTypeOK, NEW p \in {"down", "closed"}, HostEnds(p),
           file' \in Recorded, faults' \in Nat, UNCHANGED <<current, database, early, starts>>
    PROVE  HostTypeOK'
  <1>1. TableTyped'
    BY OrphanedTable DEF HostTypeOK, TableTyped, HostEnds
  <1>2. DataTyped'
    BY DEF HostTypeOK, DataTyped, HostEnds, database
  <1>3. StateTyped'
    <2>1. state' = InitialState /\ start' = IdleStart
      BY DEF HostEnds
    <2>2. InitialState.activation.q = 0 /\ InitialState.activation.phase = "none"
      BY DEF InitialState, NoActivation
    <2> QED
      BY <2>1, <2>2, IdleTyped DEF StateTyped
  <1> QED
    BY <1>1, <1>2, <1>3, IdleTyped, IdleFits DEF HostTypeOK, HostEnds, TableTyped

\* What the parts of HostTypeOK say, for citation.
LEMMA Typed ==
    HostTypeOK =>
      /\ gens \in Seq(Generation) /\ DOMAIN gens = 1..Len(gens) /\ Len(gens) \in Nat
      /\ active \in 0..Len(gens) /\ deadline \in Nat
      /\ state \in Recorded /\ state.activation \in ActivationState
      /\ file \in Recorded /\ file.activation \in ActivationState
      /\ current \in Releases /\ faults \in Nat
      /\ start \in StartTask /\ start.snap \in Recorded
      /\ act \in ActTask /\ act.snap \in Recorded /\ act.cand \in 0..Len(gens)
      /\ act.target \in Releases
      /\ restart \in RestartTask /\ restart.snap \in Recorded
      /\ act.pc # "idle" => act.q # 0 /\ act.q \in Requests /\ act.old \in DOMAIN gens
                             /\ Previous \in Releases /\ reqs[act.q].target \in Releases
  <1> SUFFICES ASSUME HostTypeOK PROVE  Typed!2
    OBVIOUS
  <1>1. /\ gens \in Seq(Generation) /\ DOMAIN gens = 1..Len(gens) /\ Len(gens) \in Nat
        /\ active \in 0..Len(gens) /\ deadline \in Nat
    BY DEF HostTypeOK, TableTyped
  <1>2. /\ state \in Recorded /\ state.activation \in ActivationState
        /\ file \in Recorded /\ file.activation \in ActivationState
        /\ current \in Releases /\ faults \in Nat
    BY DEF HostTypeOK, StateTyped, DataTyped, HostState, Recorded
  <1>3. /\ start \in StartTask /\ start.snap \in Recorded
        /\ act \in ActTask /\ act.snap \in Recorded /\ act.cand \in 0..Len(gens)
        /\ act.target \in Releases
        /\ restart \in RestartTask /\ restart.snap \in Recorded
    BY DEF HostTypeOK, StartTyped, ActTyped, RestartTyped, StartTask, ActTask, RestartTask
  <1>4. ASSUME act.pc # "idle"
        PROVE  /\ act.q # 0 /\ act.q \in Requests /\ act.old \in DOMAIN gens
               /\ Previous \in Releases /\ reqs[act.q].target \in Releases
    <2>1. act.q # 0 /\ act.old \in DOMAIN gens
      BY <1>4 DEF HostTypeOK, ActTyped
    <2>2. act.q \in Requests
      BY <1>3, <2>1, HostAssumption DEF ActTask, Requests
    <2>3. reqs[act.q] \in Request
      BY <2>2 DEF HostTypeOK, DataTyped
    <2>4. gens[act.old] \in Generation
      BY <1>1, <2>1
    <2> QED
      BY <2>1, <2>2, <2>3, <2>4 DEF Previous, Request, Generation
  <1> QED
    BY <1>1, <1>2, <1>3, <1>4

\* HostStart keeps the types.
LEMMA TypeHostStart == HostTypeOK /\ HostStart => HostTypeOK'
  <1> SUFFICES ASSUME HostTypeOK, HostStart PROVE HostTypeOK'
    OBVIOUS
  <1>0. starts' \in Nat
    BY DEF HostTypeOK, DataTyped, HostStart
  <1>1. PICK n \in Recent(file.crashes) :
          IF n > MaxCrashes
          THEN /\ phase' = "down"
               /\ UNCHANGED <<file, gens, active, state, start, faults>>
          ELSE /\ file' = [file EXCEPT !.crashes = n]
               /\ \/ /\ phase' = "up"
                     /\ state' = file'
                     /\ gens' = Spawned(current, file.activation.q)
                     /\ active' = NewGen
                     /\ start' = [IdleStart EXCEPT !.pc = "starting",
                                                   !.gen = NewGen]
                     /\ UNCHANGED faults
                  \/ /\ Fault /\ phase' = "down"
                     /\ UNCHANGED <<gens, active, state, start>>
    BY DEF HostStart
  <1>2. CASE n > MaxCrashes
    BY <1>0, <1>1, <1>2 DEF HostTypeOK, DataTyped, TableTyped, StateTyped, HostStart, database
  <1>3. CASE ~(n > MaxCrashes)
    <2>1. n \in 0..(MaxCrashes + 1)
      BY Typed, HostAssumption DEF Recent, HostState, Recorded
    <2>2. file' = [file EXCEPT !.crashes = n]
      BY <1>1, <1>3
    <2>3. file' \in Recorded /\ file'.activation = file.activation
      BY <2>1, <2>2, Typed DEF HostState, Recorded
    <2>4. CASE Fault /\ phase' = "down" /\ UNCHANGED <<gens, active, state, start>>
      BY <1>0, <2>3, <2>4, FaultTyped
      DEF HostTypeOK, DataTyped, TableTyped, StateTyped, HostStart, database
    <2>5. CASE /\ phase' = "up" /\ state' = file'
               /\ gens' = Spawned(current, file.activation.q)
               /\ active' = NewGen
               /\ start' = [IdleStart EXCEPT !.pc = "starting", !.gen = NewGen]
               /\ UNCHANGED faults
      <3>1. file.activation.q \in 0..MaxRequests
        BY Typed DEF ActivationState
      <3>2. /\ gens' \in Seq(Generation) /\ Len(gens') = NewGen /\ NewGen = Len(gens) + 1
            /\ NewGen \in DOMAIN gens'
        BY <2>5, <3>1, SpawnedTable, Typed
      <3>3. TableTyped' /\ Len(gens) <= Len(gens') /\ NewGen \in Nat
        BY <2>5, <3>2, Typed DEF TableTyped, HostStart
      <3>4. start' \in StartTask /\ start'.pc = "starting" /\ start'.gen = NewGen
        BY <2>5, <3>3, IdleTyped DEF StartTask
      <3>5. DataTyped'
        BY <1>0, <2>3, <2>5 DEF DataTyped, HostTypeOK, HostStart, database
      <3>6. StateTyped'
        BY <2>3, <2>5, <3>4 DEF StateTyped
      <3> QED
        BY <3>2, <3>3, <3>4, <3>5, <3>6, TasksStay DEF HostTypeOK, StartTyped, HostStart
    <2> QED
      BY <1>1, <1>3, <2>4, <2>5
  <1> QED
    BY <1>2, <1>3

\* unexpectedExit: the types, and what happens to the table d.
LEMMA ReportTyped ==
    ASSUME HostTypeOK, NEW d \in Seq(Generation), Len(d) = Len(gens), NEW s \in Gens,
           ReportExit(d, s)
    PROVE  /\ TableTyped' /\ Len(gens') = Len(gens) /\ gens' = ReportedIn(d, s)
           /\ state' \in Recorded /\ state'.activation = state.activation
           /\ exits' \subseteq ExitTask
  <1>1. gens' = ReportedIn(d, s)
    BY DEF ReportExit, ReportedIn
  <1>2. s \in DOMAIN d /\ s \in Nat
    BY Typed DEF Gens
  <1>3. gens' \in Seq(Generation) /\ Len(gens') = Len(gens)
    BY <1>1, <1>2, ReportedTable DEF Edited
  <1>4. active' \in 0..Len(gens') /\ deadline' \in Nat
    BY <1>3, Typed DEF ReportExit
  <1>5. CASE UNCHANGED <<state, exits>>
    BY <1>1, <1>3, <1>4, <1>5 DEF TableTyped, HostTypeOK, StateTyped
  <1>6. ASSUME NEW n \in Recent(state.crashes), state' = Crashed(n),
               exits' = exits \cup {[gen |-> s, snap |-> state']}
        PROVE  state' \in Recorded /\ state'.activation = state.activation
               /\ exits' \subseteq ExitTask
    <2>1. state' \in Recorded /\ state'.activation = state.activation
      BY <1>6, CrashTyped, Typed
    <2>2. PICK x : x = state'
      OBVIOUS
    <2>3. [gen |-> s, snap |-> x] \in ExitTask
      BY <1>2, <2>1, <2>2 DEF ExitTask
    <2>4. exits' = exits \cup {[gen |-> s, snap |-> x]} /\ exits \subseteq ExitTask
      BY <1>6, <2>2 DEF HostTypeOK
    <2> QED
      BY <2>1, <2>3, <2>4
  <1> QED
    BY <1>1, <1>3, <1>4, <1>5, <1>6 DEF ReportExit, TableTyped

\* finishExit makes a table and a state.
LEMMA ProcessExitsTyped ==
    ASSUME HostTypeOK, NEW s \in Gens, ProcessExits(s)
    PROVE  /\ TableTyped' /\ Len(gens') = Len(gens)
           /\ state' \in Recorded /\ state'.activation = state.activation
           /\ exits' \subseteq ExitTask
  <1>1. PICK d : d = Exited(gens, s)
    OBVIOUS
  <1>2. Edited(gens, d, s)
    BY <1>1, Typed, ExitedTable DEF Gens
  <1>3. CASE gens' = d /\ UNCHANGED <<active, deadline, state, exits>>
    BY <1>2, <1>3 DEF HostTypeOK, TableTyped, StateTyped, Edited
  <1>4. CASE ReportExit(d, s)
    BY <1>2, <1>4, ReportTyped DEF Edited
  <1> QED
    BY <1>1, <1>3, <1>4 DEF ProcessExits

\* allowUnexpectedExitRecovery makes a table and a state.
LEMMA AllowTyped ==
    ASSUME HostTypeOK, NEW d \in Seq(Generation), Len(d) = Len(gens), NEW s \in Gens,
           AllowRecovery(d, s)
    PROVE  /\ TableTyped' /\ Len(gens') = Len(gens)
           /\ state' \in Recorded /\ state'.activation = state.activation
           /\ exits' \subseteq ExitTask
  <1>1. PICK h : h = [d EXCEPT ![s].managed = FALSE]
    OBVIOUS
  <1>2. PICK b : b = FALSE
    OBVIOUS
  <1>3. h = ManagedIn(d, s, b) /\ b \in BOOLEAN
    BY <1>1, <1>2 DEF ManagedIn
  <1>4. s \in DOMAIN d
    BY Typed DEF Gens
  <1>5. Edited(d, h, s)
    BY <1>3, <1>4, ManagedTable
  <1>6. CASE gens' = h /\ UNCHANGED <<active, deadline, state, exits>>
    BY <1>5, <1>6 DEF HostTypeOK, TableTyped, StateTyped, Edited
  <1>7. CASE ReportExit(h, s)
    BY <1>5, <1>7, ReportTyped DEF Edited
  <1> QED
    BY <1>1, <1>6, <1>7 DEF AllowRecovery

\* The parts put together, when the table has not shrunk.
LEMMA TypeParts ==
    ASSUME HostTypeOK, TableTyped', Len(gens) <= Len(gens'), DataTyped', StateTyped',
           start' = start \/ start' = IdleStart \/ StartTyped(gens', start'),
           act' = act \/ act' = IdleAct \/ ActTyped(gens', act'),
           restart' = restart \/ restart' = IdleRestart \/ RestartTyped(gens', restart'),
           exits' \subseteq ExitTask, closing' \in CloseTask
    PROVE  HostTypeOK'
  BY TasksStay DEF HostTypeOK

\* A table with an answer more is a table.
LEMMA SentTyped ==
    ASSUME HostTypeOK, NEW d \in Seq(Generation), Len(d) = Len(gens), NEW s \in Gens,
           NEW q \in Requests, NEW status \in Statuses, NEW release \in Releases
    PROVE  /\ Sent(d, s, q, status, release) \in Seq(Generation)
           /\ Len(Sent(d, s, q, status, release)) = Len(gens)
  <1>1. s \in DOMAIN d
    BY Typed DEF Gens
  <1>2. PICK e : e = Sent(d, s, q, status, release)
    OBVIOUS
  <1>3. Edited(d, e, s)
    BY <1>1, <1>2, SentTable
  <1> QED
    BY <1>2, <1>3 DEF Edited

\* StartReady keeps the types.
LEMMA TypeStartReady == HostTypeOK /\ StartReady => HostTypeOK'
  <1> SUFFICES ASSUME HostTypeOK, StartReady PROVE HostTypeOK'
    OBVIOUS
  <1>1. PICK s, g, b : s = start.gen /\ g = ManagedIn(gens, s, b) /\ b = FALSE
    OBVIOUS
  <1>2. s \in Gens /\ s \in Nat /\ start.pc = "starting" /\ b \in BOOLEAN
    BY <1>1, Typed DEF StartReady, HostTypeOK, StartTyped, Gens, StartTask
  <1>3. g \in Seq(Generation) /\ Len(g) = Len(gens)
    BY <1>1, <1>2, Typed, ManagedTable DEF Edited, Gens
  <1>4. DataTyped' /\ active' = active /\ deadline' \in Nat /\ exits' = exits
        /\ UNCHANGED <<act, restart, closing>>
    BY <1>1, <1>2 DEF StartReady, HostTypeOK, DataTyped, disk, database, bounds
  <1>5. CASE state.activation.phase \in Terminal \cup {"none"}
    <2>1. /\ gens' = IF state.activation.q = 0 THEN g ELSE Answered(g, s, state.activation)
          /\ start' = IdleStart /\ state' = state
      BY <1>1, <1>5 DEF StartReady, ManagedIn
    <2>2. gens' \in Seq(Generation) /\ Len(gens') = Len(gens)
      <3>1. CASE state.activation.q = 0
        BY <1>3, <2>1, <3>1
      <3>2. CASE state.activation.q # 0
        <4>1. /\ state.activation.q \in Requests /\ StatusOf(state.activation) \in Statuses
              /\ ReleaseOf(state.activation) \in Releases
          BY <3>2, Typed, AnswerTyped
        <4> QED
          BY <1>2, <1>3, <2>1, <3>2, <4>1, SentTyped DEF Answered
      <3> QED
        BY <3>1, <3>2
    <2>3. TableTyped' /\ Len(gens) <= Len(gens') /\ StateTyped'
      BY <1>4, <2>1, <2>2, Typed, IdleTyped DEF TableTyped, StateTyped
    <2> QED
      BY <1>4, <2>1, <2>3, TypeParts DEF HostTypeOK
  <1>6. CASE state.activation.phase \notin Terminal \cup {"none"}
    <2>1. /\ gens' = g
          /\ state' = [state EXCEPT !.activation = Reconciled(@, s)]
          /\ start' = [start EXCEPT !.pc = "reconciling", !.snap = state']
      BY <1>1, <1>6 DEF StartReady, ManagedIn
    <2>2. PICK a : a = Reconciled(state.activation, s)
      OBVIOUS
    <2>3. state.activation.q # 0
      BY <1>6, Typed DEF Recorded
    <2>4. a \in ActivationState /\ a.q = state.activation.q
      BY <2>2, Typed DEF Reconciled, ActivationState, Phases, Terminal
    <2>5. state' = [state EXCEPT !.activation = a]
      BY <2>1, <2>2
    <2>6. state' \in Recorded /\ state'.activation.q # 0
      BY <2>3, <2>4, <2>5, Typed DEF Recorded, HostState
    <2>7. PICK x : x = state'
      OBVIOUS
    <2>8. start' = [start EXCEPT !.pc = "reconciling", !.snap = x]
      BY <2>1, <2>7
    <2>9. start' \in StartTask /\ start'.gen = s /\ start'.pc = "reconciling"
      BY <1>1, <2>6, <2>7, <2>8, Typed DEF StartTask
    <2>10. TableTyped' /\ Len(gens) <= Len(gens') /\ StateTyped'
      BY <1>3, <1>4, <2>1, <2>6, Typed DEF TableTyped, StateTyped
    <2>11. StartTyped(gens', start')
      BY <1>2, <1>3, <2>1, <2>9, Typed DEF StartTyped, Gens
    <2> QED
      BY <1>4, <2>10, <2>11, TypeParts DEF HostTypeOK
  <1> QED
    BY <1>5, <1>6

\* StartReconciled keeps the types.
LEMMA TypeStartReconciled == HostTypeOK /\ StartReconciled => HostTypeOK'
  <1> SUFFICES ASSUME HostTypeOK, StartReconciled PROVE HostTypeOK'
    OBVIOUS
  <1>1. start.gen \in Gens /\ state.activation.q # 0
    BY DEF StartReconciled, HostTypeOK, StartTyped, StateTyped, Gens
  <1>2. /\ state.activation.q \in Requests /\ StatusOf(state.activation) \in Statuses
        /\ ReleaseOf(state.activation) \in Releases
    BY <1>1, Typed, AnswerTyped
  <1>3. gens' \in Seq(Generation) /\ Len(gens') = Len(gens)
    BY <1>1, <1>2, Typed, SentTyped DEF StartReconciled, Answered
  <1>4. TableTyped' /\ Len(gens) <= Len(gens') /\ StateTyped'
    BY <1>3, Typed, IdleTyped DEF StartReconciled, TableTyped, StateTyped
  <1>5. file' \in Recorded /\ faults' \in Nat
    BY Typed, WriteTyped DEF StartReconciled, HostTypeOK
  <1>6. DataTyped'
    BY <1>5 DEF StartReconciled, HostTypeOK, DataTyped, database
  <1> QED
    BY <1>4, <1>6, TypeParts DEF StartReconciled, HostTypeOK

\* StartFails keeps the types.
LEMMA TypeStartFails == HostTypeOK /\ StartFails => HostTypeOK'
  <1> SUFFICES ASSUME HostTypeOK, StartFails PROVE HostTypeOK'
    OBVIOUS
  <1>1. PICK a : a \in 0..Len(gens) /\ StartThrows(a)
    BY Typed DEF StartFails, ActiveWithout
  <1>2. gens' \in Seq(Generation) /\ Len(gens') = Len(gens)
    <2>1. CASE gens' = gens
      BY <2>1, Typed
    <2>2. CASE a # 0 /\ gens' = [gens EXCEPT ![a].managed = TRUE, ![a].killed = TRUE]
      <3>1. a \in DOMAIN gens /\ gens' = TerminatedIn(gens, a)
        BY <1>1, <2>2, Typed DEF TerminatedIn
      <3> QED
        BY <3>1, Typed, TerminatedTable DEF Edited
    <2> QED
      BY <1>1, <2>1, <2>2 DEF StartThrows, Gone
  <1>3. start' \in StartTask /\ start'.pc = "stopping"
    <2>1. a \in Nat /\ start \in StartTask
      BY <1>1, Typed
    <2>2. start' = [start EXCEPT !.pc = "stopping", !.gen = a]
      BY <1>1 DEF StartThrows
    <2> QED
      BY <2>1, <2>2 DEF StartTask
  <1>4. TableTyped' /\ Len(gens) <= Len(gens') /\ StateTyped' /\ StartTyped(gens', start')
    BY <1>1, <1>2, <1>3, Typed DEF StartThrows, TableTyped, StateTyped, StartTyped, StartFails
  <1>5. file' \in Recorded /\ faults' \in Nat
    BY Typed, WriteTyped DEF StartFails, HostTypeOK
  <1>6. DataTyped'
    BY <1>1, <1>5 DEF StartFails, StartThrows, HostTypeOK, DataTyped, database
  <1> QED
    BY <1>4, <1>6, TypeParts DEF StartFails, HostTypeOK

\* StartStopped keeps the types.
LEMMA TypeStartStopped == HostTypeOK /\ StartStopped => HostTypeOK'
  <1> SUFFICES ASSUME HostTypeOK, StartStopped PROVE HostTypeOK'
    OBVIOUS
  <1>1. file' \in Recorded /\ faults' \in Nat
    <2>1. CASE \E n \in Recent(state.crashes) : WriteLands(Crashed(n))
      BY <2>1, CrashTyped, Typed DEF WriteLands
    <2>2. CASE Fault /\ UNCHANGED file
      BY <2>2, FaultTyped, Typed DEF HostTypeOK
    <2> QED
      BY <2>1, <2>2 DEF StartStopped
  <1> QED
    BY <1>1, HostEndsTyped DEF StartStopped

\* An activation that ends in its catch.
LEMMA CaughtParts ==
    ASSUME HostTypeOK, act.pc # "idle", NEW b, NEW c \in 0..Len(gens),
           NEW a \in 0..Len(gens), Caught(b, c, a), DataTyped',
           UNCHANGED <<start, restart, exits, closing>>
    PROVE  HostTypeOK'
  <1>1. TableTyped' /\ Len(gens') = Len(gens) /\ StateTyped' /\ ActTyped(gens', act')
    BY CaughtTyped
  <1>2. Len(gens) <= Len(gens')
    BY <1>1, Typed
  <1> QED
    BY <1>1, <1>2, TypeParts DEF HostTypeOK

\* An activation that writes its next phase.
LEMMA PersistParts ==
    ASSUME HostTypeOK, act.pc # "idle", NEW target \in Releases, NEW ph \in Phases,
           NEW pc \in ActPcs, Persist(target, ph, pc), TableTyped', gens' = gens,
           DataTyped', UNCHANGED <<start, restart, exits, closing>>,
           pc \in {"starting", "rbStarting", "wRolledBack"} => act.gen \in DOMAIN gens,
           pc \in Testing => act.cand \in DOMAIN gens
    PROVE  HostTypeOK'
  <1>1. /\ state' \in Recorded /\ state'.activation.q = act.q /\ act.q # 0
        /\ act' \in ActTask
        /\ act'.pc = pc /\ act'.q = act.q /\ act'.old = act.old /\ act'.cand = act.cand
        /\ act'.gen = act.gen
    BY PersistTyped
  <1>2. act.old \in DOMAIN gens /\ act.cand \in 0..Len(gens) /\ Len(gens) <= Len(gens')
    BY Typed
  <1>3. StateTyped' /\ ActTyped(gens', act')
    BY <1>1, <1>2 DEF StateTyped, ActTyped
  <1> QED
    BY <1>2, <1>3, TypeParts DEF HostTypeOK

\* An activation that only moves on.
LEMMA MoveParts ==
    ASSUME HostTypeOK, act.pc # "idle", NEW pc \in ActPcs, NEW c \in 0..Len(gens),
           act' = [act EXCEPT !.pc = pc, !.cand = c] \/ (act' = [act EXCEPT !.pc = pc] /\ c = act.cand),
           TableTyped', Len(gens') = Len(gens), DataTyped',
           UNCHANGED <<state, start, restart, exits, closing>>,
           pc \notin {"starting", "rbStarting", "wRolledBack"},
           pc \in Testing => c \in DOMAIN gens
    PROVE  HostTypeOK'
  <1>0. act \in ActTask /\ c \in Nat
    BY Typed
  <1>1. /\ act' \in ActTask
        /\ act'.pc = pc /\ act'.q = act.q /\ act'.old = act.old /\ act'.cand = c
    BY <1>0 DEF ActTask
  <1>2. /\ act.q # 0 /\ act.old \in DOMAIN gens
        /\ Len(gens) <= Len(gens') /\ DOMAIN gens' = DOMAIN gens
    BY Typed DEF TableTyped
  <1>3. StateTyped' /\ ActTyped(gens', act')
    BY <1>1, <1>2 DEF StateTyped, ActTyped, HostTypeOK
  <1> QED
    BY <1>2, <1>3, TypeParts DEF HostTypeOK

\* A fork makes a table and a task.
LEMMA ForkTyped ==
    ASSUME HostTypeOK, act.pc # "idle", NEW release \in Releases,
           NEW pc \in {"starting", "rbStarting"}, Fork(release, pc), deadline' \in Nat,
           DataTyped', UNCHANGED <<state, start, restart, exits, closing>>
    PROVE  HostTypeOK'
  <1>1. act \in ActTask /\ act.q \in 0..MaxRequests /\ act.q # 0 /\ act.old \in DOMAIN gens
        /\ act.cand \in 0..Len(gens)
    BY Typed DEF ActTask
  <1>2. /\ gens' \in Seq(Generation) /\ Len(gens') = NewGen /\ NewGen = Len(gens) + 1
        /\ NewGen \in DOMAIN gens'
    BY <1>1, SpawnedTable, Typed DEF Fork
  <1>3. TableTyped' /\ Len(gens) <= Len(gens') /\ NewGen \in Nat /\ DOMAIN gens \subseteq DOMAIN gens'
    BY <1>2, Typed DEF TableTyped, Fork
  <1>4. /\ act' \in ActTask /\ act'.pc = pc /\ act'.gen = NewGen /\ act'.old = act.old
        /\ act'.q = act.q /\ act'.cand = act.cand
    BY <1>1, <1>3 DEF Fork, ActTask, ActPcs
  <1>5. ActTyped(gens', act')
    <2>1. act'.cand \in 0..Len(gens')
      BY <1>1, <1>3, <1>4, Typed
    <2> QED
      BY <1>1, <1>2, <1>3, <1>4, <2>1 DEF ActTyped, Testing
  <1> QED
    BY <1>3, <1>5, TypeParts DEF HostTypeOK, StateTyped

\* ActResolved keeps the types.
LEMMA TypeActResolved == HostTypeOK /\ ActResolved => HostTypeOK'
  <1> SUFFICES ASSUME HostTypeOK, ActResolved PROVE HostTypeOK'
    OBVIOUS
  <1>1. DataTyped'
    BY FaultTyped DEF ActResolved, HostTypeOK, DataTyped, disk, database
  <1>2. act.pc # "idle" /\ reqs[act.q].target \in Releases /\ 0 \in 0..Len(gens)
        /\ active \in 0..Len(gens) /\ UNCHANGED <<start, restart, exits, closing>>
    BY Typed DEF ActResolved
  <1>3. CASE Persist(reqs[act.q].target, "validating", "wValidating")
             /\ UNCHANGED <<gens, active, deadline>>
    <2>1. TableTyped'
      BY <1>3 DEF TableTyped, HostTypeOK
    <2> QED
      BY <1>1, <1>2, <1>3, <2>1, PersistParts DEF Phases, ActPcs, Testing
  <1>4. CASE Caught(FALSE, 0, active)
    BY <1>1, <1>2, <1>4, CaughtParts
  <1> QED
    BY <1>3, <1>4 DEF ActResolved

\* ActValidating keeps the types.
LEMMA TypeActValidating == HostTypeOK /\ ActValidating => HostTypeOK'
  <1> SUFFICES ASSUME HostTypeOK, ActValidating PROVE HostTypeOK'
    OBVIOUS
  <1>1. DataTyped'
    BY WriteTyped, Typed DEF ActValidating, HostTypeOK, DataTyped, database
  <1>2. act.pc # "idle" /\ 0 \in 0..Len(gens) /\ act.cand \in 0..Len(gens)
        /\ active \in 0..Len(gens) /\ UNCHANGED <<start, restart, exits, closing>>
    BY Typed DEF ActValidating
  <1>3. CASE act' = [act EXCEPT !.pc = "verifying"] /\ UNCHANGED <<gens, active, deadline, state>>
    <2>1. TableTyped'
      BY <1>3 DEF TableTyped, HostTypeOK
    <2> QED
      BY <1>1, <1>2, <1>3, <2>1, MoveParts DEF ActPcs, Testing
  <1>4. CASE Caught(FALSE, 0, active)
    BY <1>1, <1>2, <1>4, CaughtParts
  <1> QED
    BY <1>3, <1>4 DEF ActValidating

\* ActVerified keeps the types.
LEMMA TypeActVerified == HostTypeOK /\ ActVerified => HostTypeOK'
  <1> SUFFICES ASSUME HostTypeOK, ActVerified PROVE HostTypeOK'
    OBVIOUS
  <1>1. DataTyped'
    BY FaultTyped DEF ActVerified, HostTypeOK, DataTyped, disk, database
  <1>2. act.pc # "idle" /\ act.target \in Releases /\ 0 \in 0..Len(gens)
        /\ active \in 0..Len(gens) /\ UNCHANGED <<start, restart, exits, closing>>
    BY Typed DEF ActVerified
  <1>3. CASE Persist(act.target, "draining", "wDraining") /\ UNCHANGED <<gens, active, deadline>>
    <2>1. TableTyped'
      BY <1>3 DEF TableTyped, HostTypeOK
    <2> QED
      BY <1>1, <1>2, <1>3, <2>1, PersistParts DEF Phases, ActPcs, Testing
  <1>4. CASE Caught(FALSE, 0, active)
    BY <1>1, <1>2, <1>4, CaughtParts
  <1> QED
    BY <1>3, <1>4 DEF ActVerified

\* ActDraining keeps the types.
LEMMA TypeActDraining == HostTypeOK /\ ActDraining => HostTypeOK'
  <1> SUFFICES ASSUME HostTypeOK, ActDraining PROVE HostTypeOK'
    OBVIOUS
  <1>1. DataTyped'
    BY WriteTyped, Typed DEF ActDraining, HostTypeOK, DataTyped, database
  <1>2. act.pc # "idle" /\ 0 \in 0..Len(gens) /\ act.cand \in 0..Len(gens)
        /\ active \in 0..Len(gens) /\ UNCHANGED <<start, restart, exits, closing>>
        /\ act.old \in DOMAIN gens
    BY Typed DEF ActDraining
  <1>3. CASE /\ gens' = IF Gone(act.old) THEN gens
                        ELSE [gens EXCEPT ![act.old].managed = TRUE,
                                          ![act.old].killed = TRUE]
             /\ deadline' = 0 /\ act' = [act EXCEPT !.pc = "draining"]
             /\ UNCHANGED <<active, state>>
    <2>1. gens' = gens \/ gens' = TerminatedIn(gens, act.old)
      BY <1>3 DEF TerminatedIn
    <2>2. gens' \in Seq(Generation) /\ Len(gens') = Len(gens)
      BY <1>2, <2>1, Typed, TerminatedTable DEF Edited
    <2>3. TableTyped'
      BY <1>3, <2>2, Typed DEF TableTyped
    <2> QED
      BY <1>1, <1>2, <1>3, <2>2, <2>3, MoveParts DEF ActPcs, Testing
  <1>4. CASE Caught(FALSE, 0, active)
    BY <1>1, <1>2, <1>4, CaughtParts
  <1> QED
    BY <1>3, <1>4 DEF ActDraining

\* ActDrained keeps the types.
LEMMA TypeActDrained == HostTypeOK /\ ActDrained => HostTypeOK'
  <1> SUFFICES ASSUME HostTypeOK, ActDrained PROVE HostTypeOK'
    OBVIOUS
  <1>1. DataTyped' /\ gens' = gens
    BY DEF ActDrained, HostTypeOK, DataTyped, disk, database, bounds
  <1>2. act.pc # "idle" /\ act.target \in Releases
        /\ UNCHANGED <<start, restart, exits, closing>>
    BY Typed DEF ActDrained
  <1>3. TableTyped'
    BY <1>1, Typed DEF ActDrained, ActiveWithout, TableTyped
  <1>4. CASE act' = IdleAct /\ UNCHANGED state
    BY <1>1, <1>2, <1>3, <1>4, Typed, TypeParts DEF HostTypeOK, StateTyped
  <1>5. CASE Persist(act.target, "starting", "wStarting")
    BY <1>1, <1>2, <1>3, <1>5, PersistParts DEF Phases, ActPcs, Testing
  <1> QED
    BY <1>4, <1>5 DEF ActDrained

\* ActStarting keeps the types.
LEMMA TypeActStarting == HostTypeOK /\ ActStarting => HostTypeOK'
  <1> SUFFICES ASSUME HostTypeOK, ActStarting PROVE HostTypeOK'
    OBVIOUS
  <1>1. DataTyped'
    BY WriteTyped, Typed DEF ActStarting, HostTypeOK, DataTyped, database
  <1>2. act.pc # "idle" /\ act.target \in Releases /\ 0 \in 0..Len(gens)
        /\ active \in 0..Len(gens) /\ UNCHANGED <<start, restart, exits, closing>>
    BY Typed DEF ActStarting
  <1>3. CASE act' = IdleAct /\ UNCHANGED <<gens, active, deadline, state>>
    BY <1>1, <1>2, <1>3, Typed, TypeParts DEF HostTypeOK, StateTyped, TableTyped
  <1>4. CASE Fork(act.target, "starting") /\ UNCHANGED <<deadline, state>>
    BY <1>1, <1>2, <1>4, Typed, ForkTyped
  <1>5. CASE Caught(TRUE, 0, active)
    BY <1>1, <1>2, <1>5, CaughtParts
  <1> QED
    BY <1>3, <1>4, <1>5 DEF ActStarting

\* ActStarted keeps the types.
LEMMA TypeActStarted == HostTypeOK /\ ActStarted => HostTypeOK'
  <1> SUFFICES ASSUME HostTypeOK, ActStarted PROVE HostTypeOK'
    OBVIOUS
  <1>1. DataTyped'
    BY DEF ActStarted, HostTypeOK, DataTyped, disk, database, bounds
  <1>2. act.pc # "idle" /\ 0 \in 0..Len(gens) /\ ActiveWithout(act.gen) \in 0..Len(gens)
        /\ UNCHANGED <<start, restart, exits, closing>> /\ act.gen \in DOMAIN gens
    BY Typed DEF ActStarted, ActiveWithout, HostTypeOK, ActTyped
  <1>3. CASE /\ deadline' = act.gen
             /\ act' = [act EXCEPT !.pc = "stabilizing", !.cand = act.gen]
             /\ UNCHANGED <<gens, active, state>>
    <2>1. act.gen \in 0..Len(gens) /\ TableTyped'
      BY <1>2, <1>3, Typed DEF TableTyped
    <2>2. PICK g : g = act.gen
      OBVIOUS
    <2>3. g \in 0..Len(gens) /\ act' = [act EXCEPT !.pc = "stabilizing", !.cand = g]
          /\ g \in DOMAIN gens
      BY <1>2, <1>3, <2>1, <2>2
    <2> QED
      BY <1>1, <1>2, <1>3, <2>1, <2>3, MoveParts DEF ActPcs, Testing
  <1>4. CASE Caught(TRUE, 0, ActiveWithout(act.gen))
    BY <1>1, <1>2, <1>4, CaughtParts
  <1> QED
    BY <1>3, <1>4 DEF ActStarted

\* ActStable keeps the types.
LEMMA TypeActStable == HostTypeOK /\ ActStable => HostTypeOK'
  <1> SUFFICES ASSUME HostTypeOK, ActStable PROVE HostTypeOK'
    OBVIOUS
  <1>1. DataTyped'
    BY DEF ActStable, HostTypeOK, DataTyped, disk, database, bounds
  <1>2. act.pc # "idle" /\ act.cand \in 0..Len(gens) /\ active \in 0..Len(gens)
        /\ UNCHANGED <<start, restart, exits, closing>> /\ act.cand \in DOMAIN gens
        /\ act.target \in Releases
    BY Typed DEF ActStable, HostTypeOK, ActTyped, Testing
  <1>3. CASE Caught(TRUE, act.cand, active)
    BY <1>1, <1>2, <1>3, CaughtParts
  <1>4. CASE UNCHANGED <<gens, active, deadline>>
    <2>1. TableTyped'
      BY <1>4 DEF TableTyped, HostTypeOK
    <2>2. CASE Persist(act.target, "committed", "wCommitted")
      BY <1>1, <1>2, <1>4, <2>1, <2>2, PersistParts DEF Phases, Terminal, ActPcs, Testing
    <2>3. CASE act' = [act EXCEPT !.pc = "committing"] /\ UNCHANGED state
      BY <1>1, <1>2, <1>4, <2>1, <2>3, MoveParts DEF ActPcs, Testing
    <2> QED
      BY <1>3, <2>2, <2>3 DEF ActStable
  <1> QED
    BY <1>3, <1>4 DEF ActStable

\* ActCommitting keeps the types.
LEMMA TypeActCommitting == HostTypeOK /\ ActCommitting => HostTypeOK'
  <1> SUFFICES ASSUME HostTypeOK, ActCommitting PROVE HostTypeOK'
    OBVIOUS
  <1>1. DataTyped'
    BY FaultTyped, Typed DEF ActCommitting, HostTypeOK, DataTyped, database
  <1>2. act.pc # "idle" /\ act.cand \in 0..Len(gens) /\ active \in 0..Len(gens)
        /\ UNCHANGED <<start, restart, exits, closing>> /\ act.cand \in DOMAIN gens
        /\ act.target \in Releases
    BY Typed DEF ActCommitting, HostTypeOK, ActTyped, Testing
  <1>3. CASE Caught(TRUE, act.cand, active)
    BY <1>1, <1>2, <1>3, CaughtParts
  <1>4. CASE UNCHANGED <<gens, active, deadline>> /\ Persist(act.target, "committed", "wCommitted")
    <2>1. TableTyped'
      BY <1>4 DEF TableTyped, HostTypeOK
    <2> QED
      BY <1>1, <1>2, <1>4, <2>1, PersistParts DEF Phases, Terminal, ActPcs, Testing
  <1>5. CASE act' = IdleAct /\ UNCHANGED <<gens, active, deadline, state>>
    BY <1>1, <1>2, <1>5, Typed, TypeParts DEF HostTypeOK, StateTyped, TableTyped
  <1> QED
    BY <1>3, <1>4, <1>5 DEF ActCommitting

\* ActCommitted keeps the types.
LEMMA TypeActCommitted == HostTypeOK /\ ActCommitted => HostTypeOK'
  <1> SUFFICES ASSUME HostTypeOK, ActCommitted PROVE HostTypeOK'
    OBVIOUS
  <1>1. DataTyped'
    BY WriteTyped, Typed DEF ActCommitted, HostTypeOK, DataTyped, database
  <1>2. act.pc # "idle" /\ act.cand \in 0..Len(gens) /\ active \in 0..Len(gens)
        /\ UNCHANGED <<start, restart, exits, closing>> /\ act.cand \in DOMAIN gens
        /\ act.target \in Releases /\ act.q \in Requests
    BY Typed DEF ActCommitted, HostTypeOK, ActTyped, Testing
  <1>3. CASE Caught(TRUE, act.cand, active)
    BY <1>1, <1>2, <1>3, CaughtParts
  <1>4. CASE /\ gens' = Sent([gens EXCEPT ![act.cand].managed = FALSE],
                             act.cand, act.q, "succeeded", act.target)
             /\ act' = IdleAct /\ UNCHANGED <<active, deadline, state>>
    <2>1. PICK d, b : b = FALSE /\ d = ManagedIn(gens, act.cand, b)
      OBVIOUS
    <2>2. b \in BOOLEAN
      BY <2>1
    <2>3. d \in Seq(Generation) /\ Len(d) = Len(gens)
      <3>1. gens \in Seq(Generation)
        BY Typed
      <3>2. Edited(gens, d, act.cand)
        BY <1>2, <2>1, <2>2, <3>1, ManagedTable
      <3> QED
        BY <3>2 DEF Edited
    <2>4. gens' = Sent(d, act.cand, act.q, "succeeded", act.target)
      BY <1>4, <2>1 DEF ManagedIn
    <2>5. gens' \in Seq(Generation) /\ Len(gens') = Len(gens)
      BY <1>2, <2>3, <2>4, SentTyped DEF Statuses, Gens
    <2>6. TableTyped' /\ Len(gens) <= Len(gens')
      BY <1>4, <2>5, Typed DEF TableTyped
    <2> QED
      BY <1>1, <1>2, <1>4, <2>6, Typed, TypeParts DEF HostTypeOK, StateTyped
  <1> QED
    BY <1>3, <1>4 DEF ActCommitted

\* ActFailed keeps the types.
LEMMA TypeActFailed == HostTypeOK /\ ActFailed => HostTypeOK'
  <1> SUFFICES ASSUME HostTypeOK, ActFailed PROVE HostTypeOK'
    OBVIOUS
  <1>1. DataTyped'
    BY WriteTyped, Typed DEF ActFailed, HostTypeOK, DataTyped, database
  <1>2. act.pc # "idle" /\ active \in 0..Len(gens) /\ act.old \in DOMAIN gens
        /\ UNCHANGED <<start, restart, closing>> /\ act.cand \in 0..Len(gens)
        /\ Previous \in Releases /\ act.q \in Requests /\ act.q # 0
    BY Typed DEF ActFailed
  <1>3. CASE /\ AllowRecovery(Sent(gens, act.old, act.q, "failed", Previous), act.old)
             /\ act' = IdleAct /\ UNCHANGED stopped
    <2>1. PICK d : d = Sent(gens, act.old, act.q, "failed", Previous)
      OBVIOUS
    <2>2. d \in Seq(Generation) /\ Len(d) = Len(gens)
      BY <1>2, <2>1, Typed, SentTyped DEF Statuses, Gens
    <2>3. /\ TableTyped' /\ Len(gens') = Len(gens)
          /\ state' \in Recorded /\ state'.activation = state.activation
          /\ exits' \subseteq ExitTask
      BY <1>2, <1>3, <2>1, <2>2, AllowTyped DEF Gens
    <2>4. StateTyped' /\ Len(gens) <= Len(gens')
      BY <1>2, <2>3, Typed DEF HostTypeOK, StateTyped
    <2> QED
      BY <1>1, <1>2, <1>3, <2>3, <2>4, TypeParts DEF HostTypeOK
  <1>4. CASE /\ StopSession(act.old, active)
             /\ act' = [act EXCEPT !.pc = "fatal", !.gen = act.old]
             /\ UNCHANGED <<state, exits>>
    <2>1. act.old \in 0..Len(gens) /\ act.old \in Nat /\ act \in ActTask
      BY <1>2, Typed
    <2>2. TableTyped' /\ Len(gens') = Len(gens)
      BY <1>2, <1>4, <2>1, StopTyped DEF HostTypeOK
    <2>3. /\ act' \in ActTask /\ act'.pc = "fatal" /\ act'.q = act.q /\ act'.old = act.old
          /\ act'.cand = act.cand
      BY <1>4, <2>1 DEF ActTask, ActPcs
    <2>4. Len(gens) <= Len(gens') /\ DOMAIN gens' = DOMAIN gens
      BY <2>2, Typed DEF TableTyped
    <2>5. ActTyped(gens', act')
      BY <1>2, <2>2, <2>3, <2>4 DEF ActTyped, Testing
    <2> QED
      BY <1>1, <1>2, <1>4, <2>2, <2>4, <2>5, TypeParts DEF HostTypeOK, StateTyped
  <1> QED
    BY <1>3, <1>4 DEF ActFailed

\* RollbackVerified keeps the types.
LEMMA TypeRollbackVerified == HostTypeOK /\ RollbackVerified => HostTypeOK'
  <1> SUFFICES ASSUME HostTypeOK, RollbackVerified PROVE HostTypeOK'
    OBVIOUS
  <1>1. DataTyped'
    BY FaultTyped DEF RollbackVerified, HostTypeOK, DataTyped, disk, database
  <1>2. /\ act.pc # "idle" /\ active \in 0..Len(gens) /\ gens' = gens /\ deadline' \in Nat
        /\ UNCHANGED <<start, restart, exits, closing>> /\ act.cand \in 0..Len(gens)
        /\ Len(gens) <= Len(gens')
    BY Typed DEF RollbackVerified
  <1>3. CASE act' = IdleAct /\ UNCHANGED <<active, state>>
    BY <1>1, <1>2, <1>3, Typed, TypeParts DEF HostTypeOK, StateTyped, TableTyped
  <1>4. CASE act' = [act EXCEPT !.pc = "rbCommit"] /\ UNCHANGED <<active, state>>
    <2>1. TableTyped'
      BY <1>2, <1>4, Typed DEF TableTyped
    <2> QED
      BY <1>1, <1>2, <1>4, <2>1, MoveParts DEF ActPcs, Testing
  <1>5. CASE RollbackThrows(active)
    BY <1>1, <1>2, <1>5, RollbackThrowsTyped, TypeParts DEF HostTypeOK
  <1> QED
    BY <1>3, <1>4, <1>5 DEF RollbackVerified

\* RollbackCommitted keeps the types.
LEMMA TypeRollbackCommitted == HostTypeOK /\ RollbackCommitted => HostTypeOK'
  <1> SUFFICES ASSUME HostTypeOK, RollbackCommitted PROVE HostTypeOK'
    OBVIOUS
  <1>0. Previous \in Releases
    BY Typed DEF RollbackCommitted
  <1>1. DataTyped'
    BY <1>0, FaultTyped DEF RollbackCommitted, HostTypeOK, DataTyped, database
  <1>2. /\ act.pc # "idle" /\ active \in 0..Len(gens) /\ deadline' \in Nat
        /\ UNCHANGED <<start, restart, exits, closing>>
    BY Typed DEF RollbackCommitted
  <1>3. CASE act' = IdleAct /\ UNCHANGED <<gens, active, state>>
    BY <1>1, <1>2, <1>3, Typed, TypeParts DEF HostTypeOK, StateTyped, TableTyped
  <1>4. CASE Fork(Previous, "rbStarting") /\ UNCHANGED state
    BY <1>0, <1>1, <1>2, <1>4, Typed, ForkTyped
  <1>5. CASE RollbackThrows(active) /\ UNCHANGED gens
    <2>1. Len(gens) <= Len(gens')
      BY <1>5, Typed
    <2> QED
      BY <1>1, <1>2, <1>5, <2>1, RollbackThrowsTyped, TypeParts DEF HostTypeOK
  <1> QED
    BY <1>3, <1>4, <1>5 DEF RollbackCommitted

\* RollbackStarted keeps the types.
LEMMA TypeRollbackStarted == HostTypeOK /\ RollbackStarted => HostTypeOK'
  <1> SUFFICES ASSUME HostTypeOK, RollbackStarted PROVE HostTypeOK'
    OBVIOUS
  <1>1. DataTyped'
    BY DEF RollbackStarted, HostTypeOK, DataTyped, disk, database, bounds
  <1>2. /\ act.pc # "idle" /\ ActiveWithout(act.gen) \in 0..Len(gens) /\ gens' = gens
        /\ act.gen \in DOMAIN gens /\ Len(gens) <= Len(gens')
        /\ UNCHANGED <<start, restart, exits, closing>> /\ reqs[act.q].target \in Releases
    BY Typed DEF RollbackStarted, ActiveWithout, HostTypeOK, ActTyped
  <1>3. CASE /\ deadline' = act.gen
             /\ Persist(reqs[act.q].target, "rolled_back", "wRolledBack")
             /\ UNCHANGED active
    <2>1. TableTyped'
      BY <1>2, <1>3, Typed DEF TableTyped
    <2> QED
      BY <1>1, <1>2, <1>3, <2>1, PersistParts DEF Phases, Terminal, ActPcs, Testing
  <1>4. CASE RollbackThrows(ActiveWithout(act.gen)) /\ UNCHANGED deadline
    <2>1. deadline' \in Nat
      BY <1>4, Typed
    <2> QED
      BY <1>1, <1>2, <1>4, <2>1, RollbackThrowsTyped, TypeParts DEF HostTypeOK
  <1> QED
    BY <1>3, <1>4 DEF RollbackStarted

\* RolledBack keeps the types.
LEMMA TypeRolledBack == HostTypeOK /\ RolledBack => HostTypeOK'
  <1> SUFFICES ASSUME HostTypeOK, RolledBack PROVE HostTypeOK'
    OBVIOUS
  <1>1. DataTyped'
    BY WriteTyped, Typed DEF RolledBack, HostTypeOK, DataTyped, database
  <1>2. /\ act.pc # "idle" /\ active \in 0..Len(gens) /\ act.gen \in DOMAIN gens
        /\ UNCHANGED <<start, restart, closing>>
        /\ Previous \in Releases /\ act.q \in Requests
    BY Typed DEF RolledBack, HostTypeOK, ActTyped
  <1>3. CASE /\ AllowRecovery(Sent(gens, act.gen, act.q, "rolled_back", Previous), act.gen)
             /\ act' = IdleAct
    <2>1. PICK d : d = Sent(gens, act.gen, act.q, "rolled_back", Previous)
      OBVIOUS
    <2>2. d \in Seq(Generation) /\ Len(d) = Len(gens)
      BY <1>2, <2>1, Typed, SentTyped DEF Statuses, Gens
    <2>3. /\ TableTyped' /\ Len(gens') = Len(gens)
          /\ state' \in Recorded /\ state'.activation = state.activation
          /\ exits' \subseteq ExitTask
      BY <1>2, <1>3, <2>1, <2>2, AllowTyped DEF Gens
    <2>4. StateTyped' /\ Len(gens) <= Len(gens')
      BY <1>2, <2>3, Typed DEF HostTypeOK, StateTyped
    <2> QED
      BY <1>1, <1>2, <1>3, <2>3, <2>4, TypeParts DEF HostTypeOK
  <1>4. CASE RollbackThrows(active) /\ UNCHANGED <<gens, deadline, exits>>
    <2>1. deadline' \in Nat /\ Len(gens) <= Len(gens')
      BY <1>4, Typed
    <2> QED
      BY <1>1, <1>2, <1>4, <2>1, RollbackThrowsTyped, TypeParts DEF HostTypeOK
  <1> QED
    BY <1>3, <1>4 DEF RolledBack

\* RollbackFailed keeps the types.
LEMMA TypeRollbackFailed == HostTypeOK /\ RollbackFailed => HostTypeOK'
  <1> SUFFICES ASSUME HostTypeOK, RollbackFailed PROVE HostTypeOK'
    OBVIOUS
  <1>1. DataTyped'
    BY WriteTyped, Typed DEF RollbackFailed, HostTypeOK, DataTyped, database
  <1>2. /\ act.pc # "idle" /\ active \in 0..Len(gens) /\ act.cand \in 0..Len(gens)
        /\ active \in Nat /\ act \in ActTask /\ act.q # 0 /\ act.old \in DOMAIN gens
        /\ UNCHANGED <<start, restart, exits, closing, state>>
    BY Typed DEF RollbackFailed
  <1>3. TableTyped' /\ Len(gens') = Len(gens)
    BY <1>2, StopTyped DEF HostTypeOK, RollbackFailed
  <1>4. /\ act' \in ActTask /\ act'.pc = "fatal" /\ act'.q = act.q /\ act'.old = act.old
        /\ act'.cand = act.cand
    BY <1>2 DEF RollbackFailed, ActTask, ActPcs
  <1>5. Len(gens) <= Len(gens') /\ DOMAIN gens' = DOMAIN gens
    BY <1>3, Typed DEF TableTyped
  <1>6. ActTyped(gens', act')
    BY <1>2, <1>3, <1>4, <1>5 DEF ActTyped, Testing
  <1> QED
    BY <1>1, <1>2, <1>3, <1>5, <1>6, TypeParts DEF HostTypeOK, StateTyped

\* ActStopped keeps the types.
LEMMA TypeActStopped == HostTypeOK /\ ActStopped => HostTypeOK'
  <1> SUFFICES ASSUME HostTypeOK, ActStopped PROVE HostTypeOK'
    OBVIOUS
  <1>1. /\ UNCHANGED <<current, reqs, lastFence, early, starts>> /\ file' \in Recorded
        /\ faults' \in Nat
    BY Typed DEF ActStopped, disk, database, bounds
  <1>2. CASE HostEnds("down")
    BY <1>1, <1>2, HostEndsTyped DEF database
  <1>3. CASE /\ act' = IdleAct
             /\ UNCHANGED <<gens, phase, stopped, active, deadline, state, start,
                            restart, exits, closing>>
    BY <1>1, <1>3, Typed, TypeParts DEF HostTypeOK, StateTyped, TableTyped, DataTyped
  <1> QED
    BY <1>2, <1>3 DEF ActStopped

\* ExitRecorded keeps the types.
LEMMA TypeExitRecorded == ASSUME NEW e PROVE HostTypeOK /\ ExitRecorded(e) => HostTypeOK'
  <1> SUFFICES ASSUME HostTypeOK, ExitRecorded(e) PROVE HostTypeOK'
    OBVIOUS
  <1>1. e \in ExitTask /\ e.snap \in Recorded /\ e.gen \in Nat
    BY DEF ExitRecorded, HostTypeOK, ExitTask
  <1>2. /\ UNCHANGED <<current, database, early, starts>> /\ file' \in Recorded
        /\ faults' \in Nat
    BY <1>1, WriteTyped DEF ExitRecorded, HostTypeOK
  <1>3. CASE HostEnds("down")
    BY <1>2, <1>3, HostEndsTyped
  <1>4. CASE /\ exits' = exits \ {e}
             /\ restart' = IF restart.pc # "idle" \/ stopped THEN restart
                           ELSE [IdleRestart EXCEPT !.pc = "delaying", !.dead = e.gen]
             /\ UNCHANGED <<gens, phase, stopped, active, deadline, state, start, act, closing>>
    <2>1. ASSUME restart' = [IdleRestart EXCEPT !.pc = "delaying", !.dead = e.gen]
          PROVE  RestartTyped(gens', restart')
      <3>1. restart' \in RestartTask /\ restart'.pc = "delaying"
        BY <1>1, <2>1, IdleTyped DEF RestartTask
      <3> QED
        BY <3>1 DEF RestartTyped
    <2>2. restart' = restart \/ RestartTyped(gens', restart')
      BY <1>4, <2>1
    <2>3. TableTyped' /\ StateTyped' /\ DataTyped' /\ Len(gens) <= Len(gens')
      BY <1>2, <1>4, Typed DEF HostTypeOK, StateTyped, TableTyped, DataTyped, database
    <2> QED
      BY <1>4, <2>2, <2>3, TypeParts DEF HostTypeOK
  <1> QED
    BY <1>3, <1>4 DEF ExitRecorded

\* RestartDelayed keeps the types.
LEMMA TypeRestartDelayed == HostTypeOK /\ RestartDelayed => HostTypeOK'
  <1> SUFFICES ASSUME HostTypeOK, RestartDelayed PROVE HostTypeOK'
    OBVIOUS
  <1>1. /\ UNCHANGED <<current, file, database, early, starts>> /\ file' \in Recorded
        /\ faults' \in Nat
    BY FaultTyped, Typed DEF RestartDelayed, HostTypeOK, disk
  <1>2. CASE HostEnds("down")
    BY <1>1, <1>2, HostEndsTyped
  <1>3. CASE /\ restart' = IdleRestart
             /\ UNCHANGED <<gens, phase, stopped, active, deadline, state, start,
                            act, exits, closing, faults>>
    BY <1>1, <1>3, Typed, TypeParts
    DEF HostTypeOK, StateTyped, TableTyped, DataTyped, database
  <1>4. CASE /\ gens' = Spawned(current, 0) /\ active' = NewGen
             /\ restart' = [restart EXCEPT !.pc = "starting", !.gen = NewGen]
             /\ UNCHANGED <<phase, stopped, deadline, state, start, act, exits, closing, faults>>
    <2>1. /\ gens' \in Seq(Generation) /\ Len(gens') = NewGen /\ NewGen = Len(gens) + 1
          /\ NewGen \in DOMAIN gens'
      BY <1>4, SpawnedTable, Typed, IdleTyped
    <2>2. TableTyped' /\ Len(gens) <= Len(gens') /\ NewGen \in Nat
      BY <1>4, <2>1, Typed DEF TableTyped
    <2>3. restart' \in RestartTask /\ restart'.pc = "starting" /\ restart'.gen = NewGen
      BY <1>4, <2>2, Typed DEF RestartTask
    <2>4. RestartTyped(gens', restart')
      BY <2>1, <2>3 DEF RestartTyped
    <2> QED
      BY <1>1, <1>4, <2>2, <2>4, Typed, TypeParts DEF HostTypeOK, StateTyped, DataTyped, database
  <1> QED
    BY <1>2, <1>3, <1>4 DEF RestartDelayed

\* RestartStarted keeps the types.
LEMMA TypeRestartStarted == HostTypeOK /\ RestartStarted => HostTypeOK'
  <1> SUFFICES ASSUME HostTypeOK, RestartStarted PROVE HostTypeOK'
    OBVIOUS
  <1>1. DataTyped' /\ UNCHANGED <<start, act, exits, closing>>
    BY DEF RestartStarted, HostTypeOK, DataTyped, disk, database, bounds
  <1>2. restart.gen \in DOMAIN gens /\ restart.gen \in Nat
    BY Typed DEF RestartStarted, HostTypeOK, RestartTyped
  <1>3. CASE /\ gens' = [gens EXCEPT ![restart.gen].managed = FALSE]
             /\ deadline' = restart.gen /\ restart' = IdleRestart /\ UNCHANGED <<active, state>>
    <2>1. PICK b : b = FALSE
      OBVIOUS
    <2>2. gens' = ManagedIn(gens, restart.gen, b) /\ b \in BOOLEAN
      BY <1>3, <2>1 DEF ManagedIn
    <2>3. gens' \in Seq(Generation) /\ Len(gens') = Len(gens)
      BY <1>2, <2>2, Typed, ManagedTable DEF Edited
    <2>4. TableTyped' /\ Len(gens) <= Len(gens')
      BY <1>2, <1>3, <2>3, Typed DEF TableTyped
    <2> QED
      BY <1>1, <1>3, <2>4, TypeParts DEF HostTypeOK, StateTyped
  <1>4. CASE active' = ActiveWithout(restart.gen) /\ UNCHANGED <<gens, deadline>>
    <2>1. TableTyped' /\ Len(gens) <= Len(gens')
      BY <1>4, Typed DEF TableTyped, ActiveWithout
    <2>2. CASE restart' = IdleRestart /\ UNCHANGED state
      BY <1>1, <2>1, <2>2, TypeParts DEF HostTypeOK, StateTyped
    <2>3. ASSUME NEW n \in Recent(state.crashes), state' = Crashed(n),
                 restart' = [restart EXCEPT !.pc = "recording", !.snap = state']
          PROVE  HostTypeOK'
      <3>1. state' \in Recorded /\ state'.activation = state.activation
        BY <2>3, CrashTyped, Typed
      <3>2. PICK x : x = state'
        OBVIOUS
      <3>3. restart' = [restart EXCEPT !.pc = "recording", !.snap = x]
        BY <2>3, <3>2
      <3>4. restart' \in RestartTask /\ restart'.pc = "recording"
        BY <3>1, <3>2, <3>3, Typed DEF RestartTask
      <3>5. RestartTyped(gens', restart') /\ StateTyped'
        BY <1>1, <3>1, <3>4 DEF RestartTyped, StateTyped, HostTypeOK
      <3> QED
        BY <1>1, <2>1, <3>5, TypeParts DEF HostTypeOK
    <2>4. restart.pc = "starting" /\ ~(deadline' = restart.gen /\ restart' = IdleRestart
             /\ gens' = [gens EXCEPT ![restart.gen].managed = FALSE] /\ UNCHANGED <<active, state>>)
          => (restart' = IdleRestart /\ UNCHANGED state)
             \/ \E n \in Recent(state.crashes) :
                     /\ state' = Crashed(n)
                     /\ restart' = [restart EXCEPT !.pc = "recording", !.snap = state']
      BY DEF RestartStarted
    <2> QED
      BY <1>3, <2>2, <2>3, <2>4 DEF RestartStarted
  <1> QED
    BY <1>3, <1>4 DEF RestartStarted

\* RestartRecorded keeps the types.
LEMMA TypeRestartRecorded == HostTypeOK /\ RestartRecorded => HostTypeOK'
  <1> SUFFICES ASSUME HostTypeOK, RestartRecorded PROVE HostTypeOK'
    OBVIOUS
  <1>1. /\ UNCHANGED <<current, database, early, starts>> /\ file' \in Recorded
        /\ faults' \in Nat
    BY WriteTyped, Typed DEF RestartRecorded, HostTypeOK
  <1>2. CASE HostEnds("down")
    BY <1>1, <1>2, HostEndsTyped
  <1>3. CASE /\ restart' = IF stopped THEN IdleRestart ELSE [restart EXCEPT !.pc = "delaying"]
             /\ UNCHANGED <<gens, phase, stopped, active, deadline, state,
                            start, act, exits, closing>>
    <2>1. ASSUME restart' = [restart EXCEPT !.pc = "delaying"]
          PROVE  RestartTyped(gens', restart')
      <3>1. restart' \in RestartTask /\ restart'.pc = "delaying"
        BY <2>1, Typed DEF RestartTask
      <3> QED
        BY <3>1 DEF RestartTyped
    <2> QED
      BY <1>1, <1>3, <2>1, Typed, TypeParts
      DEF HostTypeOK, StateTyped, TableTyped, DataTyped, database
  <1> QED
    BY <1>2, <1>3 DEF RestartRecorded

\* Closing keeps the types.
LEMMA TypeClosing == HostTypeOK /\ (Close \/ CloseStep \/ HostCrash) => HostTypeOK'
  <1> SUFFICES ASSUME HostTypeOK, Close \/ CloseStep \/ HostCrash PROVE HostTypeOK'
    OBVIOUS
  <1>1. ASSUME NEW pc \in {"joining", "stopping"}, StopSession(active, active),
               closing' = [pc |-> pc, gen |-> active], stopped' \in BOOLEAN,
               UNCHANGED <<disk, database, early, phase, state, start, act, restart, exits,
                           bounds>>
        PROVE  HostTypeOK'
    <2>1. TableTyped' /\ Len(gens') = Len(gens)
      BY <1>1, Typed, StopTyped DEF HostTypeOK
    <2>2. closing' \in CloseTask /\ Len(gens) <= Len(gens')
      BY <1>1, <2>1, Typed DEF CloseTask
    <2> QED
      BY <1>1, <2>1, <2>2, TypeParts
      DEF HostTypeOK, StateTyped, DataTyped, disk, database, bounds
  <1>2. CASE Close
    BY <1>1, <1>2 DEF Close
  <1>3. CASE CloseJoined
    BY <1>1, <1>3 DEF CloseJoined, HostTypeOK, DataTyped
  <1>4. CASE CloseDone \/ HostCrash
    <2>1. /\ UNCHANGED <<current, database, early, starts>> /\ file' \in Recorded
          /\ faults' \in Nat /\ (HostEnds("down") \/ HostEnds("closed"))
      BY <1>4, Typed DEF CloseDone, HostCrash, disk, bounds
    <2> QED
      BY <2>1, HostEndsTyped
  <1> QED
    BY <1>2, <1>3, <1>4 DEF CloseStep

\* A set of waiting requests has an oldest.
LEMMA OldestIsOne ==
    ASSUME NEW W \in SUBSET Nat, W # {}
    PROVE  \E q \in W : \A r \in W : q <= r
  <1>1. PICK R : R = OpToRel(<, Nat)
    OBVIOUS
  <1>2. IsWellFoundedOn(R, Nat)
    BY <1>1, NatLessThanWellFounded, Zenon
  <1>3. PICK q \in W : \A r \in W : ~(<<r, q>> \in R)
    BY <1>2, WFMin
  <1>4. R = {ss \in Nat \X Nat : ss[1] < ss[2]}
    BY <1>1, Zenon DEF OpToRel
  <1>5. ASSUME NEW r \in W PROVE q <= r
    <2>1. r \in Nat /\ q \in Nat /\ ~(<<r, q>> \in R)
      BY <1>3
    <2>2. <<r, q>> \in Nat \X Nat /\ <<r, q>>[1] = r /\ <<r, q>>[2] = q
      BY <2>1
    <2>3. ~(r < q)
      BY <1>4, <2>1, <2>2
    <2> QED
      BY <2>1, <2>3
  <1> QED
    BY <1>5

\* redispatchPending: the oldest of the requests p that waits, or nothing.
LEMMA RedispatchedTable ==
    ASSUME NEW d \in Seq(Generation), NEW s \in DOMAIN d, NEW p \in SUBSET Requests,
           NEW e, e = Redispatched(d, s, p)
    PROVE  \/ /\ e = d
              /\ d[s].out # 0 \/ d[s].orphan \/ p \subseteq {d[s].env}
           \/ \E q \in p :
                /\ e = Dispatched(d, s, q) /\ q # d[s].env /\ q \in 0..MaxRequests
                /\ d[s].out = 0 /\ ~d[s].orphan
                /\ \A r \in p : r = d[s].env \/ q <= r
  <1>1. PICK w : w = p \ {d[s].env}
    OBVIOUS
  <1>2. CASE d[s].out # 0 \/ d[s].orphan \/ w = {}
    BY <1>1, <1>2 DEF Redispatched
  <1>3. CASE ~(d[s].out # 0 \/ d[s].orphan \/ w = {})
    <2>0. \A x \in Requests : x \in Nat
      BY HostAssumption DEF Requests
    <2>1. w \in SUBSET Nat /\ w # {}
      BY <1>1, <1>3, <2>0
    <2>2. PICK q : q = CHOOSE x \in w : \A r \in w : x <= r
      OBVIOUS
    <2>3. q \in w /\ \A r \in w : q <= r
      BY <2>1, <2>2, OldestIsOne
    <2>4. e = Dispatched(d, s, q)
      BY <1>1, <1>3, <2>2 DEF Redispatched
    <2>5. q \in p /\ q # d[s].env /\ q \in 0..MaxRequests
      BY <1>1, <2>3, HostAssumption DEF Requests
    <2> QED
      BY <1>1, <1>3, <2>3, <2>4, <2>5
  <1> QED
    BY <1>2, <1>3

\* ... and in every case only the request on its way is another.
LEMMA RedispatchedTyped ==
    ASSUME NEW d \in Seq(Generation), NEW s \in DOMAIN d, NEW p \in SUBSET Requests,
           NEW e, e = Redispatched(d, s, p)
    PROVE  /\ Edited(d, e, s)
           /\ SameFate(d, e, s) /\ SameWatch(d, e, s) /\ SameOrigin(d, e, s)
           /\ e[s].results = d[s].results
  <1>1. CASE e = d
    BY <1>1 DEF Edited, SameFate, SameWatch, SameOrigin
  <1>2. CASE \E q \in 0..MaxRequests : e = Dispatched(d, s, q)
    BY <1>2, DispatchedTable
  <1> QED
    BY <1>1, <1>2, RedispatchedTable

\* A step of a process that leaves the tasks alone.
LEMMA GenParts ==
    ASSUME HostTypeOK, TableTyped', Len(gens') = Len(gens), state' \in Recorded,
           start.pc = "reconciling" => state'.activation.q # 0,
           exits' \subseteq ExitTask, DataTyped', UNCHANGED <<start, act, restart, closing>>
    PROVE  HostTypeOK'
  <1>1. StateTyped' /\ Len(gens) <= Len(gens')
    BY Typed DEF StateTyped
  <1> QED
    BY <1>1, TypeParts DEF HostTypeOK

\* Exits keeps the types.
LEMMA TypeExits ==
    ASSUME HostTypeOK, NEW s \in Gens, ProcessExits(s), DataTyped',
           UNCHANGED <<start, act, restart, closing>>
    PROVE  HostTypeOK'
  <1>1. /\ TableTyped' /\ Len(gens') = Len(gens)
        /\ state' \in Recorded /\ state'.activation = state.activation
        /\ exits' \subseteq ExitTask
    BY ProcessExitsTyped
  <1> QED
    BY <1>1, GenParts DEF HostTypeOK, StateTyped

\* A step that edits session s alone.
LEMMA TypeEdit ==
    ASSUME HostTypeOK, NEW s \in Gens, Edited(gens, gens', s), DataTyped', active' = active,
           deadline' \in Nat, UNCHANGED <<state, exits, start, act, restart, closing>>
    PROVE  HostTypeOK'
  <1>1. TableTyped' /\ Len(gens') = Len(gens)
    BY Typed DEF Edited, TableTyped
  <1> QED
    BY <1>1, GenParts DEF HostTypeOK, StateTyped

\* RefuseReady keeps the types.
LEMMA TypeRefuseReady == ASSUME NEW s \in Gens PROVE HostTypeOK /\ RefuseReady(s) => HostTypeOK'
  <1> SUFFICES ASSUME HostTypeOK, RefuseReady(s) PROVE HostTypeOK'
    OBVIOUS
  <1>1. gens' = TerminatedIn(gens, s)
    BY DEF RefuseReady, TerminatedIn
  <1>2. Edited(gens, gens', s)
    BY <1>1, Typed, TerminatedTable DEF Gens
  <1>3. DataTyped'
    BY DEF RefuseReady, HostTypeOK, DataTyped, disk, database, bounds
  <1> QED
    BY <1>2, <1>3, Typed, TypeEdit DEF RefuseReady, tasks

\* Heartbeat keeps the types.
LEMMA TypeHeartbeat ==
    ASSUME NEW s \in Gens PROVE HostTypeOK /\ HeartbeatExpires(s) => HostTypeOK'
  <1> SUFFICES ASSUME HostTypeOK, HeartbeatExpires(s) PROVE HostTypeOK'
    OBVIOUS
  <1>1. gens' = gens \/ gens' = KilledIn(gens, s)
    BY DEF HeartbeatExpires, KilledIn
  <1>2. Edited(gens, gens', s)
    <2>1. CASE gens' = gens
      BY <2>1, Typed DEF Edited
    <2> QED
      BY <1>1, <2>1, Typed, KilledTable DEF Gens
  <1>3. DataTyped'
    BY DEF HeartbeatExpires, HostTypeOK, DataTyped, disk, database, bounds
  <1> QED
    BY <1>2, <1>3, Typed, TypeEdit DEF HeartbeatExpires, tasks

\* Boot keeps the types.
LEMMA TypeBoot == ASSUME NEW s \in Gens PROVE HostTypeOK /\ Boot(s) => HostTypeOK'
  <1> SUFFICES ASSUME HostTypeOK, Boot(s) PROVE HostTypeOK'
    OBVIOUS
  <1>1. DataTyped' /\ UNCHANGED <<start, act, restart, closing>>
    BY DEF Boot, HostTypeOK, DataTyped, disk, database, bounds
  <1>2. CASE ProcessExits(s)
    BY <1>1, <1>2, TypeExits
  <1>3. CASE gens' = LockedIn(gens, s) /\ UNCHANGED <<active, deadline, state, exits>>
    <2>1. Edited(gens, gens', s)
      BY <1>3, Typed, LockedTable DEF Gens
    <2> QED
      BY <1>1, <1>3, <2>1, Typed, TypeEdit
  <1> QED
    BY <1>2, <1>3 DEF Boot, LockedIn

\* End keeps the types.
LEMMA TypeEnd ==
    ASSUME NEW s \in Gens PROVE HostTypeOK /\ (End(s) \/ Break(s)) => HostTypeOK'
  <1> SUFFICES ASSUME HostTypeOK, End(s) \/ Break(s) PROVE HostTypeOK'
    OBVIOUS
  <1>1. DataTyped' /\ UNCHANGED <<start, act, restart, closing>>
    BY FaultTyped DEF End, Break, HostTypeOK, DataTyped, disk, database, bounds
  <1>2. CASE ProcessExits(s)
    BY <1>1, <1>2, TypeExits
  <1>3. CASE gens' = HungIn(gens, s) /\ UNCHANGED <<active, deadline, state, exits>>
    <2>1. Edited(gens, gens', s)
      BY <1>3, Typed, HungTable DEF Gens
    <2> QED
      BY <1>1, <1>3, <2>1, Typed, TypeEdit
  <1> QED
    BY <1>2, <1>3 DEF End, Break, HungIn

\* Ready keeps the types.
LEMMA TypeReady == ASSUME NEW s \in Gens PROVE HostTypeOK /\ Ready(s) => HostTypeOK'
  <1> SUFFICES ASSUME HostTypeOK, Ready(s) PROVE HostTypeOK'
    OBVIOUS
  <1>1. DataTyped' /\ UNCHANGED <<active, deadline, state, start, act, restart, exits, closing>>
    BY DEF Ready, HostTypeOK, DataTyped, disk, bounds, tasks
  <1>2. PICK n : n = lastFence' /\ n \in Nat
    BY <1>1 DEF DataTyped
  <1>3. PICK d : d = ReadyIn(gens, s, n)
    OBVIOUS
  <1>4. Edited(gens, d, s)
    BY <1>2, <1>3, Typed, ReadyTable DEF Gens
  <1>5. gens' = Redispatched(d, s, Pending)
    BY <1>2, <1>3 DEF Ready, ReadyIn
  <1>6. Edited(d, gens', s)
    BY <1>4, <1>5, RedispatchedTyped DEF Edited, Gens, Pending
  <1>7. Edited(gens, gens', s)
    BY <1>4, <1>6 DEF Edited
  <1> QED
    BY <1>1, <1>7, Typed, TypeEdit

\* Ask keeps the types.
LEMMA TypeAsk == ASSUME NEW s \in Gens PROVE HostTypeOK /\ Ask(s) => HostTypeOK'
  <1> SUFFICES ASSUME HostTypeOK, Ask(s) PROVE HostTypeOK'
    OBVIOUS
  <1>1. PICK q \in Requests, t \in Releases :
          /\ reqs' = [reqs EXCEPT ![q].stage = "pending", ![q].target = t,
                                  ![q].expected = gens[s].release]
          /\ gens' = Accepted(s, q)
    BY DEF Ask
  <1>2. gens[s] \in Generation /\ gens[s].release \in Releases
    <2>1. gens[s] \in Generation
      BY Typed DEF Gens
    <2> QED
      BY <2>1 DEF Generation
  <1>3. reqs' \in [Requests -> Request]
    <2>1. reqs \in [Requests -> Request] /\ reqs[q] \in Request
      BY DEF HostTypeOK, DataTyped
    <2>2. PICK r : r = [reqs[q] EXCEPT !.stage = "pending", !.target = t,
                                       !.expected = gens[s].release]
      OBVIOUS
    <2>3. r \in Request
      BY <1>2, <2>1, <2>2 DEF Request
    <2>4. reqs' = [reqs EXCEPT ![q] = r]
      BY <1>1, <2>1, <2>2
    <2> QED
      BY <2>1, <2>3, <2>4
  <1>4. DataTyped' /\ UNCHANGED <<active, deadline, state, start, act, restart, exits, closing>>
    BY <1>3 DEF Ask, HostTypeOK, DataTyped, disk, bounds, tasks
  <1>5. gens' = gens \/ gens' = Dispatched(gens, s, q)
    BY <1>1 DEF Accepted
  <1>6. q \in 0..MaxRequests
    BY HostAssumption DEF Requests
  <1>7. Edited(gens, gens', s)
    <2>1. CASE gens' = gens
      BY <2>1, Typed DEF Edited
    <2> QED
      BY <1>5, <1>6, <2>1, Typed, DispatchedTable DEF Gens
  <1> QED
    BY <1>4, <1>7, Typed, TypeEdit

\* activationResult, or the fail stop.
LEMMA DeliverTable ==
    ASSUME HostTypeOK, NEW s \in Gens, NEW r \in gens[s].results, Deliver(s, r)
    PROVE  /\ r \in Result /\ Edited(gens, gens', s)
           /\ SameWatch(gens, gens', s) /\ SameOrigin(gens, gens', s)
           /\ gens'[s].stage = gens[s].stage /\ gens'[s].orphan = gens[s].orphan
           /\ gens'[s].hung = gens[s].hung
           /\ gens'[s].killed \in {gens[s].killed, TRUE}
           /\ gens'[s].results = gens[s].results \ {r}
           /\ \/ /\ Recordable(r) /\ RecordResult(r)
                 /\ \E d : /\ gens' = Redispatched(d, s, Pending \ {r.q})
                           /\ Edited(gens, d, s)
                           /\ SameFate(gens, d, s) /\ SameWatch(gens, d, s)
                           /\ SameOrigin(gens, d, s) /\ d[s].act = gens[s].act
                           /\ d[s].results = gens[s].results \ {r}
                           /\ d[s].out = IF gens[s].out = r.q THEN 0 ELSE gens[s].out
              \/ /\ ~Recordable(r) /\ reqs' = reqs
                 /\ gens'[s].killed /\ gens'[s].out = gens[s].out
                 /\ gens'[s].act = gens[s].act
  <1>1. gens[s] \in Generation /\ s \in DOMAIN gens
    BY Typed DEF Gens
  <1>2. /\ gens[s].results \in SUBSET Result /\ gens[s].out \in 0..MaxRequests
        /\ gens[s].killed \in BOOLEAN
    BY <1>1 DEF Generation
  <1>3. PICK R, o : R = gens[s].results \ {r} /\ o = IF gens[s].out = r.q THEN 0 ELSE gens[s].out
    OBVIOUS
  <1>4. R \in SUBSET Result /\ o \in 0..MaxRequests /\ r \in Result
    BY <1>2, <1>3, IdleTyped
  <1>5. CASE Recordable(r)
    <2>1. PICK d : d = DroppedIn(gens, s, R, o)
      OBVIOUS
    <2>2. /\ Edited(gens, d, s)
          /\ SameFate(gens, d, s) /\ SameWatch(gens, d, s) /\ SameOrigin(gens, d, s)
          /\ d[s].out = o /\ d[s].act = gens[s].act /\ d[s].results = R
      BY <1>1, <1>4, <2>1, Typed, DroppedTable
    <2>3. gens' = Redispatched(d, s, Pending \ {r.q}) /\ RecordResult(r)
      BY <1>3, <1>5, <2>1 DEF Deliver, DroppedIn
    <2>4. s \in DOMAIN d /\ d \in Seq(Generation)
      BY <1>1, <2>2 DEF Edited
    <2>5. Pending \ {r.q} \in SUBSET Requests
      BY DEF Pending
    <2>6. /\ Edited(d, gens', s)
          /\ SameFate(d, gens', s) /\ SameWatch(d, gens', s) /\ SameOrigin(d, gens', s)
          /\ gens'[s].results = d[s].results
      BY <2>3, <2>4, <2>5, RedispatchedTyped
    <2>7. Edited(gens, gens', s)
      BY <2>2, <2>6 DEF Edited
    <2> QED
      BY <1>2, <1>3, <1>4, <1>5, <2>2, <2>3, <2>6, <2>7
      DEF SameFate, SameWatch, SameOrigin
  <1>6. CASE ~Recordable(r)
    <2>1. gens' = FailStoppedIn(gens, s, R) /\ reqs' = reqs
      BY <1>3, <1>6 DEF Deliver, FailStopped, FailStoppedIn
    <2>2. /\ Edited(gens, gens', s)
          /\ gens'[s].stage = gens[s].stage /\ gens'[s].orphan = gens[s].orphan
          /\ gens'[s].hung = gens[s].hung
          /\ gens'[s].killed /\ SameWatch(gens, gens', s) /\ SameOrigin(gens, gens', s)
          /\ gens'[s].out = gens[s].out /\ gens'[s].act = gens[s].act
          /\ gens'[s].results = R
      <3>1. gens \in Seq(Generation)
        BY Typed
      <3> QED
        BY <1>1, <1>4, <2>1, <3>1, FailStoppedTable
    <2> QED
      BY <1>3, <1>4, <1>6, <2>1, <2>2
  <1> QED
    BY <1>5, <1>6

\* Deliver keeps the types.
LEMMA TypeDeliver ==
    ASSUME NEW s \in Gens, NEW r \in gens[s].results
    PROVE  HostTypeOK /\ Deliver(s, r) => HostTypeOK'
  <1> SUFFICES ASSUME HostTypeOK, Deliver(s, r) PROVE HostTypeOK'
    OBVIOUS
  <1>1. r \in Result /\ Edited(gens, gens', s) /\ (RecordResult(r) \/ reqs' = reqs)
    BY DeliverTable
  <1>2. reqs' \in [Requests -> Request]
    <2>1. reqs \in [Requests -> Request] /\ r.q \in Requests /\ reqs[r.q] \in Request
          /\ r.status \in Statuses /\ r.release \in Releases
      BY <1>1 DEF HostTypeOK, DataTyped, Result
    <2>2. PICK x : x = [reqs[r.q] EXCEPT !.stage = "settled", !.status = r.status,
                                         !.release = r.release]
      OBVIOUS
    <2>3. x \in Request
      BY <2>1, <2>2 DEF Request
    <2>4. reqs' = reqs \/ reqs' = [reqs EXCEPT ![r.q] = x]
      BY <1>1, <2>1, <2>2 DEF RecordResult
    <2> QED
      BY <2>1, <2>3, <2>4
  <1>3. DataTyped' /\ UNCHANGED <<active, deadline, state, start, act, restart, exits, closing>>
    BY <1>2 DEF Deliver, HostTypeOK, DataTyped, disk, bounds, tasks
  <1> QED
    BY <1>1, <1>3, Typed, TypeEdit

\* activate() up to its first await: the table.
LEMMA ReceiveTable ==
    ASSUME HostTypeOK, NEW s \in Gens, Receive(s)
    PROVE  /\ gens[s].act \in Requests /\ gens[s].release \in Releases
           /\ Edited(gens, gens', s)
           /\ SameFate(gens, gens', s) /\ SameOrigin(gens, gens', s)
           /\ gens'[s].out = gens[s].out /\ gens'[s].act = 0
           /\ gens'[s].reported = gens[s].reported
           /\ \/ /\ UNCHANGED <<act, state>> /\ gens'[s].managed = gens[s].managed
                 /\ ~stopped /\ active = s => state.activation.q = gens[s].act \/ act.pc # "idle"
              \/ /\ gens'[s].managed /\ ~stopped /\ active = s /\ act.pc = "idle"
                 /\ act'.pc \in {"resolving", "wFailed"}
                 /\ gens'[s].results = gens[s].results
  <1> DEFINE G ==
       /\ gens[s].act \in Requests /\ gens[s].release \in Releases
       /\ Edited(gens, gens', s)
       /\ SameFate(gens, gens', s) /\ SameOrigin(gens, gens', s)
       /\ gens'[s].out = gens[s].out /\ gens'[s].act = 0
       /\ gens'[s].reported = gens[s].reported
       /\ \/ /\ UNCHANGED <<act, state>> /\ gens'[s].managed = gens[s].managed
             /\ ~stopped /\ active = s => state.activation.q = gens[s].act \/ act.pc # "idle"
          \/ /\ gens'[s].managed /\ ~stopped /\ active = s /\ act.pc = "idle"
             /\ act'.pc \in {"resolving", "wFailed"}
             /\ gens'[s].results = gens[s].results
  <1>1. gens[s] \in Generation /\ s \in DOMAIN gens /\ gens \in Seq(Generation)
    BY Typed DEF Gens
  <1>2. gens[s].act \in Requests /\ gens[s].release \in Releases
    <2>1. gens[s].act \in 0..MaxRequests /\ gens[s].act # 0 /\ gens[s].release \in Releases
      BY <1>1 DEF Receive, Generation
    <2> QED
      BY <2>1, HostAssumption DEF Requests
  <1>3. PICK g : g = ReceivedIn(gens, s)
    OBVIOUS
  <1>4. /\ Edited(gens, g, s) /\ SameFate(gens, g, s) /\ SameWatch(gens, g, s)
        /\ SameOrigin(gens, g, s) /\ g[s].out = gens[s].out /\ g[s].act = 0
        /\ g[s].results = gens[s].results
    BY <1>1, <1>3, ReceivedTable
  <1>5. g \in Seq(Generation) /\ s \in DOMAIN g /\ g[s].release \in Releases
    BY <1>1, <1>2, <1>4 DEF Edited, SameOrigin
  <1>6. ASSUME gens' = g, UNCHANGED <<act, state>>,
               ~stopped /\ active = s => state.activation.q = gens[s].act \/ act.pc # "idle"
        PROVE  G
    BY <1>2, <1>4, <1>6 DEF SameWatch
  <1>7. ASSUME NEW q \in Requests, NEW status \in Statuses, NEW release \in Releases,
               gens' = Sent(g, s, q, status, release), UNCHANGED <<act, state>>,
               ~stopped /\ active = s => state.activation.q = gens[s].act \/ act.pc # "idle"
        PROVE  G
    <2>0. PICK e : e = gens'
      OBVIOUS
    <2>1. /\ Edited(g, e, s)
          /\ SameFate(g, e, s) /\ SameWatch(g, e, s) /\ SameOrigin(g, e, s)
          /\ e[s].out = g[s].out /\ e[s].act = g[s].act
      BY <1>5, <1>7, <2>0, SentTable
    <2>2. Edited(gens, gens', s)
      BY <1>4, <2>0, <2>1 DEF Edited
    <2> QED
      BY <1>2, <1>4, <1>7, <2>0, <2>1, <2>2 DEF SameWatch, SameFate, SameOrigin
  <1>8. CASE stopped \/ active # s
    BY <1>3, <1>6, <1>8 DEF Receive, ReceivedIn
  <1>9. CASE ~(stopped \/ active # s) /\ state.activation.q = gens[s].act
    <2>1. gens' = Replayed(g, s, gens[s].act) /\ UNCHANGED <<act, state>>
      BY <1>3, <1>9 DEF Receive, ReceivedIn
    <2>2. CASE ~SameIdentity(gens[s].act)
      <3>1. gens' = Sent(g, s, gens[s].act, "identity_conflict", g[s].release)
        BY <2>1, <2>2 DEF Replayed
      <3> QED
        BY <1>2, <1>5, <1>7, <1>9, <2>1, <3>1 DEF Statuses
    <2>3. CASE SameIdentity(gens[s].act) /\ state.activation.phase \notin Terminal
      BY <1>6, <1>9, <2>1, <2>3 DEF Replayed
    <2>4. CASE SameIdentity(gens[s].act) /\ state.activation.phase \in Terminal
      <3>1. gens' = Sent(g, s, state.activation.q, StatusOf(state.activation),
                         ReleaseOf(state.activation))
        BY <2>1, <2>4 DEF Replayed, Answered
      <3>2. /\ state.activation.q \in Requests /\ StatusOf(state.activation) \in Statuses
            /\ ReleaseOf(state.activation) \in Releases
        <4>1. state.activation.q # 0
          BY <1>2, <1>9 DEF Requests
        <4> QED
          BY <4>1, Typed, AnswerTyped
      <3> QED
        BY <1>7, <1>9, <2>1, <3>1, <3>2
    <2> QED
      BY <2>2, <2>3, <2>4
  <1>10. CASE ~(stopped \/ active # s) /\ state.activation.q # gens[s].act /\ act.pc # "idle"
    <2>1. /\ gens' = Sent(g, s, gens[s].act, "blocked", g[s].release)
          /\ UNCHANGED <<act, state>>
      BY <1>3, <1>10 DEF Receive, ReceivedIn
    <2> QED
      BY <1>2, <1>5, <1>7, <1>10, <2>1 DEF Statuses
  <1>11. CASE ~(stopped \/ active # s) /\ state.activation.q # gens[s].act /\ act.pc = "idle"
    <2>1. PICK b : b = TRUE
      OBVIOUS
    <2>2. gens' = ManagedIn(g, s, b) /\ b \in BOOLEAN
      BY <1>3, <1>11, <2>1 DEF Receive, ReceivedIn, Owned, ManagedIn
    <2>3. /\ Edited(g, gens', s) /\ SameFate(g, gens', s) /\ SameOrigin(g, gens', s)
          /\ SameMail(g, gens', s) /\ gens'[s].managed = b
          /\ gens'[s].reported = g[s].reported
      BY <1>5, <2>2, ManagedTable
    <2>4. Edited(gens, gens', s) /\ gens'[s].managed
      BY <1>4, <2>1, <2>3 DEF Edited
    <2>5. act'.pc \in {"resolving", "wFailed"}
      BY <1>11 DEF Receive, IdleAct
    <2> QED
      BY <1>2, <1>4, <1>11, <2>3, <2>4, <2>5 DEF SameFate, SameOrigin, SameWatch, SameMail
  <1> QED
    BY <1>8, <1>9, <1>10, <1>11

\* ... and the task it begins.
LEMMA ReceiveBegins ==
    ASSUME HostTypeOK, NEW s \in Gens, Receive(s), ~stopped, active = s, act.pc = "idle",
           state.activation.q # gens[s].act
    PROVE  /\ act' \in ActTask /\ act'.q = gens[s].act /\ act'.old = s /\ act'.cand = 0
           /\ act'.gen = 0 /\ act'.target = gens[s].release
           /\ state' \in Recorded
           /\ \/ /\ act'.pc = "resolving" /\ state' = state
                 /\ reqs[gens[s].act].expected = gens[s].release
              \/ /\ act'.pc = "wFailed" /\ act'.snap = state'
                 /\ reqs[gens[s].act].expected # gens[s].release
                 /\ state'.activation = [q |-> gens[s].act, prev |-> gens[s].release,
                                         target |-> gens[s].release, phase |-> "failed"]
                 /\ state'.crashes = state.crashes
           /\ state' = state \/ state'.activation.q = gens[s].act
  <1>1. /\ gens[s].act \in Requests /\ gens[s].release \in Releases /\ s \in Nat
        /\ gens[s].act \in 0..MaxRequests /\ gens[s].act # 0
    <2>1. gens[s].act \in Requests /\ gens[s].release \in Releases
      BY ReceiveTable
    <2> QED
      BY <2>1, Typed, HostAssumption DEF Requests, Gens
  <1>2. PICK q, rel : q = gens[s].act /\ rel = gens[s].release
    OBVIOUS
  <1>3. [gens EXCEPT ![s].act = 0][s].release = rel
    <2>1. PICK g : g = ReceivedIn(gens, s)
      OBVIOUS
    <2>2. SameOrigin(gens, g, s)
      BY <2>1, Typed, ReceivedTable DEF Gens
    <2> QED
      BY <1>2, <2>1, <2>2 DEF SameOrigin, ReceivedIn
  <1>4. PICK begun : begun = [IdleAct EXCEPT !.pc = "resolving", !.q = q, !.old = s,
                                             !.target = rel]
    OBVIOUS
  <1>5. /\ begun \in ActTask /\ begun.q = q /\ begun.old = s /\ begun.cand = 0
        /\ begun.gen = 0 /\ begun.pc = "resolving" /\ begun.target = rel
    BY <1>1, <1>2, <1>4, IdleTyped DEF IdleAct, ActTask, ActPcs
  <1>6. IF reqs[q].expected = rel
        THEN act' = begun /\ UNCHANGED state
        ELSE /\ state' = [state EXCEPT !.activation =
                  [q |-> q, prev |-> rel, target |-> rel, phase |-> "failed"]]
             /\ act' = [begun EXCEPT !.pc = "wFailed", !.snap = state']
    BY <1>2, <1>3, <1>4 DEF Receive
  <1>7. CASE reqs[q].expected = rel
    BY <1>2, <1>5, <1>6, <1>7, Typed
  <1>8. CASE reqs[q].expected # rel
    <2>1. PICK a : a = [q |-> q, prev |-> rel, target |-> rel, phase |-> "failed"]
      OBVIOUS
    <2>2. a \in ActivationState /\ a.q # 0
      BY <1>1, <1>2, <2>1 DEF ActivationState, Phases, Terminal
    <2>3. state' = [state EXCEPT !.activation = a]
      BY <1>6, <1>8, <2>1
    <2>4. state' \in Recorded /\ state'.activation = a /\ state'.crashes = state.crashes
      BY <2>2, <2>3, Typed DEF Recorded, HostState
    <2>5. PICK x : x = state'
      OBVIOUS
    <2>6. act' = [begun EXCEPT !.pc = "wFailed", !.snap = x]
      BY <1>6, <1>8, <2>5
    <2>7. /\ act' \in ActTask /\ act'.q = q /\ act'.old = s /\ act'.cand = 0
          /\ act'.gen = 0 /\ act'.pc = "wFailed" /\ act'.snap = x
          /\ act'.target = rel
      BY <1>5, <2>4, <2>5, <2>6 DEF ActTask, ActPcs
    <2> QED
      BY <1>2, <1>8, <2>1, <2>2, <2>4, <2>5, <2>7
  <1> QED
    BY <1>7, <1>8

\* Receive keeps the types.
LEMMA TypeReceive == ASSUME NEW s \in Gens PROVE HostTypeOK /\ Receive(s) => HostTypeOK'
  <1> SUFFICES ASSUME HostTypeOK, Receive(s) PROVE HostTypeOK'
    OBVIOUS
  <1>1. Edited(gens, gens', s) /\ gens[s].act \in Requests
    BY ReceiveTable
  <1>2. DataTyped' /\ UNCHANGED <<active, deadline, start, restart, exits, closing>>
    BY DEF Receive, HostTypeOK, DataTyped, disk, database, bounds
  <1>3. CASE UNCHANGED <<act, state>>
    BY <1>1, <1>2, <1>3, Typed, TypeEdit
  <1>4. CASE ~stopped /\ active = s /\ act.pc = "idle" /\ state.activation.q # gens[s].act
    <2>1. /\ act' \in ActTask /\ act'.q = gens[s].act /\ act'.old = s /\ act'.cand = 0
          /\ state' \in Recorded /\ act'.pc \in {"resolving", "wFailed"}
          /\ state' = state \/ state'.activation.q = gens[s].act
      BY <1>4, ReceiveBegins
    <2>2. TableTyped' /\ Len(gens') = Len(gens)
      BY <1>1, <1>2, Typed DEF Edited, TableTyped
    <2>3. gens[s].act # 0 /\ 0 \in 0..Len(gens') /\ s \in DOMAIN gens' /\ Len(gens) <= Len(gens')
      BY <1>1, <2>2, Typed DEF Requests, Gens, Edited
    <2>4. ActTyped(gens', act') /\ StateTyped'
      BY <1>2, <2>1, <2>3 DEF ActTyped, StateTyped, HostTypeOK, Testing
    <2> QED
      BY <1>2, <2>2, <2>3, <2>4, TypeParts DEF HostTypeOK
  <1> QED
    BY <1>3, <1>4 DEF Receive

\* HostInit keeps the types.
LEMMA TypeHostInit == HostInit => HostTypeOK
  <1> SUFFICES ASSUME HostInit PROVE HostTypeOK
    OBVIOUS
  <1>1. Unrequested \in Request
    BY HostAssumption DEF Unrequested, Request
  <1>2. DataTyped
    BY <1>1, IdleTyped, HostAssumption DEF HostInit, DataTyped
  <1>3. TableTyped
    BY DEF HostInit, TableTyped
  <1>4. StateTyped
    BY IdleTyped DEF HostInit, StateTyped
  <1> QED
    BY <1>2, <1>3, <1>4, IdleTyped, IdleFits DEF HostTypeOK, HostInit, TableTyped

\* HostNext keeps the types.
LEMMA TypeHostNext == HostTypeOK /\ [HostNext]_hostVars => HostTypeOK'
  <1> SUFFICES ASSUME HostTypeOK, [HostNext]_hostVars PROVE HostTypeOK'
    OBVIOUS
  <1>1. CASE StartStep
    BY <1>1, TypeHostStart, TypeStartReady, TypeStartReconciled, TypeStartFails,
       TypeStartStopped DEF StartStep
  <1>2. CASE ActivateStep
    BY <1>2, TypeActResolved, TypeActValidating, TypeActVerified, TypeActDraining,
       TypeActDrained, TypeActStarting, TypeActStarted, TypeActStable, TypeActCommitting,
       TypeActCommitted, TypeActFailed, TypeActStopped DEF ActivateStep
  <1>3. CASE RollbackStep
    BY <1>3, TypeRollbackVerified, TypeRollbackCommitted, TypeRollbackStarted,
       TypeRolledBack, TypeRollbackFailed DEF RollbackStep
  <1>4. CASE RestartStep
    BY <1>4, TypeExitRecorded, TypeRestartDelayed, TypeRestartStarted,
       TypeRestartRecorded DEF RestartStep
  <1>5. CASE Close \/ CloseStep \/ HostCrash
    BY <1>5, TypeClosing
  <1>6. ASSUME NEW s \in Gens, GenStep(s) \/ Ask(s) \/ Break(s) PROVE HostTypeOK'
    BY <1>6, TypeRefuseReady, TypeReceive, TypeBoot, TypeReady, TypeDeliver, TypeEnd,
       TypeHeartbeat, TypeAsk DEF GenStep
  <1>7. CASE UNCHANGED hostVars
    <2>1. UNCHANGED <<current, file, reqs, lastFence, gens, phase, stopped, active, deadline,
                      state, start, act, restart, exits, closing, faults, starts, early>>
      BY <1>7 DEF hostVars, disk, database, tasks, bounds
    <2> QED
      BY <2>1 DEF HostTypeOK, DataTyped, TableTyped, StateTyped
  <1> QED
    BY <1>1, <1>2, <1>3, <1>4, <1>5, <1>6, <1>7 DEF HostNext

(***************************************************************************)
(* The Host's state, its tasks and its sessions have their types: a task    *)
(* that awaits a session names one of the table, and an activation names    *)
(* the request it runs for.                                                 *)
(***************************************************************************)
THEOREM HostTypeCorrect == HostSpec => []HostTypeOK
  BY TypeHostInit, TypeHostNext, PTL DEF HostSpec

-----------------------------------------------------------------------------
(* 2. The children of the Host.                                             *)

\* no session becomes a child
Fewer(d, e) == DOMAIN e = DOMAIN d /\ \A s \in DOMAIN d : Kid(e, s) => Kid(d, s)

\* what a step that no task takes does to a session that is supervised
Steady(d, e, a) ==
    /\ e[a].managed <=> d[a].managed
    /\ ~d[a].orphan => ~e[a].orphan
    /\ d[a].stage = "dead" => e[a].stage = "dead"
    /\ d[a].stage = "ready" /\ ~d[a].orphan
         => e[a].stage = "ready" \/ (d[a].managed /\ e[a].stage = "dead")
    /\ e[a].reported <=> d[a].reported
    /\ d[a].killed => e[a].killed \/ e[a].stage = "dead"

Calm(d, e, a, dl, f) ==
    /\ Fewer(d, e)
    /\ a \in DOMAIN d =>
         Steady(d, e, a) /\ (dl = a => f = a \/ e[a].killed \/ e[a].stage = "dead")

\* Without new children the only one stays the only one.
LEMMA FewerKids ==
    ASSUME NEW d, NEW e, Fewer(d, e)
    PROVE  (OneKid(d) => OneKid(e)) /\ \A a : OnlyKid(d, a) => OnlyKid(e, a)
  BY DEF Fewer, OneKid, OnlyKid

\* An only child is one child.
LEMMA OnlyIsOne == ASSUME NEW d, NEW a, OnlyKid(d, a) PROVE OneKid(d)
  BY DEF OnlyKid, OneKid

\* If the only child is dead there is none.
LEMMA DeadIsNone ==
    ASSUME NEW d, NEW a, OnlyKid(d, a), a \in DOMAIN d => ~Kid(d, a)
    PROVE  \A b : OnlyKid(d, b)
  BY DEF OnlyKid

\* If the only child is gone there is none.
LEMMA GoneIsNone ==
    ASSUME gens \in Seq(Generation), NEW a \in Nat, OnlyKid(gens, a), Gone(a)
    PROVE  \A b : OnlyKid(gens, b)
  <1>1. a \in DOMAIN gens => ~Kid(gens, a)
    BY DEF Gone, Kid
  <1> QED
    BY <1>1, DeadIsNone

\* A calm step keeps what is said of the active session.
LEMMA CalmKeeps ==
    ASSUME NEW d, NEW e, NEW a, NEW dl, NEW f, Calm(d, e, a, dl, f)
    PROVE  /\ Serving(d, a, dl) => Serving(e, a, f)
           /\ Held(d, a) => Held(e, a)
           /\ Tended(d, a, dl) => Tended(e, a, f)
           /\ Quiet(d, a) => Quiet(e, a)
           /\ (a \in DOMAIN d => d[a].stage = "dead") => (a \in DOMAIN e => e[a].stage = "dead")
  <1>1. /\ DOMAIN e = DOMAIN d /\ \A b : OnlyKid(d, b) => OnlyKid(e, b)
        /\ a \in DOMAIN d =>
             Steady(d, e, a) /\ (dl = a => f = a \/ e[a].killed \/ e[a].stage = "dead")
    BY FewerKids DEF Calm, Fewer
  <1>2. Serving(d, a, dl) => Serving(e, a, f)
    BY <1>1 DEF Serving, Steady
  <1>3. Held(d, a) => Held(e, a)
    BY <1>1 DEF Held, Steady
  <1>4. Tended(d, a, dl) => Tended(e, a, f)
    BY <1>1, <1>3 DEF Tended, Held, Steady
  <1>5. Quiet(d, a) => Quiet(e, a)
    BY <1>1 DEF Quiet, Steady
  <1>6. (a \in DOMAIN d => d[a].stage = "dead") => (a \in DOMAIN e => e[a].stage = "dead")
    BY <1>1 DEF Steady
  <1> QED
    BY <1>2, <1>3, <1>4, <1>5, <1>6

\* A step of a process or a timer leaves the supervision as it is.
LEMMA LiveCalm ==
    ASSUME NEW d, NEW e, NEW a, NEW dl, NEW f, NEW st, NEW ac, NEW re, NEW x, NEW cl,
           Calm(d, e, a, dl, f), LiveSup(d, a, dl, st, ac, re, x, cl)
    PROVE  LiveSup(e, a, f, st, ac, re, x, cl)
  <1>1. /\ Serving(d, a, dl) => Serving(e, a, f)
        /\ Held(d, a) => Held(e, a)
        /\ Tended(d, a, dl) => Tended(e, a, f)
        /\ Quiet(d, a) => Quiet(e, a)
        /\ (a \in DOMAIN d => d[a].stage = "dead") => (a \in DOMAIN e => e[a].stage = "dead")
    BY CalmKeeps
  <1>2. \A b : OnlyKid(d, b) => OnlyKid(e, b)
    BY FewerKids DEF Calm
  <1>3. ActSup(d, a, dl, ac) => ActSup(e, a, f, ac)
    BY <1>1, <1>2 DEF ActSup
  <1> QED
    BY <1>1, <1>2, <1>3 DEF LiveSup

\* Only a serving Generation's exit is reported.
LEMMA LiveReports ==
    ASSUME NEW d, NEW a, NEW dl, NEW st, NEW ac, NEW re, NEW x, NEW cl,
           LiveSup(d, a, dl, st, ac, re, x, cl), a \in DOMAIN d, a # 0,
           d[a].stage # "dead", ~d[a].managed, ac \in ActTask, re \in RestartTask
    PROVE  /\ st.pc # "starting" /\ ac.pc = "idle" /\ re.pc = "idle" /\ x = {}
           /\ Serving(d, a, dl)
  <1>1. ~Held(d, a) /\ ~Tended(d, a, dl) /\ ~Quiet(d, a)
    BY DEF Held, Tended, Quiet
  <1>2. ac.pc \in PreDrain \cup Testing \cup {"idle", "draining", "wStarting", "starting",
          "rbVerify", "rbCommit", "rbStarting", "wRolledBack", "wRollbackFailed",
          "stopping", "fatal"}
    BY DEF ActTask, ActPcs, PreDrain, Testing
  <1>3. re.pc \in {"idle", "delaying", "starting", "recording"}
    BY DEF RestartTask
  <1>4. ~ActSup(d, a, dl, ac) \/ ac.pc = "idle"
    BY <1>1, <1>2 DEF ActSup
  <1> QED
    BY <1>1, <1>3, <1>4 DEF LiveSup

\* The session of a task in another stage is not reported: nothing else changes.
LEMMA StoppedFewer ==
    ASSUME NEW d, NEW e, NEW st, NEW ac, NEW cl, Fewer(d, e), StoppedSup(d, st, ac, cl)
    PROVE  StoppedSup(e, st, ac, cl)
  BY FewerKids DEF StoppedSup

\* A stopped Host forks nothing, wherever its activation goes.
LEMMA StoppedMoves ==
    ASSUME NEW d, NEW e, NEW st, NEW ac, NEW ac2, NEW cl, Fewer(d, e),
           StoppedSup(d, st, ac, cl), ac.pc \notin {"idle", "fatal"},
           ac.pc = "rbVerify" /\ OnlyKid(d, ac.cand) => \A b : OnlyKid(d, b)
    PROVE  StoppedSup(e, st, ac2, cl)
  BY FewerKids DEF StoppedSup

\* An edit of one session that makes no child of it.
LEMMA EditFewer ==
    ASSUME NEW d, NEW e, NEW s \in DOMAIN d, Edited(d, e, s), Kid(e, s) => Kid(d, s)
    PROVE  Fewer(d, e)
  BY DEF Edited, Fewer, Kid

\* An edit that leaves the fate of a session makes no child.
LEMMA SameFateFewer ==
    ASSUME NEW d, NEW e, NEW s \in DOMAIN d, Edited(d, e, s), SameFate(d, e, s)
    PROVE  Fewer(d, e)
  BY EditFewer DEF SameFate, Kid

\* An edit of one session is calm if it is steady.
LEMMA EditCalm ==
    ASSUME NEW d, NEW e, NEW s \in DOMAIN d, Edited(d, e, s), Kid(e, s) => Kid(d, s),
           NEW a, NEW dl, NEW f,
           s = a => Steady(d, e, s) /\ (dl = a => f = a \/ e[a].killed \/ e[a].stage = "dead"),
           s # a => f = dl \/ dl # a
    PROVE  Calm(d, e, a, dl, f)
  <1>1. Fewer(d, e)
    BY EditFewer
  <1>2. CASE s = a
    BY <1>1, <1>2 DEF Calm
  <1>3. CASE s # a
    <2>1. a \in DOMAIN d => e[a] = d[a]
      BY <1>3 DEF Edited
    <2> QED
      BY <1>1, <1>3, <2>1 DEF Calm, Steady
  <1> QED
    BY <1>2, <1>3

-----------------------------------------------------------------------------
(* One step.                                                                *)

\* Processes and timers.
LEMMA SupCalm ==
    ASSUME HostTypeOK, SupInv, Fewer(gens, gens'),
           Up /\ ~stopped => Calm(gens, gens', active, deadline, deadline'),
           Up \/ deadline' = deadline,
           UNCHANGED <<phase, stopped, active, start, act, restart, exits, closing>>
    PROVE  SupInv'
  <1>1. OneKid(gens') /\ (OnlyKid(gens, 0) => OnlyKid(gens', 0))
    BY FewerKids DEF SupInv
  <1>2. CASE phase # "up"
    BY <1>1, <1>2 DEF SupInv, DownSup, Up
  <1>3. CASE phase = "up" /\ ~stopped
    <2>1. LiveSup(gens', active, deadline', start, act, restart, exits, closing)
      BY <1>3, LiveCalm DEF SupInv, Up
    <2> QED
      BY <1>1, <1>3, <2>1 DEF SupInv
  <1>4. CASE phase = "up" /\ stopped
    BY <1>1, <1>4, StoppedFewer DEF SupInv
  <1> QED
    BY <1>2, <1>3, <1>4

\* An edit of one session that changes neither its fate nor who watches it.
LEMMA SupEdit ==
    ASSUME HostTypeOK, SupInv, NEW s \in Gens, Edited(gens, gens', s),
           Kid(gens', s) => Kid(gens, s), active = s => Steady(gens, gens', s),
           UNCHANGED <<phase, stopped, active, deadline, start, act, restart, exits, closing>>
    PROVE  SupInv'
  <1>1. s \in DOMAIN gens
    BY DEF Gens
  <1>2. PICK e, f : e = gens' /\ f = deadline'
    OBVIOUS
  <1>3. Calm(gens, e, active, deadline, f)
    BY <1>1, <1>2, EditCalm
  <1> QED
    BY <1>2, <1>3, SupCalm DEF Calm

\* The end of the Host leaves no child.
LEMMA HostEndsSup ==
    ASSUME HostTypeOK, NEW p \in {"down", "closed"}, HostEnds(p)
    PROVE  SupInv'
  <1>1. /\ DOMAIN gens' = Gens
        /\ \A s \in Gens : /\ gens'[s].stage = gens[s].stage
                           /\ gens[s].stage # "dead" => gens'[s].orphan
    BY Typed, OrphanedTable DEF HostEnds
  <1>2. OnlyKid(gens', 0)
    BY <1>1 DEF OnlyKid, Kid
  <1>3. OneKid(gens')
    BY <1>2, OnlyIsOne
  <1> QED
    BY <1>2, <1>3 DEF SupInv, DownSup, HostEnds

\* unexpectedExit of the session that serves: the Host is between two sessions.
LEMMA SupReports ==
    ASSUME NEW d, NEW e, NEW a, NEW dl, NEW st, NEW ac, NEW re, NEW cl, NEW y,
           LiveSup(d, a, dl, st, ac, re, {}, cl), OnlyKid(e, 0), st.pc # "starting",
           re.pc = "idle", NEW ac2, ac2.pc = "idle"
    PROVE  LiveSup(e, 0, 0, st, ac2, re, {y}, cl)
  BY DEF LiveSup

\* Exits keeps the supervision.
LEMMA SupExits ==
    ASSUME HostTypeOK, SupInv, NEW s \in Gens, gens[s].stage # "dead", ProcessExits(s),
           UNCHANGED <<phase, stopped, start, act, restart, closing>>
    PROVE  SupInv'
  <1>1. PICK d : d = Exited(gens, s)
    OBVIOUS
  <1>2. /\ Edited(gens, d, s) /\ d[s].stage = "dead" /\ ~d[s].orphan
        /\ SameWatch(gens, d, s)
    BY <1>1, Typed, ExitedTable DEF Gens
  <1>3. s \in DOMAIN d /\ d \in Seq(Generation) /\ s \in DOMAIN gens /\ s # 0
    BY <1>2, Typed DEF Edited, Gens
  <1>4. CASE gens' = d /\ UNCHANGED <<active, deadline, state, exits>>
             /\ (gens[s].managed \/ gens[s].orphan)
    <2>1. Steady(gens, gens', s)
      BY <1>2, <1>4 DEF Steady, SameWatch
    <2> QED
      BY <1>2, <1>4, <2>1, SupEdit DEF Kid
  <1>5. CASE ReportExit(d, s) /\ ~gens[s].managed
    <2>1. gens' = ReportedIn(d, s)
      BY <1>5 DEF ReportExit, ReportedIn
    <2>2. Edited(d, gens', s) /\ SameFate(d, gens', s)
      BY <1>3, <2>1, ReportedTable
    <2>3. Edited(gens, gens', s) /\ gens'[s].stage = "dead"
      BY <1>2, <2>2 DEF Edited, SameFate
    <2>4. Fewer(gens, gens')
      BY <1>3, <2>3, EditFewer DEF Kid
    <2>5. CASE stopped \/ active # s
      <3>1. UNCHANGED <<active, deadline, state, exits>>
        BY <1>5, <2>5 DEF ReportExit
      <3>2. CASE active # s
        BY <2>3, <3>1, <3>2, SupEdit DEF Kid
      <3>3. CASE stopped
        <4>1. Up
          BY <3>3 DEF SupInv, DownSup, Up
        <4> QED
          BY <2>4, <3>1, <3>3, <4>1, SupCalm
      <3> QED
        BY <2>5, <3>2, <3>3
    <2>6. CASE ~stopped /\ active = s
      <3>1. phase = "up"
        BY <1>3, <2>6 DEF SupInv, DownSup
      <3>2. LiveSup(gens, active, deadline, start, act, restart, exits, closing)
        BY <2>6, <3>1 DEF SupInv
      <3>3. act \in ActTask /\ restart \in RestartTask
        BY Typed
      <3>4. /\ start.pc # "starting" /\ act.pc = "idle" /\ restart.pc = "idle" /\ exits = {}
            /\ Serving(gens, active, deadline)
        BY <1>3, <1>5, <2>6, <3>2, <3>3, LiveReports
      <3>5. OnlyKid(gens', s)
        BY <2>4, <2>6, <3>4, FewerKids DEF Serving
      <3>6. OnlyKid(gens', 0)
        BY <2>3, <3>5, DeadIsNone DEF Kid
      <3>7. PICK y : active' = 0 /\ deadline' = 0 /\ exits' = {y}
        BY <1>5, <2>6, <3>4 DEF ReportExit
      <3>8. LiveSup(gens', 0, 0, start, act, restart, {y}, closing)
        BY <3>2, <3>4, <3>6, SupReports
      <3>9. OneKid(gens')
        BY <3>5, OnlyIsOne
      <3> QED
        BY <2>6, <3>1, <3>7, <3>8, <3>9 DEF SupInv
    <2> QED
      BY <2>5, <2>6
  <1> QED
    BY <1>1, <1>4, <1>5 DEF ProcessExits

\* RefuseReady keeps the supervision.
LEMMA SupRefuseReady ==
    ASSUME HostTypeOK, SupInv, NEW s \in Gens, RefuseReady(s) PROVE SupInv'
  <1>1. gens' = TerminatedIn(gens, s)
    BY DEF RefuseReady, TerminatedIn
  <1>2. /\ Edited(gens, gens', s) /\ gens'[s].stage = gens[s].stage
        /\ gens'[s].orphan = gens[s].orphan
        /\ gens'[s].killed /\ gens'[s].managed /\ gens'[s].reported = gens[s].reported
    BY <1>1, Typed, TerminatedTable DEF Gens
  <1>3. UNCHANGED <<phase, stopped, active, deadline, start, act, restart, exits, closing>>
    BY DEF RefuseReady, tasks
  <1>4. s \in DOMAIN gens /\ Up /\ Settling(s)
    BY DEF Gens, RefuseReady
  <1>5. CASE stopped
    <2>1. Fewer(gens, gens')
      BY <1>2, <1>4, EditFewer DEF Kid
    <2> QED
      BY <1>3, <1>4, <1>5, <2>1, SupCalm
  <1>6. CASE ~stopped
    <2>1. LiveSup(gens, active, deadline, start, act, restart, exits, closing)
      BY <1>4, <1>6 DEF SupInv, Up
    <2>2. active = s => gens[s].managed
      BY <1>4, <2>1 DEF Settling, LiveSup, ActSup, Held
    <2>3. active = s => Steady(gens, gens', s)
      BY <1>2, <2>2 DEF Steady
    <2> QED
      BY <1>2, <1>3, <2>3, SupEdit DEF Kid
  <1> QED
    BY <1>5, <1>6

\* Heartbeat keeps the supervision.
LEMMA SupHeartbeat ==
    ASSUME HostTypeOK, SupInv, NEW s \in Gens, HeartbeatExpires(s) PROVE SupInv'
  <1>1. UNCHANGED <<phase, stopped, active, start, act, restart, exits, closing>> /\ Up
        /\ deadline = s
    BY DEF HeartbeatExpires, tasks
  <1>2. CASE gens' = gens /\ (stopped \/ active # s)
    <2>1. Fewer(gens, gens')
      BY <1>2 DEF Fewer
    <2>2. active # s => Calm(gens, gens', active, deadline, deadline')
      BY <1>1, <1>2, <2>1 DEF Calm, Steady
    <2> QED
      BY <1>1, <1>2, <2>1, <2>2, SupCalm
  <1>3. CASE gens' = KilledIn(gens, s) /\ active = s
    <2>1. /\ Edited(gens, gens', s) /\ gens'[s].stage = gens[s].stage
          /\ gens'[s].orphan = gens[s].orphan /\ gens'[s].killed
          /\ SameWatch(gens, gens', s)
      BY <1>3, Typed, KilledTable DEF Gens
    <2>2. Steady(gens, gens', s)
      BY <2>1 DEF Steady, SameWatch
    <2>3. PICK e, f : e = gens' /\ f = deadline'
      OBVIOUS
    <2>4. Calm(gens, e, active, deadline, f)
      BY <1>3, <2>1, <2>2, <2>3, EditCalm DEF Kid, Gens
    <2> QED
      BY <1>1, <2>3, <2>4, SupCalm DEF Calm
  <1> QED
    BY <1>2, <1>3 DEF HeartbeatExpires, KilledIn

\* Boot keeps the supervision.
LEMMA SupBoot == ASSUME HostTypeOK, SupInv, NEW s \in Gens, Boot(s) PROVE SupInv'
  <1>1. UNCHANGED <<phase, stopped, start, act, restart, closing>> /\ gens[s].stage = "spawned"
    BY DEF Boot
  <1>2. CASE ProcessExits(s)
    BY <1>1, <1>2, SupExits
  <1>3. CASE gens' = LockedIn(gens, s) /\ UNCHANGED <<active, deadline, state, exits>>
    <2>1. /\ Edited(gens, gens', s) /\ gens'[s].orphan = gens[s].orphan
          /\ gens'[s].killed = gens[s].killed /\ SameWatch(gens, gens', s)
          /\ gens'[s].stage = "locked"
      BY <1>3, Typed, LockedTable DEF Gens
    <2>2. Steady(gens, gens', s)
      BY <1>1, <2>1 DEF Steady, SameWatch
    <2> QED
      BY <1>1, <1>3, <2>1, <2>2, SupEdit DEF Kid
  <1> QED
    BY <1>2, <1>3 DEF Boot, LockedIn

\* End keeps the supervision.
LEMMA SupEnd ==
    ASSUME HostTypeOK, SupInv, NEW s \in Gens, End(s) \/ Break(s) PROVE SupInv'
  <1>1. UNCHANGED <<phase, stopped, start, act, restart, closing>> /\ gens[s].stage # "dead"
    BY DEF End, Break, Alive
  <1>2. CASE ProcessExits(s)
    BY <1>1, <1>2, SupExits
  <1>3. CASE gens' = HungIn(gens, s) /\ UNCHANGED <<active, deadline, state, exits>>
    <2>1. /\ Edited(gens, gens', s) /\ gens'[s].orphan = gens[s].orphan
          /\ gens'[s].killed = gens[s].killed /\ SameWatch(gens, gens', s)
          /\ gens'[s].stage = gens[s].stage
      BY <1>3, Typed, HungTable DEF Gens
    <2>2. Steady(gens, gens', s)
      BY <1>1, <2>1 DEF Steady, SameWatch
    <2> QED
      BY <1>1, <1>3, <2>1, <2>2, SupEdit DEF Kid
  <1> QED
    BY <1>2, <1>3 DEF End, Break, HungIn

\* Ready keeps the supervision.
LEMMA SupReady == ASSUME HostTypeOK, SupInv, NEW s \in Gens, Ready(s) PROVE SupInv'
  <1>1. UNCHANGED <<phase, stopped, active, deadline, start, act, restart, exits, closing>>
        /\ gens[s].stage = "locked"
    BY DEF Ready, tasks
  <1>2. PICK n : n = lastFence' /\ n \in Nat
    BY DEF Ready, HostTypeOK, DataTyped
  <1>3. PICK d : d = ReadyIn(gens, s, n)
    OBVIOUS
  <1>4. /\ Edited(gens, d, s) /\ d[s].stage = "ready" /\ d[s].orphan = gens[s].orphan
        /\ d[s].killed = gens[s].killed /\ SameWatch(gens, d, s)
    BY <1>2, <1>3, Typed, ReadyTable DEF Gens
  <1>5. gens' = Redispatched(d, s, Pending)
    BY <1>2, <1>3 DEF Ready, ReadyIn
  <1>6. d \in Seq(Generation) /\ s \in DOMAIN d /\ Pending \in SUBSET Requests
    BY <1>4 DEF Edited, Gens, Pending
  <1>7. Edited(d, gens', s) /\ SameFate(d, gens', s) /\ SameWatch(d, gens', s)
    BY <1>5, <1>6, RedispatchedTyped
  <1>8. Edited(gens, gens', s)
    BY <1>4, <1>7 DEF Edited
  <1>9. Steady(gens, gens', s) /\ (Kid(gens', s) => Kid(gens, s))
    BY <1>1, <1>4, <1>7 DEF Steady, SameWatch, SameFate, Kid
  <1> QED
    BY <1>1, <1>8, <1>9, SupEdit

\* Ask keeps the supervision.
LEMMA SupAsk == ASSUME HostTypeOK, SupInv, NEW s \in Gens, Ask(s) PROVE SupInv'
  <1>1. PICK q \in Requests : gens' = Accepted(s, q)
    BY DEF Ask
  <1>2. UNCHANGED <<phase, stopped, active, deadline, start, act, restart, exits, closing>>
    BY DEF Ask, tasks
  <1>3. q \in 0..MaxRequests
    BY HostAssumption DEF Requests
  <1>4. Edited(gens, gens', s) /\ SameFate(gens, gens', s) /\ SameWatch(gens, gens', s)
    <2>1. CASE gens' = gens
      BY <2>1, Typed DEF Edited, SameFate, SameWatch
    <2>2. CASE gens' = Dispatched(gens, s, q)
      BY <1>3, <2>2, Typed, DispatchedTable DEF Gens
    <2> QED
      BY <1>1, <2>1, <2>2 DEF Accepted
  <1>5. Steady(gens, gens', s) /\ (Kid(gens', s) => Kid(gens, s))
    BY <1>4 DEF Steady, SameWatch, SameFate, Kid
  <1> QED
    BY <1>2, <1>4, <1>5, SupEdit

\* Deliver keeps the supervision.
LEMMA SupDeliver ==
    ASSUME HostTypeOK, SupInv, NEW s \in Gens, NEW r \in gens[s].results, Deliver(s, r)
    PROVE  SupInv'
  <1>1. UNCHANGED <<phase, stopped, active, deadline, start, act, restart, exits, closing>>
    BY DEF Deliver, tasks
  <1>2. /\ Edited(gens, gens', s) /\ SameWatch(gens, gens', s)
        /\ gens'[s].stage = gens[s].stage /\ gens'[s].orphan = gens[s].orphan
        /\ gens'[s].killed \in {gens[s].killed, TRUE}
    BY DeliverTable
  <1>3. Steady(gens, gens', s) /\ (Kid(gens', s) => Kid(gens, s))
    BY <1>2 DEF Steady, SameWatch, Kid
  <1> QED
    BY <1>1, <1>2, <1>3, SupEdit

\* ACTIVATE reaches the Generation that serves, and the activation owns its exit.
LEMMA SupReceive ==
    ASSUME HostTypeOK, SupInv, NEW s \in Gens, Receive(s), ~early' PROVE SupInv'
  <1>1. UNCHANGED <<phase, stopped, active, deadline, start, restart, exits, closing>>
        /\ Up /\ gens[s].stage # "dead" /\ ~BeginsEarly(s)
    BY DEF Receive, Alive
  <1>2. /\ Edited(gens, gens', s) /\ SameFate(gens, gens', s)
        /\ gens'[s].reported = gens[s].reported
        /\ \/ UNCHANGED <<act, state>> /\ gens'[s].managed = gens[s].managed
           \/ /\ gens'[s].managed /\ ~stopped /\ active = s /\ act.pc = "idle"
              /\ act'.pc \in {"resolving", "wFailed"}
    BY ReceiveTable
  <1>3. CASE UNCHANGED <<act, state>> /\ gens'[s].managed = gens[s].managed
    <2>1. Steady(gens, gens', s) /\ (Kid(gens', s) => Kid(gens, s))
      BY <1>2, <1>3 DEF Steady, SameFate, Kid
    <2> QED
      BY <1>1, <1>2, <1>3, <2>1, SupEdit
  <1>4. CASE /\ gens'[s].managed /\ ~stopped /\ active = s /\ act.pc = "idle"
             /\ act'.pc \in {"resolving", "wFailed"} /\ state.activation.q # gens[s].act
    <2>1. act'.old = s
      BY <1>4, ReceiveBegins
    <2>2. LiveSup(gens, active, deadline, start, act, restart, exits, closing)
      BY <1>1, <1>4 DEF SupInv, Up
    <2>3. s # 0 /\ s \in DOMAIN gens /\ restart \in RestartTask
      BY Typed DEF Gens
    <2>4. /\ start.pc # "starting" /\ restart.pc = "idle" /\ exits = {}
          /\ Serving(gens, active, deadline)
      <3>1. ~Settling(s)
        BY <1>1, <1>4 DEF BeginsEarly
      <3> QED
        BY <1>4, <2>2, <2>3, <3>1 DEF LiveSup, Settling, RestartTask
    <2>5. Fewer(gens, gens')
      BY <1>2, <2>3, SameFateFewer
    <2>6. Tended(gens', s, deadline)
      <3>1. OnlyKid(gens', s)
        BY <1>4, <2>4, <2>5, FewerKids DEF Serving
      <3> QED
        BY <1>2, <1>4, <2>3, <2>4, <3>1 DEF Tended, Held, Serving, SameFate, Edited
    <2>7. ActSup(gens', s, deadline, act')
      BY <1>4, <2>1, <2>6 DEF ActSup, PreDrain, Testing
    <2>8. LiveSup(gens', s, deadline, start, act', restart, exits, closing)
      BY <1>4, <2>2, <2>4, <2>7 DEF LiveSup
    <2>9. OneKid(gens')
      BY <2>6, OnlyIsOne DEF Tended, Held
    <2> QED
      BY <1>1, <1>4, <2>8, <2>9 DEF SupInv, Up
  <1> QED
    BY <1>2, <1>3, <1>4 DEF Receive

\* A Host that is up and not stopped.
LEMMA SupLive ==
    ASSUME NEW a, OnlyKid(gens', a) \/ OneKid(gens'), phase' = "up", ~stopped',
           LiveSup(gens', active', deadline', start', act', restart', exits', closing')
    PROVE  SupInv'
  BY OnlyIsOne DEF SupInv

\* Stopped keeps the supervision.
LEMMA SupStopped ==
    ASSUME OneKid(gens'), phase' = "up", stopped', StoppedSup(gens', start', act', closing')
    PROVE  SupInv'
  BY DEF SupInv

\* A Host without children forks one.
LEMMA ForkedKid ==
    ASSUME gens \in Seq(Generation), NEW e, NEW n, Forked(gens, e, n), OnlyKid(gens, 0)
    PROVE  OnlyKid(e, n)
  <1>1. \A t \in DOMAIN gens : ~Kid(gens, t)
    BY DEF OnlyKid
  <1> QED
    BY <1>1 DEF OnlyKid, Kid, Forked

\* HostStart keeps the supervision.
LEMMA SupHostStart == ASSUME HostTypeOK, SupInv, HostStart PROVE SupInv'
  <1>1. /\ DownSup /\ OneKid(gens)
        /\ UNCHANGED <<current, stopped, deadline, act, restart, exits, closing>>
    BY DEF SupInv, HostStart
  <1>2. CASE phase' = "down" /\ UNCHANGED <<gens, active, state, start>>
    BY <1>1, <1>2 DEF SupInv, DownSup
  <1>3. CASE /\ phase' = "up" /\ gens' = Spawned(current, file.activation.q)
             /\ active' = NewGen
             /\ start' = [IdleStart EXCEPT !.pc = "starting", !.gen = NewGen]
    <2>1. file.activation.q \in 0..MaxRequests
      BY Typed DEF ActivationState
    <2>2. /\ Forked(gens, gens', NewGen)
          /\ ~gens'[NewGen].orphan /\ gens'[NewGen].managed /\ ~gens'[NewGen].reported
      <3>1. gens \in Seq(Generation) /\ current \in Releases
        BY Typed
      <3> QED
        BY <1>3, <2>1, <3>1, SpawnedTable
    <2>3. OnlyKid(gens', NewGen)
      BY <1>1, <2>2, ForkedKid, Typed DEF DownSup
    <2>4. Held(gens', NewGen)
      BY <2>2, <2>3 DEF Held, Forked
    <2>5. start'.pc = "starting" /\ start'.gen = NewGen
      BY <1>3 DEF IdleStart
    <2>6. ~stopped' /\ exits' = {} /\ act'.pc = "idle" /\ restart'.pc = "idle" /\ closing'.pc = "idle"
      BY <1>1, IdleTyped DEF DownSup
    <2>7. LiveSup(gens', active', deadline', start', act', restart', exits', closing')
      BY <1>3, <2>4, <2>5, <2>6 DEF LiveSup
    <2> QED
      BY <1>3, <2>3, <2>6, <2>7, SupLive
  <1> QED
    BY <1>2, <1>3 DEF HostStart

\* StartReady keeps the supervision.
LEMMA SupStartReady == ASSUME HostTypeOK, SupInv, StartReady PROVE SupInv'
  <1>1. PICK s, g, b : s = start.gen /\ b = FALSE /\ g = ManagedIn(gens, s, b)
    OBVIOUS
  <1>2. s \in DOMAIN gens /\ start.pc = "starting" /\ phase = "up" /\ gens[s].stage = "ready"
        /\ deadline' = s /\ b \in BOOLEAN /\ gens \in Seq(Generation)
        /\ UNCHANGED <<phase, stopped, active, act, restart, exits, closing>>
    BY <1>1, Typed DEF StartReady, HostTypeOK, StartTyped, Up, Readied
  <1>3. /\ Edited(gens, g, s) /\ SameFate(gens, g, s) /\ g[s].managed = b
        /\ g[s].reported = gens[s].reported
    BY <1>1, <1>2, ManagedTable
  <1>4. Edited(gens, gens', s) /\ SameFate(gens, gens', s) /\ ~gens'[s].managed
        /\ gens'[s].reported = gens[s].reported
    <2>1. CASE gens' = g
      BY <1>1, <1>3, <2>1
    <2>2. CASE state.activation.q # 0 /\ gens' = Answered(g, s, state.activation)
      <3>1. g \in Seq(Generation) /\ s \in DOMAIN g
        BY <1>2, <1>3 DEF Edited
      <3>2. /\ state.activation.q \in Requests /\ StatusOf(state.activation) \in Statuses
            /\ ReleaseOf(state.activation) \in Releases
        BY <2>2, Typed, AnswerTyped
      <3>3. Edited(g, gens', s) /\ SameFate(g, gens', s) /\ SameWatch(g, gens', s)
        BY <2>2, <3>1, <3>2, SentTable DEF Answered
      <3>4. Edited(gens, gens', s)
        BY <1>3, <3>3 DEF Edited
      <3> QED
        BY <1>1, <1>3, <3>3, <3>4 DEF SameFate, SameWatch
    <2> QED
      BY <1>1, <2>1, <2>2 DEF StartReady, ManagedIn
  <1>5. Fewer(gens, gens')
    BY <1>2, <1>4, SameFateFewer
  <1>6. start'.pc \in {"idle", "reconciling"}
    BY IdleTyped, Typed DEF StartReady, StartTask
  <1>7. CASE stopped
    <2>1. StoppedSup(gens, start, act, closing) /\ OneKid(gens)
      BY <1>2, <1>7 DEF SupInv
    <2>2. StoppedSup(gens', start', act, closing)
      BY <1>2, <1>5, <1>6, <2>1, FewerKids DEF StoppedSup
    <2>3. OneKid(gens')
      BY <1>5, <2>1, FewerKids
    <2> QED
      BY <1>2, <1>7, <2>2, <2>3, SupStopped
  <1>8. CASE ~stopped
    <2>1. LiveSup(gens, active, deadline, start, act, restart, exits, closing)
      BY <1>2, <1>8 DEF SupInv
    <2>2. /\ act.pc = "idle" /\ restart.pc = "idle" /\ exits = {} /\ closing.pc = "idle"
          /\ active = s /\ Held(gens, s)
      BY <1>1, <1>2, <2>1 DEF LiveSup
    <2>3. OnlyKid(gens', s)
      BY <1>5, <2>2, FewerKids DEF Held
    <2>4. Serving(gens', s, s)
      BY <1>2, <1>4, <2>2, <2>3 DEF Serving, Held, SameFate, Edited
    <2>5. LiveSup(gens', active', deadline', start', act', restart', exits', closing')
      BY <1>2, <1>6, <2>2, <2>4 DEF LiveSup
    <2> QED
      BY <1>2, <1>8, <2>3, <2>5, SupLive
  <1> QED
    BY <1>7, <1>8

\* StartReconciled keeps the supervision.
LEMMA SupStartReconciled == ASSUME HostTypeOK, SupInv, StartReconciled PROVE SupInv'
  <1>1. /\ start.pc = "reconciling" /\ start' = IdleStart /\ start'.pc = "idle"
        /\ phase = "up" /\ start.gen \in DOMAIN gens /\ gens \in Seq(Generation)
        /\ UNCHANGED <<phase, stopped, active, deadline, act, restart, exits, closing>>
    BY IdleTyped, Typed DEF StartReconciled, Up, HostTypeOK, StartTyped
  <1>2. state.activation.q # 0
    BY DEF StartReconciled, HostTypeOK, StateTyped
  <1>3. /\ state.activation.q \in Requests /\ StatusOf(state.activation) \in Statuses
        /\ ReleaseOf(state.activation) \in Releases
    BY <1>2, Typed, AnswerTyped
  <1>4. /\ Edited(gens, gens', start.gen) /\ SameFate(gens, gens', start.gen)
        /\ SameWatch(gens, gens', start.gen)
    BY <1>1, <1>3, SentTable DEF StartReconciled, Answered
  <1>5. Fewer(gens, gens')
    BY <1>1, <1>4, SameFateFewer
  <1>6. OneKid(gens')
    BY <1>5, FewerKids DEF SupInv
  <1>7. CASE stopped
    <2>1. StoppedSup(gens, start, act, closing)
      BY <1>1, <1>7 DEF SupInv
    <2>2. StoppedSup(gens', start', act, closing)
      BY <1>1, <1>5, <2>1, FewerKids DEF StoppedSup
    <2> QED
      BY <1>1, <1>6, <1>7, <2>2, SupStopped
  <1>8. CASE ~stopped
    <2>1. LiveSup(gens, active, deadline, start, act, restart, exits, closing)
      BY <1>1, <1>8 DEF SupInv
    <2>2. PICK e : e = gens'
      OBVIOUS
    <2>3. Steady(gens, e, start.gen) /\ (Kid(e, start.gen) => Kid(gens, start.gen))
      BY <1>4, <2>2 DEF Steady, SameFate, SameWatch, Kid
    <2>4. Calm(gens, e, active, deadline, deadline)
      BY <1>1, <1>4, <2>2, <2>3, EditCalm
    <2>5. LiveSup(e, active, deadline, start, act, restart, exits, closing)
      BY <2>1, <2>4, LiveCalm
    <2>6. LiveSup(e, active, deadline, start', act, restart, exits, closing)
      BY <1>1, <2>5 DEF LiveSup
    <2> QED
      BY <1>1, <1>6, <1>8, <2>2, <2>6, SupLive
  <1> QED
    BY <1>7, <1>8

\* StartFails keeps the supervision.
LEMMA SupStartFails == ASSUME HostTypeOK, SupInv, StartFails PROVE SupInv'
  <1>1. PICK a : a \in 0..Len(gens) /\ StartThrows(a)
    BY Typed DEF StartFails, ActiveWithout
  <1>2. Fewer(gens, gens')
    <2>1. CASE gens' = gens
      BY <2>1 DEF Fewer
    <2>2. CASE a # 0 /\ gens' = [gens EXCEPT ![a].managed = TRUE, ![a].killed = TRUE]
      <3>1. a \in DOMAIN gens /\ gens' = TerminatedIn(gens, a) /\ gens \in Seq(Generation)
        BY <1>1, <2>2, Typed DEF TerminatedIn
      <3>2. Edited(gens, gens', a) /\ gens'[a].stage = gens[a].stage
            /\ gens'[a].orphan = gens[a].orphan
        BY <3>1, TerminatedTable
      <3> QED
        BY <3>1, <3>2, EditFewer DEF Kid
    <2> QED
      BY <1>1, <2>1, <2>2 DEF StartThrows, Gone
  <1>3. OneKid(gens')
    BY <1>2, FewerKids DEF SupInv
  <1>4. /\ start'.pc = "stopping" /\ stopped' /\ phase' = "up" /\ phase = "up"
        /\ start.pc \in {"starting", "reconciling"} /\ closing' = closing
    BY <1>1, Typed DEF StartFails, StartThrows, StartTask, Up
  <1>5. closing.pc = "idle"
    BY <1>4 DEF SupInv, LiveSup, StoppedSup
  <1>6. StoppedSup(gens', start', act', closing')
    BY <1>4, <1>5 DEF StoppedSup
  <1> QED
    BY <1>3, <1>4, <1>6, SupStopped

\* stopSession makes no child.
LEMMA StopFewer ==
    ASSUME HostTypeOK, NEW s \in 0..Len(gens), NEW a \in 0..Len(gens), StopSession(s, a)
    PROVE  Fewer(gens, gens')
  <1>1. gens' = gens \/ (s \in Gens /\ gens' = TerminatedIn(gens, s))
    BY StopTyped DEF HostTypeOK
  <1>2. CASE gens' = gens
    BY <1>2 DEF Fewer
  <1>3. CASE s \in Gens /\ gens' = TerminatedIn(gens, s)
    <2>1. s \in DOMAIN gens /\ gens \in Seq(Generation)
      BY <1>3, Typed DEF Gens
    <2>2. Edited(gens, gens', s) /\ gens'[s].stage = gens[s].stage
          /\ gens'[s].orphan = gens[s].orphan
      BY <1>3, <2>1, TerminatedTable
    <2> QED
      BY <2>1, <2>2, EditFewer DEF Kid
  <1> QED
    BY <1>1, <1>2, <1>3

\* An activation step of a stopped Host.
LEMMA SupStoppedAct ==
    ASSUME HostTypeOK, SupInv, Up, stopped, Fewer(gens, gens'), act.pc \notin {"idle", "fatal"},
           act.pc = "rbVerify" => Gone(act.cand),
           UNCHANGED <<phase, stopped, start, closing>>
    PROVE  SupInv'
  <1>1. StoppedSup(gens, start, act, closing) /\ OneKid(gens)
    BY DEF SupInv, Up
  <1>2. act.pc = "rbVerify" /\ OnlyKid(gens, act.cand) => \A b : OnlyKid(gens, b)
    BY GoneIsNone, Typed
  <1>3. StoppedSup(gens', start, act', closing)
    BY <1>1, <1>2, StoppedMoves
  <1>4. OneKid(gens')
    BY <1>1, FewerKids
  <1> QED
    BY <1>3, <1>4, SupStopped DEF Up

\* The catch of activate() in a stopped Host.
LEMMA SupCaughtStopped ==
    ASSUME HostTypeOK, SupInv, Up, stopped, NEW b, NEW c \in 0..Len(gens),
           NEW a \in 0..Len(gens), Caught(b, c, a), act.pc \notin {"idle", "fatal", "rbVerify"},
           UNCHANGED <<phase, stopped, start, closing>>
    PROVE  SupInv'
  <1>1. Fewer(gens, gens')
    BY StopFewer DEF Caught
  <1> QED
    BY <1>1, SupStoppedAct

\* The supervision of a Host that is up and not stopped, in words of the activation.
LEMMA LiveAct ==
    ASSUME SupInv, Up, ~stopped, act.pc # "idle"
    PROVE  /\ LiveSup(gens, active, deadline, start, act, restart, exits, closing)
           /\ closing.pc = "idle" /\ start.pc \notin {"starting", "stopping"}
           /\ restart.pc = "idle" /\ exits = {} /\ ActSup(gens, active, deadline, act)
           /\ OneKid(gens)
  BY DEF SupInv, LiveSup, Up

\* ... and what is to be shown of a step of the activation.
LEMMA SupLiveAct ==
    ASSUME SupInv, Up, ~stopped, act.pc # "idle", OneKid(gens'),
           ActSup(gens', active', deadline', act') /\ act'.pc # "idle",
           UNCHANGED <<phase, stopped, start, restart, exits, closing>>
    PROVE  SupInv'
  <1>1. LiveSup(gens', active', deadline', start', act', restart', exits', closing')
    BY LiveAct DEF LiveSup
  <1> QED
    BY <1>1, SupLive DEF Up

\* The activation ends and its session serves.
LEMMA SupLiveServes ==
    ASSUME SupInv, Up, ~stopped, act.pc # "idle", act'.pc = "idle",
           Serving(gens', active', deadline'),
           UNCHANGED <<phase, stopped, start, restart, exits, closing>>
    PROVE  SupInv'
  <1>1. LiveSup(gens', active', deadline', start', act', restart', exits', closing')
    BY LiveAct DEF LiveSup
  <1> QED
    BY <1>1, SupLive DEF Up, Serving

\* The session before the drain may go on serving, or is dead.
LEMMA SupCaughtBefore ==
    ASSUME HostTypeOK, SupInv, Up, act.pc \in PreDrain, Caught(FALSE, 0, active),
           UNCHANGED <<phase, stopped, start, restart, exits, closing>>
    PROVE  SupInv'
  <1>0. act.pc # "idle" /\ act.pc \notin {"fatal", "rbVerify"} /\ 0 \in 0..Len(gens)
        /\ active \in 0..Len(gens)
    BY Typed DEF PreDrain
  <1>1. CASE stopped
    BY <1>0, <1>1, SupCaughtStopped
  <1>2. CASE ~stopped
    <2>1. active = act.old /\ Tended(gens, active, deadline) /\ OneKid(gens)
      BY <1>0, <1>2, LiveAct DEF ActSup
    <2>2. CASE Alive(act.old)
      <3>1. Persist(act.target, "failed", "wFailed") /\ UNCHANGED <<gens, active, deadline>>
        BY <1>2, <2>1, <2>2 DEF Caught
      <3>2. act'.pc = "wFailed" /\ act'.old = act.old
        BY <1>0, <3>1, Typed, PersistTyped DEF Phases, Terminal, ActPcs
      <3>3. ActSup(gens', active', deadline', act')
        BY <2>1, <3>1, <3>2 DEF ActSup, PreDrain, Testing
      <3> QED
        BY <1>0, <1>2, <2>1, <3>1, <3>2, <3>3, SupLiveAct
    <2>3. CASE ~Alive(act.old)
      <3>1. StopSession(0, active) /\ act' = [act EXCEPT !.pc = "rbVerify", !.cand = 0]
        BY <1>2, <2>1, <2>3 DEF Caught
      <3>2. gens' = gens /\ active' = active
        BY <3>1 DEF StopSession, Gone
      <3>3. act'.pc = "rbVerify" /\ act'.cand = 0
        BY <3>1, Typed DEF ActTask
      <3>4. gens[active].stage = "dead"
        BY <2>1, <2>3 DEF Alive
      <3>5. OnlyKid(gens, active)
        BY <2>1 DEF Tended, Held
      <3>6. OnlyKid(gens, 0)
        BY <3>4, <3>5, DeadIsNone DEF Kid
      <3>7. ActSup(gens', active', deadline', act')
        BY <3>2, <3>3, <3>4, <3>6 DEF ActSup, PreDrain, Testing
      <3> QED
        BY <1>0, <1>2, <2>1, <3>2, <3>3, <3>7, SupLiveAct
    <2> QED
      BY <2>2, <2>3
  <1> QED
    BY <1>1, <1>2

\* After the drain: what there is of the candidate is terminated.
LEMMA SupCaughtAfter ==
    ASSUME HostTypeOK, SupInv, Up, ~stopped, NEW c \in 0..Len(gens), NEW a \in 0..Len(gens),
           act.pc \in Testing \cup {"wStarting", "starting"}, Caught(TRUE, c, a),
           a = 0 \/ a = c, OnlyKid(gens, c),
           UNCHANGED <<phase, stopped, start, restart, exits, closing>>
    PROVE  SupInv'
  <1>0. act.pc # "idle" /\ c \in Nat
    BY Typed DEF Testing
  <1>1. StopSession(c, a) /\ act' = [act EXCEPT !.pc = "rbVerify", !.cand = c]
    BY DEF Caught
  <1>2. Fewer(gens, gens') /\ active' = 0
    BY <1>1, StopFewer DEF StopSession
  <1>3. act'.pc = "rbVerify" /\ act'.cand = c
    BY <1>1, Typed DEF ActTask
  <1>4. OnlyKid(gens', c) /\ OneKid(gens')
    BY <1>2, FewerKids, OnlyIsOne
  <1>5. 0 \notin DOMAIN gens'
    BY <1>2, Typed DEF Fewer
  <1>6. ActSup(gens', active', deadline', act')
    BY <1>2, <1>3, <1>4, <1>5 DEF ActSup, PreDrain, Testing
  <1> QED
    BY <1>0, <1>3, <1>4, <1>6, SupLiveAct

\* ActResolved keeps the supervision.
LEMMA SupActResolved == ASSUME HostTypeOK, SupInv, ActResolved PROVE SupInv'
  <1>1. Up /\ act.pc = "resolving" /\ act.pc \in PreDrain
        /\ UNCHANGED <<phase, stopped, start, restart, exits, closing>>
    BY DEF ActResolved, PreDrain
  <1>2. CASE Caught(FALSE, 0, active)
    BY <1>1, <1>2, SupCaughtBefore
  <1>3. CASE Persist(reqs[act.q].target, "validating", "wValidating")
             /\ UNCHANGED <<gens, active, deadline>>
    <2>1. act'.pc = "wValidating" /\ act'.old = act.old
      BY <1>1, <1>3, Typed, PersistTyped DEF Phases, ActPcs
    <2>2. Fewer(gens, gens')
      BY <1>3 DEF Fewer
    <2>3. CASE stopped
      BY <1>1, <2>2, <2>3, SupStoppedAct
    <2>4. CASE ~stopped
      <3>1. ActSup(gens, active, deadline, act) /\ OneKid(gens)
        BY <1>1, <2>4, LiveAct
      <3>2. ActSup(gens', active', deadline', act')
        BY <1>1, <1>3, <2>1, <3>1 DEF ActSup, PreDrain, Testing
      <3> QED
        BY <1>1, <1>3, <2>1, <2>4, <3>1, <3>2, SupLiveAct
    <2> QED
      BY <2>3, <2>4
  <1> QED
    BY <1>2, <1>3 DEF ActResolved

\* ActValidating keeps the supervision.
LEMMA SupActValidating == ASSUME HostTypeOK, SupInv, ActValidating PROVE SupInv'
  <1>1. Up /\ act.pc = "wValidating" /\ act.pc \in PreDrain
        /\ UNCHANGED <<phase, stopped, start, restart, exits, closing>>
    BY DEF ActValidating, PreDrain
  <1>2. CASE Caught(FALSE, 0, active)
    BY <1>1, <1>2, SupCaughtBefore
  <1>3. CASE act' = [act EXCEPT !.pc = "verifying"] /\ UNCHANGED <<gens, active, deadline, state>>
    <2>1. act'.pc = "verifying" /\ act'.old = act.old
      BY <1>3, Typed DEF ActTask
    <2>2. Fewer(gens, gens')
      BY <1>3 DEF Fewer
    <2>3. CASE stopped
      BY <1>1, <2>2, <2>3, SupStoppedAct
    <2>4. CASE ~stopped
      <3>1. ActSup(gens, active, deadline, act) /\ OneKid(gens)
        BY <1>1, <2>4, LiveAct
      <3>2. ActSup(gens', active', deadline', act')
        BY <1>1, <1>3, <2>1, <3>1 DEF ActSup, PreDrain, Testing
      <3> QED
        BY <1>1, <1>3, <2>1, <2>4, <3>1, <3>2, SupLiveAct
    <2> QED
      BY <2>3, <2>4
  <1> QED
    BY <1>2, <1>3 DEF ActValidating

\* ActVerified keeps the supervision.
LEMMA SupActVerified == ASSUME HostTypeOK, SupInv, ActVerified PROVE SupInv'
  <1>1. Up /\ act.pc = "verifying" /\ act.pc \in PreDrain
        /\ UNCHANGED <<phase, stopped, start, restart, exits, closing>>
    BY DEF ActVerified, PreDrain
  <1>2. CASE Caught(FALSE, 0, active)
    BY <1>1, <1>2, SupCaughtBefore
  <1>3. CASE ~stopped /\ Persist(act.target, "draining", "wDraining")
             /\ UNCHANGED <<gens, active, deadline>>
    <2>1. act'.pc = "wDraining" /\ act'.old = act.old
      BY <1>1, <1>3, Typed, PersistTyped DEF Phases, ActPcs
    <2>2. ActSup(gens, active, deadline, act) /\ OneKid(gens)
      BY <1>1, <1>3, LiveAct
    <2>3. ActSup(gens', active', deadline', act')
      BY <1>1, <1>3, <2>1, <2>2 DEF ActSup, PreDrain, Testing
    <2> QED
      BY <1>1, <1>3, <2>1, <2>2, <2>3, SupLiveAct
  <1> QED
    BY <1>2, <1>3 DEF ActVerified

\* ActDraining keeps the supervision.
LEMMA SupActDraining == ASSUME HostTypeOK, SupInv, ActDraining PROVE SupInv'
  <1>1. Up /\ act.pc = "wDraining" /\ act.pc \in PreDrain
        /\ UNCHANGED <<phase, stopped, start, restart, exits, closing>>
    BY DEF ActDraining, PreDrain
  <1>2. CASE Caught(FALSE, 0, active)
    BY <1>1, <1>2, SupCaughtBefore
  <1>3. CASE /\ gens' = IF Gone(act.old) THEN gens
                        ELSE [gens EXCEPT ![act.old].managed = TRUE,
                                          ![act.old].killed = TRUE]
             /\ act' = [act EXCEPT !.pc = "draining"] /\ UNCHANGED active
    <2>1. act'.pc = "draining" /\ act'.old = act.old
      BY <1>3, Typed DEF ActTask
    <2>2. act.old \in DOMAIN gens /\ gens \in Seq(Generation)
      BY <1>1, Typed
    <2>3. Fewer(gens, gens') /\ (Held(gens, act.old) => Held(gens', act.old))
      <3>1. CASE gens' = gens
        BY <3>1 DEF Fewer
      <3>2. CASE gens' = TerminatedIn(gens, act.old)
        <4>1. /\ Edited(gens, gens', act.old) /\ gens'[act.old].stage = gens[act.old].stage
              /\ gens'[act.old].orphan = gens[act.old].orphan /\ gens'[act.old].managed
              /\ gens'[act.old].reported = gens[act.old].reported
          BY <2>2, <3>2, TerminatedTable
        <4>2. Fewer(gens, gens')
          BY <2>2, <4>1, EditFewer DEF Kid
        <4> QED
          BY <4>1, <4>2, FewerKids DEF Held, Edited
      <3> QED
        BY <1>3, <3>1, <3>2 DEF TerminatedIn
    <2>4. CASE stopped
      BY <1>1, <2>3, <2>4, SupStoppedAct
    <2>5. CASE ~stopped
      <3>1. active = act.old /\ Held(gens, active) /\ OneKid(gens)
        BY <1>1, <2>5, LiveAct DEF ActSup, Tended
      <3>2. ActSup(gens', active', deadline', act')
        BY <1>3, <2>1, <2>3, <3>1 DEF ActSup, PreDrain, Testing
      <3>3. OneKid(gens')
        BY <2>3, <3>1, FewerKids
      <3> QED
        BY <1>1, <2>1, <2>5, <3>2, <3>3, SupLiveAct
    <2> QED
      BY <2>4, <2>5
  <1> QED
    BY <1>2, <1>3 DEF ActDraining

\* ActDrained keeps the supervision.
LEMMA SupActDrained == ASSUME HostTypeOK, SupInv, ActDrained PROVE SupInv'
  <1>1. Up /\ act.pc = "draining" /\ Gone(act.old) /\ gens' = gens
        /\ UNCHANGED <<phase, stopped, start, restart, exits, closing>>
    BY DEF ActDrained
  <1>2. Fewer(gens, gens')
    BY <1>1 DEF Fewer
  <1>3. CASE stopped
    BY <1>1, <1>2, <1>3, SupStoppedAct
  <1>4. CASE ~stopped
    <2>1. active = act.old /\ Held(gens, active) /\ OneKid(gens)
      BY <1>1, <1>4, LiveAct DEF ActSup
    <2>2. Persist(act.target, "starting", "wStarting") /\ active' = 0
      BY <1>4, <2>1 DEF ActDrained, ActiveWithout
    <2>3. act'.pc = "wStarting"
      BY <1>1, <2>2, Typed, PersistTyped DEF Phases, ActPcs
    <2>4. OnlyKid(gens, 0)
      BY <1>1, <2>1, GoneIsNone, Typed DEF Held
    <2>5. ActSup(gens', active', deadline', act')
      BY <1>1, <2>2, <2>3, <2>4 DEF ActSup, PreDrain, Testing
    <2> QED
      BY <1>1, <1>4, <2>1, <2>3, <2>5, SupLiveAct
  <1> QED
    BY <1>3, <1>4

\* The activation forks a release where there is no child.
LEMMA SupFork ==
    ASSUME HostTypeOK, SupInv, Up, ~stopped, act.pc # "idle", OnlyKid(gens, 0),
           NEW release \in Releases, NEW pc \in {"starting", "rbStarting"}, Fork(release, pc),
           UNCHANGED <<phase, stopped, start, restart, exits, closing>>
    PROVE  SupInv'
  <1>1. gens \in Seq(Generation) /\ act.q \in 0..MaxRequests /\ act \in ActTask
    BY Typed DEF ActTask
  <1>2. /\ Forked(gens, gens', NewGen) /\ ~gens'[NewGen].orphan /\ gens'[NewGen].managed
        /\ ~gens'[NewGen].reported
    BY <1>1, SpawnedTable DEF Fork
  <1>3. OnlyKid(gens', NewGen)
    BY <1>1, <1>2, ForkedKid
  <1>4. act'.pc = pc /\ act'.gen = NewGen /\ active' = NewGen
    BY <1>1 DEF Fork, ActTask
  <1>5. Held(gens', NewGen)
    BY <1>2, <1>3 DEF Held, Forked
  <1>6. ActSup(gens', active', deadline', act')
    BY <1>4, <1>5 DEF ActSup, PreDrain, Testing
  <1>7. OneKid(gens')
    BY <1>3, OnlyIsOne
  <1> QED
    BY <1>4, <1>6, <1>7, SupLiveAct

\* ActStarting keeps the supervision.
LEMMA SupActStarting == ASSUME HostTypeOK, SupInv, ActStarting PROVE SupInv'
  <1>1. Up /\ act.pc = "wStarting" /\ act.target \in Releases /\ 0 \in 0..Len(gens)
        /\ active \in 0..Len(gens)
        /\ UNCHANGED <<phase, stopped, start, restart, exits, closing>>
    BY Typed DEF ActStarting
  <1>2. CASE stopped
    <2>1. CASE gens' = gens
      <3>1. Fewer(gens, gens')
        BY <2>1 DEF Fewer
      <3> QED
        BY <1>1, <1>2, <3>1, SupStoppedAct
    <2>2. CASE Caught(TRUE, 0, active)
      BY <1>1, <1>2, <2>2, SupCaughtStopped
    <2> QED
      BY <1>2, <2>1, <2>2 DEF ActStarting, MayFork
  <1>3. CASE ~stopped
    <2>1. active = 0 /\ OnlyKid(gens, 0)
      BY <1>1, <1>3, LiveAct DEF ActSup
    <2>2. CASE Fork(act.target, "starting")
      BY <1>1, <1>3, <2>1, <2>2, SupFork
    <2>3. CASE Caught(TRUE, 0, active)
      BY <1>1, <1>3, <2>1, <2>3, SupCaughtAfter
    <2> QED
      BY <1>3, <2>2, <2>3 DEF ActStarting, MayFork
  <1> QED
    BY <1>2, <1>3

\* ActStarted keeps the supervision.
LEMMA SupActStarted == ASSUME HostTypeOK, SupInv, ActStarted PROVE SupInv'
  <1>1. Up /\ act.pc = "starting" /\ 0 \in 0..Len(gens) /\ act.gen \in DOMAIN gens
        /\ ActiveWithout(act.gen) \in 0..Len(gens)
        /\ UNCHANGED <<phase, stopped, start, restart, exits, closing>>
    BY Typed DEF ActStarted, ActiveWithout, HostTypeOK, ActTyped
  <1>2. CASE /\ Readied(act.gen) /\ deadline' = act.gen
             /\ act' = [act EXCEPT !.pc = "stabilizing", !.cand = act.gen]
             /\ UNCHANGED <<gens, active, state>>
    <2>1. Fewer(gens, gens')
      BY <1>2 DEF Fewer
    <2>2. CASE stopped
      BY <1>1, <2>1, <2>2, SupStoppedAct
    <2>3. CASE ~stopped
      <3>1. active = act.gen /\ Held(gens, active) /\ OneKid(gens)
        BY <1>1, <2>3, LiveAct DEF ActSup
      <3>2. act'.pc = "stabilizing" /\ act'.cand = act.gen
        BY <1>2, Typed DEF ActTask
      <3>3. Tended(gens, active, deadline')
        BY <1>2, <3>1 DEF Tended, Readied
      <3>4. ActSup(gens', active', deadline', act')
        BY <1>2, <3>1, <3>2, <3>3 DEF ActSup, PreDrain, Testing
      <3> QED
        BY <1>1, <1>2, <2>3, <3>1, <3>2, <3>4, SupLiveAct
    <2> QED
      BY <2>2, <2>3
  <1>3. CASE Gone(act.gen) /\ Caught(TRUE, 0, ActiveWithout(act.gen))
    <2>1. CASE stopped
      BY <1>1, <1>3, <2>1, SupCaughtStopped
    <2>2. CASE ~stopped
      <3>1. active = act.gen /\ OnlyKid(gens, act.gen) /\ act.gen \in Nat /\ gens \in Seq(Generation)
        BY <1>1, <2>2, LiveAct, Typed DEF ActSup, Held
      <3>2. OnlyKid(gens, 0)
        BY <1>3, <3>1, GoneIsNone
      <3>3. ActiveWithout(act.gen) = 0
        BY <3>1 DEF ActiveWithout
      <3> QED
        BY <1>1, <1>3, <2>2, <3>2, <3>3, SupCaughtAfter
    <2> QED
      BY <2>1, <2>2
  <1> QED
    BY <1>2, <1>3 DEF ActStarted

\* The candidate is being tried, and the activation goes on.
LEMMA SupTesting ==
    ASSUME HostTypeOK, SupInv, Up, ~stopped, act.pc \in Testing, act'.pc \in Testing,
           act'.cand = act.cand,
           UNCHANGED <<gens, active, deadline, phase, stopped, start, restart, exits, closing>>
    PROVE  SupInv'
  <1>1. act.pc # "idle" /\ act'.pc # "idle"
    BY DEF Testing
  <1>2. ActSup(gens, active, deadline, act) /\ OneKid(gens)
    BY <1>1, LiveAct
  <1>3. ActSup(gens', active', deadline', act')
    BY <1>2 DEF ActSup, PreDrain, Testing
  <1> QED
    BY <1>1, <1>2, <1>3, SupLiveAct

\* CaughtTesting keeps the supervision.
LEMMA SupCaughtTesting ==
    ASSUME HostTypeOK, SupInv, Up, act.pc \in Testing, Caught(TRUE, act.cand, active),
           UNCHANGED <<phase, stopped, start, restart, exits, closing>>
    PROVE  SupInv'
  <1>1. /\ act.pc \notin {"idle", "fatal", "rbVerify"} /\ act.cand \in 0..Len(gens)
        /\ active \in 0..Len(gens)
    BY Typed DEF Testing
  <1>2. CASE stopped
    BY <1>1, <1>2, SupCaughtStopped
  <1>3. CASE ~stopped
    <2>1. active = act.cand /\ OnlyKid(gens, act.cand)
      BY <1>1, <1>3, LiveAct DEF ActSup, Tended, Held
    <2> QED
      BY <1>1, <1>3, <2>1, SupCaughtAfter
  <1> QED
    BY <1>2, <1>3

\* ActStable keeps the supervision.
LEMMA SupActStable == ASSUME HostTypeOK, SupInv, ActStable PROVE SupInv'
  <1>1. Up /\ act.pc = "stabilizing" /\ act.pc \in Testing
        /\ UNCHANGED <<phase, stopped, start, restart, exits, closing>>
    BY DEF ActStable, Testing
  <1>2. CASE stopped \/ Gone(act.cand)
    <2>1. Caught(TRUE, act.cand, active)
      BY <1>2 DEF ActStable
    <2> QED
      BY <1>1, <2>1, SupCaughtTesting
  <1>3. CASE ~(stopped \/ Gone(act.cand))
    <2>1. UNCHANGED <<gens, active, deadline>>
      BY <1>3 DEF ActStable
    <2>2. CASE Persist(act.target, "committed", "wCommitted")
      <3>1. act'.pc = "wCommitted" /\ act'.cand = act.cand
        BY <1>1, <2>2, Typed, PersistTyped DEF Phases, Terminal, ActPcs
      <3> QED
        BY <1>1, <1>3, <2>1, <3>1, SupTesting DEF Testing
    <2>3. CASE act' = [act EXCEPT !.pc = "committing"]
      <3>1. act'.pc = "committing" /\ act'.cand = act.cand
        BY <2>3, Typed DEF ActTask
      <3> QED
        BY <1>1, <1>3, <2>1, <3>1, SupTesting DEF Testing
    <2> QED
      BY <1>3, <2>2, <2>3 DEF ActStable
  <1> QED
    BY <1>2, <1>3

\* ActCommitting keeps the supervision.
LEMMA SupActCommitting == ASSUME HostTypeOK, SupInv, ActCommitting PROVE SupInv'
  <1>1. Up /\ act.pc = "committing" /\ act.pc \in Testing
        /\ UNCHANGED <<phase, stopped, start, restart, exits, closing>>
    BY DEF ActCommitting, Testing
  <1>2. CASE Caught(TRUE, act.cand, active)
    BY <1>1, <1>2, SupCaughtTesting
  <1>3. CASE stopped /\ act' = IdleAct /\ gens' = gens
    <2>1. Fewer(gens, gens')
      BY <1>3 DEF Fewer
    <2> QED
      BY <1>1, <1>3, <2>1, SupStoppedAct
  <1>4. CASE /\ ~stopped /\ Persist(act.target, "committed", "wCommitted")
             /\ UNCHANGED <<gens, active, deadline>>
    <2>1. act'.pc = "wCommitted" /\ act'.cand = act.cand
      BY <1>1, <1>4, Typed, PersistTyped DEF Phases, Terminal, ActPcs
    <2> QED
      BY <1>1, <1>4, <2>1, SupTesting DEF Testing
  <1> QED
    BY <1>2, <1>3, <1>4 DEF ActCommitting

\* ActCommitted keeps the supervision.
LEMMA SupActCommitted == ASSUME HostTypeOK, SupInv, ActCommitted PROVE SupInv'
  <1>1. Up /\ act.pc = "wCommitted" /\ act.pc \in Testing
        /\ UNCHANGED <<phase, stopped, start, restart, exits, closing>>
    BY DEF ActCommitted, Testing
  <1>2. CASE Caught(TRUE, act.cand, active)
    BY <1>1, <1>2, SupCaughtTesting
  <1>3. CASE /\ ~Gone(act.cand) /\ act' = IdleAct /\ UNCHANGED <<active, deadline>>
             /\ gens' = Sent([gens EXCEPT ![act.cand].managed = FALSE], act.cand, act.q,
                             "succeeded", act.target)
    <2>1. PICK s, b, d : s = act.cand /\ b = FALSE /\ d = ManagedIn(gens, s, b)
      OBVIOUS
    <2>2. s \in DOMAIN gens /\ gens \in Seq(Generation) /\ b \in BOOLEAN
          /\ act.q \in Requests /\ act.target \in Releases /\ "succeeded" \in Statuses
      BY <1>1, <2>1, Typed DEF HostTypeOK, ActTyped, Statuses
    <2>3. /\ Edited(gens, d, s) /\ SameFate(gens, d, s) /\ d[s].managed = b
          /\ d[s].reported = gens[s].reported
      BY <2>1, <2>2, ManagedTable
    <2>4. gens' = Sent(d, s, act.q, "succeeded", act.target)
      BY <1>3, <2>1 DEF ManagedIn
    <2>5. d \in Seq(Generation) /\ s \in DOMAIN d
      BY <2>2, <2>3 DEF Edited
    <2>6. Edited(d, gens', s) /\ SameFate(d, gens', s) /\ SameWatch(d, gens', s)
      BY <2>2, <2>4, <2>5, SentTable
    <2>7. /\ Edited(gens, gens', s) /\ SameFate(gens, gens', s) /\ ~gens'[s].managed
          /\ gens'[s].reported = gens[s].reported
      BY <2>1, <2>3, <2>6 DEF Edited, SameFate, SameWatch
    <2>8. Fewer(gens, gens')
      BY <2>2, <2>7, SameFateFewer
    <2>9. CASE stopped
      BY <1>1, <2>8, <2>9, SupStoppedAct
    <2>10. CASE ~stopped
      <3>1. active = s /\ Tended(gens, s, deadline)
        BY <1>1, <2>1, <2>10, LiveAct DEF ActSup
      <3>2. OnlyKid(gens', s)
        BY <2>8, <3>1, FewerKids DEF Tended, Held
      <3>3. gens[s].stage # "dead"
        BY <1>3, <2>1 DEF Gone
      <3>4. Serving(gens', s, deadline)
        BY <2>2, <2>7, <3>1, <3>2, <3>3 DEF Serving, Tended, Held, SameFate, Edited
      <3>5. act'.pc = "idle"
        BY <1>3, IdleTyped
      <3> QED
        BY <1>1, <1>3, <2>10, <3>1, <3>4, <3>5, SupLiveServes
    <2> QED
      BY <2>9, <2>10
  <1> QED
    BY <1>2, <1>3 DEF ActCommitted

\* The session is answered and is supervised again: an exit that came before is
\* reported now.
LEMMA SupAllow ==
    ASSUME HostTypeOK, SupInv, Up, act.pc \notin {"idle", "fatal", "rbVerify"}, NEW s \in Gens,
           NEW d, Edited(gens, d, s), SameFate(gens, d, s), SameWatch(gens, d, s),
           AllowRecovery(d, s), ~stopped => active = s /\ Tended(gens, s, deadline),
           act' = IdleAct, UNCHANGED <<phase, stopped, start, restart, closing>>
    PROVE  SupInv'
  <1>1. PICK b, h : b = FALSE /\ h = ManagedIn(d, s, b)
    OBVIOUS
  <1>2. d \in Seq(Generation) /\ s \in DOMAIN d /\ b \in BOOLEAN /\ s \in DOMAIN gens /\ s # 0
    <2>1. b \in BOOLEAN
      BY <1>1
    <2>2. gens \in Seq(Generation) /\ DOMAIN gens = 1..Len(gens)
      BY Typed
    <2>3. s \in DOMAIN gens /\ s # 0
      BY <2>2 DEF Gens
    <2> QED
      BY <2>1, <2>2, <2>3 DEF Edited
  <1>3. Edited(d, h, s) /\ SameFate(d, h, s) /\ h[s].managed = b /\ h[s].reported = d[s].reported
    BY <1>1, <1>2, ManagedTable
  <1>4. /\ Edited(gens, h, s) /\ SameFate(gens, h, s) /\ ~h[s].managed
        /\ h[s].reported = gens[s].reported
    BY <1>1, <1>3 DEF Edited, SameFate, SameWatch
  <1>5. act'.pc = "idle" /\ act.pc # "idle"
    BY IdleTyped
  <1>6. CASE gens' = h /\ UNCHANGED <<active, deadline, state, exits>>
             /\ ~(d[s].stage = "dead" /\ ~d[s].reported)
    <2>1. Fewer(gens, gens')
      BY <1>2, <1>4, <1>6, SameFateFewer
    <2>2. CASE stopped
      BY <2>1, <2>2, SupStoppedAct
    <2>3. CASE ~stopped
      <3>1. OnlyKid(gens', s)
        BY <2>1, <2>3, FewerKids DEF Tended, Held
      <3>2. Serving(gens', s, deadline)
        BY <1>2, <1>4, <1>6, <2>3, <3>1 DEF Serving, Tended, Held, SameFate, SameWatch, Edited
      <3> QED
        BY <1>5, <1>6, <2>3, <3>2, SupLiveServes
    <2> QED
      BY <2>2, <2>3
  <1>7. CASE ReportExit(h, s) /\ d[s].stage = "dead" /\ ~d[s].reported
    <2>0. h \in Seq(Generation) /\ s \in DOMAIN h
      BY <1>2, <1>3 DEF Edited
    <2>1. gens' = ReportedIn(h, s)
      BY <1>7 DEF ReportExit, ReportedIn
    <2>2. Edited(h, gens', s) /\ SameFate(h, gens', s)
      BY <2>0, <2>1, ReportedTable
    <2>3. Edited(gens, gens', s) /\ SameFate(gens, gens', s) /\ gens'[s].stage = "dead"
      BY <1>4, <1>7, <2>2 DEF Edited, SameFate
    <2>4. Fewer(gens, gens')
      BY <1>2, <2>3, SameFateFewer
    <2>5. CASE stopped
      BY <2>4, <2>5, SupStoppedAct
    <2>6. CASE ~stopped
      <3>1. OnlyKid(gens', s)
        BY <2>4, <2>6, FewerKids DEF Tended, Held
      <3>2. OnlyKid(gens', 0)
        BY <2>3, <3>1, DeadIsNone DEF Kid
      <3>3. /\ LiveSup(gens, active, deadline, start, act, restart, {}, closing)
            /\ start.pc # "starting" /\ restart.pc = "idle" /\ exits = {}
        BY <1>5, <2>6, LiveAct
      <3>4. PICK y : active' = 0 /\ deadline' = 0 /\ exits' = {y}
        BY <1>7, <2>6, <3>3 DEF ReportExit
      <3>5. LiveSup(gens', 0, 0, start, act', restart, {y}, closing)
        BY <1>5, <3>2, <3>3, SupReports
      <3> QED
        BY <2>6, <3>1, <3>4, <3>5, SupLive DEF Up
    <2> QED
      BY <2>5, <2>6
  <1> QED
    BY <1>1, <1>6, <1>7 DEF AllowRecovery, ManagedIn

\* ActFailed keeps the supervision.
LEMMA SupActFailed == ASSUME HostTypeOK, SupInv, ActFailed PROVE SupInv'
  <1>1. Up /\ act.pc = "wFailed" /\ act.pc \in PreDrain
        /\ UNCHANGED <<phase, start, restart, closing>>
    BY DEF ActFailed, PreDrain
  <1>2. act.old \in Gens /\ gens \in Seq(Generation) /\ act.q \in Requests /\ Previous \in Releases
        /\ "failed" \in Statuses /\ act.old \in 0..Len(gens) /\ active \in 0..Len(gens)
    BY <1>1, Typed DEF Gens, Statuses
  <1>3. CASE /\ AllowRecovery(Sent(gens, act.old, act.q, "failed", Previous), act.old)
             /\ act' = IdleAct /\ UNCHANGED stopped
    <2>1. PICK d : d = Sent(gens, act.old, act.q, "failed", Previous)
      OBVIOUS
    <2>2. /\ Edited(gens, d, act.old) /\ SameFate(gens, d, act.old)
          /\ SameWatch(gens, d, act.old)
      BY <1>2, <2>1, SentTable DEF Gens
    <2>3. ~stopped => active = act.old /\ Tended(gens, act.old, deadline)
      BY <1>1, LiveAct DEF ActSup
    <2> QED
      BY <1>1, <1>2, <1>3, <2>1, <2>2, <2>3, SupAllow
  <1>4. CASE /\ stopped' = TRUE /\ StopSession(act.old, active)
             /\ act' = [act EXCEPT !.pc = "fatal", !.gen = act.old]
    <2>1. Fewer(gens, gens')
      BY <1>2, <1>4, StopFewer
    <2>2. OneKid(gens')
      BY <2>1, FewerKids DEF SupInv
    <2>3. act'.pc = "fatal"
      BY <1>4, Typed DEF ActTask
    <2>4. closing.pc # "idle" => start.pc = "idle" /\ closing.pc # "stopping"
      BY <1>1 DEF SupInv, LiveSup, StoppedSup, Up
    <2>5. StoppedSup(gens', start', act', closing')
      BY <1>1, <2>3, <2>4 DEF StoppedSup
    <2> QED
      BY <1>1, <1>4, <2>2, <2>5, SupStopped DEF Up
  <1> QED
    BY <1>3, <1>4 DEF ActFailed

\* The catch of rollback().
LEMMA SupRollbackThrows ==
    ASSUME HostTypeOK, SupInv, Up, ~stopped, act.pc # "idle", NEW a, RollbackThrows(a),
           gens' = gens, OnlyKid(gens, a), Quiet(gens, a),
           UNCHANGED <<phase, stopped, start, restart, exits, closing>>
    PROVE  SupInv'
  <1>1. active' = a /\ Persist(reqs[act.q].target, "failed", "wRollbackFailed")
    BY DEF RollbackThrows
  <1>2. act'.pc = "wRollbackFailed"
    BY <1>1, Typed, PersistTyped DEF Phases, Terminal, ActPcs
  <1>3. ActSup(gens', active', deadline', act')
    BY <1>1, <1>2 DEF ActSup, PreDrain, Testing
  <1> QED
    BY <1>2, <1>3, SupLiveAct, OnlyIsOne

\* RollbackVerified keeps the supervision.
LEMMA SupRollbackVerified == ASSUME HostTypeOK, SupInv, RollbackVerified PROVE SupInv'
  <1>1. Up /\ act.pc = "rbVerify" /\ Gone(act.cand) /\ gens' = gens
        /\ UNCHANGED <<phase, stopped, deadline, start, restart, exits, closing>>
    BY DEF RollbackVerified
  <1>2. CASE stopped
    <2>1. Fewer(gens, gens')
      BY <1>1 DEF Fewer
    <2> QED
      BY <1>1, <1>2, <2>1, SupStoppedAct
  <1>3. CASE ~stopped
    <2>1. OnlyKid(gens, act.cand) /\ (active \in DOMAIN gens => gens[active].stage = "dead")
      BY <1>1, <1>3, LiveAct DEF ActSup
    <2>2. \A c : OnlyKid(gens, c)
      <3>1. act.cand \in Nat /\ gens \in Seq(Generation)
        BY Typed
      <3> QED
        BY <1>1, <2>1, <3>1, GoneIsNone
    <2>3. Quiet(gens, active)
      BY <2>1 DEF Quiet
    <2>4. CASE act' = [act EXCEPT !.pc = "rbCommit"] /\ UNCHANGED active
      <3>1. act'.pc = "rbCommit"
        BY <2>4, Typed DEF ActTask
      <3>2. ActSup(gens', active', deadline', act')
        BY <1>1, <2>2, <2>3, <2>4, <3>1 DEF ActSup, PreDrain, Testing
      <3>3. OneKid(gens')
        BY <1>1, <2>2, OnlyIsOne
      <3> QED
        BY <1>1, <1>3, <3>1, <3>2, <3>3, SupLiveAct
    <2>5. CASE RollbackThrows(active)
      BY <1>1, <1>3, <2>2, <2>3, <2>5, SupRollbackThrows
    <2> QED
      BY <1>3, <2>4, <2>5 DEF RollbackVerified
  <1> QED
    BY <1>2, <1>3

\* RollbackCommitted keeps the supervision.
LEMMA SupRollbackCommitted == ASSUME HostTypeOK, SupInv, RollbackCommitted PROVE SupInv'
  <1>1. Up /\ act.pc = "rbCommit" /\ Previous \in Releases
        /\ UNCHANGED <<phase, stopped, deadline, start, restart, exits, closing>>
    BY Typed DEF RollbackCommitted
  <1>2. CASE stopped
    <2>1. gens' = gens
      BY <1>2 DEF RollbackCommitted, MayFork
    <2>2. Fewer(gens, gens')
      BY <2>1 DEF Fewer
    <2> QED
      BY <1>1, <1>2, <2>2, SupStoppedAct
  <1>3. CASE ~stopped
    <2>1. OnlyKid(gens, 0) /\ Quiet(gens, active)
      BY <1>1, <1>3, LiveAct DEF ActSup
    <2>2. CASE Fork(Previous, "rbStarting")
      BY <1>1, <1>3, <2>1, <2>2, SupFork
    <2>3. CASE RollbackThrows(active) /\ gens' = gens
      <3>1. OnlyKid(gens, active)
        BY <2>1, DeadIsNone, Typed DEF OnlyKid
      <3> QED
        BY <1>1, <1>3, <2>1, <2>3, <3>1, SupRollbackThrows
    <2> QED
      BY <1>3, <2>2, <2>3 DEF RollbackCommitted, MayFork
  <1> QED
    BY <1>2, <1>3

\* RollbackStarted keeps the supervision.
LEMMA SupRollbackStarted == ASSUME HostTypeOK, SupInv, RollbackStarted PROVE SupInv'
  <1>1. Up /\ act.pc = "rbStarting" /\ gens' = gens
        /\ UNCHANGED <<phase, stopped, start, restart, exits, closing>>
    BY DEF RollbackStarted
  <1>2. CASE stopped
    <2>1. Fewer(gens, gens')
      BY <1>1 DEF Fewer
    <2> QED
      BY <1>1, <1>2, <2>1, SupStoppedAct
  <1>3. CASE ~stopped
    <2>1. active = act.gen /\ Held(gens, active) /\ OneKid(gens)
      BY <1>1, <1>3, LiveAct DEF ActSup
    <2>2. CASE /\ Readied(act.gen) /\ deadline' = act.gen /\ UNCHANGED active
               /\ Persist(reqs[act.q].target, "rolled_back", "wRolledBack")
      <3>1. act'.pc = "wRolledBack" /\ act'.gen = act.gen
        BY <1>1, <2>2, Typed, PersistTyped DEF Phases, Terminal, ActPcs
      <3>2. Tended(gens, active, deadline')
        BY <2>1, <2>2 DEF Tended, Readied
      <3>3. ActSup(gens', active', deadline', act')
        BY <1>1, <2>1, <2>2, <3>1, <3>2 DEF ActSup, PreDrain, Testing
      <3> QED
        BY <1>1, <1>3, <2>1, <3>1, <3>3, SupLiveAct
    <2>3. CASE Gone(act.gen) /\ RollbackThrows(ActiveWithout(act.gen))
      <3>1. ActiveWithout(act.gen) = 0
        BY <2>1 DEF ActiveWithout
      <3>2. OnlyKid(gens, 0)
        <4>1. act.gen \in Nat /\ gens \in Seq(Generation)
          BY Typed DEF ActTask
        <4> QED
          BY <2>1, <2>3, <4>1, GoneIsNone DEF Held
      <3>3. Quiet(gens, 0)
        BY Typed DEF Quiet
      <3> QED
        BY <1>1, <1>3, <2>3, <3>1, <3>2, <3>3, SupRollbackThrows
    <2> QED
      BY <2>2, <2>3 DEF RollbackStarted
  <1> QED
    BY <1>2, <1>3

\* RolledBack keeps the supervision.
LEMMA SupRolledBack == ASSUME HostTypeOK, SupInv, RolledBack PROVE SupInv'
  <1>1. Up /\ act.pc = "wRolledBack"
        /\ UNCHANGED <<phase, stopped, start, restart, closing>>
    BY DEF RolledBack
  <1>2. act.gen \in Gens /\ gens \in Seq(Generation) /\ act.q \in Requests /\ Previous \in Releases
        /\ "rolled_back" \in Statuses
    BY <1>1, Typed DEF Gens, Statuses, HostTypeOK, ActTyped
  <1>3. ~stopped => active = act.gen /\ Tended(gens, act.gen, deadline)
    BY <1>1, LiveAct DEF ActSup
  <1>4. CASE /\ AllowRecovery(Sent(gens, act.gen, act.q, "rolled_back", Previous), act.gen)
             /\ act' = IdleAct
    <2>1. PICK d : d = Sent(gens, act.gen, act.q, "rolled_back", Previous)
      OBVIOUS
    <2>2. /\ Edited(gens, d, act.gen) /\ SameFate(gens, d, act.gen)
          /\ SameWatch(gens, d, act.gen)
      BY <1>2, <2>1, SentTable DEF Gens
    <2> QED
      BY <1>1, <1>2, <1>3, <1>4, <2>1, <2>2, SupAllow
  <1>5. CASE RollbackThrows(active) /\ UNCHANGED <<gens, deadline, exits>>
    <2>1. CASE stopped
      <3>1. Fewer(gens, gens')
        BY <1>5 DEF Fewer
      <3> QED
        BY <1>1, <2>1, <3>1, SupStoppedAct
    <2>2. CASE ~stopped
      <3>1. OnlyKid(gens, active) /\ Quiet(gens, active)
        BY <1>3, <2>2 DEF Tended, Held, Quiet
      <3> QED
        BY <1>1, <1>5, <2>2, <3>1, SupRollbackThrows
    <2> QED
      BY <2>1, <2>2
  <1> QED
    BY <1>4, <1>5 DEF RolledBack

\* RollbackFailed keeps the supervision.
LEMMA SupRollbackFailed == ASSUME HostTypeOK, SupInv, RollbackFailed PROVE SupInv'
  <1>1. /\ Up /\ act.pc = "wRollbackFailed" /\ stopped' /\ StopSession(active, active)
        /\ act' = [act EXCEPT !.pc = "fatal", !.gen = active]
        /\ UNCHANGED <<phase, start, restart, closing>>
    BY DEF RollbackFailed
  <1>2. Fewer(gens, gens')
    BY <1>1, Typed, StopFewer
  <1>3. OneKid(gens')
    BY <1>2, FewerKids DEF SupInv
  <1>4. act'.pc = "fatal"
    BY <1>1, Typed DEF ActTask
  <1>5. closing.pc # "idle" => start.pc = "idle" /\ closing.pc # "stopping"
    BY <1>1 DEF SupInv, LiveSup, StoppedSup, Up
  <1>6. StoppedSup(gens', start', act', closing')
    BY <1>1, <1>4, <1>5 DEF StoppedSup
  <1> QED
    BY <1>1, <1>3, <1>6, SupStopped DEF Up

\* ActStopped keeps the supervision.
LEMMA SupActStopped == ASSUME HostTypeOK, SupInv, ActStopped PROVE SupInv'
  <1>1. CASE act.pc = "fatal" /\ HostEnds("down")
    BY <1>1, HostEndsSup
  <1>2. CASE /\ act.pc = "stopping" /\ act' = IdleAct
             /\ UNCHANGED <<gens, phase, stopped, start, closing>>
    <2>1. Up /\ Fewer(gens, gens')
      BY <1>2 DEF ActStopped, Fewer
    <2>2. stopped
      BY <1>2, <2>1, LiveAct DEF ActSup
    <2> QED
      BY <1>2, <2>1, <2>2, SupStoppedAct
  <1> QED
    BY <1>1, <1>2 DEF ActStopped

\* A step that a stopped Host takes beside its activation.
LEMMA SupStoppedStays ==
    ASSUME SupInv, Up, stopped, Fewer(gens, gens'),
           UNCHANGED <<phase, stopped, start, act, closing>>
    PROVE  SupInv'
  <1>1. StoppedSup(gens, start, act, closing) /\ OneKid(gens)
    BY DEF SupInv, Up
  <1>2. StoppedSup(gens', start, act, closing) /\ OneKid(gens')
    BY <1>1, StoppedFewer, FewerKids
  <1> QED
    BY <1>2, SupStopped DEF Up

\* ExitRecorded keeps the supervision.
LEMMA SupExitRecorded ==
    ASSUME HostTypeOK, SupInv, NEW e, ExitRecorded(e) PROVE SupInv'
  <1>1. CASE HostEnds("down")
    BY <1>1, HostEndsSup
  <1>2. CASE /\ exits' = exits \ {e}
             /\ restart' = IF restart.pc # "idle" \/ stopped THEN restart
                           ELSE [IdleRestart EXCEPT !.pc = "delaying", !.dead = e.gen]
             /\ UNCHANGED <<gens, phase, stopped, active, deadline, state, start, act, closing>>
    <2>1. Up /\ e \in exits /\ Fewer(gens, gens')
      BY <1>2 DEF ExitRecorded, Fewer
    <2>2. CASE stopped
      BY <1>2, <2>1, <2>2, SupStoppedStays
    <2>3. CASE ~stopped
      <3>1. LiveSup(gens, active, deadline, start, act, restart, exits, closing)
        BY <2>1, <2>3 DEF SupInv, Up
      <3>2. /\ restart.pc = "idle" /\ active = 0 /\ OnlyKid(gens, 0) /\ exits = {e}
            /\ act.pc = "idle" /\ start.pc # "starting"
        BY <2>1, <3>1 DEF LiveSup
      <3>3. restart'.pc = "delaying" /\ exits' = {}
        BY <1>2, <2>3, <3>2 DEF IdleRestart
      <3>4. LiveSup(gens', active', deadline', start', act', restart', exits', closing')
        BY <1>2, <3>1, <3>2, <3>3 DEF LiveSup
      <3> QED
        BY <1>2, <2>1, <2>3, <3>2, <3>4, SupLive DEF Up
    <2> QED
      BY <2>2, <2>3
  <1> QED
    BY <1>1, <1>2 DEF ExitRecorded

\* RestartDelayed keeps the supervision.
LEMMA SupRestartDelayed == ASSUME HostTypeOK, SupInv, RestartDelayed PROVE SupInv'
  <1>1. Up /\ restart.pc = "delaying"
    BY DEF RestartDelayed
  <1>2. CASE HostEnds("down")
    BY <1>2, HostEndsSup
  <1>3. CASE stopped /\ UNCHANGED <<gens, phase, stopped, start, act, closing>>
    <2>1. Fewer(gens, gens')
      BY <1>3 DEF Fewer
    <2> QED
      BY <1>1, <1>3, <2>1, SupStoppedStays
  <1>4. CASE /\ ~stopped /\ gens' = Spawned(current, 0) /\ active' = NewGen
             /\ restart' = [restart EXCEPT !.pc = "starting", !.gen = NewGen]
             /\ UNCHANGED <<phase, stopped, deadline, state, start, act, exits, closing>>
    <2>1. LiveSup(gens, active, deadline, start, act, restart, exits, closing)
      BY <1>1, <1>4 DEF SupInv, Up
    <2>2. active = 0 /\ OnlyKid(gens, 0) /\ exits = {} /\ act.pc = "idle" /\ start.pc # "starting"
      BY <1>1, <2>1 DEF LiveSup
    <2>3. restart'.pc = "starting" /\ restart'.gen = NewGen
      BY <1>4, Typed DEF RestartTask
    <2>4. gens \in Seq(Generation) /\ current \in Releases /\ 0 \in 0..MaxRequests
      BY Typed, HostAssumption
    <2>5. /\ Forked(gens, gens', NewGen) /\ ~gens'[NewGen].orphan /\ gens'[NewGen].managed
          /\ ~gens'[NewGen].reported
      BY <1>4, <2>4, SpawnedTable
    <2>6. OnlyKid(gens', NewGen)
      BY <2>2, <2>4, <2>5, ForkedKid
    <2>7. Held(gens', NewGen)
      BY <2>5, <2>6 DEF Held, Forked
    <2>8. LiveSup(gens', active', deadline', start', act', restart', exits', closing')
      BY <1>4, <2>1, <2>2, <2>3, <2>7 DEF LiveSup
    <2> QED
      BY <1>1, <1>4, <2>6, <2>8, SupLive DEF Up
  <1> QED
    BY <1>2, <1>3, <1>4 DEF RestartDelayed, MayFork

\* RestartStarted keeps the supervision.
LEMMA SupRestartStarted == ASSUME HostTypeOK, SupInv, RestartStarted PROVE SupInv'
  <1>1. Up /\ restart.pc = "starting" /\ restart.gen \in DOMAIN gens /\ gens \in Seq(Generation)
        /\ restart.gen \in Nat
        /\ UNCHANGED <<phase, stopped, start, act, exits, closing>>
    <2>1. restart \in RestartTask /\ gens \in Seq(Generation)
      BY Typed
    <2> QED
      BY <2>1 DEF RestartStarted, HostTypeOK, RestartTyped, RestartTask
  <1>2. CASE /\ Readied(restart.gen) /\ gens' = [gens EXCEPT ![restart.gen].managed = FALSE]
             /\ deadline' = restart.gen /\ restart' = IdleRestart /\ UNCHANGED <<active, state>>
    <2>1. PICK s, b : s = restart.gen /\ b = FALSE
      OBVIOUS
    <2>2. b \in BOOLEAN
      BY <2>1
    <2>3. /\ Edited(gens, gens', s) /\ SameFate(gens, gens', s) /\ gens'[s].managed = b
          /\ gens'[s].reported = gens[s].reported
      <3>1. gens' = ManagedIn(gens, s, b)
        BY <1>2, <2>1 DEF ManagedIn
      <3> QED
        BY <1>1, <2>1, <2>2, <3>1, ManagedTable
    <2>4. Fewer(gens, gens') /\ ~gens'[s].managed
      BY <1>1, <2>1, <2>3, SameFateFewer
    <2>5. CASE stopped
      BY <1>1, <2>4, <2>5, SupStoppedStays
    <2>6. CASE ~stopped
      <3>1. LiveSup(gens, active, deadline, start, act, restart, exits, closing)
        BY <1>1, <2>6 DEF SupInv, Up
      <3>2. active = s /\ Held(gens, s) /\ exits = {} /\ act.pc = "idle" /\ start.pc # "starting"
        BY <1>1, <2>1, <3>1 DEF LiveSup
      <3>3. OnlyKid(gens', s)
        BY <2>4, <3>2, FewerKids DEF Held
      <3>4. gens[s].stage = "ready"
        BY <1>2, <2>1 DEF Readied
      <3>5. Serving(gens', s, s)
        BY <1>1, <2>1, <2>3, <2>4, <3>2, <3>3, <3>4 DEF Serving, Held, SameFate, Edited
      <3>6. restart'.pc = "idle"
        BY <1>2, IdleTyped
      <3>7. LiveSup(gens', active', deadline', start', act', restart', exits', closing')
        BY <1>1, <1>2, <2>1, <3>1, <3>2, <3>5, <3>6 DEF LiveSup
      <3> QED
        BY <1>1, <2>6, <3>3, <3>7, SupLive DEF Up
    <2> QED
      BY <2>5, <2>6
  <1>3. CASE /\ Gone(restart.gen) /\ active' = ActiveWithout(restart.gen)
             /\ UNCHANGED <<gens, deadline>>
             /\ stopped \/ \E n \in Recent(state.crashes) :
                  /\ state' = Crashed(n)
                  /\ restart' = [restart EXCEPT !.pc = "recording", !.snap = state']
    <2>1. CASE stopped
      <3>1. Fewer(gens, gens')
        BY <1>3 DEF Fewer
      <3> QED
        BY <1>1, <2>1, <3>1, SupStoppedStays
    <2>2. CASE ~stopped /\ \E n \in Recent(state.crashes) :
                 /\ state' = Crashed(n)
                 /\ restart' = [restart EXCEPT !.pc = "recording", !.snap = state']
      <3>1. LiveSup(gens, active, deadline, start, act, restart, exits, closing)
        BY <1>1, <2>2 DEF SupInv, Up
      <3>2. /\ active = restart.gen /\ OnlyKid(gens, restart.gen) /\ exits = {}
            /\ act.pc = "idle" /\ start.pc # "starting"
        BY <1>1, <3>1 DEF LiveSup, Held
      <3>3. OnlyKid(gens, 0) /\ active' = 0
        BY <1>1, <1>3, <3>2, GoneIsNone DEF ActiveWithout
      <3>4. restart'.pc = "recording"
        <4>1. PICK x : x = state'
          OBVIOUS
        <4>2. restart' = [restart EXCEPT !.pc = "recording", !.snap = x] /\ restart \in RestartTask
          BY <2>2, <4>1, Typed
        <4> QED
          BY <4>2 DEF RestartTask
      <3>5. LiveSup(gens', active', deadline', start', act', restart', exits', closing')
        BY <1>1, <1>3, <3>1, <3>2, <3>3, <3>4 DEF LiveSup
      <3> QED
        BY <1>1, <1>3, <2>2, <3>3, <3>5, SupLive DEF Up
    <2> QED
      BY <1>3, <2>1, <2>2
  <1> QED
    BY <1>2, <1>3 DEF RestartStarted

\* RestartRecorded keeps the supervision.
LEMMA SupRestartRecorded == ASSUME HostTypeOK, SupInv, RestartRecorded PROVE SupInv'
  <1>1. Up /\ restart.pc = "recording"
    BY DEF RestartRecorded
  <1>2. CASE HostEnds("down")
    BY <1>2, HostEndsSup
  <1>3. CASE /\ restart' = IF stopped THEN IdleRestart ELSE [restart EXCEPT !.pc = "delaying"]
             /\ UNCHANGED <<gens, phase, stopped, active, deadline, state, start, act, exits,
                            closing>>
    <2>1. CASE stopped
      <3>1. Fewer(gens, gens')
        BY <1>3 DEF Fewer
      <3> QED
        BY <1>1, <1>3, <2>1, <3>1, SupStoppedStays
    <2>2. CASE ~stopped
      <3>1. LiveSup(gens, active, deadline, start, act, restart, exits, closing)
        BY <1>1, <2>2 DEF SupInv, Up
      <3>2. restart'.pc = "delaying"
        BY <1>3, <2>2, Typed DEF RestartTask
      <3>3. LiveSup(gens', active', deadline', start', act', restart', exits', closing')
        BY <1>1, <1>3, <3>1, <3>2 DEF LiveSup
      <3>4. OnlyKid(gens', 0)
        BY <1>1, <1>3, <3>1 DEF LiveSup
      <3> QED
        BY <1>1, <1>3, <2>2, <3>3, <3>4, SupLive DEF Up
    <2> QED
      BY <2>1, <2>2
  <1> QED
    BY <1>2, <1>3 DEF RestartRecorded

\* What a Host that is up and was not stopped has, besides its active session, is
\* the candidate that a rollback waits for.
LEMMA LiveKids ==
    ASSUME NEW d, NEW a, NEW dl, NEW st, NEW ac, NEW re, NEW x, NEW cl,
           LiveSup(d, a, dl, st, ac, re, x, cl), ac \in ActTask, re \in RestartTask,
           0 \notin DOMAIN d
    PROVE  OnlyKid(d, a) \/ (ac.pc = "rbVerify" /\ OnlyKid(d, ac.cand))
  <1>1. OnlyKid(d, 0) => OnlyKid(d, a)
    BY DEF OnlyKid
  <1>2. ac.pc \in PreDrain \cup Testing \cup {"idle", "draining", "wStarting", "starting",
          "rbVerify", "rbCommit", "rbStarting", "wRolledBack", "wRollbackFailed",
          "stopping", "fatal"}
    BY DEF ActTask, ActPcs, PreDrain, Testing
  <1>3. re.pc \in {"idle", "delaying", "starting", "recording"}
    BY DEF RestartTask
  <1>4. ActSup(d, a, dl, ac) /\ ac.pc # "idle"
          => OnlyKid(d, a) \/ (ac.pc = "rbVerify" /\ OnlyKid(d, ac.cand))
    BY <1>1, <1>2 DEF ActSup, Held, Tended
  <1>5. Held(d, a) \/ Serving(d, a, dl) => OnlyKid(d, a)
    BY DEF Held, Serving
  <1> QED
    BY <1>1, <1>3, <1>4, <1>5 DEF LiveSup

\* Close keeps the supervision.
LEMMA SupClose == ASSUME HostTypeOK, SupInv, Close PROVE SupInv'
  <1>1. /\ Up /\ start.pc = "idle" /\ closing.pc = "idle" /\ stopped'
        /\ StopSession(active, active) /\ UNCHANGED <<phase, start, act>>
        /\ closing' = [pc |-> "joining", gen |-> active]
    BY DEF Close
  <1>2. Fewer(gens, gens')
    BY <1>1, Typed, StopFewer
  <1>3. OneKid(gens')
    BY <1>2, FewerKids DEF SupInv
  <1>4. act.pc = "fatal" \/ OnlyKid(gens, active) \/ (act.pc = "rbVerify" /\ OnlyKid(gens, act.cand))
    <2>1. CASE stopped
      BY <1>1, <2>1 DEF SupInv, StoppedSup, Up
    <2>2. CASE ~stopped
      <3>1. LiveSup(gens, active, deadline, start, act, restart, exits, closing)
        BY <1>1, <2>2 DEF SupInv, Up
      <3>2. act \in ActTask /\ restart \in RestartTask /\ 0 \notin DOMAIN gens
        BY Typed
      <3> QED
        BY <3>1, <3>2, LiveKids
    <2> QED
      BY <2>1, <2>2
  <1>5. StoppedSup(gens', start', act', closing')
    BY <1>1, <1>2, <1>4, FewerKids DEF StoppedSup
  <1> QED
    BY <1>1, <1>3, <1>5, SupStopped DEF Up

\* CloseJoined keeps the supervision.
LEMMA SupCloseJoined == ASSUME HostTypeOK, SupInv, CloseJoined PROVE SupInv'
  <1>1. /\ Up /\ closing.pc = "joining" /\ Gone(closing.gen) /\ act.pc = "idle"
        /\ StopSession(active, active) /\ UNCHANGED <<phase, stopped, start, act>>
        /\ closing' = [pc |-> "stopping", gen |-> active]
    BY DEF CloseJoined
  <1>2. Fewer(gens, gens')
    BY <1>1, Typed, StopFewer
  <1>3. stopped /\ StoppedSup(gens, start, act, closing) /\ OneKid(gens)
    BY <1>1 DEF SupInv, LiveSup, Up
  <1>4. OnlyKid(gens, 0)
    <2>1. closing.gen \in Nat /\ gens \in Seq(Generation)
      BY Typed DEF HostTypeOK, CloseTask
    <2>2. OnlyKid(gens, closing.gen)
      BY <1>1, <1>3 DEF StoppedSup
    <2> QED
      BY <1>1, <2>1, <2>2, GoneIsNone
  <1>5. StoppedSup(gens', start', act', closing')
    BY <1>1, <1>2, <1>3, <1>4, FewerKids DEF StoppedSup
  <1>6. OneKid(gens')
    BY <1>2, <1>3, FewerKids
  <1> QED
    BY <1>1, <1>3, <1>5, <1>6, SupStopped DEF Up

\* HostInit keeps the supervision.
LEMMA SupHostInit == HostInit => SupInv
  BY DEF HostInit, SupInv, DownSup, OneKid, OnlyKid

\* One child at most, in every step.
LEMMA SupHostNext ==
    HostTypeOK /\ SupInv /\ [HostNext]_hostVars /\ ~early' => SupInv'
  <1> SUFFICES ASSUME HostTypeOK, SupInv, [HostNext]_hostVars, ~early' PROVE SupInv'
    OBVIOUS
  <1>1. CASE StartStep
    <2>1. CASE StartStopped
      BY <2>1, HostEndsSup DEF StartStopped
    <2> QED
      BY <1>1, <2>1, SupHostStart, SupStartReady, SupStartReconciled, SupStartFails DEF StartStep
  <1>2. CASE ActivateStep
    BY <1>2, SupActResolved, SupActValidating, SupActVerified, SupActDraining,
       SupActDrained, SupActStarting, SupActStarted, SupActStable, SupActCommitting,
       SupActCommitted, SupActFailed, SupActStopped DEF ActivateStep
  <1>3. CASE RollbackStep
    BY <1>3, SupRollbackVerified, SupRollbackCommitted, SupRollbackStarted,
       SupRolledBack, SupRollbackFailed DEF RollbackStep
  <1>4. CASE RestartStep
    BY <1>4, SupExitRecorded, SupRestartDelayed, SupRestartStarted,
       SupRestartRecorded DEF RestartStep
  <1>5. CASE Close \/ CloseStep \/ HostCrash
    <2>1. CASE CloseDone \/ HostCrash
      BY <2>1, HostEndsSup DEF CloseDone, HostCrash
    <2> QED
      BY <1>5, <2>1, SupClose, SupCloseJoined DEF CloseStep
  <1>6. ASSUME NEW s \in Gens, GenStep(s) \/ Ask(s) \/ Break(s) PROVE SupInv'
    BY <1>6, SupRefuseReady, SupReceive, SupBoot, SupReady, SupDeliver, SupEnd,
       SupHeartbeat, SupAsk DEF GenStep
  <1>7. CASE UNCHANGED hostVars
    <2>1. UNCHANGED <<gens, phase, stopped, active, deadline, start, act, restart, exits, closing>>
      BY <1>7 DEF hostVars, tasks
    <2> QED
      BY <2>1 DEF SupInv, DownSup
  <1> QED
    BY <1>1, <1>2, <1>3, <1>4, <1>5, <1>6, <1>7 DEF HostNext

\* An activation that began early is not forgotten.
LEMMA EarlyStays == [HostNext]_hostVars /\ early => early'
  <1> SUFFICES ASSUME [HostNext]_hostVars, early PROVE early'
    OBVIOUS
  <1>1. CASE StartStep
    BY <1>1 DEF StartStep, HostStart, StartReady, StartReconciled, StartFails, StartStopped
  <1>2. CASE ActivateStep
    BY <1>2 DEF ActivateStep, ActResolved, ActValidating, ActVerified, ActDraining, ActDrained,
       ActStarting, ActStarted, ActStable, ActCommitting, ActCommitted, ActFailed, ActStopped
  <1>3. CASE RollbackStep
    BY <1>3 DEF RollbackStep, RollbackVerified, RollbackCommitted, RollbackStarted, RolledBack,
       RollbackFailed
  <1>4. CASE RestartStep
    BY <1>4 DEF RestartStep, ExitRecorded, RestartDelayed, RestartStarted, RestartRecorded
  <1>5. CASE Close \/ CloseStep \/ HostCrash
    BY <1>5 DEF Close, CloseStep, CloseJoined, CloseDone, HostCrash
  <1>6. ASSUME NEW s \in Gens, GenStep(s) \/ Ask(s) \/ Break(s) PROVE early'
    BY <1>6 DEF GenStep, RefuseReady, Receive, Boot, Ready, Deliver, End, HeartbeatExpires,
       Ask, Break
  <1>7. CASE UNCHANGED hostVars
    BY <1>7 DEF hostVars
  <1> QED
    BY <1>1, <1>2, <1>3, <1>4, <1>5, <1>6, <1>7 DEF HostNext

\* The supervision is always kept, unless an activation began early.
LEMMA SupAlways == HostSpec => [](HostTypeOK /\ (early \/ SupInv))
  <1>1. HostInit => HostTypeOK /\ SupInv
    BY TypeHostInit, SupHostInit
  <1>2. HostTypeOK /\ (early \/ SupInv) /\ [HostNext]_hostVars
          => (HostTypeOK /\ (early \/ SupInv))'
    BY TypeHostNext, SupHostNext, EarlyStays
  <1> QED
    BY <1>1, <1>2, PTL DEF HostSpec

\* A set of which every two members are equal.
LEMMA AtMostOneMember ==
    ASSUME NEW S, \A x, y \in S : x = y PROVE IsFiniteSet(S) /\ Cardinality(S) <= 1
  <1>1. CASE S = {}
    BY <1>1, FS_EmptySet
  <1>2. CASE S # {}
    <2>1. PICK x : x \in S
      BY <1>2
    <2>2. S = {x}
      BY <2>1
    <2>3. IsFiniteSet({x}) /\ Cardinality({x}) = 1
      BY FS_Singleton
    <2> QED
      BY <2>2, <2>3
  <1> QED
    BY <1>1, <1>2

(***************************************************************************)
(* The Host never has two children, although start, activation, rollback    *)
(* and restart each fork one after an await: one of these tasks at most is  *)
(* between two sessions, and it forks when the last child is gone.  The     *)
(* exception is in the property: an activation that began before the        *)
(* startRelease of its session had resumed.                                 *)
(***************************************************************************)
THEOREM HostHasOneChild == HostSpec => []AtMostOneGeneration
  <1>1. early \/ SupInv => AtMostOneGeneration
    <2> SUFFICES ASSUME SupInv PROVE AtMostOneGeneration
      BY DEF AtMostOneGeneration
    <2>1. \A x, y \in Running : x = y
      BY DEF SupInv, OneKid, Kid, Running, Alive, Gens
    <2> QED
      BY <2>1, AtMostOneMember DEF AtMostOneGeneration
  <1> QED
    BY <1>1, SupAlways, PTL

(***************************************************************************)
(* No order of exits, failures and answers leaves a Host that is up and     *)
(* idle without a Generation that is ready, whose exit it would answer by a *)
(* restart and whose silence by SIGKILL.                                    *)
(***************************************************************************)
THEOREM HostSupervisesWhenIdle == HostSpec => []IdleHostSupervises
  <1>1. HostTypeOK /\ (early \/ SupInv) => IdleHostSupervises
    <2> SUFFICES ASSUME HostTypeOK, SupInv, Up /\ ~stopped, start.pc = "idle", act.pc = "idle",
                        restart.pc = "idle", exits = {}
                 PROVE  /\ active # 0 /\ gens[active].stage = "ready" /\ ~gens[active].managed
                        /\ deadline = active \/ gens[active].killed
      BY DEF IdleHostSupervises
    <2>1. Serving(gens, active, deadline)
      BY DEF SupInv, LiveSup, Up
    <2>2. 0 \notin DOMAIN gens
      BY Typed
    <2> QED
      BY <2>1, <2>2 DEF Serving
  <1> QED
    BY <1>1, SupAlways, PTL

(***************************************************************************)
(* close() joins the activation in flight and what it left active: when it  *)
(* returns no child runs, whatever it crossed.                              *)
(***************************************************************************)
THEOREM ClosedHostHasNoChild == HostSpec => CloseLeavesNoChild
  <1>1. HostTypeOK /\ (early \/ SupInv) /\ [HostNext]_hostVars
          => [phase = "up" /\ phase' = "closed" /\ ~early => Running = {}]_hostVars
    <2> SUFFICES ASSUME HostTypeOK, SupInv, HostNext, phase = "up", phase' = "closed"
                 PROVE  Running = {}
      OBVIOUS
    <2>1. CloseDone
      <3>1. CASE StartStep
        BY <3>1 DEF StartStep, HostStart, StartReady, StartReconciled, StartFails, StartStopped,
           HostEnds
      <3>2. CASE ActivateStep
        BY <3>2 DEF ActivateStep, ActResolved, ActValidating, ActVerified, ActDraining,
           ActDrained, ActStarting, ActStarted, ActStable, ActCommitting, ActCommitted,
           ActFailed, ActStopped, HostEnds
      <3>3. CASE RollbackStep
        BY <3>3 DEF RollbackStep, RollbackVerified, RollbackCommitted, RollbackStarted,
           RolledBack, RollbackFailed
      <3>4. CASE RestartStep
        BY <3>4 DEF RestartStep, ExitRecorded, RestartDelayed, RestartStarted,
           RestartRecorded, HostEnds
      <3>5. CASE Close \/ CloseJoined \/ HostCrash
        BY <3>5 DEF Close, CloseJoined, HostCrash, HostEnds
      <3>6. ASSUME NEW s \in Gens, GenStep(s) \/ Ask(s) \/ Break(s) PROVE phase' = phase
        BY <3>6 DEF GenStep, RefuseReady, Receive, Boot, Ready, Deliver, End, HeartbeatExpires,
           Ask, Break
      <3> QED
        BY <3>1, <3>2, <3>3, <3>4, <3>5, <3>6 DEF HostNext, CloseStep
    <2>2. closing.pc = "stopping"
      BY <2>1 DEF CloseDone
    <2>3. OnlyKid(gens, 0) /\ 0 \notin DOMAIN gens
      BY <2>2, Typed DEF SupInv, LiveSup, StoppedSup
    <2> QED
      BY <2>3 DEF OnlyKid, Kid, Running, Alive, Gens
  <1> QED
    BY <1>1, SupAlways, PTL DEF HostSpec, CloseLeavesNoChild
-----------------------------------------------------------------------------
(* 3. What was answered.  rq is the requests, d a session table, a, f and h *)
(* activation records.                                                       *)

Done(rq, q) == q # 0 => rq[q].stage = "settled"

\* every request before q has its terminal event
Past(rq, q) == \A p \in Requests : p < q => rq[p].stage = "settled"

\* requests are made in order
InOrder(rq) ==
    \A p, q \in Requests : p < q /\ rq[q].stage # "none" => rq[p].stage # "none"

\* what a live session has on the wire: one request or one answer at most, and
\* the answer is the recorded one
Sound(rq, g) ==
    /\ g.out # 0 => rq[g.out].stage # "none" /\ Past(rq, g.out)
    /\ g.env # g.out => Done(rq, g.env)
    /\ g.act # 0 => /\ g.act = g.out /\ rq[g.out].stage = "pending"
                    /\ g.results = {} /\ g.stage = "ready"
    /\ \A r \in g.results :
         /\ r.q = g.out /\ g.stage = "ready" /\ g.results = {r}
         /\ rq[r.q].stage = "settled" => SameOutcome(r, rq[r.q].status, rq[r.q].release)
    /\ g.stage = "ready" /\ ~g.orphan /\ g.out = 0
         => \A q \in Requests : rq[q].stage # "pending"

Wired(rq, d) ==
    \A s \in DOMAIN d : IF d[s].stage = "dead" THEN d[s].results = {}
                        ELSE Sound(rq, d[s])

\* the instance lock
OneLock(d) ==
    \A s, t \in DOMAIN d :
       d[s].stage \in {"locked", "ready"} /\ d[t].stage \in {"locked", "ready"} => s = t

MailInv(rq, d) == InOrder(rq) /\ Wired(rq, d) /\ OneLock(d)

\* nobody has been told about q
Open(rq, d, q) ==
    /\ rq[q].stage = "pending"
    /\ \A s \in DOMAIN d : \A r \in d[s].results : r.q # q

\* what was told about q, on the wire or recorded, is this outcome
Agreed(rq, d, q, status, release) ==
    /\ \A s \in DOMAIN d : \A r \in d[s].results :
         r.q = q => Outcome(r.status) = status /\ r.release = release
    /\ rq[q].stage = "settled"
         => Outcome(rq[q].status) = status /\ rq[q].release = release

\* the record a has the identity of its request
Same(rq, a) == a.prev = rq[a.q].expected /\ a.target = rq[a.q].target

\* the record a may be told: what was told before agrees with it
Word(rq, d, a) ==
    a.q # 0 =>
      /\ rq[a.q].stage # "none" /\ Past(rq, a.q)
      /\ a.phase # "none"
      /\ IF a.phase \in Terminal THEN Agreed(rq, d, a.q, StatusOf(a), ReleaseOf(a))
         ELSE Open(rq, d, a.q)
      /\ Same(rq, a) \/ a.phase = "failed"

\* a record that its request does not fit is repeated under the release it names
Fits(rq, a, cur) ==
    a.q # 0 /\ rq[a.q].stage = "pending" => Same(rq, a) \/ cur = a.prev

\* session g waits for the answer to q
Owed(g, q) == g.stage # "dead" => g.out = q /\ g.act = 0 /\ g.results = {}

\* it has been ready
Served(g) == g.stage \in {"ready", "dead"}

Writing == {"wValidating", "wDraining", "wFailed", "wStarting", "wCommitted",
            "wRolledBack", "wRollbackFailed"}

\* the phase that the activation writes at pc
PhaseAt(pc) ==
    CASE pc = "wValidating" -> "validating" [] pc = "wDraining" -> "draining"
      [] pc = "wStarting" -> "starting" [] pc = "wCommitted" -> "committed"
      [] pc = "wRolledBack" -> "rolled_back" [] OTHER -> "failed"

\* nobody knows of the request of the activation ac, and all others are settled
Unsaid(rq, d, h, st, ac) ==
    ac.pc \notin {"stopping", "fatal"} =>
      /\ Open(rq, d, ac.q) /\ Past(rq, ac.q)
      /\ h.q = ac.q \/ Done(rq, h.q)
      /\ st.pc = "reconciling" => Done(rq, st.snap.activation.q)

\* the record h that is written is that of the activation
Noted(d, h, ac) ==
    ac.pc \in Writing =>
      /\ ac.snap.activation = h
      /\ h.q = ac.q /\ h.prev = d[ac.old].release /\ h.target = ac.target
      /\ h.phase = PhaseAt(ac.pc)

\* the session that will be told waits for it, under the release that ac says
Waiting(d, a, ac) ==
    /\ ac.pc \in PreDrain \cup {"draining"} => Owed(d[ac.old], ac.q)
    /\ ac.pc \in PreDrain => Served(d[ac.old])
    /\ ac.pc = "starting" => Owed(d[ac.gen], ac.q) /\ d[ac.gen].release = ac.target
    /\ ac.pc \in Testing =>
         Owed(d[ac.cand], ac.q) /\ Served(d[ac.cand]) /\ d[ac.cand].release = ac.target
    /\ ac.pc \in {"rbStarting", "wRolledBack"} =>
         Owed(d[ac.gen], ac.q) /\ d[ac.gen].release = d[ac.old].release
    /\ ac.pc = "wRolledBack" => Served(d[ac.gen])
    /\ ac.pc \in {"rbCommit", "wRollbackFailed"} /\ a # 0 => Owed(d[a], ac.q)

\* what `current` names
Linked(d, cur, ac) ==
    /\ ac.pc \in PreDrain \cup {"draining", "wStarting", "starting", "stabilizing",
                                "committing", "rbStarting", "wRolledBack"}
         => cur = d[ac.old].release
    /\ ac.pc = "wCommitted" => cur = ac.target

\* an activation that passed its first check has the identity of its request
Asked(rq, d, f, h, ac) ==
    /\ ac.pc \notin {"wFailed", "fatal", "stopping"} =>
         /\ d[ac.old].release = rq[ac.q].expected
         /\ f.q = ac.q => Same(rq, f)
         /\ h.q = ac.q => Same(rq, h)
    /\ ac.pc \in {"wValidating", "verifying", "wDraining", "draining", "wStarting",
                  "starting"} \cup Testing => ac.target = rq[ac.q].target

ActAns(rq, d, cur, f, h, a, st, ac, re, x) ==
    ac.pc # "idle" =>
      /\ x = {} /\ re.pc = "idle"
      /\ Unsaid(rq, d, h, st, ac) /\ Noted(d, h, ac) /\ Waiting(d, a, ac)
      /\ Linked(d, cur, ac) /\ Asked(rq, d, f, h, ac)

\* the first Generation of a Host waits for the answer of the recovered record
Starting(d, f, h, z, st) ==
    st.pc = "starting" => ~z /\ f = h /\ (h.q # 0 => Owed(d[st.gen], h.q))

\* the reconciled record is the Host's, unless another activation went by
Reconciling(rq, d, cur, h, a, st, ac) ==
    st.pc = "reconciling" =>
      /\ Word(rq, d, st.snap.activation) /\ Fits(rq, st.snap.activation, cur)
      /\ st.snap.activation.phase \in Terminal
      /\ st.snap.activation = h \/ Done(rq, st.snap.activation.q)
      /\ Served(d[st.gen])
      /\ d[st.gen].stage # "dead" =>
           /\ a = st.gen /\ ac.pc = "idle"
           /\ st.snap.activation = h /\ Owed(d[st.gen], h.q)

\* the reconciled record is not written yet, and nobody can ask for it
Unwritten(a, st, x) == st.pc = "reconciling" /\ (a = st.gen \/ x # {})

\* what the Host holds and what the file holds
Resting(rq, d, cur, f, h, z, a, st, ac, x) ==
    ~z /\ ac.pc = "idle" =>
      /\ Unwritten(a, st, x) \/ f = h \/ Done(rq, f.q)
      /\ a # 0 => d[a].release = cur

\* the crash records that are on their way to the file; a restart is not the first
\* Generation of the Host
Crashing(h, st, re, x) ==
    /\ \A e \in x : e.snap.activation = h
    /\ re.pc = "recording" => re.snap.activation = h
    /\ st.pc = "reconciling" /\ re.pc = "starting" => re.gen # st.gen

\* the record f in the file and the record h of the Host
Kept(rq, d, cur, f, h) ==
    /\ Word(rq, d, h) /\ Fits(rq, h, cur)
    /\ f.q = h.q \/ Done(rq, f.q)

UpAns ==
    /\ Kept(reqs, gens, current, file.activation, state.activation)
    /\ Resting(reqs, gens, current, file.activation, state.activation, stopped, active,
               start, act, exits)
    /\ Crashing(state.activation, start, restart, exits)
    /\ Starting(gens, file.activation, state.activation, stopped, start)
    /\ Reconciling(reqs, gens, current, state.activation, active, start, act)
    /\ ActAns(reqs, gens, current, file.activation, state.activation, active, start,
              act, restart, exits)

AnsInv ==
    /\ MailInv(reqs, gens)
    /\ Word(reqs, gens, file.activation) /\ Fits(reqs, file.activation, current)
    /\ Up => UpAns

-----------------------------------------------------------------------------
(* Steps that answer nothing.                                               *)

\* every session of d goes on in e, and waits for what it waited for
Aged(d, e) ==
    /\ DOMAIN d \subseteq DOMAIN e
    /\ \A s \in DOMAIN d :
         /\ e[s].release = d[s].release
         /\ d[s].stage = "dead" => e[s].stage = "dead"
         /\ Served(d[s]) => Served(e[s])
         /\ \A q \in Requests : Owed(d[s], q) => Owed(e[s], q)

\* requests go on in rq2, and nothing new is said about them in e
Heard(rq, d, rq2, e) ==
    \A q \in Requests :
      /\ rq[q].stage # "none" =>
           /\ rq2[q].stage # "none"
           /\ rq2[q].expected = rq[q].expected /\ rq2[q].target = rq[q].target
      /\ rq[q].stage = "settled" => rq2[q].stage = "settled"
      /\ Open(rq, d, q) => Open(rq2, e, q)
      /\ \A st, rl : Agreed(rq, d, q, st, rl) => Agreed(rq2, e, q, st, rl)

\* no session of e has an answer that it did not have in d
Silent(d, e) ==
    \A s \in DOMAIN e : e[s].results = {} \/ (s \in DOMAIN d /\ e[s].results \subseteq d[s].results)

\* Without a new answer nobody learns anything.
LEMMA SilentHeard ==
    ASSUME NEW rq, NEW d, NEW e, Silent(d, e)
    PROVE  Heard(rq, d, rq, e)
  <1>1. \A q : Open(rq, d, q) => Open(rq, e, q)
    BY DEF Silent, Open
  <1>2. \A q, st, rl : Agreed(rq, d, q, st, rl) => Agreed(rq, e, q, st, rl)
    BY DEF Silent, Agreed
  <1> QED
    BY <1>1, <1>2 DEF Heard

\* What is settled stays settled.
LEMMA HeardPast ==
    ASSUME NEW rq, NEW d, NEW rq2, NEW e, Heard(rq, d, rq2, e), NEW q \in 0..MaxRequests
    PROVE  (Past(rq, q) => Past(rq2, q)) /\ (Done(rq, q) => Done(rq2, q))
  <1>1. q # 0 => q \in Requests
    BY HostAssumption DEF Requests
  <1>2. Past(rq, q) => Past(rq2, q)
    BY DEF Past, Heard
  <1>3. Done(rq, q) => Done(rq2, q)
    BY <1>1 DEF Done, Heard
  <1> QED
    BY <1>2, <1>3

\* What agreed with a record still agrees with it.
LEMMA HeardWord ==
    ASSUME NEW rq, NEW d, NEW rq2, NEW e, Heard(rq, d, rq2, e), NEW a \in ActivationState,
           Word(rq, d, a), rq \in [Requests -> Request]
    PROVE  /\ Word(rq2, e, a)
           /\ \A cur : Fits(rq, a, cur) => Fits(rq2, a, cur)
           /\ a.q # 0 /\ Same(rq, a) => Same(rq2, a)
  <1>1. a.q # 0 => a.q \in Requests
    BY HostAssumption DEF ActivationState, Requests
  <1>2. a.q \in 0..MaxRequests
    BY DEF ActivationState
  <1>3. Past(rq, a.q) => Past(rq2, a.q)
    BY <1>2, HeardPast
  <1>4. a.q # 0 => rq[a.q].stage # "none"
    BY DEF Word
  <1>5. a.q # 0 => /\ rq2[a.q].stage # "none" /\ (Same(rq, a) <=> Same(rq2, a))
                   /\ rq[a.q].stage = "settled" => rq2[a.q].stage = "settled"
    BY <1>1, <1>4 DEF Heard, Same
  <1>6. a.q # 0 => /\ Open(rq, d, a.q) => Open(rq2, e, a.q)
                   /\ \A st, rl : Agreed(rq, d, a.q, st, rl) => Agreed(rq2, e, a.q, st, rl)
    BY <1>1 DEF Heard
  <1>7. Word(rq2, e, a)
    BY <1>3, <1>5, <1>6 DEF Word
  <1>8. ASSUME NEW cur, Fits(rq, a, cur), a.q # 0, rq2[a.q].stage = "pending"
        PROVE  Same(rq2, a) \/ cur = a.prev
    <2>1. CASE rq[a.q].stage = "pending"
      BY <1>5, <1>8, <2>1 DEF Fits
    <2>2. CASE rq[a.q].stage = "settled"
      BY <1>5, <1>8, <2>2
    <2>3. rq[a.q].stage \in {"none", "pending", "settled"}
      BY <1>1, <1>8 DEF Request
    <2> QED
      BY <1>4, <1>8, <2>1, <2>2, <2>3
  <1> QED
    BY <1>5, <1>7, <1>8 DEF Fits

\* A session that waits goes on waiting, or is dead.
LEMMA AgedWaiting ==
    ASSUME NEW d \in Seq(Generation), NEW e, Aged(d, e), NEW ac, ActTyped(d, ac),
           ac.pc # "idle", NEW a \in 0..Len(d), NEW b, b = a \/ b = 0, Waiting(d, a, ac)
    PROVE  Waiting(e, b, ac)
  <1>1. ac.q \in Requests /\ ac.old \in DOMAIN d /\ (a # 0 => a \in DOMAIN d)
    BY HostAssumption DEF ActTyped, ActTask, Requests
  <1>2. /\ ac.pc \in {"starting", "rbStarting", "wRolledBack"} => ac.gen \in DOMAIN d
        /\ ac.pc \in Testing => ac.cand \in DOMAIN d
    BY DEF ActTyped
  <1>3. \A s \in DOMAIN d : /\ e[s].release = d[s].release
                            /\ Served(d[s]) => Served(e[s])
                            /\ Owed(d[s], ac.q) => Owed(e[s], ac.q)
    BY <1>1 DEF Aged
  <1> QED
    BY <1>1, <1>2, <1>3 DEF Waiting

\* What an activation promises of its sessions outlives a step of theirs.
LEMMA AgedAct ==
    ASSUME NEW d \in Seq(Generation), NEW e, Aged(d, e), NEW ac, ActTyped(d, ac),
           ac.pc # "idle"
    PROVE  /\ ac.old \in DOMAIN d /\ e[ac.old].release = d[ac.old].release
           /\ \A h : Noted(d, h, ac) => Noted(e, h, ac)
           /\ \A cur : Linked(d, cur, ac) => Linked(e, cur, ac)
  <1>1. ac.old \in DOMAIN d
    BY DEF ActTyped
  <1>2. e[ac.old].release = d[ac.old].release
    BY <1>1 DEF Aged
  <1> QED
    BY <1>1, <1>2 DEF Noted, Linked

\* A request nobody knows of stays one in a step without answers.
LEMMA LaterUnsaid ==
    ASSUME NEW rq, NEW d, NEW rq2, NEW e, Heard(rq, d, rq2, e), NEW h \in ActivationState,
           NEW st \in StartTask, NEW ac \in ActTask, ac.q # 0, Unsaid(rq, d, h, st, ac)
    PROVE  Unsaid(rq2, e, h, st, ac)
  <1>1. /\ ac.q \in 0..MaxRequests /\ h.q \in 0..MaxRequests
        /\ st.snap.activation.q \in 0..MaxRequests
    BY DEF ActTask, ActivationState, StartTask, Recorded, HostState
  <1>2. ac.q \in Requests
    BY <1>1, HostAssumption DEF Requests
  <1>3. Open(rq, d, ac.q) => Open(rq2, e, ac.q)
    BY <1>2 DEF Heard
  <1>4. /\ Past(rq, ac.q) => Past(rq2, ac.q)
        /\ Done(rq, h.q) => Done(rq2, h.q)
        /\ Done(rq, st.snap.activation.q) => Done(rq2, st.snap.activation.q)
    BY <1>1, HeardPast
  <1> QED
    BY <1>3, <1>4 DEF Unsaid

\* The identity of a request does not change.
LEMMA LaterAsked ==
    ASSUME NEW rq, NEW d \in Seq(Generation), NEW rq2, NEW e, Heard(rq, d, rq2, e), Aged(d, e),
           NEW f, NEW h, NEW ac, ActTyped(d, ac), ac.pc # "idle",
           ac.pc \in {"stopping", "fatal"} \/ Open(rq, d, ac.q),
           Asked(rq, d, f, h, ac)
    PROVE  Asked(rq2, e, f, h, ac)
  <1>1. ac.q \in Requests
    BY HostAssumption DEF ActTyped, ActTask, Requests
  <1>2. e[ac.old].release = d[ac.old].release
    BY AgedAct
  <1>3. CASE ac.pc \in {"stopping", "fatal"}
    BY <1>3 DEF Asked, Testing
  <1>4. CASE Open(rq, d, ac.q)
    <2>1. rq[ac.q].stage # "none"
      BY <1>4 DEF Open
    <2>2. rq2[ac.q].expected = rq[ac.q].expected /\ rq2[ac.q].target = rq[ac.q].target
      BY <1>1, <2>1 DEF Heard
    <2> QED
      BY <1>2, <2>2 DEF Asked, Same
  <1> QED
    BY <1>3, <1>4

\* The activation goes on while nothing is answered.
LEMMA LaterAct ==
    ASSUME NEW rq, NEW d \in Seq(Generation), NEW rq2, NEW e, Heard(rq, d, rq2, e), Aged(d, e),
           NEW cur, NEW f, NEW h \in ActivationState, NEW a \in 0..Len(d), NEW b, b = a \/ b = 0,
           NEW st \in StartTask, NEW ac, ActTyped(d, ac), NEW re, NEW x, NEW y,
           ac.pc # "idle" => y = x,
           ActAns(rq, d, cur, f, h, a, st, ac, re, x)
    PROVE  ActAns(rq2, e, cur, f, h, b, st, ac, re, y)
  <1> SUFFICES ASSUME ac.pc # "idle" PROVE ActAns(rq2, e, cur, f, h, b, st, ac, re, y)
    BY DEF ActAns
  <1>1. ac \in ActTask /\ ac.q # 0
    BY DEF ActTyped
  <1>2. /\ x = {} /\ y = {} /\ re.pc = "idle"
        /\ Unsaid(rq, d, h, st, ac) /\ Noted(d, h, ac) /\ Waiting(d, a, ac)
        /\ Linked(d, cur, ac) /\ Asked(rq, d, f, h, ac)
    BY DEF ActAns
  <1>3. Unsaid(rq2, e, h, st, ac)
    BY <1>1, <1>2, LaterUnsaid
  <1>4. Waiting(e, b, ac)
    BY <1>2, AgedWaiting
  <1>5. Noted(e, h, ac) /\ Linked(e, cur, ac)
    BY <1>2, AgedAct
  <1>6. ac.pc \in {"stopping", "fatal"} \/ Open(rq, d, ac.q)
    BY <1>2 DEF Unsaid
  <1>7. Asked(rq2, e, f, h, ac)
    BY <1>2, <1>6, LaterAsked
  <1> QED
    BY <1>2, <1>3, <1>4, <1>5, <1>7 DEF ActAns

\* A recovered record stays the one to be told.
LEMMA LaterReconciling ==
    ASSUME NEW rq \in [Requests -> Request], NEW d, NEW rq2, NEW e, Heard(rq, d, rq2, e),
           Aged(d, e), NEW cur, NEW h \in ActivationState, NEW a, NEW b,
           b = a \/ e[a].stage = "dead", NEW ac,
           NEW st \in StartTask, st.pc = "reconciling" => st.gen \in DOMAIN d /\ h.q # 0,
           Reconciling(rq, d, cur, h, a, st, ac)
    PROVE  Reconciling(rq2, e, cur, h, b, st, ac)
  <1> SUFFICES ASSUME st.pc = "reconciling" PROVE Reconciling(rq2, e, cur, h, b, st, ac)
    BY DEF Reconciling
  <1>1. st.snap.activation \in ActivationState /\ h.q \in Requests
    BY HostAssumption DEF StartTask, Recorded, HostState, ActivationState, Requests
  <1>2. st.snap.activation.q \in 0..MaxRequests
    BY <1>1 DEF ActivationState
  <1>3. Word(rq2, e, st.snap.activation) /\ Fits(rq2, st.snap.activation, cur)
    BY <1>1, HeardWord DEF Reconciling
  <1>4. Done(rq, st.snap.activation.q) => Done(rq2, st.snap.activation.q)
    BY <1>2, HeardPast
  <1>5. st.gen \in DOMAIN d
    OBVIOUS
  <1>6. /\ Served(d[st.gen]) => Served(e[st.gen])
        /\ d[st.gen].stage = "dead" => e[st.gen].stage = "dead"
        /\ Owed(d[st.gen], h.q) => Owed(e[st.gen], h.q)
    BY <1>1, <1>5 DEF Aged
  <1>7. /\ st.snap.activation.phase \in Terminal
        /\ st.snap.activation = h \/ Done(rq, st.snap.activation.q)
        /\ Served(d[st.gen])
        /\ d[st.gen].stage # "dead" =>
             /\ a = st.gen /\ ac.pc = "idle"
             /\ st.snap.activation = h /\ Owed(d[st.gen], h.q)
    BY DEF Reconciling
  <1>8. e[st.gen].stage # "dead" => a = st.gen
    BY <1>6, <1>7
  <1>9. e[st.gen].stage # "dead" => b = st.gen
    BY <1>8
  <1> QED
    BY <1>3, <1>4, <1>6, <1>7, <1>9 DEF Reconciling

\* The first Generation of the Host goes on waiting.
LEMMA LaterStarting ==
    ASSUME NEW d, NEW e, Aged(d, e), NEW f, NEW h \in ActivationState, NEW z, NEW st,
           st.pc = "starting" => st.gen \in DOMAIN d, Starting(d, f, h, z, st)
    PROVE  Starting(e, f, h, z, st)
  <1>1. h.q # 0 => h.q \in Requests
    BY HostAssumption DEF ActivationState, Requests
  <1> QED
    BY <1>1 DEF Starting, Aged

\* File and Host agree after a step of a session.
LEMMA LaterResting ==
    ASSUME NEW rq, NEW d \in Seq(Generation), NEW rq2, NEW e, Heard(rq, d, rq2, e), Aged(d, e),
           NEW cur, NEW f \in ActivationState, NEW h, NEW z, NEW a \in 0..Len(d), NEW b, b = a \/ b = 0,
           NEW st, NEW ac, NEW x, NEW y, x \subseteq y, b = a \/ y # {},
           Resting(rq, d, cur, f, h, z, a, st, ac, x)
    PROVE  Resting(rq2, e, cur, f, h, z, b, st, ac, y)
  <1> SUFFICES ASSUME ~z, ac.pc = "idle" PROVE Resting(rq2, e, cur, f, h, z, b, st, ac, y)
    BY DEF Resting
  <1>1. Unwritten(a, st, x) => Unwritten(b, st, y)
    BY DEF Unwritten
  <1>2. Done(rq, f.q) => Done(rq2, f.q)
    BY HeardPast DEF ActivationState
  <1>3. a # 0 => e[a].release = cur
    BY DEF Aged, Resting
  <1> QED
    BY <1>1, <1>2, <1>3 DEF Resting

\* The record of the Host may still be told after a step of a session.
LEMMA LaterKept ==
    ASSUME NEW rq \in [Requests -> Request], NEW d, NEW rq2, NEW e, Heard(rq, d, rq2, e),
           NEW cur, NEW f \in ActivationState, NEW h \in ActivationState, Kept(rq, d, cur, f, h)
    PROVE  Kept(rq2, e, cur, f, h)
  <1>1. Done(rq, f.q) => Done(rq2, f.q)
    BY HeardPast DEF ActivationState
  <1>2. Word(rq2, e, h) /\ Fits(rq2, h, cur)
    BY HeardWord DEF Kept
  <1> QED
    BY <1>1, <1>2 DEF Kept

\* Nothing is answered and the Host goes on as before, but that it may have seen
\* the exit of its Generation.
LEMMA LaterAns ==
    ASSUME HostTypeOK, AnsInv, MailInv(reqs', gens'), Heard(reqs, gens, reqs', gens'),
           Aged(gens, gens'), UNCHANGED <<current, file, phase, stopped, start, act, restart>>,
           state'.activation = state.activation,
           \/ active' = active /\ exits' = exits
           \/ /\ active' = 0 /\ gens'[active].stage = "dead" /\ act.pc = "idle" /\ ~stopped
              /\ \E s : exits' = exits \cup {[gen |-> s, snap |-> state']}
    PROVE  AnsInv'
  <1>1. /\ gens \in Seq(Generation) /\ reqs \in [Requests -> Request]
        /\ active \in 0..Len(gens) /\ state.activation \in ActivationState
        /\ file.activation \in ActivationState /\ start \in StartTask
        /\ ActTyped(gens, act) /\ (start.pc \in {"starting", "reconciling"} => start.gen \in DOMAIN gens)
        /\ start.pc = "reconciling" => state.activation.q # 0
    BY Typed DEF HostTypeOK, DataTyped, StartTyped, StateTyped
  <1>2. Word(reqs', gens', file'.activation) /\ Fits(reqs', file'.activation, current')
    BY <1>1, HeardWord DEF AnsInv
  <1>3. ASSUME Up PROVE UpAns'
    <2>1. Kept(reqs', gens', current', file'.activation, state'.activation)
      BY <1>1, <1>3, LaterKept DEF AnsInv, UpAns
    <2>2. (active' = active \/ active' = 0) /\ exits \subseteq exits'
          /\ (active' = active \/ exits' # {}) /\ (active' = active \/ gens'[active].stage = "dead")
      OBVIOUS
    <2>3. Resting(reqs', gens', current', file'.activation, state'.activation, stopped', active',
                  start', act', exits')
      <3>1. Resting(reqs, gens, current, file.activation, state.activation, stopped, active,
                    start, act, exits)
        BY <1>3 DEF AnsInv, UpAns
      <3>2. Resting(reqs', gens', current, file.activation, state.activation, stopped, active',
                    start, act, exits')
        BY <1>1, <2>2, <3>1, LaterResting
      <3> QED
        BY <3>2
    <2>4. Crashing(state'.activation, start', restart', exits')
      <3>1. Crashing(state.activation, start, restart, exits)
        BY <1>3 DEF AnsInv, UpAns
      <3>2. ASSUME NEW e \in exits' PROVE e.snap.activation = state.activation
        BY <3>1 DEF Crashing
      <3> QED
        BY <3>1, <3>2 DEF Crashing
    <2>5. Starting(gens', file'.activation, state'.activation, stopped', start')
      BY <1>1, <1>3, LaterStarting DEF AnsInv, UpAns
    <2>6. Reconciling(reqs', gens', current', state'.activation, active', start', act')
      <3>1. Reconciling(reqs, gens, current, state.activation, active, start, act)
        BY <1>3 DEF AnsInv, UpAns
      <3> QED
        BY <1>1, <2>2, <3>1, LaterReconciling
    <2>7. ActAns(reqs', gens', current', file'.activation, state'.activation, active', start',
                 act', restart', exits')
      <3>1. ActAns(reqs, gens, current, file.activation, state.activation, active, start,
                   act, restart, exits)
        BY <1>3 DEF AnsInv, UpAns
      <3>2. act.pc # "idle" => exits' = exits
        OBVIOUS
      <3>3. ActAns(reqs', gens', current, file.activation, state.activation, active', start,
                   act, restart, exits')
        BY <1>1, <2>2, <3>1, <3>2, LaterAct
      <3> QED
        BY <3>3
    <2> QED
      BY <2>1, <2>3, <2>4, <2>5, <2>6, <2>7 DEF UpAns
  <1> QED
    BY <1>2, <1>3 DEF AnsInv, Up

\* a session dies, or keeps its mail but for a request that is dropped
Fades(d, e) ==
    /\ DOMAIN e = DOMAIN d
    /\ \A s \in DOMAIN d :
         /\ e[s].release = d[s].release
         /\ \/ e[s].stage = "dead" /\ e[s].results = {}
            \/ /\ e[s].stage = d[s].stage /\ e[s].env = d[s].env /\ e[s].out = d[s].out
               /\ e[s].results = d[s].results
               /\ e[s].act = d[s].act \/ e[s].act = 0
               /\ d[s].orphan => e[s].orphan \/ e[s].stage = "dead"

\* Fading is transitive.
LEMMA FadesTwice ==
    ASSUME NEW c, NEW d, NEW e, Fades(c, d), Fades(d, e) PROVE Fades(c, e)
  <1> QED
    BY DEF Fades

\* Fading sessions tell nobody anything, and keep waiting.
LEMMA FadesLater ==
    ASSUME NEW rq, NEW d, NEW e, MailInv(rq, d), Fades(d, e)
    PROVE  MailInv(rq, e) /\ Heard(rq, d, rq, e) /\ Aged(d, e)
  <1>1. Silent(d, e)
    BY DEF Fades, Silent
  <1>2. Aged(d, e)
    BY DEF Fades, Aged, Served, Owed
  <1>3. ASSUME NEW s \in DOMAIN e, e[s].stage # "dead" PROVE Sound(rq, e[s])
    <2>1. s \in DOMAIN d /\ d[s].stage # "dead"
      BY <1>3 DEF Fades
    <2>2. Sound(rq, d[s])
      BY <2>1 DEF MailInv, Wired
    <2>3. /\ e[s].stage = d[s].stage /\ e[s].env = d[s].env /\ e[s].out = d[s].out
          /\ e[s].results = d[s].results
          /\ e[s].act = d[s].act \/ e[s].act = 0
          /\ d[s].orphan => e[s].orphan
      BY <1>3, <2>1 DEF Fades
    <2> QED
      BY <2>2, <2>3 DEF Sound
  <1>4. ASSUME NEW s \in DOMAIN e, e[s].stage = "dead" PROVE e[s].results = {}
    BY <1>4 DEF Fades, MailInv, Wired
  <1>5. OneLock(e)
    BY DEF Fades, MailInv, OneLock
  <1>6. MailInv(rq, e)
    BY <1>3, <1>4, <1>5 DEF MailInv, Wired
  <1> QED
    BY <1>1, <1>2, <1>6, SilentHeard

\* an edit of session s that keeps its mail
LEMMA MailFades ==
    ASSUME NEW d, NEW e, NEW s \in DOMAIN d, Edited(d, e, s), e[s].stage = d[s].stage,
           e[s].orphan = d[s].orphan, SameOrigin(d, e, s), SameMail(d, e, s)
    PROVE  Fades(d, e)
  <1> QED
    BY DEF Fades, Edited, SameOrigin, SameMail

\* A session that dies takes its mail with it.
LEMMA DeadFades ==
    ASSUME NEW d, NEW e, NEW s \in DOMAIN d, Edited(d, e, s), e[s].stage = "dead",
           e[s].results = {}, SameOrigin(d, e, s)
    PROVE  Fades(d, e)
  <1> QED
    BY DEF Fades, Edited, SameOrigin

\* A table fades into itself.
LEMMA SameFades == ASSUME NEW d PROVE Fades(d, d)
  <1> QED
    BY DEF Fades

\* SIGKILL or SIGTERM leaves the mail.
LEMMA TerminatedFades ==
    ASSUME NEW d \in Seq(Generation), NEW s \in DOMAIN d PROVE Fades(d, TerminatedIn(d, s))
  <1>1. PICK e : e = TerminatedIn(d, s)
    OBVIOUS
  <1>2. Edited(d, e, s) /\ e[s].stage = d[s].stage /\ e[s].orphan = d[s].orphan
        /\ SameOrigin(d, e, s) /\ SameMail(d, e, s)
    BY <1>1, TerminatedTable
  <1> QED
    BY <1>1, <1>2, MailFades

\* The end of the Host drops the requests on the wire.
LEMMA OrphanedFades == ASSUME gens \in Seq(Generation) PROVE Fades(gens, Orphaned)
  <1>1. PICK e : e = Orphaned
    OBVIOUS
  <1>2. /\ DOMAIN e = Gens
        /\ \A s \in Gens :
             /\ e[s].stage = gens[s].stage /\ SameOrigin(gens, e, s)
             /\ e[s].out = gens[s].out /\ e[s].results = gens[s].results
             /\ e[s].act = 0
             /\ gens[s].stage # "dead" => e[s].orphan
    BY <1>1, OrphanedTable
  <1>3. Fades(gens, e)
    BY <1>2 DEF Fades, SameOrigin, Gens
  <1> QED
    BY <1>1, <1>3

\* Stopping a session leaves its mail or drops it.
LEMMA StopFades ==
    ASSUME HostTypeOK, NEW s \in 0..Len(gens), NEW a \in 0..Len(gens), StopSession(s, a)
    PROVE  Fades(gens, gens')
  <1>1. TableTyped /\ gens \in Seq(Generation)
    BY DEF HostTypeOK, TableTyped
  <1>2. \/ gens' = gens
        \/ s \in Gens /\ gens' = TerminatedIn(gens, s)
    BY <1>1, StopTyped
  <1> QED
    BY <1>1, <1>2, SameFades, TerminatedFades DEF Gens

\* unexpectedExit up to its first await, in the table d that gens faded to
LEMMA ReportAns ==
    ASSUME HostTypeOK, SupInv, AnsInv, NEW s \in Gens, NEW d \in Seq(Generation),
           Fades(gens, d), d[s].stage = "dead", ~gens[s].managed,
           gens[s].stage # "dead", ReportExit(d, s),
           UNCHANGED <<current, file, reqs, phase, stopped, start, act, restart>>
    PROVE  AnsInv'
  <1>1. gens' = ReportedIn(d, s)
    BY DEF ReportExit, ReportedIn
  <1>2. s \in DOMAIN d /\ s \in DOMAIN gens /\ s # 0
    BY Typed DEF Fades, Gens
  <1>3. Edited(d, gens', s) /\ SameFate(d, gens', s) /\ SameOrigin(d, gens', s)
        /\ SameMail(d, gens', s)
    BY <1>1, <1>2, ReportedTable
  <1>4. Fades(d, gens') /\ gens'[s].stage = "dead"
    BY <1>2, <1>3, MailFades DEF SameFate
  <1>5. Fades(gens, gens')
    BY <1>4, FadesTwice
  <1>6. MailInv(reqs', gens') /\ Heard(reqs, gens, reqs', gens') /\ Aged(gens, gens')
    BY <1>5, FadesLater DEF AnsInv
  <1>7. CASE stopped \/ active # s
    <2>1. UNCHANGED <<active, state, exits>>
      BY <1>7 DEF ReportExit
    <2> QED
      BY <1>6, <2>1, LaterAns
  <1>8. CASE ~stopped /\ active = s
    <2>1. LiveSup(gens, active, deadline, start, act, restart, exits, closing)
      BY <1>2, <1>8 DEF SupInv, DownSup
    <2>2. act \in ActTask /\ restart \in RestartTask
      BY Typed
    <2>3. act.pc = "idle"
      BY <1>2, <1>8, <2>1, <2>2, LiveReports
    <2>4. PICK n \in Recent(state.crashes) :
             /\ state' = Crashed(n) /\ active' = 0
             /\ exits' = exits \cup {[gen |-> s, snap |-> state']}
      BY <1>8 DEF ReportExit
    <2>5. state'.activation = state.activation
      BY <2>4, CrashTyped, Typed
    <2> QED
      BY <1>4, <1>6, <1>8, <2>3, <2>4, <2>5, LaterAns
  <1> QED
    BY <1>7, <1>8

\* The exit of a session keeps the answers in agreement.
LEMMA AnsExits ==
    ASSUME HostTypeOK, SupInv, AnsInv, NEW s \in Gens, gens[s].stage # "dead", ProcessExits(s),
           UNCHANGED <<current, file, reqs, phase, stopped, start, act, restart>>
    PROVE  AnsInv'
  <1>1. PICK d : d = Exited(gens, s)
    OBVIOUS
  <1>2. /\ Edited(gens, d, s) /\ d[s].stage = "dead" /\ d[s].results = {}
        /\ SameOrigin(gens, d, s)
    BY <1>1, Typed, ExitedTable DEF Gens
  <1>3. d \in Seq(Generation) /\ Fades(gens, d)
    BY <1>2, DeadFades DEF Edited, Gens
  <1>4. CASE gens' = d /\ UNCHANGED <<active, deadline, state, exits>>
    <2>1. MailInv(reqs', gens') /\ Heard(reqs, gens, reqs', gens') /\ Aged(gens, gens')
      BY <1>3, <1>4, FadesLater DEF AnsInv
    <2> QED
      BY <1>4, <2>1, LaterAns
  <1>5. CASE ReportExit(d, s) /\ ~gens[s].managed
    BY <1>2, <1>3, <1>5, ReportAns
  <1> QED
    BY <1>1, <1>4, <1>5 DEF ProcessExits

\* A step in which sessions only fade keeps the answers in agreement.
LEMMA FadesAns ==
    ASSUME HostTypeOK, AnsInv, Fades(gens, gens'),
           UNCHANGED <<current, file, reqs, phase, stopped, start, act, restart, active, state,
                       exits>>
    PROVE  AnsInv'
  <1>1. MailInv(reqs', gens') /\ Heard(reqs, gens, reqs', gens') /\ Aged(gens, gens')
    BY FadesLater DEF AnsInv
  <1> QED
    BY <1>1, LaterAns

\* RefuseReady keeps the answers in agreement.
LEMMA AnsRefuseReady ==
    ASSUME HostTypeOK, AnsInv, NEW s \in Gens, RefuseReady(s) PROVE AnsInv'
  <1>1. gens' = TerminatedIn(gens, s)
    BY DEF RefuseReady, TerminatedIn
  <1>2. Fades(gens, gens')
    BY <1>1, TerminatedFades, Typed DEF Gens
  <1> QED
    BY <1>2, FadesAns DEF RefuseReady, tasks, disk, database

\* HeartbeatExpires keeps the answers in agreement.
LEMMA AnsHeartbeat ==
    ASSUME HostTypeOK, AnsInv, NEW s \in Gens, HeartbeatExpires(s) PROVE AnsInv'
  <1>1. gens' = gens \/ gens' = KilledIn(gens, s)
    BY DEF HeartbeatExpires, KilledIn
  <1>2. Fades(gens, gens')
    <2>1. CASE gens' = gens
      BY <2>1, SameFades
    <2>2. CASE gens' = KilledIn(gens, s)
      <3>1. Edited(gens, gens', s) /\ gens'[s].stage = gens[s].stage
            /\ gens'[s].orphan = gens[s].orphan
            /\ SameOrigin(gens, gens', s) /\ SameMail(gens, gens', s)
        BY <2>2, Typed, KilledTable DEF Gens
      <3> QED
        BY <3>1, MailFades DEF Gens
    <2> QED
      BY <1>1, <2>1, <2>2
  <1> QED
    BY <1>2, FadesAns DEF HeartbeatExpires, tasks, disk, database

\* End keeps the answers in agreement.
LEMMA AnsEnd ==
    ASSUME HostTypeOK, SupInv, AnsInv, NEW s \in Gens, End(s) \/ Break(s) PROVE AnsInv'
  <1>1. UNCHANGED <<current, file, reqs, phase, stopped, start, act, restart>>
        /\ gens[s].stage # "dead"
    BY DEF End, Break, Alive, disk, database
  <1>2. CASE ProcessExits(s)
    BY <1>1, <1>2, AnsExits
  <1>3. CASE gens' = HungIn(gens, s) /\ UNCHANGED <<active, deadline, state, exits>>
    <2>1. Edited(gens, gens', s) /\ gens'[s].stage = gens[s].stage
          /\ gens'[s].orphan = gens[s].orphan
          /\ SameOrigin(gens, gens', s) /\ SameMail(gens, gens', s)
      BY <1>3, Typed, HungTable DEF Gens
    <2>2. Fades(gens, gens')
      BY <2>1, MailFades DEF Gens
    <2> QED
      BY <1>1, <1>3, <2>2, FadesAns
  <1> QED
    BY <1>2, <1>3 DEF End, Break, HungIn

\* The end of the Host: only the file is left.
LEMMA HostEndsAns ==
    ASSUME HostTypeOK, AnsInv, NEW p \in {"down", "closed"}, HostEnds(p), UNCHANGED reqs,
           Word(reqs, gens, file'.activation), Fits(reqs, file'.activation, current'),
           file'.activation \in ActivationState
    PROVE  AnsInv'
  <1>1. Fades(gens, gens')
    BY OrphanedFades, Typed DEF HostEnds
  <1>2. MailInv(reqs', gens') /\ Heard(reqs, gens, reqs', gens')
    BY <1>1, FadesLater DEF AnsInv
  <1>3. reqs \in [Requests -> Request]
    BY DEF HostTypeOK, DataTyped
  <1>4. Word(reqs', gens', file'.activation) /\ Fits(reqs', file'.activation, current')
    BY <1>2, <1>3, HeardWord
  <1>5. ~(phase' = "up")
    BY DEF HostEnds
  <1> QED
    BY <1>2, <1>4, <1>5 DEF AnsInv, Up

-----------------------------------------------------------------------------
(* The Generation makes, repeats and records requests.                      *)

\* requests go on from rq to rq2
Grown(rq, rq2) ==
    \A q \in Requests :
      /\ rq[q].stage # "none" => rq2[q].stage # "none"
      /\ rq[q].stage = "settled" => rq2[q].stage = "settled"

\* A new request or event leaves the wire of a session that is not ready sound.
LEMMA GrownSound ==
    ASSUME NEW rq, NEW rq2, Grown(rq, rq2), NEW g \in Generation, g.stage # "ready",
           Sound(rq, g)
    PROVE  Sound(rq2, g)
  <1>1. /\ g.out \in 0..MaxRequests /\ g.env \in 0..MaxRequests
    BY DEF Generation
  <1>2. (g.out # 0 => g.out \in Requests) /\ (g.env # 0 => g.env \in Requests)
    BY <1>1, HostAssumption DEF Requests
  <1>3. /\ g.out # 0 => rq2[g.out].stage # "none" /\ Past(rq2, g.out)
        /\ g.env # g.out => Done(rq2, g.env)
    BY <1>2 DEF Sound, Grown, Past, Done
  <1> QED
    BY <1>3 DEF Sound

\* If the one ready session is sound, so is the wire.
LEMMA ReadyMail ==
    ASSUME NEW rq, NEW rq2, Grown(rq, rq2), InOrder(rq2), NEW d \in Seq(Generation), NEW e,
           NEW s \in DOMAIN d, Edited(d, e, s), MailInv(rq, d), OneLock(e),
           e[s].stage = "ready", Sound(rq2, e[s])
    PROVE  MailInv(rq2, e)
  <1>1. DOMAIN e = DOMAIN d /\ \A t \in DOMAIN d \ {s} : e[t] = d[t]
    BY DEF Edited
  <1>2. ASSUME NEW t \in DOMAIN e, t # s, e[t].stage # "dead" PROVE Sound(rq2, e[t])
    <2>1. e[t] = d[t] /\ d[t] \in Generation
      BY <1>1, <1>2
    <2>2. Sound(rq, d[t])
      BY <1>1, <1>2, <2>1 DEF MailInv, Wired
    <2>3. e[t].stage # "ready"
      BY <1>1, <1>2 DEF OneLock
    <2> QED
      BY <2>1, <2>2, <2>3, GrownSound
  <1>3. ASSUME NEW t \in DOMAIN e, e[t].stage = "dead" PROVE e[t].results = {}
    BY <1>1, <1>3 DEF MailInv, Wired
  <1> QED
    BY <1>2, <1>3 DEF MailInv, Wired

\* what redispatchPending makes of the table d, for the requests of p
Redirected(d, e, s, p) ==
    \/ e = d /\ (d[s].out # 0 \/ d[s].orphan \/ p \subseteq {d[s].env})
    \/ \E q \in p :
         /\ e = Dispatched(d, s, q) /\ q # d[s].env /\ q \in 0..MaxRequests
         /\ d[s].out = 0 /\ ~d[s].orphan
         /\ \A r \in p : r = d[s].env \/ q <= r

\* What redispatchPending does to a session, in one fact.
LEMMA RedispatchRedirects ==
    ASSUME NEW d \in Seq(Generation), NEW s \in DOMAIN d, NEW p \in SUBSET Requests,
           NEW e, e = Redispatched(d, s, p)
    PROVE  Redirected(d, e, s, p)
  BY RedispatchedTable DEF Redirected

\* redispatchPending: the oldest request that has no event, if there is one
LEMMA RedispatchSound ==
    ASSUME NEW rq \in [Requests -> Request], InOrder(rq), NEW d \in Seq(Generation),
           NEW s \in DOMAIN d, d[s].stage = "ready", d[s].act = 0, d[s].results = {},
           d[s].out # 0 => rq[d[s].out].stage # "none" /\ Past(rq, d[s].out),
           d[s].env # d[s].out => Done(rq, d[s].env),
           NEW p, p = {q \in Requests : rq[q].stage = "pending"},
           NEW e, Redirected(d, e, s, p)
    PROVE  Sound(rq, e[s])
  <1>1. p \in SUBSET Requests
    OBVIOUS
  <1>2. Requests \subseteq Nat \ {0}
    BY HostAssumption DEF Requests
  <1>3. CASE e = d /\ (d[s].out # 0 \/ d[s].orphan \/ p \subseteq {d[s].env})
    <2>1. ASSUME ~d[s].orphan, d[s].out = 0, NEW q \in Requests PROVE rq[q].stage # "pending"
      <3>1. SUFFICES ASSUME rq[q].stage = "pending" PROVE FALSE
        OBVIOUS
      <3>2. q = d[s].env
        BY <1>3, <2>1, <3>1
      <3> QED
        BY <1>2, <2>1, <3>1, <3>2 DEF Done
    <2> QED
      BY <1>3, <2>1 DEF Sound
  <1>4. ASSUME NEW q \in p, e = Dispatched(d, s, q), q # d[s].env, q \in 0..MaxRequests,
               d[s].out = 0, \A r \in p : r = d[s].env \/ q <= r
        PROVE  Sound(rq, e[s])
    <2>1. SameFate(d, e, s) /\ SameOrigin(d, e, s) /\ e[s].out = q /\ e[s].act = q
          /\ e[s].results = d[s].results
      <3>1. q \in 0..MaxRequests /\ e = Dispatched(d, s, q)
        BY <1>4
      <3> HIDE <1>4
      <3> QED
        BY <3>1, DispatchedTable
    <2>2. q \in Requests /\ rq[q].stage = "pending" /\ q # 0
      BY <1>1, <1>2, <1>4
    <2>3. Done(rq, d[s].env)
      BY <1>4 DEF Done
    <2>4. ASSUME NEW x \in Requests, x < q PROVE rq[x].stage = "settled"
      <3>1. rq[x].stage # "none" /\ rq[x].stage \in {"none", "pending", "settled"}
        BY <2>2, <2>4 DEF InOrder, Request
      <3>2. ASSUME rq[x].stage = "pending" PROVE FALSE
        <4>1. x \in p
          BY <3>2
        <4>2. x \in Nat /\ q \in Nat
          BY <1>2, <2>2
        <4>3. x = d[s].env
          BY <1>4, <2>4, <4>1, <4>2
        <4> QED
          BY <1>2, <2>3, <3>2, <4>3 DEF Done
      <3> QED
        BY <3>1, <3>2
    <2>5. Past(rq, q)
      BY <2>4 DEF Past
    <2> QED
      BY <2>1, <2>2, <2>3, <2>5 DEF Sound, SameFate, SameOrigin
  <1> QED
    BY <1>3, <1>4 DEF Redirected

\* redispatchPending leaves a session that waits for an answer waiting.
LEMMA RedispatchOwed ==
    ASSUME NEW d \in Seq(Generation), NEW s \in DOMAIN d, NEW p \in SUBSET Requests,
           NEW e, e = Redispatched(d, s, p), NEW q \in Requests, Owed(d[s], q)
    PROVE  Owed(e[s], q)
  <1>1. q # 0
    BY HostAssumption DEF Requests
  <1>2. CASE d[s].stage = "dead"
    <2>1. e[s].stage = "dead"
      BY <1>2, RedispatchedTyped DEF SameFate
    <2> QED
      BY <2>1 DEF Owed
  <1>3. CASE d[s].stage # "dead"
    <2>1. e = d
      BY <1>1, <1>3, RedispatchedTable DEF Owed
    <2> QED
      BY <2>1
  <1> QED
    BY <1>2, <1>3

\* An edit that keeps release, stage and what a session waits for ages the table.
LEMMA EditAged ==
    ASSUME NEW d, NEW e, NEW s \in DOMAIN d, Edited(d, e, s), e[s].release = d[s].release,
           d[s].stage # "dead", Served(d[s]) => Served(e[s]),
           \A q \in Requests : Owed(d[s], q) => Owed(e[s], q)
    PROVE  Aged(d, e)
  <1>1. DOMAIN e = DOMAIN d /\ \A t \in DOMAIN d \ {s} : e[t] = d[t]
    BY DEF Edited
  <1> QED
    BY <1>1 DEF Aged

\* Boot keeps the answers in agreement.
LEMMA AnsBoot ==
    ASSUME HostTypeOK, SupInv, AnsInv, NEW s \in Gens, Boot(s) PROVE AnsInv'
  <1>1. UNCHANGED <<current, file, reqs, phase, stopped, start, act, restart>>
        /\ gens[s].stage = "spawned" /\ s \in DOMAIN gens
    BY DEF Boot, disk, database, Gens
  <1>2. CASE ProcessExits(s)
    BY <1>1, <1>2, AnsExits
  <1>3. CASE gens' = LockedIn(gens, s) /\ UNCHANGED <<active, deadline, state, exits>>
             /\ ~\E t \in Gens \ {s} : gens[t].stage \in {"locked", "ready"}
    <2>1. PICK e : e = gens'
      OBVIOUS
    <2>2. /\ Edited(gens, e, s) /\ e[s].stage = "locked"
          /\ SameOrigin(gens, e, s) /\ SameMail(gens, e, s)
      BY <1>3, <2>1, Typed, LockedTable DEF Gens
    <2>3. DOMAIN e = DOMAIN gens /\ \A t \in DOMAIN gens \ {s} : e[t] = gens[t]
      BY <2>2 DEF Edited
    <2>4. Sound(reqs, gens[s])
      BY <1>1 DEF AnsInv, MailInv, Wired
    <2>5. Sound(reqs, e[s])
      BY <1>1, <2>2, <2>4 DEF Sound, SameOrigin, SameMail
    <2>6. OneLock(e)
      BY <1>3, <2>3 DEF OneLock, Gens
    <2>7. MailInv(reqs, e)
      <3>1. ASSUME NEW t \in DOMAIN e
            PROVE  IF e[t].stage = "dead" THEN e[t].results = {} ELSE Sound(reqs, e[t])
        BY <2>2, <2>3, <2>5 DEF AnsInv, MailInv, Wired
      <3> QED
        BY <2>6, <3>1 DEF MailInv, Wired, AnsInv
    <2>8. Aged(gens, e)
      BY <1>1, <2>2, EditAged DEF Served, Owed, SameOrigin, SameMail
    <2>9. Silent(gens, e)
      BY <2>2, <2>3 DEF Silent, SameMail
    <2>10. Heard(reqs, gens, reqs, e)
      BY <2>9, SilentHeard
    <2> QED
      BY <1>1, <1>3, <2>1, <2>7, <2>8, <2>10, LaterAns
  <1> QED
    BY <1>2, <1>3 DEF Boot, LockedIn

\* Ready keeps the answers in agreement.
LEMMA AnsReady ==
    ASSUME HostTypeOK, AnsInv, NEW s \in Gens, Ready(s) PROVE AnsInv'
  <1>1. UNCHANGED <<current, file, reqs, phase, stopped, active, state, start, act, restart,
                    exits>>
        /\ gens[s].stage = "locked" /\ s \in DOMAIN gens
    BY DEF Ready, tasks, disk, Gens
  <1>2. PICK n : n = lastFence' /\ n \in Nat
    BY DEF Ready, HostTypeOK, DataTyped
  <1>3. PICK d : d = ReadyIn(gens, s, n)
    OBVIOUS
  <1>4. /\ Edited(gens, d, s) /\ d[s].stage = "ready" /\ d[s].release = gens[s].release
        /\ d[s].env = gens[s].env /\ SameMail(gens, d, s)
    BY <1>2, <1>3, Typed, ReadyTable DEF Gens
  <1>5. PICK e : e = gens'
    OBVIOUS
  <1>6. e = Redispatched(d, s, Pending)
    BY <1>2, <1>3, <1>5 DEF Ready, ReadyIn
  <1>7. d \in Seq(Generation) /\ s \in DOMAIN d /\ Pending \in SUBSET Requests
    BY <1>1, <1>4 DEF Edited, Pending
  <1>8. /\ Edited(d, e, s) /\ SameFate(d, e, s) /\ SameOrigin(d, e, s)
        /\ e[s].results = d[s].results
    BY <1>6, <1>7, RedispatchedTyped
  <1>9. Edited(gens, e, s) /\ e[s].stage = "ready"
    BY <1>4, <1>8 DEF Edited, SameFate
  <1>10. DOMAIN e = DOMAIN gens /\ \A t \in DOMAIN gens \ {s} : e[t] = gens[t]
    BY <1>9 DEF Edited
  <1>11. Sound(reqs, gens[s]) /\ InOrder(reqs) /\ OneLock(gens)
    BY <1>1 DEF AnsInv, MailInv, Wired
  <1>12. OneLock(e)
    BY <1>1, <1>9, <1>10, <1>11 DEF OneLock
  <1>13. d[s].act = 0 /\ d[s].results = {}
    BY <1>1, <1>4, <1>11 DEF Sound, SameMail
  <1>14. /\ d[s].out # 0 => reqs[d[s].out].stage # "none" /\ Past(reqs, d[s].out)
         /\ d[s].env # d[s].out => Done(reqs, d[s].env)
    BY <1>4, <1>11 DEF Sound, SameMail
  <1>15. reqs \in [Requests -> Request] /\ gens \in Seq(Generation)
    BY Typed DEF HostTypeOK, DataTyped
  <1>16. Sound(reqs, e[s])
    <2>1. Redirected(d, e, s, Pending)
      BY <1>6, <1>7, RedispatchRedirects
    <2> QED
      BY <1>4, <1>7, <1>11, <1>13, <1>14, <1>15, <2>1, RedispatchSound DEF Pending
  <1>17. Grown(reqs, reqs)
    BY DEF Grown
  <1>18. MailInv(reqs, e)
    BY <1>1, <1>9, <1>11, <1>12, <1>15, <1>16, <1>17, ReadyMail DEF AnsInv
  <1>19. ASSUME NEW q \in Requests, Owed(gens[s], q) PROVE Owed(e[s], q)
    <2>1. Owed(d[s], q)
      BY <1>1, <1>4, <1>19 DEF Owed, SameMail
    <2> QED
      BY <1>6, <1>7, <2>1, RedispatchOwed
  <1>20. Aged(gens, e)
    BY <1>1, <1>4, <1>8, <1>9, <1>19, EditAged DEF Served, SameOrigin
  <1>21. Silent(gens, e)
    BY <1>4, <1>8, <1>10, <1>13 DEF Silent
  <1>22. Heard(reqs, gens, reqs, e)
    BY <1>21, SilentHeard
  <1> QED
    BY <1>1, <1>5, <1>18, <1>20, <1>22, LaterAns

\* what accept() makes of the table d for the request q
Taken(d, e, s, q) ==
    \/ e = d /\ (d[s].out # 0 \/ d[s].orphan)
    \/ e = Dispatched(d, s, q) /\ d[s].out = 0 /\ ~d[s].orphan

\* the request q is new in rq2
Made(rq, rq2, q) ==
    /\ rq[q].stage = "none" /\ \A p \in 1..(q - 1) : rq[p].stage # "none"
    /\ rq2[q].stage = "pending" /\ \A p \in Requests : p # q => rq2[p] = rq[p]

\* core_generation_activate makes the request q
LEMMA AskLater ==
    ASSUME NEW rq \in [Requests -> Request], NEW rq2, NEW d \in Seq(Generation), NEW e,
           NEW s \in DOMAIN d, NEW q \in Requests, MailInv(rq, d), d[s].stage = "ready",
           Made(rq, rq2, q), Taken(d, e, s, q)
    PROVE  MailInv(rq2, e) /\ Heard(rq, d, rq2, e) /\ Aged(d, e)
  <1> USE DEF Made
  <1>1. Requests \subseteq Nat \ {0} /\ q \in 0..MaxRequests
        /\ \A p \in Requests : p < q => p \in 1..(q - 1)
    BY HostAssumption DEF Requests
  <1>2. Grown(rq, rq2)
    BY DEF Grown
  <1>3. InOrder(rq2)
    BY <1>1 DEF InOrder, MailInv
  <1>4. Sound(rq, d[s]) /\ OneLock(d)
    BY DEF MailInv, Wired
  <1>5. d[s] \in Generation
    OBVIOUS
  <1>6. d[s].out \in 0..MaxRequests /\ d[s].env \in 0..MaxRequests
        /\ \A r \in d[s].results : r.q \in Requests
    BY <1>5 DEF Generation, Result
  <1>7. (d[s].out # 0 => d[s].out \in Requests) /\ (d[s].env # 0 => d[s].env \in Requests)
    BY <1>6, HostAssumption DEF Requests
  <1>8. /\ Edited(d, e, s) /\ e[s].stage = "ready" /\ e[s].release = d[s].release
        /\ e[s].results = d[s].results /\ e[s].env = d[s].env
        /\ \/ e = d /\ (d[s].out # 0 \/ d[s].orphan)
           \/ /\ d[s].out = 0 /\ ~d[s].orphan
              /\ e[s].out = q /\ e[s].act = q
    <2>1. CASE e = d /\ (d[s].out # 0 \/ d[s].orphan)
      BY <2>1 DEF Edited
    <2>2. CASE e = Dispatched(d, s, q) /\ d[s].out = 0 /\ ~d[s].orphan
      <3>1. Edited(d, e, s) /\ SameFate(d, e, s) /\ SameOrigin(d, e, s)
            /\ e[s].out = q /\ e[s].act = q /\ e[s].results = d[s].results
        BY <1>1, <2>2, DispatchedTable
      <3> QED
        BY <2>2, <3>1 DEF SameFate, SameOrigin
    <2> QED
      BY <2>1, <2>2 DEF Taken
  <1>9. Sound(rq2, e[s])
    <2>1. CASE e = d /\ (d[s].out # 0 \/ d[s].orphan)
      <3>1. d[s].out # 0 => rq2[d[s].out].stage # "none" /\ Past(rq2, d[s].out)
        BY <1>2, <1>4, <1>7 DEF Sound, Grown, Past
      <3>2. d[s].env # d[s].out => Done(rq2, d[s].env)
        BY <1>2, <1>4, <1>7 DEF Sound, Grown, Done
      <3>3. d[s].act # 0 => d[s].act = d[s].out /\ rq2[d[s].out].stage = "pending"
                             /\ d[s].results = {}
        BY <1>4, <1>7 DEF Sound
      <3>4. ASSUME NEW r \in d[s].results PROVE rq2[r.q] = rq[r.q]
        <4>1. r.q \in Requests /\ r.q # 0 /\ r.q = d[s].out
          BY <1>4, <1>6, HostAssumption DEF Sound, Requests
        <4>2. rq[r.q].stage # "none"
          BY <1>4, <4>1 DEF Sound
        <4> QED
          BY <4>1, <4>2 DEF Made
      <3> QED
        BY <1>4, <2>1, <3>1, <3>2, <3>3, <3>4 DEF Sound
    <2>2. CASE d[s].out = 0 /\ ~d[s].orphan /\ e[s].out = q /\ e[s].act = q
      <3>1. \A p \in Requests : rq[p].stage # "pending"
        BY <1>4, <2>2 DEF Sound
      <3>2. ASSUME NEW p \in Requests, p < q PROVE rq2[p].stage = "settled"
        <4>1. p # q /\ rq[p].stage \notin {"none", "pending"}
          BY <1>1, <3>1, <3>2
        <4>2. rq[p].stage \in {"none", "pending", "settled"}
          BY DEF Request
        <4> QED
          BY <4>1, <4>2
      <3>3. Past(rq2, q)
        BY <3>2 DEF Past
      <3>4. d[s].results = {}
        BY <1>1, <1>4, <1>6, <2>2 DEF Sound
      <3>5. Done(rq2, d[s].env)
        BY <1>2, <1>4, <1>7, <2>2 DEF Sound, Grown, Done
      <3> QED
        BY <1>1, <1>8, <2>2, <3>3, <3>4, <3>5 DEF Sound
    <2> QED
      BY <1>8, <2>1, <2>2
  <1>10. DOMAIN e = DOMAIN d /\ \A t \in DOMAIN d \ {s} : e[t] = d[t]
    BY <1>8 DEF Edited
  <1>11. OneLock(e)
    BY <1>4, <1>8, <1>10 DEF OneLock
  <1>12. MailInv(rq2, e)
    BY <1>2, <1>3, <1>8, <1>9, <1>11, ReadyMail
  <1>13. \A t \in DOMAIN e : e[t].results = d[t].results
    BY <1>8, <1>10
  <1>14. Heard(rq, d, rq2, e)
    <2>1. ASSUME NEW p \in Requests, Open(rq, d, p) PROVE Open(rq2, e, p)
      BY <1>10, <1>13, <2>1 DEF Open
    <2>2. ASSUME NEW p \in Requests, NEW st, NEW rl, Agreed(rq, d, p, st, rl)
          PROVE  Agreed(rq2, e, p, st, rl)
      <3>1. CASE p = q
        BY <1>10, <1>13, <2>2, <3>1 DEF Agreed
      <3>2. CASE p # q
        BY <1>10, <1>13, <2>2, <3>2 DEF Agreed
      <3> QED
        BY <3>1, <3>2
    <2>3. ASSUME NEW p \in Requests, rq[p].stage # "none" PROVE rq2[p] = rq[p]
      BY <2>3
    <2> QED
      BY <1>2, <2>1, <2>2, <2>3 DEF Heard, Grown
  <1>15. ASSUME NEW p \in Requests, Owed(d[s], p) PROVE Owed(e[s], p)
    BY <1>1, <1>8, <1>15 DEF Owed
  <1>16. Aged(d, e)
    BY <1>8, <1>15, EditAged DEF Served
  <1> QED
    BY <1>12, <1>14, <1>16

\* Ask keeps the answers in agreement.
LEMMA AnsAsk == ASSUME HostTypeOK, AnsInv, NEW s \in Gens, Ask(s) PROVE AnsInv'
  <1>1. UNCHANGED <<current, file, phase, stopped, active, state, start, act, restart, exits>>
        /\ gens[s].stage = "ready" /\ s \in DOMAIN gens
    BY DEF Ask, tasks, disk, Gens
  <1>2. PICK q \in Requests, t \in Releases :
          /\ reqs[q].stage = "none"
          /\ \A p \in 1..(q - 1) : reqs[p].stage # "none"
          /\ reqs' = [reqs EXCEPT ![q].stage = "pending", ![q].target = t,
                                  ![q].expected = gens[s].release]
          /\ gens' = Accepted(s, q)
    BY DEF Ask
  <1>3. reqs \in [Requests -> Request] /\ gens \in Seq(Generation)
    BY Typed DEF HostTypeOK, DataTyped
  <1>4. PICK rq2, e : rq2 = reqs' /\ e = gens'
    OBVIOUS
  <1>5. rq2[q].stage = "pending" /\ \A p \in Requests : p # q => rq2[p] = reqs[p]
    <2>1. PICK x : x = [reqs[q] EXCEPT !.stage = "pending", !.target = t,
                                       !.expected = gens[s].release]
      OBVIOUS
    <2>2. reqs[q] \in Request
      BY <1>3
    <2>3. x.stage = "pending"
      BY <2>1, <2>2 DEF Request
    <2>4. rq2 = [reqs EXCEPT ![q] = x]
      BY <1>2, <1>4, <2>1
    <2> QED
      BY <1>3, <2>3, <2>4
  <1>6. Taken(gens, e, s, q)
    BY <1>2, <1>4 DEF Accepted, Taken
  <1>7. Made(reqs, rq2, q) /\ MailInv(reqs, gens)
    BY <1>2, <1>5 DEF AnsInv, Made
  <1>8. MailInv(rq2, e) /\ Heard(reqs, gens, rq2, e) /\ Aged(gens, e)
    BY <1>1, <1>3, <1>6, <1>7, AskLater
  <1> QED
    BY <1>1, <1>4, <1>8, LaterAns

\* activationResult records r
LEMMA RecordLater ==
    ASSUME NEW rq \in [Requests -> Request], NEW rq2, NEW d \in Seq(Generation),
           NEW e, NEW s \in DOMAIN d, NEW r \in d[s].results, MailInv(rq, d),
           Edited(d, e, s), e[s].release = d[s].release, e[s].results = d[s].results \ {r},
           d[s].stage = "ready", e[s].stage = "ready",
           \/ rq[r.q].stage = "pending"
           \/ rq[r.q].status = r.status /\ rq[r.q].release = r.release,
           rq2 \in [Requests -> Request], rq2[r.q].stage = "settled",
           rq2[r.q].status = r.status, rq2[r.q].release = r.release,
           rq2[r.q].expected = rq[r.q].expected, rq2[r.q].target = rq[r.q].target,
           \A p \in Requests : p # r.q => rq2[p] = rq[p],
           Sound(rq2, e[s])
    PROVE  MailInv(rq2, e) /\ Heard(rq, d, rq2, e) /\ Aged(d, e)
  <1>1. Grown(rq, rq2)
    BY DEF Grown
  <1>2. InOrder(rq2)
    <2>1. rq[r.q].stage # "none"
      <3>1. d[s] \in Generation
        OBVIOUS
      <3>2. r.q \in Requests
        BY <3>1 DEF Generation, Result
      <3>3. r.q # 0
        BY <3>2, HostAssumption DEF Requests
      <3>4. Sound(rq, d[s])
        BY DEF MailInv, Wired
      <3> QED
        BY <3>3, <3>4 DEF Sound
    <2> QED
      BY <2>1 DEF InOrder, MailInv
  <1>3. DOMAIN e = DOMAIN d /\ \A t \in DOMAIN d \ {s} : e[t] = d[t]
    BY DEF Edited
  <1>4. OneLock(e)
    BY <1>3 DEF OneLock, MailInv
  <1>5. MailInv(rq2, e)
    BY <1>1, <1>2, <1>4, ReadyMail
  <1>6. \A t \in DOMAIN e : e[t].results \subseteq d[t].results
    BY <1>3
  <1>7. Heard(rq, d, rq2, e)
    <2>1. ASSUME NEW p \in Requests, Open(rq, d, p) PROVE Open(rq2, e, p)
      <3>1. p # r.q
        BY <2>1 DEF Open
      <3> QED
        BY <1>3, <1>6, <2>1, <3>1 DEF Open
    <2>2. ASSUME NEW p \in Requests, NEW st, NEW rl, Agreed(rq, d, p, st, rl)
          PROVE  Agreed(rq2, e, p, st, rl)
      <3>1. CASE p = r.q
        <4>1. Outcome(r.status) = st /\ r.release = rl
          BY <2>2, <3>1 DEF Agreed
        <4> QED
          BY <1>3, <1>6, <2>2, <3>1, <4>1 DEF Agreed
      <3>2. CASE p # r.q
        BY <1>3, <1>6, <2>2, <3>2 DEF Agreed
      <3> QED
        BY <3>1, <3>2
    <2> QED
      BY <1>1, <2>1, <2>2 DEF Heard, Grown
  <1>8. ASSUME NEW p \in Requests, Owed(d[s], p) PROVE Owed(e[s], p)
    BY <1>8 DEF Owed
  <1>9. Aged(d, e)
    BY <1>8, EditAged DEF Served
  <1> QED
    BY <1>5, <1>7, <1>9

\* an answer that cannot be recorded is dropped
LEMMA DropLater ==
    ASSUME NEW rq, NEW d \in Seq(Generation), NEW e, NEW s \in DOMAIN d,
           NEW r \in d[s].results, MailInv(rq, d), Edited(d, e, s), SameOrigin(d, e, s),
           e[s].results = d[s].results \ {r}, d[s].stage = "ready", e[s].stage = "ready",
           e[s].orphan = d[s].orphan, e[s].out = d[s].out, e[s].act = d[s].act
    PROVE  MailInv(rq, e) /\ Heard(rq, d, rq, e) /\ Aged(d, e)
  <1>1. DOMAIN e = DOMAIN d /\ \A t \in DOMAIN d \ {s} : e[t] = d[t]
    BY DEF Edited
  <1>2. OneLock(e) /\ InOrder(rq)
    BY <1>1 DEF OneLock, MailInv
  <1>3. Sound(rq, d[s])
    BY DEF MailInv, Wired
  <1>4. Sound(rq, e[s])
    BY <1>3 DEF Sound, SameOrigin
  <1>5. Grown(rq, rq)
    BY DEF Grown
  <1>6. MailInv(rq, e)
    BY <1>2, <1>4, <1>5, ReadyMail
  <1>7. Silent(d, e)
    BY <1>1 DEF Silent
  <1>8. ASSUME NEW p \in Requests, Owed(d[s], p) PROVE Owed(e[s], p)
    BY <1>8 DEF Owed
  <1>9. Aged(d, e)
    BY <1>8, EditAged DEF Served, SameOrigin
  <1> QED
    BY <1>6, <1>7, <1>9, SilentHeard

\* Deliver keeps the answers in agreement.
LEMMA AnsDeliver ==
    ASSUME HostTypeOK, AnsInv, NEW s \in Gens, NEW r \in gens[s].results, Deliver(s, r)
    PROVE  AnsInv'
  <1>1. UNCHANGED <<current, file, phase, stopped, active, state, start, act, restart, exits>>
        /\ gens[s].stage = "ready" /\ s \in DOMAIN gens
    BY DEF Deliver, tasks, disk, Gens
  <1>2. reqs \in [Requests -> Request] /\ gens \in Seq(Generation)
    BY Typed DEF HostTypeOK, DataTyped
  <1>3. PICK rq2, e : rq2 = reqs' /\ e = gens'
    OBVIOUS
  <1>4. /\ r \in Result /\ Edited(gens, e, s) /\ SameOrigin(gens, e, s)
        /\ e[s].stage = gens[s].stage /\ e[s].orphan = gens[s].orphan
        /\ e[s].results = gens[s].results \ {r}
        /\ \/ /\ Recordable(r) /\ RecordResult(r)
              /\ \E d : /\ e = Redispatched(d, s, Pending \ {r.q})
                        /\ Edited(gens, d, s)
                        /\ SameFate(gens, d, s)
                        /\ SameOrigin(gens, d, s) /\ d[s].act = gens[s].act
                        /\ d[s].results = gens[s].results \ {r}
                        /\ d[s].out = IF gens[s].out = r.q THEN 0 ELSE gens[s].out
           \/ /\ ~Recordable(r) /\ rq2 = reqs
              /\ e[s].out = gens[s].out /\ e[s].act = gens[s].act
    <2> DEFINE G ==
           /\ r \in Result /\ Edited(gens, gens', s)
           /\ SameWatch(gens, gens', s) /\ SameOrigin(gens, gens', s)
           /\ gens'[s].stage = gens[s].stage /\ gens'[s].orphan = gens[s].orphan
           /\ gens'[s].hung = gens[s].hung
           /\ gens'[s].killed \in {gens[s].killed, TRUE}
           /\ gens'[s].results = gens[s].results \ {r}
           /\ \/ /\ Recordable(r) /\ RecordResult(r)
                 /\ \E d : /\ gens' = Redispatched(d, s, Pending \ {r.q})
                           /\ Edited(gens, d, s)
                           /\ SameFate(gens, d, s) /\ SameWatch(gens, d, s)
                           /\ SameOrigin(gens, d, s) /\ d[s].act = gens[s].act
                           /\ d[s].results = gens[s].results \ {r}
                           /\ d[s].out = IF gens[s].out = r.q THEN 0 ELSE gens[s].out
              \/ /\ ~Recordable(r) /\ reqs' = reqs
                 /\ gens'[s].killed /\ gens'[s].out = gens[s].out
                 /\ gens'[s].act = gens[s].act
    <2>1. G
      BY DeliverTable
    <2> QED
      BY <1>3, <2>1
  <1>5. Sound(reqs, gens[s]) /\ InOrder(reqs)
    BY <1>1 DEF AnsInv, MailInv, Wired
  <1>6. CASE rq2 = reqs /\ e[s].out = gens[s].out /\ e[s].act = gens[s].act
    <2>1. MailInv(rq2, e) /\ Heard(reqs, gens, rq2, e) /\ Aged(gens, e)
      BY <1>1, <1>2, <1>4, <1>6, DropLater DEF AnsInv
    <2> QED
      BY <1>1, <1>3, <2>1, LaterAns
  <1>7. CASE Recordable(r) /\ RecordResult(r)
             /\ \E d : /\ e = Redispatched(d, s, Pending \ {r.q})
                       /\ Edited(gens, d, s)
                       /\ SameFate(gens, d, s)
                       /\ SameOrigin(gens, d, s) /\ d[s].act = gens[s].act
                       /\ d[s].results = gens[s].results \ {r}
                       /\ d[s].out = IF gens[s].out = r.q THEN 0 ELSE gens[s].out
    <2>1. PICK d : /\ e = Redispatched(d, s, Pending \ {r.q})
                   /\ Edited(gens, d, s)
                   /\ SameFate(gens, d, s)
                   /\ SameOrigin(gens, d, s) /\ d[s].act = gens[s].act
                   /\ d[s].results = gens[s].results \ {r}
                   /\ d[s].out = IF gens[s].out = r.q THEN 0 ELSE gens[s].out
      BY <1>7
    <2>2. r.q \in Requests /\ r.status \in Statuses /\ r.release \in Releases
      BY <1>4 DEF Result
    <2>3. /\ rq2 \in [Requests -> Request] /\ rq2[r.q].stage = "settled"
          /\ rq2[r.q].status = r.status /\ rq2[r.q].release = r.release
          /\ rq2[r.q].expected = reqs[r.q].expected /\ rq2[r.q].target = reqs[r.q].target
          /\ \A p \in Requests : p # r.q => rq2[p] = reqs[p]
      <3>1. PICK x : x = [reqs[r.q] EXCEPT !.stage = "settled", !.status = r.status,
                                           !.release = r.release]
        OBVIOUS
      <3>2. reqs[r.q] \in Request
        BY <1>2, <2>2
      <3>3. /\ x \in Request /\ x.stage = "settled" /\ x.status = r.status
            /\ x.release = r.release /\ x.expected = reqs[r.q].expected
            /\ x.target = reqs[r.q].target
        BY <2>2, <3>1, <3>2 DEF Request
      <3>4. rq2 = [reqs EXCEPT ![r.q] = x]
        BY <1>3, <1>7, <3>1 DEF RecordResult
      <3> QED
        BY <1>2, <2>2, <3>3, <3>4
    <2>4. gens[s].results = {r} /\ gens[s].out = r.q /\ gens[s].act = 0
      BY <1>5 DEF Sound
    <2>5. d[s].act = 0 /\ d[s].results = {} /\ d[s].out = 0 /\ d[s].stage = "ready"
      BY <1>1, <2>1, <2>4 DEF SameFate
    <2>6. d \in Seq(Generation) /\ s \in DOMAIN d
      BY <1>1, <2>1 DEF Edited
    <2>7. r.q # 0 /\ reqs[r.q].stage # "none"
      <3>1. r.q # 0
        BY <2>2, HostAssumption DEF Requests
      <3> QED
        BY <1>5, <2>4, <3>1 DEF Sound
    <2>8. InOrder(rq2)
      BY <1>5, <2>3, <2>7 DEF InOrder
    <2>9. Done(rq2, d[s].env)
      <3>1. gens[s].env # r.q => Done(reqs, gens[s].env)
        BY <1>5, <2>4 DEF Sound
      <3>2. gens[s] \in Generation
        BY <1>1, <1>2
      <3>3. gens[s].env # 0 => gens[s].env \in Requests
        BY <3>2, HostAssumption DEF Generation, Requests
      <3>4. d[s].env = gens[s].env
        BY <2>1 DEF SameOrigin
      <3> QED
        BY <2>3, <3>1, <3>3, <3>4 DEF Done
    <2>10. Pending \ {r.q} = {q \in Requests : rq2[q].stage = "pending"}
      BY <2>3 DEF Pending
    <2>11. Redirected(d, e, s, Pending \ {r.q})
      BY <2>1, <2>6, RedispatchRedirects DEF Pending
    <2>12. Sound(rq2, e[s])
      BY <2>3, <2>5, <2>6, <2>8, <2>9, <2>10, <2>11, RedispatchSound
    <2>13. \/ reqs[r.q].stage = "pending"
           \/ reqs[r.q].status = r.status /\ reqs[r.q].release = r.release
      BY <1>7 DEF Recordable
    <2>14. /\ e[s].release = gens[s].release /\ MailInv(reqs, gens) /\ Edited(gens, e, s)
           /\ e[s].results = gens[s].results \ {r} /\ e[s].stage = "ready"
      BY <1>1, <1>4 DEF SameOrigin, AnsInv
    <2>15. MailInv(rq2, e) /\ Heard(reqs, gens, rq2, e) /\ Aged(gens, e)
      <3>1. gens[s].stage = "ready" /\ s \in DOMAIN gens
        BY <1>1
      <3> QED
        BY <1>2, <2>3, <2>12, <2>13, <2>14, <3>1, RecordLater
    <2> QED
      BY <1>1, <1>3, <2>15, LaterAns
  <1> QED
    BY <1>4, <1>6, <1>7

-----------------------------------------------------------------------------
(* Steps that answer a request.                                             *)

\* session s, which waits for q, is told
Told(d, e, s, q, status, release) ==
    /\ Edited(d, e, s) /\ d[s].stage = "ready" /\ e[s].stage = "ready"
    /\ e[s].orphan = d[s].orphan /\ SameOrigin(d, e, s) /\ e[s].out = d[s].out
    /\ d[s].out = q /\ d[s].results = {} /\ e[s].act = 0
    /\ e[s].results = {[q |-> q, status |-> status, release |-> release]}

\* the record a says this about q, or is about another request
Says(a, q, status, release) ==
    a.q = q => a.phase \in Terminal /\ StatusOf(a) = Outcome(status) /\ ReleaseOf(a) = release

\* An answer that was owed leaves the wire sound.
LEMMA ToldMail ==
    ASSUME NEW rq, NEW d \in Seq(Generation), NEW e, NEW s \in DOMAIN d, NEW q \in Requests,
           NEW status, NEW release, MailInv(rq, d), Told(d, e, s, q, status, release),
           Agreed(rq, d, q, Outcome(status), release)
    PROVE  MailInv(rq, e)
  <1>1. DOMAIN e = DOMAIN d /\ \A t \in DOMAIN d \ {s} : e[t] = d[t]
    BY DEF Told, Edited
  <1>2. OneLock(e) /\ InOrder(rq) /\ Grown(rq, rq)
    BY <1>1 DEF OneLock, MailInv, Told, Grown
  <1>3. Sound(rq, d[s])
    BY DEF MailInv, Wired, Told
  <1>4. q # 0
    BY HostAssumption DEF Requests
  <1>5. \A r \in e[s].results :
          /\ r.q = q /\ e[s].results = {r}
          /\ rq[r.q].stage = "settled" => SameOutcome(r, rq[r.q].status, rq[r.q].release)
    BY DEF Told, Agreed, SameOutcome
  <1>6. Sound(rq, e[s])
    BY <1>3, <1>4, <1>5 DEF Sound, SameOrigin, Told
  <1> QED
    BY <1>2, <1>6, ReadyMail DEF Told

\* A record that says what was answered may still be told.
LEMMA ToldWord ==
    ASSUME NEW rq, NEW d, NEW e, NEW s \in DOMAIN d, NEW q \in Requests,
           NEW status, NEW release, Told(d, e, s, q, status, release),
           NEW a, Word(rq, d, a), Says(a, q, status, release)
    PROVE  Word(rq, e, a)
  <1> SUFFICES ASSUME a.q # 0 PROVE Word(rq, e, a)
    BY DEF Word
  <1>1. DOMAIN e = DOMAIN d /\ \A t \in DOMAIN d \ {s} : e[t] = d[t]
    BY DEF Told, Edited
  <1>2. ASSUME NEW t \in DOMAIN e, NEW r \in e[t].results
        PROVE  \/ r \in d[t].results
               \/ r.q = q /\ r.status = status /\ r.release = release
    BY <1>1, <1>2 DEF Told
  <1>3. CASE a.phase \in Terminal
    <2>1. Agreed(rq, d, a.q, StatusOf(a), ReleaseOf(a))
      BY <1>3 DEF Word
    <2>2. ASSUME NEW t \in DOMAIN e, NEW r \in e[t].results, r.q = a.q
          PROVE  Outcome(r.status) = StatusOf(a) /\ r.release = ReleaseOf(a)
      <3>1. CASE r \in d[t].results
        BY <1>1, <2>1, <2>2, <3>1 DEF Agreed
      <3>2. CASE r.q = q /\ r.status = status /\ r.release = release
        BY <2>2, <3>2 DEF Says
      <3> QED
        BY <1>2, <3>1, <3>2
    <2>3. Agreed(rq, e, a.q, StatusOf(a), ReleaseOf(a))
      BY <2>1, <2>2 DEF Agreed
    <2> QED
      BY <1>3, <2>3 DEF Word
  <1>4. CASE a.phase \notin Terminal
    <2>1. a.q # q
      BY <1>4 DEF Says
    <2>2. Open(rq, d, a.q)
      BY <1>4 DEF Word
    <2>3. Open(rq, e, a.q)
      BY <1>1, <1>2, <2>1, <2>2 DEF Open
    <2> QED
      BY <1>4, <2>3 DEF Word
  <1> QED
    BY <1>3, <1>4

\* The Host answers with the record it holds, and no activation is left.
LEMMA ToldAns ==
    ASSUME HostTypeOK, AnsInv, Up, NEW s \in Gens, NEW q \in Requests, NEW status, NEW release,
           Told(gens, gens', s, q, status, release),
           UNCHANGED <<reqs, current, phase, active, restart, exits>>,
           state'.activation = state.activation, act'.pc = "idle",
           state.activation.q = q, Says(state.activation, q, status, release),
           file'.activation = state.activation
             \/ /\ file' = file /\ file.activation.q # q
                /\ Done(reqs, file.activation.q),
           \/ start'.pc \notin {"starting", "reconciling"}
           \/ /\ start' = start /\ start.pc = "reconciling" /\ gens[start.gen].stage = "dead"
              /\ Says(start.snap.activation, q, status, release),
           ~stopped' /\ active # 0 => gens[active].release = current
    PROVE  AnsInv'
  <1>1. gens \in Seq(Generation) /\ s \in DOMAIN gens /\ active \in 0..Len(gens)
        /\ StartTyped(gens, start)
    BY Typed DEF Gens, HostTypeOK
  <1>3. Kept(reqs, gens, current, file.activation, state.activation) /\ UpAns
        /\ Word(reqs, gens, file.activation) /\ Fits(reqs, file.activation, current)
    BY DEF AnsInv, UpAns
  <1>2. MailInv(reqs', gens')
    <2>1. q # 0
      BY HostAssumption DEF Requests
    <2>2. Agreed(reqs, gens, q, Outcome(status), release)
      BY <1>3, <2>1 DEF Kept, Word, Says
    <2> QED
      BY <1>1, <2>2, ToldMail DEF AnsInv
  <1>4. Word(reqs, gens', state.activation) /\ Fits(reqs, state.activation, current)
    BY <1>1, <1>3, ToldWord DEF Kept
  <1>5. Word(reqs, gens', file'.activation) /\ Fits(reqs, file'.activation, current)
        /\ (file'.activation = state.activation \/ Done(reqs, file'.activation.q))
    <2>1. CASE file'.activation = state.activation
      BY <1>4, <2>1
    <2>2. CASE file' = file /\ file.activation.q # q /\ Done(reqs, file.activation.q)
      <3>1. Says(file.activation, q, status, release)
        BY <2>2 DEF Says
      <3>2. Word(reqs, gens', file.activation)
        BY <1>1, <1>3, <3>1, ToldWord
      <3> QED
        BY <1>3, <2>2, <3>2
    <2> QED
      BY <2>1, <2>2
  <1>6. Kept(reqs', gens', current', file'.activation, state'.activation)
    BY <1>4, <1>5 DEF Kept
  <1>7. active # 0 => gens'[active].release = gens[active].release
    BY <1>1 DEF Told, Edited, SameOrigin
  <1>8. Resting(reqs', gens', current', file'.activation, state'.activation, stopped', active',
                start', act', exits')
    BY <1>5, <1>7 DEF Resting
  <1>9. Crashing(state'.activation, start', restart', exits')
    BY <1>3 DEF UpAns, Crashing
  <1>10. Reconciling(reqs', gens', current', state'.activation, active', start', act')
    <2>1. CASE start'.pc \notin {"starting", "reconciling"}
      BY <2>1 DEF Reconciling
    <2>2. CASE /\ start' = start /\ start.pc = "reconciling" /\ gens[start.gen].stage = "dead"
               /\ Says(start.snap.activation, q, status, release)
      <3>1. Reconciling(reqs, gens, current, state.activation, active, start, act)
        BY <1>3 DEF UpAns
      <3>2. /\ Word(reqs, gens, start.snap.activation)
            /\ Fits(reqs, start.snap.activation, current)
            /\ start.snap.activation.phase \in Terminal
            /\ start.snap.activation = state.activation \/ Done(reqs, start.snap.activation.q)
        BY <2>2, <3>1 DEF Reconciling
      <3>3. Word(reqs, gens', start.snap.activation)
        BY <1>1, <2>2, <3>2, ToldWord
      <3>4. gens'[start.gen].stage = "dead"
        BY <1>1, <2>2 DEF Told, Edited, StartTyped
      <3> QED
        BY <2>2, <3>2, <3>3, <3>4 DEF Reconciling, Served
    <2> QED
      BY <2>1, <2>2
  <1>11. Starting(gens', file'.activation, state'.activation, stopped', start')
    BY DEF Starting
  <1>12. ActAns(reqs', gens', current', file'.activation, state'.activation, active', start',
                act', restart', exits')
    BY DEF ActAns
  <1>13. UpAns'
    BY <1>6, <1>8, <1>9, <1>10, <1>11, <1>12 DEF UpAns
  <1> QED
    BY <1>2, <1>5, <1>13 DEF AnsInv, Up

\* send() to a ready session that waits for q
LEMMA SentTold ==
    ASSUME NEW c \in Seq(Generation), NEW d \in Seq(Generation), NEW s \in DOMAIN c,
           NEW q \in Requests, NEW status \in Statuses, NEW release \in Releases,
           Edited(c, d, s), SameFate(c, d, s), SameOrigin(c, d, s), d[s].out = c[s].out,
           d[s].results = c[s].results, d[s].act = 0,
           c[s].stage = "ready", c[s].out = q, c[s].results = {},
           NEW e, e = Sent(d, s, q, status, release)
    PROVE  Told(c, e, s, q, status, release)
  <1>1. s \in DOMAIN d
    BY DEF Edited
  <1>2. /\ Edited(d, e, s)
        /\ SameFate(d, e, s) /\ SameOrigin(d, e, s)
        /\ e[s].out = d[s].out /\ e[s].act = d[s].act
        /\ AnswerAdded(d, e, s, q, status, release)
    BY <1>1, SentTable
  <1>3. d[s].stage = "ready"
    BY DEF SameFate
  <1>4. e[s].results = {[q |-> q, status |-> status, release |-> release]}
    BY <1>2, <1>3 DEF AnswerAdded
  <1> QED
    BY <1>2, <1>3, <1>4 DEF Told, Edited, SameFate, SameOrigin

\* The answer of a record is an outcome.
LEMMA AnswerIs ==
    ASSUME NEW a, a.phase \in Terminal
    PROVE  Outcome(StatusOf(a)) = StatusOf(a)
  BY DEF StatusOf, Outcome, Terminal

-----------------------------------------------------------------------------
(* start().                                                                 *)

\* A Generation is forked for the request env, or for none.
LEMMA ForkLater ==
    ASSUME NEW rq, gens \in Seq(Generation), NEW release \in Releases,
           NEW env \in 0..MaxRequests, MailInv(rq, gens),
           env # 0 => rq[env].stage # "none" /\ Past(rq, env),
           NEW e, e = Spawned(release, env)
    PROVE  /\ MailInv(rq, e) /\ Heard(rq, gens, rq, e) /\ Aged(gens, e)
           /\ NewGen \in DOMAIN e /\ NewGen # 0 /\ e[NewGen].release = release
           /\ e[NewGen].stage = "spawned" /\ Owed(e[NewGen], env)
  <1>1. /\ Forked(gens, e, NewGen) /\ NewGen \in DOMAIN e
        /\ e[NewGen].stage = "spawned" /\ e[NewGen].release = release
        /\ e[NewGen].env = env /\ e[NewGen].out = env /\ e[NewGen].act = 0
        /\ e[NewGen].results = {}
    BY SpawnedTable
  <1>2. PICK n : n = NewGen
    OBVIOUS
  <1>3. DOMAIN e = DOMAIN gens \cup {n} /\ n \notin DOMAIN gens /\ n # 0
        /\ \A t \in DOMAIN gens : e[t] = gens[t]
    BY <1>1, <1>2 DEF Forked
  <1>4. Sound(rq, e[n])
    BY <1>1, <1>2 DEF Sound
  <1>5. Wired(rq, e)
    BY <1>1, <1>2, <1>3, <1>4 DEF Wired, MailInv
  <1>6. OneLock(e)
    BY <1>1, <1>2, <1>3 DEF OneLock, MailInv
  <1>7. MailInv(rq, e)
    BY <1>5, <1>6 DEF MailInv
  <1>8. Silent(gens, e)
    BY <1>1, <1>2, <1>3 DEF Silent
  <1>9. Aged(gens, e)
    BY <1>3 DEF Aged
  <1>10. Owed(e[n], env)
    BY <1>1, <1>2 DEF Owed
  <1> QED
    BY <1>1, <1>2, <1>3, <1>7, <1>8, <1>9, <1>10, SilentHeard

\* HostStart keeps the answers in agreement.
LEMMA AnsHostStart == ASSUME HostTypeOK, SupInv, AnsInv, HostStart PROVE AnsInv'
  <1>1. /\ DownSup /\ UNCHANGED <<current, reqs, stopped, act, restart, exits>>
    BY DEF SupInv, HostStart, database
  <1>2. file'.activation = file.activation
    <2>1. CASE file' = file
      BY <2>1
    <2>2. CASE \E n : file' = [file EXCEPT !.crashes = n]
      BY <2>2, Typed DEF Recorded, HostState
    <2> QED
      BY <2>1, <2>2 DEF HostStart
  <1>3. CASE phase' = "down" /\ gens' = gens
    BY <1>1, <1>2, <1>3 DEF AnsInv, Up
  <1>4. CASE /\ phase' = "up" /\ state' = file' /\ gens' = Spawned(current, file.activation.q)
             /\ active' = NewGen
             /\ start' = [IdleStart EXCEPT !.pc = "starting", !.gen = NewGen]
    <2>1. PICK a, e : a = file.activation /\ e = gens'
      OBVIOUS
    <2>2. a \in ActivationState /\ a.q \in 0..MaxRequests /\ gens \in Seq(Generation)
          /\ current \in Releases /\ reqs \in [Requests -> Request]
      BY <2>1, Typed DEF ActivationState, HostTypeOK, DataTyped
    <2>3. MailInv(reqs, gens) /\ Word(reqs, gens, a) /\ Fits(reqs, a, current)
      BY <2>1 DEF AnsInv
    <2>4. a.q # 0 => reqs[a.q].stage # "none" /\ Past(reqs, a.q)
      BY <2>3 DEF Word
    <2>5. /\ MailInv(reqs, e) /\ Heard(reqs, gens, reqs, e)
          /\ NewGen # 0 /\ e[NewGen].release = current /\ Owed(e[NewGen], a.q)
      BY <1>4, <2>1, <2>2, <2>3, <2>4, ForkLater
    <2>6. Word(reqs, e, a)
      BY <2>2, <2>3, <2>5, HeardWord
    <2>7. /\ start'.pc = "starting" /\ start'.gen = NewGen /\ ~stopped /\ exits = {}
          /\ act.pc = "idle" /\ restart.pc = "idle"
      BY <1>1, <1>4, IdleTyped DEF IdleStart, DownSup
    <2>8. state'.activation = a /\ file'.activation = a
      BY <1>2, <1>4, <2>1
    <2>9. Kept(reqs', gens', current', a, a)
      BY <1>1, <2>1, <2>3, <2>6 DEF Kept
    <2>10. Resting(reqs', gens', current', a, a, stopped', active', start', act', exits')
      BY <1>1, <1>4, <2>1, <2>5 DEF Resting
    <2>11. Crashing(a, start', restart', exits')
      BY <1>1, <2>7 DEF Crashing
    <2>12. Starting(gens', a, a, stopped', start')
      BY <1>1, <2>1, <2>5, <2>7 DEF Starting
    <2>13. Reconciling(reqs', gens', current', a, active', start', act')
      BY <2>7 DEF Reconciling
    <2>14. ActAns(reqs', gens', current', a, a, active', start', act', restart', exits')
      BY <1>1, <2>7 DEF ActAns
    <2>15. UpAns'
      BY <2>8, <2>9, <2>10, <2>11, <2>12, <2>13, <2>14 DEF UpAns
    <2> QED
      BY <1>1, <2>1, <2>3, <2>5, <2>6, <2>8, <2>15 DEF AnsInv
  <1> QED
    BY <1>3, <1>4 DEF HostStart

\* the record decided by the release that runs
LEMMA ReconciledIs ==
    ASSUME NEW a \in ActivationState, NEW s, NEW b, b = Reconciled(a, s)
    PROVE  /\ b \in ActivationState /\ b.q = a.q /\ b.prev = a.prev /\ b.target = a.target
           /\ b.phase \in {"committed", "rolled_back"}
  BY DEF Reconciled, ActivationState, Phases, Terminal

\* A record in flight may be closed in any terminal phase.
LEMMA OpenWord ==
    ASSUME NEW rq, NEW d, NEW a, NEW b, Word(rq, d, a), a.phase \notin Terminal \cup {"none"},
           b.q = a.q, b.prev = a.prev, b.target = a.target, b.phase \in Terminal
    PROVE  Word(rq, d, b)
  <1> SUFFICES ASSUME a.q # 0 PROVE Word(rq, d, b)
    BY DEF Word
  <1>1. Open(rq, d, a.q) /\ Same(rq, a) /\ rq[a.q].stage # "none" /\ Past(rq, a.q)
    BY DEF Word, Terminal
  <1>2. Agreed(rq, d, b.q, StatusOf(b), ReleaseOf(b))
    BY <1>1 DEF Open, Agreed
  <1>3. b.phase # "none"
    BY DEF Terminal
  <1> QED
    BY <1>1, <1>2, <1>3 DEF Word, Same

\* The first Generation is ready, and the record of its activation is known.
LEMMA AnsStartReady == ASSUME HostTypeOK, SupInv, AnsInv, StartReady PROVE AnsInv'
  <1>1. PICK s, g, b : s = start.gen /\ b = FALSE /\ g = ManagedIn(gens, s, b)
    OBVIOUS
  <1>2. s \in DOMAIN gens /\ start.pc = "starting" /\ Up /\ phase = "up" /\ gens[s].stage = "ready"
        /\ b \in BOOLEAN /\ gens \in Seq(Generation)
        /\ UNCHANGED <<current, file, reqs, phase, stopped, active, act, restart, exits>>
    BY <1>1, Typed DEF StartReady, HostTypeOK, StartTyped, Up, Readied, disk, database
  <1>3. /\ Edited(gens, g, s) /\ SameFate(gens, g, s) /\ SameOrigin(gens, g, s)
        /\ SameMail(gens, g, s)
    BY <1>1, <1>2, ManagedTable
  <1>4. g \in Seq(Generation) /\ Fades(gens, g)
    BY <1>2, <1>3, MailFades DEF Edited, SameFate
  <1>5. MailInv(reqs, g) /\ Heard(reqs, gens, reqs, g) /\ Aged(gens, g)
    BY <1>4, FadesLater DEF AnsInv
  <1>6. UpAns
    BY <1>2 DEF AnsInv
  <1>7. /\ ~stopped /\ file.activation = state.activation
        /\ state.activation.q # 0 => Owed(gens[s], state.activation.q)
    BY <1>1, <1>2, <1>6 DEF UpAns, Starting
  <1>8. act.pc = "idle" /\ restart.pc = "idle" /\ exits = {} /\ active = s /\ s # 0
    <2>1. LiveSup(gens, active, deadline, start, act, restart, exits, closing)
      BY <1>2, <1>7 DEF SupInv
    <2>2. s # 0
      BY <1>2
    <2> QED
      BY <1>1, <1>2, <2>1, <2>2 DEF LiveSup
  <1>9. gens[active].release = current
    BY <1>6, <1>7, <1>8 DEF UpAns, Resting
  <1>10. /\ reqs \in [Requests -> Request] /\ state.activation \in ActivationState
         /\ state \in Recorded /\ start \in StartTask
    BY Typed DEF HostTypeOK, DataTyped
  <1>11. Word(reqs, gens, state.activation) /\ Fits(reqs, state.activation, current)
    BY <1>6 DEF UpAns, Kept
  <1>12. Word(reqs, g, state.activation)
    BY <1>5, <1>10, <1>11, HeardWord
  <1>13. CASE state.activation.phase \in Terminal \cup {"none"} /\ state.activation.q = 0
    <2>1. gens' = g /\ start' = IdleStart /\ state' = state
      BY <1>1, <1>13 DEF StartReady, ManagedIn
    <2>2. start'.pc = "idle"
      BY <2>1, IdleTyped
    <2>3. Kept(reqs', gens', current', file'.activation, state'.activation)
      BY <1>2, <1>7, <1>11, <1>12, <2>1 DEF Kept
    <2>4. g[s].release = current
      BY <1>3, <1>8, <1>9 DEF SameOrigin
    <2>5. Resting(reqs', gens', current', file'.activation, state'.activation, stopped', active',
                  start', act', exits')
      BY <1>2, <1>7, <1>8, <2>1, <2>4 DEF Resting
    <2>6. Crashing(state'.activation, start', restart', exits')
      BY <1>2, <1>8 DEF Crashing
    <2>7. Starting(gens', file'.activation, state'.activation, stopped', start')
      BY <2>2 DEF Starting
    <2>8. Reconciling(reqs', gens', current', state'.activation, active', start', act')
      BY <2>2 DEF Reconciling
    <2>9. ActAns(reqs', gens', current', file'.activation, state'.activation, active', start',
                 act', restart', exits')
      BY <1>2, <1>8 DEF ActAns
    <2>10. UpAns'
      BY <2>3, <2>5, <2>6, <2>7, <2>8, <2>9 DEF UpAns
    <2> QED
      BY <1>2, <1>5, <1>7, <1>11, <1>12, <2>1, <2>10 DEF AnsInv
  <1>14. CASE state.activation.phase \in Terminal \cup {"none"} /\ state.activation.q # 0
    <2>1. /\ gens' = Answered(g, s, state.activation) /\ start' = IdleStart /\ state' = state
      BY <1>1, <1>14 DEF StartReady, ManagedIn
    <2>2. state.activation.phase \in Terminal
      BY <1>11, <1>14 DEF Word
    <2>3. PICK q, st, rl : /\ q = state.activation.q /\ st = StatusOf(state.activation)
                           /\ rl = ReleaseOf(state.activation)
      OBVIOUS
    <2>4. q \in Requests /\ st \in Statuses /\ rl \in Releases
      BY <1>10, <1>14, <2>3, AnswerTyped
    <2>5. gens[s].out = q /\ gens[s].act = 0 /\ gens[s].results = {}
      BY <1>2, <1>7, <1>14, <2>3 DEF Owed
    <2>6. g[s].out = gens[s].out /\ g[s].results = gens[s].results /\ g[s].act = 0
      BY <1>3, <2>5 DEF SameMail
    <2>7. gens' = Sent(g, s, q, st, rl)
      BY <2>1, <2>3 DEF Answered
    <2>8. Told(gens, gens', s, q, st, rl)
      BY <1>2, <1>3, <1>4, <2>4, <2>5, <2>6, <2>7, SentTold
    <2>9. Says(state.activation, q, st, rl)
      BY <2>2, <2>3, AnswerIs DEF Says
    <2>10. start'.pc = "idle" /\ act'.pc = "idle"
      BY <1>2, <1>8, <2>1, IdleTyped
    <2> QED
      BY <1>2, <1>7, <1>9, <2>1, <2>3, <2>4, <2>8, <2>9, <2>10, ToldAns DEF Gens
  <1>15. CASE state.activation.phase \notin Terminal \cup {"none"}
    <2>1. /\ gens' = g
          /\ state' = [state EXCEPT !.activation = Reconciled(@, s)]
          /\ start' = [start EXCEPT !.pc = "reconciling", !.snap = state']
      BY <1>1, <1>15 DEF StartReady, ManagedIn
    <2>2. PICK a : a = Reconciled(state.activation, s)
      OBVIOUS
    <2>3. /\ a \in ActivationState /\ a.q = state.activation.q /\ a.prev = state.activation.prev
          /\ a.target = state.activation.target /\ a.phase \in {"committed", "rolled_back"}
      BY <1>10, <2>2, ReconciledIs
    <2>4. state'.activation = a
      BY <1>10, <2>1, <2>2 DEF Recorded, HostState
    <2>5. start'.pc = "reconciling" /\ start'.gen = s /\ start'.snap = state'
      BY <1>1, <1>10, <2>1 DEF StartTask
    <2>6. state.activation.q # 0
      BY <1>10, <1>15 DEF Recorded
    <2>7. a.phase \in Terminal
      BY <2>3 DEF Terminal
    <2>8. Word(reqs, g, a) /\ Fits(reqs, a, current)
      BY <1>11, <1>12, <1>15, <2>3, <2>7, OpenWord DEF Fits, Same
    <2>9. Kept(reqs', gens', current', file'.activation, a)
      BY <1>2, <1>7, <2>1, <2>3, <2>8 DEF Kept
    <2>10. g[s].release = current
      BY <1>3, <1>8, <1>9 DEF SameOrigin
    <2>11. Resting(reqs', gens', current', file'.activation, a, stopped', active',
                   start', act', exits')
      BY <1>2, <1>8, <2>1, <2>5, <2>10 DEF Resting, Unwritten
    <2>12. Crashing(a, start', restart', exits')
      BY <1>2, <1>8 DEF Crashing
    <2>13. Starting(gens', file'.activation, a, stopped', start')
      BY <2>5 DEF Starting
    <2>14. Owed(g[s], a.q) /\ Served(g[s])
      BY <1>2, <1>3, <1>7, <2>3, <2>6 DEF Owed, Served, SameMail, SameFate
    <2>15. start'.snap.activation = a
      BY <2>4, <2>5
    <2>16. Reconciling(reqs', gens', current', a, active', start', act')
      BY <1>2, <1>8, <2>1, <2>5, <2>7, <2>8, <2>14, <2>15 DEF Reconciling
    <2>17. ActAns(reqs', gens', current', file'.activation, a, active', start',
                  act', restart', exits')
      BY <1>2, <1>8 DEF ActAns
    <2>18. UpAns'
      BY <2>4, <2>9, <2>11, <2>12, <2>13, <2>16, <2>17 DEF UpAns
    <2> QED
      BY <1>2, <1>5, <1>7, <1>11, <1>12, <2>1, <2>18 DEF AnsInv
  <1> QED
    BY <1>13, <1>14, <1>15

\* The reconciled record reaches the file: the activation is about another request.
LEMMA ActFile ==
    ASSUME NEW rq, NEW d, NEW cur, NEW f, NEW h, NEW a, NEW st, NEW ac, NEW re, NEW x, NEW f2,
           NEW st2, ActAns(rq, d, cur, f, h, a, st, ac, re, x), st2.pc # "reconciling",
           ac.pc # "idle" => ac.q # 0,
           f2 = f \/ (st.pc = "reconciling" /\ f2 = st.snap.activation)
    PROVE  ActAns(rq, d, cur, f2, h, a, st2, ac, re, x)
  <1> SUFFICES ASSUME ac.pc # "idle" PROVE ActAns(rq, d, cur, f2, h, a, st2, ac, re, x)
    BY DEF ActAns
  <1>1. /\ x = {} /\ re.pc = "idle"
        /\ Unsaid(rq, d, h, st, ac) /\ Noted(d, h, ac) /\ Waiting(d, a, ac)
        /\ Linked(d, cur, ac) /\ Asked(rq, d, f, h, ac)
    BY DEF ActAns
  <1>2. Unsaid(rq, d, h, st2, ac)
    BY <1>1 DEF Unsaid
  <1>3. Asked(rq, d, f2, h, ac)
    <2>1. CASE f2 = f
      BY <1>1, <2>1
    <2>2. CASE st.pc = "reconciling" /\ f2 = st.snap.activation
      <3>1. ac.pc \notin {"stopping", "fatal"} => f2.q # ac.q
        BY <1>1, <2>2 DEF Unsaid, Done, Open
      <3> QED
        BY <1>1, <3>1 DEF Asked
    <2> QED
      BY <2>1, <2>2
  <1> QED
    BY <1>1, <1>2, <1>3 DEF ActAns

\* start() ends, and nobody is told.
LEMMA StartAns ==
    ASSUME HostTypeOK, AnsInv, Up, Fades(gens, gens'),
           start' \in StartTask, start'.pc # "starting", start'.pc # "reconciling",
           active' = active \/ active' = 0,
           file' = file \/ (start.pc = "reconciling" /\ file' = start.snap),
           stopped' \/ (stopped' = stopped /\ active' = active /\ start.pc = "reconciling"
                        /\ file' = start.snap),
           UNCHANGED <<current, reqs, phase, state, act, restart, exits>>
    PROVE  AnsInv'
  <1>1. /\ gens \in Seq(Generation) /\ reqs \in [Requests -> Request]
        /\ active \in 0..Len(gens) /\ state.activation \in ActivationState
        /\ file.activation \in ActivationState /\ start.snap.activation \in ActivationState
        /\ ActTyped(gens, act) /\ (act.pc # "idle" => act.q # 0)
    BY Typed DEF HostTypeOK, DataTyped, StartTask, Recorded, HostState
  <1>2. PICK f : f = file'.activation
    OBVIOUS
  <1>3. f \in ActivationState
        /\ (f = file.activation \/ (start.pc = "reconciling" /\ f = start.snap.activation))
    BY <1>1, <1>2
  <1>4. UpAns /\ Word(reqs, gens, file.activation) /\ Fits(reqs, file.activation, current)
    BY DEF AnsInv
  <1>5. start.pc = "reconciling" =>
          /\ Word(reqs, gens, start.snap.activation) /\ Fits(reqs, start.snap.activation, current)
          /\ start.snap.activation = state.activation \/ Done(reqs, start.snap.activation.q)
    BY <1>4 DEF UpAns, Reconciling
  <1>6. Kept(reqs, gens, current, file.activation, state.activation)
    BY <1>4 DEF UpAns
  <1>7. Kept(reqs, gens, current, f, state.activation) /\ Word(reqs, gens, f) /\ Fits(reqs, f, current)
    BY <1>3, <1>4, <1>5, <1>6 DEF Kept
  <1>8. MailInv(reqs, gens') /\ Heard(reqs, gens, reqs, gens') /\ Aged(gens, gens')
    BY FadesLater DEF AnsInv
  <1>9. Word(reqs, gens', f)
    BY <1>1, <1>3, <1>7, <1>8, HeardWord
  <1>10. Kept(reqs, gens', current, f, state.activation)
    BY <1>1, <1>3, <1>7, <1>8, LaterKept
  <1>11. ActAns(reqs, gens, current, file.activation, state.activation, active, start, act,
                restart, exits)
    BY <1>4 DEF UpAns
  <1>12. ActAns(reqs, gens, current, f, state.activation, active, start', act, restart, exits)
    BY <1>1, <1>3, <1>11, ActFile
  <1>13. ActAns(reqs, gens', current, f, state.activation, active', start', act, restart, exits)
    BY <1>1, <1>8, <1>12, LaterAct
  <1>14. Resting(reqs, gens', current, f, state.activation, stopped', active', start', act, exits)
    <2>1. CASE stopped'
      BY <2>1 DEF Resting
    <2>2. CASE ~stopped' /\ stopped' = stopped /\ active' = active /\ start.pc = "reconciling"
               /\ file' = start.snap
      <3>1. Resting(reqs, gens, current, file.activation, state.activation, stopped, active,
                    start, act, exits)
        BY <1>4 DEF UpAns
      <3>2. f = state.activation \/ Done(reqs, f.q)
        BY <1>2, <1>5, <2>2
      <3>3. act.pc = "idle" /\ active # 0 => gens'[active].release = current
        BY <1>1, <1>8, <2>2, <3>1 DEF Resting, Aged
      <3> QED
        BY <2>2, <3>2, <3>3 DEF Resting
    <2> QED
      BY <2>1, <2>2
  <1>15. Crashing(state'.activation, start', restart', exits')
    BY <1>4 DEF UpAns, Crashing
  <1>16. Starting(gens', f, state'.activation, stopped', start')
         /\ Reconciling(reqs', gens', current', state'.activation, active', start', act')
    BY DEF Starting, Reconciling
  <1>17. UpAns'
    BY <1>2, <1>10, <1>13, <1>14, <1>15, <1>16 DEF UpAns
  <1> QED
    BY <1>2, <1>7, <1>8, <1>9, <1>17 DEF AnsInv

\* StartReconciled keeps the answers in agreement.
LEMMA AnsStartReconciled == ASSUME HostTypeOK, AnsInv, StartReconciled PROVE AnsInv'
  <1>1. PICK s, a : s = start.gen /\ a = state.activation
    OBVIOUS
  <1>2. /\ Up /\ start.pc = "reconciling" /\ s \in DOMAIN gens /\ gens \in Seq(Generation)
        /\ a \in ActivationState /\ a.q # 0
    BY <1>1, Typed DEF StartReconciled, HostTypeOK, StartTyped, StateTyped
  <1>3. /\ file' = start.snap /\ start' = IdleStart /\ gens' = Answered(gens, s, a)
        /\ UNCHANGED <<current, reqs, phase, stopped, active, state, act, restart, exits>>
    BY <1>1 DEF StartReconciled, WriteLands, database
  <1>4. start'.pc = "idle" /\ start' \in StartTask
    BY <1>3, IdleTyped
  <1>5. CASE gens[s].stage = "dead"
    <2>1. gens' = gens
      BY <1>3, <1>5 DEF Answered, Sent
    <2>2. Fades(gens, gens')
      BY <2>1, SameFades
    <2> QED
      BY <1>2, <1>3, <1>4, <2>2, StartAns
  <1>6. CASE gens[s].stage # "dead"
    <2>1. UpAns
      BY <1>2 DEF AnsInv
    <2>2. /\ start.snap.activation = a /\ a.phase \in Terminal /\ Served(gens[s])
          /\ active = s /\ act.pc = "idle" /\ Owed(gens[s], a.q)
      BY <1>1, <1>2, <1>6, <2>1 DEF UpAns, Reconciling
    <2>3. PICK q, status, rl : q = a.q /\ status = StatusOf(a) /\ rl = ReleaseOf(a)
      OBVIOUS
    <2>4. q \in Requests /\ status \in Statuses /\ rl \in Releases
      BY <1>2, <2>3, AnswerTyped
    <2>5. gens[s].stage = "ready" /\ gens[s].out = q /\ gens[s].act = 0 /\ gens[s].results = {}
      BY <1>6, <2>2, <2>3 DEF Owed, Served
    <2>6. Edited(gens, gens, s) /\ SameFate(gens, gens, s) /\ SameOrigin(gens, gens, s)
      BY <1>2 DEF Edited, SameFate, SameOrigin
    <2>7. gens' = Sent(gens, s, q, status, rl)
      BY <1>3, <2>3 DEF Answered
    <2>8. Told(gens, gens', s, q, status, rl)
      BY <1>2, <2>4, <2>5, <2>6, <2>7, SentTold
    <2>9. Says(state.activation, q, status, rl)
      BY <1>1, <2>2, <2>3, AnswerIs DEF Says
    <2>10. ~stopped' /\ active # 0 => gens[active].release = current
      BY <1>3, <2>1, <2>2 DEF UpAns, Resting
    <2>11. file'.activation = state.activation /\ state.activation.q = q
           /\ state'.activation = state.activation /\ act'.pc = "idle"
      BY <1>1, <1>3, <2>2, <2>3
    <2>12. start'.pc \notin {"starting", "reconciling"} /\ s \in Gens
      BY <1>2, <1>4 DEF Gens
    <2> QED
      BY <1>2, <1>3, <2>4, <2>8, <2>9, <2>10, <2>11, <2>12, ToldAns
  <1> QED
    BY <1>5, <1>6

\* StartFails keeps the answers in agreement.
LEMMA AnsStartFails == ASSUME HostTypeOK, SupInv, AnsInv, StartFails PROVE AnsInv'
  <1>1. /\ Up /\ UNCHANGED <<current, reqs, phase, state, act, restart, exits>>
        /\ gens \in Seq(Generation) /\ active \in 0..Len(gens) /\ start \in StartTask
    BY Typed DEF StartFails, database
  <1>2. PICK a \in 0..Len(gens) : /\ StartThrows(a)
                                  /\ \/ file' = file
                                     \/ start.pc = "reconciling" /\ file' = start.snap
    <2>1. CASE StartThrows(active) /\ start.pc = "reconciling" /\ WriteFails(start.snap)
      BY <1>1, <2>1 DEF WriteFails
    <2>2. CASE StartThrows(ActiveWithout(start.gen)) /\ file' = file
      BY <1>1, <2>2 DEF ActiveWithout
    <2> QED
      BY <2>1, <2>2 DEF StartFails
  <1>3. /\ stopped' /\ active' = 0 /\ start' \in StartTask /\ start'.pc = "stopping"
    <2>1. a \in Nat
      OBVIOUS
    <2> QED
      BY <1>1, <1>2, <2>1 DEF StartThrows, StartTask
  <1>4. Fades(gens, gens')
    <2>1. CASE gens' = gens
      BY <2>1, SameFades
    <2>2. CASE a # 0 /\ gens' = TerminatedIn(gens, a)
      BY <1>1, <2>2, TerminatedFades
    <2> QED
      BY <1>2, <2>1, <2>2 DEF StartThrows, Gone, TerminatedIn
  <1>5. /\ active' = active \/ active' = 0
        /\ start'.pc # "starting" /\ start'.pc # "reconciling"
    BY <1>3
  <1>6. stopped' \/ (stopped' = stopped /\ active' = active /\ start.pc = "reconciling"
                     /\ file' = start.snap)
    BY <1>3
  <1>7. file' = file \/ (start.pc = "reconciling" /\ file' = start.snap)
    BY <1>2
  <1> QED
    BY <1>1, <1>3, <1>4, <1>5, <1>6, <1>7, StartAns

\* StartStopped keeps the answers in agreement.
LEMMA AnsStartStopped == ASSUME HostTypeOK, AnsInv, StartStopped PROVE AnsInv'
  <1>1. /\ Up /\ HostEnds("down") /\ UNCHANGED <<current, reqs>> /\ "down" \in {"down", "closed"}
    BY DEF StartStopped, database
  <1>2. file'.activation = file.activation \/ file'.activation = state.activation
    BY Typed, CrashTyped DEF StartStopped, WriteLands
  <1>3. /\ Word(reqs, gens, file.activation) /\ Fits(reqs, file.activation, current)
        /\ Word(reqs, gens, state.activation) /\ Fits(reqs, state.activation, current)
    BY <1>1 DEF AnsInv, UpAns, Kept
  <1>4. file.activation \in ActivationState /\ state.activation \in ActivationState
    BY Typed
  <1> QED
    BY <1>1, <1>2, <1>3, <1>4, HostEndsAns

-----------------------------------------------------------------------------
(* activate().                                                              *)

\* While an activation runs, no other task of the Host is at work.
LEMMA BusyIs ==
    ASSUME HostTypeOK, SupInv, AnsInv, Up, act.pc # "idle"
    PROVE  /\ exits = {} /\ restart.pc = "idle" /\ start.pc # "starting"
           /\ start.pc = "reconciling" => gens[start.gen].stage = "dead"
           /\ Unsaid(reqs, gens, state.activation, start, act)
           /\ Noted(gens, state.activation, act) /\ Waiting(gens, active, act)
           /\ Linked(gens, current, act)
           /\ Asked(reqs, gens, file.activation, state.activation, act)
           /\ Kept(reqs, gens, current, file.activation, state.activation)
           /\ Word(reqs, gens, file.activation) /\ Fits(reqs, file.activation, current)
  <1>1. UpAns /\ Word(reqs, gens, file.activation) /\ Fits(reqs, file.activation, current)
    BY DEF AnsInv
  <1>2. ActAns(reqs, gens, current, file.activation, state.activation, active, start, act,
               restart, exits)
    BY <1>1 DEF UpAns
  <1>3. start.pc # "starting"
    <2>1. start.pc = "starting" => ~stopped
      BY <1>1 DEF UpAns, Starting
    <2>2. ~stopped => start.pc # "starting"
      BY DEF SupInv, LiveSup, Up
    <2> QED
      BY <2>1, <2>2
  <1>4. start.pc = "reconciling" => gens[start.gen].stage = "dead"
    BY <1>1 DEF UpAns, Reconciling
  <1>5. Kept(reqs, gens, current, file.activation, state.activation)
    BY <1>1 DEF UpAns
  <1> QED
    BY <1>1, <1>2, <1>3, <1>4, <1>5 DEF ActAns

\* A step of the activation, or the one that begins it.
LEMMA StepAns ==
    ASSUME HostTypeOK, AnsInv, Up, exits = {}, restart.pc = "idle", start.pc # "starting",
           start.pc = "reconciling" => gens[start.gen].stage = "dead",
           MailInv(reqs, gens'), Heard(reqs, gens, reqs, gens'), Aged(gens, gens'),
           UNCHANGED <<reqs, phase, start, restart, exits>>,
           act'.pc = "idle" => stopped',
           file'.activation \in ActivationState, state'.activation \in ActivationState,
           Word(reqs, gens, file'.activation), Fits(reqs, file'.activation, current'),
           Kept(reqs, gens, current', file'.activation, state'.activation),
           \/ start.pc = "reconciling" => Done(reqs, start.snap.activation.q)
           \/ state'.activation = state.activation /\ current' = current,
           ActAns(reqs', gens', current', file'.activation, state'.activation, active', start',
                  act', restart', exits')
    PROVE  AnsInv'
  <1>1. /\ gens \in Seq(Generation) /\ reqs \in [Requests -> Request] /\ UpAns
        /\ start.snap.activation \in ActivationState
        /\ start.pc = "reconciling" => start.gen \in DOMAIN gens
    BY Typed DEF AnsInv, HostTypeOK, DataTyped, StartTyped, StartTask, Recorded, HostState
  <1>2. Word(reqs, gens', file'.activation) /\ Fits(reqs, file'.activation, current')
    BY <1>1, HeardWord
  <1>3. Kept(reqs, gens', current', file'.activation, state'.activation)
    BY <1>1, LaterKept
  <1>4. Resting(reqs', gens', current', file'.activation, state'.activation, stopped', active',
                start', act', exits')
    BY DEF Resting
  <1>5. Crashing(state'.activation, start', restart', exits')
    BY DEF Crashing
  <1>6. Starting(gens', file'.activation, state'.activation, stopped', start')
    BY DEF Starting
  <1>7. Reconciling(reqs', gens', current', state'.activation, active', start', act')
    <2> SUFFICES ASSUME start.pc = "reconciling"
                 PROVE  Reconciling(reqs', gens', current', state'.activation, active', start', act')
      BY DEF Reconciling
    <2>1. /\ Word(reqs, gens, start.snap.activation) /\ Fits(reqs, start.snap.activation, current)
          /\ start.snap.activation.phase \in Terminal
          /\ start.snap.activation = state.activation \/ Done(reqs, start.snap.activation.q)
      BY <1>1 DEF UpAns, Reconciling
    <2>2. Word(reqs, gens', start.snap.activation)
      BY <1>1, <2>1, HeardWord
    <2>3. gens'[start.gen].stage = "dead" /\ Served(gens'[start.gen])
      BY <1>1 DEF Aged, Served
    <2>4. /\ Fits(reqs, start.snap.activation, current')
          /\ start.snap.activation = state'.activation \/ Done(reqs, start.snap.activation.q)
      BY <2>1 DEF Fits, Done
    <2> QED
      BY <2>1, <2>2, <2>3, <2>4 DEF Reconciling
  <1>8. UpAns'
    BY <1>3, <1>4, <1>5, <1>6, <1>7 DEF UpAns
  <1> QED
    BY <1>2, <1>8 DEF AnsInv, Up

\* the record h2 of the Host is h, or one that the activation ac wrote and nobody knows
Rewritten(rq, d, cur, h, h2, ac, pc) ==
    \/ h2 = h
    \/ /\ h2.q = ac.q /\ Word(rq, d, h2) /\ Fits(rq, h2, cur)
       /\ Same(rq, h2) \/ pc = "wFailed"

\* the activation ac goes on as ac2
Goes(rq, ac, ac2) ==
    ac2.pc # "idle" =>
      /\ ac2.q = ac.q /\ ac2.old = ac.old
      /\ ac2.pc \in {"wValidating", "verifying", "wDraining", "draining", "wStarting",
                     "starting"} \cup Testing => ac2.target = rq[ac.q].target

\* what the activation promises of its sessions
Promises(d, cur, h, a, ac) == Noted(d, h, ac) /\ Waiting(d, a, ac) /\ Linked(d, cur, ac)

\* The activation between its first check and its end takes a step.
LEMMA ActStep ==
    ASSUME HostTypeOK, SupInv, AnsInv, Up, act.pc \notin {"idle", "wFailed", "stopping", "fatal"},
           MailInv(reqs, gens'), Heard(reqs, gens, reqs, gens'), Aged(gens, gens'),
           UNCHANGED <<reqs, phase, start, restart, exits>>,
           act'.pc = "idle" => stopped', Goes(reqs, act, act'),
           file'.activation = file.activation \/ file'.activation = state.activation,
           state'.activation \in ActivationState,
           Rewritten(reqs, gens, current', state.activation, state'.activation, act, act'.pc),
           act'.pc # "idle" => Promises(gens', current', state'.activation, active', act')
    PROVE  AnsInv'
  <1>1. /\ exits = {} /\ restart.pc = "idle" /\ start.pc # "starting"
        /\ start.pc = "reconciling" => gens[start.gen].stage = "dead"
        /\ Unsaid(reqs, gens, state.activation, start, act)
        /\ Asked(reqs, gens, file.activation, state.activation, act)
        /\ Kept(reqs, gens, current, file.activation, state.activation)
        /\ Word(reqs, gens, file.activation)
    BY BusyIs
  <1>2. /\ gens \in Seq(Generation) /\ ActTyped(gens, act) /\ act.q \in Requests /\ act.q # 0
        /\ file.activation \in ActivationState /\ state.activation \in ActivationState
    BY Typed DEF HostTypeOK
  <1>3. PICK f, h, h2 : f = file'.activation /\ h = state.activation /\ h2 = state'.activation
    OBVIOUS
  <1>4. /\ Open(reqs, gens, act.q) /\ Past(reqs, act.q)
        /\ h.q = act.q \/ Done(reqs, h.q)
        /\ start.pc = "reconciling" => Done(reqs, start.snap.activation.q)
    BY <1>1, <1>3 DEF Unsaid
  <1>5. /\ gens[act.old].release = reqs[act.q].expected
        /\ h.q = act.q => Same(reqs, h)
        /\ f.q = act.q => Same(reqs, f)
    BY <1>1, <1>3 DEF Asked
  <1>6. f \in ActivationState /\ Word(reqs, gens, f) /\ (f.q = h.q \/ Done(reqs, f.q))
        /\ Word(reqs, gens, h)
    BY <1>1, <1>2, <1>3 DEF Kept
  <1>7. f.q = act.q \/ Done(reqs, f.q)
    BY <1>4, <1>6
  <1>8. Fits(reqs, f, current') /\ Fits(reqs, h, current')
    BY <1>4, <1>5, <1>7 DEF Fits, Done
  <1>9. /\ Word(reqs, gens, h2) /\ Fits(reqs, h2, current')
        /\ h2.q = act.q \/ Done(reqs, h2.q)
        /\ h2.q = act.q => Same(reqs, h2) \/ act'.pc = "wFailed"
        /\ f.q = h2.q \/ Done(reqs, f.q)
    BY <1>3, <1>4, <1>5, <1>6, <1>7, <1>8 DEF Rewritten
  <1>10. Kept(reqs, gens, current', f, h2)
    BY <1>9 DEF Kept
  <1>11. ActAns(reqs, gens', current', f, h2, active', start, act', restart, exits)
    <2> SUFFICES ASSUME act'.pc # "idle"
                 PROVE  ActAns(reqs, gens', current', f, h2, active', start, act', restart, exits)
      BY DEF ActAns
    <2>1. /\ act'.q = act.q /\ act'.old = act.old
          /\ act'.pc \in {"wValidating", "verifying", "wDraining", "draining", "wStarting",
                          "starting"} \cup Testing => act'.target = reqs[act.q].target
      BY DEF Goes
    <2>2. Open(reqs, gens', act.q)
      BY <1>2, <1>4 DEF Heard
    <2>3. Unsaid(reqs, gens', h2, start, act')
      BY <1>4, <1>9, <2>1, <2>2 DEF Unsaid
    <2>4. gens'[act.old].release = gens[act.old].release
      BY <1>2 DEF Aged, ActTyped
    <2>5. Asked(reqs, gens', f, h2, act')
      BY <1>5, <1>9, <2>1, <2>4 DEF Asked
    <2> QED
      BY <1>1, <1>3, <2>3, <2>5 DEF ActAns, Promises
  <1>12. Fits(reqs, f, current') /\ f \in ActivationState /\ h2 \in ActivationState
    BY <1>3, <1>6, <1>8
  <1>13. \/ start.pc = "reconciling" => Done(reqs, start.snap.activation.q)
         \/ state'.activation = state.activation /\ current' = current
    BY <1>4
  <1>14. /\ file'.activation \in ActivationState
         /\ Word(reqs, gens, file'.activation) /\ Fits(reqs, file'.activation, current')
         /\ Kept(reqs, gens, current', file'.activation, state'.activation)
         /\ ActAns(reqs', gens', current', file'.activation, state'.activation, active', start',
                   act', restart', exits')
    BY <1>3, <1>6, <1>10, <1>11, <1>12
  <1> QED
    BY <1>1, <1>13, <1>14, StepAns

\* The activation writes the phase ph: the record is new to everybody.
LEMMA PersistNext ==
    ASSUME HostTypeOK, SupInv, AnsInv, Up, act.pc \notin {"idle", "wFailed", "stopping", "fatal"},
           NEW target \in Releases, NEW ph \in Phases \ {"none"}, NEW pc \in Writing,
           ph = PhaseAt(pc), Persist(target, ph, pc), gens' = gens, reqs' = reqs,
           target = reqs[act.q].target \/ (pc = "wFailed" /\ current' = Previous)
    PROVE  /\ Rewritten(reqs, gens, current', state.activation, state'.activation, act, act'.pc)
           /\ state'.activation \in ActivationState
           /\ Noted(gens', state'.activation, act') /\ Goes(reqs, act, act')
           /\ act'.pc = pc /\ act'.pc # "idle"
           /\ act'.q = act.q /\ act'.old = act.old /\ act'.cand = act.cand
           /\ act'.gen = act.gen /\ act'.target = target
  <1>1. /\ pc \in ActPcs /\ pc # "idle" /\ ph \in Phases
    BY DEF Writing, ActPcs
  <1>2. /\ state'.activation = Activation(target, ph) /\ state'.activation \in ActivationState
        /\ act.q # 0 /\ act.q \in Requests
        /\ act'.pc = pc /\ act'.q = act.q /\ act'.old = act.old /\ act'.cand = act.cand
        /\ act'.gen = act.gen /\ act'.target = target /\ act'.snap = state'
    BY <1>1, PersistTyped
  <1>3. PICK h : h = state'.activation
    OBVIOUS
  <1>4. h.q = act.q /\ h.prev = gens[act.old].release /\ h.target = target /\ h.phase = ph
    BY <1>2, <1>3 DEF Activation, Previous
  <1>5. /\ Unsaid(reqs, gens, state.activation, start, act)
        /\ Asked(reqs, gens, file.activation, state.activation, act)
    BY BusyIs
  <1>6. Open(reqs, gens, act.q) /\ Past(reqs, act.q)
        /\ gens[act.old].release = reqs[act.q].expected
    BY <1>5 DEF Unsaid, Asked
  <1>7. target = reqs[act.q].target => Same(reqs, h)
    BY <1>4, <1>6 DEF Same
  <1>8. pc = "wFailed" => ph = "failed"
    BY DEF PhaseAt
  <1>9. Agreed(reqs, gens, h.q, StatusOf(h), ReleaseOf(h))
    BY <1>4, <1>6 DEF Open, Agreed
  <1>10. Word(reqs, gens, h)
    BY <1>4, <1>6, <1>7, <1>8, <1>9 DEF Word, Open
  <1>11. Fits(reqs, h, current')
    BY <1>4, <1>7 DEF Fits, Previous
  <1>12. Rewritten(reqs, gens, current', state.activation, state'.activation, act, act'.pc)
    BY <1>2, <1>3, <1>4, <1>7, <1>10, <1>11 DEF Rewritten
  <1>13. Noted(gens', state'.activation, act')
    BY <1>2, <1>3, <1>4 DEF Noted
  <1>14. Goes(reqs, act, act')
    BY <1>2 DEF Goes, Testing
  <1> QED
    BY <1>1, <1>2, <1>12, <1>13, <1>14

\* persist() writes a record that may be told.
LEMMA PersistAns ==
    ASSUME HostTypeOK, SupInv, AnsInv, Up, act.pc \notin {"idle", "wFailed", "stopping", "fatal"},
           NEW target \in Releases, NEW ph \in Phases \ {"none"}, NEW pc \in Writing,
           ph = PhaseAt(pc), Persist(target, ph, pc),
           UNCHANGED <<gens, reqs, phase, start, restart, exits>>,
           target = reqs[act.q].target \/ (pc = "wFailed" /\ current' = Previous),
           file'.activation = file.activation \/ file'.activation = state.activation,
           Waiting(gens, active', act'), Linked(gens, current', act')
    PROVE  AnsInv'
  <1>1. /\ Rewritten(reqs, gens, current', state.activation, state'.activation, act, act'.pc)
        /\ state'.activation \in ActivationState
        /\ Noted(gens', state'.activation, act') /\ Goes(reqs, act, act')
        /\ act'.pc # "idle"
    BY PersistNext
  <1>2. Fades(gens, gens')
    BY SameFades
  <1>3. MailInv(reqs, gens') /\ Heard(reqs, gens, reqs, gens') /\ Aged(gens, gens')
    BY <1>2, FadesLater DEF AnsInv
  <1>4. Promises(gens', current', state'.activation, active', act')
    BY <1>1 DEF Promises
  <1> QED
    BY <1>1, <1>3, <1>4, ActStep

\* The activation moves on without a word.
LEMMA MoveAns ==
    ASSUME HostTypeOK, SupInv, AnsInv, Up, act.pc \notin {"idle", "wFailed", "stopping", "fatal"},
           Fades(gens, gens'), UNCHANGED <<reqs, phase, state, start, restart, exits>>,
           act'.pc = "idle" => stopped', Goes(reqs, act, act'),
           file'.activation = file.activation \/ file'.activation = state.activation,
           act'.pc # "idle" => Promises(gens', current', state.activation, active', act')
    PROVE  AnsInv'
  <1>1. MailInv(reqs, gens') /\ Heard(reqs, gens, reqs, gens') /\ Aged(gens, gens')
    BY FadesLater DEF AnsInv
  <1>2. Rewritten(reqs, gens, current', state.activation, state'.activation, act, act'.pc)
    BY DEF Rewritten
  <1>3. state'.activation \in ActivationState
    BY Typed
  <1> QED
    BY <1>1, <1>2, <1>3, ActStep

\* At these places nothing is promised.
LEMMA Unpromised ==
    ASSUME NEW d, NEW cur, NEW h, NEW a, NEW ac, ac.pc \in {"rbVerify", "stopping"}
    PROVE  Promises(d, cur, h, a, ac)
  BY DEF Promises, Noted, Waiting, Linked, Writing, PreDrain, Testing

\* The catch of activate().
LEMMA CaughtAns ==
    ASSUME HostTypeOK, SupInv, AnsInv, Up, act.pc \notin {"idle", "wFailed", "stopping", "fatal"},
           NEW b \in BOOLEAN, NEW c \in 0..Len(gens), NEW a \in 0..Len(gens), Caught(b, c, a),
           ~b => act.pc \in PreDrain /\ current' = current,
           UNCHANGED <<reqs, phase, stopped, start, restart, exits>>,
           file'.activation = file.activation \/ file'.activation = state.activation
    PROVE  AnsInv'
  <1>1. act \in ActTask /\ act.target \in Releases
    BY Typed
  <1>2. CASE stopped
    <2>1. /\ StopSession(c, a) /\ UNCHANGED state
          /\ act' = IdleAct \/ act' = [act EXCEPT !.pc = "stopping", !.gen = c]
      BY <1>2 DEF Caught
    <2>2. Fades(gens, gens')
      BY <2>1, StopFades
    <2>3. act'.pc = "idle" \/ (act'.pc = "stopping" /\ act'.q = act.q /\ act'.old = act.old)
      BY <1>1, <2>1, IdleTyped DEF ActTask
    <2>4. Goes(reqs, act, act')
      BY <2>3 DEF Goes, Testing
    <2>5. act'.pc # "idle" => Promises(gens', current', state.activation, active', act')
      BY <2>3, Unpromised
    <2> QED
      BY <1>2, <2>1, <2>2, <2>4, <2>5, MoveAns
  <1>3. CASE ~stopped /\ ~b /\ Persist(act.target, "failed", "wFailed")
             /\ UNCHANGED <<gens, active, deadline>>
    <2>1. PICK pc, ph, t : pc = "wFailed" /\ ph = "failed" /\ t = act.target
      OBVIOUS
    <2>2. /\ pc \in Writing /\ ph \in Phases \ {"none"} /\ ph = PhaseAt(pc) /\ Persist(t, ph, pc)
          /\ t \in Releases
      BY <1>1, <1>3, <2>1 DEF Writing, Phases, Terminal, PhaseAt
    <2>3. Waiting(gens, active, act) /\ Linked(gens, current, act)
      BY BusyIs
    <2>4. act.pc \in PreDrain /\ current' = current
      BY <1>3
    <2>5. current = Previous
      BY <2>3, <2>4 DEF Linked, Previous
    <2>6. t = reqs[act.q].target \/ (pc = "wFailed" /\ current' = Previous)
      BY <1>3, <2>1, <2>4, <2>5
    <2>7. act'.pc = pc /\ act'.q = act.q /\ act'.old = act.old
      BY <1>3, <2>2, <2>6, PersistNext
    <2>8. Waiting(gens, active', act') /\ Linked(gens, current', act')
      BY <1>3, <2>1, <2>3, <2>4, <2>5, <2>7 DEF Waiting, Linked, PreDrain, Testing, Previous
    <2> QED
      BY <1>3, <2>2, <2>6, <2>8, PersistAns
  <1>4. CASE ~stopped /\ StopSession(c, a) /\ UNCHANGED state
             /\ act' = [act EXCEPT !.pc = "rbVerify", !.cand = c]
    <2>1. Fades(gens, gens')
      BY <1>4, StopFades
    <2>2. act'.pc = "rbVerify" /\ act'.q = act.q /\ act'.old = act.old
      BY <1>1, <1>4 DEF ActTask
    <2>3. Goes(reqs, act, act') /\ Promises(gens', current', state.activation, active', act')
      BY <2>2, Unpromised DEF Goes, Testing
    <2> QED
      BY <1>4, <2>1, <2>2, <2>3, MoveAns
  <1> QED
    BY <1>2, <1>3, <1>4 DEF Caught

\* What a write of the activation leaves in the file.
LEMMA FileIs ==
    ASSUME HostTypeOK, SupInv, AnsInv, Up, act.pc \in Writing,
           WriteLands(act.snap) \/ WriteFails(act.snap)
    PROVE  file'.activation = file.activation \/ file'.activation = state.activation
  <1>1. act.pc # "idle"
    BY DEF Writing
  <1>2. act.snap.activation = state.activation
    BY <1>1, BusyIs DEF Noted
  <1> QED
    BY <1>2 DEF WriteLands, WriteFails

\* A failure before the hand-off keeps the answers in agreement.
LEMMA EarlyCatch ==
    ASSUME HostTypeOK, SupInv, AnsInv, Up, act.pc \in PreDrain \ {"wFailed"},
           Caught(FALSE, 0, active), UNCHANGED <<current, reqs, phase, stopped, start, restart, exits>>,
           file'.activation = file.activation \/ file'.activation = state.activation
    PROVE  AnsInv'
  <1>1. PICK b, c, a : b = FALSE /\ c = 0 /\ a = active
    OBVIOUS
  <1>2. Len(gens) \in Nat /\ active \in 0..Len(gens)
    BY Typed
  <1>4. b \in BOOLEAN /\ Caught(b, c, a) /\ ~b
    BY <1>1
  <1>5. c \in 0..Len(gens) /\ a \in 0..Len(gens)
    BY <1>1, <1>2
  <1>3. act.pc \notin {"idle", "wFailed", "stopping", "fatal"} /\ act.pc \in PreDrain
    BY DEF PreDrain
  <1> QED
    BY <1>3, <1>4, <1>5, CaughtAns

\* A failure that leads to a rollback keeps the answers in agreement.
LEMMA LateCatch ==
    ASSUME HostTypeOK, SupInv, AnsInv, Up, act.pc \notin {"idle", "wFailed", "stopping", "fatal"},
           NEW c \in 0..Len(gens), NEW a \in 0..Len(gens), Caught(TRUE, c, a),
           UNCHANGED <<reqs, phase, stopped, start, restart, exits>>,
           file'.activation = file.activation \/ file'.activation = state.activation
    PROVE  AnsInv'
  <1>1. PICK b : b = TRUE
    OBVIOUS
  <1>2. b \in BOOLEAN /\ Caught(b, c, a) /\ b
    BY <1>1
  <1> QED
    BY <1>2, CaughtAns

\* A phase written before the drain.
LEMMA EarlyPersist ==
    ASSUME HostTypeOK, SupInv, AnsInv, Up, act.pc \in PreDrain \ {"wFailed"},
           NEW pc \in {"wValidating", "wDraining"}, Persist(reqs[act.q].target, PhaseAt(pc), pc),
           UNCHANGED <<current, file, gens, active, reqs, phase, start, restart, exits>>
    PROVE  AnsInv'
  <1>1. PICK ph, t : ph = PhaseAt(pc) /\ t = reqs[act.q].target
    OBVIOUS
  <1>2. act.pc \notin {"idle", "wFailed", "stopping", "fatal"} /\ act.pc \in PreDrain
    BY DEF PreDrain
  <1>3. /\ pc \in Writing /\ ph \in Phases \ {"none"} /\ Persist(t, ph, pc) /\ t \in Releases
        /\ pc \in PreDrain
    BY <1>1, <1>2, Typed DEF Writing, Phases, Terminal, PhaseAt, PreDrain
  <1>4. Waiting(gens, active, act) /\ Linked(gens, current, act)
    BY <1>2, BusyIs
  <1>5. act'.pc = pc /\ act'.q = act.q /\ act'.old = act.old
    BY <1>1, <1>2, <1>3, PersistNext
  <1>6. Waiting(gens, active', act') /\ Linked(gens, current', act')
    BY <1>2, <1>3, <1>4, <1>5 DEF Waiting, Linked, PreDrain, Testing
  <1> QED
    BY <1>1, <1>2, <1>3, <1>6, PersistAns

\* ActResolved keeps the answers in agreement.
LEMMA AnsActResolved == ASSUME HostTypeOK, SupInv, AnsInv, ActResolved PROVE AnsInv'
  <1>1. /\ Up /\ act.pc \in PreDrain \ {"wFailed"}
        /\ UNCHANGED <<current, file, reqs, phase, stopped, start, restart, exits>>
    BY DEF ActResolved, disk, database, PreDrain
  <1>2. CASE Persist(reqs[act.q].target, "validating", "wValidating")
             /\ UNCHANGED <<gens, active, deadline, faults>>
    <2>1. PICK pc : pc = "wValidating"
      OBVIOUS
    <2>2. pc \in {"wValidating", "wDraining"} /\ Persist(reqs[act.q].target, PhaseAt(pc), pc)
      BY <1>2, <2>1 DEF PhaseAt
    <2> QED
      BY <1>1, <1>2, <2>2, EarlyPersist
  <1>3. CASE Caught(FALSE, 0, active)
    BY <1>1, <1>3, EarlyCatch
  <1> QED
    BY <1>2, <1>3 DEF ActResolved

\* ActVerified keeps the answers in agreement.
LEMMA AnsActVerified == ASSUME HostTypeOK, SupInv, AnsInv, ActVerified PROVE AnsInv'
  <1>1. /\ Up /\ act.pc \in PreDrain \ {"wFailed"} /\ act.pc = "verifying"
        /\ UNCHANGED <<current, file, reqs, phase, stopped, start, restart, exits>>
    BY DEF ActVerified, disk, database, PreDrain
  <1>2. CASE Persist(act.target, "draining", "wDraining")
             /\ UNCHANGED <<gens, active, deadline, faults>>
    <2>1. PICK pc : pc = "wDraining"
      OBVIOUS
    <2>2. act.target = reqs[act.q].target
      BY <1>1, BusyIs DEF Asked
    <2>3. pc \in {"wValidating", "wDraining"} /\ Persist(reqs[act.q].target, PhaseAt(pc), pc)
      BY <1>2, <2>1, <2>2 DEF PhaseAt
    <2> QED
      BY <1>1, <1>2, <2>3, EarlyPersist
  <1>3. CASE Caught(FALSE, 0, active)
    BY <1>1, <1>3, EarlyCatch
  <1> QED
    BY <1>2, <1>3 DEF ActVerified

\* ActValidating keeps the answers in agreement.
LEMMA AnsActValidating == ASSUME HostTypeOK, SupInv, AnsInv, ActValidating PROVE AnsInv'
  <1>1. /\ Up /\ act.pc \in PreDrain \ {"wFailed"} /\ act.pc = "wValidating" /\ act.pc \in Writing
        /\ act.pc # "idle" /\ act \in ActTask
        /\ UNCHANGED <<current, reqs, phase, stopped, start, restart, exits>>
    BY Typed DEF ActValidating, database, PreDrain, Writing
  <1>2. file'.activation = file.activation \/ file'.activation = state.activation
    BY <1>1, FileIs DEF ActValidating
  <1>3. CASE act' = [act EXCEPT !.pc = "verifying"] /\ UNCHANGED <<gens, active, deadline, state>>
    <2>1. Waiting(gens, active, act) /\ Linked(gens, current, act)
          /\ Asked(reqs, gens, file.activation, state.activation, act)
      BY <1>1, BusyIs
    <2>2. act'.pc = "verifying" /\ act'.q = act.q /\ act'.old = act.old /\ act'.target = act.target
      BY <1>1, <1>3 DEF ActTask
    <2>3. act'.target = reqs[act.q].target
      BY <1>1, <2>1, <2>2 DEF Asked
    <2>4. Goes(reqs, act, act')
      BY <2>2, <2>3 DEF Goes
    <2>5. Promises(gens', current', state.activation, active', act')
      BY <1>1, <1>3, <2>1, <2>2 DEF Promises, Noted, Waiting, Linked, PreDrain, Testing, Writing
    <2>6. Fades(gens, gens')
      BY <1>3, SameFades
    <2>7. act.pc \notin {"idle", "wFailed", "stopping", "fatal"} /\ act'.pc # "idle"
      BY <1>1, <2>2
    <2> QED
      BY <1>1, <1>2, <1>3, <2>4, <2>5, <2>6, <2>7, MoveAns
  <1>4. CASE Caught(FALSE, 0, active)
    BY <1>1, <1>2, <1>4, EarlyCatch
  <1> QED
    BY <1>3, <1>4 DEF ActValidating

\* ActDraining keeps the answers in agreement.
LEMMA AnsActDraining == ASSUME HostTypeOK, SupInv, AnsInv, ActDraining PROVE AnsInv'
  <1>1. /\ Up /\ act.pc \in PreDrain \ {"wFailed"} /\ act.pc = "wDraining" /\ act.pc \in Writing
        /\ act.pc # "idle" /\ act \in ActTask /\ act.old \in DOMAIN gens
        /\ gens \in Seq(Generation) /\ act.q \in Requests
        /\ UNCHANGED <<current, reqs, phase, stopped, start, restart, exits>>
    BY Typed DEF ActDraining, database, PreDrain, Writing
  <1>2. file'.activation = file.activation \/ file'.activation = state.activation
    BY <1>1, FileIs DEF ActDraining
  <1>3. CASE /\ act' = [act EXCEPT !.pc = "draining"] /\ UNCHANGED <<active, state>>
             /\ gens' = IF Gone(act.old) THEN gens ELSE TerminatedIn(gens, act.old)
    <2>1. Waiting(gens, active, act) /\ Linked(gens, current, act)
          /\ Asked(reqs, gens, file.activation, state.activation, act)
      BY <1>1, BusyIs
    <2>2. act'.pc = "draining" /\ act'.q = act.q /\ act'.old = act.old /\ act'.target = act.target
      BY <1>1, <1>3 DEF ActTask
    <2>3. act'.target = reqs[act.q].target
      BY <1>1, <2>1, <2>2 DEF Asked
    <2>4. Goes(reqs, act, act')
      BY <2>2, <2>3 DEF Goes
    <2>5. Fades(gens, gens')
      BY <1>1, <1>3, SameFades, TerminatedFades
    <2>6. Aged(gens, gens')
      BY <2>5, FadesLater DEF AnsInv
    <2>7. Owed(gens'[act.old], act.q) /\ current = gens'[act.old].release
      BY <1>1, <2>1, <2>6 DEF Waiting, Linked, Aged
    <2>8. Promises(gens', current', state.activation, active', act')
      BY <1>1, <2>2, <2>7 DEF Promises, Noted, Waiting, Linked, PreDrain, Testing, Writing
    <2>9. act.pc \notin {"idle", "wFailed", "stopping", "fatal"} /\ act'.pc # "idle"
      BY <1>1, <2>2
    <2> QED
      BY <1>1, <1>2, <1>3, <2>4, <2>5, <2>8, <2>9, MoveAns
  <1>4. CASE Caught(FALSE, 0, active)
    BY <1>1, <1>2, <1>4, EarlyCatch
  <1> QED
    BY <1>3, <1>4 DEF ActDraining, TerminatedIn

\* ActDrained keeps the answers in agreement.
LEMMA AnsActDrained == ASSUME HostTypeOK, SupInv, AnsInv, ActDrained PROVE AnsInv'
  <1>1. /\ Up /\ act.pc = "draining" /\ act.pc # "idle" /\ act.target \in Releases
        /\ act.pc \notin {"idle", "wFailed", "stopping", "fatal"}
        /\ UNCHANGED <<current, file, reqs, gens, phase, stopped, start, restart, exits>>
    BY Typed DEF ActDrained, disk, database
  <1>2. Linked(gens, current, act) /\ Asked(reqs, gens, file.activation, state.activation, act)
    BY <1>1, BusyIs
  <1>3. CASE stopped /\ act' = IdleAct /\ UNCHANGED state
    <2>1. act'.pc = "idle"
      BY <1>3, IdleTyped
    <2>2. Goes(reqs, act, act') /\ Fades(gens, gens')
      BY <1>1, <2>1, SameFades DEF Goes
    <2> QED
      BY <1>1, <1>3, <2>1, <2>2, MoveAns
  <1>4. CASE Persist(act.target, "starting", "wStarting")
    <2>1. PICK pc, ph, t : pc = "wStarting" /\ ph = "starting" /\ t = act.target
      OBVIOUS
    <2>2. /\ pc \in Writing /\ ph \in Phases \ {"none"} /\ ph = PhaseAt(pc) /\ Persist(t, ph, pc)
          /\ t \in Releases
      BY <1>1, <1>4, <2>1 DEF Writing, Phases, PhaseAt
    <2>3. t = reqs[act.q].target
      BY <1>1, <1>2, <2>1 DEF Asked
    <2>4. act'.pc = pc /\ act'.q = act.q /\ act'.old = act.old
      BY <1>1, <2>2, <2>3, PersistNext
    <2>5. Waiting(gens, active', act') /\ Linked(gens, current', act')
      BY <1>1, <1>2, <2>1, <2>4 DEF Waiting, Linked, PreDrain, Testing
    <2> QED
      BY <1>1, <2>2, <2>3, <2>5, PersistAns
  <1> QED
    BY <1>3, <1>4 DEF ActDrained

\* The release is forked for the activation.
LEMMA ForkAns ==
    ASSUME HostTypeOK, SupInv, AnsInv, Up, act.pc \in {"wStarting", "rbCommit"},
           NEW release \in Releases, NEW pc \in {"starting", "rbStarting"}, Fork(release, pc),
           UNCHANGED <<reqs, phase, state, stopped, start, restart, exits>>,
           file'.activation = file.activation \/ file'.activation = state.activation,
           current' = Previous,
           pc = "starting" => release = act.target /\ act.target = reqs[act.q].target,
           pc = "rbStarting" => release = Previous
    PROVE  AnsInv'
  <1>1. /\ act \in ActTask /\ act.q \in Requests /\ act.q \in 0..MaxRequests
        /\ act.old \in DOMAIN gens /\ gens \in Seq(Generation)
        /\ state.activation \in ActivationState
    BY Typed DEF ActTask
  <1>2. PICK n, e : n = NewGen /\ e = gens'
    OBVIOUS
  <1>3. e = Spawned(release, act.q) /\ active' = n /\ act' = [act EXCEPT !.pc = pc, !.gen = n]
    BY <1>2 DEF Fork
  <1>4. n \in Nat
    BY <1>1, <1>2, LenProperties DEF NewGen
  <1>5. act'.pc = pc /\ act'.q = act.q /\ act'.old = act.old /\ act'.gen = n
        /\ act'.target = act.target
    BY <1>1, <1>3, <1>4 DEF ActTask
  <1>6. act.pc \notin {"idle", "wFailed", "stopping", "fatal"}
    OBVIOUS
  <1>7. Open(reqs, gens, act.q) /\ Past(reqs, act.q)
    BY <1>6, BusyIs DEF Unsaid
  <1>8. reqs[act.q].stage # "none"
    BY <1>7 DEF Open
  <1>9. MailInv(reqs, gens)
    BY DEF AnsInv
  <1>10. /\ MailInv(reqs, e) /\ Heard(reqs, gens, reqs, e) /\ Aged(gens, e)
         /\ e[n].release = release /\ Owed(e[n], act.q)
    BY <1>1, <1>2, <1>3, <1>7, <1>8, <1>9, ForkLater
  <1>11. e[act.old].release = Previous
    BY <1>1, <1>10 DEF Aged, Previous
  <1>12. Goes(reqs, act, act')
    BY <1>5 DEF Goes, Testing
  <1>13. Waiting(e, n, act')
    BY <1>5, <1>10, <1>11 DEF Waiting, PreDrain, Testing
  <1>14. Linked(e, current', act')
    BY <1>5, <1>11 DEF Linked, PreDrain
  <1>15. Promises(gens', current', state'.activation, active', act')
    BY <1>2, <1>3, <1>5, <1>13, <1>14 DEF Promises, Noted, Writing
  <1>16. Rewritten(reqs, gens, current', state.activation, state'.activation, act, act'.pc)
         /\ act'.pc # "idle" /\ state'.activation \in ActivationState
    BY <1>1, <1>5 DEF Rewritten
  <1>17. MailInv(reqs, gens') /\ Heard(reqs, gens, reqs, gens') /\ Aged(gens, gens')
    BY <1>2, <1>10
  <1> QED
    BY <1>6, <1>12, <1>15, <1>16, <1>17, ActStep

\* ActStarting keeps the answers in agreement.
LEMMA AnsActStarting == ASSUME HostTypeOK, SupInv, AnsInv, ActStarting PROVE AnsInv'
  <1>1. /\ Up /\ act.pc = "wStarting" /\ act.pc \in Writing /\ act.target \in Releases
        /\ act.pc \notin {"idle", "wFailed", "stopping", "fatal"} /\ active \in 0..Len(gens)
        /\ UNCHANGED <<current, reqs, phase, stopped, start, restart, exits>>
    BY Typed DEF ActStarting, database, Writing
  <1>2. file'.activation = file.activation \/ file'.activation = state.activation
    BY <1>1, FileIs DEF ActStarting
  <1>3. Linked(gens, current, act) /\ Asked(reqs, gens, file.activation, state.activation, act)
    BY <1>1, BusyIs
  <1>4. CASE Fork(act.target, "starting") /\ UNCHANGED state
    <2>1. PICK pc, rl : pc = "starting" /\ rl = act.target
      OBVIOUS
    <2>2. current' = Previous /\ act.target = reqs[act.q].target
      BY <1>1, <1>3 DEF Linked, Asked, Previous
    <2>3. pc \in {"starting", "rbStarting"} /\ Fork(rl, pc) /\ rl \in Releases
          /\ (pc = "starting" => rl = act.target /\ act.target = reqs[act.q].target)
          /\ (pc = "rbStarting" => rl = Previous)
      BY <1>1, <1>4, <2>1, <2>2
    <2>4. act.pc \in {"wStarting", "rbCommit"}
      BY <1>1
    <2> QED
      BY <1>1, <1>2, <1>4, <2>2, <2>3, <2>4, ForkAns
  <1>5. CASE stopped /\ act' = IdleAct /\ UNCHANGED <<gens, active, state>>
    <2>1. act'.pc = "idle"
      BY <1>5, IdleTyped
    <2>2. Goes(reqs, act, act') /\ Fades(gens, gens')
      BY <1>5, <2>1, SameFades DEF Goes
    <2> QED
      BY <1>1, <1>2, <1>5, <2>1, <2>2, MoveAns
  <1>6. CASE Caught(TRUE, 0, active)
    <2>1. PICK c : c = 0
      OBVIOUS
    <2>2. Len(gens) \in Nat
      BY Typed
    <2>3. c \in 0..Len(gens)
      BY <2>1, <2>2
    <2>4. Caught(TRUE, c, active)
      BY <1>6, <2>1
    <2> QED
      BY <1>1, <1>2, <2>3, <2>4, LateCatch
  <1> QED
    BY <1>4, <1>5, <1>6 DEF ActStarting, MayFork

\* ActStarted keeps the answers in agreement.
LEMMA AnsActStarted == ASSUME HostTypeOK, SupInv, AnsInv, ActStarted PROVE AnsInv'
  <1>1. /\ Up /\ act.pc = "starting" /\ act \in ActTask
        /\ act.pc \notin {"idle", "wFailed", "stopping", "fatal"} /\ active \in 0..Len(gens)
        /\ UNCHANGED <<current, file, reqs, phase, stopped, start, restart, exits>>
    BY Typed DEF ActStarted, disk, database
  <1>2. Linked(gens, current, act) /\ Asked(reqs, gens, file.activation, state.activation, act)
        /\ Waiting(gens, active, act)
    BY <1>1, BusyIs
  <1>3. CASE /\ Readied(act.gen) /\ act' = [act EXCEPT !.pc = "stabilizing", !.cand = act.gen]
             /\ UNCHANGED <<gens, active, state>>
    <2>1. act'.pc = "stabilizing" /\ act'.q = act.q /\ act'.old = act.old /\ act'.cand = act.gen
          /\ act'.target = act.target
      BY <1>1, <1>3 DEF ActTask
    <2>2. Owed(gens[act.gen], act.q) /\ gens[act.gen].release = act.target
          /\ Served(gens[act.gen])
      BY <1>1, <1>2, <1>3 DEF Waiting, Served, Readied
    <2>3. act.target = reqs[act.q].target /\ current = gens[act.old].release
      BY <1>1, <1>2 DEF Asked, Linked
    <2>4. Goes(reqs, act, act')
      BY <2>1, <2>3 DEF Goes
    <2>5. Promises(gens', current', state.activation, active', act')
      BY <1>1, <1>3, <2>1, <2>2, <2>3
         DEF Promises, Noted, Waiting, Linked, PreDrain, Testing, Writing
    <2>6. Fades(gens, gens') /\ act'.pc # "idle"
      BY <1>3, <2>1, SameFades
    <2> QED
      BY <1>1, <1>3, <2>4, <2>5, <2>6, MoveAns
  <1>4. CASE Caught(TRUE, 0, ActiveWithout(act.gen))
    <2>1. PICK c, a : c = 0 /\ a = ActiveWithout(act.gen)
      OBVIOUS
    <2>2. Len(gens) \in Nat
      BY Typed
    <2>3. c \in 0..Len(gens) /\ a \in 0..Len(gens)
      BY <1>1, <2>1, <2>2 DEF ActiveWithout
    <2>4. Caught(TRUE, c, a)
      BY <1>4, <2>1
    <2> QED
      BY <1>1, <2>3, <2>4, LateCatch
  <1> QED
    BY <1>3, <1>4 DEF ActStarted

\* The activation is committed: the candidate runs the target.
LEMMA CommitPersist ==
    ASSUME HostTypeOK, SupInv, AnsInv, Up, act.pc \in {"stabilizing", "committing"},
           Persist(act.target, "committed", "wCommitted"), current' = act.target,
           UNCHANGED <<file, reqs, gens, active, phase, start, restart, exits>>
    PROVE  AnsInv'
  <1>1. /\ act.pc \notin {"idle", "wFailed", "stopping", "fatal"} /\ act.target \in Releases
        /\ act.pc \in Testing
    BY Typed DEF Testing
  <1>2. Asked(reqs, gens, file.activation, state.activation, act) /\ Waiting(gens, active, act)
    BY <1>1, BusyIs
  <1>3. PICK pc, ph, t : pc = "wCommitted" /\ ph = "committed" /\ t = act.target
    OBVIOUS
  <1>4. /\ pc \in Writing /\ ph \in Phases \ {"none"} /\ ph = PhaseAt(pc) /\ Persist(t, ph, pc)
        /\ t \in Releases
    BY <1>1, <1>3 DEF Writing, Phases, Terminal, PhaseAt
  <1>5. t = reqs[act.q].target
    BY <1>1, <1>2, <1>3 DEF Asked
  <1>6. act'.pc = pc /\ act'.q = act.q /\ act'.old = act.old /\ act'.cand = act.cand
        /\ act'.target = t
    BY <1>1, <1>4, <1>5, PersistNext
  <1>7. Waiting(gens, active', act') /\ Linked(gens, current', act')
    BY <1>1, <1>2, <1>3, <1>6 DEF Waiting, Linked, PreDrain, Testing
  <1> QED
    BY <1>1, <1>4, <1>5, <1>7, PersistAns

\* ActStable keeps the answers in agreement.
LEMMA AnsActStable == ASSUME HostTypeOK, SupInv, AnsInv, ActStable PROVE AnsInv'
  <1>1. /\ Up /\ act.pc = "stabilizing" /\ act \in ActTask /\ act.pc \in Testing
        /\ act.pc \notin {"idle", "wFailed", "stopping", "fatal"} /\ active \in 0..Len(gens)
        /\ act.cand \in 0..Len(gens)
        /\ UNCHANGED <<current, file, reqs, phase, stopped, start, restart, exits>>
    BY Typed DEF ActStable, disk, database, Testing
  <1>2. Linked(gens, current, act) /\ Asked(reqs, gens, file.activation, state.activation, act)
        /\ Waiting(gens, active, act)
    BY <1>1, BusyIs
  <1>3. current = Previous /\ act.target = reqs[act.q].target
    BY <1>1, <1>2 DEF Linked, Asked, Previous
  <1>4. CASE Caught(TRUE, act.cand, active)
    BY <1>1, <1>4, LateCatch
  <1>5. CASE /\ act.target = Previous /\ Persist(act.target, "committed", "wCommitted")
             /\ UNCHANGED <<gens, active, deadline>>
    <2>1. current' = act.target /\ act.pc \in {"stabilizing", "committing"}
      BY <1>1, <1>3, <1>5
    <2> QED
      BY <1>1, <1>5, <2>1, CommitPersist
  <1>6. CASE act' = [act EXCEPT !.pc = "committing"] /\ UNCHANGED <<gens, active, deadline, state>>
    <2>1. act'.pc = "committing" /\ act'.q = act.q /\ act'.old = act.old /\ act'.cand = act.cand
          /\ act'.target = act.target
      BY <1>1, <1>6 DEF ActTask
    <2>2. Goes(reqs, act, act')
      BY <1>3, <2>1 DEF Goes
    <2>3. Promises(gens', current', state.activation, active', act')
      BY <1>1, <1>2, <1>6, <2>1
         DEF Promises, Noted, Waiting, Linked, PreDrain, Testing, Writing
    <2>4. Fades(gens, gens') /\ act'.pc # "idle"
      BY <1>6, <2>1, SameFades
    <2> QED
      BY <1>1, <1>6, <2>2, <2>3, <2>4, MoveAns
  <1> QED
    BY <1>4, <1>5, <1>6 DEF ActStable

\* ActCommitting keeps the answers in agreement.
LEMMA AnsActCommitting == ASSUME HostTypeOK, SupInv, AnsInv, ActCommitting PROVE AnsInv'
  <1>1. /\ Up /\ act.pc = "committing" /\ act.pc \in {"stabilizing", "committing"}
        /\ act.pc \notin {"idle", "wFailed", "stopping", "fatal"} /\ active \in 0..Len(gens)
        /\ act.cand \in 0..Len(gens)
        /\ UNCHANGED <<file, reqs, phase, stopped, start, restart, exits>>
    BY Typed DEF ActCommitting, database
  <1>2. CASE Caught(TRUE, act.cand, active)
    BY <1>1, <1>2, LateCatch
  <1>3. CASE stopped /\ act' = IdleAct /\ UNCHANGED <<gens, active, deadline, state>>
    <2>1. act'.pc = "idle"
      BY <1>3, IdleTyped
    <2>2. Goes(reqs, act, act') /\ Fades(gens, gens')
      BY <1>3, <2>1, SameFades DEF Goes
    <2> QED
      BY <1>1, <1>3, <2>1, <2>2, MoveAns
  <1>4. CASE /\ current' = act.target /\ Persist(act.target, "committed", "wCommitted")
             /\ UNCHANGED <<gens, active, deadline>>
    BY <1>1, <1>4, CommitPersist
  <1> QED
    BY <1>2, <1>3, <1>4 DEF ActCommitting

\* The activation ends, or waits for the end of the Host, without a word.
LEMMA QuitAns ==
    ASSUME HostTypeOK, SupInv, AnsInv, Up, act.pc # "idle", Fades(gens, gens'),
           file'.activation = file.activation \/ file'.activation = state.activation,
           UNCHANGED <<current, reqs, phase, state, start, restart, exits>>,
           stopped', act'.pc = "idle" \/ act'.pc = "fatal"
    PROVE  AnsInv'
  <1>1. /\ exits = {} /\ restart.pc = "idle" /\ start.pc # "starting"
        /\ start.pc = "reconciling" => gens[start.gen].stage = "dead"
        /\ Kept(reqs, gens, current, file.activation, state.activation)
        /\ Word(reqs, gens, file.activation) /\ Fits(reqs, file.activation, current)
    BY BusyIs
  <1>2. MailInv(reqs, gens') /\ Heard(reqs, gens, reqs, gens') /\ Aged(gens, gens')
    BY FadesLater DEF AnsInv
  <1>3. file.activation \in ActivationState /\ state.activation \in ActivationState
    BY Typed
  <1>4. /\ file'.activation \in ActivationState /\ state'.activation \in ActivationState
        /\ Word(reqs, gens, file'.activation) /\ Fits(reqs, file'.activation, current')
        /\ Kept(reqs, gens, current', file'.activation, state'.activation)
    BY <1>1, <1>3 DEF Kept
  <1>5. ActAns(reqs', gens', current', file'.activation, state'.activation, active', start',
               act', restart', exits')
    <2>1. CASE act'.pc = "idle"
      BY <2>1 DEF ActAns
    <2>2. CASE act'.pc = "fatal"
      <3>1. Unsaid(reqs', gens', state'.activation, start', act')
            /\ Noted(gens', state'.activation, act')
            /\ Waiting(gens', active', act') /\ Linked(gens', current', act')
        BY <2>2 DEF Unsaid, Noted, Waiting, Linked, Writing, PreDrain, Testing
      <3>2. Asked(reqs', gens', file'.activation, state'.activation, act')
        BY <2>2 DEF Asked, Testing
      <3> QED
        BY <1>1, <3>1, <3>2 DEF ActAns
    <2> QED
      BY <2>1, <2>2
  <1>6. \/ start.pc = "reconciling" => Done(reqs, start.snap.activation.q)
        \/ state'.activation = state.activation /\ current' = current
    OBVIOUS
  <1> QED
    BY <1>1, <1>2, <1>4, <1>5, <1>6, StepAns

\* The session that the activation would tell has exited: the record is in the
\* file, and the exit is recorded.
LEMMA EndAns ==
    ASSUME HostTypeOK, SupInv, AnsInv, Up, act.pc \notin {"idle", "stopping", "fatal"},
           Fades(gens, gens'), file'.activation = state.activation,
           state'.activation = state.activation, act'.pc = "idle",
           UNCHANGED <<current, reqs, phase, stopped, start, restart>>,
           \A e \in exits' : e.snap.activation = state.activation,
           stopped \/ active' = 0
    PROVE  AnsInv'
  <1>1. /\ restart.pc = "idle" /\ start.pc # "starting"
        /\ start.pc = "reconciling" => gens[start.gen].stage = "dead"
        /\ Unsaid(reqs, gens, state.activation, start, act)
        /\ Kept(reqs, gens, current, file.activation, state.activation)
    BY BusyIs
  <1>2. MailInv(reqs, gens') /\ Heard(reqs, gens, reqs, gens') /\ Aged(gens, gens')
    BY FadesLater DEF AnsInv
  <1>3. /\ state.activation \in ActivationState /\ reqs \in [Requests -> Request] /\ UpAns
        /\ start.snap.activation \in ActivationState
        /\ start.pc = "reconciling" => start.gen \in DOMAIN gens
    BY Typed DEF AnsInv, HostTypeOK, DataTyped, StartTyped, StartTask, Recorded, HostState
  <1>4. Word(reqs, gens', state.activation) /\ Fits(reqs, state.activation, current)
    BY <1>1, <1>2, <1>3, HeardWord DEF Kept
  <1>5. Kept(reqs', gens', current', file'.activation, state'.activation)
    BY <1>4 DEF Kept
  <1>6. Resting(reqs', gens', current', file'.activation, state'.activation, stopped', active',
                start', act', exits')
    BY DEF Resting
  <1>7. Crashing(state'.activation, start', restart', exits')
    BY <1>1 DEF Crashing
  <1>8. Starting(gens', file'.activation, state'.activation, stopped', start')
    BY <1>1 DEF Starting
  <1>9. Reconciling(reqs', gens', current', state'.activation, active', start', act')
    <2> SUFFICES ASSUME start.pc = "reconciling"
                 PROVE  Reconciling(reqs', gens', current', state'.activation, active', start', act')
      BY DEF Reconciling
    <2>1. /\ Word(reqs, gens, start.snap.activation) /\ Fits(reqs, start.snap.activation, current)
          /\ start.snap.activation.phase \in Terminal
          /\ Done(reqs, start.snap.activation.q)
      BY <1>1, <1>3 DEF UpAns, Reconciling, Unsaid
    <2>2. Word(reqs, gens', start.snap.activation)
      BY <1>2, <1>3, <2>1, HeardWord
    <2>3. gens'[start.gen].stage = "dead" /\ Served(gens'[start.gen])
      BY <1>1, <1>2, <1>3 DEF Aged, Served
    <2> QED
      BY <2>1, <2>2, <2>3 DEF Reconciling
  <1>10. ActAns(reqs', gens', current', file'.activation, state'.activation, active', start',
                act', restart', exits')
    BY DEF ActAns
  <1>11. UpAns'
    BY <1>5, <1>6, <1>7, <1>8, <1>9, <1>10 DEF UpAns
  <1> QED
    BY <1>2, <1>4, <1>11 DEF AnsInv, Up

\* what start() still has to write is settled, and is not this request
LEMMA TellStart ==
    ASSUME HostTypeOK, SupInv, AnsInv, Up, act.pc \notin {"idle", "stopping", "fatal"},
           start' = start, NEW status, NEW release
    PROVE  \/ start'.pc \notin {"starting", "reconciling"}
           \/ /\ start' = start /\ start.pc = "reconciling" /\ gens[start.gen].stage = "dead"
              /\ Says(start.snap.activation, act.q, status, release)
  <1>1. /\ start.pc # "starting"
        /\ start.pc = "reconciling" => gens[start.gen].stage = "dead"
        /\ Unsaid(reqs, gens, state.activation, start, act)
    BY BusyIs
  <1>2. Open(reqs, gens, act.q)
        /\ (start.pc = "reconciling" => Done(reqs, start.snap.activation.q)) /\ act.q # 0
    BY <1>1, Typed DEF Unsaid
  <1>3. start.pc = "reconciling" => start.snap.activation.q # act.q
    BY <1>2 DEF Open, Done
  <1> QED
    BY <1>1, <1>3 DEF Says

\* ActCommitted keeps the answers in agreement.
LEMMA AnsActCommitted == ASSUME HostTypeOK, SupInv, AnsInv, ActCommitted PROVE AnsInv'
  <1>1. /\ Up /\ act.pc = "wCommitted" /\ act.pc \in Writing /\ act.pc \in Testing
        /\ act.pc \notin {"idle", "wFailed", "stopping", "fatal"} /\ active \in 0..Len(gens)
        /\ act.cand \in 0..Len(gens) /\ act.cand \in DOMAIN gens /\ act.q \in Requests
        /\ gens \in Seq(Generation) /\ act.target \in Releases
        /\ UNCHANGED <<current, reqs, phase, stopped, start, restart, exits>>
    BY Typed DEF ActCommitted, database, Writing, Testing, HostTypeOK, ActTyped
  <1>2. file'.activation = file.activation \/ file'.activation = state.activation
    BY <1>1, FileIs DEF ActCommitted
  <1>3. CASE Caught(TRUE, act.cand, active)
    BY <1>1, <1>2, <1>3, LateCatch
  <1>4. CASE /\ WriteLands(act.snap) /\ ~Gone(act.cand)
             /\ gens' = Sent(ManagedIn(gens, act.cand, FALSE), act.cand, act.q, "succeeded",
                             act.target)
             /\ act' = IdleAct
             /\ UNCHANGED <<active, deadline, state>>
    <2>1. PICK s, q, rl, b, status : /\ s = act.cand /\ q = act.q /\ rl = act.target /\ b = FALSE
                                     /\ status = "succeeded"
      OBVIOUS
    <2>2. PICK d : d = ManagedIn(gens, s, b)
      OBVIOUS
    <2>3. /\ Noted(gens, state.activation, act) /\ Waiting(gens, active, act)
          /\ Linked(gens, current, act)
      BY <1>1, BusyIs
    <2>4. b \in BOOLEAN /\ s \in DOMAIN gens /\ q \in Requests /\ rl \in Releases
          /\ status \in Statuses
      BY <1>1, <2>1 DEF Statuses
    <2>5. /\ Edited(gens, d, s) /\ SameFate(gens, d, s) /\ SameOrigin(gens, d, s)
          /\ SameMail(gens, d, s)
      BY <1>1, <2>2, <2>4, ManagedTable
    <2>6. gens[s].stage = "ready" /\ gens[s].out = q /\ gens[s].act = 0 /\ gens[s].results = {}
          /\ gens[s].release = act.target
      BY <1>1, <1>4, <2>1, <2>3 DEF Waiting, Owed, Served, Gone
    <2>7. d \in Seq(Generation) /\ d[s].out = gens[s].out /\ d[s].results = gens[s].results
          /\ d[s].act = 0
      BY <2>5, <2>6 DEF Edited, SameMail
    <2>8. gens' = Sent(d, s, q, status, rl)
      BY <1>4, <2>1, <2>2
    <2>9. Told(gens, gens', s, q, status, rl)
      BY <1>1, <2>4, <2>5, <2>6, <2>7, <2>8, SentTold
    <2>10. state.activation.q = q /\ state.activation.phase = "committed"
           /\ state.activation.target = act.target /\ act.snap.activation = state.activation
      BY <1>1, <2>1, <2>3 DEF Noted, PhaseAt
    <2>11. Says(state.activation, q, status, rl)
      BY <2>1, <2>10 DEF Says, StatusOf, ReleaseOf, Outcome, Terminal
    <2>12. \/ start'.pc \notin {"starting", "reconciling"}
           \/ /\ start' = start /\ start.pc = "reconciling" /\ gens[start.gen].stage = "dead"
              /\ Says(start.snap.activation, q, status, rl)
      BY <1>1, <2>1, TellStart
    <2>13. ~stopped' /\ active # 0 => gens[active].release = current
      <3>1. ~stopped => active = act.cand
        BY <1>1 DEF SupInv, LiveSup, ActSup, Up
      <3>2. current = act.target
        BY <1>1, <2>3 DEF Linked
      <3> QED
        BY <1>1, <2>1, <2>6, <3>1, <3>2
    <2>14. file'.activation = state.activation /\ act'.pc = "idle"
           /\ state'.activation = state.activation /\ s \in Gens
      BY <1>4, <2>4, <2>10, IdleTyped DEF WriteLands, Gens
    <2> QED
      BY <1>1, <1>4, <2>4, <2>9, <2>10, <2>11, <2>12, <2>13, <2>14, ToldAns
  <1> QED
    BY <1>3, <1>4 DEF ActCommitted, ManagedIn

\* The Generation that waits for the answer gets it, and is supervised again; or
\* it has exited, and its exit is recorded.
LEMMA AllowAns ==
    ASSUME HostTypeOK, SupInv, AnsInv, Up, act.pc \in {"wFailed", "wRolledBack"},
           NEW s \in Gens, NEW status \in Statuses,
           Owed(gens[s], act.q), Served(gens[s]), gens[s].release = current,
           ~stopped => active = s /\ ~gens[s].reported,
           Says(state.activation, act.q, status, Previous),
           AllowRecovery(Sent(gens, s, act.q, status, Previous), s),
           act' = IdleAct, WriteLands(act.snap),
           UNCHANGED <<current, reqs, phase, stopped, start, restart>>
    PROVE  AnsInv'
  <1>1. /\ act.pc \in Writing /\ act.pc \notin {"idle", "stopping", "fatal"}
        /\ gens \in Seq(Generation) /\ s \in DOMAIN gens /\ act.q \in Requests
        /\ Previous \in Releases /\ state \in Recorded
    BY Typed DEF Writing, Gens
  <1>2. /\ exits = {} /\ Noted(gens, state.activation, act)
    BY <1>1, BusyIs
  <1>3. state.activation.q = act.q /\ act.snap.activation = state.activation
    BY <1>1, <1>2 DEF Noted
  <1>4. file'.activation = state.activation /\ act'.pc = "idle"
    BY <1>3, IdleTyped DEF WriteLands
  <1>5. PICK q, rl, b, g : /\ q = act.q /\ rl = Previous /\ b = FALSE
                           /\ g = Sent(gens, s, act.q, status, Previous)
    OBVIOUS
  <1>6. b \in BOOLEAN
    BY <1>5
  <1>7. PICK d : d = ManagedIn(g, s, b)
    OBVIOUS
  <1>8. CASE gens[s].stage = "dead"
    <2>1. g = gens
      BY <1>5, <1>8 DEF Sent
    <2>2. /\ Edited(gens, d, s) /\ SameFate(gens, d, s) /\ SameOrigin(gens, d, s)
          /\ SameMail(gens, d, s) /\ d[s].reported = gens[s].reported
      BY <1>1, <1>6, <1>7, <2>1, ManagedTable
    <2>3. Fades(gens, d) /\ d \in Seq(Generation) /\ s \in DOMAIN d
      BY <1>1, <2>2, MailFades DEF SameFate, Edited
    <2>4. PICK e : e = ReportedIn(d, s)
      OBVIOUS
    <2>5. /\ Edited(d, e, s) /\ SameFate(d, e, s) /\ SameOrigin(d, e, s) /\ SameMail(d, e, s)
      BY <2>3, <2>4, ReportedTable
    <2>6. Fades(d, e)
      BY <2>3, <2>5, MailFades DEF SameFate
    <2>7. Fades(gens, e)
      BY <2>3, <2>6, FadesTwice
    <2>8. CASE ~stopped
      <3>1. ReportExit(d, s)
        BY <1>5, <1>7, <1>8, <2>1, <2>8 DEF AllowRecovery, ManagedIn
      <3>2. gens' = e /\ active' = 0
        BY <2>4, <2>8, <3>1 DEF ReportExit, ReportedIn
      <3>3. PICK n \in Recent(state.crashes) :
               state' = Crashed(n) /\ exits' = exits \cup {[gen |-> s, snap |-> state']}
        BY <2>8, <3>1 DEF ReportExit
      <3>4. state'.activation = state.activation
        BY <1>1, <3>3, CrashTyped
      <3>5. \A x \in exits' : x.snap.activation = state.activation
        BY <1>2, <3>3, <3>4
      <3> QED
        BY <1>1, <1>4, <2>7, <3>2, <3>4, <3>5, EndAns
    <2>9. CASE stopped
      <3>1. UNCHANGED <<state, exits>> /\ (gens' = d \/ gens' = e)
        BY <1>5, <1>7, <2>1, <2>4, <2>9 DEF AllowRecovery, ReportExit, ManagedIn, ReportedIn
      <3>2. Fades(gens, gens')
        BY <2>3, <2>7, <3>1
      <3>3. \A x \in exits' : x.snap.activation = state.activation
        BY <1>2, <3>1
      <3> QED
        BY <1>1, <1>4, <2>9, <3>1, <3>2, <3>3, EndAns
    <2> QED
      BY <2>8, <2>9
  <1>9. CASE gens[s].stage # "dead"
    <2>1. gens[s].stage = "ready" /\ gens[s].out = q /\ gens[s].act = 0 /\ gens[s].results = {}
      BY <1>5, <1>9 DEF Owed, Served
    <2>2. Edited(gens, gens, s) /\ SameFate(gens, gens, s) /\ SameOrigin(gens, gens, s)
      BY <1>1 DEF Edited, SameFate, SameOrigin
    <2>3. q \in Requests /\ rl \in Releases /\ g = Sent(gens, s, q, status, rl)
      BY <1>1, <1>5
    <2>4. Told(gens, g, s, q, status, rl)
      BY <1>1, <2>1, <2>2, <2>3, SentTold
    <2>5. g \in Seq(Generation) /\ s \in DOMAIN g /\ g[s].stage = "ready"
      BY <1>1, <2>4 DEF Told, Edited
    <2>6. /\ Edited(g, d, s) /\ SameFate(g, d, s) /\ SameOrigin(g, d, s) /\ SameMail(g, d, s)
      BY <1>6, <1>7, <2>5, ManagedTable
    <2>7. Told(gens, d, s, q, status, rl)
      BY <2>4, <2>6 DEF Told, Edited, SameFate, SameOrigin, SameMail
    <2>8. gens' = d /\ UNCHANGED <<active, state, exits>>
      BY <1>5, <1>7, <2>5 DEF AllowRecovery, ManagedIn
    <2>9. \/ start'.pc \notin {"starting", "reconciling"}
          \/ /\ start' = start /\ start.pc = "reconciling" /\ gens[start.gen].stage = "dead"
             /\ Says(start.snap.activation, q, status, rl)
      BY <1>1, <1>5, TellStart
    <2>10. ~stopped' /\ active # 0 => gens[active].release = current
      OBVIOUS
    <2>11. Told(gens, gens', s, q, status, rl) /\ state'.activation = state.activation
           /\ state.activation.q = q /\ Says(state.activation, q, status, rl)
      BY <1>3, <1>5, <2>7, <2>8
    <2> QED
      BY <1>4, <2>3, <2>8, <2>9, <2>10, <2>11, ToldAns
  <1> QED
    BY <1>8, <1>9

\* ActFailed keeps the answers in agreement.
LEMMA AnsActFailed == ASSUME HostTypeOK, SupInv, AnsInv, ActFailed PROVE AnsInv'
  <1>1. /\ Up /\ act.pc = "wFailed" /\ act.pc \in Writing /\ act.pc \in PreDrain /\ act.pc # "idle"
        /\ active \in 0..Len(gens) /\ act.old \in DOMAIN gens /\ act.old \in 0..Len(gens)
        /\ act \in ActTask
        /\ UNCHANGED <<current, reqs, phase, start, restart>>
    BY Typed DEF ActFailed, database, Writing, PreDrain
  <1>2. /\ Noted(gens, state.activation, act) /\ Waiting(gens, active, act)
        /\ Linked(gens, current, act)
    BY <1>1, BusyIs
  <1>3. CASE /\ WriteLands(act.snap)
             /\ AllowRecovery(Sent(gens, act.old, act.q, "failed", Previous), act.old)
             /\ act' = IdleAct /\ UNCHANGED stopped
    <2>1. PICK s, status : s = act.old /\ status = "failed"
      OBVIOUS
    <2>2. s \in Gens /\ status \in Statuses
      BY <1>1, <2>1 DEF Gens, Statuses
    <2>3. Owed(gens[s], act.q) /\ Served(gens[s]) /\ gens[s].release = current
      BY <1>1, <1>2, <2>1 DEF Waiting, Linked
    <2>4. ~stopped => active = s /\ ~gens[s].reported
      BY <1>1, <2>1 DEF SupInv, LiveSup, ActSup, Tended, Held, Up
    <2>5. Says(state.activation, act.q, status, Previous)
      BY <1>1, <1>2, <2>1
         DEF Noted, PhaseAt, Says, StatusOf, ReleaseOf, Outcome, Terminal, Previous
    <2>6. AllowRecovery(Sent(gens, s, act.q, status, Previous), s)
      BY <1>3, <2>1
    <2>7. act.pc \in {"wFailed", "wRolledBack"}
      BY <1>1
    <2> QED
      BY <1>1, <1>3, <2>2, <2>3, <2>4, <2>5, <2>6, <2>7, AllowAns
  <1>4. CASE /\ WriteFails(act.snap) /\ stopped' = TRUE /\ StopSession(act.old, active)
             /\ act' = [act EXCEPT !.pc = "fatal", !.gen = act.old]
             /\ UNCHANGED <<state, exits>>
    <2>1. file'.activation = file.activation \/ file'.activation = state.activation
      BY <1>1, <1>4, FileIs
    <2>2. Fades(gens, gens')
      BY <1>1, <1>4, StopFades
    <2>3. stopped' /\ act'.pc = "fatal"
      BY <1>1, <1>4 DEF ActTask
    <2> QED
      BY <1>1, <1>4, <2>1, <2>2, <2>3, QuitAns
  <1> QED
    BY <1>3, <1>4 DEF ActFailed

\* ActStopped keeps the answers in agreement.
LEMMA AnsActStopped == ASSUME HostTypeOK, SupInv, AnsInv, ActStopped PROVE AnsInv'
  <1>1. Up /\ UNCHANGED <<current, file, reqs>>
    BY DEF ActStopped, disk, database
  <1>2. CASE /\ act.pc = "stopping" /\ act' = IdleAct
             /\ UNCHANGED <<gens, phase, stopped, state, start, restart, exits>>
    <2>1. stopped
      BY <1>1, <1>2 DEF SupInv, LiveSup, ActSup, Up
    <2>2. Fades(gens, gens') /\ act'.pc = "idle" /\ stopped' /\ act.pc # "idle"
      BY <1>2, <2>1, SameFades, IdleTyped
    <2> QED
      BY <1>1, <1>2, <2>2, QuitAns
  <1>3. CASE HostEnds("down")
    <2>1. Word(reqs, gens, file.activation) /\ Fits(reqs, file.activation, current)
      BY DEF AnsInv
    <2>2. file.activation \in ActivationState /\ "down" \in {"down", "closed"}
      BY Typed
    <2> QED
      BY <1>1, <1>3, <2>1, <2>2, HostEndsAns
  <1> QED
    BY <1>2, <1>3 DEF ActStopped

-----------------------------------------------------------------------------
(* rollback().                                                              *)

\* The catch of rollback() keeps the answers in agreement.
LEMMA RollbackThrowsAns ==
    ASSUME HostTypeOK, SupInv, AnsInv, Up,
           act.pc \in {"rbVerify", "rbCommit", "rbStarting", "wRolledBack"},
           NEW a, RollbackThrows(a), ~stopped /\ a # 0 => Owed(gens[a], act.q),
           UNCHANGED <<gens, reqs, phase, stopped, start, restart, exits>>,
           file'.activation = file.activation \/ file'.activation = state.activation
    PROVE  AnsInv'
  <1>1. act.pc \notin {"idle", "wFailed", "stopping", "fatal"} /\ reqs[act.q].target \in Releases
    BY Typed
  <1>2. CASE stopped /\ act' = IdleAct /\ UNCHANGED state
    <2>1. act'.pc = "idle"
      BY <1>2, IdleTyped
    <2>2. Goes(reqs, act, act') /\ Fades(gens, gens')
      BY <2>1, SameFades DEF Goes
    <2> QED
      BY <1>1, <1>2, <2>1, <2>2, MoveAns
  <1>3. CASE ~stopped /\ Persist(reqs[act.q].target, "failed", "wRollbackFailed")
    <2>1. PICK pc, ph, t : pc = "wRollbackFailed" /\ ph = "failed" /\ t = reqs[act.q].target
      OBVIOUS
    <2>2. /\ pc \in Writing /\ ph \in Phases \ {"none"} /\ ph = PhaseAt(pc) /\ Persist(t, ph, pc)
          /\ t \in Releases
      BY <1>1, <1>3, <2>1 DEF Writing, Phases, Terminal, PhaseAt
    <2>3. act'.pc = pc /\ act'.q = act.q
      BY <1>1, <2>1, <2>2, PersistNext
    <2>4. active' = a
      BY DEF RollbackThrows
    <2>5. Waiting(gens, active', act') /\ Linked(gens, current', act')
      BY <1>3, <2>1, <2>3, <2>4 DEF Waiting, Linked, PreDrain, Testing
    <2> QED
      BY <1>1, <2>1, <2>2, <2>5, PersistAns
  <1> QED
    BY <1>2, <1>3 DEF RollbackThrows

\* RollbackVerified keeps the answers in agreement.
LEMMA AnsRollbackVerified == ASSUME HostTypeOK, SupInv, AnsInv, RollbackVerified PROVE AnsInv'
  <1>1. /\ Up /\ act.pc = "rbVerify" /\ active \in 0..Len(gens) /\ act \in ActTask
        /\ act.pc \in {"rbVerify", "rbCommit", "rbStarting", "wRolledBack"}
        /\ act.pc \notin {"idle", "wFailed", "stopping", "fatal"} /\ DOMAIN gens = 1..Len(gens)
        /\ UNCHANGED <<current, file, reqs, gens, phase, stopped, start, restart, exits>>
    BY Typed DEF RollbackVerified, disk, database
  <1>2. ~stopped /\ active # 0 => Owed(gens[active], act.q)
    <2>1. active # 0 => active \in DOMAIN gens
      BY <1>1
    <2>2. ~stopped /\ active # 0 => gens[active].stage = "dead"
      BY <1>1, <2>1 DEF SupInv, LiveSup, ActSup, Up
    <2> QED
      BY <2>2 DEF Owed
  <1>3. CASE RollbackThrows(active)
    BY <1>1, <1>2, <1>3, RollbackThrowsAns
  <1>4. CASE /\ act' = IF stopped THEN IdleAct ELSE [act EXCEPT !.pc = "rbCommit"]
             /\ UNCHANGED <<active, state>>
    <2>1. \/ stopped /\ act'.pc = "idle"
          \/ ~stopped /\ act'.pc = "rbCommit" /\ act'.q = act.q /\ act'.old = act.old
      BY <1>1, <1>4, IdleTyped DEF ActTask
    <2>2. Goes(reqs, act, act') /\ Fades(gens, gens')
      BY <1>1, <2>1, SameFades DEF Goes, Testing
    <2>3. act'.pc # "idle" => Promises(gens', current', state.activation, active', act')
      BY <1>1, <1>2, <1>4, <2>1
         DEF Promises, Noted, Waiting, Linked, PreDrain, Testing, Writing
    <2>4. act'.pc = "idle" => stopped'
      BY <1>1, <2>1
    <2> QED
      BY <1>1, <1>4, <2>2, <2>3, <2>4, MoveAns
  <1> QED
    BY <1>3, <1>4 DEF RollbackVerified

\* RollbackCommitted keeps the answers in agreement.
LEMMA AnsRollbackCommitted == ASSUME HostTypeOK, SupInv, AnsInv, RollbackCommitted PROVE AnsInv'
  <1>1. /\ Up /\ act.pc = "rbCommit" /\ act.pc \in {"wStarting", "rbCommit"}
        /\ act.pc \in {"rbVerify", "rbCommit", "rbStarting", "wRolledBack"}
        /\ act.pc \notin {"idle", "wFailed", "stopping", "fatal"} /\ Previous \in Releases
        /\ UNCHANGED <<file, reqs, phase, stopped, start, restart, exits>>
    BY Typed DEF RollbackCommitted, database
  <1>2. Waiting(gens, active, act)
    BY <1>1, BusyIs
  <1>3. CASE RollbackThrows(active) /\ UNCHANGED gens
    <2>1. ~stopped /\ active # 0 => Owed(gens[active], act.q)
      BY <1>1, <1>2 DEF Waiting
    <2> QED
      BY <1>1, <1>3, <2>1, RollbackThrowsAns
  <1>4. CASE stopped /\ act' = IdleAct /\ UNCHANGED <<gens, active, state>>
    <2>1. act'.pc = "idle"
      BY <1>4, IdleTyped
    <2>2. Goes(reqs, act, act') /\ Fades(gens, gens')
      BY <1>4, <2>1, SameFades DEF Goes
    <2> QED
      BY <1>1, <1>4, <2>1, <2>2, MoveAns
  <1>5. CASE current' = Previous /\ Fork(Previous, "rbStarting") /\ UNCHANGED state
    <2>1. PICK pc, rl : pc = "rbStarting" /\ rl = Previous
      OBVIOUS
    <2>2. pc \in {"starting", "rbStarting"} /\ Fork(rl, pc) /\ rl \in Releases
          /\ (pc = "starting" => rl = act.target /\ act.target = reqs[act.q].target)
          /\ (pc = "rbStarting" => rl = Previous)
      BY <1>1, <1>5, <2>1
    <2> QED
      BY <1>1, <1>5, <2>2, ForkAns
  <1> QED
    BY <1>3, <1>4, <1>5 DEF RollbackCommitted, MayFork

\* RollbackStarted keeps the answers in agreement.
LEMMA AnsRollbackStarted == ASSUME HostTypeOK, SupInv, AnsInv, RollbackStarted PROVE AnsInv'
  <1>1. /\ Up /\ act.pc = "rbStarting"
        /\ act.pc \in {"rbVerify", "rbCommit", "rbStarting", "wRolledBack"}
        /\ act.pc \notin {"idle", "wFailed", "stopping", "fatal"} /\ reqs[act.q].target \in Releases
        /\ UNCHANGED <<current, file, reqs, gens, phase, stopped, start, restart, exits>>
    BY Typed DEF RollbackStarted, disk, database
  <1>2. Waiting(gens, active, act) /\ Linked(gens, current, act)
    BY <1>1, BusyIs
  <1>3. CASE RollbackThrows(ActiveWithout(act.gen))
    <2>1. PICK a : a = ActiveWithout(act.gen)
      OBVIOUS
    <2>2. ~stopped => active = act.gen
      BY <1>1 DEF SupInv, LiveSup, ActSup, Up
    <2>3. (~stopped /\ a # 0 => Owed(gens[a], act.q)) /\ RollbackThrows(a)
      BY <1>3, <2>1, <2>2 DEF ActiveWithout
    <2> QED
      BY <1>1, <2>3, RollbackThrowsAns
  <1>4. CASE /\ Readied(act.gen) /\ UNCHANGED active
             /\ Persist(reqs[act.q].target, "rolled_back", "wRolledBack")
    <2>1. PICK pc, ph, t : pc = "wRolledBack" /\ ph = "rolled_back" /\ t = reqs[act.q].target
      OBVIOUS
    <2>2. /\ pc \in Writing /\ ph \in Phases \ {"none"} /\ ph = PhaseAt(pc) /\ Persist(t, ph, pc)
          /\ t \in Releases
      BY <1>1, <1>4, <2>1 DEF Writing, Phases, Terminal, PhaseAt
    <2>3. act'.pc = pc /\ act'.q = act.q /\ act'.old = act.old /\ act'.gen = act.gen
      BY <1>1, <2>1, <2>2, PersistNext
    <2>4. Served(gens[act.gen])
      BY <1>4 DEF Readied, Served
    <2>5. Waiting(gens, active', act') /\ Linked(gens, current', act')
      BY <1>1, <1>2, <2>1, <2>3, <2>4 DEF Waiting, Linked, PreDrain, Testing
    <2> QED
      BY <1>1, <2>1, <2>2, <2>5, PersistAns
  <1> QED
    BY <1>3, <1>4 DEF RollbackStarted

\* RolledBack keeps the answers in agreement.
LEMMA AnsRolledBack == ASSUME HostTypeOK, SupInv, AnsInv, RolledBack PROVE AnsInv'
  <1>1. /\ Up /\ act.pc = "wRolledBack" /\ act.pc \in Writing
        /\ act.pc \in {"rbVerify", "rbCommit", "rbStarting", "wRolledBack"}
        /\ act.pc \in {"wFailed", "wRolledBack"} /\ act.pc # "idle" /\ act.gen \in DOMAIN gens
        /\ UNCHANGED <<current, reqs, phase, stopped, start, restart>>
    BY DEF RolledBack, database, Writing, HostTypeOK, ActTyped
  <1>2. /\ Noted(gens, state.activation, act) /\ Waiting(gens, active, act)
        /\ Linked(gens, current, act)
    BY <1>1, BusyIs
  <1>3. ~stopped => active = act.gen /\ ~gens[act.gen].reported
    BY <1>1 DEF SupInv, LiveSup, ActSup, Tended, Held, Up
  <1>4. CASE /\ WriteLands(act.snap) /\ act' = IdleAct
             /\ AllowRecovery(Sent(gens, act.gen, act.q, "rolled_back", Previous), act.gen)
    <2>1. PICK s, status : s = act.gen /\ status = "rolled_back"
      OBVIOUS
    <2>2. s \in Gens /\ status \in Statuses
      BY <1>1, <2>1 DEF Gens, Statuses
    <2>3. Owed(gens[s], act.q) /\ Served(gens[s]) /\ gens[s].release = current
      BY <1>1, <1>2, <2>1 DEF Waiting, Linked
    <2>4. ~stopped => active = s /\ ~gens[s].reported
      BY <1>3, <2>1
    <2>5. Says(state.activation, act.q, status, Previous)
      BY <1>1, <1>2, <2>1
         DEF Noted, PhaseAt, Says, StatusOf, ReleaseOf, Outcome, Terminal, Previous
    <2>6. AllowRecovery(Sent(gens, s, act.q, status, Previous), s)
      BY <1>4, <2>1
    <2> QED
      BY <1>1, <1>4, <2>2, <2>3, <2>4, <2>5, <2>6, AllowAns
  <1>5. CASE WriteFails(act.snap) /\ RollbackThrows(active) /\ UNCHANGED <<gens, deadline, exits>>
    <2>1. file'.activation = file.activation \/ file'.activation = state.activation
      BY <1>1, <1>5, FileIs
    <2>2. ~stopped /\ active # 0 => Owed(gens[active], act.q)
      BY <1>1, <1>2, <1>3 DEF Waiting
    <2> QED
      BY <1>1, <1>5, <2>1, <2>2, RollbackThrowsAns
  <1> QED
    BY <1>4, <1>5 DEF RolledBack

\* RollbackFailed keeps the answers in agreement.
LEMMA AnsRollbackFailed == ASSUME HostTypeOK, SupInv, AnsInv, RollbackFailed PROVE AnsInv'
  <1>1. /\ Up /\ act.pc = "wRollbackFailed" /\ act.pc \in Writing /\ act.pc # "idle"
        /\ active \in 0..Len(gens) /\ act \in ActTask
        /\ UNCHANGED <<current, reqs, phase, state, start, restart, exits>>
    BY Typed DEF RollbackFailed, database, Writing
  <1>2. file'.activation = file.activation \/ file'.activation = state.activation
    BY <1>1, FileIs DEF RollbackFailed
  <1>3. Fades(gens, gens')
    BY <1>1, StopFades DEF RollbackFailed
  <1>4. stopped' /\ act'.pc = "fatal"
    <2>1. active \in Nat
      BY <1>1
    <2> QED
      BY <1>1, <2>1 DEF RollbackFailed, ActTask
  <1> QED
    BY <1>1, <1>2, <1>3, <1>4, QuitAns

-----------------------------------------------------------------------------
(* unexpectedExit() and the restart task.                                   *)

\* No activation runs, and the crash of a Generation is recorded.
LEMMA CrashAns ==
    ASSUME HostTypeOK, AnsInv, Up, act.pc = "idle", Fades(gens, gens'),
           UNCHANGED <<reqs, current, phase, stopped, start, act>>,
           state'.activation = state.activation,
           file'.activation = file.activation \/ file'.activation = state.activation,
           active' = active \/ (active' = 0 /\ active # 0 /\ gens[active].stage = "dead"),
           start.pc = "starting" => file'.activation = file.activation,
           Crashing(state.activation, start, restart', exits'),
           Resting(reqs, gens, current, file'.activation, state.activation, stopped, active',
                   start, act, exits')
    PROVE  AnsInv'
  <1>1. /\ gens \in Seq(Generation) /\ reqs \in [Requests -> Request]
        /\ Len(gens) \in Nat /\ DOMAIN gens = 1..Len(gens)
        /\ active \in 0..Len(gens) /\ state.activation \in ActivationState
        /\ file.activation \in ActivationState /\ start \in StartTask
        /\ (start.pc \in {"starting", "reconciling"} => start.gen \in DOMAIN gens)
        /\ start.pc = "reconciling" => state.activation.q # 0
    BY Typed DEF HostTypeOK, DataTyped, StartTyped, StateTyped
  <1>2. MailInv(reqs, gens') /\ Heard(reqs, gens, reqs, gens') /\ Aged(gens, gens')
    BY FadesLater DEF AnsInv
  <1>3. PICK f : f = file'.activation
    OBVIOUS
  <1>4. f \in ActivationState /\ UpAns /\ active' \in 0..Len(gens)
    BY <1>1, <1>3 DEF AnsInv
  <1>5. Word(reqs, gens, f) /\ Fits(reqs, f, current)
        /\ Kept(reqs, gens, current, f, state.activation)
    BY <1>3, <1>4 DEF AnsInv, UpAns, Kept
  <1>6. Word(reqs, gens', f) /\ Kept(reqs, gens', current, f, state.activation)
    BY <1>1, <1>2, <1>4, <1>5, HeardWord, LaterKept
  <1>7. Resting(reqs, gens', current, f, state.activation, stopped, active', start, act, exits')
    BY <1>1, <1>2, <1>3, <1>4, LaterResting
  <1>8. Starting(gens, f, state.activation, stopped, start)
    BY <1>3, <1>4 DEF UpAns, Starting
  <1>9. Starting(gens', f, state.activation, stopped, start)
    BY <1>1, <1>2, <1>8, LaterStarting
  <1>10. Reconciling(reqs, gens', current, state.activation, active', start, act)
    <2>1. Reconciling(reqs, gens, current, state.activation, active, start, act)
      BY <1>4 DEF UpAns
    <2>2. active # 0 /\ gens[active].stage = "dead" => gens'[active].stage = "dead"
      BY <1>1, <1>2 DEF Aged
    <2>3. active' = active \/ gens'[active].stage = "dead"
      BY <2>2
    <2>4. start.pc = "reconciling" => start.gen \in DOMAIN gens /\ state.activation.q # 0
      BY <1>1
    <2> QED
      BY <1>1, <1>2, <2>1, <2>3, <2>4, LaterReconciling
  <1>11. ActAns(reqs, gens', current, f, state.activation, active', start, act, restart', exits')
    BY DEF ActAns
  <1>12. UpAns'
    BY <1>3, <1>6, <1>7, <1>9, <1>10, <1>11 DEF UpAns
  <1> QED
    BY <1>2, <1>3, <1>5, <1>6, <1>12 DEF AnsInv, Up

\* The Host ends, and a record it held may have reached the file.
LEMMA DownAns ==
    ASSUME HostTypeOK, AnsInv, Up, NEW p \in {"down", "closed"}, HostEnds(p),
           UNCHANGED <<current, reqs>>,
           file'.activation = file.activation \/ file'.activation = state.activation
    PROVE  AnsInv'
  <1>1. /\ Word(reqs, gens, file.activation) /\ Fits(reqs, file.activation, current)
        /\ Word(reqs, gens, state.activation) /\ Fits(reqs, state.activation, current)
    BY DEF AnsInv, UpAns, Kept
  <1>2. file.activation \in ActivationState /\ state.activation \in ActivationState
    BY Typed
  <1> QED
    BY <1>1, <1>2, HostEndsAns

\* ExitRecorded keeps the answers in agreement.
LEMMA AnsExitRecorded ==
    ASSUME HostTypeOK, AnsInv, NEW e, ExitRecorded(e) PROVE AnsInv'
  <1>1. Up /\ e \in exits /\ UNCHANGED <<current, reqs>> /\ UpAns
    BY DEF ExitRecorded, database, AnsInv
  <1>2. e.snap.activation = state.activation /\ Crashing(state.activation, start, restart, exits)
    BY <1>1 DEF UpAns, Crashing
  <1>3. file'.activation = file.activation \/ file'.activation = state.activation
    BY <1>2 DEF ExitRecorded, WriteLands, WriteFails
  <1>4. CASE HostEnds("down")
    <2>1. PICK p : p = "down"
      OBVIOUS
    <2>2. p \in {"down", "closed"} /\ HostEnds(p)
      BY <1>4, <2>1
    <2> QED
      BY <1>1, <1>3, <2>2, DownAns
  <1>5. CASE /\ WriteLands(e.snap) /\ exits' = exits \ {e}
             /\ restart' = IF restart.pc # "idle" \/ stopped THEN restart
                           ELSE [IdleRestart EXCEPT !.pc = "delaying", !.dead = e.gen]
             /\ UNCHANGED <<gens, phase, stopped, active, state, start, act>>
    <2>1. act.pc = "idle"
      BY <1>1 DEF UpAns, ActAns
    <2>2. file'.activation = state.activation
      BY <1>2, <1>5 DEF WriteLands
    <2>3. restart' = restart \/ restart'.pc = "delaying"
      BY <1>5 DEF IdleRestart
    <2>4. Crashing(state.activation, start, restart', exits')
      BY <1>2, <1>5, <2>3 DEF Crashing
    <2>5. Resting(reqs, gens, current, file'.activation, state.activation, stopped, active',
                  start, act, exits')
      BY <1>1, <1>5, <2>2 DEF UpAns, Resting
    <2>6. start.pc = "starting" => file'.activation = file.activation
      BY <1>1, <2>2 DEF UpAns, Starting
    <2>7. Fades(gens, gens')
      BY <1>5, SameFades
    <2> QED
      BY <1>1, <1>5, <2>1, <2>2, <2>4, <2>5, <2>6, <2>7, CrashAns
  <1> QED
    BY <1>4, <1>5 DEF ExitRecorded

\* RestartRecorded keeps the answers in agreement.
LEMMA AnsRestartRecorded ==
    ASSUME HostTypeOK, AnsInv, RestartRecorded PROVE AnsInv'
  <1>1. Up /\ restart.pc = "recording" /\ UNCHANGED <<current, reqs>> /\ UpAns
        /\ restart \in RestartTask
    BY Typed DEF RestartRecorded, database, AnsInv
  <1>2. restart.snap.activation = state.activation
        /\ Crashing(state.activation, start, restart, exits)
    BY <1>1 DEF UpAns, Crashing
  <1>3. file'.activation = file.activation \/ file'.activation = state.activation
    BY <1>2 DEF RestartRecorded, WriteLands, WriteFails
  <1>4. CASE HostEnds("down")
    <2>1. PICK p : p = "down"
      OBVIOUS
    <2>2. p \in {"down", "closed"} /\ HostEnds(p)
      BY <1>4, <2>1
    <2> QED
      BY <1>1, <1>3, <2>2, DownAns
  <1>5. CASE /\ WriteLands(restart.snap)
             /\ restart' = IF stopped THEN IdleRestart ELSE [restart EXCEPT !.pc = "delaying"]
             /\ UNCHANGED <<gens, phase, stopped, active, state, start, act, exits>>
    <2>1. act.pc = "idle"
      BY <1>1 DEF UpAns, ActAns
    <2>2. file'.activation = state.activation
      BY <1>2, <1>5 DEF WriteLands
    <2>3. restart'.pc = "idle" \/ restart'.pc = "delaying"
      BY <1>1, <1>5, IdleTyped DEF RestartTask
    <2>4. Crashing(state.activation, start, restart', exits')
      BY <1>2, <1>5, <2>3 DEF Crashing
    <2>5. Resting(reqs, gens, current, file'.activation, state.activation, stopped, active',
                  start, act, exits')
      BY <1>1, <1>5, <2>2 DEF UpAns, Resting
    <2>6. start.pc = "starting" => file'.activation = file.activation
      BY <1>1, <2>2 DEF UpAns, Starting
    <2>7. Fades(gens, gens')
      BY <1>5, SameFades
    <2> QED
      BY <1>1, <1>5, <2>1, <2>2, <2>4, <2>5, <2>6, <2>7, CrashAns
  <1> QED
    BY <1>4, <1>5 DEF RestartRecorded

\* RestartStarted keeps the answers in agreement.
LEMMA AnsRestartStarted ==
    ASSUME HostTypeOK, SupInv, AnsInv, RestartStarted PROVE AnsInv'
  <1>1. /\ Up /\ phase = "up" /\ restart.pc = "starting" /\ UpAns /\ restart.gen \in DOMAIN gens
        /\ restart \in RestartTask /\ gens \in Seq(Generation) /\ state \in Recorded
        /\ UNCHANGED <<current, file, reqs, phase, stopped, start, act, exits>>
    BY Typed DEF RestartStarted, disk, database, AnsInv, HostTypeOK, RestartTyped, Up
  <1>2. act.pc = "idle" /\ Crashing(state.activation, start, restart, exits)
        /\ Resting(reqs, gens, current, file.activation, state.activation, stopped, active,
                   start, act, exits)
    BY <1>1 DEF UpAns, ActAns
  <1>3. CASE /\ gens' = ManagedIn(gens, restart.gen, FALSE) /\ restart' = IdleRestart
             /\ UNCHANGED <<active, state>>
    <2>1. PICK s, b : s = restart.gen /\ b = FALSE
      OBVIOUS
    <2>2. b \in BOOLEAN /\ s \in DOMAIN gens /\ gens' = ManagedIn(gens, s, b)
      BY <1>1, <1>3, <2>1
    <2>3. /\ Edited(gens, gens', s) /\ SameFate(gens, gens', s) /\ SameOrigin(gens, gens', s)
          /\ SameMail(gens, gens', s)
      BY <1>1, <2>2, ManagedTable
    <2>4. Fades(gens, gens')
      BY <2>2, <2>3, MailFades DEF SameFate
    <2>5. restart'.pc = "idle"
      BY <1>3, IdleTyped
    <2>6. Crashing(state.activation, start, restart', exits')
      BY <1>1, <1>2, <2>5 DEF Crashing
    <2> QED
      BY <1>1, <1>2, <1>3, <2>4, <2>6, CrashAns
  <1>4. CASE /\ Gone(restart.gen) /\ active' = ActiveWithout(restart.gen)
             /\ gens' = gens
             /\ IF stopped THEN restart' = IdleRestart /\ UNCHANGED state
                ELSE \E n \in Recent(state.crashes) :
                        /\ state' = Crashed(n)
                        /\ restart' = [restart EXCEPT !.pc = "recording", !.snap = state']
    <2>1. gens[restart.gen].stage = "dead" /\ restart.gen # 0
      <3>1. restart.gen # 0
        BY <1>1, Typed
      <3> QED
        BY <1>4, <3>1 DEF Gone
    <2>2. active' = active \/ (active' = 0 /\ active # 0 /\ gens[active].stage = "dead")
      BY <1>4, <2>1 DEF ActiveWithout
    <2>3. Fades(gens, gens')
      BY <1>4, SameFades
    <2>4. CASE stopped
      <3>1. restart'.pc = "idle" /\ state' = state
        BY <1>4, <2>4, IdleTyped
      <3>2. Crashing(state.activation, start, restart', exits')
        BY <1>1, <1>2, <3>1 DEF Crashing
      <3>3. Resting(reqs, gens, current, file'.activation, state.activation, stopped, active',
                    start, act, exits')
        BY <2>4 DEF Resting
      <3> QED
        BY <1>1, <1>2, <2>2, <2>3, <3>1, <3>2, <3>3, CrashAns
    <2>5. CASE ~stopped
      <3>1. PICK n \in Recent(state.crashes) :
               /\ state' = Crashed(n)
               /\ restart' = [restart EXCEPT !.pc = "recording", !.snap = state']
        BY <1>4, <2>5
      <3>2. state'.activation = state.activation
        BY <1>1, <3>1, CrashTyped
      <3>3. restart'.pc = "recording" /\ restart'.snap = state'
        BY <1>1, <3>1 DEF RestartTask
      <3>4. Crashing(state.activation, start, restart', exits')
        BY <1>1, <1>2, <3>2, <3>3 DEF Crashing
      <3>5. LiveSup(gens, active, deadline, start, act, restart, exits, closing)
        BY <1>1, <2>5 DEF SupInv
      <3>6. active = restart.gen /\ exits = {}
        BY <1>1, <3>5 DEF LiveSup
      <3>7. ~Unwritten(active, start, exits) /\ active' = 0
        BY <1>1, <1>2, <1>4, <3>6 DEF Unwritten, Crashing, ActiveWithout
      <3>8. Resting(reqs, gens, current, file'.activation, state.activation, stopped, active',
                    start, act, exits')
        BY <1>1, <1>2, <3>7 DEF Resting
      <3> QED
        BY <1>1, <1>2, <2>2, <2>3, <3>2, <3>4, <3>8, CrashAns
    <2> QED
      BY <2>4, <2>5
  <1> QED
    BY <1>3, <1>4 DEF RestartStarted, ManagedIn

\* RestartDelayed keeps the answers in agreement.
LEMMA AnsRestartDelayed ==
    ASSUME HostTypeOK, SupInv, AnsInv, RestartDelayed PROVE AnsInv'
  <1>1. /\ Up /\ phase = "up" /\ restart.pc = "delaying" /\ UpAns
        /\ restart \in RestartTask /\ gens \in Seq(Generation) /\ current \in Releases
        /\ reqs \in [Requests -> Request] /\ state.activation \in ActivationState
        /\ file.activation \in ActivationState
        /\ start.snap.activation \in ActivationState
        /\ start.pc = "reconciling" => start.gen \in DOMAIN gens
        /\ UNCHANGED <<current, file, reqs>>
    BY Typed
       DEF RestartDelayed, disk, database, AnsInv, Up, HostTypeOK, DataTyped, StartTyped,
           StartTask, Recorded, HostState
  <1>2. act.pc = "idle" /\ Crashing(state.activation, start, restart, exits)
        /\ Resting(reqs, gens, current, file.activation, state.activation, stopped, active,
                   start, act, exits)
        /\ Kept(reqs, gens, current, file.activation, state.activation)
        /\ Word(reqs, gens, file.activation) /\ Fits(reqs, file.activation, current)
        /\ MailInv(reqs, gens)
    BY <1>1 DEF UpAns, ActAns, AnsInv
  <1>3. CASE HostEnds("down")
    <2>1. PICK p : p = "down"
      OBVIOUS
    <2>2. p \in {"down", "closed"} /\ HostEnds(p)
      BY <1>3, <2>1
    <2> QED
      BY <1>1, <2>2, DownAns
  <1>4. CASE /\ restart' = IdleRestart
             /\ UNCHANGED <<gens, phase, stopped, active, state, start, act, exits>>
    <2>1. restart'.pc = "idle"
      BY <1>4, IdleTyped
    <2>2. Crashing(state.activation, start, restart', exits')
      BY <1>2, <1>4, <2>1 DEF Crashing
    <2>3. Fades(gens, gens')
      BY <1>4, SameFades
    <2> QED
      BY <1>1, <1>2, <1>4, <2>2, <2>3, CrashAns
  <1>5. CASE /\ ~stopped /\ gens' = Spawned(current, 0) /\ active' = NewGen
             /\ restart' = [restart EXCEPT !.pc = "starting", !.gen = NewGen]
             /\ UNCHANGED <<phase, stopped, state, start, act, exits>>
    <2>1. PICK n, e, z, f, h : /\ n = NewGen /\ e = gens' /\ z = 0
                               /\ f = file.activation /\ h = state.activation
      OBVIOUS
    <2>2. z \in 0..MaxRequests /\ e = Spawned(current, z)
      BY <1>5, <2>1, IdleTyped
    <2>3. /\ MailInv(reqs, e) /\ Heard(reqs, gens, reqs, e) /\ Aged(gens, e)
          /\ e[n].release = current
      BY <1>1, <1>2, <2>1, <2>2, ForkLater
    <2>4. n = Len(gens) + 1 /\ Len(gens) \in Nat /\ DOMAIN gens = 1..Len(gens)
      BY <1>1, <2>1, Typed DEF NewGen
    <2>5. n \in Nat /\ n \notin DOMAIN gens
      BY <2>4
    <2>6. restart'.pc = "starting" /\ restart'.gen = n
      BY <1>1, <1>5, <2>1, <2>5 DEF RestartTask
    <2>7. LiveSup(gens, active, deadline, start, act, restart, exits, closing)
      BY <1>1, <1>5 DEF SupInv
    <2>8. active = 0 /\ exits = {} /\ start.pc # "starting"
      BY <1>1, <2>7 DEF LiveSup
    <2>9. start.pc = "reconciling" => start.gen # 0 /\ start.gen # n
      BY <1>1, <2>4, <2>5
    <2>10. f = h \/ Done(reqs, f.q)
      BY <1>2, <1>5, <2>1, <2>8, <2>9 DEF Resting, Unwritten
    <2>11. Word(reqs, e, f) /\ Kept(reqs, e, current, f, h)
      BY <1>1, <1>2, <2>1, <2>3, HeardWord, LaterKept
    <2>12. Resting(reqs, e, current, f, h, stopped, n, start, act, exits)
      BY <2>3, <2>10 DEF Resting
    <2>13. Crashing(h, start, restart', exits)
      BY <1>2, <2>1, <2>6, <2>9 DEF Crashing
    <2>14. Starting(e, f, h, stopped, start)
      BY <2>8 DEF Starting
    <2>15. Reconciling(reqs, e, current, h, n, start, act)
      <3> SUFFICES ASSUME start.pc = "reconciling"
                   PROVE  Reconciling(reqs, e, current, h, n, start, act)
        BY DEF Reconciling
      <3>1. Reconciling(reqs, gens, current, h, active, start, act)
        BY <1>1, <2>1 DEF UpAns
      <3>2. gens[start.gen].stage = "dead"
        BY <2>8, <2>9, <3>1 DEF Reconciling
      <3>3. e[start.gen].stage = "dead" /\ Served(e[start.gen])
        BY <1>1, <2>3, <3>2 DEF Aged, Served
      <3>4. /\ Word(reqs, gens, start.snap.activation) /\ Fits(reqs, start.snap.activation, current)
            /\ start.snap.activation.phase \in Terminal
            /\ start.snap.activation = h \/ Done(reqs, start.snap.activation.q)
        BY <3>1 DEF Reconciling
      <3>5. Word(reqs, e, start.snap.activation)
        BY <1>1, <2>3, <3>4, HeardWord
      <3> QED
        BY <3>3, <3>4, <3>5 DEF Reconciling
    <2>16. ActAns(reqs, e, current, f, h, n, start, act, restart', exits)
      BY <1>2 DEF ActAns
    <2>17. UpAns'
      BY <1>1, <1>5, <2>1, <2>11, <2>12, <2>13, <2>14, <2>15, <2>16 DEF UpAns
    <2> QED
      BY <1>1, <1>2, <2>1, <2>3, <2>11, <2>17 DEF AnsInv
  <1> QED
    BY <1>3, <1>4, <1>5 DEF RestartDelayed, MayFork

-----------------------------------------------------------------------------
(* close().                                                                 *)

\* close() keeps the answers in agreement.
LEMMA CloseAns ==
    ASSUME HostTypeOK, AnsInv, Up, start.pc = "idle", stopped', StopSession(active, active),
           UNCHANGED <<current, file, reqs, phase, state, start, act, restart, exits>>
    PROVE  AnsInv'
  <1>1. /\ gens \in Seq(Generation) /\ reqs \in [Requests -> Request]
        /\ active \in 0..Len(gens) /\ state.activation \in ActivationState
        /\ file.activation \in ActivationState /\ start \in StartTask /\ ActTyped(gens, act)
    BY Typed DEF HostTypeOK, DataTyped
  <1>2. Fades(gens, gens')
    BY <1>1, StopFades
  <1>3. MailInv(reqs, gens') /\ Heard(reqs, gens, reqs, gens') /\ Aged(gens, gens')
    BY <1>2, FadesLater DEF AnsInv
  <1>4. active' = 0 /\ UpAns
    BY DEF StopSession, AnsInv
  <1>5. Word(reqs, gens', file.activation) /\ Fits(reqs, file.activation, current)
    BY <1>1, <1>3, HeardWord DEF AnsInv
  <1>6. Kept(reqs, gens', current, file.activation, state.activation)
    BY <1>1, <1>3, <1>4, LaterKept DEF UpAns
  <1>7. Resting(reqs', gens', current', file'.activation, state'.activation, stopped', active',
                start', act', exits')
    BY DEF Resting
  <1>8. Crashing(state'.activation, start', restart', exits')
    BY <1>4 DEF UpAns
  <1>9. Starting(gens', file'.activation, state'.activation, stopped', start')
        /\ Reconciling(reqs', gens', current', state'.activation, active', start', act')
    BY DEF Starting, Reconciling
  <1>10. ActAns(reqs, gens, current, file.activation, state.activation, active, start, act,
                restart, exits)
    BY <1>4 DEF UpAns
  <1>11. ActAns(reqs, gens', current, file.activation, state.activation, active', start, act,
                restart, exits)
    BY <1>1, <1>3, <1>4, <1>10, LaterAct
  <1>12. UpAns'
    BY <1>6, <1>7, <1>8, <1>9, <1>11 DEF UpAns
  <1> QED
    BY <1>3, <1>5, <1>12 DEF AnsInv, Up

\* Closing keeps the answers in agreement.
LEMMA AnsClosing ==
    ASSUME HostTypeOK, SupInv, AnsInv, Close \/ CloseStep \/ HostCrash PROVE AnsInv'
  <1>1. CASE Close
    <2>1. /\ Up /\ start.pc = "idle" /\ stopped' /\ StopSession(active, active)
          /\ UNCHANGED <<current, file, reqs, phase, state, start, act, restart, exits>>
      BY <1>1 DEF Close, disk, database
    <2> QED
      BY <2>1, CloseAns
  <1>2. CASE CloseJoined
    <2>1. /\ Up /\ closing.pc = "joining" /\ StopSession(active, active)
          /\ UNCHANGED <<current, file, reqs, phase, stopped, state, start, act, restart, exits>>
      BY <1>2 DEF CloseJoined, disk, database
    <2>2. stopped /\ start.pc = "idle"
      BY <2>1 DEF SupInv, LiveSup, StoppedSup, Up
    <2> QED
      BY <2>1, <2>2, CloseAns
  <1>3. CASE CloseDone \/ HostCrash
    <2>1. PICK p \in {"down", "closed"} : HostEnds(p)
      BY <1>3 DEF CloseDone, HostCrash
    <2>2. Up /\ UNCHANGED <<current, file, reqs>>
      BY <1>3 DEF CloseDone, HostCrash, disk, database
    <2> QED
      BY <2>1, <2>2, DownAns
  <1> QED
    BY <1>1, <1>2, <1>3 DEF CloseStep

-----------------------------------------------------------------------------
(* ACTIVATE arrives.                                                        *)

\* A Host whose Generation sent ACTIVATE has no task at work; one whose restart has
\* not resumed repeats an answer at most.
LEMMA ReceiverRests ==
    ASSUME HostTypeOK, SupInv, AnsInv, NEW s \in Gens, Receive(s), ~early', ~stopped,
           active = s
    PROVE  /\ act.pc = "idle" /\ exits = {} /\ start.pc # "starting"
           /\ state.activation.q # gens[s].act => restart.pc = "idle"
           /\ start.pc = "reconciling" => gens[start.gen].stage = "dead"
           /\ file.activation = state.activation \/ Done(reqs, file.activation.q)
           /\ gens[s].release = current
  <1>1. /\ Up /\ phase = "up" /\ UpAns /\ gens[s].act # 0 /\ gens[s].stage # "dead"
        /\ ~BeginsEarly(s)
    BY DEF Receive, AnsInv, Alive, Up
  <1>2. act \in ActTask /\ restart \in RestartTask /\ start \in StartTask /\ s \in DOMAIN gens
        /\ s # 0 /\ active # 0
    BY Typed DEF Gens
  <1>3. \A q : ~Owed(gens[s], q)
    BY <1>1 DEF Owed
  <1>4. LiveSup(gens, active, deadline, start, act, restart, exits, closing)
    BY <1>1 DEF SupInv
  <1>5. act.pc = "idle"
    <2> SUFFICES ASSUME act.pc # "idle" PROVE FALSE
      OBVIOUS
    <2>1. ActSup(gens, active, deadline, act)
      BY <1>4 DEF LiveSup
    <2>2. Waiting(gens, active, act)
      BY <1>1 DEF UpAns, ActAns
    <2>3. act.pc \notin PreDrain \cup {"draining"}
      BY <1>3, <2>1, <2>2 DEF ActSup, Waiting
    <2>4. act.pc \notin {"starting", "rbStarting", "wRolledBack"}
      BY <1>3, <2>1, <2>2 DEF ActSup, Waiting
    <2>5. act.pc \notin Testing
      BY <1>3, <2>1, <2>2 DEF ActSup, Waiting
    <2>6. act.pc \notin {"rbCommit", "wRollbackFailed"}
      BY <1>2, <1>3, <2>2 DEF Waiting
    <2>7. act.pc \notin {"rbVerify", "wStarting", "stopping", "fatal"}
      BY <1>1, <1>2, <2>1 DEF ActSup
    <2> QED
      BY <1>2, <2>3, <2>4, <2>5, <2>6, <2>7 DEF ActTask, ActPcs, PreDrain, Testing
  <1>6. exits = {} /\ restart.pc \notin {"delaying", "recording"}
    BY <1>2, <1>4 DEF LiveSup
  <1>7. start.pc # "starting"
    <2>1. CASE state.activation.q = gens[s].act
      BY <1>1, <1>3, <1>4, <2>1 DEF LiveSup, UpAns, Starting
    <2>2. CASE state.activation.q # gens[s].act
      BY <1>1, <1>4, <1>5, <2>2 DEF LiveSup, BeginsEarly, Settling
    <2> QED
      BY <2>1, <2>2
  <1>8. state.activation.q # gens[s].act => restart.pc = "idle"
    <2>1. state.activation.q # gens[s].act => restart.pc # "starting"
      BY <1>4, <1>1, <1>5 DEF LiveSup, BeginsEarly, Settling
    <2> QED
      BY <1>2, <1>6, <2>1 DEF RestartTask
  <1>9. start.pc = "reconciling" => gens[start.gen].stage = "dead"
    BY <1>1, <1>3 DEF UpAns, Reconciling
  <1>10. ~Unwritten(active, start, exits)
    BY <1>1, <1>6, <1>9 DEF Unwritten
  <1> QED
    BY <1>1, <1>2, <1>5, <1>6, <1>7, <1>8, <1>9, <1>10 DEF UpAns, Resting

\* What ACTIVATE of session s says about the requests.
LEMMA ReceivedMail ==
    ASSUME HostTypeOK, AnsInv, NEW s \in Gens, Receive(s)
    PROVE  /\ s \in DOMAIN gens /\ gens[s].act \in Requests /\ gens[s].act # 0
           /\ gens[s].stage = "ready" /\ gens[s].out = gens[s].act /\ gens[s].results = {}
           /\ Open(reqs, gens, gens[s].act) /\ Past(reqs, gens[s].act)
           /\ \A a \in ActivationState :
                Word(reqs, gens, a) => a.q = gens[s].act \/ Done(reqs, a.q)
  <1>1. s \in DOMAIN gens /\ gens[s].act \in Requests /\ gens[s].act # 0 /\ gens[s].stage # "dead"
    BY ReceiveTable DEF Gens, Receive, Alive
  <1>2. Wired(reqs, gens) /\ OneLock(gens)
    BY DEF AnsInv, MailInv
  <1>3. Sound(reqs, gens[s])
    BY <1>1, <1>2 DEF Wired
  <1>4. PICK q : q = gens[s].act
    OBVIOUS
  <1>5. /\ q \in Requests /\ q # 0 /\ gens[s].stage = "ready" /\ gens[s].out = q
        /\ gens[s].results = {} /\ reqs[q].stage = "pending" /\ Past(reqs, q)
    BY <1>1, <1>3, <1>4 DEF Sound
  <1>6. ASSUME NEW t \in DOMAIN gens, NEW r \in gens[t].results PROVE FALSE
    <2>1. gens[t].stage # "dead"
      BY <1>2, <1>6 DEF Wired
    <2>2. Sound(reqs, gens[t])
      BY <1>2, <2>1 DEF Wired
    <2>3. gens[t].stage = "ready"
      BY <2>2 DEF Sound
    <2>4. t = s
      BY <1>1, <1>2, <1>5, <2>3 DEF OneLock
    <2> QED
      BY <1>5, <2>4
  <1>7. Open(reqs, gens, q)
    BY <1>5, <1>6 DEF Open
  <1>8. ASSUME NEW a \in ActivationState, Word(reqs, gens, a), a.q # q, a.q # 0
        PROVE  reqs[a.q].stage = "settled"
    <2>1. a.q \in Requests /\ Past(reqs, a.q)
      BY <1>8, HostAssumption DEF ActivationState, Requests, Word
    <2>2. CASE a.q < q
      BY <1>5, <2>1, <2>2 DEF Past
    <2>3. CASE q < a.q
      <3>1. reqs[q].stage = "settled"
        BY <1>5, <2>1, <2>3 DEF Past
      <3> QED
        BY <1>5, <3>1
    <2>4. a.q \in Nat /\ q \in Nat
      BY <1>5, <2>1 DEF Requests
    <2> QED
      BY <1>8, <2>2, <2>3, <2>4
  <1> QED
    BY <1>1, <1>4, <1>5, <1>7, <1>8 DEF Done

\* An ACTIVATE that is taken from the wire fades.
LEMMA ReceivedFades ==
    ASSUME NEW d \in Seq(Generation), NEW s \in DOMAIN d, NEW e, e = ReceivedIn(d, s)
    PROVE  /\ Fades(d, e) /\ Edited(d, e, s) /\ SameFate(d, e, s) /\ SameOrigin(d, e, s)
           /\ e[s].out = d[s].out /\ e[s].act = 0 /\ e[s].results = d[s].results
  <1>1. /\ Edited(d, e, s) /\ SameFate(d, e, s) /\ SameOrigin(d, e, s)
        /\ e[s].out = d[s].out /\ e[s].act = 0 /\ e[s].results = d[s].results
    BY ReceivedTable
  <1> QED
    BY <1>1 DEF Fades, Edited, SameFate, SameOrigin

\* The request is the recorded one, and its answer is repeated.
LEMMA AnsReplay ==
    ASSUME HostTypeOK, SupInv, AnsInv, NEW s \in Gens, Receive(s), ~early', ~stopped,
           active = s, state.activation.q = gens[s].act
    PROVE  AnsInv'
  <1>1. /\ act.pc = "idle" /\ exits = {} /\ start.pc # "starting"
        /\ start.pc = "reconciling" => gens[start.gen].stage = "dead"
        /\ file.activation = state.activation \/ Done(reqs, file.activation.q)
        /\ gens[s].release = current
    BY ReceiverRests
  <1>2. PICK q, h, g : q = gens[s].act /\ h = state.activation /\ g = ReceivedIn(gens, s)
    OBVIOUS
  <1>3. /\ s \in DOMAIN gens /\ q \in Requests /\ q # 0 /\ gens[s].stage = "ready"
        /\ gens[s].out = q /\ gens[s].results = {} /\ Open(reqs, gens, q)
    BY <1>2, ReceivedMail
  <1>4. gens \in Seq(Generation) /\ h \in ActivationState /\ h.q = q
        /\ gens[s].release \in Releases
    BY <1>2, Typed, ReceiveTable
  <1>5. /\ Fades(gens, g) /\ Edited(gens, g, s) /\ SameFate(gens, g, s) /\ SameOrigin(gens, g, s)
        /\ g[s].out = gens[s].out /\ g[s].act = 0 /\ g[s].results = gens[s].results
    BY <1>2, <1>3, <1>4, ReceivedFades
  <1>6. /\ Up /\ gens' = Replayed(g, s, q)
        /\ UNCHANGED <<current, file, reqs, phase, stopped, start, act, restart, active, state,
                       exits>>
    BY <1>2 DEF Receive, ReceivedIn, disk, database
  <1>7. UpAns /\ Word(reqs, gens, h) /\ Fits(reqs, h, current)
    BY <1>2, <1>6 DEF AnsInv, UpAns, Kept
  <1>8. SameIdentity(q) <=> Same(reqs, h)
    BY <1>2, <1>4 DEF SameIdentity, Same
  <1>9. CASE SameIdentity(q) /\ h.phase \notin Terminal
    <2>1. gens' = g
      BY <1>2, <1>6, <1>9 DEF Replayed
    <2> QED
      BY <1>5, <1>6, <2>1, FadesAns
  <1>10. ASSUME NEW status \in Statuses, NEW rl \in Releases, gens' = Sent(g, s, q, status, rl),
                Says(h, q, status, rl)
         PROVE  AnsInv'
    <2>1. g \in Seq(Generation)
      BY <1>5 DEF Edited
    <2>2. Told(gens, gens', s, q, status, rl)
      BY <1>3, <1>4, <1>5, <1>10, <2>1, SentTold
    <2>3. \/ start'.pc \notin {"starting", "reconciling"}
          \/ /\ start' = start /\ start.pc = "reconciling" /\ gens[start.gen].stage = "dead"
             /\ Says(start.snap.activation, q, status, rl)
      <3>1. CASE start.pc # "reconciling"
        BY <1>1, <1>6, <3>1
      <3>2. CASE start.pc = "reconciling"
        <4>1. start.snap.activation = h \/ Done(reqs, start.snap.activation.q)
          BY <1>2, <1>7, <3>2 DEF UpAns, Reconciling
        <4>2. Done(reqs, start.snap.activation.q) => start.snap.activation.q # q
          BY <1>3 DEF Done, Open
        <4>3. Says(start.snap.activation, q, status, rl)
          BY <1>10, <4>1, <4>2 DEF Says
        <4> QED
          BY <1>1, <1>6, <3>2, <4>3
      <3> QED
        BY <3>1, <3>2
    <2>4. file'.activation = state.activation
            \/ /\ file' = file /\ file.activation.q # q
               /\ Done(reqs, file.activation.q)
      <3>1. Done(reqs, file.activation.q) => file.activation.q # q
        BY <1>3 DEF Done, Open
      <3> QED
        BY <1>1, <1>6, <3>1
    <2>5. /\ ~stopped' /\ active # 0 => gens[active].release = current
          /\ state.activation.q = q /\ Says(state.activation, q, status, rl)
          /\ state'.activation = state.activation /\ act'.pc = "idle"
      BY <1>1, <1>2, <1>4, <1>6, <1>10
    <2> QED
      BY <1>3, <1>6, <2>2, <2>3, <2>4, <2>5, ToldAns
  <1>11. CASE SameIdentity(q) /\ h.phase \in Terminal
    <2>1. PICK status, rl : status = StatusOf(h) /\ rl = ReleaseOf(h)
      OBVIOUS
    <2>2. status \in Statuses /\ rl \in Releases
      BY <1>3, <1>4, <2>1, AnswerTyped
    <2>3. gens' = Sent(g, s, q, status, rl)
      BY <1>2, <1>4, <1>6, <1>11, <2>1 DEF Replayed, Answered
    <2>4. Says(h, q, status, rl)
      BY <1>11, <2>1, AnswerIs DEF Says
    <2> QED
      BY <1>10, <2>2, <2>3, <2>4
  <1>12. CASE ~SameIdentity(q)
    <2>1. PICK status, rl : status = "identity_conflict" /\ rl = g[s].release
      OBVIOUS
    <2>2. rl = current /\ rl \in Releases /\ status \in Statuses
      BY <1>1, <1>4, <1>5, <2>1 DEF SameOrigin, Statuses
    <2>3. gens' = Sent(g, s, q, status, rl)
      BY <1>6, <1>12, <2>1 DEF Replayed
    <2>4. h.phase = "failed"
      BY <1>3, <1>4, <1>7, <1>8, <1>12 DEF Word
    <2>5. h.prev = current
      BY <1>3, <1>4, <1>7, <1>8, <1>12 DEF Fits, Open
    <2>6. Says(h, q, status, rl)
      BY <2>1, <2>2, <2>4, <2>5 DEF Says, StatusOf, ReleaseOf, Outcome, Terminal
    <2> QED
      BY <1>10, <2>2, <2>3, <2>6
  <1> QED
    BY <1>9, <1>11, <1>12

\* The activation begins: nobody knows of its request, and every other one is settled.
LEMMA AnsBegins ==
    ASSUME HostTypeOK, SupInv, AnsInv, NEW s \in Gens, Receive(s), ~early', ~stopped,
           active = s, state.activation.q # gens[s].act
    PROVE  AnsInv'
  <1>1. /\ act.pc = "idle" /\ exits = {} /\ restart.pc = "idle" /\ start.pc # "starting"
        /\ start.pc = "reconciling" => gens[start.gen].stage = "dead"
        /\ file.activation = state.activation \/ Done(reqs, file.activation.q)
        /\ gens[s].release = current
    BY ReceiverRests
  <1>2. PICK q, h, f, rel : /\ q = gens[s].act /\ h = state.activation /\ f = file.activation
                            /\ rel = gens[s].release
    OBVIOUS
  <1>3. /\ s \in DOMAIN gens /\ q \in Requests /\ q # 0 /\ gens[s].stage = "ready"
        /\ gens[s].out = q /\ gens[s].results = {} /\ Open(reqs, gens, q) /\ Past(reqs, q)
        /\ \A a \in ActivationState : Word(reqs, gens, a) => a.q = q \/ Done(reqs, a.q)
    BY <1>2, ReceivedMail
  <1>4. gens \in Seq(Generation) /\ h \in ActivationState /\ f \in ActivationState
        /\ rel \in Releases /\ start.snap.activation \in ActivationState
    BY <1>2, Typed, ReceiveTable DEF HostTypeOK, StartTyped, StartTask, Recorded, HostState
  <1>5. /\ Up /\ UpAns /\ Word(reqs, gens, f) /\ Fits(reqs, f, current)
        /\ UNCHANGED <<current, file, reqs, phase, stopped, start, restart, active, exits>>
    BY <1>2 DEF Receive, disk, database, AnsInv
  <1>6. Word(reqs, gens, h) /\ Fits(reqs, h, current)
    BY <1>2, <1>5 DEF UpAns, Kept
  <1>7. ~Done(reqs, q)
    BY <1>3 DEF Done, Open
  <1>8. Done(reqs, h.q) /\ Done(reqs, f.q) /\ f.q # q /\ h.q # q
    BY <1>1, <1>2, <1>3, <1>4, <1>5, <1>6, <1>7
  <1>9. start.pc = "reconciling" => Done(reqs, start.snap.activation.q)
    BY <1>2, <1>5, <1>8 DEF UpAns, Reconciling
  <1>10. PICK g, b : g = ReceivedIn(gens, s) /\ b = TRUE
    OBVIOUS
  <1>11. /\ Fades(gens, g) /\ Edited(gens, g, s) /\ SameFate(gens, g, s) /\ SameOrigin(gens, g, s)
         /\ g[s].out = q /\ g[s].act = 0 /\ g[s].results = {}
    BY <1>3, <1>4, <1>10, ReceivedFades
  <1>12. g \in Seq(Generation) /\ s \in DOMAIN g /\ b \in BOOLEAN
    BY <1>3, <1>10, <1>11 DEF Edited
  <1>13. PICK e : e = gens'
    OBVIOUS
  <1>14. e = ManagedIn(g, s, b)
    BY <1>1, <1>10, <1>13 DEF Receive, Owned, ReceivedIn, ManagedIn
  <1>15. /\ Edited(g, e, s) /\ SameFate(g, e, s) /\ SameOrigin(g, e, s) /\ SameMail(g, e, s)
    BY <1>12, <1>14, ManagedTable
  <1>16. Fades(g, e)
    BY <1>12, <1>15, MailFades DEF SameFate
  <1>17. MailInv(reqs, e) /\ Heard(reqs, gens, reqs, e) /\ Aged(gens, e)
    BY <1>11, <1>16, FadesTwice, FadesLater DEF AnsInv
  <1>18. Owed(e[s], q) /\ Served(e[s]) /\ e[s].release = rel
    BY <1>2, <1>3, <1>11, <1>15 DEF Owed, Served, SameFate, SameOrigin, SameMail
  <1>19. Open(reqs, e, q)
    BY <1>3, <1>17 DEF Heard
  <1>20. PICK ac, h2 : ac = act' /\ h2 = state'.activation
    OBVIOUS
  <1>21. /\ ac.q = q /\ ac.old = s /\ ac.target = rel /\ h2 \in ActivationState
         /\ \/ ac.pc = "resolving" /\ h2 = h /\ reqs[q].expected = rel
            \/ /\ ac.pc = "wFailed" /\ ac.snap.activation = h2
               /\ h2.q = q /\ h2.prev = rel /\ h2.target = rel /\ h2.phase = "failed"
    <2>1. ac.q = q /\ ac.old = s /\ ac.target = rel /\ state' \in Recorded
      BY <1>1, <1>2, <1>20, ReceiveBegins
    <2>2. h2 \in ActivationState
      BY <1>20, <2>1 DEF Recorded, HostState
    <2>3. PICK r : r = [q |-> q, prev |-> rel, target |-> rel, phase |-> "failed"]
      OBVIOUS
    <2>4. \/ ac.pc = "resolving" /\ state' = state /\ reqs[q].expected = rel
          \/ ac.pc = "wFailed" /\ ac.snap = state' /\ state'.activation = r
      BY <1>1, <1>2, <1>20, <2>3, ReceiveBegins
    <2> QED
      BY <1>2, <1>20, <2>1, <2>2, <2>3, <2>4
  <1>22. ac.pc \notin {"idle", "stopping", "fatal", "draining", "starting"} /\ ac.pc \in PreDrain
         /\ ac.pc \notin Testing
         /\ ac.pc \notin {"rbStarting", "wRolledBack", "rbCommit", "wRollbackFailed", "wCommitted"}
    BY <1>21 DEF PreDrain, Testing
  <1>23. Word(reqs, gens, h2) /\ Fits(reqs, h2, current)
    <2>1. CASE h2 = h
      BY <1>6, <2>1
    <2>2. CASE /\ h2.q = q /\ h2.prev = rel /\ h2.target = rel /\ h2.phase = "failed"
      <3>1. reqs[q].stage # "none" /\ reqs[q].stage # "settled"
        BY <1>3 DEF Open
      <3>2. Agreed(reqs, gens, q, StatusOf(h2), ReleaseOf(h2))
        BY <1>3, <3>1 DEF Open, Agreed
      <3> QED
        BY <1>1, <1>2, <1>3, <2>2, <3>1, <3>2 DEF Word, Fits, Terminal
    <2> QED
      BY <1>21, <2>1, <2>2
  <1>24. Kept(reqs, gens, current, f, h2)
    BY <1>8, <1>23 DEF Kept
  <1>25. Unsaid(reqs, e, h2, start, ac)
    BY <1>3, <1>8, <1>9, <1>19, <1>21 DEF Unsaid
  <1>26. Noted(e, h2, ac)
    BY <1>18, <1>21 DEF Noted, Writing, PhaseAt
  <1>27. Waiting(e, active, ac)
    BY <1>18, <1>21, <1>22 DEF Waiting
  <1>28. Linked(e, current, ac)
    BY <1>1, <1>2, <1>18, <1>21, <1>22 DEF Linked
  <1>29. Asked(reqs, e, f, h2, ac)
    BY <1>8, <1>18, <1>21 DEF Asked, Testing
  <1>30. ActAns(reqs, e, current, f, h2, active, start, ac, restart, exits)
    BY <1>1, <1>25, <1>26, <1>27, <1>28, <1>29 DEF ActAns
  <1>31. /\ MailInv(reqs, gens') /\ Heard(reqs, gens, reqs, gens') /\ Aged(gens, gens')
         /\ act'.pc # "idle" /\ file'.activation \in ActivationState
         /\ state'.activation \in ActivationState
         /\ Word(reqs, gens, file'.activation) /\ Fits(reqs, file'.activation, current')
         /\ Kept(reqs, gens, current', file'.activation, state'.activation)
         /\ ActAns(reqs', gens', current', file'.activation, state'.activation, active', start',
                   act', restart', exits')
    BY <1>2, <1>4, <1>5, <1>13, <1>17, <1>20, <1>21, <1>22, <1>24, <1>30
  <1> QED
    BY <1>1, <1>5, <1>9, <1>31, StepAns

\* Receive keeps the answers in agreement.
LEMMA AnsReceive ==
    ASSUME HostTypeOK, SupInv, AnsInv, NEW s \in Gens, Receive(s), ~early'
    PROVE  AnsInv'
  <1>1. CASE stopped \/ active # s
    <2>1. /\ gens' = ReceivedIn(gens, s)
          /\ UNCHANGED <<current, file, reqs, phase, stopped, start, act, restart, active, state,
                         exits>>
      BY <1>1 DEF Receive, ReceivedIn, disk, database
    <2>2. Fades(gens, gens')
      BY <2>1, Typed, ReceivedFades DEF Gens
    <2> QED
      BY <2>1, <2>2, FadesAns
  <1> QED
    BY <1>1, AnsReplay, AnsBegins

-----------------------------------------------------------------------------
(* Every request has one outcome.                                           *)

\* No request was made before the first start.
LEMMA AnsHostInit == HostInit => AnsInv
  <1> SUFFICES ASSUME HostInit PROVE AnsInv
    OBVIOUS
  <1>1. /\ gens = <<>> /\ DOMAIN gens = {} /\ phase = "down" /\ ~Up
        /\ \A q \in Requests : reqs[q].stage = "none"
    BY DEF HostInit, Up, Unrequested
  <1>2. file.activation.q = 0
    BY DEF HostInit, InitialState, NoActivation
  <1>3. MailInv(reqs, gens)
    BY <1>1 DEF MailInv, InOrder, Wired, OneLock
  <1> QED
    BY <1>1, <1>2, <1>3 DEF AnsInv, Word, Fits

\* Every step keeps the answers in agreement.
LEMMA AnsHostNext ==
    HostTypeOK /\ SupInv /\ AnsInv /\ [HostNext]_hostVars /\ ~early' => AnsInv'
  <1> SUFFICES ASSUME HostTypeOK, SupInv, AnsInv, [HostNext]_hostVars, ~early' PROVE AnsInv'
    OBVIOUS
  <1>1. CASE StartStep
    BY <1>1, AnsHostStart, AnsStartReady, AnsStartReconciled, AnsStartFails,
       AnsStartStopped DEF StartStep
  <1>2. CASE ActivateStep
    BY <1>2, AnsActResolved, AnsActValidating, AnsActVerified, AnsActDraining,
       AnsActDrained, AnsActStarting, AnsActStarted, AnsActStable, AnsActCommitting,
       AnsActCommitted, AnsActFailed, AnsActStopped DEF ActivateStep
  <1>3. CASE RollbackStep
    BY <1>3, AnsRollbackVerified, AnsRollbackCommitted, AnsRollbackStarted,
       AnsRolledBack, AnsRollbackFailed DEF RollbackStep
  <1>4. CASE RestartStep
    BY <1>4, AnsExitRecorded, AnsRestartDelayed, AnsRestartStarted,
       AnsRestartRecorded DEF RestartStep
  <1>5. CASE Close \/ CloseStep \/ HostCrash
    BY <1>5, AnsClosing
  <1>6. ASSUME NEW s \in Gens, GenStep(s) \/ Ask(s) \/ Break(s) PROVE AnsInv'
    BY <1>6, AnsRefuseReady, AnsReceive, AnsBoot, AnsReady, AnsDeliver, AnsEnd,
       AnsHeartbeat, AnsAsk DEF GenStep
  <1>7. CASE UNCHANGED hostVars
    <2>1. UNCHANGED <<current, file, reqs, gens, phase, stopped, active, state, start, act,
                      restart, exits>>
      BY <1>7 DEF hostVars, disk, database, tasks
    <2> QED
      BY <2>1 DEF AnsInv, UpAns, Up
  <1> QED
    BY <1>1, <1>2, <1>3, <1>4, <1>5, <1>6, <1>7 DEF HostNext

(***************************************************************************)
(* A request has one outcome: what the Host sends, repeats after a restart  *)
(* or derives from its file agrees, in status and release, with what it     *)
(* sent before and with the event a Generation recorded, whatever crash of  *)
(* the Host or loss of a message or a Generation came between them.  The    *)
(* exception is that of HostHasOneChild.                                    *)
(***************************************************************************)
THEOREM RequestsHaveOneAnswer == HostSpec => []OneAnswer
  <1>1. early \/ AnsInv => OneAnswer
    <2> SUFFICES ASSUME AnsInv, NEW q \in Requests, NEW r \in Answers(q)
                 PROVE  /\ \A o \in Answers(q) : SameOutcome(r, o.status, o.release)
                        /\ reqs[q].stage = "settled"
                             => SameOutcome(r, reqs[q].status, reqs[q].release)
      BY DEF OneAnswer
    <2>1. Wired(reqs, gens) /\ OneLock(gens)
      BY DEF AnsInv, MailInv
    <2>2. ASSUME NEW o \in Answers(q)
          PROVE  \E t \in DOMAIN gens :
                   /\ gens[t].stage = "ready" /\ gens[t].results = {o}
                   /\ reqs[q].stage = "settled"
                        => SameOutcome(o, reqs[q].status, reqs[q].release)
      <3>1. PICK t \in DOMAIN gens : o \in gens[t].results /\ o.q = q
        BY <2>2 DEF Answers, Gens
      <3>2. Sound(reqs, gens[t])
        BY <2>1, <3>1 DEF Wired
      <3> QED
        BY <3>1, <3>2 DEF Sound
    <2>3. PICK s \in DOMAIN gens :
             /\ gens[s].stage = "ready" /\ gens[s].results = {r}
             /\ reqs[q].stage = "settled"
                  => SameOutcome(r, reqs[q].status, reqs[q].release)
      BY <2>2
    <2>4. ASSUME NEW o \in Answers(q) PROVE SameOutcome(r, o.status, o.release)
      <3>1. PICK t \in DOMAIN gens : gens[t].stage = "ready" /\ gens[t].results = {o}
        BY <2>2, <2>4
      <3>2. t = s
        BY <2>1, <2>3, <3>1 DEF OneLock
      <3>3. o = r
        BY <2>3, <3>1, <3>2
      <3> QED
        BY <3>3 DEF SameOutcome
    <2> QED
      BY <2>3, <2>4
  <1>2. HostInit => HostTypeOK /\ SupInv /\ AnsInv
    BY TypeHostInit, SupHostInit, AnsHostInit
  <1>3. HostTypeOK /\ (early \/ (SupInv /\ AnsInv)) /\ [HostNext]_hostVars
          => (HostTypeOK /\ (early \/ (SupInv /\ AnsInv)))'
    BY TypeHostNext, SupHostNext, AnsHostNext, EarlyStays
  <1> QED
    BY <1>1, <1>2, <1>3, PTL DEF HostSpec

=============================================================================
