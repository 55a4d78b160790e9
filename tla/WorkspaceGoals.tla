--------------------------- MODULE WorkspaceGoals ---------------------------
(***************************************************************************)
(* Workspace Goals: long-term outcomes of one Workspace, their definition  *)
(* and Roadmap revisions, the decisions that approve them, the TaskRuns    *)
(* that carry out Roadmap items, the evidence those TaskRuns leave, and    *)
(* the automatic admission of the next approved item.                      *)
(*                                                                         *)
(* `db' is what SQLite keeps and `mem' what the Core process keeps, so a   *)
(* crash is the loss of `mem'.  Every repository method is a function from *)
(* a value of `db' to the next one; a method that throws is a guard that   *)
(* does not hold.  A decision names the revision it is about and is        *)
(* refused when the Goal has moved on, so only the revision the code would *)
(* accept is written here.  All criteria are required ones.                *)
(*                                                                         *)
(* The run half (claim, settle, resume, retry) is the interface of the     *)
(* TaskRunLifecycle and SessionInbox modules, cut down to what a Goal      *)
(* sees: status, Attempt ordinal, the Supervisor's verdict on the Goal     *)
(* criteria, and whether a failed launch may be retried.                   *)
(***************************************************************************)
EXTENDS Integers, Sequences, FiniteSets, SequencesExt

CONSTANTS Goals,        \* identities of the Workspace's Goals
          Definitions,  \* the definitions a user writes: sets of criteria
          Roadmaps,     \* the Roadmaps written: sequences of sets of criteria
          MaxDefs, MaxRoads, MaxInbox, MaxRuns, \* bounds
          Budgets       \* bounds: what a behaviour may spend on each kind of disturbance

ASSUME RoadmapsAssumption == Roadmaps \subseteq Seq(SUBSET UNION Definitions)

VARIABLES db, mem,
          budget,       \* what is left of the budget
          heard         \* history: per Goal, the evidence as it was first recorded

goalsVars == <<db, mem, budget, heard>>

Guiding == {"active", "ready_to_close"}
Terminal == {"completed", "cancelled"}
Live == {"running", "waiting_input"}
Stopped == {"blocked", "interrupted"}

NoRun == 0
ItemIds == UNION {DOMAIN roadmap : roadmap \in Roadmaps}
Untouched == [status |-> "pending", run |-> NoRun]

----------------------------------------------------------------------------
(* Projections: what getGoal computes from the rows.                       *)

\* The definition, or the Roadmap, a Goal shows: the active revision, or else the latest.
Definition(d, g) == IF d.goals[g].def # 0 THEN d.goals[g].def ELSE Len(d.defs[g])
Roadmap(d, g) == IF d.goals[g].road # 0 THEN d.goals[g].road ELSE Len(d.roads[g])

LinkOf(d, r) == {n \in DOMAIN d.links : d.links[n].run = r}
ItemLinks(d, g, k, i) ==
    {n \in DOMAIN d.links : /\ d.links[n].goal = g
                            /\ d.links[n].road = k
                            /\ d.links[n].item = i}

\* findActiveGuidedRun: a live linked TaskRun, or the selected one if it is only stopped;
\* the selected one comes first, then the newest link.
ActiveGuidedRun(d, g, preferred) ==
    LET found == {n \in DOMAIN d.links :
                    /\ d.links[n].goal = g
                    /\ LET r == d.links[n].run
                       IN \/ d.runs[r].status \in Live
                          \/ r = preferred /\ d.runs[r].status \in Stopped}
    IN CASE found = {} -> NoRun
         [] \E n \in found : d.links[n].run = preferred -> preferred
         [] OTHER -> d.links[CHOOSE n \in found : \A m \in found : m <= n].run

CurrentRun(d, g) == ActiveGuidedRun(d, g, d.goals[g].current)

\* projectedRoadmapStatus: the owning TaskRun's status overrides the stored one.
ItemStatus(d, g, k, i) ==
    LET row == d.progress[g][k][i]
        status == IF row.run = NoRun THEN "none" ELSE d.runs[row.run].status
    IN CASE status = "completed" -> "completed"
         [] status \in Live -> "running"
         [] status \in Stopped \cup {"failed", "cancelled"} -> "blocked"
         [] OTHER -> row.status

RoadmapComplete(d, g) ==
    /\ d.goals[g].road # 0
    /\ \A i \in d.approved[g][d.goals[g].road] : ItemStatus(d, g, d.goals[g].road, i) = "completed"

\* projectEvidence: evidence of an Attempt that is no longer the TaskRun's current one is stale.
Stale(d, e) == d.runs[e.run].attempt # e.attempt

\* decisiveEvidence: what a set of rows says of a criterion, the row updated last deciding
\* among those of the definition that are not stale.
Decisive(d, rows, def, c) ==
    LET fresh == {e \in rows : e.def = def /\ c \in e.criteria /\ ~Stale(d, e)}
    IN IF fresh = {} THEN "none" ELSE (CHOOSE e \in fresh : \A o \in fresh : o.at <= e.at).verdict

VerifiedCriterion(d, g, c) == Decisive(d, d.evidence[g], Definition(d, g), c) = "covered"

Verified(d, g) == \A c \in d.defs[g][Definition(d, g)] : VerifiedCriterion(d, g, c)

\* The status getGoal reports: ready_to_close is withdrawn as soon as its grounds are gone.
Status(d, g) ==
    IF /\ d.goals[g].status = "ready_to_close"
       /\ ~(Verified(d, g) /\ d.goals[g].def # 0 /\ RoadmapComplete(d, g))
    THEN "active" ELSE d.goals[g].status

ShouldBeReady(d, g) ==
    /\ CurrentRun(d, g) = NoRun
    /\ Verified(d, g)
    /\ d.goals[g].def # 0
    /\ RoadmapComplete(d, g)

RefreshReadyStatus(d, g) ==
    CASE ShouldBeReady(d, g) /\ d.goals[g].status = "active" ->
            [d EXCEPT !.goals[g].status = "ready_to_close", !.goals[g].current = NoRun]
      [] ~ShouldBeReady(d, g) /\ d.goals[g].status = "ready_to_close" ->
            [d EXCEPT !.goals[g].status = "active"]
      [] OTHER -> d

HasPendingInboxWork(d, g) ==
    \E n \in DOMAIN d.inbox : /\ d.inbox[n].goal = g
                              /\ d.inbox[n].linked
                              /\ d.inbox[n].status = "queued"

OtherGuidingGoal(d, g) == \E h \in Goals \ {g} : d.goals[h].status \in Guiding

----------------------------------------------------------------------------
(* Attaching a TaskRun to a Goal.                                          *)

\* The Roadmap item may be launched: no TaskRun of it completed, runs or waits to be resolved.
RoadmapRunAvailable(d, g, k, i) ==
    \A n \in ItemLinks(d, g, k, i) : d.runs[d.links[n].run].status \in {"failed", "cancelled"}

\* resolveLinkSpec for a Roadmap item.
SliceApproved(d, g, def, k, i) ==
    /\ Status(d, g) \in Guiding
    /\ d.goals[g].def = def
    /\ d.goals[g].road = k
    /\ i \in d.approved[g][k]

\* linkInbox: the durable authorization of a queued Inbox item.
MayLinkInbox(d, item) ==
    /\ SliceApproved(d, item.goal, item.def, item.road, item.item)
    /\ RoadmapRunAvailable(d, item.goal, item.road, item.item)
    /\ d.progress[item.goal][item.road][item.item].status # "completed"
    /\ ~\E n \in DOMAIN d.inbox :
          /\ d.inbox[n].linked /\ d.inbox[n].status = "queued"
          /\ d.inbox[n].goal = item.goal /\ d.inbox[n].road = item.road /\ d.inbox[n].item = item.item

\* persistRunLinkAndSnapshot.
Attach(d, r, link) ==
    LET g == link.goal
        selected == [d EXCEPT !.links = Append(@, link),
                              !.goals[g].current = r,
                              !.goals[g].status = IF @ = "ready_to_close" THEN "active" ELSE @]
    IN IF link.item = 0 THEN selected
       ELSE [selected EXCEPT !.progress[g][link.road][link.item] = [status |-> "running", run |-> r]]

\* attachRun: the links a TaskRun may get, at most one.  A Roadmap TaskRun needs the
\* authorization of its Inbox item; a plain one follows the guiding Goal, if there is one.
LinksFor(d, r) ==
    LET item == d.inbox[d.runs[r].inbox]
    IN IF item.goal \in Goals
       THEN {[run |-> r, goal |-> g, def |-> item.def, road |-> item.road, item |-> item.item] :
               g \in {h \in {item.goal} : /\ item.linked
                                          /\ SliceApproved(d, h, item.def, item.road, item.item)
                                          /\ RoadmapRunAvailable(d, h, item.road, item.item)}}
       ELSE {[run |-> r, goal |-> g, def |-> d.goals[g].def, road |-> 0, item |-> 0] :
               g \in {h \in Goals : d.goals[h].status \in Guiding /\ d.goals[h].def # 0}}

AttachRun(d, r) ==
    IF LinksFor(d, r) = {} THEN d ELSE Attach(d, r, CHOOSE link \in LinksFor(d, r) : TRUE)

\* claimSessionInboxItem: the TaskRun, its attachment and the Inbox row in one transaction.
ClaimItem(d, n) ==
    LET r == Len(d.runs) + 1
        created == [d EXCEPT
            !.runs = Append(@, [status |-> "running", attempt |-> 1, verdict |-> "none",
                                inbox |-> n, retryable |-> FALSE]),
            !.inbox[n].status = "started",
            !.inbox[n].run = r]
    IN IF d.inbox[n].goal \in Goals /\ LinksFor(created, r) = {}
       THEN [created EXCEPT !.runs[r].status = "failed"]
       ELSE AttachRun(created, r)

\* claimNextSessionInbox.  Which queued item is first depends on urgency, priority and manual
\* order, which are not modelled.
Queued(d) == {n \in DOMAIN d.inbox : d.inbox[n].status = "queued"}
Dispatch(d) ==
    IF \/ Queued(d) = {}
       \/ Len(d.runs) = MaxRuns
       \/ \E r \in DOMAIN d.runs : d.runs[r].status \in Live
       \/ Len(d.runs) > 0 /\ d.runs[Len(d.runs)].status \in Stopped
    THEN {d} ELSE {ClaimItem(d, n) : n \in Queued(d)}

----------------------------------------------------------------------------
(* What a TaskRun leaves behind.                                           *)

\* A dropped guard: every linked TaskRun may write the item it was linked to.
OwnerNeverNewer(d, n) == FALSE

\* The TaskRun that owns the item was linked later than this one.
OwnerIsNewer(d, n) ==
    LET link == d.links[n]
        owner == d.progress[link.goal][link.road][link.item].run
    IN owner \notin {NoRun, link.run} /\ \E m \in LinkOf(d, owner) : m > n

\* A missing idempotency key: harvesting again refreshes the timestamp of the evidence.
NeverHarvested(d, link) == FALSE

\* The evidence request id names TaskRun, Attempt and checkpoint.
Harvested(d, link) ==
    \E e \in d.evidence[link.goal] :
        e.run = link.run /\ e.attempt = d.runs[link.run].attempt

\* The digest of a row of evidence is made of its TaskRun and Attempt.
SameSource(e, o) == e.def = o.def /\ e.run = o.run /\ e.attempt = o.attempt

\* linkEvidence inserts the row, or updates the one with the same digest; either way it is
\* now later than every other.
LinkEvidence(rows, e) == {o \in rows : ~SameSource(o, e)} \cup {e}
LaterThan(rows) == Max({0} \cup {o.at : o \in rows}) + 1

\* harvestSupervisorEvidence: the verdict of the current Attempt, once.
HarvestSupervisorEvidence(d, link) ==
    IF \/ link.item = 0 \/ d.runs[link.run].verdict = "none"
       \/ d.goals[link.goal].status \in Terminal \/ link.def # Definition(d, link.goal)
       \/ Harvested(d, link)
    THEN d
    ELSE LET e == [def |-> link.def, run |-> link.run, attempt |-> d.runs[link.run].attempt,
                   criteria |-> d.roads[link.goal][link.road][link.item],
                   verdict |-> d.runs[link.run].verdict, at |-> LaterThan(d.evidence[link.goal])]
         IN [d EXCEPT !.evidence[link.goal] = LinkEvidence(@, e)]

OutcomeStatus(status) ==
    CASE status = "completed" -> "completed" [] status \in Live -> "running" [] OTHER -> "blocked"

\* recordRunOutcome: item progress, the selected TaskRun, evidence, readiness.
RecordRunOutcome(d, r) ==
    IF LinkOf(d, r) = {} THEN d
    ELSE LET n == CHOOSE m \in LinkOf(d, r) : TRUE
             link == d.links[n]
             g == link.goal
             status == d.runs[r].status
             progressed == IF link.item = 0 \/ OwnerIsNewer(d, n) THEN d
                           ELSE [d EXCEPT !.progress[g][link.road][link.item] =
                                    [status |-> OutcomeStatus(status), run |-> r]]
             preferred == IF d.goals[g].current = r /\ status \notin Live \cup Stopped
                          THEN NoRun ELSE d.goals[g].current
             reselected == [progressed EXCEPT
                                !.goals[g].current = ActiveGuidedRun(progressed, g, preferred)]
             harvested == IF status \in Live THEN reselected
                          ELSE HarvestSupervisorEvidence(reselected, link)
         IN RefreshReadyStatus(harvested, g)

\* enqueueGoalRoadmapItem.  The Inbox row and its link are two writes; a row whose link is
\* refused is discarded.  An admission under a request id that is already there (the
\* automatic ids are deterministic) repairs the link or the attachment instead.
NewItem(d, g, i, auto) ==
    [goal |-> g, def |-> d.goals[g].def, road |-> d.goals[g].road, item |-> i,
     auto |-> auto, linked |-> TRUE, status |-> "queued", run |-> NoRun]

SameRequest(d, item) ==
    {n \in DOMAIN d.inbox : /\ d.inbox[n].auto /\ item.auto
                            /\ <<d.inbox[n].goal, d.inbox[n].road, d.inbox[n].item>>
                                 = <<item.goal, item.road, item.item>>}

Enqueue(d, item) ==
    CASE SameRequest(d, item) # {} ->
            LET n == CHOOSE m \in SameRequest(d, item) : TRUE
            IN CASE d.inbox[n].status = "queued" /\ (d.inbox[n].linked \/ MayLinkInbox(d, item)) ->
                        Dispatch([d EXCEPT !.inbox[n].linked = TRUE])
                 [] OTHER -> {IF /\ d.inbox[n].linked /\ d.inbox[n].run # NoRun
                                 /\ LinkOf(d, d.inbox[n].run) = {}
                              THEN AttachRun(d, d.inbox[n].run) ELSE d}
      [] OTHER -> IF MayLinkInbox(d, item) /\ Len(d.inbox) < MaxInbox
                  THEN Dispatch([d EXCEPT !.inbox = Append(@, item)])
                  ELSE {d}

\* startWorkspaceGoalRoadmapItem's own conditions.
MayStart(d, g, i) ==
    /\ Status(d, g) = "active" /\ d.goals[g].def # 0 /\ d.goals[g].road # 0
    /\ i \in d.approved[g][d.goals[g].road]

\* A dropped guard: a failed item is admitted again without anyone asking.
UntriedOrFailed(d, g, k, i) == TRUE

\* The item automatic progression admits next: the first unfinished approved item after
\* the completed one, and only if it was never touched.
Untried(d, g, k, i) ==
    /\ ItemStatus(d, g, k, i) = "pending"
    /\ d.progress[g][k][i].run = NoRun
    /\ ~\E n \in Queued(d) : /\ d.inbox[n].linked /\ d.inbox[n].goal = g
                             /\ d.inbox[n].road = k /\ d.inbox[n].item = i

NextItems(d, link) ==
    LET g == link.goal
        k == link.road
        later == {i \in d.approved[g][k] : i > link.item /\ ItemStatus(d, g, k, i) # "completed"}
        next == CHOOSE i \in later : \A j \in later : i <= j
    IN IF later # {} /\ Untried(d, g, k, next) THEN {next} ELSE {}

\* recordWorkspaceGoalRunOutcome: what the Goal's automatic progression admits after the
\* outcome of TaskRun r, as Inbox items.
Admissions(d, r) ==
    {NewItem(d, d.links[p[1]].goal, p[2], TRUE) :
        p \in {q \in LinkOf(d, r) \X ItemIds :
            LET link == d.links[q[1]]
            IN /\ link.item # 0
               /\ Status(d, link.goal) = "active" /\ d.goals[link.goal].road = link.road
               /\ d.progress[link.goal][link.road][link.item].run = r
               /\ d.runs[r].status = "completed"
               /\ q[2] \in NextItems(d, link) /\ MayStart(d, link.goal, q[2])}}

RecordAndAdvance(d, r, autoStart) ==
    LET recorded == RecordRunOutcome(d, r)
    IN IF ~autoStart \/ Admissions(recorded, r) = {} THEN {recorded}
       ELSE UNION {Enqueue(recorded, item) : item \in Admissions(recorded, r)}

----------------------------------------------------------------------------
(* The user's decisions and revisions.                                     *)

Up == mem.phase = "up"
AtWork == mem.phase \in {"up", "closing"}
Store(d) ==
    /\ db' = d
    /\ heard' = [g \in Goals |-> heard[g] \cup {e \in d.evidence[g] : \A o \in heard[g] : ~SameSource(e, o)}]
Commit(d) == Store(d) /\ mem' = mem
Spend(kind) == budget[kind] > 0 /\ budget' = [budget EXCEPT ![kind] = @ - 1]
Free == budget' = budget

CreateGoal(g, def) ==
    /\ Spend("goals")
    /\ Up /\ db.goals[g].status = "absent"
    /\ Commit([db EXCEPT !.goals[g].status = "draft", !.defs[g] = <<def>>])

Decidable(g) == Up /\ Status(db, g) \notin Terminal \cup {"absent"} /\ ~HasPendingInboxWork(db, g)
Revisable(g) == Decidable(g) /\ CurrentRun(db, g) = NoRun

\* addRevision for a definition: the Goal falls back to a draft without a Roadmap.
ReviseDefinition(g, def) ==
    /\ Spend("decisions")
    /\ Revisable(g) /\ Len(db.defs[g]) < MaxDefs
    /\ Commit([db EXCEPT !.defs[g] = Append(@, def),
                         !.goals[g] = [@ EXCEPT !.status = "draft", !.def = 0, !.road = 0]])

\* validateRoadmap against the current definition, then addRevision.
RoadmapFits(d, g, roadmap) ==
    \A i \in DOMAIN roadmap : roadmap[i] # {} /\ roadmap[i] \subseteq d.defs[g][Definition(d, g)]

AddRoadmap(d, g, roadmap) ==
    [d EXCEPT !.roads[g] = Append(@, roadmap),
              !.approved[g] = Append(@, {}),
              !.progress[g] = Append(@, [i \in DOMAIN roadmap |-> Untouched]),
              !.goals[g].status = IF Status(d, g) = "ready_to_close" THEN "active" ELSE Status(d, g),
              !.goals[g].road = 0]

ReviseRoadmap(g, roadmap) ==
    /\ IF db.roads[g] = <<>> THEN Free ELSE Spend("decisions")
    /\ Revisable(g) /\ db.goals[g].def # 0 /\ RoadmapFits(db, g, roadmap)
    /\ Len(db.roads[g]) < MaxRoads
    /\ Commit(AddRoadmap(db, g, roadmap))

ApproveGoal(g) ==
    /\ Free
    /\ Revisable(g) /\ Status(db, g) = "draft" /\ ~OtherGuidingGoal(db, g)
    /\ Commit([db EXCEPT !.goals[g] = [@ EXCEPT !.status = "active", !.def = Definition(db, g), !.road = 0]])

\* A Roadmap revision is approved once, with the items the user selected.
ApproveRoadmap(g, items) ==
    LET k == Roadmap(db, g)
        status == IF Status(db, g) = "paused" THEN "paused" ELSE "active"
    IN /\ Free /\ Revisable(g) /\ Status(db, g) # "draft"
       /\ k # 0 /\ db.goals[g].def # 0
       /\ db.approved[g][k] = {}
       /\ items # {} /\ items \subseteq DOMAIN db.roads[g][k]
       /\ RoadmapFits(db, g, db.roads[g][k])
       /\ Commit(RefreshReadyStatus([db EXCEPT !.approved[g][k] = items,
                                               !.goals[g].status = status,
                                               !.goals[g].road = k], g))

RequestChange(g) ==
    /\ Spend("decisions")
    /\ Revisable(g)
    /\ \/ /\ db.goals[g].def # 0
          /\ Commit([db EXCEPT !.goals[g] = [@ EXCEPT !.status = "draft", !.def = 0, !.road = 0]])
       \/ /\ db.goals[g].road # 0
          /\ Commit([db EXCEPT !.goals[g] =
                [@ EXCEPT !.status = IF db.goals[g].status = "paused" THEN "paused" ELSE "active",
                          !.road = 0]])

PauseGoal(g) ==
    /\ Spend("decisions")
    /\ Revisable(g) /\ Status(db, g) \in Guiding
    /\ Commit([db EXCEPT !.goals[g].status = "paused"])

\* Resuming is the one decision queued Roadmap work does not hold up.
ResumeGoal(g) ==
    /\ Free
    /\ Up /\ Status(db, g) = "paused" /\ ~OtherGuidingGoal(db, g)
    /\ Commit(RefreshReadyStatus([db EXCEPT !.goals[g].status = "active"], g))

CancelGoal(g) ==
    /\ Spend("decisions")
    /\ Revisable(g)
    /\ Commit([db EXCEPT !.goals[g].status = "cancelled"])

CloseGoal(g) ==
    /\ Free
    /\ Decidable(g) /\ Status(db, g) = "ready_to_close" /\ Verified(db, g)
    /\ Commit([db EXCEPT !.goals[g].status = "completed"])

----------------------------------------------------------------------------
(* Roadmap generation: one bounded call to the model, awaited.             *)

\* claimWorkspaceGoalOperation and generateInitialRoadmap up to the await.  One request id
\* per Goal: repeating it replays the receipt.
RequestGeneration(g) ==
    /\ Up /\ db.goals[g].status # "absent" /\ db.receipt[g] = "none"
    /\ IF Status(db, g) = "active" /\ db.goals[g].def # 0 /\ CurrentRun(db, g) = NoRun /\ Roadmap(db, g) = 0
       THEN /\ Store([db EXCEPT !.receipt[g] = "started"])
            /\ mem' = [mem EXCEPT !.generating[g] = db.goals[g].def]
       ELSE /\ Store([db EXCEPT !.receipt[g] = "failed"])
            /\ mem' = mem
    /\ Spend("decisions")

\* The Goal did not change while the model was asked.
DraftIsCurrent(d, g, def) ==
    /\ Status(d, g) = "active" /\ CurrentRun(d, g) = NoRun
    /\ Roadmap(d, g) = 0 /\ d.goals[g].def = def

\* After the await: the draft is validated against the definition it was asked for, the Goal
\* is read again, and only then is the draft added.
FinishGeneration(g, roadmap) ==
    LET def == mem.generating[g]
        kept == /\ Len(roadmap) >= 2
                /\ \A i \in DOMAIN roadmap : roadmap[i] # {} /\ roadmap[i] \subseteq db.defs[g][def]
                /\ db.defs[g][def] \subseteq UNION Range(roadmap)
                /\ DraftIsCurrent(db, g, def) /\ ~HasPendingInboxWork(db, g)
    IN /\ AtWork /\ def # 0
       /\ mem' = [mem EXCEPT !.generating[g] = 0]
       /\ Store(IF kept THEN [AddRoadmap(db, g, roadmap) EXCEPT !.receipt[g] = "succeeded"]
                ELSE [db EXCEPT !.receipt[g] = "failed"])
       /\ Free

----------------------------------------------------------------------------
(* Starting and running TaskRuns.                                          *)

StartItem(g, i) ==
    /\ Free
    /\ Up /\ MayStart(db, g, i) /\ Len(db.inbox) < MaxInbox
    /\ \E d \in Enqueue(db, NewItem(db, g, i, FALSE)) : Commit(d)

\* The user starts a TaskRun of his own in the same Workspace.
StartPlain ==
    /\ Spend("plain")
    /\ Up /\ Len(db.inbox) < MaxInbox
    /\ \E d \in Dispatch([db EXCEPT !.inbox = Append(@,
            [goal |-> 0, def |-> 0, road |-> 0, item |-> 0,
             auto |-> FALSE, linked |-> FALSE, status |-> "queued", run |-> NoRun])]) : Commit(d)

\* The user starts a queued item at once: only a running TaskRun is in the way.
ClaimNow(n) ==
    /\ Free
    /\ Up /\ n \in Queued(db) /\ Len(db.runs) < MaxRuns
    /\ \A r \in DOMAIN db.runs : db.runs[r].status # "running"
    /\ Commit(ClaimItem(db, n))

\* The Attempt settles, with the Supervisor's verdict if it got as far as a review;
\* finalizePostAttempt comes later, after the runtime was disposed of.
Settle(r, status, verdict) ==
    /\ AtWork /\ r \in DOMAIN db.runs /\ db.runs[r].status = "running"
    /\ Store([db EXCEPT !.runs[r].status = status, !.runs[r].verdict = verdict])
    /\ mem' = [mem EXCEPT !.finalizing = @ \cup {r}]
    /\ IF status = "completed" /\ verdict = "covered" THEN Free ELSE Spend("troubles")

\* attemptFinalized: the Goal's projection, then the Inbox, unless the Core is closing.
FinalizeAttempt(r) ==
    /\ AtWork /\ r \in mem.finalizing
    /\ \E d \in RecordAndAdvance(db, r, Up) : \E e \in (IF Up THEN Dispatch(d) ELSE {d}) : Store(e)
    /\ mem' = [mem EXCEPT !.finalizing = @ \ {r}]
    /\ Free

\* failClaimedSessionLaunch: recorded at once, the Inbox is dispatched on a later turn.
FailLaunch(r, retryable) ==
    /\ Up /\ r \in DOMAIN db.runs /\ db.runs[r].status = "running" /\ db.runs[r].verdict = "none"
    /\ Store(RecordRunOutcome([db EXCEPT !.runs[r].status = "failed", !.runs[r].retryable = retryable], r))
    /\ mem' = [mem EXCEPT !.kick = TRUE]
    /\ Spend("troubles")

DispatchLater ==
    /\ mem.kick
    /\ mem' = [mem EXCEPT !.kick = FALSE]
    /\ \E d \in (IF Up THEN Dispatch(db) ELSE {db}) : Store(d)
    /\ Free

Restarted(d, r) ==
    [d EXCEPT !.runs[r] = [@ EXCEPT !.status = "running", !.attempt = d.runs[r].attempt + 1,
                                    !.verdict = "none", !.retryable = FALSE]]
MayRestart(r) ==
    /\ Up /\ r \in DOMAIN db.runs /\ r \notin mem.finalizing
    /\ \A s \in DOMAIN db.runs : db.runs[s].status # "running"

\* The user resumes a stopped TaskRun or answers its question; the Goal is not told.
ResumeStopped(r) ==
    /\ Spend("restarts")
    /\ MayRestart(r) /\ db.runs[r].status \in Stopped \cup {"waiting_input"}
    /\ Commit(Restarted(db, r))

\* continuationStarted does tell the Goal.
ContinueRun(r) ==
    /\ Spend("restarts")
    /\ MayRestart(r) /\ db.runs[r].status \in Stopped
    /\ Commit(RecordRunOutcome(Restarted(db, r), r))

RetryInboxLaunch(r) ==
    /\ Spend("restarts")
    /\ MayRestart(r) /\ db.runs[r].status = "failed" /\ db.runs[r].retryable
    /\ Commit(Restarted(db, r))

CancelRun(r) ==
    /\ Free
    /\ Up /\ r \in DOMAIN db.runs /\ db.runs[r].status \in Stopped \cup {"waiting_input"}
    /\ Commit([db EXCEPT !.runs[r].status = "cancelled"])

\* taskFinalized: the user accepts a stopped TaskRun as completed.
AcceptCompletion(r) ==
    /\ Free
    /\ Up /\ r \in DOMAIN db.runs /\ db.runs[r].status = "blocked" /\ r \notin mem.finalizing
    /\ \E d \in RecordAndAdvance([db EXCEPT !.runs[r].status = "completed"], r, TRUE) :
         \E e \in Dispatch(d) : Commit(e)

\* require_external_approval: blocked and recorded in one transaction.
RequireApproval(r) ==
    /\ Spend("troubles")
    /\ Up /\ r \in DOMAIN db.runs /\ db.runs[r].status = "running"
    /\ Commit(RecordRunOutcome([db EXCEPT !.runs[r].status = "blocked"], r))

----------------------------------------------------------------------------
(* Stopping, crashing and starting again.                                  *)

BeginShutdown == Up /\ Spend("shutdowns") /\ mem' = [mem EXCEPT !.phase = "closing"] /\ Store(db)

\* recovery: what recoverSessionInbox has left to do at startup; tx is the database as the
\* transaction of reconcileRunState sees it.
Recovered == [stage |-> "none", missing |-> {}, todo |-> <<>>, repaired |-> <<>>, tx |-> <<>>]
Fresh == [phase |-> "down", finalizing |-> {}, generating |-> [g \in Goals |-> 0], kick |-> FALSE,
          recovery |-> Recovered]

\* The process ends; what was awaited or not yet finalized is lost.
CrashCore ==
    /\ mem.phase # "down" /\ Spend("crashes")
    /\ mem' = Fresh /\ Store(db)

\* The process ends between the Inbox row and its link.
CrashBeforeLink(g, i) ==
    /\ Up /\ Spend("crashes") /\ MayStart(db, g, i) /\ Len(db.inbox) < MaxInbox
    /\ Store([db EXCEPT !.inbox = Append(@, [NewItem(db, g, i, FALSE) EXCEPT !.linked = FALSE])])
    /\ mem' = Fresh

\* The TaskRuns whose outcome is being recorded with automatic progression.
Advancing ==
    IF Up THEN mem.finalizing
    ELSE IF mem.recovery.stage = "advance" /\ mem.recovery.todo # <<>>
    THEN {Head(mem.recovery.todo)} ELSE {}

\* The same, on the way of automatic progression.
CrashDuringAdvance(r) ==
    LET recorded == RecordRunOutcome(db, r)
    IN /\ Spend("crashes") /\ r \in Advancing /\ Len(db.inbox) < MaxInbox
       /\ \E item \in Admissions(recorded, r) :
             Store([recorded EXCEPT !.inbox = Append(@, [item EXCEPT !.linked = FALSE])])
       /\ mem' = Fresh

\* TaskRuns that an Inbox link authorizes and that have no link of their own.
MissingRuns(d) == {r \in DOMAIN d.runs : d.inbox[d.runs[r].inbox].linked /\ LinkOf(d, r) = {}}

\* Startup: receipts whose executor is gone and interrupted TaskRuns; then
\* recoverSessionInbox begins the transaction of reconcileRunState.
StartCore ==
    LET opened == [db EXCEPT
            !.receipt = [g \in Goals |-> IF @[g] = "started" THEN "outcome_unknown" ELSE @[g]],
            !.runs = [r \in DOMAIN @ |-> IF @[r].status = "running"
                                         THEN [@[r] EXCEPT !.status = "interrupted"] ELSE @[r]]]
    IN /\ mem.phase = "down"
       /\ mem' = [mem EXCEPT !.phase = "starting",
                             !.recovery = [Recovered EXCEPT !.stage = "attach", !.tx = opened,
                                                            !.missing = MissingRuns(opened)]]
       /\ Store(opened)
       /\ Free

\* reconcileRunState attaches what is missing, oldest Inbox row first.
AttachMissing ==
    LET rec == mem.recovery
        r == CHOOSE m \in rec.missing :
                \A o \in rec.missing : rec.tx.runs[m].inbox <= rec.tx.runs[o].inbox
    IN /\ rec.stage = "attach" /\ rec.missing # {}
       /\ mem' = [mem EXCEPT !.recovery =
                    [rec EXCEPT !.missing = rec.missing \ {r}, !.tx = AttachRun(rec.tx, r),
                                !.repaired = IF LinksFor(rec.tx, r) = {} THEN rec.repaired
                                             ELSE Append(rec.repaired, r)]]
       /\ Store(db) /\ Free

\* It replays the outcome of every link, oldest first.
ListLinked ==
    LET rec == mem.recovery
    IN /\ rec.stage = "attach" /\ rec.missing = {}
       /\ mem' = [mem EXCEPT !.recovery =
                    [rec EXCEPT !.stage = "record",
                                !.todo = [n \in DOMAIN rec.tx.links |-> rec.tx.links[n].run]]]
       /\ Store(db) /\ Free

ReplayOutcome ==
    LET rec == mem.recovery
        r == Head(rec.todo)
    IN /\ rec.stage = "record" /\ rec.todo # <<>>
       /\ mem' = [mem EXCEPT !.recovery =
                    [rec EXCEPT !.todo = Tail(rec.todo), !.tx = RecordRunOutcome(rec.tx, r),
                                !.repaired = IF r \in Range(rec.repaired) THEN rec.repaired
                                             ELSE Append(rec.repaired, r)]]
       /\ Store(db) /\ Free

\* The transaction commits.
ReconcileCommits ==
    LET rec == mem.recovery
    IN /\ rec.stage = "record" /\ rec.todo = <<>>
       /\ mem' = [mem EXCEPT !.recovery = [Recovered EXCEPT !.stage = "advance",
                                                            !.todo = rec.repaired]]
       /\ Store(rec.tx) /\ Free

\* workspaceGoalRunReconciled: automatic progression of every linked TaskRun.
AdvanceReconciled ==
    LET rec == mem.recovery
    IN /\ rec.stage = "advance" /\ rec.todo # <<>>
       /\ mem' = [mem EXCEPT !.recovery = [rec EXCEPT !.todo = Tail(rec.todo)]]
       /\ \E d \in RecordAndAdvance(db, Head(rec.todo), TRUE) : Store(d)
       /\ Free

\* The Inbox is dispatched, and the process listens.
StartDone ==
    LET rec == mem.recovery
    IN /\ rec.stage = "advance" /\ rec.todo = <<>>
       /\ mem' = [mem EXCEPT !.phase = "up", !.recovery = Recovered]
       /\ \E e \in Dispatch(db) : Store(e)
       /\ Free

Recovery == AttachMissing \/ ListLinked \/ ReplayOutcome \/ ReconcileCommits
            \/ AdvanceReconciled \/ StartDone

----------------------------------------------------------------------------

GoalsInit ==
    /\ db = [goals |-> [g \in Goals |-> [status |-> "absent", def |-> 0, road |-> 0, current |-> NoRun]],
             defs |-> [g \in Goals |-> <<>>], roads |-> [g \in Goals |-> <<>>],
             approved |-> [g \in Goals |-> <<>>], progress |-> [g \in Goals |-> <<>>],
             evidence |-> [g \in Goals |-> {}], receipt |-> [g \in Goals |-> "none"],
             inbox |-> <<>>, runs |-> <<>>, links |-> <<>>]
    /\ mem = [Fresh EXCEPT !.phase = "up"]
    /\ budget \in Budgets
    /\ heard = [g \in Goals |-> {}]

Decide(g) ==
    \/ \E def \in Definitions : CreateGoal(g, def) \/ ReviseDefinition(g, def)
    \/ \E roadmap \in Roadmaps : ReviseRoadmap(g, roadmap) \/ FinishGeneration(g, roadmap)
    \/ ApproveGoal(g)
    \/ \E items \in SUBSET ItemIds : ApproveRoadmap(g, items)
    \/ RequestChange(g)
    \/ PauseGoal(g) \/ ResumeGoal(g) \/ CancelGoal(g) \/ CloseGoal(g)
    \/ RequestGeneration(g)
    \/ \E i \in ItemIds : StartItem(g, i) \/ CrashBeforeLink(g, i)

RunStep(r) ==
    \/ \E status \in {"completed", "blocked"}, verdict \in {"none", "covered", "contradicted"} :
          Settle(r, status, verdict)
    \/ \E status \in {"failed", "waiting_input"} : Settle(r, status, "none")
    \/ FinalizeAttempt(r) \/ CrashDuringAdvance(r)
    \/ \E retryable \in BOOLEAN : FailLaunch(r, retryable)
    \/ ResumeStopped(r) \/ ContinueRun(r) \/ RetryInboxLaunch(r)
    \/ CancelRun(r) \/ AcceptCompletion(r) \/ RequireApproval(r)

GoalsNext ==
    \/ \E g \in Goals : Decide(g)
    \/ \E r \in 1 .. MaxRuns : RunStep(r)
    \/ \E n \in 1 .. MaxInbox : ClaimNow(n)
    \/ StartPlain \/ DispatchLater
    \/ BeginShutdown \/ CrashCore \/ StartCore \/ Recovery

GoalsSpec == GoalsInit /\ [][GoalsNext]_goalsVars

----------------------------------------------------------------------------
(* Properties.                                                             *)

\* The progress of a Roadmap item always belongs to the TaskRun linked to it last: the late
\* outcome of an older TaskRun, retried or replayed at startup, never takes it back.
NewestRunOwnsItem ==
    \A g \in Goals : \A k \in DOMAIN db.roads[g] : \A i \in DOMAIN db.roads[g][k] :
        LET links == ItemLinks(db, g, k, i)
        IN db.progress[g][k][i].run =
             IF links = {} THEN NoRun ELSE db.links[CHOOSE n \in links : \A m \in links : m <= n].run

\* Automatic progression never retries: an item it admits has had no TaskRun yet, also when
\* startup replays the outcomes of every TaskRun.
NoAutomaticRetry ==
    [][\A n \in DOMAIN db'.inbox \ DOMAIN db.inbox :
          LET item == db'.inbox[n]
          IN item.auto => ItemLinks(db, item.goal, item.road, item.item) = {}]_goalsVars

\* A Goal is closed on what its TaskRuns said last: for every criterion, the verdict that
\* was recorded last among those whose Attempt is still the current one is "covered".
\* Recording an outcome again (a late callback, the replay at startup) must not bring an
\* older verdict forward.
LastHeard(g, c) == Decisive(db, heard[g], db.goals[g].def, c)
ClosedOnLastVerdict ==
    [][\A g \in Goals :
          db'.goals[g].status = "completed" /\ db.goals[g].status # "completed"
            => \A c \in db.defs[g][db.goals[g].def] : LastHeard(g, c) = "covered"]_goalsVars
=============================================================================
