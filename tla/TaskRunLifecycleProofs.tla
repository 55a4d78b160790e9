----------------------- MODULE TaskRunLifecycleProofs -----------------------
(***************************************************************************)
(* Proofs about TaskRunLifecycle for every set of TaskRuns and every value  *)
(* of its bounds.                                                           *)
(*                                                                          *)
(* 1. TypeOK is inductive.  Each table update of the module has a lemma     *)
(*    that gives its type; an action is then typed by the lemmas of the     *)
(*    updates it makes.                                                     *)
(* 2. Every step treats the rows of a TaskRun in one of three ways          *)
(*    (RowStep).  RunningIffActive and TerminalIsFinal follow from that.    *)
(* 3. Every step treats the Candidates, the decisions and the executor of a *)
(*    TaskRun as VerdictStep says.  With 2 it makes DeliveryAuthorized,     *)
(*    strengthened by VerdictInv, inductive.                                *)
(* 4. Every step writes at most one Candidate of a TaskRun, the one of its   *)
(*    current Attempt (CandidateStep).  With 2 it gives OldAttemptsFrozen.  *)
(* 5. Served, which strengthens NoOrphanedRun, is inductive: a step that    *)
(*    leaves a TaskRun running leaves an executor or a row that ends it.    *)
(***************************************************************************)
EXTENDS TaskRunLifecycle, TLAPS

-----------------------------------------------------------------------------
(* Types of the table updates.                                              *)

AttemptTable   == [Runs -> [Ordinals -> AttemptRecord]]
LeaseTable     == [Runs -> [Ordinals -> LeaseRecord]]
CandidateTable == [Runs -> [Ordinals -> CandidateRecord]]
DecisionTable  == [Runs -> [Ordinals -> DecisionRecord]]
ToolTable      == [Runs -> [Ordinals -> {"none", "running", "unknown"}]]

RunsOK(f) ==
    /\ f \in [Runs -> RunRecord]
    /\ \A r \in Runs : /\ f[r].attempt \in 0..MaxAttempts
                       /\ f[r].status # "absent" => f[r].attempt \in Ordinals
ProcOK(p) ==
    /\ p \in [Runs -> ProcRecord]
    /\ \A r \in Runs : /\ p[r].attempt \in 0..MaxAttempts
                       /\ p[r].stage # "none" => p[r].attempt \in Ordinals

RestOK ==
    /\ inputs \in [Runs -> {"none", "pending", "submitted"}]
    /\ pendingApproval \in SUBSET Runs
    /\ phase \in {"up", "closing", "released", "down", "interrupted",
                  "reconciled"}
    /\ generation \in Nat

\* TypeOK, one conjunct per table.
LEMMA TypeParts ==
    TypeOK <=> /\ RunsOK(runs)
               /\ attempts \in AttemptTable
               /\ leases \in LeaseTable
               /\ candidates \in CandidateTable
               /\ decisions \in DecisionTable
               /\ tools \in ToolTable
               /\ continuations \in [Runs -> ContinuationRecord]
               /\ ProcOK(proc)
               /\ RestOK
  BY DEF TypeOK, RunsOK, ProcOK, RestOK, AttemptTable, LeaseTable,
         CandidateTable, DecisionTable, ToolTable

\* TypeOK' from the types of the primed tables.
LEMMA TypePartsPrime ==
    ASSUME RunsOK(runs'), attempts' \in AttemptTable, leases' \in LeaseTable,
           candidates' \in CandidateTable, decisions' \in DecisionTable,
           tools' \in ToolTable,
           continuations' \in [Runs -> ContinuationRecord],
           ProcOK(proc'), RestOK'
    PROVE  TypeOK'
  BY DEF TypeOK, RunsOK, ProcOK, RestOK, AttemptTable, LeaseTable,
         CandidateTable, DecisionTable, ToolTable

\* Writing one entry of a table keeps the table's type.
LEMMA EntryUpdate ==
    ASSUME NEW T, NEW f \in [Runs -> [Ordinals -> T]], NEW r \in Runs,
           NEW n \in Ordinals, NEW v \in T
    PROVE  [f EXCEPT ![r][n] = v] \in [Runs -> [Ordinals -> T]]
  OBVIOUS

\* Type of Projected.
LEMMA ProjectedType ==
    ASSUME attempts \in AttemptTable, NEW r \in Runs, NEW n \in Ordinals,
           NEW st \in AttemptStatus
    PROVE  Projected(r, n, st) \in AttemptTable
  <1> DEFINE v == [status |-> st, version |-> attempts[r][n].version + 1]
  <1>1. attempts[r][n] \in AttemptRecord
    BY DEF AttemptTable
  <1>2. v \in AttemptRecord
    BY <1>1 DEF AttemptRecord
  <1>3. Projected(r, n, st) = [attempts EXCEPT ![r][n] = v]
    BY DEF Projected, AttemptTable
  <1> QED
    BY <1>2, <1>3, EntryUpdate DEF AttemptTable

\* Type of Started.
LEMMA StartedType ==
    ASSUME attempts \in AttemptTable, NEW r \in Runs, NEW n \in Ordinals,
           NEW st \in AttemptStatus
    PROVE  Started(r, n, st) \in AttemptTable
  <1>1. ASSUME NEW m \in Ordinals
        PROVE  [attempts[r][m] EXCEPT !.status = "superseded"]
                   \in AttemptRecord
    BY DEF AttemptTable, AttemptRecord, AttemptStatus
  <1>2. [status |-> st, version |-> IF st = "running" THEN 1 ELSE 2]
            \in AttemptRecord
    BY DEF AttemptRecord
  <1> QED
    BY <1>1, <1>2 DEF Started, AttemptTable

\* Type of Released.
LEMMA ReleasedType ==
    ASSUME leases \in LeaseTable, NEW r \in Runs, NEW n \in Ordinals
    PROVE  Released(r, n) \in LeaseTable
  <1> DEFINE v == [leases[r][n] EXCEPT !.status =
                      IF @ = "none" THEN @ ELSE "released"]
  <1>1. leases[r][n] \in LeaseRecord
    BY DEF LeaseTable
  <1>2. v \in LeaseRecord
    BY <1>1 DEF LeaseRecord, LeaseStatus
  <1>3. Released(r, n) = [leases EXCEPT ![r][n] = v]
    BY DEF Released, LeaseTable
  <1> QED
    BY <1>2, <1>3, EntryUpdate DEF LeaseTable

\* Type of Acquired.
LEMMA AcquiredType ==
    ASSUME NEW base \in LeaseTable, NEW r \in Runs, NEW n \in Ordinals
    PROVE  Acquired(base, r, n) \in LeaseTable
  <1>1. [status |-> "live", attemptVersion |-> 1] \in LeaseRecord
    BY DEF LeaseRecord, LeaseStatus
  <1> QED
    BY <1>1, EntryUpdate DEF Acquired, LeaseTable

\* Overwriting the status of one lease, as a failed launch does.
LEMMA LeaseStatusType ==
    ASSUME NEW base \in LeaseTable, NEW r \in Runs, NEW n \in Ordinals,
           NEW st \in LeaseStatus
    PROVE  [base EXCEPT ![r][n].status = st] \in LeaseTable
  <1> DEFINE v == [base[r][n] EXCEPT !.status = st]
  <1>1. v \in LeaseRecord
    BY DEF LeaseTable, LeaseRecord
  <1>2. [base EXCEPT ![r][n].status = st] = [base EXCEPT ![r][n] = v]
    BY DEF LeaseTable
  <1> QED
    BY <1>1, <1>2, EntryUpdate DEF LeaseTable

\* Type of Rejected.
LEMMA RejectedType ==
    ASSUME candidates \in CandidateTable, NEW r \in Runs, NEW n \in Ordinals
    PROVE  Rejected(r, n) \in CandidateTable
  <1> DEFINE v == [candidates[r][n] EXCEPT !.status =
                      IF @ = "proposed" THEN "rejected" ELSE @]
  <1>1. candidates[r][n] \in CandidateRecord
    BY DEF CandidateTable
  <1>2. v \in CandidateRecord
    BY <1>1 DEF CandidateRecord, CandidateStatus
  <1>3. Rejected(r, n) = [candidates EXCEPT ![r][n] = v]
    BY DEF Rejected, CandidateTable
  <1> QED
    BY <1>2, <1>3, EntryUpdate DEF CandidateTable

\* Overwriting the status of one Candidate.
LEMMA CandidateStatusType ==
    ASSUME candidates \in CandidateTable, NEW r \in Runs, NEW n \in Ordinals,
           NEW st \in CandidateStatus
    PROVE  [candidates EXCEPT ![r][n].status = st] \in CandidateTable
  <1> DEFINE v == [candidates[r][n] EXCEPT !.status = st]
  <1>1. v \in CandidateRecord
    BY DEF CandidateTable, CandidateRecord
  <1>2. [candidates EXCEPT ![r][n].status = st]
            = [candidates EXCEPT ![r][n] = v]
    BY DEF CandidateTable
  <1> QED
    BY <1>1, <1>2, EntryUpdate DEF CandidateTable

\* Type of Proposed.
LEMMA ProposedType ==
    ASSUME decisions \in DecisionTable, NEW r \in Runs, NEW n \in Ordinals,
           NEW action \in SettledActions, NEW bound \in BOOLEAN
    PROVE  Proposed(r, n, action, bound) \in DecisionTable
  <1>1. [status |-> "proposed", action |-> action, bound |-> bound]
            \in DecisionRecord
    BY DEF DecisionRecord, DecisionStatus
  <1> QED
    BY <1>1, EntryUpdate DEF Proposed, DecisionTable

\* Overwriting the status of a decision record.
LEMMA DecisionRecordType ==
    ASSUME NEW d \in DecisionRecord, NEW st \in DecisionStatus
    PROVE  [d EXCEPT !.status = st] \in DecisionRecord
  <1>1. d = [status |-> d.status, action |-> d.action, bound |-> d.bound]
    BY DEF DecisionRecord
  <1>2. d.action \in SettledActions \cup {"none"} /\ d.bound \in BOOLEAN
    BY DEF DecisionRecord
  <1>3. [d EXCEPT !.status = st]
            = [status |-> st, action |-> d.action, bound |-> d.bound]
    BY <1>1
  <1> QED
    BY <1>2, <1>3 DEF DecisionRecord

\* Overwriting the status of one decision.
LEMMA DecisionStatusType ==
    ASSUME NEW base \in DecisionTable, NEW r \in Runs, NEW n \in Ordinals,
           NEW st \in DecisionStatus
    PROVE  [base EXCEPT ![r][n].status = st] \in DecisionTable
  <1> DEFINE v == [base[r][n] EXCEPT !.status = st]
  <1>1. v \in DecisionRecord
    BY DecisionRecordType DEF DecisionTable
  <1>2. [base EXCEPT ![r][n].status = st] = [base EXCEPT ![r][n] = v]
    BY DEF DecisionTable
  <1> QED
    BY <1>1, <1>2, EntryUpdate DEF DecisionTable

\* Type of Superseded.
LEMMA SupersededType ==
    ASSUME NEW base \in DecisionTable, NEW r \in Runs, NEW n \in Ordinals
    PROVE  Superseded(base, r, n) \in DecisionTable
  <1> DEFINE v == [base[r][n] EXCEPT !.status =
                      IF @ = "proposed" THEN "superseded" ELSE @]
  <1>1. base[r][n] \in DecisionRecord
    BY DEF DecisionTable
  <1>2. base[r][n].status \in DecisionStatus
            /\ "superseded" \in DecisionStatus
    BY <1>1 DEF DecisionRecord, DecisionStatus
  <1>3. v \in DecisionRecord
    BY <1>1, <1>2, DecisionRecordType
  <1>4. Superseded(base, r, n) = [base EXCEPT ![r][n] = v]
    BY DEF Superseded, DecisionTable
  <1> QED
    BY <1>3, <1>4, EntryUpdate DEF DecisionTable

\* Type of RunMoved.
LEMMA RunMovedType ==
    ASSUME RunsOK(runs), NEW r \in Runs, NEW st \in RunStatus,
           runs[r].status # "absent"
    PROVE  RunsOK(RunMoved(r, st))
  BY DEF RunsOK, RunMoved, RunRecord

\* Type of RunFailed.
LEMMA RunFailedType ==
    ASSUME RunsOK(runs), NEW r \in Runs, NEW why \in Failures,
           runs[r].status # "absent"
    PROVE  RunsOK(RunFailed(r, why))
  BY DEF RunsOK, RunFailed, RunRecord, RunStatus

\* Type of RunAt.
LEMMA RunAtType ==
    ASSUME RunsOK(runs), NEW r \in Runs, NEW n \in Ordinals,
           NEW st \in RunStatus, NEW why \in Failures
    PROVE  RunsOK(RunAt(r, n, st, why))
  <1> DEFINE v == [status |-> st, attempt |-> n, failure |-> why,
                   restarted |-> runs[r].restarted]
  <1>1. n \in Nat /\ n \in 0..MaxAttempts
    BY BoundsAssumption DEF Ordinals
  <1>2. runs[r].restarted \in BOOLEAN
    BY DEF RunsOK, RunRecord
  <1>3. v \in RunRecord /\ v.attempt = n
    BY <1>1, <1>2 DEF RunRecord
  <1>4. RunAt(r, n, st, why) = [runs EXCEPT ![r] = v]
    BY DEF RunAt
  <1> HIDE DEF v
  <1> QED
    BY <1>1, <1>3, <1>4 DEF RunsOK

\* Type of Moved.
LEMMA MovedType ==
    ASSUME ProcOK(proc), NEW r \in Runs, NEW st \in Stages,
           proc[r].stage # "none"
    PROVE  ProcOK(Moved(r, st))
  BY DEF ProcOK, Moved, ProcRecord

\* Type of Returned.
LEMMA ReturnedType ==
    ASSUME ProcOK(proc), NEW r \in Runs, NEW again \in BOOLEAN,
           proc[r].stage # "none"
    PROVE  ProcOK(Returned(r, again))
  BY DEF ProcOK, Returned, ProcRecord, Stages, MicroStages

\* Type of Idle.
LEMMA IdleType ==
    ASSUME ProcOK(proc), NEW r \in Runs
    PROVE  ProcOK([proc EXCEPT ![r] = Idle])
  BY BoundsAssumption DEF ProcOK, Idle, Executor, ProcRecord, Stages

\* A new executor.
LEMMA ExecutorType ==
    ASSUME ProcOK(proc), NEW r \in Runs, NEW st \in Stages, NEW n \in Ordinals,
           NEW c \in BOOLEAN
    PROVE  ProcOK([proc EXCEPT ![r] = Executor(st, n, c)])
  BY BoundsAssumption DEF ProcOK, ProcRecord, Ordinals, Executor

\* Types of the updates of a continuation row.
LEMMA ContinuationType ==
    ASSUME NEW c \in ContinuationRecord, NEW due \in BOOLEAN,
           NEW crash \in {0, 1}
    PROVE  /\ Ended(c) \in ContinuationRecord
           /\ Requeued(c) \in ContinuationRecord
           /\ Claimed(c) \in ContinuationRecord
           /\ Queued(c, due, crash) \in ContinuationRecord
  <1>1. c.total \in Nat /\ c.crashes \in Nat /\ c.due \in BOOLEAN
            /\ c.mine \in BOOLEAN /\ c.live \in BOOLEAN
    BY DEF ContinuationRecord
  <1>2. c.total + 1 \in Nat /\ c.crashes + crash \in Nat
    BY <1>1
  <1> QED
    BY <1>1, <1>2 DEF ContinuationRecord, Ended, Requeued, Claimed, Queued

\* Type of EndedContinuation.
LEMMA EndedContinuationType ==
    ASSUME continuations \in [Runs -> ContinuationRecord], NEW r \in Runs
    PROVE  /\ EndedContinuation(r) \in [Runs -> ContinuationRecord]
           /\ CancelledQueued(r) \in [Runs -> ContinuationRecord]
  <1>1. Ended(continuations[r]) \in ContinuationRecord
    BY ContinuationType
  <1> QED
    BY <1>1 DEF EndedContinuation, CancelledQueued

\* Types after recoverInterruptedAttempt.
LEMMA RecoverType ==
    ASSUME TypeOK, NEW r \in Runs, NEW decs \in DecisionTable,
           proc[r].attempt \in Ordinals, RecoverInterruptedAttempt(r, decs)
    PROVE  /\ RunsOK(runs') /\ attempts' \in AttemptTable
           /\ candidates' \in CandidateTable
           /\ decisions' \in DecisionTable /\ leases' \in LeaseTable
  <1> DEFINE n == proc[r].attempt
  <1>1. CASE Recoverable(r)
    <2>1. runs[r].status # "absent"
      BY <1>1 DEF Recoverable, Current
    <2>2. "interrupted" \in RunStatus \cap AttemptStatus
      BY DEF RunStatus, AttemptStatus
    <2> QED
      BY <1>1, <2>1, <2>2, TypeParts, RunMovedType, ProjectedType,
         RejectedType, SupersededType, ReleasedType
      DEF RecoverInterruptedAttempt
  <1>2. CASE ~Recoverable(r)
    BY <1>2, TypeParts DEF RecoverInterruptedAttempt
  <1> QED
    BY <1>1, <1>2

\* Types after settleAttempt.
LEMMA SettleType ==
    ASSUME TypeOK, NEW r \in Runs, NEW decs \in DecisionTable,
           NEW action \in SettledActions, CanSettle(r),
           proc[r].attempt \in Ordinals, SettleAttempt(r, action, decs)
    PROVE  /\ RunsOK(runs') /\ attempts' \in AttemptTable
           /\ candidates' \in CandidateTable
           /\ decisions' \in DecisionTable /\ leases' \in LeaseTable
  <1> DEFINE st == IF action = "complete_taskrun" THEN "completed"
                   ELSE "blocked"
             cs == IF st = "completed" THEN "accepted" ELSE "rejected"
  <1>1. st \in RunStatus /\ st \in AttemptStatus /\ cs \in CandidateStatus
            /\ "executed" \in DecisionStatus
    BY DEF RunStatus, AttemptStatus, CandidateStatus, DecisionStatus
  <1>2. runs[r].status # "absent"
    BY DEF CanSettle, Current
  <1>3. /\ attempts' = Projected(r, proc[r].attempt, st)
        /\ runs' = RunMoved(r, st)
        /\ candidates' = [candidates EXCEPT ![r][proc[r].attempt].status = cs]
        /\ leases' = Released(r, proc[r].attempt)
        /\ decisions' = [decs EXCEPT ![r][proc[r].attempt].status = "executed"]
    BY DEF SettleAttempt
  <1> HIDE DEF st, cs
  <1> QED
    BY <1>1, <1>2, <1>3, TypeParts, RunMovedType, ProjectedType,
       CandidateStatusType, DecisionStatusType, ReleasedType

\* Type of the executor after a settlement.
LEMMA AfterSettlementType ==
    ASSUME ProcOK(proc), NEW r \in Runs, proc[r].stage # "none", NEW action
    PROVE  ProcOK(AfterSettlement(r, action))
  <1>1. "approving" \in Stages
    BY DEF Stages, MicroStages
  <1>2. (action \in {"start_continuation", "wait_for_runtime"}) \in BOOLEAN
    OBVIOUS
  <1> QED
    BY <1>1, <1>2, MovedType, ReturnedType DEF AfterSettlement

\* Types after a settlement that follows a failed review.
LEMMA SettleUnboundType ==
    ASSUME TypeOK, NEW r \in Runs, NEW action \in SettledActions,
           proc[r].stage # "none", SettleUnbound(r, action)
    PROVE  /\ RunsOK(runs') /\ attempts' \in AttemptTable
           /\ candidates' \in CandidateTable
           /\ decisions' \in DecisionTable /\ leases' \in LeaseTable
           /\ ProcOK(proc')
  <1> DEFINE decs == Proposed(r, proc[r].attempt, action, FALSE)
  <1>1. proc[r].attempt \in Ordinals
    BY TypeParts DEF ProcOK
  <1>2. decs \in DecisionTable
    BY <1>1, TypeParts, ProposedType
  <1>3. CASE CanSettle(r)
    <2>1. SettleAttempt(r, action, decs) /\ proc' = AfterSettlement(r, action)
      BY <1>3 DEF SettleUnbound
    <2> HIDE DEF decs
    <2> QED
      BY <1>1, <1>2, <1>3, <2>1, SettleType, AfterSettlementType, TypeParts
  <1>4. CASE ~CanSettle(r)
    <2>1. RecoverInterruptedAttempt(r, decs) /\ proc' = Returned(r, FALSE)
      BY <1>4 DEF SettleUnbound
    <2> HIDE DEF decs
    <2> QED
      BY <1>1, <1>2, <2>1, RecoverType, ReturnedType, TypeParts
  <1> QED
    BY <1>3, <1>4

\* Types after putting continuations back to the queue.
LEMMA RequeueType ==
    ASSUME TypeOK, NEW S, Requeue(S)
    PROVE  /\ RunsOK(runs') /\ attempts' \in AttemptTable
           /\ continuations' \in [Runs -> ContinuationRecord]
  <1>1. continuations' \in [Runs -> ContinuationRecord]
    BY TypeParts, ContinuationType DEF Requeue
  <1>2. \A r \in Runs : [runs[r] EXCEPT !.status = "blocked"] \in RunRecord
    BY TypeParts DEF RunsOK, RunRecord, RunStatus
  <1>3. RunsOK(runs')
    BY <1>2, TypeParts DEF Requeue, RunsOK, RunRecord
  <1>4. ASSUME NEW r \in Runs, NEW n \in Ordinals
        PROVE  [status |-> "blocked", version |-> attempts[r][n].version + 1]
                   \in AttemptRecord
    BY TypeParts DEF AttemptTable, AttemptRecord, AttemptStatus
  <1>5. attempts' \in AttemptTable
    BY <1>4, TypeParts DEF Requeue, AttemptTable
  <1> QED
    BY <1>1, <1>3, <1>5

\* Types after markInterrupted.
LEMMA MarkInterruptedType ==
    ASSUME TypeOK, MarkInterrupted
    PROVE  RunsOK(runs') /\ attempts' \in AttemptTable
  <1>1. ASSUME NEW r \in Runs
        PROVE  [runs[r] EXCEPT !.status = "interrupted", !.restarted = TRUE]
                   \in RunRecord
    BY TypeParts DEF RunsOK, RunRecord, RunStatus
  <1>2. RunsOK(runs')
    BY <1>1, TypeParts DEF MarkInterrupted, RunsOK, RunRecord
  <1>3. ASSUME NEW r \in Runs, NEW n \in Ordinals
        PROVE  [status |-> "interrupted",
                version |-> attempts[r][n].version + 1] \in AttemptRecord
    BY TypeParts DEF AttemptTable, AttemptRecord, AttemptStatus
  <1>4. attempts' \in AttemptTable
    BY <1>3, TypeParts DEF MarkInterrupted, AttemptTable
  <1> QED
    BY <1>2, <1>4

-----------------------------------------------------------------------------
(* Type correctness, one lemma per group of actions.                        *)

\* The actions of LaunchStep keep TypeOK.
LEMMA LaunchStepType ==
    ASSUME TypeOK, NEW r \in Runs, LaunchStep(r)
    PROVE  TypeOK'
  <1> USE TypeParts
  <1>1. proc[r].stage # "none" => proc[r].attempt \in Ordinals
    BY DEF ProcOK
  <1>2. 1 \in Ordinals
    BY BoundsAssumption DEF Ordinals
  <1>3. /\ {"running", "failed"} \subseteq AttemptStatus \cap RunStatus
        /\ {"none", "init", "other"} \subseteq Failures
        /\ {"initializing", "executing", "preparing", "finalizing"}
              \subseteq Stages
        /\ "released" \in LeaseStatus
    BY DEF AttemptStatus, RunStatus, Failures, Stages, WorkStages, LeaseStatus
  <1>4. \A n \in Ordinals : ProcOK([proc EXCEPT ![r] = Preparing(n)])
    BY <1>3, ExecutorType DEF Preparing
  <1>5. CASE CreateRun(r)
    <2>1. RunsOK(runs')
      BY <1>5, <1>2, <1>3, RunAtType DEF CreateRun
    <2>2. attempts' \in AttemptTable
      BY <1>5, <1>2, <1>3, StartedType DEF CreateRun
    <2>3. ProcOK(proc')
      BY <1>5, <1>2, <1>4 DEF CreateRun
    <2> QED
      BY <1>5, <2>1, <2>2, <2>3, TypePartsPrime DEF CreateRun, RestOK
  <1>6. CASE RetryLaunch(r)
    <2>1. Cur(r) + 1 \in Ordinals
      BY <1>6, BoundsAssumption DEF RetryLaunch, Cur, Ordinals, RunsOK
    <2>2. RunsOK(runs') /\ attempts' \in AttemptTable /\ ProcOK(proc')
      BY <1>6, <1>3, <1>4, <2>1, RunAtType, StartedType DEF RetryLaunch
    <2> QED
      BY <1>6, <2>2, TypePartsPrime DEF RetryLaunch, RestOK
  <1>7. CASE Launch(r)
    <2>1. runs[r].status # "absent" /\ proc[r].attempt \in Ordinals
      BY <1>7, <1>1 DEF Launch, Current
    <2>2. Acquired(leases, r, proc[r].attempt) \in LeaseTable
      BY <2>1, AcquiredType
    <2>3. leases' \in LeaseTable
      BY <1>7, <1>3, <2>1, <2>2, LeaseStatusType DEF Launch
    <2>4. RunsOK(runs') /\ attempts' \in AttemptTable
      BY <1>7, <1>3, <2>1, RunFailedType, ProjectedType DEF Launch
    <2>5. ProcOK(proc')
      BY <1>7, <1>3, MovedType, IdleType DEF Launch
    <2> QED
      BY <1>7, <2>3, <2>4, <2>5, TypePartsPrime DEF Launch, RestOK
  <1>8. CASE LaunchFails(r)
    <2>1. runs[r].status # "absent" /\ proc[r].attempt \in Ordinals
      BY <1>8, <1>1 DEF LaunchFails, Current
    <2>2. RunsOK(runs') /\ attempts' \in AttemptTable /\ ProcOK(proc')
      BY <1>8, <1>3, <2>1, RunFailedType, ProjectedType, IdleType
      DEF LaunchFails
    <2> QED
      BY <1>8, <2>2, TypePartsPrime DEF LaunchFails, RestOK
  <1>9. CASE LaunchAbandoned(r)
    <2>1. ProcOK(proc')
      BY <1>9, IdleType DEF LaunchAbandoned
    <2> QED
      BY <1>9, <2>1, TypePartsPrime DEF LaunchAbandoned, RestOK, durable
  <1>10. CASE RuntimeInitialized(r)
    <2>1. ProcOK(proc')
      BY <1>10, <1>3, MovedType DEF RuntimeInitialized
    <2> QED
      BY <1>10, <2>1, TypePartsPrime DEF RuntimeInitialized, RestOK, durable
  <1>11. CASE InitializationFails(r)
    <2>1. proc[r].attempt \in Ordinals
      BY <1>11, <1>1 DEF InitializationFails
    <2>2. ProcOK(proc')
      BY <1>11, <1>3, MovedType DEF InitializationFails
    <2>3. /\ RunsOK(runs') /\ attempts' \in AttemptTable
          /\ candidates' \in CandidateTable
          /\ decisions' \in DecisionTable /\ leases' \in LeaseTable
      <3>1. CASE RecoverInterruptedAttempt(r, decisions)
        BY <3>1, <2>1, RecoverType
      <3>2. CASE /\ FenceValid(r)
                 /\ runs' = RunFailed(r, "init")
                 /\ attempts' = Projected(r, proc[r].attempt, "failed")
                 /\ UNCHANGED <<candidates, decisions, leases>>
        <4>1. runs[r].status # "absent"
          BY <3>2 DEF FenceValid, Current
        <4> QED
          BY <3>2, <4>1, <1>3, <2>1, RunFailedType, ProjectedType
      <3>3. CASE UNCHANGED <<runs, attempts, candidates, decisions, leases>>
        BY <3>3
      <3> QED
        BY <1>11, <3>1, <3>2, <3>3 DEF InitializationFails
    <2> QED
      BY <1>11, <2>2, <2>3, TypePartsPrime DEF InitializationFails, RestOK
  <1> QED
    BY <1>5, <1>6, <1>7, <1>8, <1>9, <1>10, <1>11 DEF LaunchStep

\* recordCandidateResult.
LEMMA RecordCandidateType ==
    ASSUME TypeOK, NEW r \in Runs, proc[r].attempt \in Ordinals,
           RecordCandidate(r)
    PROVE  attempts' \in AttemptTable /\ candidates' \in CandidateTable
  <1> DEFINE n == proc[r].attempt
             v == [status |-> "proposed",
                   attemptVersion |-> attempts[r][n].version + 1]
  <1>1. "settling" \in AttemptStatus
    BY DEF AttemptStatus
  <1>2. v \in CandidateRecord
    BY TypeParts DEF AttemptTable, AttemptRecord, CandidateRecord,
                     CandidateStatus
  <1>3. candidates' = [candidates EXCEPT ![r][n] = v]
    BY DEF RecordCandidate
  <1>4. candidates' \in CandidateTable
    BY <1>2, <1>3, EntryUpdate, TypeParts DEF CandidateTable
  <1> QED
    BY <1>1, <1>4, TypeParts, ProjectedType DEF RecordCandidate

\* The actions of PromptStep keep TypeOK.
LEMMA PromptStepType ==
    ASSUME TypeOK, NEW r \in Runs, PromptStep(r)
    PROVE  TypeOK'
  <1> USE TypeParts
  <1>1. proc[r].stage # "none" => proc[r].attempt \in Ordinals
    BY DEF ProcOK
  <1>2. /\ "waiting_input" \in AttemptStatus \cap RunStatus
        /\ {"reviewing", "failReview"} \subseteq Stages
    BY DEF AttemptStatus, RunStatus, Stages, WorkStages
  <1>3. ASSUME NEW v \in {"none", "running"}, proc[r].attempt \in Ordinals
        PROVE  [tools EXCEPT ![r][proc[r].attempt] = v] \in ToolTable
    BY <1>3, EntryUpdate DEF ToolTable
  <1>4. CASE ToolStarts(r)
    <2>1. tools' \in ToolTable
      BY <1>4, <1>1, <1>3 DEF ToolStarts
    <2> QED
      BY <1>4, <2>1, TypePartsPrime DEF ToolStarts, RestOK
  <1>5. CASE ToolCompletes(r)
    <2>1. tools' \in ToolTable
      BY <1>5, <1>1, <1>3 DEF ToolCompletes
    <2> QED
      BY <1>5, <2>1, TypePartsPrime DEF ToolCompletes, RestOK
  <1>6. CASE RequestUserInput(r)
    <2>1. runs[r].status # "absent" /\ proc[r].attempt \in Ordinals
      BY <1>6, <1>1 DEF RequestUserInput, FenceValid, Current
    <2>2. /\ RunsOK(runs') /\ attempts' \in AttemptTable
          /\ tools' \in ToolTable
      BY <1>6, <1>2, <1>3, <2>1, RunMovedType, ProjectedType
      DEF RequestUserInput
    <2> QED
      BY <1>6, <2>2, TypePartsPrime DEF RequestUserInput, RestOK
  <1>7. CASE RuntimeSettles(r)
    <2>1. attempts' \in AttemptTable /\ candidates' \in CandidateTable
      BY <1>7, <1>1, RecordCandidateType DEF RuntimeSettles
    <2>2. ProcOK(proc')
      BY <1>7, <1>2, MovedType, ReturnedType DEF RuntimeSettles
    <2> QED
      BY <1>7, <2>1, <2>2, TypePartsPrime DEF RuntimeSettles, RestOK
  <1>8. CASE RuntimeFails(r)
    <2>1. attempts' \in AttemptTable /\ candidates' \in CandidateTable
      BY <1>8, <1>1, RecordCandidateType DEF RuntimeFails
    <2>2. ProcOK(proc')
      BY <1>8, <1>2, MovedType DEF RuntimeFails
    <2> QED
      BY <1>8, <2>1, <2>2, TypePartsPrime DEF RuntimeFails, RestOK
  <1>9. CASE RuntimeEndsFenced(r)
    <2>1. /\ RunsOK(runs') /\ attempts' \in AttemptTable
          /\ candidates' \in CandidateTable
          /\ decisions' \in DecisionTable /\ leases' \in LeaseTable
      BY <1>9, <1>1, RecoverType DEF RuntimeEndsFenced
    <2>2. ProcOK(proc')
      BY <1>9, ReturnedType DEF RuntimeEndsFenced
    <2> QED
      BY <1>9, <2>1, <2>2, TypePartsPrime DEF RuntimeEndsFenced, RestOK
  <1>10. CASE EndsIdle(r)
    <2>1. ProcOK(proc')
      BY <1>10, ReturnedType DEF EndsIdle
    <2> QED
      BY <1>10, <2>1, TypePartsPrime DEF EndsIdle, RestOK, durable
  <1>11. CASE EndsUnowned(r)
    <2>1. /\ RunsOK(runs') /\ attempts' \in AttemptTable
          /\ continuations' \in [Runs -> ContinuationRecord]
      BY <1>11, RequeueType DEF EndsUnowned, RecoverStale
    <2>2. ProcOK(proc')
      BY <1>11, ReturnedType DEF EndsUnowned
    <2> QED
      BY <1>11, <2>1, <2>2, TypePartsPrime DEF EndsUnowned, RestOK
  <1> QED
    BY <1>4, <1>5, <1>6, <1>7, <1>8, <1>9, <1>10, <1>11 DEF PromptStep

\* The decision of a review keeps TypeOK.
LEMMA ReviewDoneType ==
    ASSUME TypeOK, NEW r \in Runs, NEW action \in SettledActions,
           ReviewDone(r, action)
    PROVE  TypeOK'
  <1> USE TypeParts
  <1> DEFINE n == proc[r].attempt
             decs == Proposed(r, n, action, TRUE)
  <1>1. n \in Ordinals /\ proc[r].stage # "none"
    BY DEF ReviewDone, ProcOK
  <1>2. decs \in DecisionTable
    BY <1>1, ProposedType
  <1>3. /\ RunsOK(runs') /\ attempts' \in AttemptTable
        /\ candidates' \in CandidateTable
        /\ decisions' \in DecisionTable /\ leases' \in LeaseTable
        /\ ProcOK(proc')
    <2> HIDE DEF decs
    <2>1. CASE /\ decisions' = Superseded(decs, r, n)
               /\ proc' = Returned(r, FALSE)
               /\ UNCHANGED <<runs, attempts, candidates, leases>>
      BY <2>1, <1>1, <1>2, SupersededType, ReturnedType
    <2>2. CASE /\ CanSettle(r)
               /\ SettleAttempt(r, action, decs)
               /\ proc' = AfterSettlement(r, action)
      BY <2>2, <1>1, <1>2, SettleType, AfterSettlementType
    <2>3. CASE /\ RecoverInterruptedAttempt(r, decs)
               /\ proc' = Returned(r, FALSE)
      BY <2>3, <1>1, <1>2, RecoverType, ReturnedType
    <2>4. CASE /\ decisions' = decs
               /\ proc' = Returned(r, FALSE)
               /\ UNCHANGED <<runs, attempts, candidates, leases>>
      BY <2>4, <1>1, <1>2, ReturnedType
    <2> QED
      BY <2>1, <2>2, <2>3, <2>4 DEF ReviewDone, decs
  <1> QED
    BY <1>3, TypePartsPrime DEF ReviewDone, RestOK

\* startQueuedContinuation.
LEMMA ClaimAndLaunchType ==
    ASSUME TypeOK, NEW r \in Runs, NEW outcome, NEW base \in LeaseTable,
           Claimable(r), ClaimAndLaunch(r, outcome, base)
    PROVE  /\ RunsOK(runs') /\ attempts' \in AttemptTable
           /\ leases' \in LeaseTable /\ ProcOK(proc')
           /\ continuations' \in [Runs -> ContinuationRecord]
           /\ inputs' \in [Runs -> {"none", "pending", "submitted"}]
  <1> USE TypeParts
  <1> DEFINE n == Cur(r) + 1
  <1>1. n \in Ordinals
    BY BoundsAssumption DEF Claimable, Cur, Ordinals, RunsOK
  <1>2. /\ {"running", "blocked", "failed"}
               \subseteq AttemptStatus \cap RunStatus
        /\ {"none", "init"} \subseteq Failures
        /\ "executing" \in Stages /\ "released" \in LeaseStatus
    BY DEF AttemptStatus, RunStatus, Failures, Stages, WorkStages, LeaseStatus
  <1>3. Acquired(base, r, n) \in LeaseTable
    BY <1>1, AcquiredType
  <1>4. Claimed(continuations[r]) \in ContinuationRecord
    BY ContinuationType
  <1>5. inputs' \in [Runs -> {"none", "pending", "submitted"}]
    BY DEF ClaimAndLaunch, RestOK
  <1> HIDE DEF n
  <1>6. CASE outcome = "launched"
    <2>1. /\ runs' = RunAt(r, n, "running", "none")
          /\ attempts' = Started(r, n, "running")
          /\ leases' = Acquired(base, r, n)
          /\ continuations' = [continuations EXCEPT ![r] = Claimed(@)]
          /\ proc' = [proc EXCEPT ![r] = Executor("executing", n, TRUE)]
      BY <1>6 DEF ClaimAndLaunch, n
    <2> QED
      BY <1>1, <1>2, <1>3, <1>4, <1>5, <2>1, RunAtType, StartedType,
         ExecutorType
  <1>7. CASE outcome = "preparation_failed"
    <2>1. /\ runs' = RunAt(r, n, "blocked", "none")
          /\ attempts' = Started(r, n, "blocked")
          /\ leases' = base
          /\ proc' = [proc EXCEPT ![r] = Idle]
          /\ UNCHANGED continuations
      BY <1>7 DEF ClaimAndLaunch, n
    <2> QED
      BY <1>1, <1>2, <1>5, <2>1, RunAtType, StartedType, IdleType
  <1>8. CASE outcome = "factory_failed"
    <2>1. /\ runs' = RunAt(r, n, "failed", "init")
          /\ attempts' = Started(r, n, "failed")
          /\ leases' = [Acquired(base, r, n) EXCEPT ![r][n].status = "released"]
          /\ continuations' = EndedContinuation(r)
          /\ proc' = [proc EXCEPT ![r] = Idle]
      BY <1>8 DEF ClaimAndLaunch, n
    <2>2. leases' \in LeaseTable
      BY <1>1, <1>2, <1>3, <2>1, LeaseStatusType
    <2> QED
      BY <1>1, <1>2, <1>5, <2>1, <2>2, RunAtType, StartedType,
         EndedContinuationType, IdleType
  <1> QED
    BY <1>6, <1>7, <1>8 DEF ClaimAndLaunch

\* The actions of SettlementStep keep TypeOK.
LEMMA SettlementStepType ==
    ASSUME TypeOK, NEW r \in Runs, SettlementStep(r)
    PROVE  TypeOK'
  <1> USE TypeParts
  <1>1. proc[r].stage # "none" => proc[r].attempt \in Ordinals
    BY DEF ProcOK
  <1>2. /\ {"failReview", "finalizing", "queueing", "retained"}
               \subseteq Stages
        /\ FailureActions \subseteq SettledActions
        /\ "block_taskrun" \in SettledActions
    BY DEF Stages, WorkStages, MicroStages, FailureActions, SettledActions
  <1>3. CASE \E action \in SettledActions : ReviewDone(r, action)
    BY <1>3, ReviewDoneType
  <1>4. CASE ReviewFails(r)
    <2>1. proc[r].stage # "none"
      BY <1>4 DEF ReviewFails
    <2>2. /\ RunsOK(runs') /\ attempts' \in AttemptTable
          /\ candidates' \in CandidateTable
          /\ decisions' \in DecisionTable /\ leases' \in LeaseTable
          /\ ProcOK(proc')
      <3>1. CASE SettleUnbound(r, "block_taskrun")
        BY <1>2, <2>1, <3>1, SettleUnboundType
      <3>2. CASE /\ proc' = Moved(r, "failReview")
                 /\ UNCHANGED <<runs, attempts, candidates, decisions, leases>>
        BY <1>2, <2>1, <3>2, MovedType
      <3> QED
        BY <1>4, <3>1, <3>2 DEF ReviewFails
    <2> QED
      BY <1>4, <2>2, TypePartsPrime DEF ReviewFails, RestOK
  <1>5. ASSUME NEW action \in FailureActions, FailReviewDone(r, action)
        PROVE  TypeOK'
    <2>1. /\ RunsOK(runs') /\ attempts' \in AttemptTable
          /\ candidates' \in CandidateTable
          /\ decisions' \in DecisionTable /\ leases' \in LeaseTable
          /\ ProcOK(proc')
      BY <1>2, <1>5, SettleUnboundType DEF FailReviewDone
    <2> QED
      BY <1>5, <2>1, TypePartsPrime DEF FailReviewDone, RestOK
  <1>6. CASE RequestApproval(r)
    <2>1. ProcOK(proc')
      BY <1>6, ReturnedType DEF RequestApproval
    <2> QED
      BY <1>6, <2>1, TypePartsPrime DEF RequestApproval, RestOK
  <1>7. CASE AfterExecute(r)
    <2>1. ProcOK(proc')
      BY <1>7, <1>2, MovedType DEF AfterExecute
    <2>2. continuations' \in [Runs -> ContinuationRecord]
      BY <1>7, EndedContinuationType DEF AfterExecute
    <2> QED
      BY <1>7, <2>1, <2>2, TypePartsPrime DEF AfterExecute, RestOK
  <1>8. CASE QueueContinuation(r)
    <2>1. ProcOK(proc')
      BY <1>8, <1>2, MovedType DEF QueueContinuation
    <2>2. \A due \in BOOLEAN :
             Queued(continuations[r], due, 0) \in ContinuationRecord
      BY ContinuationType
    <2>3. continuations' \in [Runs -> ContinuationRecord]
      BY <1>8, <2>2 DEF QueueContinuation
    <2> QED
      BY <1>8, <2>1, <2>3, TypePartsPrime DEF QueueContinuation, RestOK
  <1>9. CASE DisposeFails(r)
    <2>1. ProcOK(proc')
      BY <1>1, <1>2, <1>9, ExecutorType DEF DisposeFails
    <2>2. leases' \in LeaseTable
      BY <1>1, <1>9, ReleasedType DEF DisposeFails
    <2> QED
      BY <1>9, <2>1, <2>2, TypePartsPrime DEF DisposeFails, RestOK
  <1>10. ASSUME NEW outcome \in Outcomes, Finalize(r, outcome)
         PROVE  TypeOK'
    <2>1. Released(r, proc[r].attempt) \in LeaseTable
      BY <1>1, <1>10, ReleasedType DEF Finalize
    <2>2. /\ RunsOK(runs') /\ attempts' \in AttemptTable
          /\ leases' \in LeaseTable /\ ProcOK(proc')
          /\ continuations' \in [Runs -> ContinuationRecord]
          /\ inputs' \in [Runs -> {"none", "pending", "submitted"}]
      <3>1. CASE Claimable(r)
        BY <1>10, <2>1, <3>1, ClaimAndLaunchType DEF Finalize
      <3>2. CASE ~Claimable(r)
        BY <1>10, <2>1, <3>2, IdleType DEF Finalize, RestOK
      <3> QED
        BY <3>1, <3>2
    <2> QED
      BY <1>10, <2>2, TypePartsPrime DEF Finalize, RestOK
  <1> QED
    BY <1>3, <1>4, <1>5, <1>6, <1>7, <1>8, <1>9, <1>10 DEF SettlementStep

\* RunContextService.resume past its guards.
LEMMA ResumeAttemptType ==
    ASSUME TypeOK, NEW r \in Runs, NEW outcome, runs[r].status # "absent",
           ResumeAttempt(r, outcome)
    PROVE  /\ RunsOK(runs') /\ attempts' \in AttemptTable
           /\ leases' \in LeaseTable /\ ProcOK(proc')
           /\ continuations' \in [Runs -> ContinuationRecord]
           /\ inputs' \in [Runs -> {"none", "pending", "submitted"}]
  <1> USE TypeParts
  <1> DEFINE n == Cur(r) + 1
  <1>1. n \in Ordinals
    BY BoundsAssumption DEF ResumeAttempt, Cur, Ordinals, RunsOK
  <1>2. /\ {"running", "failed"} \subseteq AttemptStatus \cap RunStatus
        /\ {"none", "init", "other"} \subseteq Failures
        /\ "executing" \in Stages /\ "released" \in LeaseStatus
    BY DEF AttemptStatus, RunStatus, Failures, Stages, WorkStages, LeaseStatus
  <1>3. Acquired(leases, r, n) \in LeaseTable
    BY <1>1, AcquiredType
  <1>4. /\ continuations' \in [Runs -> ContinuationRecord]
        /\ inputs' \in [Runs -> {"none", "pending", "submitted"}]
    BY EndedContinuationType DEF ResumeAttempt, RestOK
  <1> HIDE DEF n
  <1>5. CASE outcome = "launched"
    <2>1. /\ runs' = RunAt(r, n, "running", "none")
          /\ attempts' = Started(r, n, "running")
          /\ leases' = Acquired(leases, r, n)
          /\ proc' = [proc EXCEPT ![r] = Executor("executing", n, FALSE)]
      BY <1>5 DEF ResumeAttempt, n
    <2> QED
      BY <1>1, <1>2, <1>3, <1>4, <2>1, RunAtType, StartedType, ExecutorType
  <1>6. CASE outcome = "preparation_failed"
    <2>1. /\ runs' = RunAt(r, n, "failed", "other")
          /\ attempts' = Started(r, n, "failed")
          /\ UNCHANGED <<leases, proc>>
      BY <1>6 DEF ResumeAttempt, n
    <2> QED
      BY <1>1, <1>2, <1>4, <2>1, RunAtType, StartedType
  <1>7. CASE outcome = "factory_failed"
    <2>1. /\ runs' = RunAt(r, n, "failed", "init")
          /\ attempts' = Started(r, n, "failed")
          /\ leases' = [Acquired(leases, r, n) EXCEPT
                           ![r][n].status = "released"]
          /\ UNCHANGED proc
      BY <1>7 DEF ResumeAttempt, n
    <2>2. leases' \in LeaseTable
      BY <1>1, <1>2, <1>3, <2>1, LeaseStatusType
    <2> QED
      BY <1>1, <1>2, <1>4, <2>1, <2>2, RunAtType, StartedType
  <1> QED
    BY <1>5, <1>6, <1>7 DEF ResumeAttempt

\* A refused resume keeps the types.
LEMMA ResumeRefusedType ==
    ASSUME TypeOK, NEW r \in Runs, ResumeRefused(r)
    PROVE  /\ RunsOK(runs') /\ attempts' \in AttemptTable
           /\ leases' \in LeaseTable /\ ProcOK(proc')
           /\ continuations' \in [Runs -> ContinuationRecord]
           /\ inputs' \in [Runs -> {"none", "pending", "submitted"}]
  BY TypeParts, EndedContinuationType DEF ResumeRefused, RestOK

\* The actions of UserStep keep TypeOK.
LEMMA UserStepType ==
    ASSUME TypeOK, NEW r \in Runs, UserStep(r)
    PROVE  TypeOK'
  <1> USE TypeParts
  <1>1. ASSUME NEW outcome \in Outcomes, Resume(r, outcome)
        PROVE  TypeOK'
    <2>1. /\ RunsOK(runs') /\ attempts' \in AttemptTable
          /\ leases' \in LeaseTable /\ ProcOK(proc')
          /\ continuations' \in [Runs -> ContinuationRecord]
          /\ inputs' \in [Runs -> {"none", "pending", "submitted"}]
      BY <1>1, ResumeAttemptType, ResumeRefusedType DEF Resume
    <2> QED
      BY <1>1, <2>1, TypePartsPrime DEF Resume, RestOK
  <1>2. ASSUME NEW outcome \in Outcomes, Approve(r, outcome)
        PROVE  TypeOK'
    <2>1. Resumable(r) => runs[r].status # "absent"
      BY DEF Resumable
    <2>2. /\ RunsOK(runs') /\ attempts' \in AttemptTable
          /\ leases' \in LeaseTable /\ ProcOK(proc')
          /\ continuations' \in [Runs -> ContinuationRecord]
          /\ inputs' \in [Runs -> {"none", "pending", "submitted"}]
      BY <1>2, <2>1, ResumeAttemptType, ResumeRefusedType
      DEF Approve, RestOK
    <2> QED
      BY <1>2, <2>2, TypePartsPrime DEF Approve, RestOK
  <1>3. ASSUME NEW outcome \in Outcomes, SubmitInput(r, outcome)
        PROVE  TypeOK'
    <2>1. /\ RunsOK(runs') /\ attempts' \in AttemptTable
          /\ leases' \in LeaseTable /\ ProcOK(proc')
          /\ continuations' \in [Runs -> ContinuationRecord]
          /\ inputs' \in [Runs -> {"none", "pending", "submitted"}]
      <3>1. CASE /\ runs[r].status = "waiting_input"
                 /\ ResumeAttempt(r, outcome)
        BY <3>1, ResumeAttemptType
      <3>2. CASE /\ inputs' = [inputs EXCEPT ![r] = "submitted"]
                 /\ UNCHANGED <<runs, attempts, leases, continuations, proc>>
        BY <3>2 DEF RestOK
      <3> QED
        BY <1>3, <3>1, <3>2 DEF SubmitInput
    <2> QED
      BY <1>3, <2>1, TypePartsPrime DEF SubmitInput, RestOK
  <1>4. CASE RejectApproval(r)
    BY <1>4, TypePartsPrime DEF RejectApproval, RestOK
  <1>5. CASE Cancel(r)
    <2>1. /\ runs[r].status # "absent" /\ Cur(r) \in Ordinals
          /\ "cancelled" \in RunStatus \cap AttemptStatus
      BY <1>5 DEF Cancel, Cur, RunsOK, RunStatus, AttemptStatus
    <2>2. /\ RunsOK(runs') /\ attempts' \in AttemptTable
          /\ candidates' \in CandidateTable
          /\ decisions' \in DecisionTable /\ leases' \in LeaseTable
      BY <1>5, <2>1, RunMovedType, ProjectedType, RejectedType,
         SupersededType, ReleasedType DEF Cancel
    <2> QED
      BY <1>5, <2>2, TypePartsPrime DEF Cancel, RestOK
  <1>6. CASE ReAdjudicate(r)
    <2>1. /\ runs[r].status # "absent" /\ Cur(r) \in Ordinals
          /\ "completed" \in RunStatus \cap AttemptStatus
          /\ "accepted" \in CandidateStatus
      BY <1>6 DEF ReAdjudicate, CanReAdjudicate, Cur, RunsOK, RunStatus,
                  AttemptStatus, CandidateStatus
    <2>2. [status |-> "executed", action |-> "complete_taskrun",
           bound |-> TRUE] \in DecisionRecord
      BY DEF DecisionRecord, DecisionStatus, SettledActions
    <2>3. decisions' \in DecisionTable
      BY <1>6, <2>1, <2>2, EntryUpdate DEF ReAdjudicate, DecisionTable
    <2>4. /\ RunsOK(runs') /\ attempts' \in AttemptTable
          /\ candidates' \in CandidateTable
      BY <1>6, <2>1, RunMovedType, ProjectedType, CandidateStatusType
      DEF ReAdjudicate
    <2> QED
      BY <1>6, <2>3, <2>4, TypePartsPrime DEF ReAdjudicate, RestOK
  <1> QED
    BY <1>1, <1>2, <1>3, <1>4, <1>5, <1>6 DEF UserStep

\* The actions of TimerStep keep TypeOK.
LEMMA TimerStepType ==
    ASSUME TypeOK, NEW r \in Runs, TimerStep(r)
    PROVE  TypeOK'
  <1> USE TypeParts
  <1>1. ASSUME NEW outcome \in Outcomes, StartQueuedContinuation(r, outcome)
        PROVE  TypeOK'
    <2>1. /\ RunsOK(runs') /\ attempts' \in AttemptTable
          /\ leases' \in LeaseTable /\ ProcOK(proc')
          /\ continuations' \in [Runs -> ContinuationRecord]
          /\ inputs' \in [Runs -> {"none", "pending", "submitted"}]
      BY <1>1, ClaimAndLaunchType DEF StartQueuedContinuation
    <2> QED
      BY <1>1, <2>1, TypePartsPrime DEF StartQueuedContinuation, RestOK
  <1>2. CASE ContinuationDue(r)
    <2>1. continuations' \in [Runs -> ContinuationRecord]
      BY <1>2 DEF ContinuationDue, ContinuationRecord
    <2> QED
      BY <1>2, <2>1, TypePartsPrime DEF ContinuationDue, RestOK
  <1>3. CASE LeaseExpires(r)
    <2>1. "expired" \in LeaseStatus
      BY DEF LeaseStatus
    <2>2. PICK n \in Ordinals :
             leases' = [leases EXCEPT ![r][n].status = "expired"]
      BY <1>3 DEF LeaseExpires
    <2>3. leases' \in LeaseTable
      BY <2>1, <2>2, LeaseStatusType
    <2> QED
      BY <1>3, <2>3, TypePartsPrime DEF LeaseExpires, RestOK
  <1>4. CASE ContinuationLeaseExpires(r)
    <2>1. continuations' \in [Runs -> ContinuationRecord]
      BY <1>4 DEF ContinuationLeaseExpires, ContinuationRecord
    <2> QED
      BY <1>4, <2>1, TypePartsPrime DEF ContinuationLeaseExpires, RestOK
  <1>5. proc[r].stage \in WorkStages => proc[r].attempt \in Ordinals
    BY DEF ProcOK, WorkStages
  <1>6. CASE HeartbeatFails(r)
    <2>1. /\ RunsOK(runs') /\ attempts' \in AttemptTable
          /\ candidates' \in CandidateTable
          /\ decisions' \in DecisionTable /\ leases' \in LeaseTable
      BY <1>5, <1>6, RecoverType DEF HeartbeatFails
    <2> QED
      BY <1>6, <2>1, TypePartsPrime DEF HeartbeatFails, RestOK
  <1>7. CASE Timeout(r)
    <2>1. /\ runs[r].status # "absent" /\ proc[r].attempt \in Ordinals
          /\ "failed" \in AttemptStatus /\ "timeout" \in Failures
      BY <1>5, <1>7 DEF Timeout, Current, AttemptStatus, Failures
    <2>2. /\ RunsOK(runs') /\ attempts' \in AttemptTable
          /\ candidates' \in CandidateTable
          /\ decisions' \in DecisionTable /\ leases' \in LeaseTable
      <3>1. CASE RecoverInterruptedAttempt(r, decisions)
        BY <2>1, <3>1, RecoverType
      <3>2. CASE /\ runs' = RunFailed(r, "timeout")
                 /\ attempts' = Projected(r, proc[r].attempt, "failed")
                 /\ UNCHANGED <<candidates, decisions, leases>>
        BY <2>1, <3>2, RunFailedType, ProjectedType
      <3> QED
        BY <1>7, <3>1, <3>2 DEF Timeout
    <2> QED
      BY <1>7, <2>2, TypePartsPrime DEF Timeout, RestOK
  <1> QED
    BY <1>1, <1>2, <1>3, <1>4, <1>6, <1>7 DEF TimerStep

\* The actions of ProcessStep keep TypeOK.
LEMMA ProcessStepType ==
    ASSUME TypeOK, ProcessStep
    PROVE  TypeOK'
  <1> USE TypeParts
  <1>1. ProcOK([r \in Runs |-> Idle])
    BY BoundsAssumption DEF ProcOK, Idle, Executor, ProcRecord, Stages
  <1>2. CASE RecoverContinuations
    BY <1>2, RequeueType, TypePartsPrime DEF RecoverContinuations, RestOK
  <1>3. CASE Crash
    <2>1. continuations' \in [Runs -> ContinuationRecord]
      BY <1>3 DEF Crash, ContinuationRecord
    <2> QED
      BY <1>1, <1>3, <2>1, TypePartsPrime DEF Crash, RestOK
  <1>4. CASE BeginShutdown
    BY <1>4, TypePartsPrime DEF BeginShutdown, RestOK, durable
  <1>5. CASE ShutdownRelease
    BY <1>5, RequeueType, TypePartsPrime DEF ShutdownRelease, RestOK
  <1>6. CASE ShutdownInterrupt
    BY <1>1, <1>6, MarkInterruptedType, TypePartsPrime
    DEF ShutdownInterrupt, RestOK
  <1>7. CASE Startup
    <2>1. tools' \in ToolTable
      BY <1>7 DEF Startup, ToolTable
    <2> QED
      BY <1>7, <2>1, MarkInterruptedType, TypePartsPrime DEF Startup, RestOK
  <1>8. CASE StartupReconcile
    <2>1. ASSUME NEW r \in Runs, NEW n \in Ordinals
          PROVE  [decisions[r][n] EXCEPT !.status = "superseded"]
                     \in DecisionRecord
      BY DecisionRecordType DEF DecisionTable, DecisionStatus
    <2>2. decisions' \in DecisionTable
      BY <1>8, <2>1 DEF StartupReconcile, DecisionTable
    <2>3. \A r \in Runs :
             Queued(continuations[r], TRUE, 0) \in ContinuationRecord
      BY ContinuationType
    <2>4. continuations' \in [Runs -> ContinuationRecord]
      BY <1>8, <2>3 DEF StartupReconcile
    <2> QED
      BY <1>8, <2>2, <2>4, TypePartsPrime DEF StartupReconcile, RestOK
  <1>9. CASE StartupRecover
    <2>1. \A r \in Runs :
             /\ Queued(continuations[r], TRUE, 1) \in ContinuationRecord
             /\ Requeued(continuations[r]) \in ContinuationRecord
      BY ContinuationType
    <2>2. continuations' \in [Runs -> ContinuationRecord]
      BY <1>9, <2>1 DEF StartupRecover
    <2>3. \A r \in Runs : [runs[r] EXCEPT !.status = "blocked"] \in RunRecord
      BY DEF RunsOK, RunRecord, RunStatus
    <2>4. \A r \in Runs : SafeToRecover(r) => runs[r].status # "absent"
      BY DEF SafeToRecover
    <2>5. RunsOK(runs')
      BY <1>9, <2>3, <2>4 DEF StartupRecover, RunsOK, RunRecord
    <2>6. ASSUME NEW r \in Runs, NEW n \in Ordinals
          PROVE  [status |-> "blocked",
                  version |-> attempts[r][n].version + 1] \in AttemptRecord
      BY DEF AttemptTable, AttemptRecord, AttemptStatus
    <2>7. attempts' \in AttemptTable
      BY <1>9, <2>6 DEF StartupRecover, AttemptTable
    <2> QED
      BY <1>9, <2>2, <2>5, <2>7, TypePartsPrime DEF StartupRecover, RestOK
  <1> QED
    BY <1>2, <1>3, <1>4, <1>5, <1>6, <1>7, <1>8, <1>9 DEF ProcessStep

\* The initial state is typed.
LEMMA InitType == Init => TypeOK
  <1> SUFFICES ASSUME Init PROVE TypeOK
    OBVIOUS
  <1>1. RunsOK(runs)
    BY BoundsAssumption
    DEF Init, RunsOK, RunRecord, RunStatus, Failures
  <1>2. attempts \in AttemptTable /\ leases \in LeaseTable
    BY DEF Init, AttemptTable, AttemptRecord, AttemptStatus, LeaseTable,
           LeaseRecord, LeaseStatus
  <1>3. candidates \in CandidateTable /\ decisions \in DecisionTable
    BY DEF Init, CandidateTable, CandidateRecord, CandidateStatus,
           DecisionTable, DecisionRecord, DecisionStatus
  <1>4. tools \in ToolTable
    BY DEF Init, ToolTable
  <1>5. continuations \in [Runs -> ContinuationRecord]
    BY DEF Init, ContinuationRecord
  <1>6. ProcOK(proc)
    BY BoundsAssumption
    DEF Init, ProcOK, Idle, Executor, ProcRecord, Stages
  <1>7. RestOK
    BY DEF Init, RestOK
  <1> QED
    BY <1>1, <1>2, <1>3, <1>4, <1>5, <1>6, <1>7, TypeParts

\* TypeOK is inductive.
LEMMA NextType == TypeOK /\ [Next]_vars => TypeOK'
  <1> SUFFICES ASSUME TypeOK, [Next]_vars PROVE TypeOK'
    OBVIOUS
  <1>1. CASE UNCHANGED vars
    BY <1>1, TypeParts, TypePartsPrime DEF vars, RestOK
  <1>2. CASE Next
    BY <1>2, LaunchStepType, PromptStepType, SettlementStepType, UserStepType,
       TimerStepType, ProcessStepType DEF Next
  <1> QED
    BY <1>1, <1>2

\* Every table, the process phase and the executor records keep their types in
\* every behaviour; in particular a TaskRun that exists and an executor that is
\* at work always point at an Attempt ordinal in range.
THEOREM TypeCorrect == Spec => []TypeOK
  BY InitType, NextType, PTL DEF Spec

-----------------------------------------------------------------------------
(* What one step may do to the rows of a TaskRun and of its Attempts.       *)

Terminal == {"completed", "cancelled"}

\* The row of TaskRun q is not touched, is rewritten together with the row of
\* its current Attempt, or starts a new Attempt.
RowKept(q) ==
    /\ runs'[q].status = runs[q].status
    /\ runs'[q].attempt = runs[q].attempt
    /\ attempts'[q] = attempts[q]
RowRewritten(q) ==
    /\ runs'[q].attempt = runs[q].attempt
    /\ runs[q].status \in Terminal => runs'[q].status = runs[q].status
    /\ runs'[q].status = "absent" => runs[q].status = "absent"
    /\ \A m \in Ordinals :
          IF m = runs[q].attempt
          THEN attempts'[q][m].status \in ActiveStatus
                  <=> runs'[q].status = "running"
          ELSE attempts'[q][m] = attempts[q][m]
RowStarted(q) ==
    /\ runs[q].status \notin Terminal \cup {"running"}
    /\ runs'[q].status # "absent"
    /\ runs[q].status # "absent" => runs'[q].attempt > runs[q].attempt
    /\ \A m \in Ordinals :
          IF m = runs'[q].attempt
          THEN attempts'[q][m].status \in ActiveStatus
                  <=> runs'[q].status = "running"
          ELSE attempts[q][m].status # "running"
                  => attempts'[q][m] = attempts[q][m]
RowStep(q) == RowKept(q) \/ RowRewritten(q) \/ RowStarted(q)

\* A step that writes neither table is a RowStep.
LEMMA RowsUnchanged ==
    ASSUME UNCHANGED <<runs, attempts>>
    PROVE  \A q \in Runs : RowStep(q)
  BY DEF RowStep, RowKept

\* A transition of the current Attempt of r: transitionRuntime, settleAttempt,
\* recoverInterruptedAttempt, cancelAttempt and the like.
LEMMA RowTransition ==
    ASSUME TypeOK, NEW r \in Runs, runs[r].status \notin Terminal,
           NEW st \in RunStatus \ {"absent"}, NEW as \in AttemptStatus,
           st = "running" <=> as \in ActiveStatus,
           \/ runs' = RunMoved(r, st)
           \/ st = "failed" /\ \E why \in Failures : runs' = RunFailed(r, why),
           attempts' = Projected(r, runs[r].attempt, as)
    PROVE  \A q \in Runs : RowStep(q)
  <1> SUFFICES ASSUME NEW q \in Runs PROVE RowStep(q)
    OBVIOUS
  <1>1. runs \in [Runs -> RunRecord] /\ attempts \in AttemptTable
    BY TypeParts DEF RunsOK
  <1>2. CASE q = r
    <2>1. runs'[r].status = st /\ runs'[r].attempt = runs[r].attempt
      BY <1>1 DEF RunMoved, RunFailed, RunRecord
    <2>2. ASSUME NEW m \in Ordinals
          PROVE  IF m = runs[r].attempt THEN attempts'[r][m].status = as
                 ELSE attempts'[r][m] = attempts[r][m]
      BY <1>1 DEF Projected, AttemptTable
    <2> QED
      BY <1>2, <2>1, <2>2 DEF RowStep, RowRewritten
  <1>3. CASE q # r
    BY <1>1, <1>3 DEF RowStep, RowKept, RunMoved, RunFailed, Projected,
                      AttemptTable
  <1> QED
    BY <1>2, <1>3

\* A new Attempt n of r: claim, continuation, resume, launch retry.
LEMMA RowStart ==
    ASSUME TypeOK, NEW r \in Runs, NEW n \in Ordinals,
           runs[r].status \notin Terminal \cup {"running"},
           runs[r].status # "absent" => n > runs[r].attempt,
           NEW st \in RunStatus \ {"absent"}, NEW as \in AttemptStatus,
           NEW why, st = "running" <=> as \in ActiveStatus,
           runs' = RunAt(r, n, st, why), attempts' = Started(r, n, as)
    PROVE  \A q \in Runs : RowStep(q)
  <1> SUFFICES ASSUME NEW q \in Runs PROVE RowStep(q)
    OBVIOUS
  <1>1. runs \in [Runs -> RunRecord] /\ attempts \in AttemptTable
    BY TypeParts DEF RunsOK
  <1>2. CASE q = r
    <2>1. runs'[r].status = st /\ runs'[r].attempt = n
      BY <1>1 DEF RunAt
    <2>2. ASSUME NEW m \in Ordinals
          PROVE  IF m = n THEN attempts'[r][m].status = as
                 ELSE attempts[r][m].status # "running"
                         => attempts'[r][m] = attempts[r][m]
      BY <1>1 DEF Started, AttemptTable
    <2> QED
      BY <1>2, <2>1, <2>2 DEF RowStep, RowStarted
  <1>3. CASE q # r
    BY <1>1, <1>3 DEF RowStep, RowKept, RunAt, Started, AttemptTable
  <1> QED
    BY <1>2, <1>3

\* recoverInterruptedAttempt is a RowStep.
LEMMA RecoverRow ==
    ASSUME TypeOK, NEW r \in Runs, NEW decs, RecoverInterruptedAttempt(r, decs)
    PROVE  \A q \in Runs : RowStep(q)
  <1>1. CASE Recoverable(r)
    <2>1. /\ runs[r].status \notin Terminal
          /\ proc[r].attempt = runs[r].attempt
          /\ "interrupted" \in (RunStatus \ {"absent"}) \cap AttemptStatus
          /\ "interrupted" \notin ActiveStatus
      BY <1>1 DEF Recoverable, Current, Cur, Terminal, RunStatus,
                  AttemptStatus, ActiveStatus
    <2>2. /\ runs' = RunMoved(r, "interrupted")
          /\ attempts' = Projected(r, runs[r].attempt, "interrupted")
      BY <1>1, <2>1 DEF RecoverInterruptedAttempt
    <2> QED
      BY <2>1, <2>2, RowTransition
  <1>2. CASE ~Recoverable(r)
    BY <1>2, RowsUnchanged DEF RecoverInterruptedAttempt
  <1> QED
    BY <1>1, <1>2

\* settleAttempt is a RowStep.
LEMMA SettleRow ==
    ASSUME TypeOK, NEW r \in Runs, NEW action, NEW decs, CanSettle(r),
           SettleAttempt(r, action, decs)
    PROVE  \A q \in Runs : RowStep(q)
  <1> DEFINE st == IF action = "complete_taskrun" THEN "completed"
                   ELSE "blocked"
  <1>1. /\ runs[r].status \notin Terminal
        /\ proc[r].attempt = runs[r].attempt
        /\ st \in RunStatus \ {"absent"} /\ st \in AttemptStatus
        /\ st # "running" /\ st \notin ActiveStatus
    BY DEF CanSettle, Current, Cur, Terminal, RunStatus, AttemptStatus,
           ActiveStatus
  <1>2. /\ runs' = RunMoved(r, st)
        /\ attempts' = Projected(r, runs[r].attempt, st)
    BY <1>1 DEF SettleAttempt
  <1> HIDE DEF st
  <1> QED
    BY <1>1, <1>2, RowTransition

\* A settlement after a failed review is a RowStep.
LEMMA SettleUnboundRow ==
    ASSUME TypeOK, NEW r \in Runs, NEW action, SettleUnbound(r, action)
    PROVE  \A q \in Runs : RowStep(q)
  BY RecoverRow, SettleRow DEF SettleUnbound

\* Putting continuations back to the queue is a RowStep.
LEMMA RequeueRow ==
    ASSUME TypeOK, NEW S, Requeue(S)
    PROVE  \A q \in Runs : RowStep(q)
  <1> SUFFICES ASSUME NEW q \in Runs PROVE RowStep(q)
    OBVIOUS
  <1>1. runs \in [Runs -> RunRecord] /\ attempts \in AttemptTable
    BY TypeParts DEF RunsOK
  <1>2. CASE q \in S
    <2>1. /\ runs'[q].attempt = runs[q].attempt
          /\ runs'[q].status # "running"
          /\ runs[q].status \in Terminal => runs'[q].status = runs[q].status
          /\ runs'[q].status = "absent" => runs[q].status = "absent"
      BY <1>1, <1>2 DEF Requeue, Terminal, RunRecord
    <2>2. ASSUME NEW m \in Ordinals
          PROVE  IF m = runs[q].attempt
                 THEN attempts'[q][m].status = "blocked"
                 ELSE attempts'[q][m] = attempts[q][m]
      BY <1>1, <1>2 DEF Requeue, Cur, AttemptTable
    <2>3. "blocked" \notin ActiveStatus
      BY DEF ActiveStatus
    <2> QED
      BY <2>1, <2>2, <2>3 DEF RowStep, RowRewritten
  <1>3. CASE q \notin S
    <2>1. runs'[q] = runs[q]
      BY <1>3 DEF Requeue
    <2>2. attempts'[q] = attempts[q]
      BY <1>1, <1>3 DEF Requeue, AttemptTable
    <2> QED
      BY <2>1, <2>2 DEF RowStep, RowKept
  <1> QED
    BY <1>2, <1>3

\* markInterrupted is a RowStep.
LEMMA MarkInterruptedRow ==
    ASSUME TypeOK, MarkInterrupted
    PROVE  \A q \in Runs : RowStep(q)
  <1> SUFFICES ASSUME NEW q \in Runs PROVE RowStep(q)
    OBVIOUS
  <1>1. runs \in [Runs -> RunRecord] /\ attempts \in AttemptTable
    BY TypeParts DEF RunsOK
  <1>2. CASE runs[q].status = "running"
    <2>1. /\ runs'[q].attempt = runs[q].attempt
          /\ runs'[q].status = "interrupted"
      BY <1>1, <1>2 DEF MarkInterrupted, RunRecord
    <2>2. ASSUME NEW m \in Ordinals
          PROVE  IF m = runs[q].attempt
                 THEN attempts'[q][m].status = "interrupted"
                 ELSE attempts'[q][m] = attempts[q][m]
      BY <1>1, <1>2 DEF MarkInterrupted, Cur, AttemptTable
    <2>3. "interrupted" \notin ActiveStatus
      BY DEF ActiveStatus
    <2> QED
      BY <1>2, <2>1, <2>2, <2>3 DEF RowStep, RowRewritten, Terminal
  <1>3. CASE runs[q].status # "running"
    <2>1. runs'[q] = runs[q]
      BY <1>3 DEF MarkInterrupted
    <2>2. attempts'[q] = attempts[q]
      BY <1>1, <1>3 DEF MarkInterrupted, AttemptTable
    <2> QED
      BY <2>1, <2>2 DEF RowStep, RowKept
  <1> QED
    BY <1>2, <1>3

\* Claiming a continuation is a RowStep.
LEMMA ClaimRow ==
    ASSUME TypeOK, NEW r \in Runs, NEW outcome, NEW base, Claimable(r),
           ClaimAndLaunch(r, outcome, base)
    PROVE  \A q \in Runs : RowStep(q)
  <1>1. runs[r].attempt + 1 \in Ordinals
            /\ runs[r].attempt + 1 > runs[r].attempt
    BY TypeParts, BoundsAssumption DEF Claimable, Cur, Ordinals, RunsOK
  <1>2. /\ runs[r].status \notin Terminal \cup {"running"}
        /\ {"running", "blocked", "failed"}
               \subseteq (RunStatus \ {"absent"}) \cap AttemptStatus
        /\ "running" \in ActiveStatus
        /\ "blocked" \notin ActiveStatus /\ "failed" \notin ActiveStatus
    BY DEF Claimable, Terminal, RunStatus, AttemptStatus, ActiveStatus
  <1>3. CASE outcome = "launched"
    BY <1>1, <1>2, <1>3, RowStart DEF ClaimAndLaunch, Cur
  <1>4. CASE outcome = "preparation_failed"
    BY <1>1, <1>2, <1>4, RowStart DEF ClaimAndLaunch, Cur
  <1>5. CASE outcome = "factory_failed"
    BY <1>1, <1>2, <1>5, RowStart DEF ClaimAndLaunch, Cur
  <1> QED
    BY <1>3, <1>4, <1>5 DEF ClaimAndLaunch

\* A resume is a RowStep.
LEMMA ResumeRow ==
    ASSUME TypeOK, NEW r \in Runs, NEW outcome,
           runs[r].status \notin Terminal \cup {"running", "absent"},
           ResumeAttempt(r, outcome)
    PROVE  \A q \in Runs : RowStep(q)
  <1>1. runs[r].attempt + 1 \in Ordinals
            /\ runs[r].attempt + 1 > runs[r].attempt
    BY TypeParts, BoundsAssumption DEF ResumeAttempt, Cur, Ordinals, RunsOK
  <1>2. /\ {"running", "failed"}
               \subseteq (RunStatus \ {"absent"}) \cap AttemptStatus
        /\ "running" \in ActiveStatus /\ "failed" \notin ActiveStatus
    BY DEF RunStatus, AttemptStatus, ActiveStatus
  <1>3. CASE outcome = "launched"
    BY <1>1, <1>2, <1>3, RowStart DEF ResumeAttempt, Cur
  <1>4. CASE outcome = "preparation_failed"
    BY <1>1, <1>2, <1>4, RowStart DEF ResumeAttempt, Cur
  <1>5. CASE outcome = "factory_failed"
    BY <1>1, <1>2, <1>5, RowStart DEF ResumeAttempt, Cur
  <1> QED
    BY <1>3, <1>4, <1>5 DEF ResumeAttempt

\* Every action of LaunchStep is a RowStep of every TaskRun.
LEMMA LaunchStepRows ==
    ASSUME TypeOK, NEW r \in Runs, LaunchStep(r)
    PROVE  \A q \in Runs : RowStep(q)
  <1>1. /\ {"running", "failed"}
               \subseteq (RunStatus \ {"absent"}) \cap AttemptStatus
        /\ {"init", "other"} \subseteq Failures
        /\ "running" \in ActiveStatus /\ "failed" \notin ActiveStatus
        /\ 1 \in Ordinals
    BY BoundsAssumption DEF RunStatus, AttemptStatus, ActiveStatus, Failures,
                            Ordinals
  <1>2. ASSUME Current(r)
        PROVE  /\ runs[r].status \notin Terminal
               /\ proc[r].attempt = runs[r].attempt
    BY <1>2 DEF Current, Cur, Terminal
  <1>3. CASE CreateRun(r)
    <2>1. runs[r].status \notin Terminal \cup {"running"}
              /\ runs[r].status = "absent"
      BY <1>3 DEF CreateRun, Terminal
    <2> QED
      BY <1>1, <1>3, <2>1, RowStart DEF CreateRun
  <1>4. CASE RetryLaunch(r)
    <2>1. runs[r].attempt + 1 \in Ordinals
              /\ runs[r].attempt + 1 > runs[r].attempt
      BY <1>4, TypeParts, BoundsAssumption
      DEF RetryLaunch, Cur, Ordinals, RunsOK
    <2>2. runs[r].status \notin Terminal \cup {"running"}
      BY <1>4 DEF RetryLaunch, Terminal
    <2> QED
      BY <1>1, <1>4, <2>1, <2>2, RowStart DEF RetryLaunch, Cur
  <1>5. CASE Launch(r)
    <2>1. CASE UNCHANGED <<runs, attempts>>
      BY <2>1, RowsUnchanged
    <2>2. CASE /\ runs' = RunFailed(r, "init")
               /\ attempts' = Projected(r, proc[r].attempt, "failed")
      BY <1>1, <1>2, <1>5, <2>2, RowTransition DEF Launch
    <2> QED
      BY <1>5, <2>1, <2>2 DEF Launch
  <1>6. CASE LaunchFails(r)
    BY <1>1, <1>2, <1>6, RowTransition DEF LaunchFails
  <1>7. CASE LaunchAbandoned(r) \/ RuntimeInitialized(r)
    BY <1>7, RowsUnchanged DEF LaunchAbandoned, RuntimeInitialized, durable
  <1>8. CASE InitializationFails(r)
    <2>1. CASE UNCHANGED <<runs, attempts>>
      BY <2>1, RowsUnchanged
    <2>2. CASE /\ FenceValid(r)
               /\ runs' = RunFailed(r, "init")
               /\ attempts' = Projected(r, proc[r].attempt, "failed")
      BY <1>1, <1>2, <2>2, RowTransition DEF FenceValid
    <2>3. CASE RecoverInterruptedAttempt(r, decisions)
      BY <2>3, RecoverRow
    <2> QED
      BY <1>8, <2>1, <2>2, <2>3 DEF InitializationFails
  <1> QED
    BY <1>3, <1>4, <1>5, <1>6, <1>7, <1>8 DEF LaunchStep

\* Every action of PromptStep is a RowStep of every TaskRun.
LEMMA PromptStepRows ==
    ASSUME TypeOK, NEW r \in Runs, PromptStep(r)
    PROVE  \A q \in Runs : RowStep(q)
  <1>1. CASE ToolStarts(r) \/ ToolCompletes(r) \/ EndsIdle(r)
    BY <1>1, RowsUnchanged DEF ToolStarts, ToolCompletes, EndsIdle, durable
  <1>2. CASE RequestUserInput(r)
    <2>1. /\ runs[r].status \notin Terminal
          /\ proc[r].attempt = runs[r].attempt
          /\ "waiting_input" \in (RunStatus \ {"absent"}) \cap AttemptStatus
          /\ "waiting_input" \notin ActiveStatus
      BY <1>2 DEF RequestUserInput, FenceValid, Current, Cur, Terminal,
                  RunStatus, AttemptStatus, ActiveStatus
    <2> QED
      BY <1>2, <2>1, RowTransition DEF RequestUserInput
  <1>3. CASE RuntimeSettles(r) \/ RuntimeFails(r)
    <2>1. /\ runs[r].status = "running"
          /\ proc[r].attempt = runs[r].attempt
          /\ UNCHANGED runs
          /\ attempts' = Projected(r, proc[r].attempt, "settling")
      BY <1>3 DEF RuntimeSettles, RuntimeFails, RecordCandidate, FenceValid,
                  Current, Cur
    <2>2. /\ {"running"} \subseteq RunStatus \ {"absent"}
          /\ "settling" \in AttemptStatus /\ "settling" \in ActiveStatus
          /\ runs[r].status \notin Terminal
      BY <2>1 DEF RunStatus, AttemptStatus, ActiveStatus, Terminal
    <2>3. runs' = RunMoved(r, "running")
      BY <2>1, TypeParts DEF RunMoved, RunsOK, RunRecord
    <2> QED
      BY <2>1, <2>2, <2>3, RowTransition
  <1>4. CASE RuntimeEndsFenced(r)
    BY <1>4, RecoverRow DEF RuntimeEndsFenced
  <1>5. CASE EndsUnowned(r)
    BY <1>5, RequeueRow, RowsUnchanged DEF EndsUnowned, RecoverStale
  <1> QED
    BY <1>1, <1>2, <1>3, <1>4, <1>5 DEF PromptStep

\* Every action of SettlementStep is a RowStep of every TaskRun.
LEMMA SettlementStepRows ==
    ASSUME TypeOK, NEW r \in Runs, SettlementStep(r)
    PROVE  \A q \in Runs : RowStep(q)
  <1>1. ASSUME NEW action \in SettledActions, ReviewDone(r, action)
        PROVE  \A q \in Runs : RowStep(q)
    BY <1>1, RecoverRow, SettleRow, RowsUnchanged DEF ReviewDone
  <1>2. CASE ReviewFails(r)
    BY <1>2, SettleUnboundRow, RowsUnchanged DEF ReviewFails
  <1>3. ASSUME NEW action \in FailureActions, FailReviewDone(r, action)
        PROVE  \A q \in Runs : RowStep(q)
    BY <1>3, SettleUnboundRow DEF FailReviewDone
  <1>4. CASE \/ RequestApproval(r) \/ AfterExecute(r) \/ QueueContinuation(r)
             \/ DisposeFails(r)
    BY <1>4, RowsUnchanged DEF RequestApproval, AfterExecute,
                               QueueContinuation, DisposeFails
  <1>5. ASSUME NEW outcome \in Outcomes, Finalize(r, outcome)
        PROVE  \A q \in Runs : RowStep(q)
    BY <1>5, ClaimRow, RowsUnchanged DEF Finalize
  <1> QED
    BY <1>1, <1>2, <1>3, <1>4, <1>5 DEF SettlementStep

\* Every action of UserStep is a RowStep of every TaskRun.
LEMMA UserStepRows ==
    ASSUME TypeOK, NEW r \in Runs, UserStep(r)
    PROVE  \A q \in Runs : RowStep(q)
  <1>1. Resumable(r)
            => runs[r].status \notin Terminal \cup {"running", "absent"}
    BY DEF Resumable, Terminal
  <1>2. ASSUME NEW outcome \in Outcomes, Resume(r, outcome)
        PROVE  \A q \in Runs : RowStep(q)
    BY <1>1, <1>2, ResumeRow, RowsUnchanged DEF Resume, ResumeRefused
  <1>3. ASSUME NEW outcome \in Outcomes, Approve(r, outcome)
        PROVE  \A q \in Runs : RowStep(q)
    BY <1>1, <1>3, ResumeRow, RowsUnchanged DEF Approve, ResumeRefused
  <1>4. ASSUME NEW outcome \in Outcomes, SubmitInput(r, outcome)
        PROVE  \A q \in Runs : RowStep(q)
    <2>1. runs[r].status = "waiting_input"
              => runs[r].status \notin Terminal \cup {"running", "absent"}
      BY DEF Terminal
    <2> QED
      BY <1>4, <2>1, ResumeRow, RowsUnchanged DEF SubmitInput
  <1>5. CASE RejectApproval(r)
    BY <1>5, RowsUnchanged DEF RejectApproval
  <1>6. CASE Cancel(r)
    <2>1. /\ runs[r].status \notin Terminal
          /\ "cancelled" \in (RunStatus \ {"absent"}) \cap AttemptStatus
          /\ "cancelled" \notin ActiveStatus
      BY <1>6 DEF Cancel, Terminal, RunStatus, AttemptStatus, ActiveStatus
    <2> QED
      BY <1>6, <2>1, RowTransition DEF Cancel, Cur
  <1>7. CASE ReAdjudicate(r)
    <2>1. /\ runs[r].status \notin Terminal
          /\ "completed" \in (RunStatus \ {"absent"}) \cap AttemptStatus
          /\ "completed" \notin ActiveStatus
      BY <1>7 DEF ReAdjudicate, CanReAdjudicate, Terminal, RunStatus,
                  AttemptStatus, ActiveStatus
    <2> QED
      BY <1>7, <2>1, RowTransition DEF ReAdjudicate, Cur
  <1> QED
    BY <1>2, <1>3, <1>4, <1>5, <1>6, <1>7 DEF UserStep

\* Every action of TimerStep is a RowStep of every TaskRun.
LEMMA TimerStepRows ==
    ASSUME TypeOK, NEW r \in Runs, TimerStep(r)
    PROVE  \A q \in Runs : RowStep(q)
  <1>1. ASSUME NEW outcome \in Outcomes, StartQueuedContinuation(r, outcome)
        PROVE  \A q \in Runs : RowStep(q)
    BY <1>1, ClaimRow DEF StartQueuedContinuation
  <1>2. CASE \/ ContinuationDue(r) \/ LeaseExpires(r)
             \/ ContinuationLeaseExpires(r)
    BY <1>2, RowsUnchanged DEF ContinuationDue, LeaseExpires,
                               ContinuationLeaseExpires
  <1>3. CASE HeartbeatFails(r)
    BY <1>3, RecoverRow DEF HeartbeatFails
  <1>4. CASE Timeout(r)
    <2>1. /\ runs[r].status \notin Terminal
          /\ proc[r].attempt = runs[r].attempt
          /\ "failed" \in (RunStatus \ {"absent"}) \cap AttemptStatus
          /\ "failed" \notin ActiveStatus /\ "timeout" \in Failures
      BY <1>4 DEF Timeout, Current, Cur, Terminal, RunStatus, AttemptStatus,
                  ActiveStatus, Failures
    <2>2. CASE /\ runs' = RunFailed(r, "timeout")
               /\ attempts' = Projected(r, proc[r].attempt, "failed")
      BY <2>1, <2>2, RowTransition
    <2>3. CASE RecoverInterruptedAttempt(r, decisions)
      BY <2>3, RecoverRow
    <2> QED
      BY <1>4, <2>2, <2>3 DEF Timeout
  <1> QED
    BY <1>1, <1>2, <1>3, <1>4 DEF TimerStep

\* Every action of ProcessStep is a RowStep of every TaskRun.
LEMMA ProcessStepRows ==
    ASSUME TypeOK, ProcessStep
    PROVE  \A q \in Runs : RowStep(q)
  <1>1. CASE RecoverContinuations \/ ShutdownRelease
    BY <1>1, RequeueRow DEF RecoverContinuations, ShutdownRelease
  <1>2. CASE Crash \/ BeginShutdown \/ StartupReconcile
    BY <1>2, RowsUnchanged DEF Crash, BeginShutdown, StartupReconcile, durable
  <1>3. CASE ShutdownInterrupt \/ Startup
    BY <1>3, MarkInterruptedRow DEF ShutdownInterrupt, Startup
  <1>4. CASE StartupRecover
    <2> SUFFICES ASSUME NEW q \in Runs PROVE RowStep(q)
      OBVIOUS
    <2>1. runs \in [Runs -> RunRecord] /\ attempts \in AttemptTable
      BY TypeParts DEF RunsOK
    <2>2. CASE SafeToRecover(q) \/ q \in Stale
      <3>1. SafeToRecover(q) => runs[q].status = "interrupted"
        BY DEF SafeToRecover
      <3>2. /\ runs'[q].attempt = runs[q].attempt
            /\ runs'[q].status # "running"
            /\ runs[q].status \in Terminal
                  => runs'[q].status = runs[q].status
            /\ runs'[q].status = "absent" => runs[q].status = "absent"
        BY <1>4, <2>1, <2>2, <3>1 DEF StartupRecover, Terminal, RunRecord
      <3>3. ASSUME NEW m \in Ordinals
            PROVE  IF m = runs[q].attempt
                   THEN attempts'[q][m].status = "blocked"
                   ELSE attempts'[q][m] = attempts[q][m]
        BY <1>4, <2>1, <2>2 DEF StartupRecover, Cur, AttemptTable
      <3>4. "blocked" \notin ActiveStatus
        BY DEF ActiveStatus
      <3> QED
        BY <3>2, <3>3, <3>4 DEF RowStep, RowRewritten
    <2>3. CASE ~SafeToRecover(q) /\ q \notin Stale
      <3>1. runs'[q] = runs[q]
        BY <1>4, <2>3 DEF StartupRecover
      <3>2. attempts'[q] = attempts[q]
        BY <1>4, <2>1, <2>3 DEF StartupRecover, AttemptTable
      <3> QED
        BY <3>1, <3>2 DEF RowStep, RowKept
    <2> QED
      BY <2>2, <2>3
  <1> QED
    BY <1>1, <1>2, <1>3, <1>4 DEF ProcessStep

\* Every step is a RowStep of every TaskRun.
LEMMA NextRows ==
    ASSUME TypeOK, [Next]_vars
    PROVE  \A q \in Runs : RowStep(q)
  <1>1. CASE UNCHANGED vars
    BY <1>1, RowsUnchanged DEF vars
  <1>2. CASE Next
    BY <1>2, LaunchStepRows, PromptStepRows, SettlementStepRows, UserStepRows,
       TimerStepRows, ProcessStepRows DEF Next
  <1> QED
    BY <1>1, <1>2

-----------------------------------------------------------------------------
(* The two projections of a running TaskRun agree.                          *)

\* RunningIffActive is inductive under TypeOK.
LEMMA RunningIffActiveInductive ==
    ASSUME TypeOK, RunningIffActive, [Next]_vars
    PROVE  RunningIffActive'
  <1> SUFFICES ASSUME NEW q \in Runs, NEW m \in Ordinals
               PROVE  attempts'[q][m].status \in ActiveStatus
                         <=> runs'[q].status = "running"
                                /\ m = runs'[q].attempt
    BY DEF RunningIffActive, Cur
  <1>1. attempts[q][m].status \in ActiveStatus
           <=> runs[q].status = "running" /\ m = runs[q].attempt
    BY DEF RunningIffActive, Cur
  <1>2. CASE RowKept(q)
    BY <1>1, <1>2 DEF RowKept
  <1>3. CASE RowRewritten(q)
    BY <1>1, <1>3 DEF RowRewritten
  <1>4. CASE RowStarted(q)
    BY <1>1, <1>4 DEF RowStarted, ActiveStatus
  <1> QED
    BY <1>2, <1>3, <1>4, NextRows DEF RowStep

\* In every state, including every state a crash exposes, an Attempt is active
\* exactly when it is the current Attempt of a running TaskRun, whatever mix of
\* settlement, recovery, cancellation, continuation and restart led there.
THEOREM RunningIffActiveHolds == Spec => []RunningIffActive
  <1>1. Init => RunningIffActive
    BY DEF Init, RunningIffActive, ActiveStatus
  <1>2. TypeOK /\ RunningIffActive /\ [Next]_vars => RunningIffActive'
    BY RunningIffActiveInductive
  <1> QED
    BY <1>1, <1>2, TypeCorrect, PTL DEF Spec

\* A completed or cancelled TaskRun is never started again, by any resume,
\* continuation, crash recovery or late callback.
THEOREM TerminalIsFinalHolds == Spec => TerminalIsFinal
  <1>1. ASSUME TypeOK, [Next]_vars, NEW q \in Runs, runs[q].status \in Terminal
        PROVE  runs'[q].status = runs[q].status
                  /\ runs'[q].attempt = runs[q].attempt
    BY <1>1, NextRows DEF RowStep, RowKept, RowRewritten, RowStarted
  <1>2. TypeOK /\ [Next]_vars
           => [\A r \in Runs :
                 runs[r].status \in {"completed", "cancelled"} =>
                    /\ runs'[r].status = runs[r].status
                    /\ runs'[r].attempt = runs[r].attempt]_vars
    BY <1>1 DEF Terminal
  <1> QED
    BY <1>2, TypeCorrect, PTL DEF Spec, TerminalIsFinal

-----------------------------------------------------------------------------
(* Delivery.  VerdictInv strengthens DeliveryAuthorized: a decision of an   *)
(* Attempt exists only once its executor has left the work stages, so that  *)
(* recording one never overwrites the decision that delivered a response.   *)

WorkPrep == WorkStages \cup {"preparing"}

VerdictInv ==
    \A r \in Runs :
        /\ runs[r].status = "absent" => runs[r].attempt = 0
        /\ proc[r].attempt <= runs[r].attempt
        /\ \A n \in Ordinals :
              n > runs[r].attempt => decisions[r][n].status = "none"
        /\ proc[r].stage \in WorkPrep =>
              decisions[r][proc[r].attempt].status = "none"

DeliveryInv == TypeOK /\ DeliveryAuthorized /\ VerdictInv

\* No response of q is delivered or withdrawn, no executed decision changes.
VerdictKept(q) ==
    /\ runs'[q].status = "completed" => runs[q].status = "completed"
    /\ \A m \in Ordinals :
          /\ candidates'[q][m].status = "accepted"
                <=> candidates[q][m].status = "accepted"
          /\ decisions[q][m].status = "executed"
                => decisions'[q][m] = decisions[q][m]
\* The Candidate of the current Attempt of q is delivered.
VerdictDelivered(q) ==
    /\ runs[q].status # "completed" /\ runs'[q].status = "completed"
    /\ runs'[q].attempt = runs[q].attempt
    /\ candidates'[q][runs[q].attempt].status = "accepted"
    /\ decisions'[q][runs[q].attempt].status = "executed"
    /\ decisions'[q][runs[q].attempt].action = "complete_taskrun"
    /\ \A m \in Ordinals \ {runs[q].attempt} :
          candidates'[q][m] = candidates[q][m]
\* A decision appears only for the Attempt of an executor that stops working.
DecisionStep(q) ==
    \A m \in Ordinals :
        decisions[q][m].status = "none" /\ decisions'[q][m].status # "none"
            => m = proc[q].attempt /\ proc'[q].stage \notin WorkPrep
\* The executor of q stays with its Attempt, ends, or is a new one for a new
\* Attempt.
ExecutorStepOf(q) ==
    \/ /\ proc'[q].attempt = proc[q].attempt
       /\ proc'[q].stage \in WorkPrep => proc[q].stage \in WorkPrep
    \/ proc'[q].attempt = 0 /\ proc'[q].stage \notin WorkPrep
    \/ /\ proc'[q].attempt = runs'[q].attempt
       /\ runs'[q].attempt > runs[q].attempt
VerdictStep(q) ==
    /\ VerdictKept(q) \/ VerdictDelivered(q)
    /\ DecisionStep(q)
    /\ ExecutorStepOf(q)

\* A step that writes neither Candidates nor decisions.
LEMMA VerdictQuiet ==
    ASSUME UNCHANGED <<candidates, decisions>>,
           \A q \in Runs : runs'[q].status = "completed"
                              => runs[q].status = "completed"
    PROVE  \A q \in Runs : VerdictKept(q) /\ DecisionStep(q)
  BY DEF VerdictKept, DecisionStep

\* The updates of the runs table other than settlement complete nothing.
LEMMA NothingCompletes ==
    ASSUME TypeOK, NEW r \in Runs, NEW st, st # "completed", NEW why,
           \/ UNCHANGED runs
           \/ runs' = RunMoved(r, st)
           \/ runs' = RunFailed(r, why)
    PROVE  \A q \in Runs : runs'[q].status = "completed"
                              => runs[q].status = "completed"
  <1>1. runs \in [Runs -> RunRecord]
    BY TypeParts DEF RunsOK
  <1> QED
    BY <1>1 DEF RunMoved, RunFailed, RunRecord

\* Starting an Attempt completes nothing.
LEMMA StartCompletesNothing ==
    ASSUME TypeOK, NEW r \in Runs, NEW n, NEW st, st # "completed", NEW why,
           runs' = RunAt(r, n, st, why)
    PROVE  \A q \in Runs : runs'[q].status = "completed"
                              => runs[q].status = "completed"
  <1>1. runs \in [Runs -> RunRecord]
    BY TypeParts DEF RunsOK
  <1> QED
    BY <1>1 DEF RunAt

\* An executor that does nothing.
LEMMA ExecutorUnchanged ==
    ASSUME UNCHANGED proc
    PROVE  \A q \in Runs : ExecutorStepOf(q)
  BY DEF ExecutorStepOf

\* The executor of r reaches stage st; it is never put back to work.
LEMMA ExecutorMoved ==
    ASSUME TypeOK, NEW r \in Runs, NEW st,
           st \in WorkPrep => proc[r].stage \in WorkPrep,
           \/ proc' = Moved(r, st)
           \/ st = "then" /\ \E again \in BOOLEAN : proc' = Returned(r, again)
    PROVE  /\ \A q \in Runs : ExecutorStepOf(q)
           /\ proc'[r].stage = st
  <1>1. proc \in [Runs -> ProcRecord]
    BY TypeParts DEF ProcOK
  <1> QED
    BY <1>1 DEF ExecutorStepOf, Moved, Returned, ProcRecord

\* An executor that ends.
LEMMA ExecutorEnds ==
    ASSUME TypeOK, NEW r \in Runs, proc' = [proc EXCEPT ![r] = Idle]
    PROVE  \A q \in Runs : ExecutorStepOf(q)
  <1>1. proc \in [Runs -> ProcRecord]
    BY TypeParts DEF ProcOK
  <1>2. Idle.attempt = 0 /\ Idle.stage \notin WorkPrep
    BY DEF Idle, Executor, WorkPrep, WorkStages
  <1> QED
    BY <1>1, <1>2 DEF ExecutorStepOf

\* A new executor for a new Attempt.
LEMMA ExecutorNew ==
    ASSUME TypeOK, NEW r \in Runs, NEW st, NEW c, NEW n \in Ordinals,
           n > runs[r].attempt, NEW rs, NEW why,
           runs' = RunAt(r, n, rs, why),
           proc' = [proc EXCEPT ![r] = Executor(st, n, c)]
    PROVE  \A q \in Runs : ExecutorStepOf(q)
  <1>1. proc \in [Runs -> ProcRecord] /\ runs \in [Runs -> RunRecord]
    BY TypeParts DEF ProcOK, RunsOK
  <1>2. runs'[r].attempt = n /\ proc'[r].attempt = n
    BY <1>1 DEF RunAt, Executor
  <1>3. \A q \in Runs \ {r} : proc'[q] = proc[q]
    BY <1>1
  <1> QED
    BY <1>2, <1>3 DEF ExecutorStepOf

\* What Rejected leaves alone.
LEMMA RejectedEntries ==
    ASSUME candidates \in CandidateTable, NEW r \in Runs, NEW n \in Ordinals,
           NEW q \in Runs, NEW m \in Ordinals
    PROVE  /\ Rejected(r, n)[q][m].status = "accepted"
                 <=> candidates[q][m].status = "accepted"
           /\ q # r \/ m # n => Rejected(r, n)[q][m] = candidates[q][m]
  <1>1. CASE q = r /\ m = n
    <2>1. Rejected(r, n)[r][n] =
             [candidates[r][n] EXCEPT !.status =
                 IF @ = "proposed" THEN "rejected" ELSE @]
      BY DEF Rejected, CandidateTable
    <2>2. candidates[r][n] \in CandidateRecord
      BY DEF CandidateTable
    <2> QED
      BY <1>1, <2>1, <2>2 DEF CandidateRecord
  <1>2. CASE q # r \/ m # n
    <2>1. Rejected(r, n)[q][m] = candidates[q][m]
      BY <1>2 DEF Rejected, CandidateTable
    <2> QED
      BY <1>2, <2>1
  <1> QED
    BY <1>1, <1>2

\* What Superseded leaves alone.
LEMMA SupersededEntries ==
    ASSUME NEW base \in DecisionTable, NEW r \in Runs, NEW n \in Ordinals,
           NEW q \in Runs, NEW m \in Ordinals
    PROVE  /\ base[q][m].status # "proposed"
                 => Superseded(base, r, n)[q][m] = base[q][m]
           /\ q # r \/ m # n => Superseded(base, r, n)[q][m] = base[q][m]
  <1>1. CASE q = r /\ m = n /\ base[q][m].status # "proposed"
    <2>1. Superseded(base, r, n)[r][n] =
             [base[r][n] EXCEPT !.status = base[r][n].status]
      BY <1>1 DEF Superseded, DecisionTable
    <2>2. base[r][n] \in DecisionRecord
      BY DEF DecisionTable
    <2>3. base[r][n] = [base[r][n] EXCEPT !.status = base[r][n].status]
      BY <2>2 DEF DecisionRecord
    <2> QED
      BY <1>1, <2>1, <2>3
  <1>2. CASE q # r \/ m # n
    BY <1>2 DEF Superseded, DecisionTable
  <1> QED
    BY <1>1, <1>2

\* recoverInterruptedAttempt; decs differs from decisions at most in the
\* decision of the executor's Attempt.
LEMMA RecoverVerdict ==
    ASSUME DeliveryInv, NEW r \in Runs, NEW decs \in DecisionTable,
           proc[r].stage \in WorkPrep,
           \A q \in Runs : \A m \in Ordinals :
              q # r \/ m # proc[r].attempt => decs[q][m] = decisions[q][m],
           RecoverInterruptedAttempt(r, decs)
    PROVE  /\ \A q \in Runs : VerdictKept(q)
           /\ \A q \in Runs : \A m \in Ordinals :
                 decs[q][m].status = "none" => decisions'[q][m].status = "none"
  <1> DEFINE n == proc[r].attempt
  <1>1. /\ runs \in [Runs -> RunRecord] /\ candidates \in CandidateTable
        /\ decisions \in DecisionTable /\ n \in Ordinals
    BY TypeParts DEF DeliveryInv, RunsOK, ProcOK, WorkPrep, WorkStages
  <1>2. decisions[r][n].status = "none"
    BY DEF DeliveryInv, VerdictInv
  <1>3. CASE Recoverable(r)
    <2>1. \A q \in Runs : runs'[q].status = "completed"
                             => runs[q].status = "completed"
      BY <1>1, <1>3 DEF RecoverInterruptedAttempt, RunMoved, RunRecord
    <2>2. \A q \in Runs : \A m \in Ordinals :
             candidates'[q][m].status = "accepted"
                <=> candidates[q][m].status = "accepted"
      BY <1>1, <1>3, RejectedEntries DEF RecoverInterruptedAttempt
    <2>3. \A q \in Runs : \A m \in Ordinals :
             decs[q][m].status # "proposed" => decisions'[q][m] = decs[q][m]
      BY <1>1, <1>3, SupersededEntries DEF RecoverInterruptedAttempt
    <2> QED
      BY <1>2, <2>1, <2>2, <2>3 DEF VerdictKept
  <1>4. CASE ~Recoverable(r)
    BY <1>2, <1>4 DEF RecoverInterruptedAttempt, VerdictKept
  <1> QED
    BY <1>3, <1>4

\* settleAttempt delivers the Candidate or keeps every verdict.
LEMMA SettleVerdict ==
    ASSUME DeliveryInv, NEW r \in Runs, NEW decs \in DecisionTable, NEW action,
           CanSettle(r), proc[r].stage \in WorkPrep,
           decs[r][proc[r].attempt].action = action,
           \A q \in Runs : \A m \in Ordinals :
              q # r \/ m # proc[r].attempt => decs[q][m] = decisions[q][m],
           SettleAttempt(r, action, decs)
    PROVE  /\ \A q \in Runs : VerdictKept(q) \/ VerdictDelivered(q)
           /\ \A q \in Runs : \A m \in Ordinals :
                 q # r \/ m # proc[r].attempt
                    => decisions'[q][m] = decisions[q][m]
  <1> DEFINE n == proc[r].attempt
  <1>1. /\ runs \in [Runs -> RunRecord] /\ candidates \in CandidateTable
        /\ n \in Ordinals /\ n = runs[r].attempt
        /\ runs[r].status = "running" /\ candidates[r][n].status = "proposed"
    BY TypeParts DEF DeliveryInv, RunsOK, ProcOK, WorkPrep, WorkStages,
                     CanSettle, Current, Cur
  <1>2. decisions[r][n].status = "none"
    BY DEF DeliveryInv, VerdictInv
  <1>3. /\ \A q \in Runs : \A m \in Ordinals :
             q # r \/ m # n => decisions'[q][m] = decisions[q][m]
        /\ decisions'[r][n].status = "executed"
        /\ decisions'[r][n].action = action
    BY <1>1 DEF SettleAttempt, DecisionTable, DecisionRecord
  <1>4. \A q \in Runs : \A m \in Ordinals :
           q # r \/ m # n => candidates'[q][m] = candidates[q][m]
    BY <1>1 DEF SettleAttempt, CandidateTable
  <1>5. \A q \in Runs \ {r} : runs'[q] = runs[q]
    BY <1>1 DEF SettleAttempt, RunMoved
  <1>6. \A q \in Runs \ {r} : VerdictKept(q)
    BY <1>3, <1>4, <1>5 DEF VerdictKept
  <1>7. CASE action = "complete_taskrun"
    <2>1. /\ runs'[r].status = "completed"
          /\ runs'[r].attempt = runs[r].attempt
      BY <1>1, <1>7 DEF SettleAttempt, RunMoved, RunRecord
    <2>2. candidates'[r][n].status = "accepted"
      BY <1>1, <1>7 DEF SettleAttempt, CandidateTable, CandidateRecord
    <2>3. VerdictDelivered(r)
      BY <1>1, <1>3, <1>4, <1>7, <2>1, <2>2 DEF VerdictDelivered
    <2> QED
      BY <1>3, <1>6, <2>3
  <1>8. CASE action # "complete_taskrun"
    <2>1. runs'[r].status = "blocked"
      BY <1>1, <1>8 DEF SettleAttempt, RunMoved, RunRecord
    <2>2. candidates'[r][n].status = "rejected"
      BY <1>1, <1>8 DEF SettleAttempt, CandidateTable, CandidateRecord
    <2>3. VerdictKept(r)
      BY <1>1, <1>2, <1>3, <1>4, <2>1, <2>2 DEF VerdictKept
    <2> QED
      BY <1>3, <1>6, <2>3
  <1> QED
    BY <1>7, <1>8

\* What Proposed leaves alone.
LEMMA ProposedEntries ==
    ASSUME decisions \in DecisionTable, NEW r \in Runs, NEW n \in Ordinals,
           NEW action, NEW bound
    PROVE  /\ Proposed(r, n, action, bound)[r][n].action = action
           /\ \A q \in Runs : \A m \in Ordinals : q # r \/ m # n =>
                 Proposed(r, n, action, bound)[q][m] = decisions[q][m]
  BY DEF Proposed, DecisionTable

\* An action that leaves candidates and decisions alone.
LEMMA QuietStep ==
    ASSUME UNCHANGED <<candidates, decisions>>,
           \A q \in Runs : runs'[q].status = "completed"
                              => runs[q].status = "completed",
           \A q \in Runs : ExecutorStepOf(q)
    PROVE  \A q \in Runs : VerdictStep(q)
  BY VerdictQuiet DEF VerdictStep

\* recoverInterruptedAttempt of the stored decision.
LEMMA RecoverStep ==
    ASSUME DeliveryInv, NEW r \in Runs, proc[r].stage \in WorkPrep,
           RecoverInterruptedAttempt(r, decisions),
           \A q \in Runs : ExecutorStepOf(q)
    PROVE  \A q \in Runs : VerdictStep(q)
  <1>1. decisions \in DecisionTable
    BY TypeParts DEF DeliveryInv
  <1>2. /\ \A q \in Runs : VerdictKept(q)
        /\ \A q \in Runs : \A m \in Ordinals :
              decisions[q][m].status = "none"
                 => decisions'[q][m].status = "none"
    BY <1>1, RecoverVerdict
  <1> QED
    BY <1>2 DEF VerdictStep, DecisionStep

\* recoverInterruptedAttempt of a decision recorded in the same segment.
LEMMA RecoverNewStep ==
    ASSUME DeliveryInv, NEW r \in Runs, proc[r].stage \in WorkPrep,
           NEW action \in SettledActions, NEW bound \in BOOLEAN,
           RecoverInterruptedAttempt(r,
              Proposed(r, proc[r].attempt, action, bound)),
           proc' = Returned(r, FALSE)
    PROVE  \A q \in Runs : VerdictStep(q)
  <1> DEFINE n == proc[r].attempt
             decs == Proposed(r, n, action, bound)
  <1>1. n \in Ordinals /\ decisions \in DecisionTable /\ TypeOK
    BY TypeParts DEF DeliveryInv, ProcOK, WorkPrep, WorkStages
  <1>2. decs \in DecisionTable
    BY <1>1, ProposedType
  <1>3. \A q \in Runs : \A m \in Ordinals :
           q # r \/ m # n => decs[q][m] = decisions[q][m]
    BY <1>1, ProposedEntries
  <1>4. "then" \notin WorkPrep
    BY DEF WorkPrep, WorkStages
  <1>5. /\ \A q \in Runs : ExecutorStepOf(q)
        /\ proc'[r].stage = "then"
    BY <1>1, <1>4, ExecutorMoved
  <1>6. /\ \A q \in Runs : VerdictKept(q)
        /\ \A q \in Runs : \A m \in Ordinals :
              decs[q][m].status = "none" => decisions'[q][m].status = "none"
    <2> HIDE DEF decs
    <2>1. RecoverInterruptedAttempt(r, decs)
      BY DEF decs
    <2> QED
      BY <1>2, <1>3, <2>1, RecoverVerdict
  <1> HIDE DEF decs
  <1>7. proc'[r].stage \notin WorkPrep
    BY <1>4, <1>5
  <1>8. \A q \in Runs : \A m \in Ordinals :
           /\ decisions[q][m].status = "none"
           /\ decisions'[q][m].status # "none"
           => q = r /\ m = n
    BY <1>3, <1>6
  <1>9. \A q \in Runs : DecisionStep(q)
    BY <1>7, <1>8 DEF DecisionStep
  <1> QED
    BY <1>5, <1>6, <1>9 DEF VerdictStep

\* settleAttempt by a decision recorded in the same segment.
LEMMA SettleStep ==
    ASSUME DeliveryInv, NEW r \in Runs, proc[r].stage \in WorkPrep,
           NEW action \in SettledActions, NEW bound \in BOOLEAN, CanSettle(r),
           SettleAttempt(r, action,
              Proposed(r, proc[r].attempt, action, bound)),
           proc' = AfterSettlement(r, action)
    PROVE  \A q \in Runs : VerdictStep(q)
  <1> DEFINE n == proc[r].attempt
             decs == Proposed(r, n, action, bound)
  <1>1. n \in Ordinals /\ decisions \in DecisionTable /\ TypeOK
    BY TypeParts DEF DeliveryInv, ProcOK, WorkPrep, WorkStages
  <1>2. decs \in DecisionTable
    BY <1>1, ProposedType
  <1>3. /\ decs[r][n].action = action
        /\ \A q \in Runs : \A m \in Ordinals :
              q # r \/ m # n => decs[q][m] = decisions[q][m]
    BY <1>1, ProposedEntries
  <1>4. "then" \notin WorkPrep /\ "approving" \notin WorkPrep
    BY DEF WorkPrep, WorkStages
  <1>5. /\ \A q \in Runs : ExecutorStepOf(q)
        /\ proc'[r].stage \notin WorkPrep
    <2>1. CASE action = "pause_for_approval"
      BY <1>1, <1>4, <2>1, ExecutorMoved DEF AfterSettlement
    <2>2. CASE action # "pause_for_approval"
      <3> DEFINE b == action \in {"start_continuation", "wait_for_runtime"}
      <3>1. b \in BOOLEAN /\ proc' = Returned(r, b)
        BY <2>2 DEF AfterSettlement
      <3> QED
        BY <1>1, <1>4, <3>1, ExecutorMoved
    <2> QED
      BY <2>1, <2>2
  <1>6. /\ \A q \in Runs : VerdictKept(q) \/ VerdictDelivered(q)
        /\ \A q \in Runs : \A m \in Ordinals :
              q # r \/ m # n => decisions'[q][m] = decisions[q][m]
    <2> HIDE DEF decs
    <2>1. SettleAttempt(r, action, decs)
      BY DEF decs
    <2> QED
      BY <1>2, <1>3, <2>1, SettleVerdict
  <1> HIDE DEF decs
  <1> QED
    BY <1>5, <1>6 DEF VerdictStep, DecisionStep

\* A settlement after a failed review is a VerdictStep.
LEMMA SettleUnboundStep ==
    ASSUME DeliveryInv, NEW r \in Runs, proc[r].stage \in WorkPrep,
           NEW action \in SettledActions, SettleUnbound(r, action)
    PROVE  \A q \in Runs : VerdictStep(q)
  BY RecoverNewStep, SettleStep DEF SettleUnbound

\* Claiming a continuation is a VerdictStep.
LEMMA ClaimVerdict ==
    ASSUME TypeOK, NEW r \in Runs, NEW outcome, NEW base, Claimable(r),
           ClaimAndLaunch(r, outcome, base), UNCHANGED <<candidates, decisions>>
    PROVE  \A q \in Runs : VerdictStep(q)
  <1>1. runs[r].attempt + 1 \in Ordinals
            /\ runs[r].attempt + 1 > runs[r].attempt
    BY TypeParts, BoundsAssumption DEF Claimable, Cur, Ordinals, RunsOK
  <1>2. \A q \in Runs : runs'[q].status = "completed"
                           => runs[q].status = "completed"
    <2>1. CASE outcome = "launched"
      BY <2>1, StartCompletesNothing DEF ClaimAndLaunch
    <2>2. CASE outcome = "preparation_failed"
      BY <2>2, StartCompletesNothing DEF ClaimAndLaunch
    <2>3. CASE outcome = "factory_failed"
      <3>1. runs' = RunAt(r, Cur(r) + 1, "failed", "init")
        BY <2>3 DEF ClaimAndLaunch
      <3> QED
        BY <3>1, StartCompletesNothing
    <2> QED
      BY <2>1, <2>2, <2>3 DEF ClaimAndLaunch
  <1>3. \A q \in Runs : ExecutorStepOf(q)
    BY <1>1, ExecutorNew, ExecutorEnds DEF ClaimAndLaunch, Cur
  <1> QED
    BY <1>2, <1>3, QuietStep

\* A resume is a VerdictStep.
LEMMA ResumeVerdict ==
    ASSUME TypeOK, NEW r \in Runs, NEW outcome, runs[r].status # "absent",
           ResumeAttempt(r, outcome), UNCHANGED <<candidates, decisions>>
    PROVE  \A q \in Runs : VerdictStep(q)
  <1>1. runs[r].attempt + 1 \in Ordinals
            /\ runs[r].attempt + 1 > runs[r].attempt
    BY TypeParts, BoundsAssumption DEF ResumeAttempt, Cur, Ordinals, RunsOK
  <1>2. \A q \in Runs : runs'[q].status = "completed"
                           => runs[q].status = "completed"
    <2>1. CASE outcome = "launched"
      BY <2>1, StartCompletesNothing DEF ResumeAttempt
    <2>2. CASE outcome = "preparation_failed"
      BY <2>2, StartCompletesNothing DEF ResumeAttempt
    <2>3. CASE outcome = "factory_failed"
      <3>1. runs' = RunAt(r, Cur(r) + 1, "failed", "init")
        BY <2>3 DEF ResumeAttempt
      <3> QED
        BY <3>1, StartCompletesNothing
    <2> QED
      BY <2>1, <2>2, <2>3 DEF ResumeAttempt
  <1>3. \A q \in Runs : ExecutorStepOf(q)
    BY <1>1, ExecutorNew, ExecutorUnchanged DEF ResumeAttempt, Cur
  <1> QED
    BY <1>2, <1>3, QuietStep

\* Every action of LaunchStep is a VerdictStep of every TaskRun.
LEMMA LaunchStepVerdict ==
    ASSUME DeliveryInv, NEW r \in Runs, LaunchStep(r)
    PROVE  \A q \in Runs : VerdictStep(q)
  <1>1. TypeOK
    BY DEF DeliveryInv
  <1>2. "preparing" \in WorkPrep /\ "initializing" \in WorkPrep
            /\ "executing" \in WorkPrep /\ "finalizing" \notin WorkPrep
    BY DEF WorkPrep, WorkStages
  <1>3. CASE CreateRun(r)
    <2>1. 1 \in Ordinals /\ 1 > runs[r].attempt
      BY <1>3, BoundsAssumption DEF CreateRun, DeliveryInv, VerdictInv,
                                    Ordinals
    <2>2. CASE /\ runs' = RunAt(r, 1, "running", "none")
               /\ proc' = [proc EXCEPT ![r] = Preparing(1)]
      <3>1. \A q \in Runs : ExecutorStepOf(q)
        BY <1>1, <2>1, <2>2, ExecutorNew DEF Preparing
      <3> QED
        BY <1>1, <1>3, <2>2, <3>1, StartCompletesNothing, QuietStep
        DEF CreateRun
    <2>3. CASE runs' = RunAt(r, 1, "failed", "other") /\ UNCHANGED proc
      BY <1>1, <1>3, <2>3, StartCompletesNothing, ExecutorUnchanged, QuietStep
      DEF CreateRun
    <2> QED
      BY <1>3, <2>2, <2>3 DEF CreateRun
  <1>4. CASE RetryLaunch(r)
    <2>1. runs[r].attempt + 1 \in Ordinals
              /\ runs[r].attempt + 1 > runs[r].attempt
      BY <1>1, <1>4, TypeParts, BoundsAssumption
      DEF RetryLaunch, Cur, Ordinals, RunsOK
    <2>2. \A q \in Runs : runs'[q].status = "completed"
                             => runs[q].status = "completed"
      BY <1>1, <1>4, StartCompletesNothing DEF RetryLaunch
    <2>3. \A q \in Runs : ExecutorStepOf(q)
      BY <1>1, <1>4, <2>1, ExecutorNew DEF RetryLaunch, Preparing, Cur
    <2> QED
      BY <1>4, <2>2, <2>3, QuietStep DEF RetryLaunch
  <1>5. CASE Launch(r) \/ LaunchFails(r) \/ LaunchAbandoned(r)
    <2>1. \A q \in Runs : runs'[q].status = "completed"
                             => runs[q].status = "completed"
      BY <1>1, <1>5, NothingCompletes
      DEF Launch, LaunchFails, LaunchAbandoned, durable
    <2>2. \A q \in Runs : ExecutorStepOf(q)
      BY <1>1, <1>2, <1>5, ExecutorMoved, ExecutorEnds
      DEF Launch, LaunchFails, LaunchAbandoned
    <2> QED
      BY <1>5, <2>1, <2>2, QuietStep
      DEF Launch, LaunchFails, LaunchAbandoned, durable
  <1>6. CASE RuntimeInitialized(r)
    <2>1. \A q \in Runs : ExecutorStepOf(q)
      BY <1>1, <1>2, <1>6, ExecutorMoved DEF RuntimeInitialized
    <2> QED
      BY <1>6, <2>1, QuietStep DEF RuntimeInitialized, durable
  <1>7. CASE InitializationFails(r)
    <2>1. (\A q \in Runs : ExecutorStepOf(q)) /\ proc[r].stage \in WorkPrep
      BY <1>1, <1>2, <1>7, ExecutorMoved DEF InitializationFails
    <2>2. CASE UNCHANGED <<runs, attempts, candidates, decisions, leases>>
      BY <2>1, <2>2, QuietStep
    <2>3. CASE /\ runs' = RunFailed(r, "init")
               /\ UNCHANGED <<candidates, decisions>>
      BY <1>1, <2>1, <2>3, NothingCompletes, QuietStep
    <2>4. CASE RecoverInterruptedAttempt(r, decisions)
      BY <2>1, <2>4, RecoverStep
    <2> QED
      BY <1>7, <2>2, <2>3, <2>4 DEF InitializationFails
  <1> QED
    BY <1>3, <1>4, <1>5, <1>6, <1>7 DEF LaunchStep

\* Every action of PromptStep is a VerdictStep of every TaskRun.
LEMMA PromptStepVerdict ==
    ASSUME DeliveryInv, NEW r \in Runs, PromptStep(r)
    PROVE  \A q \in Runs : VerdictStep(q)
  <1>1. TypeOK
    BY DEF DeliveryInv
  <1>2. {"executing", "reviewing", "failReview"} \subseteq WorkPrep
            /\ "then" \notin WorkPrep
    BY DEF WorkPrep, WorkStages
  <1>3. CASE ToolStarts(r) \/ ToolCompletes(r)
    BY <1>3, ExecutorUnchanged, QuietStep DEF ToolStarts, ToolCompletes
  <1>4. CASE RequestUserInput(r)
    <2>1. \A q \in Runs : runs'[q].status = "completed"
                             => runs[q].status = "completed"
      BY <1>1, <1>4, NothingCompletes DEF RequestUserInput
    <2> QED
      BY <1>4, <2>1, ExecutorUnchanged, QuietStep DEF RequestUserInput
  <1>5. CASE RuntimeSettles(r) \/ RuntimeFails(r)
    <2>1. \A q \in Runs : ExecutorStepOf(q)
      BY <1>1, <1>2, <1>5, ExecutorMoved DEF RuntimeSettles, RuntimeFails
    <2>2. /\ runs[r].status = "running" /\ RecordCandidate(r)
          /\ UNCHANGED <<runs, decisions>>
      BY <1>5 DEF RuntimeSettles, RuntimeFails, FenceValid, Current
    <2>3. \A m \in Ordinals : candidates[r][m].status # "accepted"
      BY <2>2 DEF DeliveryInv, DeliveryAuthorized
    <2>4. \A q \in Runs : \A m \in Ordinals :
             \/ candidates'[q][m] = candidates[q][m]
             \/ q = r /\ candidates'[q][m].status = "proposed"
      BY <1>1, <2>2, TypeParts DEF RecordCandidate, CandidateTable
    <2>5. \A q \in Runs : VerdictKept(q) /\ DecisionStep(q)
      BY <2>2, <2>3, <2>4 DEF VerdictKept, DecisionStep
    <2> QED
      BY <2>1, <2>5 DEF VerdictStep
  <1>6. CASE RuntimeEndsFenced(r)
    <2>1. (\A q \in Runs : ExecutorStepOf(q)) /\ proc[r].stage \in WorkPrep
      BY <1>1, <1>2, <1>6, ExecutorMoved DEF RuntimeEndsFenced
    <2> QED
      BY <1>6, <2>1, RecoverStep DEF RuntimeEndsFenced
  <1>7. CASE EndsIdle(r)
    <2>1. \A q \in Runs : ExecutorStepOf(q)
      BY <1>1, <1>2, <1>7, ExecutorMoved DEF EndsIdle
    <2> QED
      BY <1>7, <2>1, QuietStep DEF EndsIdle, durable
  <1>8. CASE EndsUnowned(r)
    <2>1. \A q \in Runs : ExecutorStepOf(q)
      BY <1>1, <1>2, <1>8, ExecutorMoved DEF EndsUnowned
    <2>2. \A q \in Runs : runs'[q].status = "completed"
                             => runs[q].status = "completed"
      <3>1. runs \in [Runs -> RunRecord]
        BY <1>1, TypeParts DEF RunsOK
      <3>2. RecoverStale
        BY <1>8 DEF EndsUnowned
      <3> QED
        BY <3>1, <3>2 DEF RecoverStale, Requeue, RunRecord
    <2> QED
      BY <1>8, <2>1, <2>2, QuietStep DEF EndsUnowned
  <1> QED
    BY <1>3, <1>4, <1>5, <1>6, <1>7, <1>8 DEF PromptStep

\* The decision of a review is a VerdictStep.
LEMMA ReviewDoneVerdict ==
    ASSUME DeliveryInv, NEW r \in Runs, NEW action \in SettledActions,
           ReviewDone(r, action)
    PROVE  \A q \in Runs : VerdictStep(q)
  <1> DEFINE n == proc[r].attempt
             decs == Proposed(r, n, action, TRUE)
  <1>1. /\ n \in Ordinals /\ decisions \in DecisionTable /\ TypeOK
        /\ proc[r].stage \in WorkPrep
    BY TypeParts DEF DeliveryInv, ProcOK, ReviewDone, WorkPrep, WorkStages
  <1>2. decs \in DecisionTable
    BY <1>1, ProposedType
  <1>3. decisions[r][n].status = "none"
    BY <1>1 DEF DeliveryInv, VerdictInv
  <1>4. \A q \in Runs : \A m \in Ordinals :
           q # r \/ m # n => decs[q][m] = decisions[q][m]
    BY <1>1 DEF Proposed, DecisionTable
  <1>5. CASE /\ decisions' = Superseded(decs, r, n) \/ decisions' = decs
             /\ proc' = Returned(r, FALSE)
             /\ UNCHANGED <<runs, attempts, candidates, leases>>
    <2>1. "then" \notin WorkPrep
      BY DEF WorkPrep, WorkStages
    <2>2. /\ \A q \in Runs : ExecutorStepOf(q)
          /\ proc'[r].stage \notin WorkPrep
      BY <1>1, <1>5, <2>1, ExecutorMoved
    <2>3. \A q \in Runs : \A m \in Ordinals :
             q # r \/ m # n => decisions'[q][m] = decisions[q][m]
      <3> HIDE DEF decs
      <3> QED
        BY <1>1, <1>2, <1>4, <1>5, SupersededEntries
    <2> HIDE DEF decs
    <2>4. UNCHANGED <<runs, attempts, candidates>>
      BY <1>5
    <2>5. \A q \in Runs : VerdictKept(q)
      BY <1>3, <2>3, <2>4 DEF VerdictKept
    <2>6. \A q \in Runs : DecisionStep(q)
      BY <2>2, <2>3 DEF DecisionStep
    <2> QED
      BY <2>2, <2>5, <2>6 DEF VerdictStep
  <1>6. CASE /\ CanSettle(r)
             /\ SettleAttempt(r, action, decs)
             /\ proc' = AfterSettlement(r, action)
    BY <1>1, <1>6, SettleStep
  <1>7. CASE /\ RecoverInterruptedAttempt(r, decs)
             /\ proc' = Returned(r, FALSE)
    BY <1>1, <1>7, RecoverNewStep
  <1> QED
    BY <1>5, <1>6, <1>7 DEF ReviewDone

\* Every action of SettlementStep is a VerdictStep of every TaskRun.
LEMMA SettlementStepVerdict ==
    ASSUME DeliveryInv, NEW r \in Runs, SettlementStep(r)
    PROVE  \A q \in Runs : VerdictStep(q)
  <1>1. TypeOK
    BY DEF DeliveryInv
  <1>2. /\ {"reviewing", "failReview"} \subseteq WorkPrep
        /\ {"then", "queueing", "finalizing", "retained"} \cap WorkPrep = {}
        /\ FailureActions \subseteq SettledActions
        /\ "block_taskrun" \in SettledActions
    BY DEF WorkPrep, WorkStages, FailureActions, SettledActions
  <1>3. CASE \E action \in SettledActions : ReviewDone(r, action)
    BY <1>3, ReviewDoneVerdict
  <1>4. CASE ReviewFails(r)
    <2>1. CASE SettleUnbound(r, "block_taskrun")
      BY <1>2, <1>4, <2>1, SettleUnboundStep DEF ReviewFails
    <2>2. CASE /\ proc' = Moved(r, "failReview")
               /\ UNCHANGED <<runs, attempts, candidates, decisions, leases>>
      <3>1. \A q \in Runs : ExecutorStepOf(q)
        BY <1>1, <1>2, <1>4, <2>2, ExecutorMoved DEF ReviewFails
      <3> QED
        BY <2>2, <3>1, QuietStep
    <2> QED
      BY <1>4, <2>1, <2>2 DEF ReviewFails
  <1>5. ASSUME NEW action \in FailureActions, FailReviewDone(r, action)
        PROVE  \A q \in Runs : VerdictStep(q)
    BY <1>2, <1>5, SettleUnboundStep DEF FailReviewDone
  <1>6. CASE RequestApproval(r) \/ AfterExecute(r) \/ QueueContinuation(r)
    <2>1. \A q \in Runs : ExecutorStepOf(q)
      BY <1>1, <1>2, <1>6, ExecutorMoved
      DEF RequestApproval, AfterExecute, QueueContinuation
    <2> QED
      BY <1>6, <2>1, QuietStep
      DEF RequestApproval, AfterExecute, QueueContinuation
  <1>7. CASE DisposeFails(r)
    <2>1. \A q \in Runs : ExecutorStepOf(q)
      BY <1>1, <1>2, <1>7, TypeParts
      DEF DisposeFails, ExecutorStepOf, ProcOK, Executor
    <2> QED
      BY <1>7, <2>1, QuietStep DEF DisposeFails
  <1>8. ASSUME NEW outcome \in Outcomes, Finalize(r, outcome)
        PROVE  \A q \in Runs : VerdictStep(q)
    <2>1. CASE Claimable(r)
      BY <1>1, <1>8, <2>1, ClaimVerdict DEF Finalize
    <2>2. CASE ~Claimable(r)
      BY <1>1, <1>8, <2>2, ExecutorEnds, QuietStep DEF Finalize
    <2> QED
      BY <2>1, <2>2
  <1> QED
    BY <1>3, <1>4, <1>5, <1>6, <1>7, <1>8 DEF SettlementStep

\* Every action of UserStep is a VerdictStep of every TaskRun.
LEMMA UserStepVerdict ==
    ASSUME DeliveryInv, NEW r \in Runs, UserStep(r)
    PROVE  \A q \in Runs : VerdictStep(q)
  <1>1. TypeOK
    BY DEF DeliveryInv
  <1>2. Resumable(r) => runs[r].status # "absent"
    BY DEF Resumable
  <1>3. ASSUME UNCHANGED <<runs, proc, candidates, decisions>>
        PROVE  \A q \in Runs : VerdictStep(q)
    BY <1>3, ExecutorUnchanged, QuietStep
  <1>4. ASSUME NEW outcome \in Outcomes, Resume(r, outcome)
        PROVE  \A q \in Runs : VerdictStep(q)
    BY <1>1, <1>2, <1>3, <1>4, ResumeVerdict DEF Resume, ResumeRefused
  <1>5. ASSUME NEW outcome \in Outcomes, Approve(r, outcome)
        PROVE  \A q \in Runs : VerdictStep(q)
    BY <1>1, <1>2, <1>3, <1>5, ResumeVerdict DEF Approve, ResumeRefused
  <1>6. ASSUME NEW outcome \in Outcomes, SubmitInput(r, outcome)
        PROVE  \A q \in Runs : VerdictStep(q)
    BY <1>1, <1>3, <1>6, ResumeVerdict DEF SubmitInput
  <1>7. CASE RejectApproval(r)
    BY <1>3, <1>7 DEF RejectApproval
  <1>8. CASE Cancel(r)
    <2>1. /\ runs[r].status = "running" /\ Cur(r) \in Ordinals
          /\ candidates \in CandidateTable /\ decisions \in DecisionTable
      BY <1>1, <1>8, TypeParts DEF Cancel, Cur, RunsOK
    <2>2. \A q \in Runs : runs'[q].status = "completed"
                             => runs[q].status = "completed"
      BY <1>1, <1>8, NothingCompletes DEF Cancel
    <2>3. \A q \in Runs : \A m \in Ordinals :
             /\ candidates'[q][m].status = "accepted"
                   <=> candidates[q][m].status = "accepted"
             /\ decisions[q][m].status # "proposed"
                   => decisions'[q][m] = decisions[q][m]
      BY <1>8, <2>1, RejectedEntries, SupersededEntries DEF Cancel
    <2>4. \A q \in Runs : ExecutorStepOf(q)
      BY <1>8, ExecutorUnchanged DEF Cancel
    <2> QED
      BY <2>2, <2>3, <2>4 DEF VerdictStep, VerdictKept, DecisionStep
  <1>9. CASE ReAdjudicate(r)
    <2> DEFINE n == runs[r].attempt
    <2>1. /\ runs[r].status = "blocked" /\ n \in Ordinals
          /\ candidates \in CandidateTable /\ decisions \in DecisionTable
          /\ runs \in [Runs -> RunRecord] /\ decisions[r][n].status = "executed"
      BY <1>1, <1>9, TypeParts
      DEF ReAdjudicate, CanReAdjudicate, Cur, RunsOK
    <2>2. /\ runs'[r].status = "completed" /\ runs'[r].attempt = n
          /\ \A q \in Runs \ {r} : runs'[q] = runs[q]
      BY <1>9, <2>1 DEF ReAdjudicate, RunMoved, RunRecord
    <2>3. /\ candidates'[r][n].status = "accepted"
          /\ \A q \in Runs : \A m \in Ordinals :
                q # r \/ m # n => candidates'[q][m] = candidates[q][m]
      BY <1>9, <2>1 DEF ReAdjudicate, Cur, CandidateTable, CandidateRecord
    <2>4. /\ decisions'[r][n].status = "executed"
          /\ decisions'[r][n].action = "complete_taskrun"
          /\ \A q \in Runs : \A m \in Ordinals :
                q # r \/ m # n => decisions'[q][m] = decisions[q][m]
      BY <1>9, <2>1 DEF ReAdjudicate, Cur, DecisionTable
    <2>5. VerdictDelivered(r)
      BY <2>1, <2>2, <2>3, <2>4 DEF VerdictDelivered
    <2>6. \A q \in Runs \ {r} : VerdictKept(q)
      BY <2>2, <2>3, <2>4 DEF VerdictKept
    <2>7. \A q \in Runs : DecisionStep(q)
      BY <2>1, <2>4 DEF DecisionStep
    <2>8. \A q \in Runs : ExecutorStepOf(q)
      BY <1>9, ExecutorUnchanged DEF ReAdjudicate
    <2> QED
      BY <2>5, <2>6, <2>7, <2>8 DEF VerdictStep
  <1> QED
    BY <1>4, <1>5, <1>6, <1>7, <1>8, <1>9 DEF UserStep

\* Every action of TimerStep is a VerdictStep of every TaskRun.
LEMMA TimerStepVerdict ==
    ASSUME DeliveryInv, NEW r \in Runs, TimerStep(r)
    PROVE  \A q \in Runs : VerdictStep(q)
  <1>1. TypeOK
    BY DEF DeliveryInv
  <1>2. ASSUME NEW outcome \in Outcomes, StartQueuedContinuation(r, outcome)
        PROVE  \A q \in Runs : VerdictStep(q)
    BY <1>1, <1>2, ClaimVerdict DEF StartQueuedContinuation
  <1>3. CASE \/ ContinuationDue(r) \/ LeaseExpires(r)
             \/ ContinuationLeaseExpires(r)
    BY <1>3, ExecutorUnchanged, QuietStep
    DEF ContinuationDue, LeaseExpires, ContinuationLeaseExpires
  <1>4. CASE HeartbeatFails(r)
    <2>1. (\A q \in Runs : ExecutorStepOf(q)) /\ proc[r].stage \in WorkPrep
      BY <1>4, ExecutorUnchanged DEF HeartbeatFails, WorkPrep
    <2> QED
      BY <1>4, <2>1, RecoverStep DEF HeartbeatFails
  <1>5. CASE Timeout(r)
    <2>1. (\A q \in Runs : ExecutorStepOf(q)) /\ proc[r].stage \in WorkPrep
      BY <1>5, ExecutorUnchanged DEF Timeout, WorkPrep
    <2>2. CASE /\ runs' = RunFailed(r, "timeout")
               /\ UNCHANGED <<candidates, decisions>>
      BY <1>1, <2>1, <2>2, NothingCompletes, QuietStep
    <2>3. CASE RecoverInterruptedAttempt(r, decisions)
      BY <2>1, <2>3, RecoverStep
    <2> QED
      BY <1>5, <2>2, <2>3 DEF Timeout
  <1> QED
    BY <1>2, <1>3, <1>4, <1>5 DEF TimerStep

\* Every action of ProcessStep is a VerdictStep of every TaskRun.
LEMMA ProcessStepVerdict ==
    ASSUME DeliveryInv, ProcessStep
    PROVE  \A q \in Runs : VerdictStep(q)
  <1>1. TypeOK /\ runs \in [Runs -> RunRecord]
    BY TypeParts DEF DeliveryInv, RunsOK
  <1>2. ASSUME proc' = [r \in Runs |-> Idle]
        PROVE  \A q \in Runs : ExecutorStepOf(q)
    BY <1>2 DEF ExecutorStepOf, Idle, Executor, WorkPrep, WorkStages
  <1>3. CASE RecoverContinuations \/ ShutdownRelease
    <2>1. \A q \in Runs : runs'[q].status = "completed"
                             => runs[q].status = "completed"
      <3>1. CASE RecoverContinuations
        BY <1>1, <3>1 DEF RecoverContinuations, Requeue, RunRecord
      <3>2. CASE ShutdownRelease
        BY <1>1, <3>2 DEF ShutdownRelease, Requeue, RunRecord
      <3> QED
        BY <1>3, <3>1, <3>2
    <2> QED
      BY <1>3, <2>1, ExecutorUnchanged, QuietStep
      DEF RecoverContinuations, ShutdownRelease
  <1>4. CASE Crash
    BY <1>2, <1>4, QuietStep DEF Crash
  <1>5. CASE BeginShutdown
    BY <1>5, ExecutorUnchanged, QuietStep DEF BeginShutdown, durable
  <1>6. CASE ShutdownInterrupt \/ Startup
    <2>1. \A q \in Runs : runs'[q].status = "completed"
                             => runs[q].status = "completed"
      <3> SUFFICES ASSUME NEW q \in Runs, runs[q].status # "completed"
                   PROVE  runs'[q].status # "completed"
        OBVIOUS
      <3>1. MarkInterrupted
        BY <1>6 DEF ShutdownInterrupt, Startup
      <3>2. CASE runs[q].status = "running"
        BY <1>1, <3>1, <3>2 DEF MarkInterrupted, RunRecord
      <3>3. CASE runs[q].status # "running"
        BY <3>1, <3>3 DEF MarkInterrupted
      <3> QED
        BY <3>2, <3>3
    <2> QED
      BY <1>2, <1>6, <2>1, ExecutorUnchanged, QuietStep
      DEF ShutdownInterrupt, Startup
  <1>7. CASE StartupReconcile
    <2>1. \A q \in Runs : \A m \in Ordinals :
             decisions[q][m].status # "proposed"
                => decisions'[q][m] = decisions[q][m]
      BY <1>7 DEF StartupReconcile
    <2>2. \A q \in Runs : ExecutorStepOf(q)
      BY <1>7, ExecutorUnchanged DEF StartupReconcile
    <2>3. UNCHANGED <<runs, candidates>>
      BY <1>7 DEF StartupReconcile
    <2> QED
      BY <2>1, <2>2, <2>3 DEF VerdictStep, VerdictKept, DecisionStep
  <1>8. CASE StartupRecover
    <2>1. \A q \in Runs : runs'[q].status = "completed"
                             => runs[q].status = "completed"
      BY <1>1, <1>8 DEF StartupRecover, RunRecord
    <2> QED
      BY <1>8, <2>1, ExecutorUnchanged, QuietStep DEF StartupRecover
  <1> QED
    BY <1>3, <1>4, <1>5, <1>6, <1>7, <1>8 DEF ProcessStep

\* Every step is a VerdictStep of every TaskRun.
LEMMA NextVerdict ==
    ASSUME DeliveryInv, [Next]_vars
    PROVE  \A q \in Runs : VerdictStep(q)
  <1>1. CASE UNCHANGED vars
    BY <1>1, ExecutorUnchanged, QuietStep DEF vars
  <1>2. CASE Next
    BY <1>2, LaunchStepVerdict, PromptStepVerdict, SettlementStepVerdict,
       UserStepVerdict, TimerStepVerdict, ProcessStepVerdict DEF Next
  <1> QED
    BY <1>1, <1>2

\* DeliveryInv is inductive.
LEMMA DeliveryInductive == DeliveryInv /\ [Next]_vars => DeliveryInv'
  <1> SUFFICES ASSUME DeliveryInv, [Next]_vars PROVE DeliveryInv'
    OBVIOUS
  <1>1. TypeOK /\ TypeOK'
    BY NextType DEF DeliveryInv
  <1>2. ASSUME NEW q \in Runs
        PROVE  /\ runs[q].attempt \in 0..MaxAttempts
               /\ runs'[q].attempt \in 0..MaxAttempts
               /\ proc[q].attempt \in 0..MaxAttempts
               /\ proc'[q].attempt \in 0..MaxAttempts
               /\ proc'[q].stage # "none" => proc'[q].attempt \in Ordinals
               /\ runs'[q].status # "absent" => runs'[q].attempt \in Ordinals
    BY <1>1 DEF TypeOK
  <1>3. \A q \in Runs : RowStep(q) /\ VerdictStep(q)
    BY <1>1, NextRows, NextVerdict
  <1>4. ASSUME NEW q \in Runs
        PROVE  /\ runs'[q].attempt >= runs[q].attempt
               /\ runs'[q].status = "absent" => runs'[q].attempt = 0
               /\ runs[q].status = "completed" =>
                     /\ runs'[q].status = "completed"
                     /\ runs'[q].attempt = runs[q].attempt
    <2>1. runs[q].status = "absent" => runs[q].attempt = 0
      BY DEF DeliveryInv, VerdictInv
    <2> QED
      BY <1>2, <1>3, <2>1, BoundsAssumption
      DEF RowStep, RowKept, RowRewritten, RowStarted, Terminal
  <1>5. VerdictInv'
    <2> SUFFICES ASSUME NEW q \in Runs
                 PROVE  /\ proc'[q].attempt <= runs'[q].attempt
                        /\ \A n \in Ordinals : n > runs'[q].attempt
                              => decisions'[q][n].status = "none"
                        /\ proc'[q].stage \in WorkPrep =>
                              decisions'[q][proc'[q].attempt].status = "none"
      BY <1>4 DEF VerdictInv
    <2>1. /\ proc[q].attempt <= runs[q].attempt
          /\ \A n \in Ordinals :
                n > runs[q].attempt => decisions[q][n].status = "none"
          /\ proc[q].stage \in WorkPrep =>
                decisions[q][proc[q].attempt].status = "none"
      BY DEF DeliveryInv, VerdictInv
    <2>2. DecisionStep(q) /\ ExecutorStepOf(q)
      BY <1>3 DEF VerdictStep
    <2>3. proc'[q].attempt <= runs'[q].attempt
      BY <1>2, <1>4, <2>1, <2>2, BoundsAssumption DEF ExecutorStepOf
    <2>4. \A n \in Ordinals : n > runs'[q].attempt
             => decisions'[q][n].status = "none"
      BY <1>2, <1>4, <2>1, <2>2, BoundsAssumption DEF DecisionStep, Ordinals
    <2>5. ASSUME proc'[q].stage \in WorkPrep
          PROVE  decisions'[q][proc'[q].attempt].status = "none"
      <3>1. proc'[q].attempt \in Ordinals
        BY <1>2, <2>5 DEF WorkPrep, WorkStages
      <3>2. CASE proc'[q].attempt = proc[q].attempt
                    /\ proc[q].stage \in WorkPrep
        BY <2>1, <2>2, <2>5, <3>1, <3>2 DEF DecisionStep
      <3>3. CASE proc'[q].attempt = runs'[q].attempt
                    /\ runs'[q].attempt > runs[q].attempt
        BY <2>1, <2>2, <2>5, <3>1, <3>3 DEF DecisionStep
      <3> QED
        BY <2>2, <2>5, <3>2, <3>3 DEF ExecutorStepOf
    <2> QED
      BY <2>3, <2>4, <2>5
  <1>6. DeliveryAuthorized'
    <2> SUFFICES ASSUME NEW q \in Runs
                 PROVE  /\ \A n \in Ordinals :
                              candidates'[q][n].status = "accepted" =>
                                 /\ runs'[q].status = "completed"
                                 /\ n = runs'[q].attempt
                                 /\ decisions'[q][n].status = "executed"
                                 /\ decisions'[q][n].action
                                       = "complete_taskrun"
                        /\ runs'[q].status = "completed" =>
                              candidates'[q][runs'[q].attempt].status
                                 = "accepted"
      BY DEF DeliveryAuthorized, Cur
    <2>1. /\ \A n \in Ordinals :
                candidates[q][n].status = "accepted" =>
                   /\ runs[q].status = "completed" /\ n = runs[q].attempt
                   /\ decisions[q][n].status = "executed"
                   /\ decisions[q][n].action = "complete_taskrun"
          /\ runs[q].status = "completed" =>
                candidates[q][runs[q].attempt].status = "accepted"
      BY DEF DeliveryInv, DeliveryAuthorized, Cur
    <2>2. CASE VerdictKept(q)
      BY <1>2, <1>4, <2>1, <2>2 DEF VerdictKept
    <2>3. CASE VerdictDelivered(q)
      BY <2>1, <2>3 DEF VerdictDelivered
    <2> QED
      BY <1>3, <2>2, <2>3 DEF VerdictStep
  <1> QED
    BY <1>1, <1>5, <1>6 DEF DeliveryInv

\* A response reaches the user only from the current Attempt of a completed
\* TaskRun under an executed complete_taskrun decision, whatever late reviews,
\* lost leases, cancellations, crashes and re-adjudications interleave.
THEOREM DeliveryAuthorizedHolds == Spec => []DeliveryAuthorized
  <1>1. Init => DeliveryInv
    <2> SUFFICES ASSUME Init PROVE DeliveryInv
      OBVIOUS
    <2>1. VerdictInv
      BY DEF Init, VerdictInv, Idle, Executor, WorkPrep, WorkStages
    <2>2. DeliveryAuthorized
      BY DEF Init, DeliveryAuthorized
    <2> QED
      BY <2>1, <2>2, InitType DEF DeliveryInv
  <1>2. DeliveryInv => DeliveryAuthorized
    BY DEF DeliveryInv
  <1> QED
    BY <1>1, <1>2, DeliveryInductive, PTL DEF Spec

-----------------------------------------------------------------------------
(* Replaced Attempts.  Rows of attempts are covered by RowStep; what is     *)
(* left is that a Candidate is only ever written for the current Attempt.   *)

\* At most the Candidate of Attempt n of r is written.
OneCandidate(r, n) ==
    \A q \in Runs, m \in Ordinals :
        q # r \/ m # n => candidates'[q][m] = candidates[q][m]

\* A Candidate of q is written only for the Attempt that is and stays current.
CandidateStep(q) ==
    \A m \in Ordinals :
        \/ candidates'[q][m] = candidates[q][m]
        \/ m = runs[q].attempt /\ runs'[q].attempt = runs[q].attempt

\* A step that leaves the Candidates alone.
LEMMA CandidatesUnchanged ==
    ASSUME UNCHANGED candidates
    PROVE  \A q \in Runs : CandidateStep(q)
  BY DEF CandidateStep

\* A step that writes the Candidate of the current Attempt of r.
LEMMA CandidateWritten ==
    ASSUME NEW r \in Runs, OneCandidate(r, runs[r].attempt),
           runs'[r].attempt = runs[r].attempt
    PROVE  \A q \in Runs : CandidateStep(q)
  <1> SUFFICES ASSUME NEW q \in Runs, NEW m \in Ordinals
               PROVE  \/ candidates'[q][m] = candidates[q][m]
                      \/ m = runs[q].attempt /\ runs'[q].attempt = runs[q].attempt
    BY DEF CandidateStep
  <1> QED
    BY DEF OneCandidate

\* A TaskRun that only moves keeps its Attempt.
LEMMA MovedAttempt ==
    ASSUME TypeOK, NEW r \in Runs, NEW st, runs' = RunMoved(r, st)
    PROVE  runs'[r].attempt = runs[r].attempt
  <1>1. runs \in [Runs -> RunRecord]
    BY DEF TypeOK
  <1> QED
    BY <1>1 DEF RunMoved, RunRecord

\* recoverInterruptedAttempt rejects the Candidate of the current Attempt.
LEMMA RecoverCandidate ==
    ASSUME TypeOK, NEW r \in Runs, NEW decs, RecoverInterruptedAttempt(r, decs)
    PROVE  \A q \in Runs : CandidateStep(q)
  <1>0. candidates \in [Runs -> [Ordinals -> CandidateRecord]]
    BY DEF TypeOK
  <1>1. CASE Recoverable(r)
    <2>1. /\ proc[r].attempt = runs[r].attempt
          /\ runs' = RunMoved(r, "interrupted")
          /\ candidates' = Rejected(r, proc[r].attempt)
      BY <1>1 DEF RecoverInterruptedAttempt, Recoverable, Current, Cur
    <2>2. OneCandidate(r, runs[r].attempt)
      BY <1>0, <2>1 DEF OneCandidate, Rejected
    <2> QED
      BY <2>1, <2>2, MovedAttempt, CandidateWritten
  <1>2. CASE ~Recoverable(r)
    BY <1>2, CandidatesUnchanged DEF RecoverInterruptedAttempt
  <1> QED
    BY <1>1, <1>2

\* settleAttempt accepts or rejects the Candidate of the current Attempt.
LEMMA SettleCandidate ==
    ASSUME TypeOK, NEW r \in Runs, NEW action, NEW decs, CanSettle(r),
           SettleAttempt(r, action, decs)
    PROVE  \A q \in Runs : CandidateStep(q)
  <1>0. candidates \in [Runs -> [Ordinals -> CandidateRecord]]
    BY DEF TypeOK
  <1>1. proc[r].attempt = runs[r].attempt
    BY DEF CanSettle, Current, Cur
  <1>2. PICK st : runs' = RunMoved(r, st)
    BY DEF SettleAttempt
  <1>3. OneCandidate(r, runs[r].attempt)
    BY <1>0, <1>1 DEF OneCandidate, SettleAttempt
  <1> QED
    BY <1>2, <1>3, MovedAttempt, CandidateWritten

\* recordCandidateResult writes the Candidate of the current Attempt.
LEMMA RecordedCandidate ==
    ASSUME TypeOK, NEW r \in Runs, FenceValid(r), RecordCandidate(r), UNCHANGED runs
    PROVE  \A q \in Runs : CandidateStep(q)
  <1>0. candidates \in [Runs -> [Ordinals -> CandidateRecord]]
    BY DEF TypeOK
  <1>1. proc[r].attempt = runs[r].attempt
    BY DEF FenceValid, Current, Cur
  <1>2. OneCandidate(r, runs[r].attempt)
    BY <1>0, <1>1 DEF OneCandidate, RecordCandidate
  <1> QED
    BY <1>2, CandidateWritten

\* Cancellation and re-adjudication write the Candidate of the current Attempt.
LEMMA UserCandidate ==
    ASSUME TypeOK, NEW r \in Runs, Cancel(r) \/ ReAdjudicate(r)
    PROVE  \A q \in Runs : CandidateStep(q)
  <1>0. candidates \in [Runs -> [Ordinals -> CandidateRecord]]
    BY DEF TypeOK
  <1>1. CASE Cancel(r)
    <2>1. OneCandidate(r, runs[r].attempt)
      BY <1>0, <1>1 DEF OneCandidate, Cancel, Cur, Rejected
    <2>2. runs' = RunMoved(r, "cancelled")
      BY <1>1 DEF Cancel
    <2> QED
      BY <2>1, <2>2, MovedAttempt, CandidateWritten
  <1>2. CASE ReAdjudicate(r)
    <2>1. OneCandidate(r, runs[r].attempt)
      BY <1>0, <1>2 DEF OneCandidate, ReAdjudicate, Cur
    <2>2. runs' = RunMoved(r, "completed")
      BY <1>2 DEF ReAdjudicate
    <2> QED
      BY <2>1, <2>2, MovedAttempt, CandidateWritten
  <1> QED
    BY <1>1, <1>2

\* Every step writes at most Candidates of current Attempts.
LEMMA NextCandidates ==
    ASSUME TypeOK, [Next]_vars
    PROVE  \A q \in Runs : CandidateStep(q)
  <1>1. CASE UNCHANGED vars
    BY <1>1, CandidatesUnchanged DEF vars
  <1>2. ASSUME NEW r \in Runs, LaunchStep(r)
        PROVE  \A q \in Runs : CandidateStep(q)
    <2>1. CASE InitializationFails(r)
      BY <2>1, RecoverCandidate, CandidatesUnchanged DEF InitializationFails
    <2>2. CASE ~InitializationFails(r)
      <3>1. UNCHANGED candidates
        BY <1>2, <2>2 DEF LaunchStep, CreateRun, RetryLaunch, Launch, LaunchFails,
                          LaunchAbandoned, RuntimeInitialized, durable
      <3> QED
        BY <3>1, CandidatesUnchanged
    <2> QED
      BY <2>1, <2>2
  <1>3. ASSUME NEW r \in Runs, PromptStep(r)
        PROVE  \A q \in Runs : CandidateStep(q)
    <2>1. CASE RuntimeSettles(r) \/ RuntimeFails(r)
      BY <2>1, RecordedCandidate DEF RuntimeSettles, RuntimeFails
    <2>2. CASE RuntimeEndsFenced(r)
      BY <2>2, RecoverCandidate DEF RuntimeEndsFenced
    <2>3. CASE \/ ToolStarts(r) \/ ToolCompletes(r) \/ RequestUserInput(r)
               \/ EndsIdle(r) \/ EndsUnowned(r)
      BY <2>3, CandidatesUnchanged DEF ToolStarts, ToolCompletes, RequestUserInput,
         EndsIdle, EndsUnowned, durable
    <2> QED
      BY <1>3, <2>1, <2>2, <2>3 DEF PromptStep
  <1>4. ASSUME NEW r \in Runs, SettlementStep(r)
        PROVE  \A q \in Runs : CandidateStep(q)
    <2>1. ASSUME NEW action \in SettledActions, ReviewDone(r, action)
          PROVE  \A q \in Runs : CandidateStep(q)
      BY <2>1, RecoverCandidate, SettleCandidate, CandidatesUnchanged DEF ReviewDone
    <2>2. ASSUME NEW action, SettleUnbound(r, action)
          PROVE  \A q \in Runs : CandidateStep(q)
      BY <2>2, RecoverCandidate, SettleCandidate DEF SettleUnbound
    <2>3. CASE ReviewFails(r)
      BY <2>2, <2>3, CandidatesUnchanged DEF ReviewFails
    <2>4. ASSUME NEW action \in FailureActions, FailReviewDone(r, action)
          PROVE  \A q \in Runs : CandidateStep(q)
      BY <2>2, <2>4 DEF FailReviewDone
    <2>5. CASE \/ RequestApproval(r) \/ AfterExecute(r) \/ QueueContinuation(r)
               \/ DisposeFails(r)
      BY <2>5, CandidatesUnchanged DEF RequestApproval, AfterExecute, QueueContinuation,
                                       DisposeFails
    <2>6. ASSUME NEW outcome \in Outcomes, Finalize(r, outcome)
          PROVE  \A q \in Runs : CandidateStep(q)
      BY <2>6, CandidatesUnchanged DEF Finalize
    <2> QED
      BY <1>4, <2>1, <2>3, <2>4, <2>5, <2>6 DEF SettlementStep
  <1>5. ASSUME NEW r \in Runs, UserStep(r)
        PROVE  \A q \in Runs : CandidateStep(q)
    <2>1. ASSUME NEW outcome \in Outcomes,
                 Resume(r, outcome) \/ Approve(r, outcome) \/ SubmitInput(r, outcome)
          PROVE  \A q \in Runs : CandidateStep(q)
      BY <2>1, CandidatesUnchanged DEF Resume, Approve, SubmitInput
    <2>2. CASE RejectApproval(r)
      BY <2>2, CandidatesUnchanged DEF RejectApproval
    <2> QED
      BY <1>5, <2>1, <2>2, UserCandidate DEF UserStep
  <1>6. ASSUME NEW r \in Runs, TimerStep(r)
        PROVE  \A q \in Runs : CandidateStep(q)
    <2>1. ASSUME NEW outcome \in Outcomes, StartQueuedContinuation(r, outcome)
          PROVE  \A q \in Runs : CandidateStep(q)
      BY <2>1, CandidatesUnchanged DEF StartQueuedContinuation
    <2>2. CASE ContinuationDue(r) \/ LeaseExpires(r) \/ ContinuationLeaseExpires(r)
      BY <2>2, CandidatesUnchanged DEF ContinuationDue, LeaseExpires,
                                       ContinuationLeaseExpires
    <2>3. CASE HeartbeatFails(r) \/ Timeout(r)
      BY <2>3, RecoverCandidate, CandidatesUnchanged DEF HeartbeatFails, Timeout
    <2> QED
      BY <1>6, <2>1, <2>2, <2>3 DEF TimerStep
  <1>7. CASE ProcessStep
    BY <1>7, CandidatesUnchanged DEF ProcessStep, RecoverContinuations, Crash,
       BeginShutdown, ShutdownRelease, ShutdownInterrupt, Startup, StartupReconcile,
       StartupRecover, durable
  <1> QED
    BY <1>1, <1>2, <1>3, <1>4, <1>5, <1>6, <1>7 DEF Next

\* Row and Candidate of an Attempt that a newer one has replaced are history:
\* neither the start of the newer Attempt nor any late callback writes them.
THEOREM OldAttemptsFrozenHolds == Spec => OldAttemptsFrozen
  <1>1. ASSUME TypeOK, RunningIffActive, [Next]_vars, NEW q \in Runs, NEW n \in Ordinals,
               n < runs'[q].attempt
        PROVE  attempts'[q][n] = attempts[q][n] /\ candidates'[q][n] = candidates[q][n]
    <2>1. n # runs'[q].attempt
      BY <1>1 DEF Ordinals
    <2>2. candidates'[q][n] = candidates[q][n]
      BY <1>1, <2>1, NextCandidates DEF CandidateStep
    <2>3. runs[q].status # "running" => attempts[q][n].status # "running"
      BY <1>1 DEF RunningIffActive, ActiveStatus
    <2>4. attempts'[q][n] = attempts[q][n]
      BY <1>1, <2>1, <2>3, NextRows DEF RowStep, RowKept, RowRewritten, RowStarted
    <2> QED
      BY <2>2, <2>4
  <1>2. TypeOK /\ RunningIffActive /\ [Next]_vars
           => [\A r \in Runs : \A n \in Ordinals :
                 n < runs'[r].attempt =>
                     /\ attempts'[r][n] = attempts[r][n]
                     /\ candidates'[r][n] = candidates[r][n]]_vars
    BY <1>1
  <1> QED
    BY <1>2, TypeCorrect, RunningIffActiveHolds, PTL DEF Spec, OldAttemptsFrozen

-----------------------------------------------------------------------------
(* A serving process can end every running TaskRun.  Served strengthens     *)
(* NoOrphanedRun: an Attempt in preparation has its first version, the one  *)
(* that Launch leases, and an executor of a continuation still has the row  *)
(* it claimed, so that losing the lease makes the row stale.                *)

Served(q) ==
    runs[q].status = "running" =>
        /\ proc[q].attempt = runs[q].attempt
        /\ \/ /\ proc[q].stage = "preparing"
              /\ attempts[q][runs[q].attempt].status = "running"
              /\ attempts[q][runs[q].attempt].version = 1
           \/ proc[q].stage \in WorkStages /\ Recoverable(q)
        /\ proc[q].continuation =>
              continuations[q].status = "running" /\ continuations[q].mine

ServiceInv ==
    /\ phase = "up" => \A q \in Runs : Served(q)
    /\ phase \in {"interrupted", "reconciled"} =>
          \A q \in Runs : runs[q].status # "running"

\* The rows of q, and the rows and the executor of q, stay.
RowsKept(q) ==
    /\ runs'[q] = runs[q] /\ attempts'[q] = attempts[q]
    /\ leases'[q] = leases[q] /\ candidates'[q] = candidates[q]
ServiceKept(q) ==
    RowsKept(q) /\ proc'[q] = proc[q] /\ continuations'[q] = continuations[q]

\* A TaskRun whose rows and executor stay is served as before.
LEMMA KeptServed ==
    ASSUME NEW q \in Runs, Served(q), ServiceKept(q)
    PROVE  Served(q)'
  <1>1. /\ runs'[q] = runs[q] /\ attempts'[q] = attempts[q]
        /\ leases'[q] = leases[q] /\ candidates'[q] = candidates[q]
        /\ proc'[q] = proc[q] /\ continuations'[q] = continuations[q]
    BY DEF ServiceKept, RowsKept
  <1>2. Recoverable(q) => Recoverable(q)'
    BY <1>1 DEF Recoverable, Current, Cur
  <1> QED
    BY <1>1, <1>2 DEF Served

\* What r does leaves the other TaskRuns alone.
LEMMA ServedAll ==
    ASSUME NEW r \in Runs, \A q \in Runs : Served(q), Served(r)',
           \A q \in Runs \ {r} : ServiceKept(q)
    PROVE  \A q \in Runs : Served(q)'
  BY KeptServed

\* A TaskRun that does not run needs no executor.
LEMMA RestServed ==
    ASSUME NEW q \in Runs, runs'[q].status # "running"
    PROVE  Served(q)'
  BY DEF Served

\* The tables are functions on Runs.
LEMMA Tables ==
    ASSUME TypeOK
    PROVE  /\ runs \in [Runs -> RunRecord]
           /\ attempts \in [Runs -> [Ordinals -> AttemptRecord]]
           /\ leases \in [Runs -> [Ordinals -> LeaseRecord]]
           /\ candidates \in [Runs -> [Ordinals -> CandidateRecord]]
           /\ continuations \in [Runs -> ContinuationRecord]
           /\ proc \in [Runs -> ProcRecord]
           /\ \A r \in Runs : runs[r].status # "absent" => runs[r].attempt \in Ordinals
  BY DEF TypeOK

\* The executor of a running TaskRun that works can be recovered.
LEMMA WorkRecoverable ==
    ASSUME NEW r \in Runs, Served(r), proc[r].stage \in WorkStages,
           runs[r].status = "running"
    PROVE  Current(r) /\ Recoverable(r)
  BY DEF Served, Current, Cur, WorkStages

\* An executor that is past its work has a TaskRun that does not run.
LEMMA EndedRests ==
    ASSUME NEW r \in Runs, Served(r),
           \/ proc[r].stage \notin WorkStages \cup {"preparing"}
           \/ ~Current(r)
    PROVE  runs[r].status # "running"
  BY DEF Served, Current, Cur

\* recoverInterruptedAttempt leaves the TaskRun at rest.
LEMMA RecoverServed ==
    ASSUME TypeOK, NEW r \in Runs, Served(r), proc[r].stage \in WorkStages, NEW decs,
           RecoverInterruptedAttempt(r, decs)
    PROVE  runs'[r].status # "running" /\ \A q \in Runs \ {r} : RowsKept(q)
  <1>1. CASE Recoverable(r)
    <2>1. /\ runs' = RunMoved(r, "interrupted")
          /\ attempts' = Projected(r, proc[r].attempt, "interrupted")
          /\ candidates' = Rejected(r, proc[r].attempt)
          /\ leases' = Released(r, proc[r].attempt)
      BY <1>1 DEF RecoverInterruptedAttempt
    <2>2. runs'[r].status # "running"
      BY <2>1, Tables DEF RunMoved, RunRecord
    <2>3. \A q \in Runs \ {r} : RowsKept(q)
      BY <2>1, Tables DEF RowsKept, RunMoved, Projected, Rejected, Released
    <2> QED
      BY <2>2, <2>3
  <1>2. CASE ~Recoverable(r)
    <2>1. UNCHANGED <<runs, attempts, candidates, leases>>
      BY <1>2 DEF RecoverInterruptedAttempt
    <2>2. runs[r].status # "running"
      BY <1>2, WorkRecoverable
    <2> QED
      BY <2>1, <2>2 DEF RowsKept
  <1> QED
    BY <1>1, <1>2

\* settleAttempt leaves the TaskRun at rest.
LEMMA SettleServed ==
    ASSUME TypeOK, NEW r \in Runs, NEW action, NEW decs, SettleAttempt(r, action, decs)
    PROVE  runs'[r].status # "running" /\ \A q \in Runs \ {r} : RowsKept(q)
  <1>1. PICK st \in {"completed", "blocked"} :
           /\ runs' = RunMoved(r, st)
           /\ attempts' = Projected(r, proc[r].attempt, st)
    BY DEF SettleAttempt
  <1>2. runs'[r].status # "running"
    BY <1>1, Tables DEF RunMoved, RunRecord
  <1>3. \A q \in Runs \ {r} : candidates'[q] = candidates[q] /\ leases'[q] = leases[q]
    BY Tables DEF SettleAttempt, Released
  <1>4. \A q \in Runs \ {r} : RowsKept(q)
    BY <1>1, <1>3, Tables DEF RowsKept, RunMoved, Projected
  <1> QED
    BY <1>2, <1>4

\* A settlement after a failed review leaves the TaskRun at rest.
LEMMA SettleUnboundServed ==
    ASSUME TypeOK, NEW r \in Runs, Served(r), proc[r].stage \in WorkStages, NEW action,
           SettleUnbound(r, action)
    PROVE  /\ runs'[r].status # "running"
           /\ \A q \in Runs \ {r} : RowsKept(q) /\ proc'[q] = proc[q]
  <1>1. \A q \in Runs \ {r} : proc'[q] = proc[q]
    BY Tables DEF SettleUnbound, AfterSettlement, Moved, Returned
  <1>2. runs'[r].status # "running" /\ \A q \in Runs \ {r} : RowsKept(q)
    BY RecoverServed, SettleServed DEF SettleUnbound
  <1> QED
    BY <1>1, <1>2

\* The executor goes from one stage of its work to another.
LEMMA StageServed ==
    ASSUME TypeOK, \A q \in Runs : Served(q), NEW r \in Runs, proc[r].stage \in WorkStages,
           NEW stage \in WorkStages, proc' = Moved(r, stage), UNCHANGED durable
    PROVE  \A q \in Runs : Served(q)'
  <1>1. UNCHANGED <<runs, attempts, leases, candidates, continuations>>
    BY DEF durable
  <1>2. /\ proc'[r].stage = stage /\ proc'[r].attempt = proc[r].attempt
        /\ proc'[r].continuation = proc[r].continuation
    BY Tables DEF Moved, ProcRecord
  <1>3. Recoverable(r) => Recoverable(r)'
    BY <1>1, <1>2 DEF Recoverable, Current, Cur
  <1>4. Served(r)'
    BY <1>1, <1>2, <1>3 DEF Served, WorkStages
  <1>5. \A q \in Runs \ {r} : ServiceKept(q)
    BY <1>1, Tables DEF ServiceKept, RowsKept, Moved
  <1> QED
    BY <1>4, <1>5, ServedAll

\* A new Attempt of r, being prepared or launched, is served.
LEMMA StartServed ==
    ASSUME TypeOK, NEW r \in Runs, NEW n \in Ordinals, NEW stage, NEW continuation,
           runs' = RunAt(r, n, "running", "none"), attempts' = Started(r, n, "running"),
           proc' = [proc EXCEPT ![r] = Executor(stage, n, continuation)],
           \/ stage = "preparing"
           \/ /\ stage \in WorkStages
              /\ leases'[r][n].status = "live" /\ leases'[r][n].attemptVersion = 1,
           continuation => continuations'[r].status = "running" /\ continuations'[r].mine
    PROVE  Served(r)'
  <1>1. runs'[r].status = "running" /\ runs'[r].attempt = n
    BY Tables DEF RunAt
  <1>2. attempts'[r][n].status = "running" /\ attempts'[r][n].version = 1
    BY Tables DEF Started
  <1>3. /\ proc'[r].stage = stage /\ proc'[r].attempt = n
        /\ proc'[r].continuation = continuation
    BY Tables DEF Executor
  <1>4. stage \in WorkStages => Recoverable(r)'
    BY <1>1, <1>2, <1>3, Tables DEF Recoverable, Current, Cur, WorkStages
  <1> QED
    BY <1>1, <1>2, <1>3, <1>4 DEF Served

\* The start of an Attempt of r leaves the other rows alone.
LEMMA StartKeeps ==
    ASSUME TypeOK, NEW r \in Runs, NEW n, NEW st, NEW as, NEW why,
           runs' = RunAt(r, n, st, why), attempts' = Started(r, n, as)
    PROVE  /\ runs'[r].status = st
           /\ \A q \in Runs \ {r} : runs'[q] = runs[q] /\ attempts'[q] = attempts[q]
  BY Tables DEF RunAt, Started

\* Every action of LaunchStep leaves every TaskRun served.
LEMMA LaunchStepServed ==
    ASSUME TypeOK, phase = "up", \A q \in Runs : Served(q), NEW r \in Runs, LaunchStep(r)
    PROVE  \A q \in Runs : Served(q)'
  <1>1. CASE CreateRun(r)
    <2>1. UNCHANGED <<leases, candidates, continuations>> /\ 1 \in Ordinals
      BY <1>1, BoundsAssumption DEF CreateRun, Ordinals
    <2>2. CASE /\ runs' = RunAt(r, 1, "running", "none")
               /\ attempts' = Started(r, 1, "running")
               /\ proc' = [proc EXCEPT ![r] = Preparing(1)]
      <3>1. \A q \in Runs \ {r} : ServiceKept(q)
        BY <2>1, <2>2, StartKeeps, Tables DEF ServiceKept, RowsKept
      <3>2. Served(r)'
        BY <2>1, <2>2, StartServed DEF Preparing
      <3> QED
        BY <3>1, <3>2, ServedAll
    <2>3. CASE /\ runs' = RunAt(r, 1, "failed", "other")
               /\ attempts' = Started(r, 1, "failed")
               /\ UNCHANGED proc
      <3>1. \A q \in Runs \ {r} : ServiceKept(q)
        BY <2>1, <2>3, StartKeeps DEF ServiceKept, RowsKept
      <3>2. runs'[r].status # "running"
        BY <2>3, StartKeeps
      <3> QED
        BY <3>1, <3>2, RestServed, ServedAll
    <2> QED
      BY <1>1, <2>2, <2>3 DEF CreateRun
  <1>2. CASE RetryLaunch(r)
    <2>1. /\ runs' = RunAt(r, runs[r].attempt + 1, "running", "none")
          /\ attempts' = Started(r, runs[r].attempt + 1, "running")
          /\ proc' = [proc EXCEPT ![r] = Preparing(runs[r].attempt + 1)]
          /\ UNCHANGED <<leases, candidates, continuations>>
      BY <1>2 DEF RetryLaunch, Cur
    <2>2. runs[r].attempt + 1 \in Ordinals
      BY <1>2, TypeParts, BoundsAssumption DEF RetryLaunch, Cur, Ordinals, RunsOK
    <2>3. \A q \in Runs \ {r} : ServiceKept(q)
      BY <2>1, StartKeeps, Tables DEF ServiceKept, RowsKept
    <2>4. Served(r)'
      BY <2>1, <2>2, StartServed DEF Preparing
    <2> QED
      BY <2>3, <2>4, ServedAll
  <1>3. CASE Launch(r)
    <2> DEFINE n == proc[r].attempt
    <2>1. /\ runs[r].status = "running" /\ n = runs[r].attempt /\ n \in Ordinals
          /\ attempts[r][n].status = "running" /\ attempts[r][n].version = 1
          /\ proc[r].continuation =>
               continuations[r].status = "running" /\ continuations[r].mine
      BY <1>3, Tables DEF Launch, Current, Cur, Served, WorkStages
    <2>2. UNCHANGED <<candidates, continuations>>
      BY <1>3 DEF Launch
    <2>3. CASE /\ leases' = Acquired(leases, r, n) /\ proc' = Moved(r, "initializing")
               /\ UNCHANGED <<runs, attempts>>
      <3>1. /\ proc'[r].stage = "initializing" /\ proc'[r].attempt = n
            /\ proc'[r].continuation = proc[r].continuation
            /\ leases'[r][n].status = "live" /\ leases'[r][n].attemptVersion = 1
        BY <2>1, <2>3, Tables DEF Moved, Acquired, ProcRecord
      <3>2. Recoverable(r)'
        BY <2>1, <2>3, <3>1 DEF Recoverable, Current, Cur
      <3>3. Served(r)'
        BY <2>1, <2>2, <2>3, <3>1, <3>2 DEF Served, WorkStages
      <3>4. \A q \in Runs \ {r} : ServiceKept(q)
        BY <2>2, <2>3, Tables DEF ServiceKept, RowsKept, Moved, Acquired
      <3> QED
        BY <3>3, <3>4, ServedAll
    <2>4. CASE /\ leases' = [Acquired(leases, r, n) EXCEPT ![r][n].status = "released"]
               /\ runs' = RunFailed(r, "init")
               /\ attempts' = Projected(r, n, "failed")
               /\ proc' = [proc EXCEPT ![r] = Idle]
      <3>1. runs'[r].status # "running"
        BY <2>4, Tables DEF RunFailed, RunRecord
      <3>2. \A q \in Runs \ {r} : leases'[q] = leases[q]
        BY <2>4, Tables DEF Acquired
      <3>3. \A q \in Runs \ {r} : ServiceKept(q)
        BY <2>2, <2>4, <3>2, Tables DEF ServiceKept, RowsKept, RunFailed, Projected
      <3> QED
        BY <3>1, <3>3, RestServed, ServedAll
    <2> QED
      BY <1>3, <2>3, <2>4 DEF Launch
  <1>4. CASE LaunchFails(r)
    <2>1. PICK why : runs' = RunFailed(r, why)
      BY <1>4 DEF LaunchFails
    <2>2. runs'[r].status # "running"
      BY <2>1, Tables DEF RunFailed, RunRecord
    <2>3. \A q \in Runs \ {r} : ServiceKept(q)
      BY <1>4, <2>1, Tables DEF LaunchFails, ServiceKept, RowsKept, RunFailed, Projected
    <2> QED
      BY <2>2, <2>3, RestServed, ServedAll
  <1>5. CASE LaunchAbandoned(r)
    <2>1. runs'[r].status # "running"
      BY <1>5, EndedRests DEF LaunchAbandoned, closing, durable
    <2>2. \A q \in Runs \ {r} : ServiceKept(q)
      BY <1>5, Tables DEF LaunchAbandoned, ServiceKept, RowsKept, durable
    <2> QED
      BY <2>1, <2>2, RestServed, ServedAll
  <1>6. CASE RuntimeInitialized(r)
    BY <1>6, StageServed DEF RuntimeInitialized, WorkStages
  <1>7. CASE InitializationFails(r)
    <2>1. proc' = Moved(r, "finalizing") /\ UNCHANGED continuations
      BY <1>7 DEF InitializationFails
    <2>2. runs'[r].status # "running" /\ \A q \in Runs \ {r} : RowsKept(q)
      <3>1. CASE ~Current(r) /\ UNCHANGED <<runs, attempts, candidates, decisions, leases>>
        BY <3>1, EndedRests DEF RowsKept
      <3>2. CASE /\ runs' = RunFailed(r, "init")
                 /\ attempts' = Projected(r, proc[r].attempt, "failed")
                 /\ UNCHANGED <<candidates, decisions, leases>>
        <4>1. runs'[r].status # "running"
          BY <3>2, Tables DEF RunFailed, RunRecord
        <4> QED
          BY <3>2, <4>1, Tables DEF RowsKept, RunFailed, Projected
      <3>3. CASE RecoverInterruptedAttempt(r, decisions)
        BY <1>7, <3>3, RecoverServed DEF InitializationFails, WorkStages
      <3> QED
        BY <1>7, <3>1, <3>2, <3>3 DEF InitializationFails, closing
    <2>3. \A q \in Runs \ {r} : ServiceKept(q)
      BY <2>1, <2>2, Tables DEF ServiceKept, Moved
    <2> QED
      BY <2>2, <2>3, RestServed, ServedAll
  <1> QED
    BY <1>1, <1>2, <1>3, <1>4, <1>5, <1>6, <1>7 DEF LaunchStep

\* What a step of the executor of r does that leaves the TaskRun at rest.
LEMMA RestedAll ==
    ASSUME NEW r \in Runs, \A q \in Runs : Served(q), runs'[r].status # "running",
           \A q \in Runs \ {r} : RowsKept(q) /\ proc'[q] = proc[q],
           \A q \in Runs \ {r} : continuations'[q] = continuations[q]
    PROVE  \A q \in Runs : Served(q)'
  BY RestServed, ServedAll DEF ServiceKept

\* The response is recorded and goes to review.
LEMMA RecordServed ==
    ASSUME TypeOK, \A q \in Runs : Served(q), NEW r \in Runs, FenceValid(r),
           RecordCandidate(r), NEW stage \in WorkStages, proc' = Moved(r, stage),
           UNCHANGED <<runs, leases, continuations>>
    PROVE  \A q \in Runs : Served(q)'
  <1> DEFINE n == proc[r].attempt
  <1>1. /\ runs[r].status = "running" /\ n = runs[r].attempt /\ n \in Ordinals
        /\ attempts[r][n].version = leases[r][n].attemptVersion
        /\ attempts[r][n].version \in Nat /\ leases[r][n].status = "live"
    BY Tables DEF FenceValid, Current, Cur, AttemptRecord
  <1>2. /\ proc'[r].stage = stage /\ proc'[r].attempt = n
        /\ proc'[r].continuation = proc[r].continuation
    BY Tables DEF Moved, ProcRecord
  <1>3. /\ attempts'[r][n].status = "settling"
        /\ attempts'[r][n].version = attempts[r][n].version + 1
    BY <1>1, Tables DEF RecordCandidate, Projected
  <1>4. /\ candidates'[r][n].status = "proposed"
        /\ candidates'[r][n].attemptVersion = attempts[r][n].version + 1
    BY <1>1, Tables DEF RecordCandidate
  <1>5. Recoverable(r)'
    BY <1>1, <1>2, <1>3, <1>4 DEF Recoverable, Current, Cur
  <1>6. Served(r)'
    BY <1>1, <1>2, <1>5 DEF Served
  <1>7. \A q \in Runs \ {r} : ServiceKept(q)
    BY Tables DEF ServiceKept, RowsKept, RecordCandidate, Projected, Moved
  <1> QED
    BY <1>6, <1>7, ServedAll

\* Putting continuations back to the queue lets their TaskRuns rest.
LEMMA RequeueServed ==
    ASSUME TypeOK, \A q \in Runs : Served(q), NEW S, Requeue(S), UNCHANGED <<leases, candidates>>,
           \A q \in Runs : \/ proc'[q] = proc[q]
                           \/ q \in S
                           \/ runs[q].status # "running"
    PROVE  \A q \in Runs : Served(q)'
  <1> SUFFICES ASSUME NEW q \in Runs PROVE Served(q)'
    OBVIOUS
  <1>1. CASE q \in S
    <2>1. runs'[q].status # "running"
      BY <1>1, Tables DEF Requeue, RunRecord
    <2> QED
      BY <2>1, RestServed
  <1>2. CASE q \notin S
    <2>1. runs'[q] = runs[q] /\ attempts'[q] = attempts[q] /\ continuations'[q] = continuations[q]
      <3>1. runs'[q] = runs[q] /\ continuations'[q] = continuations[q]
        BY <1>2 DEF Requeue
      <3>2. attempts'[q] = attempts[q]
        BY <1>2, Tables DEF Requeue
      <3> QED
        BY <3>1, <3>2
    <2>2. CASE runs[q].status # "running"
      BY <2>1, <2>2, RestServed
    <2>3. CASE proc'[q] = proc[q]
      <3>1. Recoverable(q) => Recoverable(q)'
        BY <2>1, <2>3 DEF Recoverable, Current, Cur
      <3>2. Served(q)
        OBVIOUS
      <3> QED
        BY <2>1, <2>3, <3>1, <3>2 DEF Served
    <2> QED
      BY <1>2, <2>2, <2>3
  <1> QED
    BY <1>1, <1>2

\* Every action of PromptStep leaves every TaskRun served.
LEMMA PromptStepServed ==
    ASSUME TypeOK, phase = "up", \A q \in Runs : Served(q), NEW r \in Runs, PromptStep(r)
    PROVE  \A q \in Runs : Served(q)'
  <1>1. CASE ToolStarts(r) \/ ToolCompletes(r)
    <2>1. \A q \in Runs : ServiceKept(q)
      BY <1>1 DEF ToolStarts, ToolCompletes, ServiceKept, RowsKept
    <2> QED
      BY <2>1, KeptServed
  <1>2. CASE RequestUserInput(r)
    <2>1. runs'[r].status # "running"
      BY <1>2, Tables DEF RequestUserInput, RunMoved, RunRecord
    <2>2. \A q \in Runs \ {r} : RowsKept(q)
      BY <1>2, Tables DEF RequestUserInput, RowsKept, RunMoved, Projected
    <2> QED
      BY <1>2, <2>1, <2>2, RestedAll DEF RequestUserInput
  <1>3. CASE RuntimeSettles(r) \/ RuntimeFails(r)
    <2>1. /\ FenceValid(r) /\ RecordCandidate(r) /\ UNCHANGED <<runs, leases, continuations>>
          /\ \/ proc' = Moved(r, "reviewing")
             \/ proc' = Moved(r, "failReview")
      BY <1>3 DEF RuntimeSettles, RuntimeFails, closing
    <2> QED
      BY <2>1, RecordServed DEF WorkStages
  <1>4. CASE RuntimeEndsFenced(r)
    <2>1. runs'[r].status # "running" /\ \A q \in Runs \ {r} : RowsKept(q)
      BY <1>4, RecoverServed DEF RuntimeEndsFenced, WorkStages
    <2>2. \A q \in Runs \ {r} : proc'[q] = proc[q] /\ continuations'[q] = continuations[q]
      BY <1>4, Tables DEF RuntimeEndsFenced, Returned
    <2> QED
      BY <2>1, <2>2, RestedAll
  <1>5. CASE EndsIdle(r)
    <2>1. runs[r].status # "running"
      BY <1>5, EndedRests DEF EndsIdle, closing
    <2>2. UNCHANGED durable /\ \A q \in Runs \ {r} : proc'[q] = proc[q]
      BY <1>5, Tables DEF EndsIdle, Returned
    <2> QED
      BY <2>1, <2>2, RestedAll DEF durable, RowsKept
  <1>6. CASE EndsUnowned(r)
    <2>1. Requeue(Stale) /\ UNCHANGED <<leases, candidates>>
      BY <1>6 DEF EndsUnowned, RecoverStale, closing
    <2>2. runs[r].status = "running" => r \in Stale
      BY <1>6 DEF EndsUnowned, LostContinuation, OwnsContinuation, Served, Stale
    <2>3. \A q \in Runs \ {r} : proc'[q] = proc[q]
      BY <1>6, Tables DEF EndsUnowned, Returned
    <2> QED
      BY <2>1, <2>2, <2>3, RequeueServed
  <1> QED
    BY <1>1, <1>2, <1>3, <1>4, <1>5, <1>6 DEF PromptStep

\* A continuation is claimed and launched, or the TaskRun rests.
LEMMA ClaimServed ==
    ASSUME TypeOK, \A q \in Runs : Served(q), NEW r \in Runs, NEW outcome, NEW base,
           base \in [Runs -> [Ordinals -> LeaseRecord]],
           \A q \in Runs \ {r} : base[q] = leases[q],
           Claimable(r), ClaimAndLaunch(r, outcome, base), UNCHANGED candidates
    PROVE  \A q \in Runs : Served(q)'
  <1> DEFINE n == runs[r].attempt + 1
  <1>1. n \in Ordinals
    BY TypeParts, BoundsAssumption DEF Claimable, Cur, Ordinals, RunsOK
  <1>2. \A q \in Runs \ {r} :
           Acquired(base, r, n)[q] = leases[q]
    BY DEF Acquired
  <1>3. CASE outcome = "launched"
    <2>1. /\ runs' = RunAt(r, n, "running", "none") /\ attempts' = Started(r, n, "running")
          /\ leases' = Acquired(base, r, n)
          /\ continuations' = [continuations EXCEPT ![r] = Claimed(@)]
          /\ proc' = [proc EXCEPT ![r] = Executor("executing", n, TRUE)]
      BY <1>3 DEF ClaimAndLaunch, Cur
    <2>2. leases'[r][n].status = "live" /\ leases'[r][n].attemptVersion = 1
      BY <1>1, <2>1 DEF Acquired
    <2>3. continuations'[r].status = "running" /\ continuations'[r].mine
      BY <2>1, Tables DEF Claimed
    <2>4. Served(r)'
      BY <1>1, <2>1, <2>2, <2>3, StartServed DEF WorkStages
    <2>5. \A q \in Runs \ {r} : ServiceKept(q)
      BY <1>2, <2>1, StartKeeps, Tables DEF ServiceKept, RowsKept
    <2> QED
      BY <2>4, <2>5, ServedAll
  <1>4. CASE outcome = "preparation_failed"
    <2>1. /\ runs' = RunAt(r, n, "blocked", "none") /\ attempts' = Started(r, n, "blocked")
          /\ leases' = base /\ UNCHANGED continuations
          /\ proc' = [proc EXCEPT ![r] = Idle]
      BY <1>4 DEF ClaimAndLaunch, Cur
    <2>2. runs'[r].status # "running"
      BY <2>1, StartKeeps
    <2>3. \A q \in Runs \ {r} : RowsKept(q) /\ proc'[q] = proc[q]
      BY <2>1, StartKeeps, Tables DEF RowsKept
    <2> QED
      BY <2>1, <2>2, <2>3, RestedAll
  <1>5. CASE outcome = "factory_failed"
    <2>1. /\ runs' = RunAt(r, n, "failed", "init") /\ attempts' = Started(r, n, "failed")
          /\ leases' = [Acquired(base, r, n) EXCEPT ![r][n].status = "released"]
          /\ continuations' = EndedContinuation(r)
          /\ proc' = [proc EXCEPT ![r] = Idle]
      BY <1>5 DEF ClaimAndLaunch, Cur
    <2>2. runs'[r].status # "running"
      BY <2>1, StartKeeps
    <2>3. \A q \in Runs \ {r} : leases'[q] = leases[q]
      BY <2>1 DEF Acquired
    <2>4. \A q \in Runs \ {r} : RowsKept(q) /\ proc'[q] = proc[q]
      BY <2>1, <2>3, StartKeeps, Tables DEF RowsKept
    <2>5. \A q \in Runs \ {r} : continuations'[q] = continuations[q]
      BY <2>1, Tables DEF EndedContinuation
    <2> QED
      BY <2>2, <2>4, <2>5, RestedAll
  <1> QED
    BY <1>3, <1>4, <1>5 DEF ClaimAndLaunch

\* A new Attempt is started by a person, or the TaskRun rests.
LEMMA ResumeServed ==
    ASSUME TypeOK, \A q \in Runs : Served(q), NEW r \in Runs, NEW outcome,
           ResumeAttempt(r, outcome), UNCHANGED candidates
    PROVE  \A q \in Runs : Served(q)'
  <1> DEFINE n == runs[r].attempt + 1
  <1>1. n \in Ordinals
    BY TypeParts, BoundsAssumption DEF ResumeAttempt, Cur, Ordinals, RunsOK
  <1>2. \A q \in Runs \ {r} : continuations'[q] = continuations[q]
    BY Tables DEF ResumeAttempt, CancelledQueued, EndedContinuation
  <1>3. CASE outcome = "launched"
    <2>1. /\ runs' = RunAt(r, n, "running", "none") /\ attempts' = Started(r, n, "running")
          /\ leases' = Acquired(leases, r, n)
          /\ proc' = [proc EXCEPT ![r] = Executor("executing", n, FALSE)]
      BY <1>3 DEF ResumeAttempt, Cur
    <2>2. leases'[r][n].status = "live" /\ leases'[r][n].attemptVersion = 1
      BY <1>1, <2>1, Tables DEF Acquired
    <2>3. Served(r)'
      BY <1>1, <2>1, <2>2, StartServed DEF WorkStages
    <2>4. \A q \in Runs \ {r} : leases'[q] = leases[q]
      BY <2>1, Tables DEF Acquired
    <2>5. \A q \in Runs \ {r} : ServiceKept(q)
      BY <1>2, <2>1, <2>4, StartKeeps, Tables DEF ServiceKept, RowsKept
    <2> QED
      BY <2>3, <2>5, ServedAll
  <1>4. CASE outcome # "launched"
    <2>1. /\ \E why : runs' = RunAt(r, n, "failed", why)
          /\ attempts' = Started(r, n, "failed")
          /\ UNCHANGED proc
      BY <1>4 DEF ResumeAttempt, Cur
    <2>2. \A q \in Runs \ {r} : leases'[q] = leases[q]
      BY <1>4, Tables DEF ResumeAttempt, Acquired
    <2>3. /\ runs'[r].status # "running"
          /\ \A q \in Runs \ {r} : runs'[q] = runs[q] /\ attempts'[q] = attempts[q]
      BY <2>1, StartKeeps
    <2> QED
      BY <1>2, <2>1, <2>2, <2>3, RestedAll DEF RowsKept
  <1> QED
    BY <1>3, <1>4

\* A step that changes at most a continuation nobody executes.
LEMMA ContinuationServed ==
    ASSUME TypeOK, \A q \in Runs : Served(q), NEW r \in Runs,
           UNCHANGED <<runs, attempts, leases, candidates, proc>>,
           \A q \in Runs \ {r} : continuations'[q] = continuations[q],
           continuations[r].status = "running" =>
             continuations'[r].status = "running" /\ continuations'[r].mine = continuations[r].mine
    PROVE  \A q \in Runs : Served(q)'
  <1>1. \A q \in Runs \ {r} : ServiceKept(q)
    BY DEF ServiceKept, RowsKept
  <1>2. Recoverable(r) => Recoverable(r)'
    BY DEF Recoverable, Current, Cur
  <1>3. Served(r)'
    BY <1>2 DEF Served
  <1> QED
    BY <1>1, <1>3, ServedAll

\* Every action of SettlementStep leaves every TaskRun served.
LEMMA SettlementStepServed ==
    ASSUME TypeOK, phase = "up", \A q \in Runs : Served(q), NEW r \in Runs, SettlementStep(r)
    PROVE  \A q \in Runs : Served(q)'
  <1>1. ASSUME NEW action \in SettledActions, ReviewDone(r, action)
        PROVE  \A q \in Runs : Served(q)'
    <2>1. proc[r].stage \in WorkStages /\ UNCHANGED continuations
      BY <1>1 DEF ReviewDone, WorkStages
    <2>2. \A q \in Runs \ {r} : proc'[q] = proc[q]
      BY <1>1, Tables DEF ReviewDone, AfterSettlement, Moved, Returned
    <2>3. runs'[r].status # "running" /\ \A q \in Runs \ {r} : RowsKept(q)
      <3>1. CASE ~Current(r) /\ UNCHANGED <<runs, attempts, candidates, leases>>
        BY <3>1, EndedRests DEF RowsKept
      <3>2. CASE SettleAttempt(r, action, Proposed(r, proc[r].attempt, action, TRUE))
        BY <3>2, SettleServed
      <3>3. CASE RecoverInterruptedAttempt(r, Proposed(r, proc[r].attempt, action, TRUE))
        BY <2>1, <3>3, RecoverServed
      <3> QED
        BY <1>1, <3>1, <3>2, <3>3 DEF ReviewDone, closing
    <2> QED
      BY <2>1, <2>2, <2>3, RestedAll
  <1>2. CASE ReviewFails(r)
    <2>1. proc[r].stage \in WorkStages /\ UNCHANGED continuations
      BY <1>2 DEF ReviewFails, WorkStages
    <2>2. CASE SettleUnbound(r, "block_taskrun")
      BY <2>1, <2>2, SettleUnboundServed, RestedAll
    <2>3. CASE /\ proc' = Moved(r, "failReview")
               /\ UNCHANGED <<runs, attempts, candidates, decisions, leases>>
      <3>1. UNCHANGED durable
        BY <1>2, <2>3 DEF ReviewFails, durable
      <3> QED
        BY <2>1, <2>3, <3>1, StageServed DEF WorkStages
    <2> QED
      BY <1>2, <2>2, <2>3 DEF ReviewFails
  <1>3. ASSUME NEW action \in FailureActions, FailReviewDone(r, action)
        PROVE  \A q \in Runs : Served(q)'
    <2>1. proc[r].stage \in WorkStages /\ UNCHANGED continuations /\ SettleUnbound(r, action)
      BY <1>3 DEF FailReviewDone, WorkStages
    <2> QED
      BY <2>1, SettleUnboundServed, RestedAll
  <1>4. CASE \/ RequestApproval(r) \/ AfterExecute(r) \/ QueueContinuation(r)
             \/ DisposeFails(r)
    <2>1. runs[r].status # "running"
      BY <1>4, EndedRests DEF RequestApproval, AfterExecute, QueueContinuation, DisposeFails,
                              WorkStages
    <2>2. UNCHANGED <<runs, attempts, candidates>>
      BY <1>4 DEF RequestApproval, AfterExecute, QueueContinuation, DisposeFails
    <2>3. \A q \in Runs \ {r} : leases'[q] = leases[q]
      BY <1>4, Tables DEF RequestApproval, AfterExecute, QueueContinuation, DisposeFails, Released
    <2>4. \A q \in Runs \ {r} : proc'[q] = proc[q]
      BY <1>4, Tables DEF RequestApproval, AfterExecute, QueueContinuation, DisposeFails,
                          Moved, Returned
    <2>5. \A q \in Runs \ {r} : continuations'[q] = continuations[q]
      BY <1>4, Tables DEF RequestApproval, AfterExecute, QueueContinuation, DisposeFails,
                          EndedContinuation
    <2> QED
      BY <2>1, <2>2, <2>3, <2>4, <2>5, RestedAll DEF RowsKept
  <1>5. ASSUME NEW outcome \in Outcomes, Finalize(r, outcome)
        PROVE  \A q \in Runs : Served(q)'
    <2> DEFINE base == Released(r, proc[r].attempt)
    <2>1. /\ base \in [Runs -> [Ordinals -> LeaseRecord]]
          /\ \A q \in Runs \ {r} : base[q] = leases[q]
      <3>1. base \in [Runs -> [Ordinals -> LeaseRecord]]
        <4>1. proc[r].attempt \in Ordinals
          BY <1>5 DEF Finalize, TypeOK
        <4>2. leases \in LeaseTable
          BY TypeParts
        <4> QED
          BY <4>1, <4>2, ReleasedType DEF LeaseTable
      <3>2. \A q \in Runs \ {r} : base[q] = leases[q]
        BY Tables DEF Released
      <3> QED
        BY <3>1, <3>2
    <2>2. UNCHANGED candidates
      BY <1>5 DEF Finalize
    <2>3. CASE Claimable(r) /\ ClaimAndLaunch(r, outcome, base)
      <3> HIDE DEF base
      <3> QED
        BY <2>1, <2>2, <2>3, ClaimServed
    <2>4. CASE /\ leases' = base /\ proc' = [proc EXCEPT ![r] = Idle]
               /\ UNCHANGED <<runs, attempts, continuations, inputs>>
      <3>1. runs[r].status # "running"
        BY <1>5, EndedRests DEF Finalize, WorkStages
      <3>2. \A q \in Runs \ {r} : proc'[q] = proc[q]
        BY <2>4, Tables
      <3> QED
        BY <2>1, <2>2, <2>4, <3>1, <3>2, RestedAll DEF RowsKept
    <2> QED
      BY <1>5, <2>3, <2>4 DEF Finalize
  <1> QED
    BY <1>1, <1>2, <1>3, <1>4, <1>5 DEF SettlementStep

\* Every action of UserStep leaves every TaskRun served.
LEMMA UserStepServed ==
    ASSUME TypeOK, phase = "up", \A q \in Runs : Served(q), NEW r \in Runs, UserStep(r)
    PROVE  \A q \in Runs : Served(q)'
  <1>1. ASSUME ResumeRefused(r), UNCHANGED candidates
        PROVE  \A q \in Runs : Served(q)'
    <2>1. /\ UNCHANGED <<runs, attempts, leases, candidates, proc>>
          /\ continuations' = CancelledQueued(r)
      BY <1>1 DEF ResumeRefused
    <2>2. /\ \A q \in Runs \ {r} : continuations'[q] = continuations[q]
          /\ continuations[r].status = "running" => continuations'[r] = continuations[r]
      BY <2>1, Tables DEF CancelledQueued, EndedContinuation
    <2> QED
      BY <2>1, <2>2, ContinuationServed
  <1>2. ASSUME UNCHANGED <<runs, attempts, leases, candidates, continuations, proc>>
        PROVE  \A q \in Runs : Served(q)'
    BY <1>2, KeptServed DEF ServiceKept, RowsKept
  <1>3. ASSUME NEW outcome \in Outcomes, Resume(r, outcome)
        PROVE  \A q \in Runs : Served(q)'
    BY <1>1, <1>3, ResumeServed DEF Resume
  <1>4. ASSUME NEW outcome \in Outcomes, Approve(r, outcome)
        PROVE  \A q \in Runs : Served(q)'
    BY <1>1, <1>2, <1>4, ResumeServed DEF Approve
  <1>5. ASSUME NEW outcome \in Outcomes, SubmitInput(r, outcome)
        PROVE  \A q \in Runs : Served(q)'
    BY <1>2, <1>5, ResumeServed DEF SubmitInput
  <1>6. CASE RejectApproval(r)
    BY <1>2, <1>6 DEF RejectApproval
  <1>7. CASE Cancel(r)
    <2>1. /\ runs' = RunMoved(r, "cancelled") /\ attempts' = Projected(r, runs[r].attempt, "cancelled")
          /\ candidates' = Rejected(r, runs[r].attempt) /\ leases' = Released(r, runs[r].attempt)
          /\ UNCHANGED <<continuations, proc>>
      BY <1>7 DEF Cancel, Cur
    <2>2. runs'[r].status # "running"
      BY <2>1, Tables DEF RunMoved, RunRecord
    <2>3. \A q \in Runs \ {r} : RowsKept(q)
      BY <2>1, Tables DEF RowsKept, RunMoved, Projected, Rejected, Released
    <2> QED
      BY <2>1, <2>2, <2>3, RestedAll
  <1>8. CASE ReAdjudicate(r)
    <2>1. /\ runs' = RunMoved(r, "completed") /\ attempts' = Projected(r, runs[r].attempt, "completed")
          /\ candidates' = [candidates EXCEPT ![r][runs[r].attempt].status = "accepted"]
          /\ UNCHANGED <<leases, continuations, proc>>
      BY <1>8 DEF ReAdjudicate, Cur
    <2>2. runs'[r].status # "running"
      BY <2>1, Tables DEF RunMoved, RunRecord
    <2>3. \A q \in Runs \ {r} : RowsKept(q)
      BY <2>1, Tables DEF RowsKept, RunMoved, Projected
    <2> QED
      BY <2>1, <2>2, <2>3, RestedAll
  <1> QED
    BY <1>3, <1>4, <1>5, <1>6, <1>7, <1>8 DEF UserStep

\* An execution lease that expires still proves ownership.
LEMMA ExpiryServed ==
    ASSUME TypeOK, \A q \in Runs : Served(q), NEW r \in Runs, LeaseExpires(r)
    PROVE  \A q \in Runs : Served(q)'
  <1>1. PICK n \in Ordinals : leases' = [leases EXCEPT ![r][n].status = "expired"]
    BY DEF LeaseExpires
  <1>2. UNCHANGED <<runs, attempts, candidates, continuations, proc>>
    BY DEF LeaseExpires
  <1>3. \A m \in Ordinals :
           /\ leases'[r][m].attemptVersion = leases[r][m].attemptVersion
           /\ leases'[r][m].status \in {leases[r][m].status, "expired"}
    BY <1>1, Tables DEF LeaseRecord
  <1>4. \A q \in Runs \ {r} : ServiceKept(q)
    BY <1>1, <1>2, Tables DEF ServiceKept, RowsKept
  <1>5. runs[r].status = "running" /\ Recoverable(r) => Recoverable(r)'
    BY <1>2, <1>3, Tables DEF Recoverable, Current, Cur
  <1>6. Served(r)'
    BY <1>2, <1>5 DEF Served
  <1> QED
    BY <1>4, <1>6, ServedAll

\* Every action of TimerStep leaves every TaskRun served.
LEMMA TimerStepServed ==
    ASSUME TypeOK, phase = "up", \A q \in Runs : Served(q), NEW r \in Runs, TimerStep(r)
    PROVE  \A q \in Runs : Served(q)'
  <1>1. ASSUME NEW outcome \in Outcomes, StartQueuedContinuation(r, outcome)
        PROVE  \A q \in Runs : Served(q)'
    BY <1>1, ClaimServed, Tables DEF StartQueuedContinuation
  <1>2. CASE ContinuationDue(r) \/ ContinuationLeaseExpires(r)
    <2>1. UNCHANGED <<runs, attempts, leases, candidates, proc>>
      BY <1>2 DEF ContinuationDue, ContinuationLeaseExpires
    <2>2. /\ \A q \in Runs \ {r} : continuations'[q] = continuations[q]
          /\ continuations'[r].status = continuations[r].status
          /\ continuations'[r].mine = continuations[r].mine
      BY <1>2, Tables DEF ContinuationDue, ContinuationLeaseExpires, ContinuationRecord
    <2> QED
      BY <2>1, <2>2, ContinuationServed
  <1>3. CASE HeartbeatFails(r) \/ Timeout(r)
    <2>1. proc[r].stage \in WorkStages /\ UNCHANGED <<continuations, proc>>
      BY <1>3 DEF HeartbeatFails, Timeout
    <2>2. CASE RecoverInterruptedAttempt(r, decisions)
      BY <2>1, <2>2, RecoverServed, RestedAll
    <2>3. CASE /\ runs' = RunFailed(r, "timeout")
               /\ attempts' = Projected(r, proc[r].attempt, "failed")
               /\ UNCHANGED <<candidates, decisions, leases>>
      <3>1. runs'[r].status # "running"
        BY <2>3, Tables DEF RunFailed, RunRecord
      <3>2. \A q \in Runs \ {r} : RowsKept(q)
        BY <2>3, Tables DEF RowsKept, RunFailed, Projected
      <3> QED
        BY <2>1, <3>1, <3>2, RestedAll
    <2> QED
      BY <1>3, <2>2, <2>3 DEF HeartbeatFails, Timeout
  <1> QED
    BY <1>1, <1>2, <1>3, ExpiryServed DEF TimerStep

\* Steps of one TaskRun leave the phase alone.
LEMMA RunStepPhase ==
    ASSUME NEW r \in Runs,
           LaunchStep(r) \/ PromptStep(r) \/ SettlementStep(r) \/ UserStep(r) \/ TimerStep(r)
    PROVE  phase' = phase
  <1>1. CASE LaunchStep(r)
    BY <1>1 DEF LaunchStep, CreateRun, RetryLaunch, Launch, LaunchFails, LaunchAbandoned,
       RuntimeInitialized, InitializationFails
  <1>2. CASE PromptStep(r)
    BY <1>2 DEF PromptStep, ToolStarts, ToolCompletes, RequestUserInput, RuntimeSettles,
       RuntimeFails, RuntimeEndsFenced, EndsIdle, EndsUnowned
  <1>3. CASE SettlementStep(r)
    BY <1>3 DEF SettlementStep, ReviewDone, ReviewFails, FailReviewDone, RequestApproval,
       AfterExecute, QueueContinuation, DisposeFails, Finalize
  <1>4. CASE UserStep(r)
    BY <1>4 DEF UserStep, Resume, Approve, SubmitInput, RejectApproval, Cancel, ReAdjudicate
  <1>5. CASE TimerStep(r)
    BY <1>5 DEF TimerStep, StartQueuedContinuation, ContinuationDue, LeaseExpires,
       ContinuationLeaseExpires, HeartbeatFails, Timeout
  <1> QED
    BY <1>1, <1>2, <1>3, <1>4, <1>5

\* Before it serves, the new process has no running TaskRun, and only time may
\* pass: no executor and no request of a person is there yet.
LEMMA StartupRests ==
    ASSUME TypeOK, phase \in {"interrupted", "reconciled"},
           \A q \in Runs : runs[q].status # "running", [Next]_vars
    PROVE  \A q \in Runs : runs'[q].status # "running"
  <1>1. CASE UNCHANGED runs
    BY <1>1
  <1>2. CASE StartupRecover
    BY <1>2, Tables DEF StartupRecover, RunRecord
  <1>3. CASE ~UNCHANGED runs /\ ~StartupRecover
    <2>1. ~Serving /\ ~Alive /\ ~closing
      BY DEF Serving, Alive, closing
    <2>2. ASSUME NEW r \in Runs, LaunchStep(r) PROVE FALSE
      BY <1>3, <2>1, <2>2 DEF LaunchStep, CreateRun, RetryLaunch, Launch, LaunchFails,
         LaunchAbandoned, RuntimeInitialized, InitializationFails
    <2>3. ASSUME NEW r \in Runs, PromptStep(r) PROVE FALSE
      BY <1>3, <2>1, <2>3 DEF PromptStep, ToolStarts, ToolCompletes, RequestUserInput,
         RuntimeSettles, RuntimeFails, RuntimeEndsFenced, EndsIdle, EndsUnowned
    <2>4. ASSUME NEW r \in Runs, SettlementStep(r) PROVE FALSE
      BY <1>3, <2>1, <2>4 DEF SettlementStep, ReviewDone, ReviewFails, FailReviewDone,
         RequestApproval, AfterExecute, QueueContinuation, DisposeFails, Finalize
    <2>5. ASSUME NEW r \in Runs, UserStep(r) PROVE FALSE
      BY <1>3, <2>1, <2>5 DEF UserStep, Resume, Approve, SubmitInput, RejectApproval, Cancel,
         ReAdjudicate
    <2>6. ASSUME NEW r \in Runs, TimerStep(r) PROVE FALSE
      BY <1>3, <2>1, <2>6 DEF TimerStep, StartQueuedContinuation, ContinuationDue,
         LeaseExpires, ContinuationLeaseExpires, HeartbeatFails, Timeout
    <2>7. CASE ProcessStep
      BY <1>3, <2>1, <2>7 DEF ProcessStep, RecoverContinuations, Crash, BeginShutdown,
         ShutdownRelease, ShutdownInterrupt, Startup, StartupReconcile, durable
    <2> QED
      BY <1>3, <2>2, <2>3, <2>4, <2>5, <2>6, <2>7 DEF Next, vars
  <1> QED
    BY <1>1, <1>2, <1>3

\* ServiceInv is inductive under TypeOK.
LEMMA ServiceNext == TypeOK /\ ServiceInv /\ [Next]_vars => ServiceInv'
  <1> SUFFICES ASSUME TypeOK, ServiceInv, [Next]_vars PROVE ServiceInv'
    OBVIOUS
  <1>1. CASE UNCHANGED vars
    <2>1. \A q \in Runs : Served(q) => Served(q)'
      BY <1>1, KeptServed DEF vars, ServiceKept, RowsKept
    <2> QED
      BY <1>1, <2>1 DEF vars, ServiceInv
  <1>2. ASSUME NEW r \in Runs,
               LaunchStep(r) \/ PromptStep(r) \/ SettlementStep(r) \/ UserStep(r) \/ TimerStep(r)
        PROVE  ServiceInv'
    <2>1. phase' = phase
      BY <1>2, RunStepPhase
    <2>2. phase = "up" => \A q \in Runs : Served(q)'
      BY <1>2, LaunchStepServed, PromptStepServed, SettlementStepServed, UserStepServed,
         TimerStepServed DEF ServiceInv
    <2>3. phase \in {"interrupted", "reconciled"} => \A q \in Runs : runs'[q].status # "running"
      BY StartupRests DEF ServiceInv
    <2> QED
      BY <2>1, <2>2, <2>3 DEF ServiceInv
  <1>3. CASE RecoverContinuations
    <2>1. phase = "up" /\ phase' = "up"
      BY <1>3 DEF RecoverContinuations, Serving
    <2>2. \A q \in Runs : Served(q)'
      BY <1>3, <2>1, RequeueServed DEF RecoverContinuations, ServiceInv
    <2> QED
      BY <2>1, <2>2 DEF ServiceInv
  <1>4. CASE Crash \/ BeginShutdown \/ ShutdownRelease \/ ShutdownInterrupt
    BY <1>4 DEF Crash, BeginShutdown, ShutdownRelease, ShutdownInterrupt, ServiceInv
  <1>5. CASE Startup
    <2>1. \A q \in Runs : runs'[q].status # "running"
      BY <1>5, Tables DEF Startup, MarkInterrupted, RunRecord
    <2> QED
      BY <1>5, <2>1 DEF Startup, ServiceInv
  <1>6. CASE StartupReconcile \/ StartupRecover
    <2>1. \A q \in Runs : runs'[q].status # "running"
      BY <1>6, StartupRests DEF StartupReconcile, StartupRecover, ServiceInv
    <2> QED
      BY <2>1, RestServed DEF ServiceInv
  <1> QED
    BY <1>1, <1>2, <1>3, <1>4, <1>5, <1>6 DEF Next, ProcessStep

\* While the process serves, every running TaskRun has an executor of its
\* current Attempt that is being prepared or can still be recovered: no loss of
\* a lease, failed callback, crash or restart leaves one that nobody can end.
THEOREM NoOrphanedRunHolds == Spec => []NoOrphanedRun
  <1>1. Init => ServiceInv
    BY DEF Init, ServiceInv, Served
  <1>2. ServiceInv => NoOrphanedRun
    BY DEF ServiceInv, Served, NoOrphanedRun, Cur
  <1> QED
    BY <1>1, <1>2, ServiceNext, TypeCorrect, PTL DEF Spec

=============================================================================
