-------------------------- MODULE AuthorityProofs --------------------------
(***************************************************************************)
(* Proofs about who may write the database (WriterFence), on whose word a   *)
(* TaskRun is completed (SupervisorAudit), and who owns the items of a Goal *)
(* and on what the Goal is closed (WorkspaceGoals).                         *)
(*                                                                          *)
(* WriterFence, for every set of processes and every bound on the fences,   *)
(* starting from a clean directory or from the files that crashed processes *)
(* left:                                                                    *)
(*                                                                          *)
(* 1. TypeOK is inductive.                                                  *)
(* 2. What acquireCoreInstanceLock does to the rest of the state is said    *)
(*    once (AcquireStep); the other groups of actions are taken one action  *)
(*    at a time.                                                            *)
(* 3. A process past the installation of the guard whose heartbeat is in    *)
(*    time and whose close has not begun is current (Protected).  With what *)
(*    readiness implies (ReadyInv) this gives ReadyIsCurrent.               *)
(* 4. As long as no unlink by path has hit a live process's file, whoever   *)
(*    came past the lock still holds it (LockInv).  This gives              *)
(*    NoOverlappingWriters.                                                 *)
(* 5. No fence is handed out twice, whatever happened to the lock file.     *)
(*                                                                          *)
(* SupervisorAudit, for every set of criteria and contracts, every remark   *)
(* of a judge and every number of Attempts and acceptances:                 *)
(*                                                                          *)
(* 6. What the completion algebra does to an audit: it completes only when  *)
(*    no failure is left, it forgives contract failures alone, and it marks *)
(*    only what an active acceptance names and may qualify.                 *)
(* 7. AuditInv.  A completed TaskRun was judged, and a blocked one that an  *)
(*    acceptance may still complete keeps, in its stored gates, either a    *)
(*    failure nobody can forgive or the verdict on its own candidate.       *)
(* 8. The three invariants follow from AuditInv.                            *)
(*                                                                          *)
(* WorkspaceGoals, for every set of Goals, definitions and Roadmaps and     *)
(* whatever a behaviour spends on decisions, troubles and crashes:          *)
(*                                                                          *)
(* 9. Every method of the repository keeps the database in order            *)
(*    (DatabaseOK): what was approved and done is about items that exist,   *)
(*    and the TaskRun that an item's progress names is the one of its newest*)
(*    link.                                                                 *)
(*    persistRunLinkAndSnapshot appends that link; recordRunOutcome writes  *)
(*    as the owner or not at all; a new Roadmap has no links.               *)
(* 10. OwnershipInv adds the transaction of reconcileRunState, in order too *)
(*    and with the Inbox as committed.  Every step keeps it and admits, of  *)
(*    its own accord, only what has no link (OwnershipStep).                *)
(* 11. ClosingInv.  Evidence only grows, since a TaskRun's Attempt is       *)
(*    harvested once (Onward), so the history of what was heard is the      *)
(*    evidence, and the row updated last is what was heard last.            *)
(***************************************************************************)
EXTENDS WriterFence, SupervisorAudit, WorkspaceGoals, WellFoundedInduction, TLAPS

\* where a process is that has not claimed the lease
Early == {"down", "dead", "crashed", "openStore", "claim"} \X {1} \cup AcquireSteps

\* where it is once its guard is installed, until bootstrapCore throws
Guarded == {"start", "recover", "assemble", "markReady", "running"} \X {1}

\* before the claim nothing of the lifecycle exists, and before the guard no heartbeat
EarlyInv ==
  \A p \in Proc :
    /\ boot[p] \in Early =>
         close[p] = "open" /\ hb[p] = "idle" /\ fence[p] = 0 /\ ~ready[p]
    /\ At(p, "installGuard") => close[p] = "open" /\ hb[p] = "idle" /\ ~ready[p]

FenceInv ==
  \A p \in Proc : At(p, "installGuard") \/ boot[p] \in Guarded => fence[p] # 0

ReadyInv == \A p \in Proc : ready[p] => At(p, "running") /\ ~Closing(p)

Protected ==
  \A p \in Proc : boot[p] \in Guarded /\ ~stale[p] /\ ~Closing(p) => Current(p)

AuthorityInv == EarlyInv /\ FenceInv /\ ReadyInv /\ Protected

LockInv ==
  ~hijacked => \A p \in Proc : boot[p] \in BootSteps /\ close[p] # "closed" => HoldsLock(p)

(***************************************************************************)
(* A fencing token identifies one life of a process: the row's fence grows  *)
(* with every claim, and no two processes ever hold the same one.           *)
(***************************************************************************)
FencesAreUnique ==
  \A p, q \in Proc : fence[p] # 0 /\ fence[p] = fence[q] => p = q

FenceBound == \A p \in Proc : fence[p] <= lease.fence

-----------------------------------------------------------------------------
(* Steps of bootstrapCore, sorted.                                          *)

\* The steps bootstrapCore takes after the lock are of the class they should be.
LEMMA StepClasses ==
    /\ <<"openStore", 1>> \in Early /\ <<"openStore", 1>> \notin Guarded
    /\ <<"claim", 1>> \in Early /\ <<"claim", 1>> \notin Guarded
    /\ <<"dead", 1>> \in Early /\ <<"dead", 1>> \notin Guarded
    /\ <<"crashed", 1>> \in Early /\ <<"crashed", 1>> \notin Guarded
    /\ <<"down", 1>> \in Early /\ <<"down", 1>> \notin Guarded
    /\ <<"start", 1>> \in Guarded /\ <<"start", 1>> \notin Early
    /\ <<"recover", 1>> \in Guarded /\ <<"recover", 1>> \notin Early
    /\ <<"assemble", 1>> \in Guarded /\ <<"assemble", 1>> \notin Early
    /\ <<"markReady", 1>> \in Guarded /\ <<"markReady", 1>> \notin Early
    /\ <<"running", 1>> \in Guarded /\ <<"running", 1>> \notin Early
    /\ <<"installGuard", 1>> \notin Guarded /\ <<"installGuard", 1>> \notin Early
    /\ <<"threw", 1>> \notin Guarded /\ <<"threw", 1>> \notin Early
    /\ <<"openStore", 1>> # <<"installGuard", 1>>
    /\ <<"claim", 1>> # <<"installGuard", 1>>
    /\ <<"dead", 1>> # <<"installGuard", 1>>
    /\ <<"crashed", 1>> # <<"installGuard", 1>>
    /\ <<"down", 1>> # <<"installGuard", 1>>
    /\ <<"start", 1>> # <<"installGuard", 1>>
    /\ <<"recover", 1>> # <<"installGuard", 1>>
    /\ <<"assemble", 1>> # <<"installGuard", 1>>
    /\ <<"markReady", 1>> # <<"installGuard", 1>>
    /\ <<"running", 1>> # <<"installGuard", 1>>
    /\ <<"threw", 1>> # <<"installGuard", 1>>
    /\ <<"openStore", 1>> # <<"running", 1>>
    /\ <<"claim", 1>> # <<"running", 1>>
    /\ <<"dead", 1>> # <<"running", 1>>
    /\ <<"crashed", 1>> # <<"running", 1>>
    /\ <<"down", 1>> # <<"running", 1>>
    /\ <<"start", 1>> # <<"running", 1>>
    /\ <<"recover", 1>> # <<"running", 1>>
    /\ <<"assemble", 1>> # <<"running", 1>>
    /\ <<"markReady", 1>> # <<"running", 1>>
    /\ <<"installGuard", 1>> # <<"running", 1>>
    /\ <<"threw", 1>> # <<"running", 1>>
  BY DEF Early, Guarded, AcquireSteps

-----------------------------------------------------------------------------
(* 1. Types.                                                                *)

\* The files a process creates and fills.
LEMMA FileTypes ==
    /\ None \in Files
    /\ \A p \in Proc : [by |-> p, torn |-> TRUE] \in Files /\ Written(p) \in Files
  BY DEF Files, Written

\* A file is a file.
LEMMA NoneIsNoFile == \A p : p \in Proc => None # Written(p)
  <1>1. \A p \in Proc : Written(p) \in [by : Proc, torn : BOOLEAN]
    BY DEF Written
  <1> QED
    BY <1>1, WriterFenceAssumption

\* A stale file names a process.
LEMMA StaleFileBy ==
    ASSUME NEW f \in Files, StaleFile(f)
    PROVE  f.by \in Proc
  BY DEF Files, StaleFile

\* hijacked after an unlink by path.
LEMMA UnlinkedEffect ==
    ASSUME NEW p, NEW file, hijacked \in BOOLEAN, Unlinked(p, file)
    PROVE  /\ hijacked' \in BOOLEAN
           /\ hijacked => hijacked'
           /\ hijacked' \/ file = None \/ file.by = p \/ Dead(file.by)
  BY Zenon DEF Unlinked

\* acquireCoreInstanceLock keeps the types.
LEMMA TypeAcquire ==
    ASSUME TypeOK, NEW p \in Proc, Acquire(p)
    PROVE  TypeOK'
  <1> USE WriterFenceAssumption, FileTypes DEF TypeOK, Boots, AcquireSteps,
     BootSteps, Go, At, Only, fileVars, lifeVars
  <1>1. CASE Start(p)
    BY <1>1 DEF Start
  <1>2. ASSUME NEW round \in {1, 2}, ReadMarker(p, round)
        PROVE  TypeOK'
    <2>1. CASE StaleFile(marker)
      <3>1. marker.by \in Proc
        BY <2>1, StaleFileBy
      <3>2. boot' \in [Proc -> Boots] /\ observed' \in [Proc -> Proc \cup {None}]
        <4>1. /\ boot' = [boot EXCEPT ![p] = <<"confirmMarker", round>>]
              /\ observed' = [observed EXCEPT ![p] = marker.by]
          BY <1>2, <2>1 DEF ReadMarker
        <4>2. <<"confirmMarker", round>> \in Boots
          OBVIOUS
        <4> QED
          BY <3>1, <4>1, <4>2
      <3> QED
        BY <1>2, <3>2 DEF ReadMarker
    <2>2. CASE ~StaleFile(marker)
      BY <1>2, <2>2 DEF ReadMarker, MarkerDone, MarkerThrow
    <2> QED
      BY <2>1, <2>2
  <1>3. ASSUME NEW round \in {1, 2}, ConfirmMarker(p, round)
        PROVE  TypeOK'
    BY <1>3 DEF ConfirmMarker, StaleFile, MarkerDone, MarkerThrow
  <1>4. ASSUME NEW round \in {1, 2}, UnlinkMarker(p, round)
        PROVE  TypeOK'
    BY <1>4, UnlinkedEffect DEF UnlinkMarker, MarkerDone, MarkerThrow
  <1>5. ASSUME NEW round \in {1, 2}, CreateLock(p, round)
        PROVE  TypeOK'
    BY <1>5 DEF CreateLock
  <1>6. ASSUME NEW round \in {1, 2}, WriteLock(p, round)
        PROVE  TypeOK'
    BY <1>6 DEF WriteLock, Fill
  <1>7. CASE ReadLock(p)
    BY <1>7, StaleFileBy DEF ReadLock
  <1>8. CASE CreateMarker(p)
    BY <1>8 DEF CreateMarker
  <1>9. CASE WriteMarker(p)
    BY <1>9 DEF WriteMarker, Fill
  <1>10. CASE ConfirmLock(p)
    BY <1>10 DEF ConfirmLock, StaleFile
  <1>11. CASE UnlinkLock(p)
    BY <1>11, UnlinkedEffect DEF UnlinkLock
  <1>12. ASSUME NEW round \in {0, 2}, DropMarker(p, round)
        PROVE  TypeOK'
    BY <1>12, UnlinkedEffect DEF DropMarker
  <1>13. CASE AssertHeld(p)
    BY <1>13 DEF AssertHeld, HoldsLock
  <1>14. CASE Abort(p)
    BY <1>14 DEF Abort, HoldsLock
  <1>15. CASE AbortUnlink(p)
    BY <1>15, UnlinkedEffect DEF AbortUnlink
  <1> QED
    BY <1>1, <1>2, <1>3, <1>4, <1>5, <1>6, <1>7, <1>8, <1>9, <1>10, <1>11,
       <1>12, <1>13, <1>14, <1>15 DEF Acquire

\* The rest of bootstrapCore keeps the types.
LEMMA TypeBootstrap ==
    ASSUME TypeOK, NEW p \in Proc, Bootstrap(p)
    PROVE  TypeOK'
  <1> USE WriterFenceAssumption DEF TypeOK, Boots, BootSteps, Closes, Go,
     At, fileVars, lifeVars
  <1>1. CASE OpenStore(p)
    <2>1. CASE SchemaAccepted
      <3>1. receipt' \in [Proc -> {"none", "started", "unknown"}]
        BY <1>1, <2>1 DEF OpenStore
      <3>2. unrenewed' \in [Proc -> BOOLEAN]
        BY <1>1, <2>1 DEF OpenStore
      <3>3. boot' \in [Proc -> Boots]
        BY <1>1, <2>1 DEF OpenStore
      <3> QED
        BY <1>1, <2>1, <3>1, <3>2, <3>3 DEF OpenStore
    <2>2. CASE ~SchemaAccepted
      BY <1>1, <2>2 DEF OpenStore
    <2> QED
      BY <2>1, <2>2
  <1>2. CASE Claim(p)
    <2>1. lease' \in Leases /\ lease.fence + 1 \in 0..MaxFence
      BY <1>2 DEF Claim, Leases
    <2>2. unrenewed' \in [Proc -> BOOLEAN]
      BY <1>2 DEF Claim, Renewed
    <2> QED
      BY <1>2, <2>1, <2>2 DEF Claim
  <1>3. CASE ClaimGivesUp(p)
    BY <1>3 DEF ClaimGivesUp
  <1>4. CASE InstallGuard(p)
    <2>1. CASE Current(p)
      BY <1>4, <2>1 DEF InstallGuard
    <2>2. CASE ~Current(p)
      <3>1. boot' \in [Proc -> Boots] /\ close' \in [Proc -> Closes]
        BY <1>4, <2>2 DEF InstallGuard
      <3> QED
        BY <1>4, <2>2, <3>1 DEF InstallGuard
    <2> QED
      BY <2>1, <2>2
  <1>5. CASE Started(p)
    <2>1. CASE failed[p]
      BY <1>5, <2>1 DEF Started, Threw
    <2>2. CASE ~failed[p]
      BY <1>5, <2>2 DEF Started, Threw
    <2> QED
      BY <2>1, <2>2
  <1>6. CASE StartupRecovery(p)
    <2>1. CASE (Current(p) /\ StoreOpen(p))
      BY <1>6, <2>1 DEF StartupRecovery, Threw
    <2>2. CASE ~(Current(p) /\ StoreOpen(p))
      <3>1. boot' \in [Proc -> Boots] /\ close' \in [Proc -> Closes]
        BY <1>6, <2>2 DEF StartupRecovery, Threw
      <3> QED
        BY <1>6, <3>1 DEF StartupRecovery
    <2> QED
      BY <2>1, <2>2
  <1>7. CASE Assemble(p)
    <2>1. boot' \in [Proc -> Boots] /\ close' \in [Proc -> Closes]
      BY <1>7 DEF Assemble, Threw
    <2> QED
      BY <1>7, <2>1 DEF Assemble
  <1>8. CASE MarkReady(p)
    <2>1. CASE close[p] \in {"open", "requested"} /\ ~failed[p] /\ ~stale[p]
      <3>1. ready' = [ready EXCEPT ![p] = TRUE] /\ UNCHANGED <<close, failed>>
        BY <1>8, <2>1 DEF MarkReady
      <3> QED
        BY <1>8, <2>1, <3>1 DEF MarkReady
    <2>2. CASE ~(close[p] \in {"open", "requested"} /\ ~failed[p] /\ ~stale[p])
      BY <1>8, <2>2 DEF MarkReady, Threw
    <2> QED
      BY <2>1, <2>2
  <1> QED
    BY <1>1, <1>2, <1>3, <1>4, <1>5, <1>6, <1>7, <1>8 DEF Bootstrap

\* The heartbeat and its deadline keep the types.
LEMMA TypeBeat ==
    ASSUME TypeOK, NEW p \in Proc, Beat(p)
    PROVE  TypeOK'
  <1> USE DEF TypeOK, Closes, fileVars, lifeVars
  <1>1. CASE HeartbeatTick(p)
    BY <1>1 DEF HeartbeatTick
  <1>2. CASE HeartbeatLockAnswer(p)
    BY <1>2 DEF HeartbeatLockAnswer
  <1>3. CASE HeartbeatFinish(p)
    <2>1. unrenewed' \in [Proc -> BOOLEAN]
      <3>1. Renewed(p) \in [Proc -> BOOLEAN]
        BY DEF Renewed
      <3> QED
        BY <1>3, <3>1 DEF HeartbeatFinish
    <2>2. hb' \in [Proc -> {"idle", "pending", "held", "lost"}]
      BY <1>3 DEF HeartbeatFinish, HeartbeatThrows
    <2>3. ready' \in [Proc -> BOOLEAN] /\ failed' \in [Proc -> BOOLEAN]
      BY <1>3 DEF HeartbeatFinish, HeartbeatThrows, Fail
    <2>4. close' \in [Proc -> Closes]
      BY <1>3 DEF HeartbeatFinish, HeartbeatThrows, Fail
    <2> QED
      BY <1>3, <2>1, <2>2, <2>3, <2>4 DEF HeartbeatFinish
  <1>4. CASE HeartbeatAges(p)
    BY <1>4 DEF HeartbeatAges
  <1>5. CASE HeartbeatDeadline(p)
    BY <1>5 DEF HeartbeatDeadline, Fail, HeartbeatThrows
  <1>6. CASE DeadlineTimer(p)
    BY <1>6 DEF DeadlineTimer, Fail
  <1> QED
    BY <1>1, <1>2, <1>3, <1>4, <1>5, <1>6 DEF Beat

\* close keeps the types.
LEMMA TypeShutdown ==
    ASSUME TypeOK, NEW p \in Proc, Shutdown(p)
    PROVE  TypeOK'
  <1> USE DEF TypeOK, Closes, fileVars, lifeVars
  <1>1. CASE BeginClose(p)
    BY <1>1 DEF BeginClose
  <1>2. CASE Quiesce(p)
    BY <1>2 DEF Quiesce
  <1>3. CASE JoinHeartbeat(p)
    BY <1>3 DEF JoinHeartbeat
  <1>4. CASE ReleaseLease(p)
    BY <1>4 DEF ReleaseLease, Leases
  <1>5. CASE ReleaseLockRead(p)
    BY <1>5 DEF ReleaseLockRead
  <1>6. CASE ReleaseLockUnlink(p)
    BY <1>6, UnlinkedEffect DEF ReleaseLockUnlink, Files
  <1> QED
    BY <1>1, <1>2, <1>3, <1>4, <1>5, <1>6 DEF Shutdown

\* The end of a process keeps the types.
LEMMA TypeDie ==
    ASSUME TypeOK, NEW p \in Proc, NEW how \in {"dead", "crashed"}, Die(p, how)
    PROVE  TypeOK'
  BY WriterFenceAssumption DEF TypeOK, Die, Go, Boots, Closes, fileVars

\* Every step keeps the types.
LEMMA TypeNext == TypeOK /\ [Next]_vars => TypeOK'
  <1> SUFFICES ASSUME TypeOK, [Next]_vars PROVE TypeOK'
    OBVIOUS
  <1>1. CASE UNCHANGED vars
    BY <1>1 DEF vars, TypeOK
  <1>2. ASSUME NEW p \in Proc, RequestClose(p) PROVE TypeOK'
    BY <1>2 DEF RequestClose, TypeOK, Closes, fileVars
  <1>3. ASSUME NEW p \in Proc, Command(p) PROVE TypeOK'
    BY <1>3 DEF Command, BeginCommand, SettleCommand, TypeOK, fileVars, lifeVars
  <1>4. CASE LeaseExpires
    BY <1>4 DEF LeaseExpires, TypeOK, Leases, fileVars, lifeVars
  <1> QED
    BY <1>1, <1>2, <1>3, <1>4, TypeAcquire, TypeBootstrap, TypeBeat, TypeShutdown, TypeDie
       DEF Next, Exit, Crash

\* The initial state is typed.
LEMMA TypeInit == Init => TypeOK
  <1> SUFFICES ASSUME Init PROVE TypeOK
    OBVIOUS
  <1> USE WriterFenceAssumption DEF Init
  <1>1. lock \in Files /\ marker \in Files
    BY FileTypes
  <1>2. lease \in Leases
    BY DEF Leases
  <1>3. boot \in [Proc -> Boots]
    BY DEF Boots
  <1>4. fence \in [Proc -> 0..MaxFence]
    OBVIOUS
  <1> QED
    BY <1>1, <1>2, <1>3, <1>4 DEF TypeOK, Closes

(***************************************************************************)
(* Type correctness: every step of bootstrapCore, of CoreLifecycle and of   *)
(* the lock and lease code leaves files, lease row and process state        *)
(* well-formed, and no fence exceeds the bound.                             *)
(***************************************************************************)
THEOREM TypeCorrect == Spec => []TypeOK
  BY TypeInit, TypeNext, PTL DEF Spec

-----------------------------------------------------------------------------
(* 2. What acquireCoreInstanceLock does.                                    *)

\* how a step of p may change the lock file
LockStep(p) ==
  /\ hijacked => hijacked'
  /\ \/ lock' = lock
     \/ lock = None
     \/ lock = [by |-> p, torn |-> TRUE]
     \/ lock' = None /\ (hijacked' \/ lock.by = p \/ Dead(lock.by))

\* a step of acquireCoreInstanceLock touches the files only, and goes on to
\* the database only with the lock held
AcquireStep(p) ==
  /\ boot[p] \in AcquireSteps \cup {<<"down", 1>>}
  /\ boot'[p] \in AcquireSteps \cup {<<"dead", 1>>, <<"openStore", 1>>}
  /\ boot' = [boot EXCEPT ![p] = boot'[p]]
  /\ At(p, "openStore")' => HoldsLock(p) /\ UNCHANGED <<lock, hijacked>>
  /\ LockStep(p)
  /\ UNCHANGED <<lease, fence, unrenewed, lifeVars, receipt>>

\* Every step of acquireCoreInstanceLock is an AcquireStep.
LEMMA AcquireEffect ==
    ASSUME TypeOK, NEW p \in Proc, Acquire(p)
    PROVE  AcquireStep(p)
  <1> USE WriterFenceAssumption DEF TypeOK, Boots, AcquireSteps, BootSteps,
     AcquireStep, LockStep, Go, At, Only, fileVars
  <1>1. CASE Start(p)
    BY <1>1 DEF Start
  <1>2. ASSUME NEW round \in {1, 2}, ReadMarker(p, round)
        PROVE  AcquireStep(p)
    BY <1>2 DEF ReadMarker, StaleFile, MarkerDone, MarkerThrow
  <1>3. ASSUME NEW round \in {1, 2}, ConfirmMarker(p, round)
        PROVE  AcquireStep(p)
    BY <1>3 DEF ConfirmMarker, StaleFile, MarkerDone, MarkerThrow
  <1>4. ASSUME NEW round \in {1, 2}, UnlinkMarker(p, round)
        PROVE  AcquireStep(p)
    BY <1>4, UnlinkedEffect DEF UnlinkMarker, MarkerDone, MarkerThrow
  <1>5. ASSUME NEW round \in {1, 2}, CreateLock(p, round)
        PROVE  AcquireStep(p)
    BY <1>5 DEF CreateLock
  <1>6. ASSUME NEW round \in {1, 2}, WriteLock(p, round)
        PROVE  AcquireStep(p)
    BY <1>6 DEF WriteLock, Fill, Written
  <1>7. CASE ReadLock(p)
    BY <1>7 DEF ReadLock, StaleFile
  <1>8. CASE CreateMarker(p)
    BY <1>8 DEF CreateMarker
  <1>9. CASE WriteMarker(p)
    BY <1>9 DEF WriteMarker
  <1>10. CASE ConfirmLock(p)
    BY <1>10 DEF ConfirmLock, StaleFile
  <1>11. CASE UnlinkLock(p)
    BY <1>11, UnlinkedEffect DEF UnlinkLock
  <1>12. ASSUME NEW round \in {0, 2}, DropMarker(p, round)
        PROVE  AcquireStep(p)
    BY <1>12, UnlinkedEffect DEF DropMarker
  <1>13. CASE AssertHeld(p)
    BY <1>13 DEF AssertHeld, HoldsLock
  <1>14. CASE Abort(p)
    BY <1>14 DEF Abort, HoldsLock
  <1>15. CASE AbortUnlink(p)
    BY <1>15, UnlinkedEffect DEF AbortUnlink
  <1> QED
    BY <1>1, <1>2, <1>3, <1>4, <1>5, <1>6, <1>7, <1>8, <1>9, <1>10, <1>11,
       <1>12, <1>13, <1>14, <1>15 DEF Acquire

-----------------------------------------------------------------------------
(* 3. Readiness and the lease.                                              *)

\* acquireCoreInstanceLock keeps AuthorityInv: none of its steps has a lifecycle.
LEMMA AuthorityAcquire ==
    ASSUME TypeOK, AuthorityInv, NEW p \in Proc, Acquire(p)
    PROVE  AuthorityInv'
  <1>1. AcquireStep(p)
    BY AcquireEffect
  <1>2. boot[p] \in Early /\ boot'[p] \in Early
    BY <1>1 DEF AcquireStep, Early
  <1>3. /\ boot'[p] \notin Guarded
        /\ boot'[p] # <<"installGuard", 1>>
        /\ boot[p] # <<"running", 1>>
    BY <1>2 DEF Early, Guarded, AcquireSteps
  <1>4. /\ \A q \in Proc \ {p} : boot'[q] = boot[q]
        /\ UNCHANGED <<lease, fence, hb, stale, ready, close>>
    BY <1>1 DEF AcquireStep, lifeVars, TypeOK
  <1> USE <1>2, <1>3, <1>4 DEF AuthorityInv, At
  <1>5. EarlyInv'
    BY DEF EarlyInv
  <1>6. FenceInv'
    BY DEF FenceInv
  <1>7. ReadyInv'
    BY DEF ReadyInv, Closing
  <1>8. Protected'
    BY DEF Protected, Closing, Current
  <1> QED
    BY <1>5, <1>6, <1>7, <1>8

\* What a step of p that leaves the other processes and the lease row alone has to
\* show: the invariant for p itself.
LEMMA OneProcessKeeps ==
    ASSUME AuthorityInv, NEW p \in Proc, lease' = lease,
           \A q \in Proc \ {p} :
             /\ boot'[q] = boot[q] /\ fence'[q] = fence[q] /\ close'[q] = close[q]
             /\ hb'[q] = hb[q] /\ stale'[q] = stale[q] /\ ready'[q] = ready[q],
           boot'[p] \in Early =>
             close'[p] = "open" /\ hb'[p] = "idle" /\ fence'[p] = 0 /\ ~ready'[p],
           boot'[p] # <<"installGuard", 1>>,
           boot'[p] \in Guarded => fence'[p] # 0,
           ready'[p] => boot'[p] = <<"running", 1>> /\ ~Closing(p)',
           boot'[p] \in Guarded /\ ~stale'[p] /\ ~Closing(p)' => Current(p)'
    PROVE  AuthorityInv'
  <1>1. ASSUME NEW q \in Proc \ {p}
        PROVE  /\ Closing(q)' = Closing(q)
               /\ Current(q)' = Current(q)
    BY DEF Closing, Current
  <1>2. EarlyInv'
    BY DEF AuthorityInv, EarlyInv, At
  <1>3. FenceInv'
    BY DEF AuthorityInv, FenceInv, At
  <1>4. ReadyInv'
    BY <1>1 DEF AuthorityInv, ReadyInv, At
  <1>5. Protected'
    BY <1>1 DEF AuthorityInv, Protected
  <1> QED
    BY <1>2, <1>3, <1>4, <1>5 DEF AuthorityInv

\* bootstrapCore goes on under the guard without touching the rest.
LEMMA AdvanceKeeps ==
    ASSUME TypeOK, AuthorityInv, NEW p \in Proc, NEW step \in Guarded,
           boot[p] \in Guarded, boot[p] # <<"running", 1>>, step # <<"running", 1>>,
           Go(p, step), UNCHANGED <<lease, fence, hb, stale, ready, close>>
    PROVE  AuthorityInv'
  <1>1. boot'[p] = step /\ \A q \in Proc \ {p} : boot'[q] = boot[q]
    BY DEF Go, TypeOK
  <1>2. step \notin Early /\ step # <<"installGuard", 1>>
    BY DEF Early, Guarded, AcquireSteps
  <1>3. fence[p] # 0 /\ ~ready[p] /\ (~stale[p] /\ ~Closing(p) => Current(p))
    BY DEF AuthorityInv, FenceInv, ReadyInv, Protected, At
  <1>4. Closing(p)' = Closing(p) /\ Current(p)' = Current(p)
    BY DEF Closing, Current
  <1> QED
    BY <1>1, <1>2, <1>3, <1>4, OneProcessKeeps

\* bootstrapCore throws before it is ready: the guard protects nothing any more.
LEMMA ThrowKeeps ==
    ASSUME TypeOK, AuthorityInv, NEW p \in Proc, boot[p] # <<"running", 1>>,
           Go(p, <<"threw", 1>>), \A q \in Proc \ {p} : close'[q] = close[q],
           UNCHANGED <<lease, fence, hb, stale, ready>>
    PROVE  AuthorityInv'
  <1>1. boot'[p] = <<"threw", 1>> /\ \A q \in Proc \ {p} : boot'[q] = boot[q]
    BY DEF Go, TypeOK
  <1>2. ~ready[p]
    BY DEF AuthorityInv, ReadyInv, At
  <1> QED
    BY <1>1, <1>2, StepClasses, OneProcessKeeps

\* A throw once the lifecycle exists.
LEMMA ThrewKeeps ==
    ASSUME TypeOK, AuthorityInv, NEW p \in Proc, boot[p] # <<"running", 1>>,
           Threw(p), UNCHANGED <<lease, fence, hb, stale, ready>>
    PROVE  AuthorityInv'
  <1>1. Go(p, <<"threw", 1>>) /\ \A q \in Proc \ {p} : close'[q] = close[q]
    BY DEF Threw, TypeOK
  <1> QED
    BY <1>1, ThrowKeeps

\* Opening the store: nothing of the lifecycle exists before or after.
LEMMA AuthorityOpenStore ==
    ASSUME TypeOK, AuthorityInv, NEW p \in Proc, OpenStore(p)
    PROVE  AuthorityInv'
  <1>1. /\ boot[p] = <<"openStore", 1>>
        /\ UNCHANGED <<lease, fence, hb, stale, ready>>
    BY DEF OpenStore, At
  <1>2. CASE SchemaAccepted
    <2>1. Go(p, <<"claim", 1>>) /\ UNCHANGED close
      BY <1>2 DEF OpenStore
    <2>2. boot'[p] = <<"claim", 1>> /\ \A q \in Proc \ {p} : boot'[q] = boot[q]
      BY <2>1 DEF Go, TypeOK
    <2>3. close[p] = "open" /\ hb[p] = "idle" /\ fence[p] = 0 /\ ~ready[p]
      BY <1>1, StepClasses DEF AuthorityInv, EarlyInv
    <2> QED
      BY <1>1, <2>1, <2>2, <2>3, StepClasses, OneProcessKeeps
  <1>3. CASE ~SchemaAccepted
    <2>1. Go(p, <<"threw", 1>>) /\ \A q \in Proc \ {p} : close'[q] = close[q]
      BY <1>3 DEF OpenStore, TypeOK
    <2> QED
      BY <1>1, <2>1, StepClasses, ThrowKeeps
  <1> QED
    BY <1>2, <1>3

\* A claim needs a row that protects nobody, and makes the claimer its owner.
LEMMA AuthorityClaim ==
    ASSUME TypeOK, AuthorityInv, NEW p \in Proc, Claim(p)
    PROVE  AuthorityInv'
  <1>1. /\ boot[p] = <<"claim", 1>> /\ boot'[p] = <<"installGuard", 1>>
        /\ \A q \in Proc \ {p} : boot'[q] = boot[q] /\ fence'[q] = fence[q]
        /\ UNCHANGED <<close, hb, stale, ready>>
    BY DEF Claim, At, Go, lifeVars, TypeOK
  <1>2. fence'[p] # 0
    <2>1. lease.fence \in Nat /\ fence'[p] = lease.fence + 1
      BY DEF Claim, TypeOK, Leases
    <2> QED
      BY <2>1
  <1>3. close[p] = "open" /\ hb[p] = "idle" /\ ~ready[p]
    BY <1>1, StepClasses DEF AuthorityInv, EarlyInv
  <1>4. ASSUME NEW q \in Proc, Current(q) PROVE FALSE
    BY <1>4, WriterFenceAssumption DEF Claim, Claimable, Current
  <1>5. EarlyInv'
    BY <1>1, <1>3, StepClasses DEF AuthorityInv, EarlyInv, At
  <1>6. FenceInv'
    BY <1>1, <1>2 DEF AuthorityInv, FenceInv, At
  <1>7. ReadyInv'
    BY <1>1, <1>3 DEF AuthorityInv, ReadyInv, At, Closing
  <1>8. Protected'
    BY <1>1, <1>4, StepClasses DEF AuthorityInv, Protected, Closing
  <1> QED
    BY <1>5, <1>6, <1>7, <1>8 DEF AuthorityInv

\* The guard is installed under a current claim, or bootstrapCore throws.
LEMMA AuthorityInstallGuard ==
    ASSUME TypeOK, AuthorityInv, NEW p \in Proc, InstallGuard(p)
    PROVE  AuthorityInv'
  <1>1. /\ boot[p] = <<"installGuard", 1>>
        /\ UNCHANGED <<lease, fence, stale, ready>>
    BY DEF InstallGuard, At
  <1>2. CASE Current(p)
    <2>1. /\ Go(p, <<"start", 1>>) /\ UNCHANGED close
          /\ \A q \in Proc \ {p} : hb'[q] = hb[q]
      BY <1>2 DEF InstallGuard, TypeOK
    <2>2. boot'[p] = <<"start", 1>> /\ \A q \in Proc \ {p} : boot'[q] = boot[q]
      BY <2>1 DEF Go, TypeOK
    <2>3. ~ready[p] /\ fence[p] # 0
      BY <1>1 DEF AuthorityInv, EarlyInv, FenceInv, At
    <2>4. Current(p)'
      BY <1>1, <1>2 DEF Current
    <2> QED
      BY <1>1, <2>1, <2>2, <2>3, <2>4, StepClasses, OneProcessKeeps
  <1>3. CASE ~Current(p)
    <2>1. /\ Go(p, <<"threw", 1>>) /\ UNCHANGED hb
          /\ \A q \in Proc \ {p} : close'[q] = close[q]
      BY <1>3 DEF InstallGuard, TypeOK
    <2> QED
      BY <1>1, <2>1, StepClasses, ThrowKeeps
  <1> QED
    BY <1>2, <1>3

\* The process becomes ready only in time, and only while its close has not begun.
LEMMA AuthorityMarkReady ==
    ASSUME TypeOK, AuthorityInv, NEW p \in Proc, MarkReady(p)
    PROVE  AuthorityInv'
  <1>1. /\ boot[p] = <<"markReady", 1>>
        /\ UNCHANGED <<lease, fence, hb, stale>>
    BY DEF MarkReady, At
  <1>2. CASE close[p] \in {"open", "requested"} /\ ~failed[p] /\ ~stale[p]
    <2>1. /\ Go(p, <<"running", 1>>) /\ UNCHANGED close
          /\ \A q \in Proc \ {p} : ready'[q] = ready[q]
      BY <1>2 DEF MarkReady, TypeOK
    <2>2. boot'[p] = <<"running", 1>> /\ \A q \in Proc \ {p} : boot'[q] = boot[q]
      BY <2>1 DEF Go, TypeOK
    <2>3. ~Closing(p)'
      BY <1>2, <2>1 DEF Closing
    <2>4. fence[p] # 0 /\ Current(p)
      BY <1>1, <1>2, StepClasses DEF AuthorityInv, FenceInv, Protected, Closing
    <2>5. Current(p)'
      BY <1>1, <2>4 DEF Current
    <2> QED
      BY <1>1, <2>1, <2>2, <2>3, <2>4, <2>5, StepClasses, OneProcessKeeps
  <1>3. CASE ~(close[p] \in {"open", "requested"} /\ ~failed[p] /\ ~stale[p])
    <2>1. Threw(p) /\ UNCHANGED ready
      BY <1>3 DEF MarkReady
    <2> QED
      BY <1>1, <2>1, StepClasses, ThrewKeeps
  <1> QED
    BY <1>2, <1>3

\* bootstrapCore after the lock keeps AuthorityInv.
LEMMA AuthorityBootstrap ==
    ASSUME TypeOK, AuthorityInv, NEW p \in Proc, Bootstrap(p)
    PROVE  AuthorityInv'
  <1>1. CASE ClaimGivesUp(p)
    <2>1. /\ boot[p] = <<"claim", 1>> /\ Go(p, <<"threw", 1>>)
          /\ \A q \in Proc \ {p} : close'[q] = close[q]
          /\ UNCHANGED <<lease, fence, hb, stale, ready>>
      BY <1>1 DEF ClaimGivesUp, At, TypeOK
    <2> QED
      BY <2>1, StepClasses, ThrowKeeps
  <1>2. CASE Started(p)
    <2>1. boot[p] = <<"start", 1>> /\ UNCHANGED <<lease, fence, hb, stale, ready>>
      BY <1>2 DEF Started, At
    <2>2. CASE Threw(p)
      BY <2>1, <2>2, StepClasses, ThrewKeeps
    <2>3. CASE Go(p, <<"recover", 1>>) /\ UNCHANGED close
      BY <2>1, <2>3, StepClasses, AdvanceKeeps
    <2> QED
      BY <1>2, <2>2, <2>3 DEF Started
  <1>3. CASE StartupRecovery(p)
    <2>1. boot[p] = <<"recover", 1>> /\ UNCHANGED <<lease, fence, hb, stale, ready>>
      BY <1>3 DEF StartupRecovery, At
    <2>2. CASE Threw(p)
      BY <2>1, <2>2, StepClasses, ThrewKeeps
    <2>3. CASE Go(p, <<"assemble", 1>>) /\ UNCHANGED close
      BY <2>1, <2>3, StepClasses, AdvanceKeeps
    <2> QED
      BY <1>3, <2>2, <2>3 DEF StartupRecovery
  <1>4. CASE Assemble(p)
    <2>1. boot[p] = <<"assemble", 1>> /\ UNCHANGED <<lease, fence, hb, stale, ready>>
      BY <1>4 DEF Assemble, At
    <2>2. CASE Threw(p)
      BY <2>1, <2>2, StepClasses, ThrewKeeps
    <2>3. CASE Go(p, <<"markReady", 1>>) /\ UNCHANGED close
      BY <2>1, <2>3, StepClasses, AdvanceKeeps
    <2> QED
      BY <1>4, <2>2, <2>3 DEF Assemble
  <1> QED
    BY <1>1, <1>2, <1>3, <1>4, AuthorityOpenStore, AuthorityClaim, AuthorityInstallGuard,
       AuthorityMarkReady DEF Bootstrap

\* The heartbeat keeps AuthorityInv: a failure takes readiness away.
LEMMA AuthorityBeat ==
    ASSUME TypeOK, AuthorityInv, NEW p \in Proc, Beat(p)
    PROVE  AuthorityInv'
  <1> USE DEF TypeOK, Leases, Boots, AcquireSteps, BootSteps, Closes, Early,
     Guarded, AuthorityInv, EarlyInv, FenceInv, ReadyInv, Protected,
     Current, Closing, At
  <1>1. CASE HeartbeatTick(p)
    BY <1>1 DEF HeartbeatTick
  <1>2. CASE HeartbeatLockAnswer(p)
    BY <1>2 DEF HeartbeatLockAnswer
  <1>3. CASE HeartbeatFinish(p)
    BY <1>3 DEF HeartbeatFinish, Fail, HeartbeatThrows
  <1>4. CASE HeartbeatAges(p)
    BY <1>4 DEF HeartbeatAges, HasLifecycle
  <1>5. CASE HeartbeatDeadline(p)
    BY <1>5 DEF HeartbeatDeadline, Fail, HeartbeatThrows
  <1>6. CASE DeadlineTimer(p)
    BY <1>6 DEF DeadlineTimer, Fail
  <1> QED
    BY <1>1, <1>2, <1>3, <1>4, <1>5, <1>6 DEF Beat

\* close keeps AuthorityInv: readiness goes before anything is given up.
LEMMA AuthorityShutdown ==
    ASSUME TypeOK, AuthorityInv, NEW p \in Proc, Shutdown(p)
    PROVE  AuthorityInv'
  <1> USE DEF TypeOK, Leases, Boots, AcquireSteps, BootSteps, Closes, Early,
     Guarded, AuthorityInv, EarlyInv, FenceInv, ReadyInv, Protected,
     Current, Closing, At
  <1>1. CASE BeginClose(p)
    BY <1>1 DEF BeginClose
  <1>2. CASE Quiesce(p)
    BY <1>2 DEF Quiesce
  <1>3. CASE JoinHeartbeat(p)
    BY <1>3 DEF JoinHeartbeat
  <1>4. CASE ReleaseLease(p)
    BY <1>4 DEF ReleaseLease
  <1>5. CASE ReleaseLockRead(p)
    BY <1>5 DEF ReleaseLockRead
  <1>6. CASE ReleaseLockUnlink(p)
    BY <1>6 DEF ReleaseLockUnlink
  <1> QED
    BY <1>1, <1>2, <1>3, <1>4, <1>5, <1>6 DEF Shutdown

\* The end of a process keeps AuthorityInv.
LEMMA AuthorityDie ==
    ASSUME TypeOK, AuthorityInv, NEW p \in Proc, NEW how \in {"dead", "crashed"}, Die(p, how)
    PROVE  AuthorityInv'
  <1> USE StepClasses DEF AuthorityInv, At
  <1>1. /\ boot'[p] \in Early
        /\ boot'[p] \notin Guarded /\ boot'[p] # <<"installGuard", 1>>
        /\ fence'[p] = 0 /\ close'[p] = "open" /\ hb'[p] = "idle" /\ ~ready'[p]
    BY DEF Die, Go, TypeOK
  <1>2. /\ \A q \in Proc \ {p} :
             /\ boot'[q] = boot[q] /\ fence'[q] = fence[q] /\ close'[q] = close[q]
             /\ hb'[q] = hb[q] /\ stale'[q] = stale[q] /\ ready'[q] = ready[q]
        /\ lease' = lease
    BY DEF Die, Go, TypeOK
  <1>3. EarlyInv'
    BY <1>1, <1>2 DEF EarlyInv
  <1>4. FenceInv'
    BY <1>1, <1>2 DEF FenceInv
  <1>5. ReadyInv'
    BY <1>1, <1>2 DEF ReadyInv, Closing
  <1>6. Protected'
    BY <1>1, <1>2 DEF Protected, Closing, Current
  <1> QED
    BY <1>3, <1>4, <1>5, <1>6

\* A request to end keeps AuthorityInv: the process goes on until its close begins.
LEMMA AuthorityRequestClose ==
    ASSUME TypeOK, AuthorityInv, NEW p \in Proc, RequestClose(p)
    PROVE  AuthorityInv'
  <1> USE StepClasses DEF AuthorityInv, At
  <1>1. /\ boot[p] = <<"running", 1>>
        /\ close[p] \in {"open", "requested"} => close'[p] = "requested"
        /\ close[p] \notin {"open", "requested"} => close'[p] = close[p]
        /\ \A q \in Proc \ {p} : close'[q] = close[q]
        /\ UNCHANGED <<lease, boot, fence, hb, stale, ready>>
    BY DEF RequestClose, TypeOK
  <1>2. EarlyInv'
    BY <1>1 DEF EarlyInv
  <1>3. FenceInv'
    BY <1>1 DEF FenceInv
  <1>4. ReadyInv'
    BY <1>1 DEF ReadyInv, Closing
  <1>5. Protected'
    BY <1>1 DEF Protected, Closing, Current
  <1> QED
    BY <1>2, <1>3, <1>4, <1>5

\* Every step keeps AuthorityInv.
LEMMA AuthorityNext == TypeOK /\ AuthorityInv /\ [Next]_vars => AuthorityInv'
  <1> SUFFICES ASSUME TypeOK, AuthorityInv, [Next]_vars PROVE AuthorityInv'
    OBVIOUS
  <1> USE DEF AuthorityInv, EarlyInv, FenceInv, ReadyInv, Protected, At, Closing, Current
  <1>1. CASE UNCHANGED vars
    BY <1>1 DEF vars
  <1>2. ASSUME NEW p \in Proc, RequestClose(p) PROVE AuthorityInv'
    BY <1>2, AuthorityRequestClose
  <1>3. ASSUME NEW p \in Proc, Command(p) PROVE AuthorityInv'
    BY <1>3 DEF Command, BeginCommand, SettleCommand, lifeVars
  <1>4. CASE LeaseExpires
    BY <1>4, WriterFenceAssumption
       DEF LeaseExpires, Overdue, Dead, Guarded, TypeOK, Leases, lifeVars
  <1>5. ASSUME NEW p \in Proc, Bootstrap(p) PROVE AuthorityInv'
    BY <1>5, AuthorityBootstrap
  <1> QED
    BY <1>1, <1>2, <1>3, <1>4, <1>5, AuthorityAcquire, AuthorityBeat,
       AuthorityShutdown, AuthorityDie DEF Next, Exit, Crash

\* Nothing is claimed in the initial state.
LEMMA AuthorityInit == Init => AuthorityInv
  BY DEF Init, AuthorityInv, EarlyInv, FenceInv, ReadyInv, Protected, At, Guarded

(***************************************************************************)
(* CoreLifecycle.isWriterReady: a process that reports itself ready is the  *)
(* owner of the lease under the newest fence.                               *)
(***************************************************************************)
THEOREM ReadyWriterIsCurrent == Spec => []ReadyIsCurrent
  <1>1. AuthorityInv => ReadyIsCurrent
    BY StepClasses DEF AuthorityInv, ReadyIsCurrent, ReadyInv, Protected, IsWriterReady, At
  <1> QED
    BY <1>1, AuthorityInit, AuthorityNext, TypeCorrect, PTL DEF Spec

-----------------------------------------------------------------------------
(* 4. The lock file keeps a second writer out.                              *)

\* p came past the lock and has not unlinked it
PastLock(p) == boot[p] \in BootSteps /\ close[p] # "closed"

\* p may write under the fence it claimed
Writer(p) == StoreOpen(p) /\ fence[p] # 0

\* a step that lets nobody past the lock or to the database, and takes the lock
\* from nobody, unless an unlink hits a live process's file
HolderStep ==
  /\ hijacked => hijacked'
  /\ lease'.owner = lease.owner
  /\ \A q \in Proc : /\ PastLock(q)' => PastLock(q)
                     /\ PastLock(q)' /\ HoldsLock(q) => hijacked' \/ lock' = lock
                     /\ Writer(q)' => Writer(q)

OverlapInv == LockInv /\ NoOverlappingWriters

\* Such a step keeps OverlapInv.
LEMMA HolderStepKeeps ==
    ASSUME OverlapInv, HolderStep
    PROVE  OverlapInv'
  <1>1. LockInv'
    BY DEF OverlapInv, LockInv, HolderStep, PastLock, HoldsLock
  <1>2. NoOverlappingWriters'
    BY DEF OverlapInv, NoOverlappingWriters, HolderStep, Writer
  <1> QED
    BY <1>1, <1>2 DEF OverlapInv

\* A step of p alone that touches neither the files nor the fences.
LEMMA HolderStepOf ==
    ASSUME TypeOK, NEW p \in Proc,
           UNCHANGED <<lock, hijacked, fence>>, lease'.owner = lease.owner,
           \A q \in Proc \ {p} : boot'[q] = boot[q] /\ close'[q] = close[q],
           PastLock(p)' => PastLock(p), Writer(p)' => Writer(p)
    PROVE  HolderStep
  <1>1. ASSUME NEW q \in Proc \ {p}
        PROVE  PastLock(q)' = PastLock(q) /\ Writer(q)' = Writer(q)
    BY <1>1 DEF PastLock, Writer, StoreOpen, Dead, At
  <1> QED
    BY <1>1 DEF HolderStep

\* A step past the lock that keeps a closed store closed.
LEMMA HolderStepAt ==
    ASSUME TypeOK, NEW p \in Proc, boot[p] \in BootSteps,
           UNCHANGED <<lock, hijacked, fence>>, lease'.owner = lease.owner,
           \A q \in Proc \ {p} : boot'[q] = boot[q] /\ close'[q] = close[q],
           close[p] \in {"unlock", "unlink", "closed"} => close'[p] = close[p],
           boot[p] = <<"openStore", 1>> => fence[p] = 0
    PROVE  HolderStep
  <1>1. ~Dead(p)
    BY DEF Dead, BootSteps
  <1> QED
    BY <1>1, HolderStepOf DEF PastLock, Writer, StoreOpen, At

\* The steps of bootstrapCore past the lock.
LEMMA BootClasses ==
    /\ <<"openStore", 1>> \in BootSteps
    /\ <<"claim", 1>> \in BootSteps /\ <<"claim", 1>> # <<"openStore", 1>>
    /\ <<"installGuard", 1>> \in BootSteps /\ <<"installGuard", 1>> # <<"openStore", 1>>
    /\ <<"start", 1>> \in BootSteps /\ <<"start", 1>> # <<"openStore", 1>>
    /\ <<"recover", 1>> \in BootSteps /\ <<"recover", 1>> # <<"openStore", 1>>
    /\ <<"assemble", 1>> \in BootSteps /\ <<"assemble", 1>> # <<"openStore", 1>>
    /\ <<"markReady", 1>> \in BootSteps /\ <<"markReady", 1>> # <<"openStore", 1>>
  BY DEF BootSteps

\* acquireCoreInstanceLock keeps OverlapInv: p goes on with the lock held, and
\* whoever holds it keeps it or is hit by an unlink.
LEMMA OverlapAcquire ==
    ASSUME TypeOK, OverlapInv, EarlyInv, NEW p \in Proc, Acquire(p)
    PROVE  OverlapInv'
  <1>1. AcquireStep(p)
    BY AcquireEffect
  <1>2. /\ \A q \in Proc \ {p} : boot'[q] = boot[q]
        /\ UNCHANGED <<lease, fence, close>>
    BY <1>1 DEF AcquireStep, lifeVars, TypeOK
  <1>3. boot'[p] \in BootSteps => At(p, "openStore")'
    BY <1>1 DEF AcquireStep, AcquireSteps, BootSteps, At
  <1>4. LockInv'
    <2>1. SUFFICES ASSUME ~hijacked', NEW q \in Proc, PastLock(q)'
                   PROVE  HoldsLock(q)'
      BY DEF LockInv, PastLock
    <2>2. CASE q = p
      BY <1>1, <1>3, <2>1, <2>2 DEF AcquireStep, PastLock, HoldsLock
    <2>3. CASE q # p
      <3>1. PastLock(q) /\ ~Dead(q)
        BY <1>2, <2>1, <2>3 DEF PastLock, BootSteps, Dead
      <3>2. ~hijacked
        BY <1>1, <2>1 DEF AcquireStep, LockStep
      <3>3. lock = Written(q) /\ lock # None
        BY <3>1, <3>2, NoneIsNoFile DEF OverlapInv, LockInv, PastLock, HoldsLock
      <3>4. lock' = lock
        BY <1>1, <2>1, <2>3, <3>1, <3>3 DEF AcquireStep, LockStep, Written
      <3> QED
        BY <3>3, <3>4 DEF HoldsLock
    <2> QED
      BY <2>2, <2>3
  <1>5. ASSUME NEW q \in Proc PROVE Writer(q)' => Writer(q)
    BY <1>2, <1>3 DEF Writer, StoreOpen, Dead, At
  <1>6. hijacked => hijacked'
    BY <1>1 DEF AcquireStep, LockStep
  <1> QED
    BY <1>2, <1>4, <1>5, <1>6 DEF OverlapInv, NoOverlappingWriters, Writer

\* A claim keeps OverlapInv: the claimant holds the lock, so no other process
\* has the database open under a fence.
LEMMA OverlapClaim ==
    ASSUME TypeOK, OverlapInv, EarlyInv, NEW p \in Proc, Claim(p)
    PROVE  OverlapInv'
  <1>1. /\ boot[p] = <<"claim", 1>> /\ boot'[p] = <<"installGuard", 1>>
        /\ \A q \in Proc \ {p} : boot'[q] = boot[q]
        /\ UNCHANGED <<lock, hijacked, close>>
        /\ lease'.owner = p
    BY DEF Claim, At, Go, TypeOK, fileVars, lifeVars
  <1>2. PastLock(p)
    BY <1>1, StepClasses, BootClasses DEF PastLock, EarlyInv
  <1>3. ASSUME NEW q \in Proc, PastLock(q)' PROVE PastLock(q)
    BY <1>1, <1>2, <1>3 DEF PastLock
  <1>4. LockInv'
    BY <1>1, <1>3 DEF OverlapInv, LockInv, PastLock, HoldsLock
  <1>5. ASSUME ~hijacked, NEW q \in Proc, Writer(q)' PROVE q = p
    <2>1. PastLock(q)
      BY <1>3, <1>5 DEF Writer, StoreOpen, PastLock
    <2> QED
      BY <1>2, <1>5, <2>1 DEF OverlapInv, LockInv, PastLock, HoldsLock, Written
  <1> QED
    BY <1>1, <1>4, <1>5 DEF OverlapInv, NoOverlappingWriters, Writer

\* The rest of bootstrapCore lets nobody past the lock.
LEMMA HolderBootstrap ==
    ASSUME TypeOK, EarlyInv, NEW p \in Proc, Bootstrap(p), ~Claim(p)
    PROVE  HolderStep
  <1> USE HolderStepAt, BootClasses DEF TypeOK, At, Go, fileVars
  <1>1. CASE OpenStore(p)
    <2>1. boot[p] = <<"openStore", 1>> /\ fence[p] = 0 /\ close[p] = "open"
      BY <1>1, StepClasses DEF OpenStore, EarlyInv
    <2>2. /\ \A q \in Proc \ {p} : boot'[q] = boot[q] /\ close'[q] = close[q]
          /\ UNCHANGED <<lock, hijacked, fence, lease>>
      BY <1>1 DEF OpenStore
    <2> QED
      BY <2>1, <2>2
  <1>2. CASE ClaimGivesUp(p)
    BY <1>2, StepClasses DEF ClaimGivesUp, EarlyInv
  <1>3. CASE InstallGuard(p)
    <2>1. CASE Current(p)
      BY <1>3, <2>1 DEF InstallGuard, EarlyInv
    <2>2. CASE ~Current(p)
      BY <1>3, <2>2 DEF InstallGuard, EarlyInv
    <2> QED
      BY <2>1, <2>2
  <1>4. CASE Started(p)
    <2>1. CASE failed[p]
      BY <1>4, <2>1 DEF Started, Threw
    <2>2. CASE ~failed[p]
      BY <1>4, <2>2 DEF Started, Threw
    <2> QED
      BY <2>1, <2>2
  <1>5. CASE StartupRecovery(p)
    <2>1. CASE (Current(p) /\ StoreOpen(p))
      BY <1>5, <2>1 DEF StartupRecovery, Threw
    <2>2. CASE ~(Current(p) /\ StoreOpen(p))
      <3>1. /\ boot[p] = <<"recover", 1>>
            /\ \A q \in Proc \ {p} : boot'[q] = boot[q] /\ close'[q] = close[q]
            /\ close[p] # "open" => close'[p] = close[p]
        BY <1>5, <2>2 DEF StartupRecovery, Threw
      <3> QED
        BY <1>5, <3>1 DEF StartupRecovery
    <2> QED
      BY <2>1, <2>2
  <1>6. CASE Assemble(p)
    BY <1>6 DEF Assemble, Threw
  <1>7. CASE MarkReady(p)
    <2>1. CASE close[p] \in {"open", "requested"} /\ ~failed[p] /\ ~stale[p]
      BY <1>7, <2>1 DEF MarkReady, Threw
    <2>2. CASE ~(close[p] \in {"open", "requested"} /\ ~failed[p] /\ ~stale[p])
      BY <1>7, <2>2 DEF MarkReady, Threw
    <2> QED
      BY <2>1, <2>2
  <1> QED
    BY <1>1, <1>2, <1>3, <1>4, <1>5, <1>6, <1>7 DEF Bootstrap

\* The heartbeat lets nobody past the lock.
LEMMA HolderBeat ==
    ASSUME TypeOK, NEW p \in Proc, Beat(p)
    PROVE  HolderStep
  <1> USE HolderStepOf DEF TypeOK, PastLock, Writer, StoreOpen, Dead, At,
     fileVars, lifeVars
  <1>1. CASE HeartbeatTick(p)
    BY <1>1 DEF HeartbeatTick
  <1>2. CASE HeartbeatLockAnswer(p)
    BY <1>2 DEF HeartbeatLockAnswer
  <1>3. CASE HeartbeatFinish(p)
    BY <1>3 DEF HeartbeatFinish, Fail, HeartbeatThrows
  <1>4. CASE HeartbeatAges(p)
    BY <1>4 DEF HeartbeatAges, HasLifecycle
  <1>5. CASE HeartbeatDeadline(p)
    BY <1>5 DEF HeartbeatDeadline, Fail, HeartbeatThrows
  <1>6. CASE DeadlineTimer(p)
    BY <1>6 DEF DeadlineTimer, Fail
  <1> QED
    BY <1>1, <1>2, <1>3, <1>4, <1>5, <1>6 DEF Beat

\* close gives the lock up once it lets go of the database.
LEMMA HolderShutdown ==
    ASSUME TypeOK, NEW p \in Proc, Shutdown(p)
    PROVE  HolderStep
  <1> USE HolderStepOf DEF TypeOK, PastLock, Writer, StoreOpen, Dead, At,
     fileVars, lifeVars
  <1>1. CASE BeginClose(p)
    BY <1>1 DEF BeginClose
  <1>2. CASE Quiesce(p)
    BY <1>2 DEF Quiesce
  <1>3. CASE JoinHeartbeat(p)
    BY <1>3 DEF JoinHeartbeat
  <1>4. CASE ReleaseLease(p)
    BY <1>4 DEF ReleaseLease
  <1>5. CASE ReleaseLockRead(p)
    BY <1>5 DEF ReleaseLockRead
  <1>6. CASE ReleaseLockUnlink(p)
    <2>1. /\ lock' = None /\ close'[p] = "closed"
          /\ \A q \in Proc \ {p} : close'[q] = close[q]
          /\ UNCHANGED <<boot, fence, lease>>
      BY <1>6 DEF ReleaseLockUnlink
    <2>2. /\ hijacked => hijacked'
          /\ hijacked' \/ lock = None \/ lock.by = p \/ Dead(lock.by)
      BY <1>6, UnlinkedEffect DEF ReleaseLockUnlink
    <2>3. ASSUME NEW q \in Proc, PastLock(q)'
          PROVE  PastLock(q) /\ (HoldsLock(q) => hijacked')
      <3>1. q # p /\ PastLock(q) /\ ~Dead(q)
        BY <2>1, <2>3 DEF BootSteps
      <3> QED
        BY <2>2, <3>1, NoneIsNoFile DEF HoldsLock, Written
    <2>4. ASSUME NEW q \in Proc, Writer(q)' PROVE Writer(q)
      BY <2>1, <2>4
    <2> QED
      BY <2>1, <2>2, <2>3, <2>4 DEF HolderStep
  <1> QED
    BY <1>1, <1>2, <1>3, <1>4, <1>5, <1>6 DEF Shutdown

\* Every step keeps OverlapInv.
LEMMA OverlapNext ==
    TypeOK /\ EarlyInv /\ OverlapInv /\ [Next]_vars => OverlapInv'
  <1> SUFFICES ASSUME TypeOK, EarlyInv, OverlapInv, [Next]_vars PROVE OverlapInv'
    OBVIOUS
  <1> USE DEF PastLock, Writer, StoreOpen, Dead, At, fileVars, lifeVars
  <1>1. CASE UNCHANGED vars
    BY <1>1 DEF vars, OverlapInv, LockInv, NoOverlappingWriters, HoldsLock
  <1>2. ASSUME NEW p \in Proc, Bootstrap(p) PROVE OverlapInv'
    BY <1>2, OverlapClaim, HolderBootstrap, HolderStepKeeps
  <1>3. ASSUME NEW p \in Proc, RequestClose(p) PROVE HolderStep
    BY <1>3, HolderStepOf DEF RequestClose, TypeOK
  <1>4. ASSUME NEW p \in Proc, NEW how \in {"dead", "crashed"}, Die(p, how)
        PROVE  HolderStep
    <2>1. /\ boot'[p] \notin BootSteps
          /\ \A q \in Proc \ {p} : boot'[q] = boot[q] /\ close'[q] = close[q]
                                   /\ fence'[q] = fence[q]
          /\ UNCHANGED <<lock, hijacked, lease>>
      BY <1>4 DEF Die, Go, BootSteps, TypeOK
    <2> QED
      BY <2>1 DEF HolderStep, HoldsLock
  <1>5. ASSUME NEW p \in Proc, Command(p) PROVE HolderStep
    BY <1>5, HolderStepOf DEF Command, BeginCommand, SettleCommand
  <1>6. CASE LeaseExpires
    <2>1. UNCHANGED <<lock, hijacked, boot, close, fence>> /\ lease'.owner = lease.owner
      BY <1>6 DEF LeaseExpires, TypeOK, Leases
    <2> QED
      BY <2>1, HolderStepKeeps DEF HolderStep
  <1>7. ASSUME NEW p \in Proc, Beat(p) \/ Shutdown(p) PROVE HolderStep
    BY <1>7, HolderBeat, HolderShutdown
  <1> QED
    BY <1>1, <1>2, <1>3, <1>4, <1>5, <1>6, <1>7, OverlapAcquire, HolderStepKeeps
       DEF Next, Exit, Crash

\* Nobody is past the lock in the initial state.
LEMMA OverlapInit == Init => OverlapInv
  BY DEF Init, OverlapInv, LockInv, NoOverlappingWriters, BootSteps, StoreOpen

(***************************************************************************)
(* The instance lock: as long as no unlink by path hit the file of a live   *)
(* process, a process that has its database open under a fence is the last  *)
(* one that claimed the lease.                                              *)
(***************************************************************************)
THEOREM WritersDoNotOverlap == Spec => []NoOverlappingWriters
  <1>1. OverlapInv => NoOverlappingWriters
    BY DEF OverlapInv
  <1>2. AuthorityInv => EarlyInv
    BY DEF AuthorityInv
  <1> QED
    BY <1>1, <1>2, OverlapInit, OverlapNext, AuthorityInit, AuthorityNext, TypeCorrect, PTL
       DEF Spec

-----------------------------------------------------------------------------
(* 5. Fences.                                                               *)

\* Only a claim hands out a fence, and it is newer than the row's.
LEMMA FenceStep ==
    ASSUME TypeOK, [Next]_vars
    PROVE  \/ \E p \in Proc : /\ fence' = [fence EXCEPT ![p] = lease.fence + 1]
                              /\ lease'.fence = lease.fence + 1
           \/ /\ \A q \in Proc : fence'[q] \in {0, fence[q]}
              /\ lease'.fence = lease.fence
  <1> USE DEF fileVars, lifeVars
  <1>1. CASE UNCHANGED vars
    BY <1>1 DEF vars
  <1>2. ASSUME NEW p \in Proc, Acquire(p) PROVE UNCHANGED <<fence, lease>>
    BY <1>2, AcquireEffect DEF AcquireStep
  <1>3. ASSUME NEW p \in Proc, Claim(p)
        PROVE  /\ fence' = [fence EXCEPT ![p] = lease.fence + 1]
               /\ lease'.fence = lease.fence + 1
    BY <1>3 DEF Claim
  <1>4. ASSUME NEW p \in Proc, Bootstrap(p), ~Claim(p)
        PROVE  UNCHANGED <<fence, lease>>
    BY <1>4 DEF Bootstrap, OpenStore, ClaimGivesUp, InstallGuard, Started, StartupRecovery,
                Assemble, MarkReady
  <1>5. ASSUME NEW p \in Proc, Beat(p) PROVE UNCHANGED <<fence, lease>>
    BY <1>5 DEF Beat, HeartbeatTick, HeartbeatLockAnswer, HeartbeatFinish, HeartbeatAges,
                HeartbeatDeadline, DeadlineTimer
  <1>6. ASSUME NEW p \in Proc, Shutdown(p)
        PROVE  fence' = fence /\ lease'.fence = lease.fence
    BY <1>6 DEF Shutdown, BeginClose, Quiesce, JoinHeartbeat, ReleaseLease, ReleaseLockRead,
                ReleaseLockUnlink, TypeOK, Leases
  <1>7. ASSUME NEW p \in Proc, RequestClose(p) \/ Command(p) PROVE UNCHANGED <<fence, lease>>
    BY <1>7 DEF RequestClose, Command, BeginCommand, SettleCommand
  <1>8. ASSUME NEW p \in Proc, Exit(p) \/ Crash(p)
        PROVE  lease' = lease /\ \A q \in Proc : fence'[q] \in {0, fence[q]}
    BY <1>8 DEF Exit, Crash, Die, TypeOK
  <1>9. CASE LeaseExpires
    BY <1>9 DEF LeaseExpires, TypeOK, Leases
  <1> QED
    BY <1>1, <1>2, <1>3, <1>4, <1>5, <1>6, <1>7, <1>8, <1>9 DEF Next

\* Every step keeps fences unique and below the row's.
LEMMA FenceNext ==
    TypeOK /\ FenceBound /\ FencesAreUnique /\ [Next]_vars
      => FenceBound' /\ FencesAreUnique'
  <1> SUFFICES ASSUME TypeOK, FenceBound, FencesAreUnique, [Next]_vars
               PROVE  FenceBound' /\ FencesAreUnique'
    OBVIOUS
  <1>1. lease.fence \in Nat /\ fence \in [Proc -> Nat]
    BY WriterFenceAssumption DEF TypeOK, Leases
  <1>2. ASSUME NEW p \in Proc, fence' = [fence EXCEPT ![p] = lease.fence + 1],
               lease'.fence = lease.fence + 1
        PROVE  FenceBound' /\ FencesAreUnique'
    BY <1>1, <1>2 DEF FenceBound, FencesAreUnique
  <1>3. ASSUME \A q \in Proc : fence'[q] \in {0, fence[q]}, lease'.fence = lease.fence
        PROVE  FenceBound' /\ FencesAreUnique'
    BY <1>1, <1>3 DEF FenceBound, FencesAreUnique
  <1> QED
    BY <1>2, <1>3, FenceStep

(***************************************************************************)
(* CoreWriterLease.claim: no two processes ever hold the same fence, not    *)
(* even after a lock file was lost, so what the guard compares identifies   *)
(* one claim.                                                               *)
(***************************************************************************)
THEOREM FencesNeverRepeat == Spec => []FencesAreUnique
  <1>1. Init => FenceBound /\ FencesAreUnique
    BY DEF Init, FenceBound, FencesAreUnique
  <1> QED
    BY <1>1, FenceNext, TypeCorrect, PTL DEF Spec

(***************************************************************************)
(* The fence of the row never falls: neither a release nor an expiry gives  *)
(* a fence back.                                                            *)
(***************************************************************************)
FenceOnlyGrows == [][lease'.fence >= lease.fence]_vars

\* CoreWriterLease: claim, heartbeat, release and expiry let the row's fence grow only.
THEOREM RowFenceOnlyGrows == Spec => FenceOnlyGrows
  <1>1. TypeOK /\ [Next]_vars => [lease'.fence >= lease.fence]_vars
    BY FenceStep, WriterFenceAssumption DEF TypeOK, Leases
  <1> QED
    BY <1>1, TypeCorrect, PTL DEF Spec, FenceOnlyGrows

-----------------------------------------------------------------------------
(* 6. The algebra.                                                         *)

\* Only an audit without failures completes.
LEMMA DerivedAction ==
    ASSUME NEW fs
    PROVE  deriveSupervisorAction(fs) = "complete_taskrun" <=> fs = {}
  BY DEF deriveSupervisorAction

\* a failure that no acceptance forgives
Unforgivable(a) == \E f \in a.gates.completion.failures : f.kind # "contract"

\* a receipt of the coverage of an audit
ReceiptShape(r) == {"status", "accepted"} \subseteq DOMAIN r /\ r.accepted \in BOOLEAN

\* what the algebra must find in an audit
AuditShape(a) ==
    /\ GateTypes \subseteq DOMAIN a.gates
    /\ \A c \in DOMAIN a.coverage : ReceiptShape(a.coverage[c])

\* The result of the algebra, part by part.
LEMMA AlgebraParts ==
    ASSUME NEW a, NEW active, AuditShape(a)
    PROVE  LET e   == enforceCompletionAuditAlgebra(a, active)
               now == Qualified(a, active)
               all == CompletionFailures(a, now, ContractFailures(a, now))
           IN  /\ e.coverage = Marked(a, now)
               /\ e.action = deriveSupervisorAction(all)
               /\ e.gates.completion.failures = all
               /\ DOMAIN e.gates = DOMAIN a.gates
  BY DEF enforceCompletionAuditAlgebra, AuditShape, GateTypes

\* A failure that is not of the contract stays, and nothing completes over it.
LEMMA UnforgivableStays ==
    ASSUME NEW a, NEW active, AuditShape(a), Unforgivable(a)
    PROVE  LET e == enforceCompletionAuditAlgebra(a, active)
           IN  Unforgivable(e) /\ e.action # "complete_taskrun"
  <1> DEFINE now == Qualified(a, active)
             all == CompletionFailures(a, now, ContractFailures(a, now))
  <1>1. PICK f \in a.gates.completion.failures : f.kind # "contract"
    BY DEF Unforgivable
  <1>2. f \in all
    BY <1>1 DEF CompletionFailures, Unforgiven, Forgiven
  <1> QED
    BY <1>1, <1>2, AlgebraParts, DerivedAction DEF Unforgivable

\* The coverage keeps its statuses, and a mark has a reason.
LEMMA MarksHaveReasons ==
    ASSUME NEW a, NEW active, AuditShape(a)
    PROVE  LET e == enforceCompletionAuditAlgebra(a, active)
           IN  /\ DOMAIN e.coverage = DOMAIN a.coverage
               /\ \A c \in DOMAIN a.coverage :
                     /\ ReceiptShape(e.coverage[c])
                     /\ e.coverage[c].status = a.coverage[c].status
                     /\ e.coverage[c].accepted =>
                           \/ a.coverage[c].accepted
                           \/ c \in active /\ a.coverage[c].status \in Honest
  <1> DEFINE m == Marked(a, Qualified(a, active))
  <1>1. DOMAIN m = DOMAIN a.coverage
    BY DEF Marked
  <1>2. ASSUME NEW c \in DOMAIN a.coverage
        PROVE  /\ ReceiptShape(m[c]) /\ m[c].status = a.coverage[c].status
               /\ m[c].accepted => \/ a.coverage[c].accepted
                                   \/ c \in active /\ a.coverage[c].status \in Honest
    BY <1>2 DEF Marked, Qualified, Qualifies, AuditShape, ReceiptShape
  <1> QED
    BY <1>1, <1>2, AlgebraParts

\* A completing audit leaves no criterion of a strict contract open.
LEMMA NothingOpen ==
    ASSUME NEW a, NEW active, AuditShape(a), contract.profile = "strict",
           enforceCompletionAuditAlgebra(a, active).action = "complete_taskrun"
    PROVE  \A c \in DOMAIN a.coverage :
              \/ a.coverage[c].status = "covered"
              \/ enforceCompletionAuditAlgebra(a, active).coverage[c].accepted
  <1> DEFINE now == Qualified(a, active)
             m   == Marked(a, now)
  <1>1. CompletionFailures(a, now, ContractFailures(a, now)) = {}
    BY AlgebraParts, DerivedAction
  <1>2. ContractFailures(a, now) = {}
    BY <1>1 DEF CompletionFailures
  <1>3. Open(m) = {}
    BY <1>2 DEF ContractFailures
  <1>4. DOMAIN m = DOMAIN a.coverage
    BY DEF Marked
  <1>5. ASSUME NEW c \in DOMAIN a.coverage PROVE m[c].status = a.coverage[c].status
    BY <1>5 DEF Marked, AuditShape, ReceiptShape
  <1> QED
    BY <1>3, <1>4, <1>5, AlgebraParts DEF Open

\* A review's own audit, before Core's algebra.
Source(a) == {"gates", "coverage", "action"} \subseteq DOMAIN a /\ AuditShape(a)

\* Asking for an approval adds a failure.
LEMMA ApprovalAdds ==
    ASSUME NEW a, Source(a)
    PROVE  LET r == requireExternalContinuationApproval(a)
           IN  /\ AuditShape(r) /\ r.coverage = a.coverage
               /\ Unforgivable(a) => Unforgivable(r)
  BY DEF requireExternalContinuationApproval, Source, AuditShape, GateTypes, Unforgivable

\* The audits a review makes.
LEMMA AuditParts ==
    ASSUME NEW progress, NEW evidence, NEW criteria, NEW completion, NEW continuation, NEW coverage,
           \A c \in DOMAIN coverage : ReceiptShape(coverage[c])
    PROVE  LET a == Audit(progress, evidence, criteria, completion, continuation, coverage)
           IN  /\ Source(a) /\ a.coverage = coverage
               /\ a.gates.completion.failures = completion
  BY DEF Audit, Source, AuditShape, GateTypes, Gate

\* The coverage a verdict is turned into.
LEMMA ReceiptsOf ==
    ASSUME NEW s
    PROVE  /\ DOMAIN Receipts(s) = DOMAIN s
           /\ \A c \in DOMAIN s : /\ ReceiptShape(Receipts(s)[c]) /\ Receipts(s)[c].status = s[c]
                                  /\ ~Receipts(s)[c].accepted
  BY DEF Receipts, ReceiptShape

\* what the review makes of a judgement s of the criteria
JudgedAs(a, s) ==
    /\ DOMAIN a.coverage = DOMAIN s
    /\ \A c \in DOMAIN s : a.coverage[c].status = s[c] /\ ~a.coverage[c].accepted

\* Each review keeps the verdict it was given.
LEMMA ReviewKeepsVerdict ==
    ASSUME NEW v
    PROVE  Source(Reviewed(v)) /\ JudgedAs(Reviewed(v), v.coverage)
  <1>1. Source(reviewRelaxed(v)) /\ JudgedAs(reviewRelaxed(v), v.coverage)
    <2>1. PICK fs : reviewRelaxed(v) = Audit({}, {}, fs, fs \union DeliveryFailures(v), {},
                                             Receipts(v.coverage))
      BY DEF reviewRelaxed
    <2> QED
      BY <2>1, AuditParts, ReceiptsOf DEF JudgedAs
  <1>2. Source(reviewSemanticLite(v)) /\ JudgedAs(reviewSemanticLite(v), v.coverage)
    BY AuditParts, ReceiptsOf DEF reviewSemanticLite, JudgedAs
  <1>3. LET a == parseSemanticVerdict(removeProjectionOnlyFailures(v))
        IN  Source(a) /\ JudgedAs(a, v.coverage)
    <2>1. PICK w : w = removeProjectionOnlyFailures(v)
      OBVIOUS
    <2>2. w.coverage = v.coverage
      BY <2>1 DEF removeProjectionOnlyFailures
    <2>3. Source(parseSemanticVerdict(w)) /\ JudgedAs(parseSemanticVerdict(w), w.coverage)
      BY AuditParts, ReceiptsOf DEF parseSemanticVerdict, JudgedAs
    <2> QED
      BY <2>1, <2>2, <2>3
  <1> QED
    BY <1>1, <1>2, <1>3 DEF Reviewed

\* A compared literal is covered or contradicted throughout.
LEMMA LiteralKeepsVerdict ==
    ASSUME NEW m
    PROVE  LET a == reviewExactCompletion(m)
           IN  /\ Source(a) /\ DOMAIN a.coverage = Criteria
               /\ JudgedAs(a, [c \in Criteria |-> a.coverage[c].status])
  BY AuditParts, ReceiptsOf DEF reviewExactCompletion, JudgedAs

\* An outage of the judge is a failure nobody can forgive.
LEMMA OutageIsUnforgivable ==
    Source(conservativeSettledAudit) /\ Unforgivable(conservativeSettledAudit)
  <1> DEFINE f == Failure("supervisor", <<"semantic_review_unavailable", 0>>, "external_dependency")
             coverage == Receipts([c \in Criteria |-> "blocked"])
             a == Audit({}, IF ValidRefs = {} THEN {f} ELSE {}, {f}, {f}, {f}, coverage)
  <1>1. \A c \in DOMAIN coverage : ReceiptShape(coverage[c])
    BY ReceiptsOf
  <1>2. Source(a) /\ a.gates.completion.failures = {f}
    BY <1>1, AuditParts
  <1>3. f.kind # "contract"
    BY DEF Failure
  <1> QED
    BY <1>2, <1>3 DEF conservativeSettledAudit, Unforgivable

\* So is a prerequisite that fails.
LEMMA UnpreparedIsUnforgivable ==
    ASSUME ~PrerequisitesPass
    PROVE  Source(reviewDeterministicPrerequisites) /\ Unforgivable(reviewDeterministicPrerequisites)
  <1> DEFINE fs == PlanFailures \union CheckFailures
             a  == Audit(PlanFailures, CheckFailures, {}, fs, {}, <<>>)
             r  == [a EXCEPT !.gates.contract.passed = FALSE]
  <1>1. PICK f \in fs : f.kind # "contract"
    BY DEF PrerequisitesPass, PlanFailures, CheckFailures, Failure
  <1>2. Source(r) /\ r.gates.completion.failures = fs
    BY DEF Audit, Source, AuditShape, GateTypes, Gate
  <1> QED
    BY <1>1, <1>2 DEF reviewDeterministicPrerequisites, Unforgivable

\* A policy that needs a trusted check also needs a plan.
LEMMA TrustedNeedsPlan ==
    Policy.evidence = "trusted_check" => Policy.mode \in {"workspace_mutation", "external_action"}
  <1> DEFINE p == contract.policy
  <1>1. NormalizedMode(p) \in Modes
    BY DEF NormalizedMode, Modes
  <1>2. /\ Normalized(p).mode = NormalizedMode(p)
        /\ Normalized(p).evidence = Profile[NormalizedMode(p)][2]
        /\ DOMAIN Normalized(p) = {"mode", "risk", "evidence", "review", "literal"}
    BY DEF Normalized, Canonical
  <1>3. Normalized(p).evidence = "trusted_check"
           => Normalized(p).mode \in {"workspace_mutation", "external_action"}
    BY <1>1, <1>2 DEF Profile, Modes
  <1>4. /\ Raised(Normalized(p)).mode \in {"workspace_mutation", "external_action"}
        /\ DOMAIN Raised(Normalized(p)) = {"mode", "risk", "evidence", "review", "literal"}
    BY <1>2 DEF Raised
  <1>5. \A m, l : Canonical(m, l).mode = m
                  /\ DOMAIN Canonical(m, l) = {"mode", "risk", "evidence", "review", "literal"}
    BY DEF Canonical
  <1>6. \A seen \in BOOLEAN :
           LET e == effectiveTaskExecutionPolicy(p, FALSE, seen)
           IN  e.evidence = "trusted_check" => e.mode \in {"workspace_mutation", "external_action"}
    BY <1>2, <1>3, <1>4, <1>5 DEF effectiveTaskExecutionPolicy
  <1>7. (Op \in {"change", "failed"}) \in BOOLEAN
    OBVIOUS
  <1> QED
    BY <1>6, <1>7 DEF Policy

-----------------------------------------------------------------------------
(* 7. The invariant.                                                       *)

Candidates == [status : {"none", "proposed", "accepted", "rejected"}, text : BOOLEAN]

\* the rows have their fields
Shapes ==
    /\ {"status", "attempt", "queued", "approval"} \subseteq DOMAIN run
    /\ run.status \in {"running", "blocked", "completed", "cancelled"}
    /\ {"plan", "ops", "check", "stale", "control"} \subseteq DOMAIN work
    /\ {"stage", "model", "long"} \subseteq DOMAIN review
    /\ {"attempt", "action", "status", "bound"} \subseteq DOMAIN decision
    /\ decision.bound \in BOOLEAN
    /\ candidate \in Candidates
    /\ \A a \in accepted : {"criterion", "expires", "live"} \subseteq DOMAIN a

Strict == contract.profile = "strict"

OnRecord(c) == \E a \in accepted : a.criterion = c

\* a review is under way while the Attempt runs, or after it was cancelled
ReviewOK ==
    /\ run.status \in {"blocked", "completed"} => review.stage = "none"
    /\ review.stage = "judging" =>
          candidate = Proposed /\ contract.profile # "off" /\ (Strict => PrerequisitesPass)

\* the decision that an acceptance may overrule
Overrulable ==
    /\ run.status = "blocked"
    /\ decision.attempt = Attempt /\ decision.action = "block_taskrun"
    /\ decision.status = "executed" /\ decision.bound /\ candidate.text

\* the stored gates hold the verdict on this candidate
HoldsVerdict ==
    /\ verdict.by \in {"core", "model"}
    /\ PrerequisitesPass
    /\ DOMAIN gates.coverage = DOMAIN verdict.coverage
    /\ \A c \in DOMAIN verdict.coverage :
          /\ gates.coverage[c].status = verdict.coverage[c]
          /\ gates.coverage[c].accepted => verdict.coverage[c] \in Honest /\ OnRecord(c)

GatesOK ==
    Strict /\ Overrulable => AuditShape(gates) /\ (Unforgivable(gates) \/ HoldsVerdict)

CompletedOK ==
    Completed =>
        /\ contract.profile # "off" =>
              /\ candidate = [status |-> "accepted", text |-> TRUE]
              /\ verdict.by \in {"core", "model"}
        /\ Strict =>
              /\ PrerequisitesPass
              /\ \A c \in DOMAIN verdict.coverage :
                    \/ verdict.coverage[c] = "covered"
                    \/ verdict.coverage[c] \in Honest /\ OnRecord(c)

AuditInv == Shapes /\ ReviewOK /\ GatesOK /\ CompletedOK

\* The prerequisites depend on the contract, the Attempt and its work.
LEMMA PrerequisitesKept ==
    ASSUME UNCHANGED contract, run'.attempt = run.attempt, work'.plan = work.plan,
           work'.ops = work.ops, work'.check = work.check, work'.stale = work.stale
    PROVE  PrerequisitesPass' = PrerequisitesPass
  BY DEF PrerequisitesPass, PlanFailures, CheckFailures, TrustedCheck, Policy, Op, Attempt

\* The work of a running Attempt.
LEMMA AuditWorks ==
    ASSUME AuditInv, Works
    PROVE  AuditInv'
  <1>1. /\ UNCHANGED <<run, contract, candidate, review, gates, decision, accepted, verdict>>
        /\ run.status = "running"
    BY DEF Works, UpdatePlan, RunTool, RegisterCheck, ReceiveControl, DeliverControl, Working
  <1>2. Shapes'
    BY <1>1 DEF AuditInv, Shapes, Works, UpdatePlan, RunTool, RegisterCheck, ReceiveControl,
                DeliverControl
  <1>3. ReviewOK'
    <2>1. CASE review.stage = "none"
      BY <1>1, <2>1 DEF ReviewOK
    <2>2. CASE review.stage # "none"
      <3>1. work' = [work EXCEPT !.control = TRUE]
        BY <2>2 DEF Works, UpdatePlan, RunTool, RegisterCheck, ReceiveControl, DeliverControl,
                    Working
      <3>2. PrerequisitesPass' = PrerequisitesPass
        BY <1>1, <3>1, PrerequisitesKept DEF AuditInv, Shapes
      <3> QED
        BY <1>1, <3>2 DEF AuditInv, ReviewOK, Strict
    <2> QED
      BY <2>1, <2>2
  <1> QED
    BY <1>1, <1>2, <1>3 DEF AuditInv, GatesOK, Overrulable, CompletedOK, Completed

\* Rows that only lose their queued continuation or approval, or are left alone.
LEMMA AuditRowKept ==
    ASSUME AuditInv, UNCHANGED <<contract, work, candidate, review, gates, decision, verdict>>,
           {"status", "attempt", "queued", "approval"} \subseteq DOMAIN run',
           run'.status = run.status, run'.attempt = run.attempt,
           \A a \in accepted' : {"criterion", "expires", "live"} \subseteq DOMAIN a,
           \A c : OnRecord(c) => OnRecord(c)'
    PROVE  AuditInv'
  <1>1. PrerequisitesPass' = PrerequisitesPass
    BY PrerequisitesKept
  <1>2. Shapes'
    BY DEF AuditInv, Shapes
  <1>3. ReviewOK'
    BY <1>1 DEF AuditInv, ReviewOK, Strict
  <1>4. HoldsVerdict => HoldsVerdict'
    BY <1>1 DEF HoldsVerdict
  <1>5. GatesOK'
    BY <1>4 DEF AuditInv, GatesOK, Strict, Overrulable, Attempt
  <1>6. CompletedOK'
    BY <1>1 DEF AuditInv, CompletedOK, Completed, Strict
  <1> QED
    BY <1>2, <1>3, <1>5, <1>6 DEF AuditInv

\* A row that is running or cancelled afterwards, with no review under way or the old one.
LEMMA AuditRowLeft ==
    ASSUME AuditInv, UNCHANGED contract, Shapes', run'.status \in {"running", "cancelled"},
           \/ review'.stage # "judging"
           \/ UNCHANGED <<review, candidate, work>> /\ run'.attempt = run.attempt
    PROVE  AuditInv'
  <1>1. ReviewOK'
    <2>1. CASE review'.stage # "judging"
      BY <2>1 DEF ReviewOK
    <2>2. CASE UNCHANGED <<review, candidate, work>> /\ run'.attempt = run.attempt
      <3>1. PrerequisitesPass' = PrerequisitesPass
        BY <2>2, PrerequisitesKept
      <3> QED
        BY <2>2, <3>1 DEF AuditInv, ReviewOK, Strict
    <2> QED
      BY <2>1, <2>2
  <1> QED
    BY <1>1 DEF AuditInv, GatesOK, Overrulable, CompletedOK, Completed

\* What a decision does to the rows.
LEMMA DecidedRows ==
    ASSUME Shapes, NEW action, NEW bound \in BOOLEAN, NEW cand \in Candidates,
           Decided(action, bound, cand)
    PROVE  /\ Shapes' /\ UNCHANGED <<contract, work, accepted>> /\ run'.attempt = run.attempt
           /\ review'.stage = "none"
           /\ run.status # "running" => run' = run
           /\ run.status = "running" =>
                 /\ run'.status = IF action = "complete_taskrun" THEN "completed" ELSE "blocked"
                 /\ candidate'.status = IF action = "complete_taskrun" THEN "accepted" ELSE "rejected"
           /\ candidate'.text = cand.text
           /\ decision'.action = action /\ decision'.bound = (bound \/ ~cand.text)
  <1>1. /\ UNCHANGED <<contract, work, accepted>>
        /\ review'.stage = "none" /\ {"stage", "model", "long"} \subseteq DOMAIN review'
        /\ {"attempt", "action", "status", "bound"} \subseteq DOMAIN decision'
        /\ decision'.action = action /\ decision'.bound = (bound \/ ~cand.text)
        /\ decision'.bound \in BOOLEAN
    BY DEF Decided, NoReview, Candidates
  <1>2. /\ candidate' \in Candidates /\ candidate'.text = cand.text
        /\ run.status = "running" =>
              candidate'.status = IF action = "complete_taskrun" THEN "accepted" ELSE "rejected"
    BY DEF Decided, Candidates
  <1>3. /\ {"status", "attempt", "queued", "approval"} \subseteq DOMAIN run'
        /\ run'.attempt = run.attempt
        /\ run.status # "running" => run' = run
        /\ run.status = "running" =>
              run'.status = IF action = "complete_taskrun" THEN "completed" ELSE "blocked"
    BY DEF Decided, Shapes
  <1> QED
    BY <1>1, <1>2, <1>3 DEF Shapes

\* A decision that does not complete, and that no acceptance may overrule.
LEMMA AuditDecided ==
    ASSUME AuditInv, NEW action, action # "complete_taskrun", NEW bound \in BOOLEAN,
           NEW cand \in Candidates, Decided(action, bound, cand),
           run.status \in {"running", "cancelled"},
           action = "block_taskrun" => ~bound
    PROVE  AuditInv'
  <1>1. /\ Shapes' /\ UNCHANGED contract /\ review'.stage = "none"
        /\ run'.status \in {"blocked", "cancelled"} /\ candidate'.text = cand.text
        /\ decision'.action = action /\ decision'.bound = (bound \/ ~cand.text)
    BY DecidedRows DEF AuditInv
  <1>2. ~Overrulable'
    BY <1>1 DEF Overrulable
  <1> QED
    BY <1>1, <1>2 DEF AuditInv, ReviewOK, GatesOK, CompletedOK, Completed

\* An audit of the candidate is concluded: it names a failure nobody can forgive,
\* or it keeps the verdict.
LEMMA AuditConcluded ==
    ASSUME AuditInv, NEW a, Source(a), NEW cand, cand = Proposed, Concluded(a, cand),
           run.status \in {"running", "cancelled"}, contract.profile # "off",
           \/ Unforgivable(a)
           \/ /\ verdict'.by \in {"core", "model"} /\ JudgedAs(a, verdict'.coverage)
              /\ Strict => PrerequisitesPass
    PROVE  AuditInv'
  <1> DEFINE r == requireExternalContinuationApproval(a)
             e == enforceCompletionAuditAlgebra(r, Active(accepted))
  <1>1. /\ gates' = [attempt |-> Attempt, gates |-> e.gates, coverage |-> e.coverage]
        /\ Decided(e.action, TRUE, cand)
    BY DEF Concluded
  <1>2. cand \in Candidates /\ cand.text = TRUE
    BY DEF Proposed, Candidates
  <1>3. /\ Shapes' /\ UNCHANGED <<contract, work, accepted>> /\ review'.stage = "none"
        /\ run'.attempt = run.attempt /\ candidate'.text = TRUE
        /\ run'.status \in {"blocked", "completed", "cancelled"}
        /\ run'.status = "completed" =>
              e.action = "complete_taskrun" /\ candidate'.status = "accepted"
    BY <1>1, <1>2, DecidedRows DEF AuditInv
  <1>4. AuditShape(r) /\ r.coverage = a.coverage /\ (Unforgivable(a) => Unforgivable(r))
    BY ApprovalAdds
  <1>5. PrerequisitesPass' = PrerequisitesPass
    BY <1>3, PrerequisitesKept
  <1>6. ReviewOK'
    BY <1>3 DEF ReviewOK
  <1>7. /\ gates'.gates = e.gates /\ gates'.coverage = e.coverage
        /\ DOMAIN e.coverage = DOMAIN a.coverage
        /\ \A c \in DOMAIN a.coverage :
              /\ ReceiptShape(e.coverage[c]) /\ e.coverage[c].status = a.coverage[c].status
              /\ e.coverage[c].accepted =>
                    \/ a.coverage[c].accepted
                    \/ c \in Active(accepted) /\ a.coverage[c].status \in Honest
    BY <1>1, <1>4, MarksHaveReasons
  <1>8. AuditShape(gates')
    BY <1>4, <1>7, AlgebraParts DEF AuditShape
  <1>9. \A c \in Active(accepted) : OnRecord(c)
    BY DEF Active, OnRecord
  <1>10. CASE Unforgivable(a)
    <2>1. Unforgivable(e) /\ e.action # "complete_taskrun"
      BY <1>4, <1>10, UnforgivableStays
    <2>2. Unforgivable(gates')
      BY <1>7, <2>1 DEF Unforgivable
    <2> QED
      BY <1>3, <1>6, <1>8, <2>1, <2>2 DEF AuditInv, GatesOK, CompletedOK, Completed, Unforgivable,
                                          AuditShape
  <1>11. CASE /\ verdict'.by \in {"core", "model"} /\ JudgedAs(a, verdict'.coverage)
              /\ Strict => PrerequisitesPass
    <2>1. ASSUME NEW c \in DOMAIN verdict'.coverage
          PROVE  /\ gates'.coverage[c].status = verdict'.coverage[c]
                 /\ gates'.coverage[c].accepted =>
                       verdict'.coverage[c] \in Honest /\ OnRecord(c)'
      BY <1>3, <1>7, <1>9, <1>11, <2>1 DEF JudgedAs, OnRecord
    <2>2. Strict => HoldsVerdict'
      BY <1>5, <1>7, <1>11, <2>1 DEF HoldsVerdict, JudgedAs
    <2>3. GatesOK'
      BY <1>3, <1>8, <2>2 DEF GatesOK, Strict, AuditShape
    <2>4. ASSUME e.action = "complete_taskrun", Strict, NEW c \in DOMAIN verdict'.coverage
          PROVE  \/ verdict'.coverage[c] = "covered"
                 \/ verdict'.coverage[c] \in Honest /\ OnRecord(c)'
      <3>1. a.coverage[c].status = "covered" \/ e.coverage[c].accepted
        BY <1>4, <1>11, <2>4, NothingOpen DEF Strict, JudgedAs
      <3> QED
        BY <1>7, <1>11, <2>1, <2>4, <3>1 DEF JudgedAs
    <2>5. ASSUME Completed' PROVE candidate' = [status |-> "accepted", text |-> TRUE]
      BY <1>3, <2>5 DEF Completed, Shapes, Candidates
    <2>6. CompletedOK'
      BY <1>3, <1>5, <1>11, <2>4, <2>5 DEF CompletedOK, Completed, Strict
    <2> QED
      BY <1>3, <1>6, <2>3, <2>6 DEF AuditInv
  <1> QED
    BY <1>10, <1>11

\* The settlements.
LEMMA AuditSettles ==
    ASSUME AuditInv, Settles
    PROVE  AuditInv'
  <1>1. /\ Working /\ run.status = "running" /\ review.stage = "none" /\ Shapes
        /\ Proposed \in Candidates
    BY DEF AuditInv, Settles, SettleWaiting, SettleUngated, SettleUnprepared, SettleLiteral,
           AskJudge, AttemptFails, AskFailureJudge, Working, Proposed, Candidates
  <1>2. CASE SettleWaiting
    BY <1>1, <1>2, AuditDecided DEF SettleWaiting
  <1>3. CASE SettleUngated
    <2>1. /\ contract.profile = "off" /\ Decided("complete_taskrun", TRUE, Proposed)
      BY <1>3 DEF SettleUngated
    <2>2. /\ Shapes' /\ UNCHANGED contract /\ review'.stage = "none"
      BY <1>1, <2>1, DecidedRows
    <2> QED
      BY <2>1, <2>2 DEF AuditInv, ReviewOK, GatesOK, CompletedOK, Strict
  <1>4. CASE SettleUnprepared
    BY <1>1, <1>4, UnpreparedIsUnforgivable, AuditConcluded DEF SettleUnprepared
  <1>5. ASSUME NEW b \in BOOLEAN, SettleLiteral(b) PROVE AuditInv'
    <2> DEFINE a == reviewExactCompletion(b)
    <2>1. /\ PrerequisitesPass /\ contract.profile = "strict" /\ Concluded(a, Proposed)
          /\ verdict' = [by |-> "core", coverage |-> [c \in Criteria |-> a.coverage[c].status]]
      BY <1>5 DEF SettleLiteral, Literal, Judged
    <2>2. verdict'.by = "core" /\ JudgedAs(a, verdict'.coverage) /\ Source(a)
      BY <2>1, LiteralKeepsVerdict
    <2> QED
      BY <1>1, <2>1, <2>2, AuditConcluded
  <1>6. ASSUME NEW b \in BOOLEAN, AskJudge(b) PROVE AuditInv'
    <2>1. /\ UNCHANGED <<run, contract, work, gates, decision, accepted, verdict>>
          /\ candidate' = Proposed /\ contract.profile # "off" /\ (Strict => PrerequisitesPass)
          /\ {"stage", "model", "long"} \subseteq DOMAIN review'
      BY <1>6 DEF AskJudge, Strict
    <2>2. Shapes' /\ PrerequisitesPass' = PrerequisitesPass
      BY <1>1, <2>1, PrerequisitesKept DEF Shapes
    <2>3. ReviewOK'
      BY <1>1, <2>1, <2>2 DEF ReviewOK, Strict
    <2> QED
      BY <1>1, <2>1, <2>2, <2>3 DEF AuditInv, GatesOK, Overrulable, CompletedOK, Completed
  <1>7. ASSUME NEW class \in DOMAIN FailureClass, NEW text \in BOOLEAN, AttemptFails(class, text)
        PROVE  AuditInv'
    <2> DEFINE action == requireExternalFailureApproval(FailureClass[class])
    <2>1. action # "complete_taskrun"
      BY <1>7 DEF requireExternalFailureApproval, FailureClass
    <2>2. /\ [status |-> "proposed", text |-> text] \in Candidates
          /\ Decided(action, FALSE, [status |-> "proposed", text |-> text])
      BY <1>7 DEF AttemptFails, Candidates
    <2> QED
      BY <1>1, <2>1, <2>2, AuditDecided
  <1>8. CASE AskFailureJudge
    <2>1. /\ UNCHANGED <<run, contract, work, gates, decision, accepted, verdict>>
          /\ candidate' = [status |-> "proposed", text |-> FALSE]
          /\ {"stage", "model", "long"} \subseteq DOMAIN review' /\ review'.stage = "classifying"
      BY <1>8 DEF AskFailureJudge
    <2>2. Shapes'
      BY <1>1, <2>1 DEF Shapes, Candidates
    <2> QED
      BY <1>1, <2>1, <2>2, AuditRowLeft
  <1> QED
    BY <1>2, <1>3, <1>4, <1>5, <1>6, <1>7, <1>8 DEF Settles

\* The review that was awaited.
LEMMA AuditReturns ==
    ASSUME AuditInv, JudgeReturns
    PROVE  AuditInv'
  <1>1. review.stage \in {"judging", "classifying"}
    BY DEF JudgeReturns, JudgeFails, JudgeUnreachable, FailureJudged
  <1>2. /\ Shapes /\ candidate \in Candidates /\ run.status \in {"running", "cancelled"}
        /\ review.stage = "judging" =>
              candidate = Proposed /\ contract.profile # "off" /\ (Strict => PrerequisitesPass)
    BY <1>1 DEF AuditInv, Shapes, ReviewOK
  <1>3. CASE JudgeFails
    BY <1>2, <1>3, AuditDecided DEF JudgeFails
  <1>4. CASE JudgeUnreachable
    <2>1. CASE UNCHANGED <<run, contract, work, candidate, gates, decision, accepted, verdict>>
               /\ review' = [review EXCEPT !.model = 2]
      <3>1. Shapes' /\ review'.stage = review.stage
        BY <1>2, <2>1 DEF Shapes
      <3>2. PrerequisitesPass' = PrerequisitesPass
        BY <2>1, PrerequisitesKept
      <3> QED
        BY <1>2, <2>1, <3>1, <3>2
           DEF AuditInv, ReviewOK, GatesOK, CompletedOK, Completed, Overrulable, Strict
    <2>2. CASE Concluded(conservativeSettledAudit, candidate)
      BY <1>2, <1>4, <2>2, OutageIsUnforgivable, AuditConcluded DEF JudgeUnreachable
    <2> QED
      BY <1>4, <2>1, <2>2 DEF JudgeUnreachable
  <1>5. ASSUME NEW v, JudgeAnswers(v) PROVE AuditInv'
    <2>1. /\ Concluded(Reviewed(v), candidate) /\ review.stage = "judging"
          /\ verdict'.by = "model" /\ verdict'.coverage = v.coverage
      BY <1>5 DEF JudgeAnswers, Judged
    <2> QED
      BY <1>2, <2>1, ReviewKeepsVerdict, AuditConcluded
  <1>6. ASSUME NEW action \in {"pause_for_approval", "block_taskrun", "start_continuation"},
               FailureJudged(action)
        PROVE  AuditInv'
    <2>1. requireExternalFailureApproval(action) # "complete_taskrun"
      BY <1>6 DEF requireExternalFailureApproval
    <2> QED
      BY <1>2, <1>6, <2>1, AuditDecided DEF FailureJudged
  <1> QED
    BY <1>3, <1>4, <1>5, <1>6 DEF JudgeReturns

\* An acceptance that completes finds the verdict on the blocked candidate.
LEMMA AuditAccept ==
    ASSUME AuditInv, NEW c \in Criteria, NEW expires \in BOOLEAN, AcceptUncertainty(c, expires)
    PROVE  AuditInv'
  <1> DEFINE new == accepted \union {[criterion |-> c, expires |-> expires, live |-> TRUE]}
             e   == enforceCompletionAuditAlgebra(gates, Active(new))
             ok  == e.action = "complete_taskrun" /\ e.gates.completion.passed
  <1>1. /\ Shapes /\ Adjudicable(c) /\ accepted' = new
        /\ UNCHANGED <<contract, work, review, verdict>>
    BY DEF AuditInv, AcceptUncertainty
  <1>2. /\ \A a \in new : {"criterion", "expires", "live"} \subseteq DOMAIN a
        /\ \A x : OnRecord(x) => OnRecord(x)'
        /\ \A x \in Active(new) : OnRecord(x)'
    BY <1>1 DEF Shapes, OnRecord, Active
  <1>3. CASE ~ok
    <2>1. UNCHANGED <<gates, decision, candidate, run>>
      BY <1>3 DEF AcceptUncertainty
    <2> QED
      BY <1>1, <1>2, <2>1, AuditRowKept DEF Shapes
  <1>4. CASE ok
    <2>1. /\ decision.bound /\ candidate.text
          /\ decision' = [decision EXCEPT !.action = "complete_taskrun"]
          /\ candidate' = [candidate EXCEPT !.status = "accepted"]
          /\ run' = [run EXCEPT !.status = "completed"]
      BY <1>4 DEF AcceptUncertainty, IntegrityBound
    <2>2. Strict /\ Overrulable
      BY <1>1, <2>1 DEF Adjudicable, Overrulable, Strict
    <2>3. AuditShape(gates) /\ HoldsVerdict
      BY <1>4, <2>2, UnforgivableStays DEF AuditInv, GatesOK
    <2>4. /\ Shapes' /\ run'.status = "completed" /\ run'.attempt = run.attempt
          /\ candidate' = [status |-> "accepted", text |-> TRUE]
      BY <1>1, <1>2, <2>1 DEF Shapes, Candidates
    <2>5. PrerequisitesPass'
      BY <1>1, <2>3, <2>4, PrerequisitesKept DEF HoldsVerdict
    <2>6. ReviewOK'
      BY <1>1, <2>4 DEF AuditInv, ReviewOK, Adjudicable
    <2>7. ASSUME NEW x \in DOMAIN verdict.coverage
          PROVE  \/ verdict.coverage[x] = "covered"
                 \/ verdict.coverage[x] \in Honest /\ OnRecord(x)'
      <3>1. x \in DOMAIN gates.coverage /\ gates.coverage[x].status = verdict.coverage[x]
        BY <2>3, <2>7 DEF HoldsVerdict
      <3>2. gates.coverage[x].status = "covered" \/ e.coverage[x].accepted
        BY <1>4, <2>2, <2>3, <3>1, NothingOpen DEF Strict
      <3>3. e.coverage[x].accepted =>
               \/ gates.coverage[x].accepted
               \/ x \in Active(new) /\ gates.coverage[x].status \in Honest
        BY <2>3, <3>1, MarksHaveReasons
      <3> QED
        BY <1>2, <2>3, <2>7, <3>1, <3>2, <3>3 DEF HoldsVerdict
    <2>8. CompletedOK'
      BY <1>1, <2>3, <2>4, <2>5, <2>7 DEF CompletedOK, HoldsVerdict, Strict
    <2>9. GatesOK'
      BY <2>4 DEF GatesOK, Overrulable
    <2> QED
      BY <2>4, <2>6, <2>8, <2>9 DEF AuditInv
  <1> QED
    BY <1>3, <1>4

\* The acceptances, and the Attempts around the review.
LEMMA AuditGoverns ==
    ASSUME AuditInv, Governs
    PROVE  AuditInv'
  <1>1. Shapes
    BY DEF AuditInv
  <1>2. ASSUME NEW a \in accepted, AcceptanceExpires(a) PROVE AuditInv'
    <2>1. /\ UNCHANGED <<run, contract, work, candidate, review, gates, decision, verdict>>
          /\ accepted' = (accepted \ {a}) \union {[a EXCEPT !.live = FALSE]}
      BY <1>2 DEF AcceptanceExpires
    <2>2. LET b == [a EXCEPT !.live = FALSE]
          IN  {"criterion", "expires", "live"} \subseteq DOMAIN b /\ b.criterion = a.criterion
      BY <1>1, <1>2 DEF Shapes
    <2>3. /\ \A b \in accepted' : {"criterion", "expires", "live"} \subseteq DOMAIN b
          /\ \A c : OnRecord(c) => OnRecord(c)'
      BY <1>1, <2>1, <2>2 DEF Shapes, OnRecord
    <2> QED
      BY <1>1, <2>1, <2>3, AuditRowKept DEF Shapes
  <1>3. CASE NextAttempt /\ run.status = "blocked"
    <2>1. review.stage = "none"
      BY <1>3 DEF AuditInv, ReviewOK
    <2>2. /\ run'.status = "running" /\ UNCHANGED <<contract, review>>
      BY <1>1, <1>3 DEF NextAttempt, Shapes
    <2>3. Shapes'
      BY <1>1, <1>3 DEF NextAttempt, Shapes, NoCandidate, Candidates
    <2> QED
      BY <2>1, <2>2, <2>3, AuditRowLeft
  <1>4. CASE /\ run' = [run EXCEPT !.queued = FALSE] \/ run' = [run EXCEPT !.approval = FALSE]
             /\ UNCHANGED <<contract, work, candidate, review, gates, decision, accepted, verdict>>
    <2>1. /\ {"status", "attempt", "queued", "approval"} \subseteq DOMAIN run'
          /\ run'.status = run.status /\ run'.attempt = run.attempt
      BY <1>1, <1>4 DEF Shapes
    <2>2. /\ \A b \in accepted' : {"criterion", "expires", "live"} \subseteq DOMAIN b
          /\ \A c : OnRecord(c) => OnRecord(c)'
      BY <1>1, <1>4 DEF Shapes, OnRecord
    <2> QED
      BY <1>4, <2>1, <2>2, AuditRowKept
  <1>5. CASE /\ run.status = "blocked"
             /\ run' = [run EXCEPT !.approval = TRUE, !.queued = FALSE]
             /\ decision' = [attempt |-> Attempt, action |-> "pause_for_approval",
                             status |-> "executed", bound |-> ~candidate.text]
             /\ UNCHANGED <<contract, work, candidate, review, gates, accepted, verdict>>
    <2>1. Shapes' /\ run'.status = "blocked"
      BY <1>1, <1>5 DEF Shapes, Candidates
    <2>2. ReviewOK' /\ decision'.action = "pause_for_approval"
      BY <1>5, <2>1 DEF AuditInv, ReviewOK
    <2> QED
      BY <2>1, <2>2 DEF AuditInv, GatesOK, Overrulable, CompletedOK, Completed
  <1>6. CASE Cancel
    <2>1. /\ Shapes' /\ run'.status = "cancelled" /\ run'.attempt = run.attempt
          /\ UNCHANGED <<contract, work, candidate, review>>
      BY <1>1, <1>6 DEF Cancel, Shapes
    <2> QED
      BY <2>1, AuditRowLeft
  <1> QED
    BY <1>2, <1>3, <1>4, <1>5, <1>6, AuditAccept
       DEF Governs, StartContinuation, ContinuationStalls, ResumeRun, Approve, Reject

\* Every step keeps the invariant.
LEMMA AuditNext == AuditInv /\ [ReviewNext]_reviewVars => AuditInv'
  <1> SUFFICES ASSUME AuditInv, [ReviewNext]_reviewVars PROVE AuditInv'
    OBVIOUS
  <1>1. CASE UNCHANGED reviewVars
    BY <1>1, AuditRowKept DEF reviewVars, AuditInv, Shapes, OnRecord
  <1> QED
    BY <1>1, AuditWorks, AuditSettles, AuditReturns, AuditGoverns DEF ReviewNext

\* The first Attempt has neither candidate nor decision.
LEMMA AuditInit == ReviewInit => AuditInv
  BY DEF ReviewInit, AuditInv, Shapes, ReviewOK, GatesOK, CompletedOK, Completed, Overrulable, NoCandidate,
     NoReview, NoDecision, Candidates

\* The invariant in every reachable state.
LEMMA AuditHolds == ReviewSpec => []AuditInv
  BY AuditInit, AuditNext, PTL DEF ReviewSpec

-----------------------------------------------------------------------------
(* 8. The theorems.                                                        *)

(***************************************************************************)
(* enforceCompletionAuditAlgebra, settleCandidate and                      *)
(* reAdjudicateBlockedCandidate: strict work completes only when the       *)
(* verdict on this very candidate found each criterion covered, or         *)
(* unsupported or blocked with an acceptance on record.                    *)
(***************************************************************************)
THEOREM CompletionsAreHonest == ReviewSpec => []CompletionIsHonest
  <1>1. AuditInv => CompletionIsHonest
    BY DEF AuditInv, CompletedOK, CompletionIsHonest, Strict, OnRecord
  <1> QED
    BY <1>1, AuditHolds, PTL

(***************************************************************************)
(* No outage of the judge, failed Attempt or stale gate evaluation         *)
(* completes a TaskRun with a gate: its candidate has a text and was       *)
(* judged in this Attempt.                                                 *)
(***************************************************************************)
THEOREM CompletedCandidatesWereJudged == ReviewSpec => []CompletedCandidateWasJudged
  <1>1. AuditInv => CompletedCandidateWasJudged
    BY DEF AuditInv, CompletedOK, CompletedCandidateWasJudged
  <1> QED
    BY <1>1, AuditHolds, PTL

(***************************************************************************)
(* evaluateGate is the floor under every semantic review: strict work that *)
(* needs a trusted check completes with its plan done and a fresh check of *)
(* an operation of this Attempt, also when an acceptance completes it.     *)
(***************************************************************************)
THEOREM DeterministicFloor == ReviewSpec => []FloorHolds
  <1>1. AuditInv => FloorHolds
    <2> SUFFICES ASSUME AuditInv, Completed, contract.profile = "strict",
                        Policy.evidence = "trusted_check"
                 PROVE  /\ work.plan = "done" /\ ~work.stale
                        /\ work.check = Attempt /\ Op \in {"read", "change"}
      BY DEF FloorHolds
    <2>1. PlanFailures = {} /\ CheckFailures = {}
      BY DEF AuditInv, CompletedOK, Strict, PrerequisitesPass
    <2>2. work.plan = "done"
      BY <2>1, TrustedNeedsPlan DEF PlanFailures
    <2>3. TrustedCheck
      BY <2>1 DEF CheckFailures
    <2> QED
      BY <2>2, <2>3 DEF TrustedCheck
  <1> QED
    BY <1>1, AuditHolds, PTL


-----------------------------------------------------------------------------
(* 9. The database of the Workspace's Goals.                                *)

\* the columns of a Goal, of the database and of the process
GoalFields == {"status", "def", "road", "current"}
Tables == {"goals", "defs", "roads", "approved", "progress", "evidence", "receipt",
           "inbox", "runs", "links"}
MemFields == {"phase", "finalizing", "generating", "kick", "recovery"}
RecoveryFields == {"stage", "missing", "todo", "repaired", "tx"}

\* the rows of the other tables
ItemStatuses == {"pending", "running", "blocked", "completed"}
RunStatuses == {"running", "waiting_input", "blocked", "interrupted", "completed", "failed",
                "cancelled"}
ItemRows == [status : ItemStatuses, run : Nat]
Progressions == UNION {[I -> ItemRows] : I \in SUBSET Nat}
InboxRows == [goal : Goals \cup {0}, def : Nat, road : Nat, item : Nat, auto : BOOLEAN,
              linked : BOOLEAN, status : {"queued", "started"}, run : Nat]
RunRows == [status : RunStatuses, attempt : Nat, verdict : {"none", "covered", "contradicted"},
            inbox : Nat, retryable : BOOLEAN]
LinkRows == [run : Nat, goal : Goals, def : Nat, road : Nat, item : Nat]

GoalRowOK(row, roads) ==
  /\ row = [f \in GoalFields |-> row[f]]
  /\ row.def \in Nat /\ row.road \in 0 .. Len(roads)

GoalsOK(goals, roads) ==
  /\ goals = [g \in Goals |-> goals[g]]
  /\ \A g \in Goals : GoalRowOK(goals[g], roads[g])

\* what was approved and what was done of a Roadmap are about the items of that Roadmap
RoadsOK(roads, approved, progress) ==
  /\ roads \in [Goals -> Seq(Roadmaps)]
  /\ approved \in [Goals -> Seq(SUBSET Nat)]
  /\ progress \in [Goals -> Seq(Progressions)]
  /\ \A g \in Goals :
       /\ Len(approved[g]) = Len(roads[g]) /\ Len(progress[g]) = Len(roads[g])
       /\ \A k \in DOMAIN roads[g] : /\ approved[g][k] \subseteq DOMAIN roads[g][k]
                                     /\ DOMAIN progress[g][k] = DOMAIN roads[g][k]

\* a TaskRun comes from a row of the Inbox; authorized rows name a Roadmap
WorkOK(inbox, runs) ==
  /\ inbox \in Seq(InboxRows) /\ runs \in Seq(RunRows)
  /\ \A n \in DOMAIN inbox : /\ inbox[n].linked \/ inbox[n].auto => inbox[n].road # 0
                             /\ inbox[n].run # NoRun => inbox[n].run \in DOMAIN runs
  /\ \A r \in DOMAIN runs : runs[r].inbox \in DOMAIN inbox

LinkOK(link, roads) ==
  /\ link.run # NoRun
  /\ link.item # 0 => /\ link.road \in DOMAIN roads[link.goal]
                      /\ link.item \in DOMAIN roads[link.goal][link.road]

LinksOK(links, roads) ==
  /\ links \in Seq(LinkRows)
  /\ \A n \in DOMAIN links : LinkOK(links[n], roads)

\* link n is one of the item's, and it is the newest one
OfItem(link, g, k, i) == link.goal = g /\ link.road = k /\ link.item = i
NewestOf(links, g, k, i, n) ==
  /\ n \in DOMAIN links /\ OfItem(links[n], g, k, i)
  /\ \A m \in DOMAIN links : OfItem(links[m], g, k, i) => m <= n
NeverTried(links, g, k, i) == \A n \in DOMAIN links : ~OfItem(links[n], g, k, i)

OwnerOK(owner, links, g, k, i) ==
  \/ owner = NoRun /\ NeverTried(links, g, k, i)
  \/ \E n \in DOMAIN links : NewestOf(links, g, k, i, n) /\ owner = links[n].run

OwnersOK(roads, links, progress) ==
  \A g \in Goals : \A k \in DOMAIN roads[g] : \A i \in DOMAIN roads[g][k] :
     OwnerOK(progress[g][k][i].run, links, g, k, i)

DatabaseOK(d) ==
  /\ d = [t \in Tables |-> d[t]]
  /\ d.defs \in [Goals -> Seq(Definitions)]
  /\ GoalsOK(d.goals, d.roads)
  /\ RoadsOK(d.roads, d.approved, d.progress)
  /\ WorkOK(d.inbox, d.runs)
  /\ LinksOK(d.links, d.roads)
  /\ OwnersOK(d.roads, d.links, d.progress)

\* the transaction of reconcileRunState works on a database as good as the committed one,
\* and leaves the Inbox alone
Reconciling(m) == m.recovery.stage \in {"attach", "record"}
RecoveryOK(m, d) ==
  /\ m = [f \in MemFields |-> m[f]]
  /\ m.recovery = [f \in RecoveryFields |-> m.recovery[f]]
  /\ Reconciling(m) => /\ m.phase = "starting"
                       /\ DatabaseOK(m.recovery.tx)
                       /\ m.recovery.tx.inbox = d.inbox
  /\ m.recovery.stage = "attach" => m.recovery.missing \subseteq DOMAIN m.recovery.tx.runs

OwnershipInv == DatabaseOK(db) /\ RecoveryOK(mem, db)

\* e differs from d at most in Goals, definitions, evidence and receipts
QuietDb(d, e) ==
  /\ e = [t \in Tables |-> e[t]]
  /\ e.defs \in [Goals -> Seq(Definitions)]
  /\ GoalsOK(e.goals, e.roads)
  /\ e.roads = d.roads /\ e.approved = d.approved /\ e.progress = d.progress
  /\ e.inbox = d.inbox /\ e.runs = d.runs /\ e.links = d.links

\* a quiet change keeps the database in order
LEMMA QuietKeepsDatabase ==
  ASSUME NEW d, NEW e, DatabaseOK(d), QuietDb(d, e)
  PROVE  DatabaseOK(e)
  BY DEF DatabaseOK, QuietDb

\* a Goal row stays in order when it gets another status or another TaskRun
LEMMA GoalRowTouched ==
  ASSUME NEW row, NEW roads, GoalRowOK(row, roads), NEW x, NEW y
  PROVE  /\ GoalRowOK([row EXCEPT !.status = x], roads)
         /\ GoalRowOK([row EXCEPT !.current = x], roads)
         /\ GoalRowOK([row EXCEPT !.status = x, !.current = y], roads)
  BY DEF GoalRowOK, GoalFields

\* writing one Goal row that is in order is quiet
LEMMA GoalRowQuiet ==
  ASSUME NEW d, DatabaseOK(d), NEW g \in Goals, NEW row, GoalRowOK(row, d.roads[g])
  PROVE  QuietDb(d, [d EXCEPT !.goals[g] = row])
<1> DEFINE e == [d EXCEPT !.goals[g] = row]
<1>1. e = [t \in Tables |-> e[t]] /\ e.goals = [d.goals EXCEPT ![g] = row]
      /\ e.defs = d.defs
      /\ e.roads = d.roads /\ e.approved = d.approved /\ e.progress = d.progress
      /\ e.inbox = d.inbox /\ e.runs = d.runs /\ e.links = d.links
  BY DEF DatabaseOK, Tables
<1>2. GoalsOK(e.goals, e.roads)
  <2> HIDE DEF e
  <2>1. GoalsOK(d.goals, d.roads)  BY DEF DatabaseOK
  <2>2. e.goals = [h \in Goals |-> e.goals[h]]  BY <1>1, <2>1 DEF GoalsOK
  <2>3. \A h \in Goals : e.goals[h] = IF h = g THEN row ELSE d.goals[h]  BY <1>1, <2>1 DEF GoalsOK
  <2> QED  BY <1>1, <2>1, <2>2, <2>3 DEF GoalsOK
<1>3. e.defs \in [Goals -> Seq(Definitions)]  BY <1>1 DEF DatabaseOK
<1> QED  BY <1>1, <1>2, <1>3 DEF QuietDb

\* refreshReadyStatus changes the status and the selected TaskRun of one Goal
LEMMA RefreshQuiet ==
  ASSUME NEW d, DatabaseOK(d), NEW g \in Goals
  PROVE  QuietDb(d, RefreshReadyStatus(d, g))
<1> DEFINE row1 == [d.goals[g] EXCEPT !.status = "ready_to_close", !.current = NoRun]
           row2 == [d.goals[g] EXCEPT !.status = "active"]
<1>1. GoalRowOK(d.goals[g], d.roads[g])  BY DEF DatabaseOK, GoalsOK
<1>2. GoalRowOK(row1, d.roads[g]) /\ GoalRowOK(row2, d.roads[g])  BY <1>1, GoalRowTouched
<1>3. QuietDb(d, [d EXCEPT !.goals[g] = row1]) /\ QuietDb(d, [d EXCEPT !.goals[g] = row2])
  <2> HIDE DEF row1, row2
  <2> QED  BY <1>2, GoalRowQuiet
<1>4. QuietDb(d, d)  BY DEF DatabaseOK, QuietDb
<1>5. RefreshReadyStatus(d, g) \in {[d EXCEPT !.goals[g] = row1], [d EXCEPT !.goals[g] = row2], d}
  <2>1. [d EXCEPT !.goals[g].status = "ready_to_close", !.goals[g].current = NoRun]
           = [d EXCEPT !.goals[g] = row1]
    BY DEF DatabaseOK, GoalsOK, GoalRowOK, Tables, GoalFields
  <2>2. [d EXCEPT !.goals[g].status = "active"] = [d EXCEPT !.goals[g] = row2]
    BY DEF DatabaseOK, GoalsOK, GoalRowOK, Tables, GoalFields
  <2> QED  BY <2>1, <2>2 DEF RefreshReadyStatus
<1> QED  BY <1>3, <1>4, <1>5

\* a TaskRun row may change, but not the Inbox row it came from
LEMMA RunRowTouched ==
  ASSUME NEW d, DatabaseOK(d), NEW r \in DOMAIN d.runs, NEW row \in RunRows,
         row.inbox = d.runs[r].inbox
  PROVE  \A e : e = [d EXCEPT !.runs[r] = row] =>
            DatabaseOK(e) /\ e.inbox = d.inbox /\ e.links = d.links
<1> DEFINE e == [d EXCEPT !.runs[r] = row]
<1>1. e = [t \in Tables |-> e[t]] /\ e.runs = [d.runs EXCEPT ![r] = row]
      /\ e.defs = d.defs /\ e.goals = d.goals
      /\ e.roads = d.roads /\ e.approved = d.approved /\ e.progress = d.progress
      /\ e.inbox = d.inbox /\ e.links = d.links
  BY DEF DatabaseOK, Tables
<1> HIDE DEF e
<1>2. d.runs \in Seq(RunRows) /\ WorkOK(d.inbox, d.runs)  BY DEF DatabaseOK, WorkOK
<1>3. e.runs \in Seq(RunRows) /\ DOMAIN e.runs = DOMAIN d.runs  BY <1>1, <1>2
<1>4. \A s \in DOMAIN e.runs : e.runs[s].inbox = d.runs[s].inbox  BY <1>1, <1>2
<1>5. WorkOK(d.inbox, e.runs)  BY <1>2, <1>3, <1>4 DEF WorkOK
<1>6. DatabaseOK(e)  BY <1>1, <1>5 DEF DatabaseOK
<1> QED  BY <1>1, <1>6 DEF e

\* the Roadmap item a link names
LEMMA LinkItem ==
  ASSUME NEW d, DatabaseOK(d), NEW n \in DOMAIN d.links, d.links[n].item # 0
  PROVE  /\ d.links[n].goal \in Goals
         /\ d.links[n].road \in DOMAIN d.roads[d.links[n].goal]
         /\ d.links[n].item \in DOMAIN d.roads[d.links[n].goal][d.links[n].road]
<1>1. d.links[n] \in LinkRows  BY DEF DatabaseOK, LinksOK
<1>2. LinkOK(d.links[n], d.roads)  BY DEF DatabaseOK, LinksOK
<1> QED  BY <1>1, <1>2 DEF LinkOK, LinkRows

\* writing one row of progress
ItemWritten(progress, g, k, i, row) == [progress EXCEPT ![g][k][i] = row]

\* writing one row of progress changes that row and nothing else
LEMMA ProgressWritten ==
  ASSUME NEW roads, NEW approved, NEW progress, RoadsOK(roads, approved, progress),
         NEW g \in Goals, NEW k \in DOMAIN roads[g], NEW i \in DOMAIN roads[g][k],
         NEW row \in ItemRows
  PROVE  /\ RoadsOK(roads, approved, ItemWritten(progress, g, k, i, row))
         /\ \A h \in Goals : \A l \in DOMAIN roads[h] : \A j \in DOMAIN roads[h][l] :
               ItemWritten(progress, g, k, i, row)[h][l][j] =
                  IF h = g /\ l = k /\ j = i THEN row ELSE progress[h][l][j]
<1>1. progress \in [Goals -> Seq(Progressions)] /\ progress[g] \in Seq(Progressions)
      /\ roads[g] \in Seq(Roadmaps)
      /\ Len(progress[g]) = Len(roads[g]) /\ k \in DOMAIN progress[g]
      /\ DOMAIN progress[g][k] = DOMAIN roads[g][k]
  BY DEF RoadsOK
<1> DEFINE rows == [progress[g][k] EXCEPT ![i] = row]
<1>2. rows \in Progressions /\ DOMAIN rows = DOMAIN progress[g][k]
  <2>1. progress[g][k] \in Progressions  BY <1>1
  <2>2. PICK I \in SUBSET Nat : progress[g][k] \in [I -> ItemRows]  BY <2>1 DEF Progressions
  <2>3. rows \in [I -> ItemRows]  BY <2>2
  <2> QED  BY <2>2, <2>3 DEF Progressions
<1>3. \A j \in DOMAIN rows : rows[j] = IF j = i THEN row ELSE progress[g][k][j]  BY <1>1
<1> HIDE DEF rows
<1> DEFINE steps == [progress[g] EXCEPT ![k] = rows]
<1>4. steps \in Seq(Progressions) /\ Len(steps) = Len(progress[g])
      /\ \A l \in DOMAIN roads[g] : steps[l] = IF l = k THEN rows ELSE progress[g][l]
  BY <1>1, <1>2
<1> HIDE DEF steps
<1> DEFINE new == [progress EXCEPT ![g] = steps]
<1>5. new \in [Goals -> Seq(Progressions)]
      /\ \A h \in Goals : new[h] = IF h = g THEN steps ELSE progress[h]
  BY <1>1, <1>4
<1> HIDE DEF new
<1>6. RoadsOK(roads, approved, new)
  <2>1. \A h \in Goals : Len(new[h]) = Len(progress[h])  BY <1>4, <1>5
  <2>2. \A h \in Goals : \A l \in DOMAIN roads[h] : DOMAIN new[h][l] = DOMAIN progress[h][l]
    BY <1>2, <1>4, <1>5
  <2> QED  BY <1>5, <2>1, <2>2 DEF RoadsOK
<1>7. \A h \in Goals : \A l \in DOMAIN roads[h] : \A j \in DOMAIN roads[h][l] :
         new[h][l][j] = IF h = g /\ l = k /\ j = i THEN row ELSE progress[h][l][j]
  BY <1>1, <1>2, <1>3, <1>4, <1>5
<1>8. new = ItemWritten(progress, g, k, i, row)  BY DEF ItemWritten, new, steps, rows
<1> QED  BY <1>6, <1>7, <1>8

\* one row of progress may change, but not the TaskRun that owns it
LEMMA ProgressTouched ==
  ASSUME NEW d, DatabaseOK(d), NEW g \in Goals, NEW k \in DOMAIN d.roads[g],
         NEW i \in DOMAIN d.roads[g][k], NEW row \in ItemRows,
         row.run = d.progress[g][k][i].run
  PROVE  \A e : e = [d EXCEPT !.progress[g][k][i] = row] =>
            DatabaseOK(e) /\ e.inbox = d.inbox /\ e.links = d.links /\ e.runs = d.runs
<1> DEFINE e == [d EXCEPT !.progress[g][k][i] = row]
<1>1. e = [t \in Tables |-> e[t]]
      /\ e.progress = [d.progress EXCEPT ![g][k][i] = row]
      /\ e.defs = d.defs /\ e.goals = d.goals
      /\ e.roads = d.roads /\ e.approved = d.approved /\ e.runs = d.runs
      /\ e.inbox = d.inbox /\ e.links = d.links
  BY DEF DatabaseOK, Tables
<1> HIDE DEF e
<1>2. RoadsOK(d.roads, d.approved, d.progress)  BY DEF DatabaseOK
<1>3. RoadsOK(d.roads, d.approved, e.progress)
      /\ \A h \in Goals : \A l \in DOMAIN d.roads[h] : \A j \in DOMAIN d.roads[h][l] :
            e.progress[h][l][j] =
               IF h = g /\ l = k /\ j = i THEN row ELSE d.progress[h][l][j]
  <2>1. e.progress = ItemWritten(d.progress, g, k, i, row)  BY <1>1 DEF ItemWritten
  <2> QED  BY <1>2, <2>1, ProgressWritten
<1>4. \A h \in Goals : \A l \in DOMAIN d.roads[h] : \A j \in DOMAIN d.roads[h][l] :
          e.progress[h][l][j].run = d.progress[h][l][j].run
  BY <1>3
<1>5. OwnersOK(d.roads, d.links, e.progress)
  <2>1. OwnersOK(d.roads, d.links, d.progress)  BY DEF DatabaseOK
  <2> QED  BY <1>4, <2>1 DEF OwnersOK
<1>6. DatabaseOK(e)  BY <1>1, <1>3, <1>5 DEF DatabaseOK
<1> QED  BY <1>1, <1>6 DEF e

\* quiet changes add up
LEMMA QuietTransitive ==
  ASSUME NEW d, NEW e, NEW f, QuietDb(d, e), QuietDb(e, f)
  PROVE  QuietDb(d, f)
  BY DEF QuietDb

\* evidence and receipts may be anything
LEMMA EvidenceQuiet ==
  ASSUME NEW d, DatabaseOK(d), NEW g, NEW x, NEW e,
         e = [d EXCEPT !.evidence[g] = x] \/ e = [d EXCEPT !.receipt[g] = x]
  PROVE  QuietDb(d, e)
<1>1. CASE e = [d EXCEPT !.evidence[g] = x]  BY <1>1 DEF DatabaseOK, QuietDb, Tables
<1>2. CASE e = [d EXCEPT !.receipt[g] = x]  BY <1>2 DEF DatabaseOK, QuietDb, Tables
<1> QED  BY <1>1, <1>2

\* harvestSupervisorEvidence writes evidence only
LEMMA HarvestQuiet ==
  ASSUME NEW d, DatabaseOK(d), NEW link
  PROVE  QuietDb(d, HarvestSupervisorEvidence(d, link))
<1>1. QuietDb(d, d)  BY DEF DatabaseOK, QuietDb
<1>2. \E x : HarvestSupervisorEvidence(d, link) \in {d, [d EXCEPT !.evidence[link.goal] = x]}
  BY DEF HarvestSupervisorEvidence
<1>3. PICK x : HarvestSupervisorEvidence(d, link) \in {d, [d EXCEPT !.evidence[link.goal] = x]}
  BY <1>2
<1>4. QuietDb(d, [d EXCEPT !.evidence[link.goal] = x])  BY EvidenceQuiet
<1> QED  BY <1>1, <1>3, <1>4

\* what an outcome says of an item is a status
LEMMA OutcomeIsStatus ==
  ASSUME NEW s
  PROVE  OutcomeStatus(s) \in ItemStatuses
  BY DEF OutcomeStatus, ItemStatuses

\* the TaskRun that may write an item, because no newer one owns it, owns it already
LEMMA WriterOwnsItem ==
  ASSUME NEW d, DatabaseOK(d), NEW n \in DOMAIN d.links, d.links[n].item # 0,
         ~OwnerIsNewer(d, n)
  PROVE  d.progress[d.links[n].goal][d.links[n].road][d.links[n].item].run = d.links[n].run
<1> DEFINE g == d.links[n].goal
           k == d.links[n].road
           i == d.links[n].item
           owner == d.progress[g][k][i].run
<1>1. g \in Goals /\ k \in DOMAIN d.roads[g] /\ i \in DOMAIN d.roads[g][k]  BY LinkItem
<1>2. OwnerOK(owner, d.links, g, k, i)  BY <1>1 DEF DatabaseOK, OwnersOK
<1>3. OfItem(d.links[n], g, k, i)  BY DEF OfItem
<1>4. PICK m \in DOMAIN d.links : NewestOf(d.links, g, k, i, m) /\ owner = d.links[m].run
  BY <1>2, <1>3 DEF OwnerOK, NeverTried
<1>5. d.links \in Seq(LinkRows) /\ d.links[m].run # NoRun  BY DEF DatabaseOK, LinksOK, LinkOK
<1>6. n <= m  BY <1>3, <1>4 DEF NewestOf
<1>7. m \in LinkOf(d, owner)  BY <1>4 DEF LinkOf
<1>8. n \in Nat /\ m \in Nat  BY <1>5
<1>9. owner = d.links[n].run \/ ~(m > n)  BY <1>4, <1>5, <1>7 DEF OwnerIsNewer
<1>10. CASE ~(m > n)
  <2>1. m = n  BY <1>6, <1>8, <1>10
  <2> QED  BY <1>4, <2>1
<1> QED  BY <1>9, <1>10

\* recordRunOutcome leaves the owners, the Inbox, the TaskRuns and the links
LEMMA RecordKeeps ==
  ASSUME NEW d, DatabaseOK(d), NEW r
  PROVE  LET e == RecordRunOutcome(d, r)
         IN DatabaseOK(e) /\ e.inbox = d.inbox /\ e.links = d.links /\ e.runs = d.runs
<1>1. CASE LinkOf(d, r) = {}  BY <1>1 DEF RecordRunOutcome
<1>2. CASE LinkOf(d, r) # {}
  <2> DEFINE n == CHOOSE m \in LinkOf(d, r) : TRUE
             link == d.links[n]
             g == link.goal
             status == d.runs[r].status
             progressed == IF link.item = 0 \/ OwnerIsNewer(d, n) THEN d
                           ELSE [d EXCEPT !.progress[g][link.road][link.item] =
                                    [status |-> OutcomeStatus(status), run |-> r]]
             preferred == IF d.goals[g].current = r /\ status \notin Live \cup Stopped
                          THEN NoRun ELSE d.goals[g].current
             reselected == [progressed EXCEPT
                                !.goals[g].current = ActiveGuidedRun(progressed, g, preferred)]
             harvested == IF status \in Live THEN reselected
                          ELSE HarvestSupervisorEvidence(reselected, link)
  <2>1. n \in LinkOf(d, r)  BY <1>2
  <2>2. n \in DOMAIN d.links /\ link.run = r  BY <2>1 DEF LinkOf
  <2>3. d.links[n] \in LinkRows  BY <2>2 DEF DatabaseOK, LinksOK
  <2>4. g \in Goals /\ r \in Nat  BY <2>2, <2>3 DEF LinkRows
  <2>5. DatabaseOK(progressed) /\ progressed.inbox = d.inbox /\ progressed.links = d.links
        /\ progressed.runs = d.runs
    <3>1. CASE link.item = 0 \/ OwnerIsNewer(d, n)  BY <3>1
    <3>2. CASE ~(link.item = 0 \/ OwnerIsNewer(d, n))
      <4> DEFINE row == [status |-> OutcomeStatus(status), run |-> r]
      <4>1. row \in ItemRows
        <5>1. OutcomeStatus(status) \in ItemStatuses  BY OutcomeIsStatus
        <5> HIDE DEF status
        <5> QED  BY <2>4, <5>1 DEF ItemRows
      <4>2. row.run = d.progress[g][link.road][link.item].run  BY <2>2, <3>2, WriterOwnsItem
      <4>3. link.road \in DOMAIN d.roads[g] /\ link.item \in DOMAIN d.roads[g][link.road]
        BY <2>2, <3>2, LinkItem
      <4>4. progressed = [d EXCEPT !.progress[g][link.road][link.item] = row]  BY <3>2
      <4> HIDE DEF row, progressed
      <4>5. PICK h, k, i : h = g /\ k = link.road /\ i = link.item  OBVIOUS
      <4>6. progressed = [d EXCEPT !.progress[h][k][i] = row]  BY <4>4, <4>5
      <4>7. h \in Goals /\ k \in DOMAIN d.roads[h] /\ i \in DOMAIN d.roads[h][k]
            /\ row.run = d.progress[h][k][i].run
        BY <2>4, <4>2, <4>3, <4>5
      <4> HIDE DEF n, link, g
      <4> QED  BY <4>1, <4>6, <4>7, ProgressTouched
    <3> QED  BY <3>1, <3>2
  <2>6. QuietDb(progressed, reselected)
    <3> DEFINE row == [progressed.goals[g] EXCEPT !.current = ActiveGuidedRun(progressed, g, preferred)]
    <3> HIDE DEF n, progressed, preferred
    <3>1. GoalRowOK(row, progressed.roads[g])
      BY <2>4, <2>5, GoalRowTouched DEF DatabaseOK, GoalsOK
    <3>2. reselected = [progressed EXCEPT !.goals[g] = row]
      BY <2>4, <2>5 DEF DatabaseOK, GoalsOK, GoalRowOK, Tables, GoalFields
    <3> HIDE DEF row, reselected
    <3> QED  BY <2>4, <2>5, <3>1, <3>2, GoalRowQuiet
  <2> HIDE DEF n, progressed, reselected
  <2>7. DatabaseOK(reselected)  BY <2>5, <2>6, QuietKeepsDatabase
  <2>8. QuietDb(reselected, reselected)  BY <2>7 DEF DatabaseOK, QuietDb
  <2>9. QuietDb(reselected, harvested)  BY <2>7, <2>8, HarvestQuiet
  <2> HIDE DEF harvested
  <2>10. DatabaseOK(harvested)  BY <2>7, <2>9, QuietKeepsDatabase
  <2>11. QuietDb(harvested, RefreshReadyStatus(harvested, g))  BY <2>4, <2>10, RefreshQuiet
  <2>12. DatabaseOK(RefreshReadyStatus(harvested, g))  BY <2>10, <2>11, QuietKeepsDatabase
  <2>13. RecordRunOutcome(d, r) = RefreshReadyStatus(harvested, g)
    BY <1>2 DEF RecordRunOutcome, n, progressed, reselected, harvested
  <2>14. PICK e : e = RefreshReadyStatus(harvested, g)  OBVIOUS
  <2>15. QuietDb(harvested, e)  BY <2>11, <2>14
  <2>16. e.inbox = d.inbox /\ e.links = d.links /\ e.runs = d.runs
    BY <2>5, <2>6, <2>9, <2>15 DEF QuietDb
  <2> QED  BY <2>12, <2>13, <2>14, <2>16
<1> QED  BY <1>1, <1>2

\* what one more link does to the owner of an item
LEMMA OwnerAppend ==
  ASSUME NEW links \in Seq(LinkRows), NEW link \in LinkRows, NEW g, NEW k, NEW i, NEW owner
  PROVE  /\ ~OfItem(link, g, k, i) /\ OwnerOK(owner, links, g, k, i)
              => OwnerOK(owner, Append(links, link), g, k, i)
         /\ OfItem(link, g, k, i) => OwnerOK(link.run, Append(links, link), g, k, i)
<1> DEFINE more == Append(links, link)
           last == Len(links) + 1
<1>1. DOMAIN links = 1 .. Len(links) /\ DOMAIN more = 1 .. last /\ Len(links) \in Nat
      /\ more[last] = link /\ \A n \in DOMAIN links : more[n] = links[n]
  OBVIOUS
<1> HIDE DEF more
<1>2. ASSUME ~OfItem(link, g, k, i), OwnerOK(owner, links, g, k, i)
      PROVE  OwnerOK(owner, more, g, k, i)
  <2>1. CASE owner = NoRun /\ NeverTried(links, g, k, i)
    <3>1. NeverTried(more, g, k, i)  BY <1>1, <1>2, <2>1 DEF NeverTried
    <3> QED  BY <2>1, <3>1 DEF OwnerOK
  <2>2. ASSUME NEW n \in DOMAIN links, NewestOf(links, g, k, i, n), owner = links[n].run
        PROVE  OwnerOK(owner, more, g, k, i)
    <3>1. n \in DOMAIN more /\ owner = more[n].run  BY <1>1, <2>2
    <3>2. NewestOf(more, g, k, i, n)  BY <1>1, <1>2, <2>2 DEF NewestOf
    <3> QED  BY <3>1, <3>2 DEF OwnerOK
  <2> QED  BY <1>2, <2>1, <2>2 DEF OwnerOK
<1>3. ASSUME OfItem(link, g, k, i)
      PROVE  OwnerOK(link.run, more, g, k, i)
  <2>1. NewestOf(more, g, k, i, last)  BY <1>1, <1>3 DEF NewestOf
  <2>2. last \in DOMAIN more /\ link.run = more[last].run  BY <1>1
  <2> QED  BY <2>1, <2>2 DEF OwnerOK
<1> QED  BY <1>2, <1>3 DEF more

\* items are numbered from 1
LEMMA ItemsArePositive ==
  ASSUME NEW roads, NEW approved, NEW progress, RoadsOK(roads, approved, progress),
         NEW g \in Goals, NEW k \in DOMAIN roads[g], NEW i \in DOMAIN roads[g][k]
  PROVE  i \in Nat /\ i # 0
<1>1. roads[g][k] \in Roadmaps  BY DEF RoadsOK
<1>2. roads[g][k] \in Seq(SUBSET UNION Definitions)  BY <1>1, RoadmapsAssumption
<1> QED  BY <1>2

\* persistRunLinkAndSnapshot: the new link is the newest of its item, and its TaskRun the owner
LEMMA AttachKeeps ==
  ASSUME NEW d, DatabaseOK(d), NEW link \in LinkRows, LinkOK(link, d.roads),
         NEW e, e = Attach(d, link.run, link)
  PROVE  DatabaseOK(e) /\ e.inbox = d.inbox /\ e.runs = d.runs
<1> DEFINE g == link.goal
           row == [d.goals[g] EXCEPT !.current = link.run,
                       !.status = IF @ = "ready_to_close" THEN "active" ELSE @]
           owned == [status |-> "running", run |-> link.run]
<1>0. g \in Goals /\ link.run \in Nat  BY DEF LinkRows
<1>1. e = [t \in Tables |-> e[t]]
      /\ e.goals = [d.goals EXCEPT ![g] = row]
      /\ e.links = Append(d.links, link)
      /\ e.defs = d.defs /\ e.roads = d.roads /\ e.approved = d.approved /\ e.runs = d.runs
      /\ e.inbox = d.inbox
      /\ e.progress = IF link.item = 0 THEN d.progress
                      ELSE [d.progress EXCEPT ![g][link.road][link.item] = owned]
  <2>1. d = [t \in Tables |-> d[t]] /\ d.goals = [h \in Goals |-> d.goals[h]]
        /\ d.goals[g] = [f \in GoalFields |-> d.goals[g][f]]
    BY <1>0 DEF DatabaseOK, GoalsOK, GoalRowOK
  <2>2. CASE link.item = 0  BY <1>0, <2>1, <2>2 DEF Attach, Tables, GoalFields
  <2>3. CASE link.item # 0  BY <1>0, <2>1, <2>3 DEF Attach, Tables, GoalFields
  <2> QED  BY <2>2, <2>3
<1>2. GoalRowOK(row, d.roads[g])
  <2>1. GoalRowOK(d.goals[g], d.roads[g])  BY <1>0 DEF DatabaseOK, GoalsOK
  <2> QED  BY <2>1 DEF GoalRowOK, GoalFields
<1> HIDE DEF row
<1>3. GoalsOK(e.goals, d.roads)
  <2>1. GoalsOK(d.goals, d.roads)  BY DEF DatabaseOK
  <2>2. e.goals = [h \in Goals |-> e.goals[h]]  BY <1>1, <2>1 DEF GoalsOK
  <2>3. \A h \in Goals : e.goals[h] = IF h = g THEN row ELSE d.goals[h]  BY <1>1, <2>1 DEF GoalsOK
  <2> QED  BY <1>2, <2>1, <2>2, <2>3 DEF GoalsOK
<1>4. d.links \in Seq(LinkRows) /\ LinksOK(d.links, d.roads)  BY DEF DatabaseOK, LinksOK
<1>9. e.links = Append(d.links, link)  BY <1>1
<1>5. LinksOK(e.links, d.roads)
  <2>1. e.links \in Seq(LinkRows)  BY <1>4, <1>9
  <2>2. \A n \in DOMAIN e.links : e.links[n] = link \/ (n \in DOMAIN d.links /\ e.links[n] = d.links[n])
    <3>1. e.links[Len(d.links) + 1] = link /\ DOMAIN e.links = 1 .. Len(d.links) + 1
          /\ DOMAIN d.links = 1 .. Len(d.links) /\ Len(d.links) \in Nat
      BY <1>4, <1>9
    <3>2. \A n \in DOMAIN d.links : e.links[n] = d.links[n]  BY <1>4, <1>9
    <3>3. ASSUME NEW n \in DOMAIN e.links, n \notin DOMAIN d.links  PROVE n = Len(d.links) + 1
      BY <3>1, <3>3
    <3> QED  BY <3>1, <3>2, <3>3
  <2> QED  BY <1>4, <2>1, <2>2 DEF LinksOK
<1>6. RoadsOK(d.roads, d.approved, d.progress) /\ OwnersOK(d.roads, d.links, d.progress)
  BY DEF DatabaseOK
<1>7. CASE link.item = 0
  <2>1. e.progress = d.progress  BY <1>1, <1>7
  <2>2. ASSUME NEW h \in Goals, NEW l \in DOMAIN d.roads[h], NEW j \in DOMAIN d.roads[h][l]
        PROVE  OwnerOK(d.progress[h][l][j].run, Append(d.links, link), h, l, j)
    <3>1. j # 0  BY <1>6, ItemsArePositive
    <3>2. ~OfItem(link, h, l, j)  BY <1>7, <3>1 DEF OfItem
    <3>3. OwnerOK(d.progress[h][l][j].run, d.links, h, l, j)  BY <1>6 DEF OwnersOK
    <3> QED  BY <1>4, <3>2, <3>3, OwnerAppend
  <2>3. OwnersOK(d.roads, e.links, d.progress)  BY <1>9, <2>2 DEF OwnersOK
  <2> QED  BY <1>1, <1>3, <1>5, <1>6, <2>1, <2>3 DEF DatabaseOK
<1>8. CASE link.item # 0
  <2>1. link.road \in DOMAIN d.roads[g] /\ link.item \in DOMAIN d.roads[g][link.road]
    BY <1>8 DEF LinkOK
  <2>2. owned \in ItemRows  BY <1>0 DEF ItemRows, ItemStatuses
  <2>3. PICK k, i : k = link.road /\ i = link.item  OBVIOUS
  <2>4. e.progress = ItemWritten(d.progress, g, k, i, owned)  BY <1>1, <1>8, <2>3 DEF ItemWritten
  <2> HIDE DEF owned, g
  <2>5. RoadsOK(d.roads, d.approved, e.progress)
        /\ \A h \in Goals : \A l \in DOMAIN d.roads[h] : \A j \in DOMAIN d.roads[h][l] :
            e.progress[h][l][j] =
               IF h = g /\ l = k /\ j = i THEN owned ELSE d.progress[h][l][j]
    <3>1. g \in Goals /\ k \in DOMAIN d.roads[g] /\ i \in DOMAIN d.roads[g][k]
      BY <1>0, <2>1, <2>3
    <3>2. RoadsOK(d.roads, d.approved, d.progress)  BY <1>6
    <3> QED  BY <2>2, <2>4, <3>1, <3>2, ProgressWritten
  <2>6. ASSUME NEW h \in Goals, NEW l \in DOMAIN d.roads[h], NEW j \in DOMAIN d.roads[h][l]
        PROVE  OwnerOK(e.progress[h][l][j].run, Append(d.links, link), h, l, j)
    <3>1. CASE h = g /\ l = k /\ j = i
      <4>1. OfItem(link, h, l, j)  BY <2>3, <3>1 DEF OfItem, g
      <4>2. e.progress[h][l][j].run = link.run  BY <2>5, <3>1 DEF owned
      <4> QED  BY <1>4, <4>1, <4>2, OwnerAppend
    <3>2. CASE ~(h = g /\ l = k /\ j = i)
      <4>1. ~OfItem(link, h, l, j)  BY <2>3, <3>2 DEF OfItem, g
      <4>2. e.progress[h][l][j].run = d.progress[h][l][j].run  BY <2>5, <3>2
      <4>3. OwnerOK(d.progress[h][l][j].run, d.links, h, l, j)  BY <1>6 DEF OwnersOK
      <4> QED  BY <1>4, <4>1, <4>2, <4>3, OwnerAppend
    <3> QED  BY <3>1, <3>2
  <2>7. OwnersOK(d.roads, e.links, e.progress)  BY <1>9, <2>6 DEF OwnersOK
  <2> QED  BY <1>1, <1>3, <1>5, <2>5, <2>7 DEF DatabaseOK
<1> QED  BY <1>7, <1>8

\* attachRun finds only links to an approved item, or to no item
LEMMA LinksForOK ==
  ASSUME NEW d, DatabaseOK(d), NEW r \in DOMAIN d.runs, NEW link \in LinksFor(d, r)
  PROVE  link \in LinkRows /\ LinkOK(link, d.roads) /\ link.run = r
<1> DEFINE item == d.inbox[d.runs[r].inbox]
<1>1. d.runs \in Seq(RunRows) /\ r \in Nat /\ r # NoRun  BY DEF DatabaseOK, WorkOK, NoRun
<1>2. item \in InboxRows /\ (item.linked => item.road # 0)
  <2>1. WorkOK(d.inbox, d.runs)  BY DEF DatabaseOK
  <2>2. d.runs[r].inbox \in DOMAIN d.inbox /\ d.inbox \in Seq(InboxRows)  BY <2>1 DEF WorkOK
  <2>3. item \in InboxRows  BY <2>2
  <2> QED  BY <2>1, <2>2, <2>3 DEF WorkOK
<1>3. RoadsOK(d.roads, d.approved, d.progress) /\ GoalsOK(d.goals, d.roads)  BY DEF DatabaseOK
<1>4. CASE item.goal \in Goals
  <2>1. PICK g \in Goals : /\ g = item.goal /\ item.linked
                           /\ SliceApproved(d, g, item.def, item.road, item.item)
                           /\ link = [run |-> r, goal |-> g, def |-> item.def,
                                      road |-> item.road, item |-> item.item]
    BY <1>4 DEF LinksFor
  <2> HIDE DEF item
  <2>2. item.road \in Nat /\ item.def \in Nat /\ item.item \in Nat /\ item.road # 0
    BY <1>2, <2>1 DEF InboxRows
  <2>3. link \in LinkRows /\ link.run = r  BY <1>1, <2>1, <2>2 DEF LinkRows
  <2>4. item.road = d.goals[g].road /\ item.item \in d.approved[g][item.road]
    BY <2>1 DEF SliceApproved
  <2>5. d.goals[g].road \in 0 .. Len(d.roads[g])  BY <1>3 DEF GoalsOK, GoalRowOK
  <2>6. d.roads[g] \in Seq(Roadmaps)  BY <1>3 DEF RoadsOK
  <2>7. item.road \in DOMAIN d.roads[g]  BY <2>2, <2>4, <2>5, <2>6
  <2>8. item.item \in DOMAIN d.roads[g][item.road]  BY <1>3, <2>4, <2>7 DEF RoadsOK
  <2>9. link.run # NoRun /\ link.road = item.road /\ link.item = item.item /\ link.goal = g
    BY <1>1, <2>1
  <2>10. LinkOK(link, d.roads)  BY <2>7, <2>8, <2>9 DEF LinkOK
  <2> QED  BY <2>3, <2>10
<1>5. CASE item.goal \notin Goals
  <2>1. PICK g \in Goals : link = [run |-> r, goal |-> g, def |-> d.goals[g].def,
                                   road |-> 0, item |-> 0]
    BY <1>5 DEF LinksFor
  <2>2. d.goals[g].def \in Nat  BY <1>3 DEF GoalsOK, GoalRowOK
  <2>3. link \in LinkRows /\ link.run = r /\ link.item = 0  BY <1>1, <2>1, <2>2 DEF LinkRows
  <2> QED  BY <1>1, <2>3 DEF LinkOK
<1> QED  BY <1>4, <1>5

\* attachRun
LEMMA AttachRunKeeps ==
  ASSUME NEW d, DatabaseOK(d), NEW r \in DOMAIN d.runs
  PROVE  /\ DatabaseOK(AttachRun(d, r))
         /\ AttachRun(d, r).inbox = d.inbox /\ AttachRun(d, r).runs = d.runs
<1>1. CASE LinksFor(d, r) = {}  BY <1>1 DEF AttachRun
<1>2. CASE LinksFor(d, r) # {}
  <2> DEFINE link == CHOOSE x \in LinksFor(d, r) : TRUE
  <2>1. link \in LinksFor(d, r)  BY <1>2
  <2>2. AttachRun(d, r) = Attach(d, r, link)  BY <1>2 DEF AttachRun
  <2> HIDE DEF link
  <2>3. link \in LinkRows /\ LinkOK(link, d.roads) /\ link.run = r  BY <2>1, LinksForOK
  <2> QED  BY <2>2, <2>3, AttachKeeps
<1> QED  BY <1>1, <1>2

\* the Inbox holds the same requests
SameWork(old, new) ==
  /\ DOMAIN new = DOMAIN old
  /\ \A n \in DOMAIN old : /\ new[n].auto = old[n].auto /\ new[n].goal = old[n].goal
                           /\ new[n].road = old[n].road /\ new[n].item = old[n].item

\* one Inbox row may get another TaskRun, status or link; it stays the same request
LEMMA InboxRowTouched ==
  ASSUME NEW inbox, NEW runs, WorkOK(inbox, runs), NEW n \in DOMAIN inbox,
         NEW row \in InboxRows,
         row.linked \/ row.auto => row.road # 0,
         row.run # NoRun => row.run \in DOMAIN runs,
         row.auto = inbox[n].auto, row.goal = inbox[n].goal, row.road = inbox[n].road,
         row.item = inbox[n].item,
         NEW new, new = [inbox EXCEPT ![n] = row]
  PROVE  WorkOK(new, runs) /\ SameWork(inbox, new)
<1>1. inbox \in Seq(InboxRows)  BY DEF WorkOK
<1>2. new \in Seq(InboxRows) /\ DOMAIN new = DOMAIN inbox
      /\ \A m \in DOMAIN inbox : new[m] = IF m = n THEN row ELSE inbox[m]
  BY <1>1
<1>3. new \in Seq(InboxRows) /\ DOMAIN new = DOMAIN inbox  BY <1>2
<1>4. \A m \in DOMAIN new : /\ new[m].linked \/ new[m].auto => new[m].road # 0
                            /\ new[m].run # NoRun => new[m].run \in DOMAIN runs
  BY <1>2 DEF WorkOK
<1>5. \A m \in DOMAIN inbox : /\ new[m].auto = inbox[m].auto /\ new[m].goal = inbox[m].goal
                              /\ new[m].road = inbox[m].road /\ new[m].item = inbox[m].item
  BY <1>2
<1>6. SameWork(inbox, new)  BY <1>3, <1>5 DEF SameWork
<1>7. runs \in Seq(RunRows) /\ \A r \in DOMAIN runs : runs[r].inbox \in DOMAIN new
  BY <1>3 DEF WorkOK
<1>8. WorkOK(new, runs)  BY <1>3, <1>4, <1>7 DEF WorkOK
<1> QED  BY <1>6, <1>8

\* the TaskRun a claim creates
Claimed(n) == [status |-> "running", attempt |-> 1, verdict |-> "none", inbox |-> n,
               retryable |-> FALSE]

\* a claim adds the TaskRun of an Inbox row
LEMMA RunAppended ==
  ASSUME NEW inbox, NEW runs, WorkOK(inbox, runs), NEW n \in DOMAIN inbox
  PROVE  WorkOK(inbox, Append(runs, Claimed(n))) /\ Len(runs) + 1 \in DOMAIN Append(runs, Claimed(n))
<1> DEFINE more == Append(runs, Claimed(n))
<1>1. inbox \in Seq(InboxRows) /\ runs \in Seq(RunRows) /\ n \in Nat  BY DEF WorkOK
<1>2. Claimed(n) \in RunRows /\ Claimed(n).inbox = n  BY <1>1 DEF Claimed, RunRows, RunStatuses
<1>3. more \in Seq(RunRows) /\ DOMAIN more = 1 .. Len(runs) + 1 /\ Len(runs) \in Nat
      /\ DOMAIN runs = 1 .. Len(runs)
      /\ more[Len(runs) + 1] = Claimed(n) /\ \A r \in DOMAIN runs : more[r] = runs[r]
  BY <1>1, <1>2
<1> HIDE DEF more
<1>4. \A r \in DOMAIN more : r \in DOMAIN runs \/ r = Len(runs) + 1  BY <1>3
<1>5. \A r \in DOMAIN runs : r \in DOMAIN more  BY <1>3
<1>6. \A r \in DOMAIN more : more[r].inbox \in DOMAIN inbox  BY <1>2, <1>3, <1>4 DEF WorkOK
<1>7. \A m \in DOMAIN inbox : /\ inbox[m].linked \/ inbox[m].auto => inbox[m].road # 0
                              /\ inbox[m].run # NoRun => inbox[m].run \in DOMAIN more
  BY <1>5 DEF WorkOK
<1>8. WorkOK(inbox, more)  BY <1>1, <1>3, <1>6, <1>7 DEF WorkOK
<1> QED  BY <1>3, <1>8 DEF more

\* the database after a change of Inbox and TaskRuns alone
LEMMA WorkChanged ==
  ASSUME NEW d, DatabaseOK(d), NEW e, e = [t \in Tables |-> e[t]],
         WorkOK(e.inbox, e.runs), e.goals = d.goals, e.defs = d.defs, e.roads = d.roads,
         e.approved = d.approved, e.progress = d.progress, e.links = d.links
  PROVE  DatabaseOK(e)
  BY DEF DatabaseOK

\* claimSessionInboxItem: the TaskRun and its Inbox row, before the TaskRun is attached
LEMMA CreatedKeeps ==
  ASSUME NEW d, DatabaseOK(d), NEW n \in DOMAIN d.inbox
  PROVE  LET r == Len(d.runs) + 1
             created == [d EXCEPT
               !.runs = Append(@, [status |-> "running", attempt |-> 1, verdict |-> "none",
                                   inbox |-> n, retryable |-> FALSE]),
               !.inbox[n].status = "started",
               !.inbox[n].run = r]
         IN /\ DatabaseOK(created) /\ r \in DOMAIN created.runs
            /\ SameWork(d.inbox, created.inbox)
<1> DEFINE r == Len(d.runs) + 1
           created == [d EXCEPT
               !.runs = Append(@, [status |-> "running", attempt |-> 1, verdict |-> "none",
                                   inbox |-> n, retryable |-> FALSE]),
               !.inbox[n].status = "started",
               !.inbox[n].run = r]
           row == [d.inbox[n] EXCEPT !.status = "started", !.run = r]
<1>1. WorkOK(d.inbox, d.runs) /\ d.inbox \in Seq(InboxRows) /\ d.runs \in Seq(RunRows)
  BY DEF DatabaseOK, WorkOK
<1>2. created = [t \in Tables |-> created[t]]
      /\ created.goals = d.goals /\ created.defs = d.defs /\ created.roads = d.roads
      /\ created.approved = d.approved /\ created.progress = d.progress
      /\ created.links = d.links
  BY DEF DatabaseOK, Tables
<1>3. created.runs = Append(d.runs, Claimed(n))  BY DEF DatabaseOK, Tables, Claimed
<1>4. d.inbox[n] \in InboxRows  BY <1>1
<1>5. created.inbox = [d.inbox EXCEPT ![n] = row]
  <2>1. created.inbox = [d.inbox EXCEPT ![n].status = "started", ![n].run = r]
    BY DEF DatabaseOK, Tables
  <2> HIDE DEF created
  <2> QED  BY <1>1, <2>1
<1>6. row \in InboxRows /\ row.auto = d.inbox[n].auto /\ row.goal = d.inbox[n].goal
      /\ row.road = d.inbox[n].road /\ row.item = d.inbox[n].item
      /\ row.linked = d.inbox[n].linked /\ row.run = r
  <2>1. r \in Nat  BY <1>1
  <2> HIDE DEF r
  <2> QED  BY <1>4, <2>1 DEF InboxRows
<1> HIDE DEF created, row, r
<1>8. WorkOK(d.inbox, created.runs) /\ r \in DOMAIN created.runs  BY <1>1, <1>3, RunAppended DEF r
<1>9. row.linked \/ row.auto => row.road # 0  BY <1>1, <1>6 DEF WorkOK
<1>10. WorkOK(created.inbox, created.runs) /\ SameWork(d.inbox, created.inbox)
  BY <1>5, <1>6, <1>8, <1>9, InboxRowTouched
<1>11. DatabaseOK(created)  BY <1>2, <1>10, WorkChanged
<1> QED  BY <1>8, <1>10, <1>11 DEF created, r

\* claimSessionInboxItem
LEMMA ClaimKeeps ==
  ASSUME NEW d, DatabaseOK(d), NEW n \in DOMAIN d.inbox
  PROVE  DatabaseOK(ClaimItem(d, n)) /\ SameWork(d.inbox, ClaimItem(d, n).inbox)
<1> DEFINE r == Len(d.runs) + 1
           created == [d EXCEPT
               !.runs = Append(@, [status |-> "running", attempt |-> 1, verdict |-> "none",
                                   inbox |-> n, retryable |-> FALSE]),
               !.inbox[n].status = "started",
               !.inbox[n].run = r]
<1>7. ClaimItem(d, n) = IF d.inbox[n].goal \in Goals /\ LinksFor(created, r) = {}
                        THEN [created EXCEPT !.runs[r].status = "failed"]
                        ELSE AttachRun(created, r)
  BY DEF ClaimItem
<1>8. DatabaseOK(created) /\ r \in DOMAIN created.runs /\ SameWork(d.inbox, created.inbox)
  BY CreatedKeeps
<1> HIDE DEF created, r
<1>12. CASE d.inbox[n].goal \in Goals /\ LinksFor(created, r) = {}
  <2> DEFINE lost == [created.runs[r] EXCEPT !.status = "failed"]
  <2>1. created.runs[r] \in RunRows  BY <1>8 DEF DatabaseOK, WorkOK
  <2>2. lost \in RunRows /\ lost.inbox = created.runs[r].inbox
    BY <2>1 DEF RunRows, RunStatuses
  <2>3. ClaimItem(d, n) = [created EXCEPT !.runs[r] = lost]
    BY <1>7, <1>12
  <2> HIDE DEF lost
  <2>4. DatabaseOK(ClaimItem(d, n)) /\ ClaimItem(d, n).inbox = created.inbox
    BY <1>8, <2>2, <2>3, RunRowTouched
  <2> QED  BY <1>8, <2>4
<1>13. CASE ~(d.inbox[n].goal \in Goals /\ LinksFor(created, r) = {})
  BY <1>7, <1>8, <1>13, AttachRunKeeps
<1> QED  BY <1>12, <1>13

\* claimNextSessionInbox
LEMMA DispatchKeeps ==
  ASSUME NEW d, DatabaseOK(d), NEW e \in Dispatch(d)
  PROVE  DatabaseOK(e) /\ SameWork(d.inbox, e.inbox)
<1>1. SameWork(d.inbox, d.inbox)  BY DEF SameWork
<1>2. e = d \/ \E n \in Queued(d) : e = ClaimItem(d, n)  BY DEF Dispatch
<1>3. \A n \in Queued(d) : n \in DOMAIN d.inbox  BY DEF Queued
<1> QED  BY <1>1, <1>2, <1>3, ClaimKeeps

\* a request that may be added: an authorized one names a Roadmap
RequestOK(item) ==
  /\ item \in InboxRows /\ item.run = NoRun
  /\ item.linked \/ item.auto => item.road # 0

\* the Inbox with one more row
LEMMA InboxAppended ==
  ASSUME NEW d, DatabaseOK(d), NEW item, RequestOK(item), NEW e,
         e = [d EXCEPT !.inbox = Append(@, item)]
  PROVE  DatabaseOK(e) /\ e.inbox = Append(d.inbox, item)
<1>1. e = [t \in Tables |-> e[t]]
      /\ e.goals = d.goals /\ e.defs = d.defs /\ e.roads = d.roads
      /\ e.approved = d.approved /\ e.progress = d.progress
      /\ e.links = d.links /\ e.runs = d.runs
  BY DEF DatabaseOK, Tables
<1>2. e.inbox = Append(d.inbox, item)  BY DEF DatabaseOK, Tables
<1>3. WorkOK(d.inbox, d.runs)  BY DEF DatabaseOK
<1>4. PICK inbox, runs, more : inbox = d.inbox /\ runs = d.runs /\ more = e.inbox  OBVIOUS
<1>5. WorkOK(inbox, runs) /\ more = Append(inbox, item)  BY <1>2, <1>3, <1>4
<1>6. WorkOK(more, runs)
  <2>1. inbox \in Seq(InboxRows) /\ runs \in Seq(RunRows) /\ item \in InboxRows
    BY <1>5 DEF WorkOK, RequestOK
  <2>2. more \in Seq(InboxRows) /\ DOMAIN more = 1 .. Len(inbox) + 1 /\ Len(inbox) \in Nat
        /\ DOMAIN inbox = 1 .. Len(inbox)
        /\ more[Len(inbox) + 1] = item /\ \A n \in DOMAIN inbox : more[n] = inbox[n]
    BY <1>5, <2>1
  <2>3. \A n \in DOMAIN more : n \in DOMAIN inbox \/ n = Len(inbox) + 1  BY <2>2
  <2>4. \A n \in DOMAIN inbox : n \in DOMAIN more  BY <2>2
  <2>5. \A r \in DOMAIN runs : runs[r].inbox \in DOMAIN more  BY <1>5, <2>4 DEF WorkOK
  <2>6. ASSUME NEW n \in DOMAIN more
        PROVE  /\ more[n].linked \/ more[n].auto => more[n].road # 0
               /\ more[n].run # NoRun => more[n].run \in DOMAIN runs
    <3>1. CASE n \in DOMAIN inbox  BY <1>5, <2>2, <3>1 DEF WorkOK
    <3>2. CASE n = Len(inbox) + 1  BY <2>2, <3>2 DEF RequestOK
    <3> QED  BY <2>3, <3>1, <3>2
  <2> QED  BY <2>1, <2>2, <2>5, <2>6 DEF WorkOK
<1>7. WorkOK(e.inbox, e.runs)  BY <1>1, <1>4, <1>6
<1>8. DatabaseOK(e)
  <2>1. e = [t \in Tables |-> e[t]]  BY <1>1
  <2>2. e.goals = d.goals /\ e.defs = d.defs /\ e.roads = d.roads
        /\ e.approved = d.approved /\ e.progress = d.progress /\ e.links = d.links
    BY <1>1
  <2> QED  BY <1>7, <2>1, <2>2, WorkChanged
<1> QED  BY <1>2, <1>8

\* an item that may be started: it belongs to the approved Roadmap
LEMMA MayStartItem ==
  ASSUME NEW d, DatabaseOK(d), NEW g \in Goals, NEW i, MayStart(d, g, i)
  PROVE  /\ d.goals[g].road \in DOMAIN d.roads[g]
         /\ i \in DOMAIN d.roads[g][d.goals[g].road]
         /\ i \in Nat /\ d.goals[g].road \in Nat /\ d.goals[g].road # 0 /\ d.goals[g].def \in Nat
<1>1. RoadsOK(d.roads, d.approved, d.progress) /\ GoalsOK(d.goals, d.roads)  BY DEF DatabaseOK
<1>2. d.goals[g].road # 0 /\ i \in d.approved[g][d.goals[g].road]  BY DEF MayStart
<1>3. d.goals[g].road \in 0 .. Len(d.roads[g]) /\ d.goals[g].def \in Nat
  BY <1>1 DEF GoalsOK, GoalRowOK
<1>4. d.roads[g] \in Seq(Roadmaps)  BY <1>1 DEF RoadsOK
<1>5. d.goals[g].road \in DOMAIN d.roads[g] /\ d.goals[g].road \in Nat  BY <1>2, <1>3, <1>4
<1>6. i \in DOMAIN d.roads[g][d.goals[g].road]  BY <1>1, <1>2, <1>5 DEF RoadsOK
<1>7. i \in Nat  BY <1>1, <1>5, <1>6, ItemsArePositive
<1> QED  BY <1>2, <1>3, <1>5, <1>6, <1>7

\* the request enqueueGoalRoadmapItem makes for it
LEMMA NewItemOK ==
  ASSUME NEW d, DatabaseOK(d), NEW g \in Goals, NEW i, MayStart(d, g, i), NEW auto \in BOOLEAN
  PROVE  /\ RequestOK(NewItem(d, g, i, auto))
         /\ RequestOK([NewItem(d, g, i, auto) EXCEPT !.linked = FALSE])
<1>1. i \in Nat /\ d.goals[g].road \in Nat /\ d.goals[g].road # 0 /\ d.goals[g].def \in Nat
  BY MayStartItem
<1>2. RequestOK(NewItem(d, g, i, auto))  BY <1>1 DEF NewItem, RequestOK, InboxRows, NoRun
<1>3. RequestOK([NewItem(d, g, i, auto) EXCEPT !.linked = FALSE])
  BY <1>1 DEF NewItem, RequestOK, InboxRows, NoRun
<1> QED  BY <1>2, <1>3

\* what is new in the Inbox: the same requests and at most one more
Added(item, old, new) ==
  \/ SameWork(old, new)
  \/ SameWork(Append(old, item), new)

\* an Inbox row whose link is repaired
LEMMA RelinkedKeeps ==
  ASSUME NEW d, DatabaseOK(d), NEW n \in DOMAIN d.inbox, d.inbox[n].road # 0
  PROVE  LET linked == [d EXCEPT !.inbox[n].linked = TRUE]
         IN DatabaseOK(linked) /\ SameWork(d.inbox, linked.inbox)
<1> DEFINE linked == [d EXCEPT !.inbox[n].linked = TRUE]
<1> DEFINE row == [d.inbox[n] EXCEPT !.linked = TRUE]
<1>1. WorkOK(d.inbox, d.runs) /\ d.inbox \in Seq(InboxRows)  BY DEF DatabaseOK, WorkOK
<1>2. d.inbox[n] \in InboxRows  BY <1>1
<1>3. row \in InboxRows /\ row.auto = d.inbox[n].auto /\ row.goal = d.inbox[n].goal
      /\ row.road = d.inbox[n].road /\ row.item = d.inbox[n].item
      /\ row.run = d.inbox[n].run
  BY <1>2 DEF InboxRows
<1>4. linked = [t \in Tables |-> linked[t]]
      /\ linked.goals = d.goals /\ linked.defs = d.defs /\ linked.roads = d.roads
      /\ linked.approved = d.approved /\ linked.progress = d.progress
      /\ linked.links = d.links /\ linked.runs = d.runs
  BY DEF DatabaseOK, Tables
<1>5. linked.inbox = [d.inbox EXCEPT ![n] = row]  BY DEF DatabaseOK, Tables
<1> HIDE DEF row, linked
<1>6. row.road # 0 /\ (row.run # NoRun => row.run \in DOMAIN d.runs)
  BY <1>1, <1>3 DEF WorkOK
<1>7. WorkOK(linked.inbox, d.runs) /\ SameWork(d.inbox, linked.inbox)
  BY <1>1, <1>3, <1>5, <1>6, InboxRowTouched
<1>8. DatabaseOK(linked)  BY <1>4, <1>7, WorkChanged
<1> QED  BY <1>7, <1>8 DEF linked

\* enqueueGoalRoadmapItem adds at most the request itself
LEMMA EnqueueKeeps ==
  ASSUME NEW d, DatabaseOK(d), NEW item, RequestOK(item), item.road # 0, NEW e \in Enqueue(d, item)
  PROVE  DatabaseOK(e) /\ Added(item, d.inbox, e.inbox)
<1>1. SameWork(d.inbox, d.inbox)  BY DEF SameWork
<1>2. CASE SameRequest(d, item) # {}
  <2> DEFINE n == CHOOSE m \in SameRequest(d, item) : TRUE
             linked == [d EXCEPT !.inbox[n].linked = TRUE]
  <2>1. n \in SameRequest(d, item)  BY <1>2
  <2>2. n \in DOMAIN d.inbox /\ d.inbox[n].road = item.road  BY <2>1 DEF SameRequest
  <2>3. \/ e \in Dispatch(linked)
        \/ e = d
        \/ d.inbox[n].run # NoRun /\ e = AttachRun(d, d.inbox[n].run)
    BY <1>2 DEF Enqueue
  <2>4. CASE e \in Dispatch(linked)
    <3>1. d.inbox[n].road # 0  BY <2>2
    <3> HIDE DEF n
    <3>2. DatabaseOK(linked) /\ SameWork(d.inbox, linked.inbox)  BY <2>2, <3>1, RelinkedKeeps
    <3> HIDE DEF linked
    <3>3. DatabaseOK(e) /\ SameWork(linked.inbox, e.inbox)  BY <2>4, <3>2, DispatchKeeps
    <3>4. SameWork(d.inbox, e.inbox)  BY <3>2, <3>3 DEF SameWork
    <3> QED  BY <3>3, <3>4 DEF Added
  <2>5. CASE e = d  BY <1>1, <2>5 DEF Added
  <2>6. CASE d.inbox[n].run # NoRun /\ e = AttachRun(d, d.inbox[n].run)
    <3>1. d.inbox[n].run \in DOMAIN d.runs  BY <2>2, <2>6 DEF DatabaseOK, WorkOK
    <3> HIDE DEF n
    <3>2. DatabaseOK(e) /\ e.inbox = d.inbox  BY <2>6, <3>1, AttachRunKeeps
    <3> QED  BY <1>1, <3>2 DEF Added
  <2> HIDE DEF n, linked
  <2> QED  BY <2>3, <2>4, <2>5, <2>6
<1>3. CASE SameRequest(d, item) = {}
  <2> DEFINE more == [d EXCEPT !.inbox = Append(@, item)]
  <2>1. e = d \/ e \in Dispatch(more)  BY <1>3 DEF Enqueue
  <2>2. DatabaseOK(more) /\ more.inbox = Append(d.inbox, item)  BY InboxAppended
  <2> HIDE DEF more
  <2>3. CASE e \in Dispatch(more)
    <3>1. DatabaseOK(e) /\ SameWork(more.inbox, e.inbox)  BY <2>2, <2>3, DispatchKeeps
    <3> QED  BY <2>2, <3>1 DEF Added
  <2> QED  BY <1>1, <2>1, <2>3 DEF Added
<1> QED  BY <1>2, <1>3

\* the requests that are new in the Inbox are the user's, or about items nobody tried
NoRetry(links, old, new) ==
  \A n \in DOMAIN new \ DOMAIN old :
     new[n].auto => NeverTried(links, new[n].goal, new[n].road, new[n].item)

\* dispatching the Inbox afterwards changes nothing about that
LEMMA NoRetryAfterDispatch ==
  ASSUME NEW links, NEW old, NEW mid, NEW new, NoRetry(links, old, mid), SameWork(mid, new)
  PROVE  NoRetry(links, old, new)
  BY DEF NoRetry, SameWork

\* an untried item has had no TaskRun: its owner is the TaskRun linked to it last
LEMMA UntriedNeverTried ==
  ASSUME NEW d, DatabaseOK(d), NEW g \in Goals, NEW k \in DOMAIN d.roads[g],
         NEW i \in DOMAIN d.roads[g][k], d.progress[g][k][i].run = NoRun
  PROVE  NeverTried(d.links, g, k, i)
<1>1. OwnerOK(NoRun, d.links, g, k, i)  BY DEF DatabaseOK, OwnersOK
<1>2. \A n \in DOMAIN d.links : d.links[n].run # NoRun  BY DEF DatabaseOK, LinksOK, LinkOK
<1> QED  BY <1>1, <1>2 DEF OwnerOK

\* what automatic progression admits
LEMMA AdmissionOK ==
  ASSUME NEW d, DatabaseOK(d), NEW r, NEW item \in Admissions(d, r)
  PROVE  /\ RequestOK(item) /\ RequestOK([item EXCEPT !.linked = FALSE]) /\ item.road # 0
         /\ NeverTried(d.links, item.goal, item.road, item.item)
<1>1. PICK p \in LinkOf(d, r) \X ItemIds :
         /\ item = NewItem(d, d.links[p[1]].goal, p[2], TRUE)
         /\ d.goals[d.links[p[1]].goal].road = d.links[p[1]].road
         /\ p[2] \in NextItems(d, d.links[p[1]])
         /\ MayStart(d, d.links[p[1]].goal, p[2])
  BY DEF Admissions
<1>2. PICK n \in LinkOf(d, r), i \in ItemIds : n = p[1] /\ i = p[2]  BY <1>1
<1>3. PICK g, k : g = d.links[n].goal /\ k = d.links[n].road  OBVIOUS
<1>4. item = NewItem(d, g, i, TRUE) /\ d.goals[g].road = k /\ MayStart(d, g, i)
  BY <1>1, <1>2, <1>3
<1>5. Untried(d, g, k, i)
  <2>1. i \in NextItems(d, d.links[n])  BY <1>1, <1>2
  <2> QED  BY <1>3, <2>1 DEF NextItems
<1>6. g \in Goals
  <2>1. n \in DOMAIN d.links  BY DEF LinkOf
  <2>2. d.links[n] \in LinkRows  BY <2>1 DEF DatabaseOK, LinksOK
  <2> QED  BY <1>3, <2>2 DEF LinkRows
<1>7. RequestOK(item) /\ RequestOK([item EXCEPT !.linked = FALSE])  BY <1>4, <1>6, NewItemOK
<1>8. k \in DOMAIN d.roads[g] /\ i \in DOMAIN d.roads[g][k] /\ k # 0  BY <1>4, <1>6, MayStartItem
<1>9. NeverTried(d.links, g, k, i)  BY <1>5, <1>6, <1>8, UntriedNeverTried DEF Untried
<1>10. item.goal = g /\ item.road = k /\ item.item = i  BY <1>4 DEF NewItem
<1> QED  BY <1>7, <1>8, <1>9, <1>10

\* one more request about an item nobody tried
LEMMA NoRetryAppend ==
  ASSUME NEW links, NEW old \in Seq(InboxRows), NEW item, NEW new,
         NeverTried(links, item.goal, item.road, item.item), Added(item, old, new)
  PROVE  NoRetry(links, old, new)
<1>1. CASE SameWork(old, new)  BY <1>1 DEF SameWork, NoRetry
<1>2. CASE SameWork(Append(old, item), new)
  <2>1. PICK more : more = Append(old, item)  OBVIOUS
  <2>2. DOMAIN more = 1 .. Len(old) + 1 /\ DOMAIN old = 1 .. Len(old) /\ Len(old) \in Nat
        /\ more[Len(old) + 1] = item
    BY <2>1
  <2>3. \A n \in DOMAIN more \ DOMAIN old : n = Len(old) + 1  BY <2>2
  <2>4. NoRetry(links, old, more)  BY <2>2, <2>3 DEF NoRetry
  <2>5. SameWork(more, new)  BY <1>2, <2>1
  <2> QED  BY <2>4, <2>5, NoRetryAfterDispatch
<1> QED  BY <1>1, <1>2 DEF Added

\* recordWorkspaceGoalRunOutcome
LEMMA RecordAndAdvanceKeeps ==
  ASSUME NEW d, DatabaseOK(d), NEW r, NEW autoStart \in BOOLEAN,
         NEW e \in RecordAndAdvance(d, r, autoStart)
  PROVE  DatabaseOK(e) /\ NoRetry(d.links, d.inbox, e.inbox)
<1>1. PICK recorded : recorded = RecordRunOutcome(d, r)  OBVIOUS
<1>2. DatabaseOK(recorded) /\ recorded.inbox = d.inbox /\ recorded.links = d.links
  BY <1>1, RecordKeeps
<1>3. e = recorded \/ \E item \in Admissions(recorded, r) : e \in Enqueue(recorded, item)
  BY <1>1 DEF RecordAndAdvance
<1>4. CASE e = recorded  BY <1>2, <1>4 DEF NoRetry
<1>5. ASSUME NEW item \in Admissions(recorded, r), e \in Enqueue(recorded, item)
      PROVE  DatabaseOK(e) /\ NoRetry(d.links, d.inbox, e.inbox)
  <2>1. RequestOK(item) /\ item.road # 0
        /\ NeverTried(d.links, item.goal, item.road, item.item)
    BY <1>2, AdmissionOK
  <2>2. DatabaseOK(e) /\ Added(item, d.inbox, e.inbox)  BY <1>2, <1>5, <2>1, EnqueueKeeps
  <2>3. d.inbox \in Seq(InboxRows)  BY DEF DatabaseOK, WorkOK
  <2> QED  BY <2>1, <2>2, <2>3, NoRetryAppend
<1> QED  BY <1>3, <1>4, <1>5

\* a Goal row that falls back
LEMMA GoalRowReset ==
  ASSUME NEW row, NEW roads, GoalRowOK(row, roads), NEW x, NEW y \in Nat, Len(roads) \in Nat
  PROVE  /\ GoalRowOK([row EXCEPT !.status = x, !.def = y, !.road = 0], roads)
         /\ GoalRowOK([row EXCEPT !.status = x, !.road = 0], roads)
<1>1. row = [f \in GoalFields |-> row[f]] /\ row.def \in Nat /\ 0 \in 0 .. Len(roads)
  BY DEF GoalRowOK
<1> DEFINE a == [row EXCEPT !.status = x, !.def = y, !.road = 0]
           b == [row EXCEPT !.status = x, !.road = 0]
<1>2. a = [f \in GoalFields |-> a[f]] /\ a.def = y /\ a.road = 0  BY <1>1 DEF GoalFields
<1>3. b = [f \in GoalFields |-> b[f]] /\ b.def = row.def /\ b.road = 0  BY <1>1 DEF GoalFields
<1> HIDE DEF a, b
<1>4. GoalRowOK(a, roads)  BY <1>1, <1>2 DEF GoalRowOK
<1>5. GoalRowOK(b, roads)  BY <1>1, <1>3 DEF GoalRowOK
<1> QED  BY <1>4, <1>5 DEF a, b

\* addRevision of a Roadmap: links and owners of the older Roadmaps stay, and nobody has
\* tried an item of the new one
LEMMA AddRoadmapKeeps ==
  ASSUME NEW d, DatabaseOK(d), NEW g \in Goals, NEW roadmap \in Roadmaps,
         NEW e, e = AddRoadmap(d, g, roadmap)
  PROVE  DatabaseOK(e) /\ e.inbox = d.inbox
<1> DEFINE last == Len(d.roads[g]) + 1
           untouched == [i \in DOMAIN roadmap |-> Untouched]
           row == [d.goals[g] EXCEPT
                     !.status = IF Status(d, g) = "ready_to_close" THEN "active" ELSE Status(d, g),
                     !.road = 0]
<1>1. e = [t \in Tables |-> e[t]] /\ e.defs = d.defs /\ e.inbox = d.inbox /\ e.runs = d.runs
      /\ e.links = d.links
  <2>1. d = [t \in Tables |-> d[t]]  BY DEF DatabaseOK
  <2> HIDE DEF row, untouched
  <2>2. e.defs = d.defs /\ e.inbox = d.inbox  BY <2>1 DEF AddRoadmap, Tables
  <2>3. e.runs = d.runs /\ e.links = d.links  BY <2>1 DEF AddRoadmap, Tables
  <2>4. e = [t \in Tables |-> e[t]]
    <3> DEFINE x == [d EXCEPT !.roads[g] = Append(@, roadmap), !.approved[g] = Append(@, {}),
                              !.progress[g] = Append(@, [i \in DOMAIN roadmap |-> Untouched])]
               status == IF Status(d, g) = "ready_to_close" THEN "active" ELSE Status(d, g)
    <3>1. x = [t \in Tables |-> x[t]]  BY <2>1 DEF Tables
    <3>2. e = [x EXCEPT !.goals[g].status = status, !.goals[g].road = 0]  BY DEF AddRoadmap
    <3> HIDE DEF x, status
    <3> QED  BY <3>1, <3>2 DEF Tables
  <2> QED  BY <2>2, <2>3, <2>4
<1>2. e.roads = [d.roads EXCEPT ![g] = Append(d.roads[g], roadmap)]
      /\ e.approved = [d.approved EXCEPT ![g] = Append(d.approved[g], {})]
      /\ e.progress = [d.progress EXCEPT ![g] = Append(d.progress[g], untouched)]
  <2>1. d = [t \in Tables |-> d[t]]  BY DEF DatabaseOK
  <2>2. e.roads = [d.roads EXCEPT ![g] = Append(d.roads[g], roadmap)]
    BY <2>1 DEF AddRoadmap, Tables
  <2>3. e.approved = [d.approved EXCEPT ![g] = Append(d.approved[g], {})]
    BY <2>1 DEF AddRoadmap, Tables
  <2>4. e.progress = [d.progress EXCEPT ![g] = Append(d.progress[g], untouched)]
    BY <2>1 DEF AddRoadmap, Tables
  <2> QED  BY <2>2, <2>3, <2>4
<1>3. e.goals = [d.goals EXCEPT ![g] = row]
  <2>1. d = [t \in Tables |-> d[t]] /\ d.goals = [h \in Goals |-> d.goals[h]]
        /\ d.goals[g] = [f \in GoalFields |-> d.goals[g][f]]
    BY DEF DatabaseOK, GoalsOK, GoalRowOK
  <2> QED  BY <2>1 DEF AddRoadmap, Tables, GoalFields
<1>4. RoadsOK(d.roads, d.approved, d.progress) /\ GoalsOK(d.goals, d.roads)
      /\ LinksOK(d.links, d.roads) /\ OwnersOK(d.roads, d.links, d.progress)
  BY DEF DatabaseOK
<1>5. d.roads \in [Goals -> Seq(Roadmaps)] /\ d.approved \in [Goals -> Seq(SUBSET Nat)]
      /\ d.progress \in [Goals -> Seq(Progressions)]
  BY <1>4 DEF RoadsOK
<1>6. d.roads[g] \in Seq(Roadmaps) /\ d.approved[g] \in Seq(SUBSET Nat)
      /\ d.progress[g] \in Seq(Progressions) /\ Len(d.roads[g]) \in Nat
      /\ Len(d.approved[g]) = Len(d.roads[g]) /\ Len(d.progress[g]) = Len(d.roads[g])
  BY <1>4, <1>5 DEF RoadsOK
<1>7. roadmap \in Seq(SUBSET UNION Definitions)  BY RoadmapsAssumption
<1>8. untouched \in Progressions
  <2>1. DOMAIN roadmap \in SUBSET Nat  BY <1>7
  <2>2. Untouched \in ItemRows  BY DEF Untouched, ItemRows, ItemStatuses, NoRun
  <2>3. untouched \in [DOMAIN roadmap -> ItemRows]  BY <2>2
  <2> QED  BY <2>1, <2>3 DEF Progressions
<1>9. DOMAIN untouched = DOMAIN roadmap /\ \A i \in DOMAIN roadmap : untouched[i].run = NoRun
  BY DEF Untouched
<1> HIDE DEF untouched
<1> DEFINE R == Append(d.roads[g], roadmap)
           A == Append(d.approved[g], {})
           P == Append(d.progress[g], untouched)
<1>10. R \in Seq(Roadmaps) /\ A \in Seq(SUBSET Nat) /\ P \in Seq(Progressions)
       /\ Len(R) = last /\ Len(A) = last /\ Len(P) = last
       /\ R[last] = roadmap /\ A[last] = {} /\ P[last] = untouched
  <2>1. R \in Seq(Roadmaps) /\ Len(R) = last /\ R[last] = roadmap  BY <1>6
  <2>2. A \in Seq(SUBSET Nat) /\ Len(A) = last /\ A[last] = {}
    <3> DEFINE none == {}
    <3>1. none \in SUBSET Nat  OBVIOUS
    <3>2. A = Append(d.approved[g], none)  OBVIOUS
    <3>3. none = {}  OBVIOUS
    <3> HIDE DEF none, A
    <3>4. A \in Seq(SUBSET Nat)  BY <1>6, <3>1, <3>2
    <3>5. Len(A) = last /\ A[last] = none  BY <1>6, <3>1, <3>2
    <3> QED  BY <3>3, <3>4, <3>5
  <2>3. P \in Seq(Progressions) /\ Len(P) = last /\ P[last] = untouched  BY <1>6, <1>8
  <2> HIDE DEF R, A, P
  <2> QED  BY <2>1, <2>2, <2>3
<1>11. \A k \in DOMAIN d.roads[g] :
          R[k] = d.roads[g][k] /\ A[k] = d.approved[g][k] /\ P[k] = d.progress[g][k]
  <2>1. DOMAIN d.roads[g] = 1 .. Len(d.roads[g])  BY <1>6
  <2>2. \A k \in 1 .. Len(d.roads[g]) : R[k] = d.roads[g][k]  BY <1>6
  <2>3. \A k \in 1 .. Len(d.approved[g]) : A[k] = d.approved[g][k]  BY <1>6
  <2>4. \A k \in 1 .. Len(d.progress[g]) : P[k] = d.progress[g][k]  BY <1>6, <1>8
  <2> HIDE DEF R, A, P
  <2> QED  BY <1>6, <2>1, <2>2, <2>3, <2>4
<1>12. DOMAIN R = 1 .. last /\ DOMAIN d.roads[g] = 1 .. Len(d.roads[g])  BY <1>6, <1>10
<1> HIDE DEF R, A, P
<1>13. \A k \in DOMAIN R : k = last \/ k \in DOMAIN d.roads[g]  BY <1>6, <1>12
<1>14. \A k \in DOMAIN d.roads[g] : k \in DOMAIN R /\ k # last  BY <1>6, <1>12
<1>15. e.roads \in [Goals -> Seq(Roadmaps)] /\ e.approved \in [Goals -> Seq(SUBSET Nat)]
       /\ e.progress \in [Goals -> Seq(Progressions)]
  BY <1>2, <1>5, <1>10 DEF R, A, P
<1>16. \A h \in Goals : /\ e.roads[h] = IF h = g THEN R ELSE d.roads[h]
                        /\ e.approved[h] = IF h = g THEN A ELSE d.approved[h]
                        /\ e.progress[h] = IF h = g THEN P ELSE d.progress[h]
  BY <1>2, <1>5 DEF R, A, P
<1>17. RoadsOK(e.roads, e.approved, e.progress)
  <2>1. ASSUME NEW h \in Goals
        PROVE  /\ Len(e.approved[h]) = Len(e.roads[h]) /\ Len(e.progress[h]) = Len(e.roads[h])
               /\ \A k \in DOMAIN e.roads[h] : /\ e.approved[h][k] \subseteq DOMAIN e.roads[h][k]
                                               /\ DOMAIN e.progress[h][k] = DOMAIN e.roads[h][k]
    <3>1. CASE h # g  BY <1>4, <1>16, <3>1 DEF RoadsOK
    <3>2. CASE h = g
      <4>1. e.roads[h] = R /\ e.approved[h] = A /\ e.progress[h] = P  BY <1>16, <3>2
      <4>2. \A k \in DOMAIN R : A[k] \subseteq DOMAIN R[k] /\ DOMAIN P[k] = DOMAIN R[k]
        BY <1>4, <1>9, <1>10, <1>11, <1>13 DEF RoadsOK
      <4> QED  BY <1>10, <4>1, <4>2
    <3> QED  BY <3>1, <3>2
  <2> QED  BY <1>15, <2>1 DEF RoadsOK
<1>18. GoalsOK(e.goals, e.roads)
  <2>1. e.goals = [h \in Goals |-> e.goals[h]]  BY <1>3, <1>4 DEF GoalsOK
  <2>2. \A h \in Goals : e.goals[h] = IF h = g THEN row ELSE d.goals[h]  BY <1>3, <1>4 DEF GoalsOK
  <2>3. GoalRowOK(d.goals[g], d.roads[g])  BY <1>4 DEF GoalsOK
  <2>4. GoalRowOK(row, d.roads[g])  BY <1>6, <2>3, GoalRowReset
  <2>5. row.road = 0  BY <2>3 DEF GoalRowOK, GoalFields
  <2> HIDE DEF row
  <2>6. last \in Nat  BY <1>6
  <2>7. GoalRowOK(row, R)  BY <1>10, <2>4, <2>5, <2>6 DEF GoalRowOK
  <2>8. \A h \in Goals : GoalRowOK(e.goals[h], e.roads[h])  BY <1>4, <1>16, <2>2, <2>7 DEF GoalsOK
  <2> QED  BY <2>1, <2>8 DEF GoalsOK
<1> HIDE DEF row
<1>19. LinksOK(d.links, e.roads)
  <2>1. ASSUME NEW n \in DOMAIN d.links
        PROVE  LinkOK(d.links[n], e.roads)
    <3>1. LinkOK(d.links[n], d.roads)  BY <1>4 DEF LinksOK
    <3>2. CASE d.links[n].item = 0  BY <3>1, <3>2 DEF LinkOK
    <3>3. CASE d.links[n].item # 0
      <4>1. PICK h, k, i : h = d.links[n].goal /\ k = d.links[n].road /\ i = d.links[n].item
        OBVIOUS
      <4>2. h \in Goals /\ k \in DOMAIN d.roads[h] /\ i \in DOMAIN d.roads[h][k]
        BY <3>3, <4>1, LinkItem
      <4>3. k \in DOMAIN e.roads[h] /\ e.roads[h][k] = d.roads[h][k]
        BY <1>11, <1>14, <1>16, <4>2
      <4>4. d.links[n].run # NoRun  BY <3>1 DEF LinkOK
      <4> QED  BY <4>1, <4>2, <4>3, <4>4 DEF LinkOK
    <3> QED  BY <3>2, <3>3
  <2> QED  BY <1>4, <2>1 DEF LinksOK
<1>20. OwnersOK(e.roads, d.links, e.progress)
  <2>1. ASSUME NEW h \in Goals, NEW k \in DOMAIN e.roads[h], NEW i \in DOMAIN e.roads[h][k]
        PROVE  OwnerOK(e.progress[h][k][i].run, d.links, h, k, i)
    <3>1. CASE h # g
      <4>1. e.roads[h] = d.roads[h] /\ e.progress[h] = d.progress[h]  BY <1>16, <3>1
      <4>2. k \in DOMAIN d.roads[h] /\ i \in DOMAIN d.roads[h][k]  BY <4>1
      <4>3. OwnerOK(d.progress[h][k][i].run, d.links, h, k, i)  BY <1>4, <4>2 DEF OwnersOK
      <4> QED  BY <4>1, <4>3
    <3>2. CASE h = g
      <4>1. e.roads[h] = R /\ e.progress[h] = P  BY <1>16, <3>2
      <4>2. CASE k \in DOMAIN d.roads[g]
        <5>1. R[k] = d.roads[g][k] /\ P[k] = d.progress[g][k]  BY <1>11, <4>2
        <5>2. i \in DOMAIN d.roads[g][k]  BY <4>1, <5>1
        <5>3. OwnerOK(d.progress[g][k][i].run, d.links, g, k, i)  BY <1>4, <4>2, <5>2 DEF OwnersOK
        <5> QED  BY <3>2, <4>1, <5>1, <5>3
      <4>3. CASE k \notin DOMAIN d.roads[g]
        <5>1. k = last  BY <1>13, <4>1, <4>3
        <5>2. i \in DOMAIN roadmap /\ P[k] = untouched  BY <1>10, <4>1, <5>1
        <5>3. e.progress[h][k][i].run = NoRun  BY <1>9, <4>1, <5>2
        <5>4. i # 0  BY <1>7, <5>2
        <5>5. NeverTried(d.links, h, k, i)
          <6>1. ASSUME NEW n \in DOMAIN d.links, OfItem(d.links[n], h, k, i)
                PROVE  FALSE
            <7>1. d.links[n].item # 0  BY <5>4, <6>1 DEF OfItem
            <7>2. d.links[n].road \in DOMAIN d.roads[d.links[n].goal]  BY <7>1, LinkItem
            <7> QED  BY <3>2, <4>3, <6>1, <7>2 DEF OfItem
          <6> QED  BY <6>1 DEF NeverTried
        <5> QED  BY <5>3, <5>5 DEF OwnerOK
      <4> QED  BY <4>2, <4>3
    <3> QED  BY <3>1, <3>2
  <2> QED  BY <2>1 DEF OwnersOK
<1>21. WorkOK(e.inbox, e.runs) /\ e.defs \in [Goals -> Seq(Definitions)]  BY <1>1 DEF DatabaseOK
<1>22. LinksOK(e.links, e.roads) /\ OwnersOK(e.roads, e.links, e.progress)  BY <1>1, <1>19, <1>20
<1>23. DatabaseOK(e)  BY <1>1, <1>17, <1>18, <1>21, <1>22 DEF DatabaseOK
<1> QED  BY <1>1, <1>23

\* two columns of a Goal, or its row, are written
ColumnsWritten(y, g, s, k) == [y EXCEPT !.goals[g].status = s, !.goals[g].road = k]
RowWritten(y, g, row) == [y EXCEPT !.goals[g] = row]

StatusAndRoad(row, s, k) == [row EXCEPT !.status = s, !.road = k]
Shaped(y, g) ==
  /\ y = [t \in Tables |-> y[t]] /\ y.goals = [h \in Goals |-> y.goals[h]]
  /\ y.goals[g] = [f \in GoalFields |-> y.goals[g][f]]

\* writing two columns of a Goal is writing its row
LEMMA TwoColumns ==
  ASSUME NEW y, NEW g \in Goals, Shaped(y, g), NEW s, NEW k
  PROVE  ColumnsWritten(y, g, s, k) = RowWritten(y, g, StatusAndRoad(y.goals[g], s, k))
  BY DEF Tables, GoalFields, Shaped, StatusAndRoad, ColumnsWritten, RowWritten

\* a Goal row and the definitions of the Goal
LEMMA GoalAndDefinitionQuiet ==
  ASSUME NEW d, DatabaseOK(d), NEW g \in Goals, NEW row, GoalRowOK(row, d.roads[g]),
         NEW defs \in Seq(Definitions),
         NEW e, e = [d EXCEPT !.goals[g] = row, !.defs[g] = defs]
  PROVE  QuietDb(d, e)
<1>1. PICK x : x = [d EXCEPT !.goals[g] = row]  OBVIOUS
<1>2. QuietDb(d, x)  BY <1>1, GoalRowQuiet
<1>3. e = [x EXCEPT !.defs[g] = defs]  BY <1>1
<1>4. x = [t \in Tables |-> x[t]] /\ x.defs \in [Goals -> Seq(Definitions)]  BY <1>2 DEF QuietDb
<1>5. e = [t \in Tables |-> e[t]] /\ e.defs = [x.defs EXCEPT ![g] = defs]
      /\ e.goals = x.goals /\ e.roads = x.roads /\ e.approved = x.approved
      /\ e.progress = x.progress /\ e.inbox = x.inbox /\ e.runs = x.runs /\ e.links = x.links
  BY <1>3, <1>4 DEF Tables
<1>6. e.defs \in [Goals -> Seq(Definitions)]
  <2>1. e.defs = [x.defs EXCEPT ![g] = defs]  BY <1>5
  <2> QED  BY <1>4, <2>1
<1> QED  BY <1>2, <1>5, <1>6 DEF QuietDb

\* the database after items of a Roadmap were approved
RoadmapApproved(d, g, k, items, status) ==
  [d EXCEPT !.approved[g][k] = items, !.goals[g].status = status, !.goals[g].road = k]

\* the decision that approves items of a Roadmap
LEMMA ApproveKeeps ==
  ASSUME NEW d, DatabaseOK(d), NEW g \in Goals, NEW k \in DOMAIN d.roads[g],
         NEW items \in SUBSET DOMAIN d.roads[g][k], NEW status,
         NEW e, e = RoadmapApproved(d, g, k, items, status)
  PROVE  DatabaseOK(e) /\ e.inbox = d.inbox
<1> DEFINE row == [d.goals[g] EXCEPT !.status = status, !.road = k]
<1>1. PICK x : x = [d EXCEPT !.goals[g] = row]  OBVIOUS
<1>2. RoadsOK(d.roads, d.approved, d.progress)  BY DEF DatabaseOK
<1>3. d.roads[g] \in Seq(Roadmaps) /\ d.approved[g] \in Seq(SUBSET Nat)
      /\ d.approved \in [Goals -> Seq(SUBSET Nat)] /\ Len(d.approved[g]) = Len(d.roads[g])
  BY <1>2 DEF RoadsOK
<1>4. QuietDb(d, x)
  <2>1. GoalRowOK(d.goals[g], d.roads[g])  BY DEF DatabaseOK, GoalsOK
  <2>2. k \in 0 .. Len(d.roads[g])  BY <1>3
  <2>3. GoalRowOK(row, d.roads[g])  BY <2>1, <2>2 DEF GoalRowOK, GoalFields
  <2> HIDE DEF row
  <2> QED  BY <1>1, <2>3, GoalRowQuiet
<1>5. DatabaseOK(x)  BY <1>4, QuietKeepsDatabase
<1>6. e = [x EXCEPT !.approved[g][k] = items]
  <2>1. d = [t \in Tables |-> d[t]] /\ d.goals = [h \in Goals |-> d.goals[h]]
        /\ d.goals[g] = [f \in GoalFields |-> d.goals[g][f]]
    BY DEF DatabaseOK, GoalsOK, GoalRowOK
  <2>2. PICK y : y = [d EXCEPT !.approved[g][k] = items]  OBVIOUS
  <2>3. e = [y EXCEPT !.goals[g].status = status, !.goals[g].road = k]
    BY <2>2 DEF RoadmapApproved
  <2>4. y.goals = d.goals /\ y = [t \in Tables |-> y[t]]  BY <2>1, <2>2 DEF Tables
  <2>5. e = [y EXCEPT !.goals[g] = row]
    <3>1. Shaped(y, g)  BY <2>1, <2>4 DEF Shaped
    <3>2. row = StatusAndRoad(y.goals[g], status, k)  BY <2>4 DEF StatusAndRoad
    <3>3. ColumnsWritten(y, g, status, k) = RowWritten(y, g, StatusAndRoad(y.goals[g], status, k))
      BY <3>1, TwoColumns
    <3> QED  BY <2>3, <3>2, <3>3 DEF ColumnsWritten, RowWritten
  <2> HIDE DEF row
  <2> QED  BY <1>1, <2>1, <2>2, <2>4, <2>5 DEF Tables
<1> HIDE DEF row
<1>7. x = [t \in Tables |-> x[t]] /\ x.roads = d.roads /\ x.approved = d.approved
      /\ x.progress = d.progress /\ x.inbox = d.inbox
  BY <1>4 DEF QuietDb
<1>8. e = [t \in Tables |-> e[t]] /\ e.defs = x.defs
      /\ e.goals = x.goals /\ e.roads = x.roads
      /\ e.progress = x.progress /\ e.inbox = x.inbox /\ e.runs = x.runs /\ e.links = x.links
  BY <1>6, <1>7 DEF Tables
<1>9. e.approved = [d.approved EXCEPT ![g] = [d.approved[g] EXCEPT ![k] = items]]
  BY <1>6, <1>7 DEF Tables
<1> DEFINE A == [d.approved[g] EXCEPT ![k] = items]
<1>10. A \in Seq(SUBSET Nat) /\ Len(A) = Len(d.roads[g])
       /\ \A l \in DOMAIN d.roads[g] : A[l] = IF l = k THEN items ELSE d.approved[g][l]
  <2>1. items \subseteq Nat  BY <1>2, ItemsArePositive
  <2>2. k \in DOMAIN d.approved[g] /\ DOMAIN d.approved[g] = DOMAIN d.roads[g]  BY <1>3
  <2> QED  BY <1>3, <2>1, <2>2
<1>11. PICK B : B = A  OBVIOUS
<1>12. e.approved = [d.approved EXCEPT ![g] = B]  BY <1>9, <1>11
<1>13. B \in Seq(SUBSET Nat) /\ Len(B) = Len(d.roads[g])
       /\ \A l \in DOMAIN d.roads[g] : B[l] = IF l = k THEN items ELSE d.approved[g][l]
  BY <1>10, <1>11
<1> HIDE DEF A
<1>14. e.approved \in [Goals -> Seq(SUBSET Nat)]
       /\ \A h \in Goals : e.approved[h] = IF h = g THEN B ELSE d.approved[h]
  BY <1>3, <1>12, <1>13
<1>15. RoadsOK(d.roads, e.approved, d.progress)
  <2>1. \A h \in Goals : Len(e.approved[h]) = Len(d.roads[h])  BY <1>2, <1>13, <1>14 DEF RoadsOK
  <2>2. ASSUME NEW h \in Goals, NEW l \in DOMAIN d.roads[h]
        PROVE  e.approved[h][l] \subseteq DOMAIN d.roads[h][l]
    <3>1. d.approved[h][l] \subseteq DOMAIN d.roads[h][l]  BY <1>2 DEF RoadsOK
    <3>2. CASE h # g  BY <1>14, <3>1, <3>2
    <3>3. CASE h = g /\ l # k
      <4>1. e.approved[h][l] = d.approved[h][l]  BY <1>13, <1>14, <3>3
      <4> QED  BY <3>1, <4>1
    <3>4. CASE h = g /\ l = k
      <4>1. e.approved[h][l] = items  BY <1>13, <1>14, <3>4
      <4> QED  BY <3>4, <4>1
    <3> QED  BY <3>2, <3>3, <3>4
  <2> QED  BY <1>2, <1>14, <2>1, <2>2 DEF RoadsOK
<1>16. DatabaseOK(e)
  <2>1. RoadsOK(e.roads, e.approved, e.progress)  BY <1>7, <1>8, <1>15
  <2>2. e = [t \in Tables |-> e[t]] /\ e.defs = x.defs
        /\ e.goals = x.goals /\ e.roads = x.roads
        /\ e.progress = x.progress /\ e.inbox = x.inbox /\ e.runs = x.runs /\ e.links = x.links
    BY <1>8
  <2> QED  BY <1>5, <2>1, <2>2 DEF DatabaseOK
<1> QED  BY <1>7, <1>8, <1>16

-----------------------------------------------------------------------------
(* 10. Who owns a Roadmap item, step by step.                               *)

\* what every step does: the database and the recovery stay in order, and automatic
\* progression admits only what nobody tried
OwnershipStep ==
  /\ DatabaseOK(db') /\ RecoveryOK(mem', db')
  /\ NoRetry(db.links, db.inbox, db'.inbox)

\* outside of reconcileRunState the memory only has to keep its shape
LEMMA WorkStep ==
  ASSUME OwnershipInv, mem.phase # "starting", NEW m, mem' = m,
         m = [f \in MemFields |-> m[f]], m.recovery = mem.recovery,
         DatabaseOK(db'), NoRetry(db.links, db.inbox, db'.inbox)
  PROVE  OwnershipStep
<1>1. RecoveryOK(mem, db)  BY DEF OwnershipInv
<1>2. ~Reconciling(mem) /\ mem.recovery = [f \in RecoveryFields |-> mem.recovery[f]]
  BY <1>1 DEF RecoveryOK
<1>3. ~Reconciling(m) /\ m.recovery.stage # "attach"  BY <1>2 DEF Reconciling
<1>4. m.recovery = [f \in RecoveryFields |-> m.recovery[f]]  BY <1>2
<1>5. RecoveryOK(m, db')  BY <1>3, <1>4 DEF RecoveryOK
<1> QED  BY <1>5 DEF OwnershipStep

\* a step that leaves the memory alone
LEMMA CommitStep ==
  ASSUME OwnershipInv, mem.phase # "starting", mem' = mem,
         DatabaseOK(db'), NoRetry(db.links, db.inbox, db'.inbox)
  PROVE  OwnershipStep
<1>1. PICK m : m = mem  OBVIOUS
<1>2. RecoveryOK(m, db)  BY <1>1 DEF OwnershipInv
<1>3. m = [f \in MemFields |-> m[f]] /\ m.recovery = mem.recovery /\ mem' = m
  BY <1>1, <1>2 DEF RecoveryOK
<1> QED  BY <1>3, WorkStep

\* an unchanged Inbox holds no new request
LEMMA NoRetryUnchanged ==
  ASSUME NEW links, NEW old, NEW new, SameWork(old, new)
  PROVE  NoRetry(links, old, new)
  BY DEF NoRetry, SameWork

\* a quiet decision
LEMMA QuietStep ==
  ASSUME OwnershipInv, Up, NEW e, QuietDb(db, e), Commit(e)
  PROVE  OwnershipStep
<1>1. db' = e /\ mem' = mem  BY DEF Commit, Store
<1>2. DatabaseOK(e)  BY QuietKeepsDatabase DEF OwnershipInv
<1>3. SameWork(db.inbox, e.inbox)  BY DEF QuietDb, SameWork
<1>4. NoRetry(db.links, db.inbox, db'.inbox)  BY <1>1, <1>3, NoRetryUnchanged
<1>5. mem.phase # "starting"  BY DEF Up
<1> QED  BY <1>1, <1>2, <1>4, <1>5, CommitStep

\* the process starts from an empty memory
LEMMA FreshStep ==
  ASSUME OwnershipInv, mem' = Fresh, DatabaseOK(db'), NoRetry(db.links, db.inbox, db'.inbox)
  PROVE  OwnershipStep
<1>1. RecoveryOK(Fresh, db')
  BY DEF RecoveryOK, Fresh, Recovered, Reconciling, MemFields, RecoveryFields
<1> QED  BY <1>1 DEF OwnershipStep

\* the user's decisions, the ones that touch no Roadmap
LEMMA DecisionStep ==
  ASSUME OwnershipInv, NEW g \in Goals,
         \/ \E def \in Definitions : CreateGoal(g, def) \/ ReviseDefinition(g, def)
         \/ ApproveGoal(g) \/ RequestChange(g)
         \/ PauseGoal(g) \/ ResumeGoal(g) \/ CancelGoal(g) \/ CloseGoal(g)
  PROVE  OwnershipStep
<1>1. DatabaseOK(db)  BY DEF OwnershipInv
<1>2. PICK d : d = db  OBVIOUS
<1>3. DatabaseOK(d)  BY <1>1, <1>2
<1>4. d = [t \in Tables |-> d[t]] /\ d.goals = [h \in Goals |-> d.goals[h]]
      /\ d.goals[g] = [f \in GoalFields |-> d.goals[g][f]]
      /\ d.defs \in [Goals -> Seq(Definitions)] /\ GoalRowOK(d.goals[g], d.roads[g])
      /\ d.roads[g] \in Seq(Roadmaps)
  BY <1>3 DEF DatabaseOK, GoalsOK, GoalRowOK, RoadsOK
<1>5. Len(d.roads[g]) \in Nat  BY <1>4
<1>6. ASSUME NEW row, GoalRowOK(row, d.roads[g]), Up, Commit([d EXCEPT !.goals[g] = row])
      PROVE  OwnershipStep
  <2>1. PICK e : e = [d EXCEPT !.goals[g] = row]  OBVIOUS
  <2>2. QuietDb(d, e)  BY <1>3, <1>6, <2>1, GoalRowQuiet
  <2> QED  BY <1>2, <1>6, <2>1, <2>2, QuietStep
<1>7. ASSUME NEW def \in Definitions, CreateGoal(g, def)
      PROVE  OwnershipStep
  <2> DEFINE row == [d.goals[g] EXCEPT !.status = "draft"]
  <2>1. PICK e : e = [d EXCEPT !.goals[g].status = "draft", !.defs[g] = <<def>>]  OBVIOUS
  <2>2. Up /\ Commit(e)  BY <1>2, <1>7, <2>1 DEF CreateGoal
  <2>3. GoalRowOK(row, d.roads[g])  BY <1>4, GoalRowTouched
  <2>4. e = [d EXCEPT !.goals[g] = row, !.defs[g] = <<def>>]  BY <1>4, <2>1 DEF Tables
  <2>5. <<def>> \in Seq(Definitions)  OBVIOUS
  <2> HIDE DEF row
  <2>6. QuietDb(d, e)
    <3>1. PICK defs \in Seq(Definitions) : defs = <<def>>  BY <2>5
    <3>2. e = [d EXCEPT !.goals[g] = row, !.defs[g] = defs]  BY <2>4, <3>1
    <3> QED  BY <1>3, <2>3, <3>2, GoalAndDefinitionQuiet
  <2> QED  BY <1>2, <2>2, <2>6, QuietStep
<1>8. ASSUME NEW def \in Definitions, ReviseDefinition(g, def)
      PROVE  OwnershipStep
  <2> DEFINE row == [d.goals[g] EXCEPT !.status = "draft", !.def = 0, !.road = 0]
             defs == Append(d.defs[g], def)
  <2>1. PICK e : e = [d EXCEPT !.defs[g] = defs, !.goals[g] = row]  OBVIOUS
  <2>2. Up /\ Commit(e)
    BY <1>2, <1>8, <2>1 DEF ReviseDefinition, Revisable, Decidable
  <2>3. GoalRowOK(row, d.roads[g])  BY <1>4, <1>5, GoalRowReset
  <2>4. defs \in Seq(Definitions)  BY <1>4
  <2> HIDE DEF row, defs
  <2>5. e = [d EXCEPT !.goals[g] = row, !.defs[g] = defs]  BY <1>4, <2>1 DEF Tables
  <2>6. QuietDb(d, e)  BY <1>3, <2>3, <2>4, <2>5, GoalAndDefinitionQuiet
  <2> QED  BY <1>2, <2>2, <2>6, QuietStep
<1>9. CASE ApproveGoal(g)
  <2> DEFINE def == Definition(d, g)
             row == [d.goals[g] EXCEPT !.status = "active", !.def = def, !.road = 0]
  <2>1. def \in Nat
    <3>1. d.goals[g].def \in Nat /\ Len(d.defs[g]) \in Nat  BY <1>4 DEF GoalRowOK
    <3> QED  BY <3>1 DEF Definition
  <2>2. Up /\ Commit([d EXCEPT !.goals[g] = row])
    BY <1>2, <1>9 DEF ApproveGoal, Revisable, Decidable
  <2> HIDE DEF def
  <2>3. GoalRowOK(row, d.roads[g])  BY <1>4, <1>5, <2>1, GoalRowReset
  <2> HIDE DEF row
  <2> QED  BY <1>6, <2>2, <2>3
<1>10. CASE RequestChange(g)
  <2> DEFINE row1 == [d.goals[g] EXCEPT !.status = "draft", !.def = 0, !.road = 0]
             row2 == [d.goals[g] EXCEPT
                        !.status = IF d.goals[g].status = "paused" THEN "paused" ELSE "active",
                        !.road = 0]
  <2>1. Up /\ (Commit([d EXCEPT !.goals[g] = row1]) \/ Commit([d EXCEPT !.goals[g] = row2]))
    BY <1>2, <1>10 DEF RequestChange, Revisable, Decidable
  <2>2. GoalRowOK(row1, d.roads[g])  BY <1>4, <1>5, GoalRowReset
  <2>3. GoalRowOK(row2, d.roads[g])  BY <1>4, <1>5, GoalRowReset
  <2> HIDE DEF row1, row2
  <2> QED  BY <1>6, <2>1, <2>2, <2>3
<1>11. CASE PauseGoal(g)
  <2> DEFINE row == [d.goals[g] EXCEPT !.status = "paused"]
  <2>1. Up /\ Commit([d EXCEPT !.goals[g] = row])
    BY <1>2, <1>11 DEF PauseGoal, Revisable, Decidable
  <2>2. GoalRowOK(row, d.roads[g])  BY <1>4, GoalRowTouched
  <2> HIDE DEF row
  <2> QED  BY <1>6, <2>1, <2>2
<1>12. CASE CancelGoal(g)
  <2> DEFINE row == [d.goals[g] EXCEPT !.status = "cancelled"]
  <2>1. Up /\ Commit([d EXCEPT !.goals[g] = row])
    BY <1>2, <1>12 DEF CancelGoal, Revisable, Decidable
  <2>2. GoalRowOK(row, d.roads[g])  BY <1>4, GoalRowTouched
  <2> HIDE DEF row
  <2> QED  BY <1>6, <2>1, <2>2
<1>13. CASE CloseGoal(g)
  <2> DEFINE row == [d.goals[g] EXCEPT !.status = "completed"]
  <2>1. Up /\ Commit([d EXCEPT !.goals[g] = row])
    BY <1>2, <1>13 DEF CloseGoal, Decidable
  <2>2. GoalRowOK(row, d.roads[g])  BY <1>4, GoalRowTouched
  <2> HIDE DEF row
  <2> QED  BY <1>6, <2>1, <2>2
<1>14. CASE ResumeGoal(g)
  <2> DEFINE row == [d.goals[g] EXCEPT !.status = "active"]
  <2>1. PICK x : x = [d EXCEPT !.goals[g] = row]  OBVIOUS
  <2>2. Up /\ Commit(RefreshReadyStatus(x, g))  BY <1>2, <1>14, <2>1 DEF ResumeGoal
  <2>3. GoalRowOK(row, d.roads[g])  BY <1>4, GoalRowTouched
  <2> HIDE DEF row
  <2>4. QuietDb(d, x)  BY <1>3, <2>1, <2>3, GoalRowQuiet
  <2>5. DatabaseOK(x)  BY <1>3, <2>4, QuietKeepsDatabase
  <2>6. PICK e : e = RefreshReadyStatus(x, g)  OBVIOUS
  <2>7. QuietDb(x, e)  BY <2>5, <2>6, RefreshQuiet
  <2>8. QuietDb(d, e)  BY <2>4, <2>7, QuietTransitive
  <2> QED  BY <1>2, <2>2, <2>6, <2>8, QuietStep
<1> QED  BY <1>7, <1>8, <1>9, <1>10, <1>11, <1>12, <1>13, <1>14

\* a commit that leaves the requests of the Inbox
LEMMA SameWorkStep ==
  ASSUME OwnershipInv, Up, NEW e, DatabaseOK(e), SameWork(db.inbox, e.inbox), Commit(e)
  PROVE  OwnershipStep
<1>1. db' = e /\ mem' = mem  BY DEF Commit, Store
<1>2. NoRetry(db.links, db.inbox, db'.inbox)  BY <1>1, NoRetryUnchanged
<1>3. mem.phase # "starting"  BY DEF Up
<1> QED  BY <1>1, <1>2, <1>3, CommitStep

\* one part of the process but the recovery changes
Touches(m, n, g, x) ==
  \/ n = [m EXCEPT !.generating[g] = x] \/ n = [m EXCEPT !.finalizing = x]
  \/ n = [m EXCEPT !.kick = x] \/ n = [m EXCEPT !.phase = x]

\* the process then keeps its shape
LEMMA MemTouched ==
  ASSUME NEW m, NEW d, RecoveryOK(m, d), NEW x, NEW g, NEW n, Touches(m, n, g, x)
  PROVE  n = [f \in MemFields |-> n[f]] /\ n.recovery = m.recovery
<1>1. m = [f \in MemFields |-> m[f]]  BY DEF RecoveryOK
<1>2. CASE n = [m EXCEPT !.generating[g] = x]  BY <1>1, <1>2 DEF MemFields
<1>3. CASE n = [m EXCEPT !.finalizing = x]  BY <1>1, <1>3 DEF MemFields
<1>4. CASE n = [m EXCEPT !.kick = x]  BY <1>1, <1>4 DEF MemFields
<1>5. CASE n = [m EXCEPT !.phase = x]  BY <1>1, <1>5 DEF MemFields
<1> QED  BY <1>2, <1>3, <1>4, <1>5 DEF Touches

\* a step of the running process that changes one of those parts
LEMMA TouchedStep ==
  ASSUME OwnershipInv, mem.phase # "starting", NEW x, NEW g,
         \/ mem' = [mem EXCEPT !.generating[g] = x] \/ mem' = [mem EXCEPT !.finalizing = x]
         \/ mem' = [mem EXCEPT !.kick = x] \/ mem' = [mem EXCEPT !.phase = x],
         DatabaseOK(db'), NoRetry(db.links, db.inbox, db'.inbox)
  PROVE  OwnershipStep
<1>1. PICK m, n : m = mem /\ n = mem'  OBVIOUS
<1>2. RecoveryOK(m, db)  BY <1>1 DEF OwnershipInv
<1>3. Touches(m, n, g, x)  BY <1>1 DEF Touches
<1>4. n = [f \in MemFields |-> n[f]] /\ n.recovery = m.recovery
  BY <1>2, <1>3, MemTouched
<1>5. n.recovery = mem.recovery /\ mem' = n  BY <1>1, <1>4
<1> QED  BY <1>4, <1>5, WorkStep

\* a Roadmap is revised, drafted or approved
LEMMA RoadmapStep ==
  ASSUME OwnershipInv, NEW g \in Goals,
         \/ \E roadmap \in Roadmaps : ReviseRoadmap(g, roadmap) \/ FinishGeneration(g, roadmap)
         \/ \E items \in SUBSET ItemIds : ApproveRoadmap(g, items)
         \/ RequestGeneration(g)
  PROVE  OwnershipStep
<1>1. PICK d : d = db  OBVIOUS
<1>2. DatabaseOK(d)  BY <1>1 DEF OwnershipInv
<1>3. ASSUME NEW roadmap \in Roadmaps, ReviseRoadmap(g, roadmap)
      PROVE  OwnershipStep
  <2>1. PICK e : e = AddRoadmap(d, g, roadmap)  OBVIOUS
  <2>2. DatabaseOK(e) /\ e.inbox = d.inbox  BY <1>2, <2>1, AddRoadmapKeeps
  <2>3. Up /\ Commit(e)  BY <1>1, <1>3, <2>1 DEF ReviseRoadmap, Revisable, Decidable
  <2>4. SameWork(db.inbox, e.inbox)  BY <1>1, <2>2 DEF SameWork
  <2> QED  BY <2>2, <2>3, <2>4, SameWorkStep
<1>4. ASSUME NEW roadmap \in Roadmaps, FinishGeneration(g, roadmap)
      PROVE  OwnershipStep
  <2>1. PICK x : x = AddRoadmap(d, g, roadmap)  OBVIOUS
  <2>2. DatabaseOK(x) /\ x.inbox = d.inbox  BY <1>2, <2>1, AddRoadmapKeeps
  <2>3. PICK e : e = db'  OBVIOUS
  <2>10. PICK good, bad : good = "succeeded" /\ bad = "failed"  OBVIOUS
  <2>4. e = [x EXCEPT !.receipt[g] = good] \/ e = [d EXCEPT !.receipt[g] = bad]
    BY <1>1, <1>4, <2>1, <2>3, <2>10 DEF FinishGeneration, Store
  <2>5. QuietDb(x, e) \/ QuietDb(d, e)
    <3>1. CASE e = [x EXCEPT !.receipt[g] = good]
      <4>1. QuietDb(x, e)  BY <2>2, <3>1, EvidenceQuiet
      <4> QED  BY <4>1
    <3>2. CASE e = [d EXCEPT !.receipt[g] = bad]
      <4>1. QuietDb(d, e)  BY <1>2, <3>2, EvidenceQuiet
      <4> QED  BY <4>1
    <3> QED  BY <2>4, <3>1, <3>2
  <2>6. DatabaseOK(e) /\ e.inbox = d.inbox  BY <1>2, <2>2, <2>5, QuietKeepsDatabase DEF QuietDb
  <2>7. SameWork(db.inbox, db'.inbox)  BY <1>1, <2>3, <2>6 DEF SameWork
  <2>8. NoRetry(db.links, db.inbox, db'.inbox)  BY <2>7, NoRetryUnchanged
  <2>9. mem.phase # "starting" /\ mem' = [mem EXCEPT !.generating[g] = 0]
    BY <1>4 DEF FinishGeneration, AtWork
  <2> QED  BY <2>3, <2>6, <2>8, <2>9, TouchedStep
<1>5. ASSUME NEW items \in SUBSET ItemIds, ApproveRoadmap(g, items)
      PROVE  OwnershipStep
  <2>1. PICK k, status : k = Roadmap(d, g)
                         /\ status = IF Status(d, g) = "paused" THEN "paused" ELSE "active"
    OBVIOUS
  <2>2. PICK x : x = RoadmapApproved(d, g, k, items, status)  OBVIOUS
  <2>3. Up /\ k # 0 /\ items \subseteq DOMAIN d.roads[g][k] /\ Commit(RefreshReadyStatus(x, g))
    BY <1>1, <1>5, <2>1, <2>2 DEF ApproveRoadmap, Revisable, Decidable, RoadmapApproved
  <2>4. k \in DOMAIN d.roads[g]
    <3>1. d.goals[g].road \in 0 .. Len(d.roads[g]) /\ d.roads[g] \in Seq(Roadmaps)
      BY <1>2 DEF DatabaseOK, GoalsOK, GoalRowOK, RoadsOK
    <3> QED  BY <2>1, <2>3, <3>1 DEF Roadmap
  <2>10. items \in SUBSET DOMAIN d.roads[g][k]  BY <2>3
  <2>5. DatabaseOK(x) /\ x.inbox = d.inbox  BY <1>2, <2>2, <2>4, <2>10, ApproveKeeps
  <2>6. PICK e : e = RefreshReadyStatus(x, g)  OBVIOUS
  <2>7. QuietDb(x, e)  BY <2>5, <2>6, RefreshQuiet
  <2>8. DatabaseOK(e) /\ e.inbox = d.inbox  BY <2>5, <2>7, QuietKeepsDatabase DEF QuietDb
  <2>9. SameWork(db.inbox, e.inbox)  BY <1>1, <2>8 DEF SameWork
  <2> QED  BY <2>3, <2>6, <2>8, <2>9, SameWorkStep
<1>6. CASE RequestGeneration(g)
  <2>1. PICK e : e = db'  OBVIOUS
  <2>2. \E x : e = [d EXCEPT !.receipt[g] = x]
    BY <1>1, <1>6, <2>1 DEF RequestGeneration, Store
  <2>8. PICK x : e = [d EXCEPT !.receipt[g] = x]  BY <2>2
  <2>3. QuietDb(d, e)  BY <1>2, <2>8, EvidenceQuiet
  <2>4. DatabaseOK(e) /\ e.inbox = d.inbox  BY <1>2, <2>3, QuietKeepsDatabase DEF QuietDb
  <2>5. SameWork(db.inbox, db'.inbox)  BY <1>1, <2>1, <2>4 DEF SameWork
  <2>6. NoRetry(db.links, db.inbox, db'.inbox)  BY <2>5, NoRetryUnchanged
  <2>7. mem.phase # "starting"
        /\ (mem' = mem \/ mem' = [mem EXCEPT !.generating[g] = db.goals[g].def])
    BY <1>6 DEF RequestGeneration, Up
  <2> QED  BY <2>1, <2>4, <2>6, <2>7, TouchedStep, CommitStep
<1> QED  BY <1>3, <1>4, <1>5, <1>6

\* the user starts work: a Roadmap item, a TaskRun of his own, a queued item at once
LEMMA StartStep ==
  ASSUME OwnershipInv,
         \/ \E g \in Goals, i \in ItemIds : StartItem(g, i) \/ CrashBeforeLink(g, i)
         \/ StartPlain
         \/ \E n \in 1 .. MaxInbox : ClaimNow(n)
  PROVE  OwnershipStep
<1>1. PICK d : d = db  OBVIOUS
<1>2. DatabaseOK(d) /\ d.inbox \in Seq(InboxRows)  BY <1>1 DEF OwnershipInv, DatabaseOK, WorkOK
<1>3. ASSUME NEW item, ~item.auto, NEW new, Added(item, d.inbox, new)
      PROVE  NoRetry(d.links, d.inbox, new)
  <2>1. CASE SameWork(d.inbox, new)  BY <2>1, NoRetryUnchanged
  <2>2. CASE SameWork(Append(d.inbox, item), new)
    <3>1. PICK old, more : old = d.inbox /\ more = Append(d.inbox, item)  OBVIOUS
    <3>2. old \in Seq(InboxRows) /\ more = Append(old, item)  BY <1>2, <3>1
    <3>3. DOMAIN more = 1 .. Len(old) + 1 /\ DOMAIN old = 1 .. Len(old) /\ Len(old) \in Nat
          /\ more[Len(old) + 1] = item
      BY <3>2
    <3>4. \A n \in DOMAIN more \ DOMAIN old : n = Len(old) + 1  BY <3>3
    <3>5. NoRetry(d.links, old, more)  BY <1>3, <3>3, <3>4 DEF NoRetry
    <3>6. SameWork(more, new)  BY <2>2, <3>1
    <3>7. NoRetry(d.links, old, new)  BY <3>5, <3>6, NoRetryAfterDispatch
    <3> QED  BY <3>1, <3>7
  <2> QED  BY <1>3, <2>1, <2>2 DEF Added
<1>4. ASSUME NEW e, DatabaseOK(e), NoRetry(d.links, d.inbox, e.inbox), Up, Commit(e)
      PROVE  OwnershipStep
  <2>1. db' = e /\ mem' = mem  BY <1>4 DEF Commit, Store
  <2>2. mem.phase # "starting"  BY <1>4 DEF Up
  <2>3. NoRetry(db.links, db.inbox, db'.inbox)  BY <1>1, <1>4, <2>1
  <2> QED  BY <1>4, <2>1, <2>2, <2>3, CommitStep
<1>5. ASSUME NEW g \in Goals, NEW i \in ItemIds, StartItem(g, i)
      PROVE  OwnershipStep
  <2>1. PICK item : item = NewItem(d, g, i, FALSE)  OBVIOUS
  <2>2. Up /\ MayStart(d, g, i)  BY <1>1, <1>5 DEF StartItem
  <2>3. PICK e \in Enqueue(d, item) : Commit(e)  BY <1>1, <1>5, <2>1 DEF StartItem
  <2>4. RequestOK(item)  BY <1>2, <2>1, <2>2, NewItemOK
  <2>5. item.road # 0 /\ ~item.auto  BY <1>2, <2>1, <2>2, MayStartItem DEF NewItem
  <2>6. DatabaseOK(e) /\ Added(item, d.inbox, e.inbox)  BY <1>2, <2>4, <2>5, EnqueueKeeps
  <2>7. NoRetry(d.links, d.inbox, e.inbox)  BY <1>3, <2>5, <2>6
  <2> QED  BY <1>4, <2>2, <2>3, <2>6, <2>7
<1>6. ASSUME NEW g \in Goals, NEW i \in ItemIds, CrashBeforeLink(g, i)
      PROVE  OwnershipStep
  <2>1. PICK item : item = [NewItem(d, g, i, FALSE) EXCEPT !.linked = FALSE]  OBVIOUS
  <2>2. PICK e : e = [d EXCEPT !.inbox = Append(@, item)]  OBVIOUS
  <2>3. MayStart(d, g, i) /\ db' = e /\ mem' = Fresh
    BY <1>1, <1>6, <2>1, <2>2 DEF CrashBeforeLink, Store
  <2>4. RequestOK(item)  BY <1>2, <2>1, <2>3, NewItemOK
  <2>5. ~item.auto  BY <2>1 DEF NewItem
  <2>6. DatabaseOK(e) /\ e.inbox = Append(d.inbox, item)  BY <1>2, <2>2, <2>4, InboxAppended
  <2>7. Added(item, d.inbox, e.inbox)  BY <2>6 DEF Added, SameWork
  <2>8. NoRetry(d.links, d.inbox, e.inbox)  BY <1>3, <2>5, <2>7
  <2>9. NoRetry(db.links, db.inbox, db'.inbox)  BY <1>1, <2>3, <2>8
  <2> QED  BY <2>3, <2>6, <2>9, FreshStep
<1>7. CASE StartPlain
  <2>1. PICK item : item = [goal |-> 0, def |-> 0, road |-> 0, item |-> 0, auto |-> FALSE,
                            linked |-> FALSE, status |-> "queued", run |-> NoRun]
    OBVIOUS
  <2>2. PICK x : x = [d EXCEPT !.inbox = Append(@, item)]  OBVIOUS
  <2>3. Up /\ \E e \in Dispatch(x) : Commit(e)  BY <1>1, <1>7, <2>1, <2>2 DEF StartPlain
  <2>4. PICK e \in Dispatch(x) : Commit(e)  BY <2>3
  <2>5. RequestOK(item) /\ ~item.auto  BY <2>1 DEF RequestOK, InboxRows, NoRun
  <2>6. DatabaseOK(x) /\ x.inbox = Append(d.inbox, item)  BY <1>2, <2>2, <2>5, InboxAppended
  <2>7. DatabaseOK(e) /\ SameWork(x.inbox, e.inbox)  BY <2>6, DispatchKeeps
  <2>8. Added(item, d.inbox, e.inbox)  BY <2>6, <2>7 DEF Added
  <2>9. NoRetry(d.links, d.inbox, e.inbox)  BY <1>3, <2>5, <2>8
  <2> QED  BY <1>4, <2>3, <2>4, <2>7, <2>9
<1>8. ASSUME NEW n, ClaimNow(n)
      PROVE  OwnershipStep
  <2>1. PICK e : e = ClaimItem(d, n)  OBVIOUS
  <2>2. Up /\ n \in DOMAIN d.inbox /\ Commit(e)  BY <1>1, <1>8, <2>1 DEF ClaimNow, Queued
  <2>3. DatabaseOK(e) /\ SameWork(db.inbox, e.inbox)  BY <1>1, <1>2, <2>1, <2>2, ClaimKeeps
  <2> QED  BY <2>2, <2>3, SameWorkStep
<1> QED  BY <1>5, <1>6, <1>7, <1>8

\* the columns of a TaskRun that a step may write
RunWritten(d, r, e) ==
  \/ \E s \in RunStatuses : e = [d EXCEPT !.runs[r].status = s]
  \/ \E s \in RunStatuses, v \in {"none", "covered", "contradicted"} :
        e = [d EXCEPT !.runs[r].status = s, !.runs[r].verdict = v]
  \/ \E s \in RunStatuses, b \in BOOLEAN :
        e = [d EXCEPT !.runs[r].status = s, !.runs[r].retryable = b]
  \/ e = Restarted(d, r)

\* writing them keeps the database in order
LEMMA RunColumns ==
  ASSUME NEW d, DatabaseOK(d), NEW r \in DOMAIN d.runs, NEW e, RunWritten(d, r, e)
  PROVE  DatabaseOK(e) /\ e.inbox = d.inbox /\ e.links = d.links
<1>1. d.runs \in Seq(RunRows) /\ d.runs[r] \in RunRows  BY DEF DatabaseOK, WorkOK
<1>2. d = [t \in Tables |-> d[t]]  BY DEF DatabaseOK
<1>3. ASSUME NEW row \in RunRows, row.inbox = d.runs[r].inbox, e = [d EXCEPT !.runs[r] = row]
      PROVE  DatabaseOK(e) /\ e.inbox = d.inbox /\ e.links = d.links
  BY <1>3, RunRowTouched
<1>4. ASSUME NEW s \in RunStatuses, e = [d EXCEPT !.runs[r].status = s]
      PROVE  DatabaseOK(e) /\ e.inbox = d.inbox /\ e.links = d.links
  <2> DEFINE row == [d.runs[r] EXCEPT !.status = s]
  <2>1. row \in RunRows /\ row.inbox = d.runs[r].inbox  BY <1>1 DEF RunRows
  <2>2. e = [d EXCEPT !.runs[r] = row]  BY <1>1, <1>2, <1>4 DEF Tables
  <2> HIDE DEF row
  <2> QED  BY <1>3, <2>1, <2>2
<1>5. ASSUME NEW s \in RunStatuses, NEW v \in {"none", "covered", "contradicted"},
             e = [d EXCEPT !.runs[r].status = s, !.runs[r].verdict = v]
      PROVE  DatabaseOK(e) /\ e.inbox = d.inbox /\ e.links = d.links
  <2> DEFINE row == [d.runs[r] EXCEPT !.status = s, !.verdict = v]
  <2>1. row \in RunRows /\ row.inbox = d.runs[r].inbox  BY <1>1 DEF RunRows
  <2>2. e = [d EXCEPT !.runs[r] = row]  BY <1>1, <1>2, <1>5 DEF Tables
  <2> HIDE DEF row
  <2> QED  BY <1>3, <2>1, <2>2
<1>6. ASSUME NEW s \in RunStatuses, NEW b \in BOOLEAN,
             e = [d EXCEPT !.runs[r].status = s, !.runs[r].retryable = b]
      PROVE  DatabaseOK(e) /\ e.inbox = d.inbox /\ e.links = d.links
  <2> DEFINE row == [d.runs[r] EXCEPT !.status = s, !.retryable = b]
  <2>1. row \in RunRows /\ row.inbox = d.runs[r].inbox  BY <1>1 DEF RunRows
  <2>2. e = [d EXCEPT !.runs[r] = row]  BY <1>1, <1>2, <1>6 DEF Tables
  <2> HIDE DEF row
  <2> QED  BY <1>3, <2>1, <2>2
<1>7. CASE e = Restarted(d, r)
  <2> DEFINE row == [d.runs[r] EXCEPT !.status = "running", !.attempt = d.runs[r].attempt + 1,
                                      !.verdict = "none", !.retryable = FALSE]
  <2>1. row \in RunRows /\ row.inbox = d.runs[r].inbox
    <3>1. d.runs[r].attempt + 1 \in Nat  BY <1>1 DEF RunRows
    <3>2. "running" \in RunStatuses  BY DEF RunStatuses
    <3> QED  BY <1>1, <3>1, <3>2 DEF RunRows
  <2>2. e = [d EXCEPT !.runs[r] = row]  BY <1>7 DEF Restarted
  <2> HIDE DEF row
  <2> QED  BY <1>3, <2>1, <2>2
<1> QED  BY <1>4, <1>5, <1>6, <1>7 DEF RunWritten

\* the outcome is recorded, the next item admitted, the Inbox dispatched
LEMMA AdvanceAndDispatch ==
  ASSUME NEW d, DatabaseOK(d), NEW r, NEW autoStart \in BOOLEAN,
         NEW x \in RecordAndAdvance(d, r, autoStart), NEW e, e \in Dispatch(x) \/ e = x
  PROVE  DatabaseOK(e) /\ NoRetry(d.links, d.inbox, e.inbox)
<1>1. DatabaseOK(x) /\ NoRetry(d.links, d.inbox, x.inbox)  BY RecordAndAdvanceKeeps
<1>2. CASE e \in Dispatch(x)
  <2>1. DatabaseOK(e) /\ SameWork(x.inbox, e.inbox)  BY <1>1, <1>2, DispatchKeeps
  <2> QED  BY <1>1, <2>1, NoRetryAfterDispatch
<1> QED  BY <1>1, <1>2

\* an Attempt ends or starts again
LEMMA AttemptStep ==
  ASSUME OwnershipInv, NEW r,
         \/ \E status \in RunStatuses, judged \in {"none", "covered", "contradicted"} :
               Settle(r, status, judged)
         \/ \E retryable \in BOOLEAN : FailLaunch(r, retryable)
         \/ ResumeStopped(r) \/ ContinueRun(r) \/ RetryInboxLaunch(r)
         \/ CancelRun(r) \/ RequireApproval(r)
  PROVE  OwnershipStep
<1>1. PICK d : d = db  OBVIOUS
<1>2. DatabaseOK(d)  BY <1>1 DEF OwnershipInv
<1>3. PICK running, blocked, cancelled, lost \in RunStatuses :
         /\ running = "running" /\ blocked = "blocked" /\ cancelled = "cancelled"
         /\ lost = "failed"
  BY DEF RunStatuses
<1>4. ASSUME NEW e, DatabaseOK(e), e.inbox = d.inbox, Up, Commit(e)
      PROVE  OwnershipStep
  <2>1. SameWork(db.inbox, e.inbox)  BY <1>1, <1>4 DEF SameWork
  <2> QED  BY <1>4, <2>1, SameWorkStep
<1>5. ASSUME NEW e, DatabaseOK(e), e.inbox = d.inbox, db' = e, mem.phase # "starting",
             NEW x, mem' = [mem EXCEPT !.finalizing = x] \/ mem' = [mem EXCEPT !.kick = x]
      PROVE  OwnershipStep
  <2>1. SameWork(db.inbox, db'.inbox)  BY <1>1, <1>5 DEF SameWork
  <2>2. NoRetry(db.links, db.inbox, db'.inbox)  BY <2>1, NoRetryUnchanged
  <2>3. PICK g : g = 0  OBVIOUS
  <2> QED  BY <1>5, <2>2, <2>3, TouchedStep
<1>6. ASSUME NEW status \in RunStatuses, NEW judged \in {"none", "covered", "contradicted"},
             Settle(r, status, judged)
      PROVE  OwnershipStep
  <2>1. PICK e : e = [d EXCEPT !.runs[r].status = status, !.runs[r].verdict = judged]  OBVIOUS
  <2>2. r \in DOMAIN d.runs /\ db' = e /\ mem.phase # "starting"
        /\ mem' = [mem EXCEPT !.finalizing = @ \cup {r}]
    BY <1>1, <1>6, <2>1 DEF Settle, Store, AtWork
  <2>9. RunWritten(d, r, e)  BY <2>1 DEF RunWritten
  <2>3. DatabaseOK(e) /\ e.inbox = d.inbox  BY <1>2, <2>2, <2>9, RunColumns
  <2>4. PICK x : x = mem.finalizing \cup {r}  OBVIOUS
  <2>5. mem' = [mem EXCEPT !.finalizing = x]  BY <2>2, <2>4
  <2> QED  BY <1>5, <2>2, <2>3, <2>5
<1>7. ASSUME NEW retryable \in BOOLEAN, FailLaunch(r, retryable)
      PROVE  OwnershipStep
  <2>1. PICK y : y = [d EXCEPT !.runs[r].status = lost, !.runs[r].retryable = retryable]  OBVIOUS
  <2>2. PICK e : e = RecordRunOutcome(y, r)  OBVIOUS
  <2>3. r \in DOMAIN d.runs /\ db' = e /\ mem.phase # "starting"
        /\ mem' = [mem EXCEPT !.kick = TRUE]
    BY <1>1, <1>3, <1>7, <2>1, <2>2 DEF FailLaunch, Store, Up
  <2>9. RunWritten(d, r, y)  BY <2>1 DEF RunWritten
  <2>4. DatabaseOK(y) /\ y.inbox = d.inbox  BY <1>2, <2>3, <2>9, RunColumns
  <2>5. DatabaseOK(e) /\ e.inbox = d.inbox  BY <2>2, <2>4, RecordKeeps
  <2>6. PICK x : x = TRUE  OBVIOUS
  <2>7. mem' = [mem EXCEPT !.kick = x]  BY <2>3, <2>6
  <2> QED  BY <1>5, <2>3, <2>5, <2>7
<1>8. CASE ResumeStopped(r) \/ RetryInboxLaunch(r)
  <2>1. PICK e : e = Restarted(d, r)  OBVIOUS
  <2>2. r \in DOMAIN d.runs /\ Up /\ Commit(e)
    BY <1>1, <1>8, <2>1 DEF ResumeStopped, RetryInboxLaunch, MayRestart
  <2>9. RunWritten(d, r, e)  BY <2>1 DEF RunWritten
  <2>3. DatabaseOK(e) /\ e.inbox = d.inbox  BY <1>2, <2>2, <2>9, RunColumns
  <2> QED  BY <1>4, <2>2, <2>3
<1>9. CASE ContinueRun(r)
  <2>1. PICK y : y = Restarted(d, r)  OBVIOUS
  <2>2. PICK e : e = RecordRunOutcome(y, r)  OBVIOUS
  <2>3. r \in DOMAIN d.runs /\ Up /\ Commit(e)
    BY <1>1, <1>9, <2>1, <2>2 DEF ContinueRun, MayRestart
  <2>9. RunWritten(d, r, y)  BY <2>1 DEF RunWritten
  <2>4. DatabaseOK(y) /\ y.inbox = d.inbox  BY <1>2, <2>3, <2>9, RunColumns
  <2>5. DatabaseOK(e) /\ e.inbox = d.inbox  BY <2>2, <2>4, RecordKeeps
  <2> QED  BY <1>4, <2>3, <2>5
<1>10. CASE CancelRun(r)
  <2>1. PICK e : e = [d EXCEPT !.runs[r].status = cancelled]  OBVIOUS
  <2>2. r \in DOMAIN d.runs /\ Up /\ Commit(e)
    BY <1>1, <1>3, <1>10, <2>1 DEF CancelRun
  <2>9. RunWritten(d, r, e)  BY <2>1 DEF RunWritten
  <2>3. DatabaseOK(e) /\ e.inbox = d.inbox  BY <1>2, <2>2, <2>9, RunColumns
  <2> QED  BY <1>4, <2>2, <2>3
<1>11. CASE RequireApproval(r)
  <2>1. PICK y : y = [d EXCEPT !.runs[r].status = blocked]  OBVIOUS
  <2>2. PICK e : e = RecordRunOutcome(y, r)  OBVIOUS
  <2>3. r \in DOMAIN d.runs /\ Up /\ Commit(e)
    BY <1>1, <1>3, <1>11, <2>1, <2>2 DEF RequireApproval
  <2>9. RunWritten(d, r, y)  BY <2>1 DEF RunWritten
  <2>4. DatabaseOK(y) /\ y.inbox = d.inbox  BY <1>2, <2>3, <2>9, RunColumns
  <2>5. DatabaseOK(e) /\ e.inbox = d.inbox  BY <2>2, <2>4, RecordKeeps
  <2> QED  BY <1>4, <2>3, <2>5
<1> QED  BY <1>6, <1>7, <1>8, <1>9, <1>10, <1>11

\* an outcome is recorded and the Goal advances
LEMMA AdvanceStep ==
  ASSUME OwnershipInv, NEW r,
         FinalizeAttempt(r) \/ AcceptCompletion(r) \/ CrashDuringAdvance(r)
  PROVE  OwnershipStep
<1>1. PICK d : d = db  OBVIOUS
<1>2. DatabaseOK(d)  BY <1>1 DEF OwnershipInv
<1>3. CASE FinalizeAttempt(r)
  <2>1. PICK up \in BOOLEAN : up = Up  BY DEF Up
  <2>2. PICK x \in RecordAndAdvance(d, r, up) : \E e \in (IF Up THEN Dispatch(x) ELSE {x}) : Store(e)
    BY <1>1, <1>3, <2>1 DEF FinalizeAttempt
  <2>3. PICK e \in (IF Up THEN Dispatch(x) ELSE {x}) : Store(e)  BY <2>2
  <2>4. db' = e /\ (e \in Dispatch(x) \/ e = x)  BY <2>3 DEF Store
  <2>5. DatabaseOK(e) /\ NoRetry(d.links, d.inbox, e.inbox)
    BY <1>2, <2>2, <2>4, AdvanceAndDispatch
  <2>6. mem.phase # "starting" /\ mem' = [mem EXCEPT !.finalizing = @ \ {r}]
    BY <1>3 DEF FinalizeAttempt, AtWork
  <2>7. PICK y, g : y = mem.finalizing \ {r} /\ g = 0  OBVIOUS
  <2>8. mem' = [mem EXCEPT !.finalizing = y]  BY <2>6, <2>7
  <2>9. DatabaseOK(db') /\ NoRetry(db.links, db.inbox, db'.inbox)  BY <1>1, <2>4, <2>5
  <2> QED  BY <2>6, <2>7, <2>8, <2>9, TouchedStep
<1>4. CASE AcceptCompletion(r)
  <2>1. PICK completed \in RunStatuses : completed = "completed"  BY DEF RunStatuses
  <2>2. PICK y : y = [d EXCEPT !.runs[r].status = completed]  OBVIOUS
  <2>3. Up /\ r \in DOMAIN d.runs
        /\ \E x \in RecordAndAdvance(y, r, TRUE) : \E e \in Dispatch(x) : Commit(e)
    BY <1>1, <1>4, <2>1, <2>2 DEF AcceptCompletion
  <2>4. PICK x \in RecordAndAdvance(y, r, TRUE) : \E e \in Dispatch(x) : Commit(e)  BY <2>3
  <2>5. PICK e \in Dispatch(x) : Commit(e)  BY <2>4
  <2>10. RunWritten(d, r, y)  BY <2>2 DEF RunWritten
  <2>6. DatabaseOK(y) /\ y.inbox = d.inbox /\ y.links = d.links
    BY <1>2, <2>3, <2>10, RunColumns
  <2>7. DatabaseOK(e) /\ NoRetry(d.links, d.inbox, e.inbox)  BY <2>4, <2>5, <2>6, AdvanceAndDispatch
  <2>8. db' = e /\ mem' = mem /\ mem.phase # "starting"  BY <2>3, <2>5 DEF Commit, Store, Up
  <2>9. DatabaseOK(db') /\ NoRetry(db.links, db.inbox, db'.inbox)  BY <1>1, <2>7, <2>8
  <2> QED  BY <2>8, <2>9, CommitStep
<1>5. CASE CrashDuringAdvance(r)
  <2>1. PICK y : y = RecordRunOutcome(d, r)  OBVIOUS
  <2>2. mem' = Fresh
        /\ \E item \in Admissions(y, r) :
              Store([y EXCEPT !.inbox = Append(@, [item EXCEPT !.linked = FALSE])])
    BY <1>1, <1>5, <2>1 DEF CrashDuringAdvance
  <2>3. PICK item \in Admissions(y, r) :
              Store([y EXCEPT !.inbox = Append(@, [item EXCEPT !.linked = FALSE])])
    BY <2>2
  <2>4. PICK row : row = [item EXCEPT !.linked = FALSE]  OBVIOUS
  <2>5. PICK e : e = [y EXCEPT !.inbox = Append(@, row)]  OBVIOUS
  <2>6. db' = e  BY <2>3, <2>4, <2>5 DEF Store
  <2>7. DatabaseOK(y) /\ y.inbox = d.inbox /\ y.links = d.links  BY <1>2, <2>1, RecordKeeps
  <2>8. RequestOK(item) /\ RequestOK(row)
        /\ NeverTried(d.links, item.goal, item.road, item.item)
    BY <2>4, <2>7, AdmissionOK
  <2>9. row.goal = item.goal /\ row.road = item.road /\ row.item = item.item
    BY <2>4, <2>8 DEF RequestOK, InboxRows
  <2>10. DatabaseOK(e) /\ e.inbox = Append(d.inbox, row)  BY <2>5, <2>7, <2>8, InboxAppended
  <2>11. Added(row, d.inbox, e.inbox)  BY <2>10 DEF Added, SameWork
  <2>12. d.inbox \in Seq(InboxRows)  BY <1>2 DEF DatabaseOK, WorkOK
  <2>13. NoRetry(d.links, d.inbox, e.inbox)
    <3>1. NeverTried(d.links, row.goal, row.road, row.item)  BY <2>8, <2>9
    <3> QED  BY <2>11, <2>12, <3>1, NoRetryAppend
  <2>14. DatabaseOK(db') /\ NoRetry(db.links, db.inbox, db'.inbox)  BY <1>1, <2>6, <2>10, <2>13
  <2> QED  BY <2>2, <2>14, FreshStep
<1> QED  BY <1>3, <1>4, <1>5

\* a set of numbers that is not empty has a smallest one
LEMMA SmallestRow ==
  ASSUME NEW S \in SUBSET Nat, S # {}
  PROVE  \E x \in S : \A y \in S : x <= y
<1>1. PICK R : R = OpToRel(<, Nat)  OBVIOUS
<1>2. IsWellFoundedOn(R, Nat)  BY <1>1, NatLessThanWellFounded, Zenon
<1>3. PICK x \in S : \A y \in S : ~(<<y, x>> \in R)  BY <1>2, WFMin
<1>4. R = {pair \in Nat \X Nat : pair[1] < pair[2]}  BY <1>1, Zenon DEF OpToRel
<1>5. ASSUME NEW y \in S  PROVE x <= y
  <2>1. <<y, x>> \in Nat \X Nat /\ <<y, x>>[1] = y /\ <<y, x>>[2] = x  BY <1>3
  <2>2. ~(y < x)  BY <1>3, <1>4, <2>1
  <2> QED  BY <1>3, <2>2
<1> QED  BY <1>5

\* reconcileRunState finds a TaskRun with the oldest Inbox row among those it misses
LEMMA OldestMissing ==
  ASSUME NEW tx, DatabaseOK(tx), NEW missing, missing \subseteq DOMAIN tx.runs, missing # {}
  PROVE  (CHOOSE x \in missing : \A y \in missing : tx.runs[x].inbox <= tx.runs[y].inbox) \in missing
<1> DEFINE rows == {tx.runs[x].inbox : x \in missing}
<1>1. tx.runs \in Seq(RunRows)  BY DEF DatabaseOK, WorkOK
<1>2. ASSUME NEW x \in missing  PROVE tx.runs[x].inbox \in Nat
  <2>1. tx.runs[x] \in RunRows  BY <1>1
  <2> QED  BY <2>1 DEF RunRows
<1>3. rows \in SUBSET Nat /\ rows # {}  BY <1>2
<1>4. PICK low \in rows : \A y \in rows : low <= y  BY <1>3, SmallestRow
<1>5. PICK x \in missing : low = tx.runs[x].inbox  BY <1>4
<1>6. \A y \in missing : tx.runs[x].inbox <= tx.runs[y].inbox  BY <1>4, <1>5
<1> QED  BY <1>5, <1>6

\* the TaskRuns as startup finds them
Interrupted(runs) ==
  [r \in DOMAIN runs |-> IF runs[r].status = "running"
                         THEN [runs[r] EXCEPT !.status = "interrupted"] ELSE runs[r]]
OpenedWith(d, notes) == [d EXCEPT !.receipt = notes, !.runs = Interrupted(d.runs)]

\* the database as startup opens it: interrupted TaskRuns, receipts without an executor
LEMMA OpenedKeeps ==
  ASSUME NEW d, DatabaseOK(d), NEW notes, NEW e, e = OpenedWith(d, notes)
  PROVE  DatabaseOK(e) /\ e.inbox = d.inbox
<1>0. PICK runs : runs = Interrupted(d.runs)  OBVIOUS
<1>1. e = [t \in Tables |-> e[t]] /\ e.runs = runs /\ e.inbox = d.inbox
      /\ e.goals = d.goals /\ e.defs = d.defs /\ e.roads = d.roads
      /\ e.approved = d.approved /\ e.progress = d.progress /\ e.links = d.links
  BY <1>0 DEF DatabaseOK, Tables, OpenedWith
<1>2. WorkOK(d.inbox, d.runs)  BY DEF DatabaseOK
<1>3. d.runs \in Seq(RunRows)  BY <1>2 DEF WorkOK
<1>4. ASSUME NEW r \in DOMAIN d.runs
      PROVE  runs[r] \in RunRows /\ runs[r].inbox = d.runs[r].inbox
  <2>1. d.runs[r] \in RunRows  BY <1>3
  <2>2. [d.runs[r] EXCEPT !.status = "interrupted"] \in RunRows
        /\ [d.runs[r] EXCEPT !.status = "interrupted"].inbox = d.runs[r].inbox
    BY <2>1 DEF RunRows, RunStatuses
  <2>3. runs[r] = IF d.runs[r].status = "running"
                  THEN [d.runs[r] EXCEPT !.status = "interrupted"] ELSE d.runs[r]
    BY <1>0 DEF Interrupted
  <2> QED  BY <2>1, <2>2, <2>3
<1>5. runs \in Seq(RunRows) /\ DOMAIN runs = DOMAIN d.runs
  <2>1. DOMAIN d.runs = 1 .. Len(d.runs) /\ Len(d.runs) \in Nat  BY <1>3
  <2>2. DOMAIN runs = DOMAIN d.runs  BY <1>0 DEF Interrupted
  <2>3. runs \in [1 .. Len(d.runs) -> RunRows]  BY <1>0, <1>4, <2>1 DEF Interrupted
  <2> QED  BY <2>1, <2>2, <2>3
<1>6. WorkOK(d.inbox, runs)  BY <1>2, <1>4, <1>5 DEF WorkOK
<1>7. DatabaseOK(e)
  <2>1. WorkOK(e.inbox, e.runs)  BY <1>1, <1>6
  <2>2. e = [t \in Tables |-> e[t]]  BY <1>1
  <2>3. e.goals = d.goals /\ e.defs = d.defs /\ e.roads = d.roads
        /\ e.approved = d.approved /\ e.progress = d.progress /\ e.links = d.links
    BY <1>1
  <2> QED  BY <2>1, <2>2, <2>3, WorkChanged
<1> QED  BY <1>1, <1>7

\* the process shuts down, ends, or starts again
LEMMA ProcessStep ==
  ASSUME OwnershipInv, BeginShutdown \/ CrashCore \/ StartCore \/ DispatchLater
  PROVE  OwnershipStep
<1>1. PICK d, m : d = db /\ m = mem  OBVIOUS
<1>2. DatabaseOK(d) /\ RecoveryOK(m, d)  BY <1>1 DEF OwnershipInv
<1>3. SameWork(d.inbox, d.inbox)  BY DEF SameWork
<1>4. NoRetry(db.links, db.inbox, db.inbox)  BY <1>1, <1>3, NoRetryUnchanged
<1>5. CASE BeginShutdown
  <2>1. PICK x, g : x = "closing" /\ g = 0  OBVIOUS
  <2>2. mem.phase # "starting" /\ mem' = [mem EXCEPT !.phase = x] /\ db' = db
    BY <1>5, <2>1 DEF BeginShutdown, Store, Up
  <2>3. DatabaseOK(db') /\ NoRetry(db.links, db.inbox, db'.inbox)  BY <1>1, <1>2, <1>4, <2>2
  <2> QED  BY <2>1, <2>2, <2>3, TouchedStep
<1>6. CASE CrashCore
  <2>1. mem' = Fresh /\ db' = db  BY <1>6 DEF CrashCore, Store
  <2>2. DatabaseOK(db') /\ NoRetry(db.links, db.inbox, db'.inbox)  BY <1>1, <1>2, <1>4, <2>1
  <2> QED  BY <2>1, <2>2, FreshStep
<1>7. CASE DispatchLater
  <2>1. PICK e \in (IF Up THEN Dispatch(d) ELSE {d}) : Store(e)  BY <1>1, <1>7 DEF DispatchLater
  <2>2. db' = e  BY <2>1 DEF Store
  <2>3. mem' = [mem EXCEPT !.kick = FALSE]  BY <1>7 DEF DispatchLater
  <2>4. CASE Up
    <3>1. e \in Dispatch(d)  BY <2>1, <2>4
    <3>2. DatabaseOK(e) /\ SameWork(d.inbox, e.inbox)  BY <1>2, <3>1, DispatchKeeps
    <3>3. NoRetry(db.links, db.inbox, db'.inbox)  BY <1>1, <2>2, <3>2, NoRetryUnchanged
    <3>4. PICK x, g : x = FALSE /\ g = 0  OBVIOUS
    <3>5. mem' = [mem EXCEPT !.kick = x] /\ mem.phase # "starting"  BY <2>3, <2>4, <3>4 DEF Up
    <3>6. DatabaseOK(db')  BY <2>2, <3>2
    <3> QED  BY <3>3, <3>4, <3>5, <3>6, TouchedStep
  <2>5. CASE ~Up
    <3>1. db' = db  BY <1>1, <2>1, <2>2, <2>5
    <3>2. PICK n : n = mem'  OBVIOUS
    <3>3. n = [m EXCEPT !.kick = FALSE]  BY <1>1, <2>3, <3>2
    <3>4. m = [f \in MemFields |-> m[f]]  BY <1>2 DEF RecoveryOK
    <3>5. n = [f \in MemFields |-> n[f]] /\ n.recovery = m.recovery /\ n.phase = m.phase
      BY <3>3, <3>4 DEF MemFields
    <3>6. RecoveryOK(n, d)
      <4>1. n = [f \in MemFields |-> n[f]]  BY <3>5
      <4>2. n.recovery = m.recovery /\ n.phase = m.phase  BY <3>5
      <4> QED  BY <1>2, <4>1, <4>2 DEF RecoveryOK, Reconciling
    <3> QED  BY <1>1, <1>2, <1>4, <3>1, <3>2, <3>6 DEF OwnershipStep
  <2> QED  BY <2>4, <2>5
<1>8. CASE StartCore
  <2> DEFINE notes == [g \in Goals |-> IF d.receipt[g] = "started" THEN "outcome_unknown"
                                         ELSE d.receipt[g]]
  <2>1. PICK e : e = OpenedWith(d, notes)  OBVIOUS
  <2>2. PICK rec : rec = [Recovered EXCEPT !.stage = "attach", !.tx = e, !.missing = MissingRuns(e)]
    OBVIOUS
  <2>3. db' = e /\ mem' = [mem EXCEPT !.phase = "starting", !.recovery = rec]
    BY <1>1, <1>8, <2>1, <2>2 DEF StartCore, Store, Interrupted, OpenedWith
  <2>4. DatabaseOK(e) /\ e.inbox = d.inbox  BY <1>2, <2>1, OpenedKeeps
  <2> HIDE DEF notes
  <2>5. rec = [f \in RecoveryFields |-> rec[f]] /\ rec.stage = "attach" /\ rec.tx = e
        /\ rec.missing = MissingRuns(e)
    BY <2>2 DEF Recovered, RecoveryFields
  <2>6. PICK n : n = mem'  OBVIOUS
  <2>7. m = [f \in MemFields |-> m[f]]  BY <1>2 DEF RecoveryOK
  <2>8. n = [f \in MemFields |-> n[f]] /\ n.phase = "starting" /\ n.recovery = rec
    <3>1. n = [m EXCEPT !.phase = "starting", !.recovery = rec]  BY <1>1, <2>3, <2>6
    <3> QED  BY <2>7, <3>1 DEF MemFields
  <2>9. MissingRuns(e) \subseteq DOMAIN e.runs  BY DEF MissingRuns
  <2>10. RecoveryOK(n, e)  BY <2>4, <2>5, <2>8, <2>9 DEF RecoveryOK
  <2>11. NoRetry(db.links, db.inbox, db'.inbox)  BY <1>1, <1>4, <2>3, <2>4
  <2> QED  BY <2>3, <2>4, <2>6, <2>10, <2>11 DEF OwnershipStep
<1> QED  BY <1>5, <1>6, <1>7, <1>8

\* the recovery of the process after a step of reconcileRunState
LEMMA RecoveryTouched ==
  ASSUME NEW m, NEW d, RecoveryOK(m, d), NEW rec, NEW n, n = [m EXCEPT !.recovery = rec]
  PROVE  n = [f \in MemFields |-> n[f]] /\ n.recovery = rec /\ n.phase = m.phase
<1>1. m = [f \in MemFields |-> m[f]]  BY DEF RecoveryOK
<1> QED  BY <1>1 DEF MemFields

\* reconcileRunState: what it does in its transaction is out of sight until it commits
LEMMA ReconcileStep ==
  ASSUME OwnershipInv, AttachMissing \/ ListLinked \/ ReplayOutcome
  PROVE  OwnershipStep
<1>1. PICK d, m, n : d = db /\ m = mem /\ n = mem'  OBVIOUS
<1>2. DatabaseOK(d) /\ RecoveryOK(m, d)  BY <1>1 DEF OwnershipInv
<1>3. SameWork(d.inbox, d.inbox)  BY DEF SameWork
<1>4. NoRetry(db.links, db.inbox, db.inbox)  BY <1>1, <1>3, NoRetryUnchanged
<1>5. db' = db  BY DEF AttachMissing, ListLinked, ReplayOutcome, Store
<1>6. Reconciling(m)  BY <1>1 DEF AttachMissing, ListLinked, ReplayOutcome, Reconciling
<1>7. PICK rec : rec = m.recovery  OBVIOUS
<1>8. rec = [f \in RecoveryFields |-> rec[f]] /\ m.phase = "starting" /\ DatabaseOK(rec.tx)
      /\ rec.tx.inbox = d.inbox
      /\ (rec.stage = "attach" => rec.missing \subseteq DOMAIN rec.tx.runs)
  BY <1>2, <1>6, <1>7 DEF RecoveryOK
<1>9. ASSUME NEW new, new = [f \in RecoveryFields |-> new[f]], DatabaseOK(new.tx),
             new.tx.inbox = d.inbox,
             new.stage = "attach" => new.missing \subseteq DOMAIN new.tx.runs,
             n = [m EXCEPT !.recovery = new]
      PROVE  OwnershipStep
  <2>1. n = [f \in MemFields |-> n[f]] /\ n.recovery = new /\ n.phase = m.phase
    BY <1>2, <1>9, RecoveryTouched
  <2>2. n = [f \in MemFields |-> n[f]]  BY <2>1
  <2>3. n.recovery = new /\ n.phase = "starting"  BY <1>8, <2>1
  <2>4. RecoveryOK(n, d)  BY <1>9, <2>2, <2>3 DEF RecoveryOK
  <2> QED  BY <1>1, <1>2, <1>4, <1>5, <2>4 DEF OwnershipStep
<1>10. CASE AttachMissing
  <2> DEFINE r == CHOOSE x \in rec.missing :
                     \A y \in rec.missing : rec.tx.runs[x].inbox <= rec.tx.runs[y].inbox
             repaired == IF LinksFor(rec.tx, r) = {} THEN rec.repaired ELSE Append(rec.repaired, r)
  <2>1. rec.stage = "attach" /\ rec.missing # {}  BY <1>1, <1>7, <1>10 DEF AttachMissing
  <2>2. r \in rec.missing  BY <1>8, <2>1, OldestMissing
  <2>3. n = [m EXCEPT !.recovery = [rec EXCEPT !.missing = rec.missing \ {r},
                          !.tx = AttachRun(rec.tx, r), !.repaired = repaired]]
    BY <1>1, <1>7, <1>10 DEF AttachMissing
  <2> HIDE DEF r, repaired
  <2>4. r \in DOMAIN rec.tx.runs  BY <1>8, <2>1, <2>2
  <2>5. DatabaseOK(AttachRun(rec.tx, r)) /\ AttachRun(rec.tx, r).inbox = rec.tx.inbox
        /\ AttachRun(rec.tx, r).runs = rec.tx.runs
    BY <1>8, <2>4, AttachRunKeeps
  <2>6. PICK new : new = [rec EXCEPT !.missing = rec.missing \ {r}, !.tx = AttachRun(rec.tx, r),
                                     !.repaired = repaired]
    OBVIOUS
  <2>7. new = [f \in RecoveryFields |-> new[f]] /\ new.tx = AttachRun(rec.tx, r)
        /\ new.missing = rec.missing \ {r}
    BY <1>8, <2>6 DEF RecoveryFields
  <2>8. new.missing \subseteq DOMAIN new.tx.runs  BY <1>8, <2>1, <2>5, <2>7
  <2>9. DatabaseOK(new.tx) /\ new.tx.inbox = d.inbox  BY <1>8, <2>5, <2>7
  <2>10. n = [m EXCEPT !.recovery = new]  BY <2>3, <2>6
  <2> QED  BY <1>9, <2>7, <2>8, <2>9, <2>10
<1>11. CASE ListLinked
  <2>1. PICK todo : todo = [l \in DOMAIN rec.tx.links |-> rec.tx.links[l].run]  OBVIOUS
  <2>2. PICK new : new = [rec EXCEPT !.stage = "record", !.todo = todo]  OBVIOUS
  <2>3. n = [m EXCEPT !.recovery = new]
    BY <1>1, <1>7, <1>11, <2>1, <2>2 DEF ListLinked
  <2>4. new = [f \in RecoveryFields |-> new[f]] /\ new.tx = rec.tx /\ new.stage = "record"
    BY <1>8, <2>2 DEF RecoveryFields
  <2> QED  BY <1>8, <1>9, <2>3, <2>4
<1>12. CASE ReplayOutcome
  <2>1. PICK r : r = Head(rec.todo)  OBVIOUS
  <2>2. PICK todo, tx, repaired : /\ todo = Tail(rec.todo) /\ tx = RecordRunOutcome(rec.tx, r)
                                  /\ repaired = IF r \in Range(rec.repaired) THEN rec.repaired
                                                ELSE Append(rec.repaired, r)
    OBVIOUS
  <2>3. PICK new : new = [rec EXCEPT !.todo = todo, !.tx = tx, !.repaired = repaired]  OBVIOUS
  <2>4. n = [m EXCEPT !.recovery = new]
    BY <1>1, <1>7, <1>12, <2>1, <2>2, <2>3 DEF ReplayOutcome
  <2>5. new = [f \in RecoveryFields |-> new[f]] /\ new.tx = tx /\ new.stage = rec.stage
    BY <1>8, <2>3 DEF RecoveryFields
  <2>6. rec.stage = "record"  BY <1>1, <1>7, <1>12 DEF ReplayOutcome
  <2>7. DatabaseOK(tx) /\ tx.inbox = rec.tx.inbox  BY <1>8, <2>2, RecordKeeps
  <2> QED  BY <1>8, <1>9, <2>4, <2>5, <2>6, <2>7
<1> QED  BY <1>10, <1>11, <1>12

\* once reconcileRunState has committed, the recovery only has to keep its shape
LEMMA CommittedRecovery ==
  ASSUME NEW n, NEW d, n = [f \in MemFields |-> n[f]],
         n.recovery = [f \in RecoveryFields |-> n.recovery[f]],
         n.recovery.stage \in {"none", "advance"}
  PROVE  RecoveryOK(n, d)
<1>1. ~Reconciling(n) /\ n.recovery.stage # "attach"  BY DEF Reconciling
<1> QED  BY <1>1 DEF RecoveryOK

\* the end of startup: the transaction commits, the Roadmaps advance, the Inbox is dispatched
LEMMA CommittedStep ==
  ASSUME OwnershipInv, ReconcileCommits \/ AdvanceReconciled \/ StartDone
  PROVE  OwnershipStep
<1>1. PICK d, m, n : d = db /\ m = mem /\ n = mem'  OBVIOUS
<1>2. DatabaseOK(d) /\ RecoveryOK(m, d)  BY <1>1 DEF OwnershipInv
<1>3. PICK rec : rec = m.recovery  OBVIOUS
<1>4. rec = [f \in RecoveryFields |-> rec[f]]  BY <1>2, <1>3 DEF RecoveryOK
<1>5. ASSUME NEW new, new = [f \in RecoveryFields |-> new[f]], new.stage = "advance",
             n = [m EXCEPT !.recovery = new]
      PROVE  RecoveryOK(n, db')
  <2>1. n = [f \in MemFields |-> n[f]] /\ n.recovery = new  BY <1>2, <1>5, RecoveryTouched
  <2>2. n = [f \in MemFields |-> n[f]]  BY <2>1
  <2>3. n.recovery = [f \in RecoveryFields |-> n.recovery[f]] /\ n.recovery.stage \in {"none", "advance"}
    BY <1>5, <2>1
  <2> QED  BY <2>2, <2>3, CommittedRecovery
<1>6. CASE ReconcileCommits
  <2>1. PICK tx, todo : tx = rec.tx /\ todo = rec.repaired  OBVIOUS
  <2>2. PICK new : new = [Recovered EXCEPT !.stage = "advance", !.todo = todo]  OBVIOUS
  <2>3. n = [m EXCEPT !.recovery = new] /\ db' = tx /\ rec.stage = "record"
    BY <1>1, <1>3, <1>6, <2>1, <2>2 DEF ReconcileCommits, Store
  <2>4. new = [f \in RecoveryFields |-> new[f]] /\ new.stage = "advance"
    BY <2>2 DEF Recovered, RecoveryFields
  <2>5. RecoveryOK(n, db')  BY <1>5, <2>3, <2>4
  <2>6. DatabaseOK(tx) /\ tx.inbox = d.inbox
    BY <1>2, <1>3, <2>1, <2>3 DEF RecoveryOK, Reconciling
  <2>7. SameWork(db.inbox, tx.inbox)  BY <1>1, <2>6 DEF SameWork
  <2>8. NoRetry(db.links, db.inbox, db'.inbox)  BY <2>3, <2>7, NoRetryUnchanged
  <2> QED  BY <1>1, <2>3, <2>5, <2>6, <2>8 DEF OwnershipStep
<1>7. CASE AdvanceReconciled
  <2>1. PICK todo, r : todo = Tail(rec.todo) /\ r = Head(rec.todo)  OBVIOUS
  <2>2. PICK new : new = [rec EXCEPT !.todo = todo]  OBVIOUS
  <2>3. n = [m EXCEPT !.recovery = new] /\ rec.stage = "advance"
    BY <1>1, <1>3, <1>7, <2>1, <2>2 DEF AdvanceReconciled
  <2>4. new = [f \in RecoveryFields |-> new[f]] /\ new.stage = "advance"
    BY <1>4, <2>2, <2>3 DEF RecoveryFields
  <2>5. RecoveryOK(n, db')  BY <1>5, <2>3, <2>4
  <2>6. PICK autoStart \in BOOLEAN : autoStart = TRUE  OBVIOUS
  <2>7. PICK e \in RecordAndAdvance(d, r, autoStart) : db' = e
    BY <1>1, <1>3, <1>7, <2>1, <2>6 DEF AdvanceReconciled, Store
  <2>8. DatabaseOK(e) /\ NoRetry(d.links, d.inbox, e.inbox)  BY <1>2, <2>7, RecordAndAdvanceKeeps
  <2> QED  BY <1>1, <2>5, <2>7, <2>8 DEF OwnershipStep
<1>8. CASE StartDone
  <2>1. PICK e \in Dispatch(d) : db' = e  BY <1>1, <1>8 DEF StartDone, Store
  <2>2. DatabaseOK(e) /\ SameWork(d.inbox, e.inbox)  BY <1>2, <2>1, DispatchKeeps
  <2>3. NoRetry(db.links, db.inbox, db'.inbox)  BY <1>1, <2>1, <2>2, NoRetryUnchanged
  <2>4. n = [m EXCEPT !.phase = "up", !.recovery = Recovered]  BY <1>1, <1>8 DEF StartDone
  <2>5. m = [f \in MemFields |-> m[f]]  BY <1>2 DEF RecoveryOK
  <2>6. n = [f \in MemFields |-> n[f]] /\ n.recovery = Recovered  BY <2>4, <2>5 DEF MemFields
  <2>7. Recovered = [f \in RecoveryFields |-> Recovered[f]] /\ Recovered.stage = "none"
    BY DEF Recovered, RecoveryFields
  <2>8. n = [f \in MemFields |-> n[f]]  BY <2>6
  <2>9. n.recovery = [f \in RecoveryFields |-> n.recovery[f]] /\ n.recovery.stage \in {"none", "advance"}
    BY <2>6, <2>7
  <2>10. RecoveryOK(n, db')  BY <2>8, <2>9, CommittedRecovery
  <2> QED  BY <1>1, <2>1, <2>2, <2>3, <2>10 DEF OwnershipStep
<1> QED  BY <1>6, <1>7, <1>8

\* every step of the Workspace's Goals keeps the ownership of Roadmap items in order
LEMMA GoalsStep ==
  ASSUME OwnershipInv, [GoalsNext]_goalsVars
  PROVE  OwnershipStep
<1>1. ASSUME NEW g \in Goals, Decide(g)  PROVE OwnershipStep
  <2>1. CASE \/ \E def \in Definitions : CreateGoal(g, def) \/ ReviseDefinition(g, def)
             \/ ApproveGoal(g) \/ RequestChange(g)
             \/ PauseGoal(g) \/ ResumeGoal(g) \/ CancelGoal(g) \/ CloseGoal(g)
    BY <2>1, DecisionStep
  <2>2. CASE \/ \E roadmap \in Roadmaps : ReviseRoadmap(g, roadmap) \/ FinishGeneration(g, roadmap)
             \/ \E items \in SUBSET ItemIds : ApproveRoadmap(g, items)
             \/ RequestGeneration(g)
    BY <2>2, RoadmapStep
  <2>3. CASE \E i \in ItemIds : StartItem(g, i) \/ CrashBeforeLink(g, i)
    BY <2>3, StartStep
  <2> QED  BY <1>1, <2>1, <2>2, <2>3 DEF Decide
<1>2. ASSUME NEW r, RunStep(r)  PROVE OwnershipStep
  <2>1. CASE \E status \in RunStatuses, judged \in {"none", "covered", "contradicted"} :
                Settle(r, status, judged)
    BY <2>1, AttemptStep
  <2>2. CASE \/ \E retryable \in BOOLEAN : FailLaunch(r, retryable)
             \/ ResumeStopped(r) \/ ContinueRun(r) \/ RetryInboxLaunch(r)
             \/ CancelRun(r) \/ RequireApproval(r)
    BY <2>2, AttemptStep
  <2>3. CASE FinalizeAttempt(r) \/ AcceptCompletion(r) \/ CrashDuringAdvance(r)
    BY <2>3, AdvanceStep
  <2>4. CASE \E status \in {"completed", "blocked"}, judged \in {"none", "covered", "contradicted"} :
                Settle(r, status, judged)
    <3>1. {"completed", "blocked"} \subseteq RunStatuses  BY DEF RunStatuses
    <3> QED  BY <2>1, <2>4, <3>1
  <2>5. CASE \E status \in {"failed", "waiting_input"} : Settle(r, status, "none")
    <3>1. {"failed", "waiting_input"} \subseteq RunStatuses  BY DEF RunStatuses
    <3> QED  BY <2>1, <2>5, <3>1
  <2> QED  BY <1>2, <2>2, <2>3, <2>4, <2>5 DEF RunStep
<1>3. ASSUME UNCHANGED goalsVars  PROVE OwnershipStep
  <2>1. db' = db /\ mem' = mem  BY <1>3 DEF goalsVars
  <2>2. SameWork(db.inbox, db.inbox)  BY DEF SameWork
  <2>3. NoRetry(db.links, db.inbox, db.inbox)  BY <2>2, NoRetryUnchanged
  <2> QED  BY <2>1, <2>3 DEF OwnershipStep, OwnershipInv
<1>4. CASE \/ StartPlain \/ \E n \in 1 .. MaxInbox : ClaimNow(n)  BY <1>4, StartStep
<1>5. CASE BeginShutdown \/ CrashCore \/ StartCore \/ DispatchLater  BY <1>5, ProcessStep
<1>6. CASE Recovery  BY <1>6, ReconcileStep, CommittedStep DEF Recovery
<1> QED  BY <1>1, <1>2, <1>3, <1>4, <1>5, <1>6 DEF GoalsNext

\* a Workspace without Goals, Inbox rows, TaskRuns and links is in order
LEMMA GoalsInitOK ==
  ASSUME GoalsInit
  PROVE  OwnershipInv
<1>1. PICK d, m : d = db /\ m = mem  OBVIOUS
<1>2. d = [t \in Tables |-> d[t]]  BY <1>1 DEF GoalsInit, Tables
<1>3. /\ d.defs = [g \in Goals |-> <<>>] /\ d.roads = [g \in Goals |-> <<>>]
      /\ d.approved = [g \in Goals |-> <<>>] /\ d.progress = [g \in Goals |-> <<>>]
      /\ d.inbox = <<>> /\ d.runs = <<>> /\ d.links = <<>>
      /\ d.goals = [g \in Goals |-> [status |-> "absent", def |-> 0, road |-> 0, current |-> NoRun]]
  BY <1>1 DEF GoalsInit
<1>4. d.defs \in [Goals -> Seq(Definitions)]  BY <1>3
<1>5. GoalsOK(d.goals, d.roads)
  <2>1. d.goals = [g \in Goals |-> d.goals[g]]  BY <1>3
  <2>2. ASSUME NEW g \in Goals  PROVE GoalRowOK(d.goals[g], d.roads[g])
    BY <1>3 DEF GoalRowOK, GoalFields
  <2> QED  BY <2>1, <2>2 DEF GoalsOK
<1>6. RoadsOK(d.roads, d.approved, d.progress)  BY <1>3 DEF RoadsOK
<1>7. WorkOK(d.inbox, d.runs)  BY <1>3 DEF WorkOK
<1>8. LinksOK(d.links, d.roads)  BY <1>3 DEF LinksOK
<1>9. OwnersOK(d.roads, d.links, d.progress)  BY <1>3 DEF OwnersOK
<1>10. DatabaseOK(d)  BY <1>2, <1>4, <1>5, <1>6, <1>7, <1>8, <1>9 DEF DatabaseOK
<1>11. m = [Fresh EXCEPT !.phase = "up"]  BY <1>1 DEF GoalsInit
<1>12. m = [f \in MemFields |-> m[f]] /\ m.recovery = Recovered  BY <1>11 DEF Fresh, MemFields
<1>13. Recovered = [f \in RecoveryFields |-> Recovered[f]] /\ Recovered.stage = "none"
  BY DEF Recovered, RecoveryFields
<1>14. RecoveryOK(m, d)
  <2>1. m = [f \in MemFields |-> m[f]]  BY <1>12
  <2>2. m.recovery = [f \in RecoveryFields |-> m.recovery[f]] /\ m.recovery.stage \in {"none", "advance"}
    BY <1>12, <1>13
  <2> QED  BY <2>1, <2>2, CommittedRecovery
<1> QED  BY <1>1, <1>10, <1>14 DEF OwnershipInv

\* an item nobody tried is one without links
LEMMA NeverTriedMeans ==
  ASSUME NEW d, NEW g, NEW k, NEW i
  PROVE  NeverTried(d.links, g, k, i) <=> ItemLinks(d, g, k, i) = {}
  BY DEF NeverTried, ItemLinks, OfItem

\* the owner in order is the TaskRun of the newest link
LEMMA OwnerIsNewest ==
  ASSUME NEW d, d.links \in Seq(LinkRows), NEW g, NEW k, NEW i, NEW owner,
         OwnerOK(owner, d.links, g, k, i)
  PROVE  LET links == ItemLinks(d, g, k, i)
         IN owner = IF links = {} THEN NoRun
                  ELSE d.links[CHOOSE n \in links : \A m \in links : m <= n].run
<1> DEFINE links == ItemLinks(d, g, k, i)
<1>1. CASE owner = NoRun /\ NeverTried(d.links, g, k, i)  BY <1>1, NeverTriedMeans
<1>2. ASSUME NEW n \in DOMAIN d.links, NewestOf(d.links, g, k, i, n), owner = d.links[n].run
      PROVE  owner = IF links = {} THEN NoRun
                   ELSE d.links[CHOOSE x \in links : \A m \in links : m <= x].run
  <2>1. n \in links /\ \A m \in links : m <= n  BY <1>2 DEF NewestOf, OfItem, ItemLinks
  <2>2. links \subseteq Nat  BY DEF ItemLinks
  <2> HIDE DEF links
  <2>3. \A x \in links : (\A m \in links : m <= x) => x = n  BY <2>1, <2>2
  <2>4. n = CHOOSE x \in links : \A m \in links : m <= x  BY <2>1, <2>3
  <2> QED  BY <1>2, <2>1, <2>4
<1> QED  BY <1>1, <1>2 DEF OwnerOK

\* the invariant says who owns an item
LEMMA OwnershipImpliesNewest ==
  ASSUME OwnershipInv
  PROVE  NewestRunOwnsItem
<1>1. DatabaseOK(db)  BY DEF OwnershipInv
<1>2. db.links \in Seq(LinkRows)  BY <1>1 DEF DatabaseOK, LinksOK
<1>3. ASSUME NEW g \in Goals, NEW k \in DOMAIN db.roads[g], NEW i \in DOMAIN db.roads[g][k]
      PROVE  LET links == ItemLinks(db, g, k, i)
             IN db.progress[g][k][i].run =
                  IF links = {} THEN NoRun
                  ELSE db.links[CHOOSE n \in links : \A m \in links : m <= n].run
  <2>1. OwnerOK(db.progress[g][k][i].run, db.links, g, k, i)  BY <1>1 DEF DatabaseOK, OwnersOK
  <2> QED  BY <1>2, <2>1, OwnerIsNewest
<1> QED  BY <1>3 DEF NewestRunOwnsItem

\* the inductive invariant of the Workspace's Goals: the database is in order, item by item
\* and link by link, and so is the transaction startup works on
LEMMA OwnershipHolds == GoalsSpec => []OwnershipInv
<1>1. GoalsInit => OwnershipInv  BY GoalsInitOK
<1>2. OwnershipInv /\ [GoalsNext]_goalsVars => OwnershipInv'
  <2> SUFFICES ASSUME OwnershipInv, [GoalsNext]_goalsVars  PROVE OwnershipInv'
    OBVIOUS
  <2>1. OwnershipStep  BY GoalsStep
  <2> QED  BY <2>1 DEF OwnershipStep, OwnershipInv
<1> QED  BY <1>1, <1>2, PTL DEF GoalsSpec

\* recordRunOutcome and persistRunLinkAndSnapshot (workspace-goal-repository.ts): for every
\* Workspace, the progress of a Roadmap item belongs to the TaskRun that was linked to it
\* last, through late outcomes, retries, crashes and the replay at startup
THEOREM NewestOwnsItem == GoalsSpec => []NewestRunOwnsItem
<1>1. OwnershipInv => NewestRunOwnsItem  BY OwnershipImpliesNewest
<1> QED  BY <1>1, OwnershipHolds, PTL

\* recordWorkspaceGoalRunOutcome (admission-coordinator.ts): for every Workspace, an item that
\* automatic progression admits has had no TaskRun before
THEOREM ProgressionNeverRetries == GoalsSpec => NoAutomaticRetry
<1> DEFINE Admits ==
      \A n \in DOMAIN db'.inbox \ DOMAIN db.inbox :
         LET item == db'.inbox[n]
         IN item.auto => ItemLinks(db, item.goal, item.road, item.item) = {}
<1>1. OwnershipInv /\ [GoalsNext]_goalsVars => [Admits]_goalsVars
  <2> SUFFICES ASSUME OwnershipInv, [GoalsNext]_goalsVars  PROVE Admits
    OBVIOUS
  <2>1. NoRetry(db.links, db.inbox, db'.inbox)  BY GoalsStep DEF OwnershipStep
  <2> QED  BY <2>1, NeverTriedMeans DEF NoRetry
<1> QED  BY <1>1, OwnershipHolds, PTL DEF GoalsSpec, NoAutomaticRetry

-----------------------------------------------------------------------------
(* 11. What a Goal is closed on.                                            *)

\* a set of evidence grows: nothing is taken back, and what is new is about a TaskRun and an
\* Attempt of which there was nothing
Grows(rows, more) ==
  /\ rows \subseteq more
  /\ \A e \in more \ rows : \A o \in rows : ~SameSource(e, o)

Evidenced(d) == d.evidence = [g \in Goals |-> d.evidence[g]]

\* evidence grows and no Goal is closed
Onward(d, e) ==
  /\ Evidenced(e)
  /\ \A g \in Goals : Grows(d.evidence[g], e.evidence[g])
  /\ \A g \in Goals : e.goals[g].status = "completed" => d.goals[g].status = "completed"

\* the history is the evidence: no row has been refreshed
Heard(d, h) == Evidenced(d) /\ h = d.evidence

\* one such step after another
LEMMA OnwardTransitive ==
  ASSUME NEW d, NEW e, NEW f, Onward(d, e), Onward(e, f)
  PROVE  Onward(d, f)
<1>1. Evidenced(f)  BY DEF Onward
<1>2. ASSUME NEW g \in Goals  PROVE Grows(d.evidence[g], f.evidence[g])
  <2>1. PICK A, B, C : A = d.evidence[g] /\ B = e.evidence[g] /\ C = f.evidence[g]  OBVIOUS
  <2>2. Grows(A, B) /\ Grows(B, C)  BY <2>1 DEF Onward
  <2>3. Grows(A, C)  BY <2>2 DEF Grows
  <2> QED  BY <2>1, <2>3
<1>3. \A g \in Goals : f.goals[g].status = "completed" => d.goals[g].status = "completed"
  BY DEF Onward
<1> QED  BY <1>1, <1>2, <1>3 DEF Onward

\* a step that leaves evidence and Goals alone
LEMMA OnwardSame ==
  ASSUME NEW d, Evidenced(d), NEW e, e.evidence = d.evidence, e.goals = d.goals
  PROVE  Onward(d, e)
<1>1. Evidenced(e)  BY DEF Evidenced
<1>2. \A g \in Goals : Grows(d.evidence[g], e.evidence[g])  BY DEF Grows
<1> QED  BY <1>1, <1>2 DEF Onward

\* one Goal gets a row that does not close it
LEMMA OnwardRow ==
  ASSUME NEW d, DatabaseOK(d), Evidenced(d), NEW g \in Goals, NEW row,
         row.status = "completed" => d.goals[g].status = "completed",
         NEW e, e.evidence = d.evidence,
         \A h \in Goals : e.goals[h] = IF h = g THEN row ELSE d.goals[h]
  PROVE  Onward(d, e)
<1>1. Evidenced(e)  BY DEF Evidenced
<1>2. \A h \in Goals : Grows(d.evidence[h], e.evidence[h])  BY DEF Grows
<1> QED  BY <1>1, <1>2 DEF Onward

\* the same, as it is written
LEMMA OnwardRowWritten ==
  ASSUME NEW d, DatabaseOK(d), Evidenced(d), NEW g \in Goals, NEW row,
         row.status = "completed" => d.goals[g].status = "completed",
         NEW e, e = [d EXCEPT !.goals[g] = row]
  PROVE  Onward(d, e)
<1>1. e.evidence = d.evidence /\ e.goals = [d.goals EXCEPT ![g] = row]  BY DEF DatabaseOK, Tables
<1>2. d.goals = [h \in Goals |-> d.goals[h]]  BY DEF DatabaseOK, GoalsOK
<1>3. PICK f : f = e  OBVIOUS
<1>4. f.evidence = d.evidence /\ \A h \in Goals : f.goals[h] = IF h = g THEN row ELSE d.goals[h]
  BY <1>1, <1>2, <1>3
<1>5. Onward(d, f)  BY <1>4, OnwardRow
<1> QED  BY <1>3, <1>5

\* refreshReadyStatus
LEMMA RefreshOnward ==
  ASSUME NEW d, DatabaseOK(d), Evidenced(d), NEW g \in Goals, NEW e, e = RefreshReadyStatus(d, g)
  PROVE  Onward(d, e)
<1> DEFINE row1 == [d.goals[g] EXCEPT !.status = "ready_to_close", !.current = NoRun]
           row2 == [d.goals[g] EXCEPT !.status = "active"]
<1>1. d = [t \in Tables |-> d[t]] /\ d.goals = [h \in Goals |-> d.goals[h]]
      /\ d.goals[g] = [f \in GoalFields |-> d.goals[g][f]]
  BY DEF DatabaseOK, GoalsOK, GoalRowOK
<1>2. row1.status = "ready_to_close" /\ row2.status = "active"  BY <1>1 DEF GoalFields
<1>3. e \in {[d EXCEPT !.goals[g] = row1], [d EXCEPT !.goals[g] = row2], d}
  <2>1. [d EXCEPT !.goals[g].status = "ready_to_close", !.goals[g].current = NoRun]
           = [d EXCEPT !.goals[g] = row1]
    BY <1>1 DEF Tables, GoalFields
  <2>2. [d EXCEPT !.goals[g].status = "active"] = [d EXCEPT !.goals[g] = row2]
    BY <1>1 DEF Tables, GoalFields
  <2> HIDE DEF row1, row2
  <2> QED  BY <2>1, <2>2 DEF RefreshReadyStatus
<1> HIDE DEF row1, row2
<1>4. CASE e = [d EXCEPT !.goals[g] = row1]  BY <1>2, <1>4, OnwardRowWritten
<1>5. CASE e = [d EXCEPT !.goals[g] = row2]  BY <1>2, <1>5, OnwardRowWritten
<1>6. CASE e = d  BY <1>6, OnwardSame
<1> QED  BY <1>3, <1>4, <1>5, <1>6

\* linkEvidence under a new request id adds a row
LEMMA LinkGrows ==
  ASSUME NEW rows, NEW e, \A o \in rows : ~(o.run = e.run /\ o.attempt = e.attempt)
  PROVE  Grows(rows, LinkEvidence(rows, e))
<1>1. \A o \in rows : ~SameSource(o, e) /\ ~SameSource(e, o)  BY DEF SameSource
<1>2. LinkEvidence(rows, e) = rows \cup {e}  BY <1>1 DEF LinkEvidence
<1> QED  BY <1>1, <1>2 DEF Grows

\* harvestSupervisorEvidence
LEMMA HarvestOnward ==
  ASSUME NEW d, DatabaseOK(d), Evidenced(d), NEW link \in LinkRows,
         NEW e, e = HarvestSupervisorEvidence(d, link)
  PROVE  Onward(d, e)
<1>1. PICK g \in Goals : g = link.goal  BY DEF LinkRows
<1>2. CASE e = d  BY <1>2, OnwardSame
<1>3. CASE e # d
  <2> DEFINE row == [def |-> link.def, run |-> link.run, attempt |-> d.runs[link.run].attempt,
                     criteria |-> d.roads[g][link.road][link.item],
                     verdict |-> d.runs[link.run].verdict, at |-> LaterThan(d.evidence[g])]
  <2>1. ~Harvested(d, link) /\ e = [d EXCEPT !.evidence[g] = LinkEvidence(@, row)]
    BY <1>1, <1>3 DEF HarvestSupervisorEvidence
  <2>2. PICK rows : rows = LinkEvidence(d.evidence[g], row)  OBVIOUS
  <2>3. e.evidence = [d.evidence EXCEPT ![g] = rows] /\ e.goals = d.goals
    BY <2>1, <2>2 DEF DatabaseOK, Tables
  <2>4. row.run = link.run /\ row.attempt = d.runs[link.run].attempt  OBVIOUS
  <2> HIDE DEF row
  <2>5. \A o \in d.evidence[g] : ~(o.run = row.run /\ o.attempt = row.attempt)
    BY <1>1, <2>1, <2>4 DEF Harvested
  <2>6. Grows(d.evidence[g], rows)  BY <2>2, <2>5, LinkGrows
  <2>7. \A h \in Goals : e.evidence[h] = IF h = g THEN rows ELSE d.evidence[h]
    BY <2>3 DEF Evidenced
  <2>8. Evidenced(e)  BY <2>3 DEF Evidenced
  <2>9. \A h \in Goals : Grows(d.evidence[h], e.evidence[h])  BY <2>6, <2>7 DEF Grows
  <2> QED  BY <2>3, <2>8, <2>9 DEF Onward
<1> QED  BY <1>2, <1>3

\* recordRunOutcome
LEMMA RecordOnward ==
  ASSUME NEW d, DatabaseOK(d), Evidenced(d), NEW r, NEW e, e = RecordRunOutcome(d, r)
  PROVE  Onward(d, e)
<1>1. CASE LinkOf(d, r) = {}
  <2>1. e = d  BY <1>1 DEF RecordRunOutcome
  <2> QED  BY <2>1, OnwardSame
<1>2. CASE LinkOf(d, r) # {}
  <2> DEFINE n == CHOOSE m \in LinkOf(d, r) : TRUE
             link == d.links[n]
             g == link.goal
             status == d.runs[r].status
             progressed == IF link.item = 0 \/ OwnerIsNewer(d, n) THEN d
                           ELSE [d EXCEPT !.progress[g][link.road][link.item] =
                                    [status |-> OutcomeStatus(status), run |-> r]]
             preferred == IF d.goals[g].current = r /\ status \notin Live \cup Stopped
                          THEN NoRun ELSE d.goals[g].current
             reselected == [progressed EXCEPT
                                !.goals[g].current = ActiveGuidedRun(progressed, g, preferred)]
             harvested == IF status \in Live THEN reselected
                          ELSE HarvestSupervisorEvidence(reselected, link)
  <2>1. n \in LinkOf(d, r)  BY <1>2
  <2>2. n \in DOMAIN d.links /\ d.links[n].run = r  BY <2>1 DEF LinkOf
  <2>3. link \in LinkRows /\ link = d.links[n]  BY <2>2 DEF DatabaseOK, LinksOK
  <2>4. g \in Goals /\ g = link.goal  BY <2>3 DEF LinkRows
  <2>5. e = RefreshReadyStatus(harvested, g)  BY <1>2 DEF RecordRunOutcome
  <2> HIDE DEF n, link, g
  <2>6. DatabaseOK(progressed)
    <3>1. CASE link.item = 0 \/ OwnerIsNewer(d, n)  BY <3>1
    <3>2. CASE ~(link.item = 0 \/ OwnerIsNewer(d, n))
      <4> DEFINE row == [status |-> OutcomeStatus(status), run |-> r]
      <4>1. row \in ItemRows /\ row.run = r
        <5>1. OutcomeStatus(status) \in ItemStatuses  BY OutcomeIsStatus
        <5>2. r \in Nat  BY <2>2, <2>3 DEF LinkRows
        <5> HIDE DEF status
        <5> QED  BY <5>1, <5>2 DEF ItemRows
      <4>2. r = d.progress[g][link.road][link.item].run  BY <2>2, <2>3, <2>4, <3>2, WriterOwnsItem
      <4>3. link.road \in DOMAIN d.roads[g] /\ link.item \in DOMAIN d.roads[g][link.road]
        BY <2>2, <2>3, <2>4, <3>2, LinkItem
      <4>4. progressed = [d EXCEPT !.progress[g][link.road][link.item] = row]  BY <3>2
      <4> HIDE DEF row, progressed
      <4>5. PICK k, i : k = link.road /\ i = link.item  OBVIOUS
      <4>6. progressed = [d EXCEPT !.progress[g][k][i] = row]  BY <4>4, <4>5
      <4>7. k \in DOMAIN d.roads[g] /\ i \in DOMAIN d.roads[g][k]
            /\ row.run = d.progress[g][k][i].run
        BY <4>1, <4>2, <4>3, <4>5
      <4> QED  BY <2>4, <4>1, <4>6, <4>7, ProgressTouched
    <3> QED  BY <3>1, <3>2
  <2>7. progressed.evidence = d.evidence /\ progressed.goals = d.goals
    BY DEF DatabaseOK, Tables
  <2> HIDE DEF progressed, preferred
  <2>8. Onward(d, progressed)  BY <2>7, OnwardSame
  <2> DEFINE row == [progressed.goals[g] EXCEPT !.current = ActiveGuidedRun(progressed, g, preferred)]
  <2>9. GoalRowOK(row, progressed.roads[g]) /\ row.status = progressed.goals[g].status
    <3>1. GoalRowOK(progressed.goals[g], progressed.roads[g])  BY <2>4, <2>6 DEF DatabaseOK, GoalsOK
    <3>2. row.status = progressed.goals[g].status  BY <3>1 DEF GoalRowOK, GoalFields
    <3> QED  BY <3>1, <3>2, GoalRowTouched
  <2>10. reselected = [progressed EXCEPT !.goals[g] = row]
    BY <2>6 DEF DatabaseOK, GoalsOK, GoalRowOK, Tables, GoalFields
  <2> HIDE DEF row, reselected
  <2>11. QuietDb(progressed, reselected)  BY <2>4, <2>6, <2>9, <2>10, GoalRowQuiet
  <2>12. Onward(progressed, reselected)
    <3>1. Evidenced(progressed)  BY <2>8 DEF Onward
    <3> QED  BY <2>4, <2>6, <2>9, <2>10, <3>1, OnwardRowWritten
  <2>13. DatabaseOK(reselected) /\ Evidenced(reselected)
    BY <2>6, <2>11, <2>12, QuietKeepsDatabase DEF Onward
  <2>14. Onward(reselected, harvested) /\ QuietDb(reselected, harvested)
    <3>1. CASE status \in Live
      <4>1. harvested = reselected  BY <3>1
      <4>2. QuietDb(reselected, reselected)  BY <2>13 DEF DatabaseOK, QuietDb
      <4>3. Onward(reselected, reselected)  BY <2>13, OnwardSame
      <4> QED  BY <4>1, <4>2, <4>3
    <3>2. CASE status \notin Live
      <4>1. harvested = HarvestSupervisorEvidence(reselected, link)  BY <3>2
      <4> HIDE DEF harvested
      <4> QED  BY <2>3, <2>13, <4>1, HarvestOnward, HarvestQuiet
    <3> QED  BY <3>1, <3>2
  <2> HIDE DEF harvested
  <2>15. DatabaseOK(harvested) /\ Evidenced(harvested)
    BY <2>13, <2>14, QuietKeepsDatabase DEF Onward
  <2>16. Onward(harvested, e)  BY <2>4, <2>5, <2>15, RefreshOnward
  <2>17. Onward(d, reselected)  BY <2>8, <2>12, OnwardTransitive
  <2>18. Onward(d, harvested)  BY <2>14, <2>17, OnwardTransitive
  <2> QED  BY <2>16, <2>18, OnwardTransitive
<1> QED  BY <1>1, <1>2

\* the row of a Goal that has selected a TaskRun
Selected(row, r) ==
  [row EXCEPT !.current = r, !.status = IF row.status = "ready_to_close" THEN "active" ELSE row.status]

\* persistRunLinkAndSnapshot selects the TaskRun and wakes the Goal
LEMMA AttachWrites ==
  ASSUME NEW d, DatabaseOK(d), NEW r, NEW link, link \in LinkRows, NEW e, e = Attach(d, r, link)
  PROVE  /\ e.evidence = d.evidence
         /\ \A h \in Goals : e.goals[h] = IF h = link.goal THEN Selected(d.goals[h], r) ELSE d.goals[h]
<1>1. PICK g \in Goals : g = link.goal  BY DEF LinkRows
<1>2. d = [t \in Tables |-> d[t]] /\ d.goals = [h \in Goals |-> d.goals[h]]
      /\ d.goals[g] = [f \in GoalFields |-> d.goals[g][f]]
  BY <1>1 DEF DatabaseOK, GoalsOK, GoalRowOK
<1>3. e.evidence = d.evidence
  <2>1. CASE link.item = 0  BY <1>1, <1>2, <2>1 DEF Attach, Tables, GoalFields
  <2>2. CASE link.item # 0  BY <1>1, <1>2, <2>2 DEF Attach, Tables, GoalFields
  <2> QED  BY <2>1, <2>2
<1>4. e.goals = [d.goals EXCEPT ![g] = Selected(d.goals[g], r)]
  <2>1. CASE link.item = 0  BY <1>1, <1>2, <2>1 DEF Attach, Tables, GoalFields, Selected
  <2>2. CASE link.item # 0  BY <1>1, <1>2, <2>2 DEF Attach, Tables, GoalFields, Selected
  <2> QED  BY <2>1, <2>2
<1>5. PICK row : row = Selected(d.goals[g], r)  OBVIOUS
<1>6. \A h \in Goals : e.goals[h] = IF h = g THEN row ELSE d.goals[h]  BY <1>2, <1>4, <1>5
<1> QED  BY <1>1, <1>3, <1>5, <1>6

\* attachRun
LEMMA AttachOnward ==
  ASSUME NEW d, DatabaseOK(d), Evidenced(d), NEW r \in DOMAIN d.runs, NEW e, e = AttachRun(d, r)
  PROVE  Onward(d, e)
<1>1. CASE LinksFor(d, r) = {}
  <2>1. e = d  BY <1>1 DEF AttachRun
  <2> QED  BY <2>1, OnwardSame
<1>2. CASE LinksFor(d, r) # {}
  <2>1. PICK link \in LinksFor(d, r) : e = Attach(d, r, link)  BY <1>2 DEF AttachRun
  <2>2. link \in LinkRows  BY LinksForOK
  <2>3. PICK g \in Goals : g = link.goal  BY <2>2 DEF LinkRows
  <2>4. d.goals[g] = [f \in GoalFields |-> d.goals[g][f]]  BY DEF DatabaseOK, GoalsOK, GoalRowOK
  <2>5. PICK row : row = Selected(d.goals[g], r)  OBVIOUS
  <2>6. row.status = "completed" => d.goals[g].status = "completed"
    BY <2>4, <2>5 DEF GoalFields, Selected
  <2>7. /\ e.evidence = d.evidence
        /\ \A h \in Goals : e.goals[h] = IF h = link.goal THEN Selected(d.goals[h], r) ELSE d.goals[h]
    BY <2>1, <2>2, AttachWrites
  <2>8. e.evidence = d.evidence /\ \A h \in Goals : e.goals[h] = IF h = g THEN row ELSE d.goals[h]
    BY <2>3, <2>5, <2>7
  <2> QED  BY <2>6, <2>8, OnwardRow
<1> QED  BY <1>1, <1>2

\* claimSessionInboxItem
LEMMA ClaimOnward ==
  ASSUME NEW d, DatabaseOK(d), Evidenced(d), NEW n \in DOMAIN d.inbox, NEW e, e = ClaimItem(d, n)
  PROVE  Onward(d, e)
<1> DEFINE r == Len(d.runs) + 1
           created == [d EXCEPT
               !.runs = Append(@, [status |-> "running", attempt |-> 1, verdict |-> "none",
                                   inbox |-> n, retryable |-> FALSE]),
               !.inbox[n].status = "started",
               !.inbox[n].run = r]
<1>1. DatabaseOK(created) /\ r \in DOMAIN created.runs  BY CreatedKeeps
<1>2. created.evidence = d.evidence /\ created.goals = d.goals  BY DEF DatabaseOK, Tables
<1>3. e = [created EXCEPT !.runs[r].status = "failed"] \/ e = AttachRun(created, r)
  BY DEF ClaimItem
<1> HIDE DEF created, r
<1>4. Onward(d, created)  BY <1>2, OnwardSame
<1>5. Evidenced(created)  BY <1>4 DEF Onward
<1>6. CASE e = [created EXCEPT !.runs[r].status = "failed"]
  <2>1. e.evidence = created.evidence /\ e.goals = created.goals
    BY <1>1, <1>6 DEF DatabaseOK, Tables
  <2> QED  BY <1>2, <2>1, OnwardSame
<1>7. CASE e = AttachRun(created, r)
  <2>1. Onward(created, e)  BY <1>1, <1>5, <1>7, AttachOnward
  <2> QED  BY <1>4, <2>1, OnwardTransitive
<1> QED  BY <1>3, <1>6, <1>7

\* claimNextSessionInbox
LEMMA DispatchOnward ==
  ASSUME NEW d, DatabaseOK(d), Evidenced(d), NEW e \in Dispatch(d)
  PROVE  Onward(d, e)
<1>1. e = d \/ \E n \in Queued(d) : e = ClaimItem(d, n)  BY DEF Dispatch
<1>2. \A n \in Queued(d) : n \in DOMAIN d.inbox  BY DEF Queued
<1>3. Onward(d, d)  BY OnwardSame
<1> QED  BY <1>1, <1>2, <1>3, ClaimOnward

\* a database that is in order, with its evidence, and the way to it
Reached(d, e) == DatabaseOK(e) /\ Onward(d, e)

\* dispatching the Inbox afterwards
LEMMA ReachedDispatch ==
  ASSUME NEW d, NEW x, Reached(d, x), NEW e \in Dispatch(x)
  PROVE  Reached(d, e)
<1>1. DatabaseOK(x) /\ Evidenced(x) /\ Onward(d, x)  BY DEF Reached, Onward
<1>2. DatabaseOK(e) /\ Onward(x, e)  BY <1>1, DispatchKeeps, DispatchOnward
<1>3. Onward(d, e)  BY <1>1, <1>2, OnwardTransitive
<1> QED  BY <1>2, <1>3 DEF Reached

\* recording the outcome of a TaskRun afterwards
LEMMA ReachedRecord ==
  ASSUME NEW d, NEW x, Reached(d, x), NEW r, NEW e, e = RecordRunOutcome(x, r)
  PROVE  Reached(d, e)
<1>1. DatabaseOK(x) /\ Evidenced(x) /\ Onward(d, x)  BY DEF Reached, Onward
<1>2. DatabaseOK(e)  BY <1>1, RecordKeeps
<1>3. Onward(x, e)  BY <1>1, RecordOnward
<1>4. Onward(d, e)  BY <1>1, <1>3, OnwardTransitive
<1> QED  BY <1>2, <1>4 DEF Reached

\* one more request in the Inbox
LEMMA ReachedAppend ==
  ASSUME NEW d, NEW x, Reached(d, x), NEW item, RequestOK(item), NEW e,
         e = [x EXCEPT !.inbox = Append(@, item)]
  PROVE  Reached(d, e)
<1>1. DatabaseOK(x) /\ Evidenced(x) /\ Onward(d, x)  BY DEF Reached, Onward
<1>2. DatabaseOK(e)  BY <1>1, InboxAppended
<1>3. e.evidence = x.evidence /\ e.goals = x.goals  BY <1>1 DEF DatabaseOK, Tables
<1>4. Onward(x, e)  BY <1>1, <1>3, OnwardSame
<1>5. Onward(d, e)  BY <1>1, <1>4, OnwardTransitive
<1> QED  BY <1>2, <1>5 DEF Reached

\* enqueueGoalRoadmapItem
LEMMA ReachedEnqueue ==
  ASSUME NEW d, NEW x, Reached(d, x), NEW item, RequestOK(item), item.road # 0,
         NEW e \in Enqueue(x, item)
  PROVE  Reached(d, e)
<1>1. DatabaseOK(x) /\ Evidenced(x) /\ Onward(d, x)  BY DEF Reached, Onward
<1>2. CASE SameRequest(x, item) # {}
  <2> DEFINE n == CHOOSE m \in SameRequest(x, item) : TRUE
             linked == [x EXCEPT !.inbox[n].linked = TRUE]
  <2>1. n \in SameRequest(x, item)  BY <1>2
  <2>2. n \in DOMAIN x.inbox /\ x.inbox[n].road = item.road  BY <2>1 DEF SameRequest
  <2>3. \/ e \in Dispatch(linked)
        \/ e = x
        \/ x.inbox[n].run # NoRun /\ e = AttachRun(x, x.inbox[n].run)
    BY <1>2 DEF Enqueue
  <2> HIDE DEF n
  <2>4. DatabaseOK(linked)  BY <1>1, <2>2, RelinkedKeeps
  <2>5. linked.evidence = x.evidence /\ linked.goals = x.goals  BY <1>1 DEF DatabaseOK, Tables
  <2> HIDE DEF linked
  <2>6. CASE e \in Dispatch(linked)
    <3>1. Onward(x, linked)  BY <1>1, <2>5, OnwardSame
    <3>2. Onward(d, linked)  BY <1>1, <3>1, OnwardTransitive
    <3>3. Reached(d, linked)  BY <2>4, <3>2 DEF Reached
    <3> QED  BY <2>6, <3>3, ReachedDispatch
  <2>7. CASE x.inbox[n].run # NoRun /\ e = AttachRun(x, x.inbox[n].run)
    <3>1. x.inbox[n].run \in DOMAIN x.runs  BY <1>1, <2>2, <2>7 DEF DatabaseOK, WorkOK
    <3>2. DatabaseOK(e)  BY <1>1, <2>7, <3>1, AttachRunKeeps
    <3>3. Onward(x, e)  BY <1>1, <2>7, <3>1, AttachOnward
    <3>4. Onward(d, e)  BY <1>1, <3>3, OnwardTransitive
    <3> QED  BY <3>2, <3>4 DEF Reached
  <2> QED  BY <2>3, <2>6, <2>7
<1>3. CASE SameRequest(x, item) = {}
  <2> DEFINE more == [x EXCEPT !.inbox = Append(@, item)]
  <2>1. e = x \/ e \in Dispatch(more)  BY <1>3 DEF Enqueue
  <2>2. Reached(d, more)  BY ReachedAppend
  <2> HIDE DEF more
  <2> QED  BY <2>1, <2>2, ReachedDispatch
<1> QED  BY <1>2, <1>3

\* recordWorkspaceGoalRunOutcome
LEMMA ReachedAdvance ==
  ASSUME NEW d, NEW x, Reached(d, x), NEW r, NEW autoStart, NEW e \in RecordAndAdvance(x, r, autoStart)
  PROVE  Reached(d, e)
<1>1. PICK recorded : recorded = RecordRunOutcome(x, r)  OBVIOUS
<1>2. Reached(d, recorded)  BY <1>1, ReachedRecord
<1>3. e = recorded \/ \E item \in Admissions(recorded, r) : e \in Enqueue(recorded, item)
  BY <1>1 DEF RecordAndAdvance
<1>4. ASSUME NEW item \in Admissions(recorded, r), e \in Enqueue(recorded, item)
      PROVE  Reached(d, e)
  <2>1. DatabaseOK(recorded)  BY <1>2 DEF Reached
  <2>2. RequestOK(item) /\ item.road # 0  BY <2>1, AdmissionOK
  <2> QED  BY <1>2, <1>4, <2>2, ReachedEnqueue
<1> QED  BY <1>2, <1>3, <1>4

\* what every step does but the one that closes a Goal
ClosingStep ==
  /\ Onward(db, db')
  /\ Reconciling(mem') => Onward(db', mem'.recovery.tx)

\* a step of the running process
LEMMA ClosingAtWork ==
  ASSUME OwnershipInv, mem.phase # "starting", NEW x, NEW g,
         \/ mem' = mem
         \/ mem' = [mem EXCEPT !.generating[g] = x] \/ mem' = [mem EXCEPT !.finalizing = x]
         \/ mem' = [mem EXCEPT !.kick = x] \/ mem' = [mem EXCEPT !.phase = x],
         Onward(db, db')
  PROVE  ClosingStep
<1>1. PICK m, n : m = mem /\ n = mem'  OBVIOUS
<1>2. RecoveryOK(m, db)  BY <1>1 DEF OwnershipInv
<1>3. ~Reconciling(m)  BY <1>1, <1>2 DEF RecoveryOK
<1>4. CASE n = m  BY <1>1, <1>3, <1>4 DEF ClosingStep
<1>5. CASE n # m
  <2>1. Touches(m, n, g, x)  BY <1>1, <1>5 DEF Touches
  <2>2. n.recovery = m.recovery  BY <1>2, <2>1, MemTouched
  <2>3. ~Reconciling(n)  BY <1>3, <2>2 DEF Reconciling
  <2> QED  BY <1>1, <2>3 DEF ClosingStep
<1> QED  BY <1>4, <1>5

\* a commit of the running process
LEMMA ClosingCommit ==
  ASSUME OwnershipInv, Up, NEW e, Onward(db, e), Commit(e)
  PROVE  ClosingStep
<1>1. db' = e /\ mem' = mem /\ mem.phase # "starting"  BY DEF Commit, Store, Up
<1>2. Onward(db, db')  BY <1>1
<1>3. PICK x, g : x = 0 /\ g = 0  OBVIOUS
<1> QED  BY <1>1, <1>2, <1>3, ClosingAtWork

\* the process starts from an empty memory
LEMMA ClosingFresh ==
  ASSUME mem' = Fresh, Onward(db, db')
  PROVE  ClosingStep
<1>1. ~Reconciling(Fresh)  BY DEF Reconciling, Fresh, Recovered
<1> QED  BY <1>1 DEF ClosingStep

\* the user's decisions that touch no Roadmap and close nothing
LEMMA DecisionOnward ==
  ASSUME OwnershipInv, Evidenced(db), NEW g \in Goals,
         \/ \E def \in Definitions : CreateGoal(g, def) \/ ReviseDefinition(g, def)
         \/ ApproveGoal(g) \/ RequestChange(g)
         \/ PauseGoal(g) \/ ResumeGoal(g) \/ CancelGoal(g)
  PROVE  ClosingStep
<1>1. PICK d : d = db  OBVIOUS
<1>2. DatabaseOK(d) /\ Evidenced(d)  BY <1>1 DEF OwnershipInv
<1>3. d = [t \in Tables |-> d[t]] /\ d.goals = [h \in Goals |-> d.goals[h]]
      /\ d.goals[g] = [f \in GoalFields |-> d.goals[g][f]]
  BY <1>2 DEF DatabaseOK, GoalsOK, GoalRowOK
<1>4. ASSUME NEW row, row.status # "completed", NEW e, e.evidence = d.evidence,
             e.goals = [d.goals EXCEPT ![g] = row]
      PROVE  Onward(d, e)
  <2>1. \A h \in Goals : e.goals[h] = IF h = g THEN row ELSE d.goals[h]  BY <1>3, <1>4
  <2>2. e.evidence = d.evidence  BY <1>4
  <2>3. row.status = "completed" => d.goals[g].status = "completed"  BY <1>4
  <2> QED  BY <1>2, <2>1, <2>2, <2>3, OnwardRow
<1>5. ASSUME NEW e, Onward(d, e), Up, Commit(e)  PROVE ClosingStep
  BY <1>1, <1>5, ClosingCommit
<1>6. ASSUME NEW def \in Definitions, CreateGoal(g, def)
      PROVE  ClosingStep
  <2>1. PICK e : e = [d EXCEPT !.goals[g].status = "draft", !.defs[g] = <<def>>]  OBVIOUS
  <2>2. Up /\ Commit(e)  BY <1>1, <1>6, <2>1 DEF CreateGoal
  <2>3. PICK row : row = [d.goals[g] EXCEPT !.status = "draft"]  OBVIOUS
  <2>4. row.status # "completed"  BY <1>3, <2>3 DEF GoalFields
  <2>5. e.evidence = d.evidence /\ e.goals = [d.goals EXCEPT ![g] = row]
    BY <1>3, <2>1, <2>3 DEF Tables
  <2>6. Onward(d, e)  BY <1>4, <2>4, <2>5
  <2> QED  BY <1>5, <2>2, <2>6
<1>7. ASSUME NEW def \in Definitions, ReviseDefinition(g, def)
      PROVE  ClosingStep
  <2>1. PICK row : row = [d.goals[g] EXCEPT !.status = "draft", !.def = 0, !.road = 0]  OBVIOUS
  <2>2. PICK e : e = [d EXCEPT !.defs[g] = Append(@, def), !.goals[g] = row]  OBVIOUS
  <2>3. Up /\ Commit(e)
    BY <1>1, <1>7, <2>1, <2>2 DEF ReviseDefinition, Revisable, Decidable
  <2>4. row.status # "completed"  BY <1>3, <2>1 DEF GoalFields
  <2>5. e.evidence = d.evidence /\ e.goals = [d.goals EXCEPT ![g] = row]
    BY <1>3, <2>2 DEF Tables
  <2>6. Onward(d, e)  BY <1>4, <2>4, <2>5
  <2> QED  BY <1>5, <2>3, <2>6
<1>8. ASSUME NEW row, row.status # "completed", Up, Commit([d EXCEPT !.goals[g] = row])
      PROVE  ClosingStep
  <2>1. PICK e : e = [d EXCEPT !.goals[g] = row]  OBVIOUS
  <2>2. e.evidence = d.evidence /\ e.goals = [d.goals EXCEPT ![g] = row]  BY <1>3, <2>1 DEF Tables
  <2>3. Onward(d, e)  BY <1>4, <1>8, <2>2
  <2> QED  BY <1>5, <1>8, <2>1, <2>3
<1>9. CASE ApproveGoal(g)
  <2>1. PICK row : row = [d.goals[g] EXCEPT !.status = "active", !.def = Definition(d, g), !.road = 0]
    OBVIOUS
  <2>2. Up /\ Commit([d EXCEPT !.goals[g] = row])
    BY <1>1, <1>9, <2>1 DEF ApproveGoal, Revisable, Decidable
  <2>3. row.status # "completed"  BY <1>3, <2>1 DEF GoalFields
  <2> QED  BY <1>8, <2>2, <2>3
<1>10. CASE RequestChange(g)
  <2>1. PICK row1, row2 :
           /\ row1 = [d.goals[g] EXCEPT !.status = "draft", !.def = 0, !.road = 0]
           /\ row2 = [d.goals[g] EXCEPT
                        !.status = IF d.goals[g].status = "paused" THEN "paused" ELSE "active",
                        !.road = 0]
    OBVIOUS
  <2>2. Up /\ (Commit([d EXCEPT !.goals[g] = row1]) \/ Commit([d EXCEPT !.goals[g] = row2]))
    BY <1>1, <1>10, <2>1 DEF RequestChange, Revisable, Decidable
  <2>3. row1.status # "completed" /\ row2.status # "completed"  BY <1>3, <2>1 DEF GoalFields
  <2> QED  BY <1>8, <2>2, <2>3
<1>11. CASE PauseGoal(g)
  <2>1. PICK row : row = [d.goals[g] EXCEPT !.status = "paused"]  OBVIOUS
  <2>2. Up /\ Commit([d EXCEPT !.goals[g] = row])
    BY <1>1, <1>11, <2>1 DEF PauseGoal, Revisable, Decidable
  <2>3. row.status # "completed"  BY <1>3, <2>1 DEF GoalFields
  <2> QED  BY <1>8, <2>2, <2>3
<1>12. CASE CancelGoal(g)
  <2>1. PICK row : row = [d.goals[g] EXCEPT !.status = "cancelled"]  OBVIOUS
  <2>2. Up /\ Commit([d EXCEPT !.goals[g] = row])
    BY <1>1, <1>12, <2>1 DEF CancelGoal, Revisable, Decidable
  <2>3. row.status # "completed"  BY <1>3, <2>1 DEF GoalFields
  <2> QED  BY <1>8, <2>2, <2>3
<1>13. CASE ResumeGoal(g)
  <2>1. PICK row : row = [d.goals[g] EXCEPT !.status = "active"]  OBVIOUS
  <2>2. PICK x : x = [d EXCEPT !.goals[g] = row]  OBVIOUS
  <2>3. PICK e : e = RefreshReadyStatus(x, g)  OBVIOUS
  <2>4. Up /\ Commit(e)  BY <1>1, <1>13, <2>1, <2>2, <2>3 DEF ResumeGoal
  <2>5. row.status # "completed"  BY <1>3, <2>1 DEF GoalFields
  <2>6. x.evidence = d.evidence /\ x.goals = [d.goals EXCEPT ![g] = row]  BY <1>3, <2>2 DEF Tables
  <2>7. Onward(d, x)  BY <1>4, <2>5, <2>6
  <2>8. GoalRowOK(d.goals[g], d.roads[g])  BY <1>2 DEF DatabaseOK, GoalsOK
  <2>9. GoalRowOK(row, d.roads[g])  BY <2>1, <2>8, GoalRowTouched
  <2>10. QuietDb(d, x)  BY <1>2, <2>2, <2>9, GoalRowQuiet
  <2>11. DatabaseOK(x) /\ Evidenced(x)  BY <1>2, <2>7, <2>10, QuietKeepsDatabase DEF Onward
  <2>12. Onward(x, e)  BY <2>3, <2>11, RefreshOnward
  <2>13. Onward(d, e)  BY <2>7, <2>12, OnwardTransitive
  <2> QED  BY <1>5, <2>4, <2>13
<1> QED  BY <1>6, <1>7, <1>9, <1>10, <1>11, <1>12, <1>13

\* a Roadmap is added
LEMMA AddRoadmapOnward ==
  ASSUME NEW d, DatabaseOK(d), Evidenced(d), NEW g \in Goals, NEW roadmap \in Roadmaps,
         NEW e, e = AddRoadmap(d, g, roadmap)
  PROVE  Onward(d, e)
<1>1. d = [t \in Tables |-> d[t]] /\ d.goals = [h \in Goals |-> d.goals[h]]
      /\ d.goals[g] = [f \in GoalFields |-> d.goals[g][f]]
  BY DEF DatabaseOK, GoalsOK, GoalRowOK
<1>2. PICK s : s = IF Status(d, g) = "ready_to_close" THEN "active" ELSE Status(d, g)  OBVIOUS
<1>3. s = "completed" => d.goals[g].status = "completed"  BY <1>2 DEF Status
<1>4. PICK y : y = [d EXCEPT !.roads[g] = Append(@, roadmap), !.approved[g] = Append(@, {}),
                             !.progress[g] = Append(@, [i \in DOMAIN roadmap |-> Untouched])]
  OBVIOUS
<1>5. y.goals = d.goals /\ y = [t \in Tables |-> y[t]] /\ y.evidence = d.evidence
  BY <1>1, <1>4 DEF Tables
<1>6. e = ColumnsWritten(y, g, s, 0)  BY <1>2, <1>4 DEF AddRoadmap, ColumnsWritten
<1>7. PICK row : row = StatusAndRoad(d.goals[g], s, 0)  OBVIOUS
<1>8. e = RowWritten(y, g, row)
  <2>1. Shaped(y, g)  BY <1>1, <1>5 DEF Shaped
  <2>2. PICK k : k = 0  OBVIOUS
  <2>3. ColumnsWritten(y, g, s, k) = RowWritten(y, g, StatusAndRoad(y.goals[g], s, k))
    BY <2>1, TwoColumns
  <2> QED  BY <1>5, <1>6, <1>7, <2>2, <2>3
<1>9. row.status = "completed" => d.goals[g].status = "completed"
  BY <1>1, <1>3, <1>7 DEF StatusAndRoad, GoalFields
<1>10. e.evidence = d.evidence /\ e.goals = [d.goals EXCEPT ![g] = row]
  BY <1>5, <1>8 DEF RowWritten, Tables
<1>11. \A h \in Goals : e.goals[h] = IF h = g THEN row ELSE d.goals[h]  BY <1>1, <1>10
<1>12. e.evidence = d.evidence  BY <1>10
<1> QED  BY <1>9, <1>11, <1>12, OnwardRow

\* items of a Roadmap are approved
LEMMA ApproveOnward ==
  ASSUME NEW d, DatabaseOK(d), Evidenced(d), NEW g \in Goals, NEW k, NEW items, NEW status,
         status # "completed", NEW e, e = RoadmapApproved(d, g, k, items, status)
  PROVE  Onward(d, e)
<1>1. d = [t \in Tables |-> d[t]] /\ d.goals = [h \in Goals |-> d.goals[h]]
      /\ d.goals[g] = [f \in GoalFields |-> d.goals[g][f]]
  BY DEF DatabaseOK, GoalsOK, GoalRowOK
<1>2. PICK y : y = [d EXCEPT !.approved[g][k] = items]  OBVIOUS
<1>3. y.goals = d.goals /\ y = [t \in Tables |-> y[t]] /\ y.evidence = d.evidence
  BY <1>1, <1>2 DEF Tables
<1>4. e = ColumnsWritten(y, g, status, k)  BY <1>2 DEF RoadmapApproved, ColumnsWritten
<1>5. PICK row : row = StatusAndRoad(d.goals[g], status, k)  OBVIOUS
<1>6. e = RowWritten(y, g, row)
  <2>1. Shaped(y, g)  BY <1>1, <1>3 DEF Shaped
  <2>2. ColumnsWritten(y, g, status, k) = RowWritten(y, g, StatusAndRoad(y.goals[g], status, k))
    BY <2>1, TwoColumns
  <2> QED  BY <1>3, <1>4, <1>5, <2>2
<1>7. row.status # "completed"  BY <1>1, <1>5 DEF StatusAndRoad, GoalFields
<1>8. e.evidence = d.evidence /\ e.goals = [d.goals EXCEPT ![g] = row]
  BY <1>3, <1>6 DEF RowWritten, Tables
<1>9. \A h \in Goals : e.goals[h] = IF h = g THEN row ELSE d.goals[h]  BY <1>1, <1>8
<1>10. e.evidence = d.evidence /\ (row.status = "completed" => d.goals[g].status = "completed")
  BY <1>7, <1>8
<1> QED  BY <1>9, <1>10, OnwardRow

\* a Roadmap is revised, drafted or approved
LEMMA RoadmapOnward ==
  ASSUME OwnershipInv, Evidenced(db), NEW g \in Goals,
         \/ \E roadmap \in Roadmaps : ReviseRoadmap(g, roadmap) \/ FinishGeneration(g, roadmap)
         \/ \E items \in SUBSET ItemIds : ApproveRoadmap(g, items)
         \/ RequestGeneration(g)
  PROVE  ClosingStep
<1>1. PICK d : d = db  OBVIOUS
<1>2. DatabaseOK(d) /\ Evidenced(d)  BY <1>1 DEF OwnershipInv
<1>3. ASSUME NEW x, Onward(d, x), x = [t \in Tables |-> x[t]], NEW s, NEW e, e = [x EXCEPT !.receipt[g] = s]
      PROVE  Onward(d, e)
  <2>1. e.evidence = x.evidence /\ e.goals = x.goals  BY <1>3 DEF Tables
  <2>2. Evidenced(x)  BY <1>3 DEF Onward
  <2>3. Onward(x, e)  BY <2>1, <2>2, OnwardSame
  <2> QED  BY <1>3, <2>3, OnwardTransitive
<1>4. d = [t \in Tables |-> d[t]] /\ Onward(d, d)  BY <1>2, OnwardSame DEF DatabaseOK
<1>5. ASSUME NEW roadmap \in Roadmaps, ReviseRoadmap(g, roadmap)
      PROVE  ClosingStep
  <2>1. PICK e : e = AddRoadmap(d, g, roadmap)  OBVIOUS
  <2>2. Onward(db, e)  BY <1>1, <1>2, <2>1, AddRoadmapOnward
  <2>3. Up /\ Commit(e)  BY <1>1, <1>5, <2>1 DEF ReviseRoadmap, Revisable, Decidable
  <2> QED  BY <2>2, <2>3, ClosingCommit
<1>6. ASSUME NEW roadmap \in Roadmaps, FinishGeneration(g, roadmap)
      PROVE  ClosingStep
  <2>1. PICK x : x = AddRoadmap(d, g, roadmap)  OBVIOUS
  <2>2. DatabaseOK(x) /\ Onward(d, x)  BY <1>2, <2>1, AddRoadmapKeeps, AddRoadmapOnward
  <2>3. PICK e : e = db'  OBVIOUS
  <2>4. PICK good, bad : good = "succeeded" /\ bad = "failed"  OBVIOUS
  <2>5. e = [x EXCEPT !.receipt[g] = good] \/ e = [d EXCEPT !.receipt[g] = bad]
    BY <1>1, <1>6, <2>1, <2>3, <2>4 DEF FinishGeneration, Store
  <2>6. x = [t \in Tables |-> x[t]]  BY <2>2 DEF DatabaseOK
  <2>7. Onward(d, e)
    <3>1. CASE e = [x EXCEPT !.receipt[g] = good]  BY <1>3, <2>2, <2>6, <3>1
    <3>2. CASE e = [d EXCEPT !.receipt[g] = bad]  BY <1>3, <1>4, <3>2
    <3> QED  BY <2>5, <3>1, <3>2
  <2>8. Onward(db, db')  BY <1>1, <2>3, <2>7
  <2>9. mem.phase # "starting" /\ mem' = [mem EXCEPT !.generating[g] = 0]
    BY <1>6 DEF FinishGeneration, AtWork
  <2>10. PICK v : v = 0  OBVIOUS
  <2>11. mem' = [mem EXCEPT !.generating[g] = v]  BY <2>9, <2>10
  <2> QED  BY <2>8, <2>9, <2>11, ClosingAtWork
<1>7. ASSUME NEW items \in SUBSET ItemIds, ApproveRoadmap(g, items)
      PROVE  ClosingStep
  <2>1. PICK k, status : k = Roadmap(d, g)
                         /\ status = IF Status(d, g) = "paused" THEN "paused" ELSE "active"
    OBVIOUS
  <2>2. PICK x : x = RoadmapApproved(d, g, k, items, status)  OBVIOUS
  <2>3. Up /\ k # 0 /\ items \subseteq DOMAIN d.roads[g][k] /\ Commit(RefreshReadyStatus(x, g))
    BY <1>1, <1>7, <2>1, <2>2 DEF ApproveRoadmap, Revisable, Decidable, RoadmapApproved
  <2>4. k \in DOMAIN d.roads[g]
    <3>1. d.goals[g].road \in 0 .. Len(d.roads[g]) /\ d.roads[g] \in Seq(Roadmaps)
      BY <1>2 DEF DatabaseOK, GoalsOK, GoalRowOK, RoadsOK
    <3> QED  BY <2>1, <2>3, <3>1 DEF Roadmap
  <2>5. items \in SUBSET DOMAIN d.roads[g][k]  BY <2>3
  <2>6. DatabaseOK(x)  BY <1>2, <2>2, <2>4, <2>5, ApproveKeeps
  <2>7. status # "completed"  BY <2>1
  <2>8. Onward(d, x)  BY <1>2, <2>2, <2>7, ApproveOnward
  <2>9. PICK e : e = RefreshReadyStatus(x, g)  OBVIOUS
  <2>10. Evidenced(x)  BY <2>8 DEF Onward
  <2>11. Onward(x, e)  BY <2>6, <2>9, <2>10, RefreshOnward
  <2>12. Onward(db, e)  BY <1>1, <2>8, <2>11, OnwardTransitive
  <2> QED  BY <2>3, <2>9, <2>12, ClosingCommit
<1>8. CASE RequestGeneration(g)
  <2>1. PICK e : e = db'  OBVIOUS
  <2>2. \E x : e = [d EXCEPT !.receipt[g] = x]
    BY <1>1, <1>8, <2>1 DEF RequestGeneration, Store
  <2>3. PICK x : e = [d EXCEPT !.receipt[g] = x]  BY <2>2
  <2>4. Onward(d, e)  BY <1>3, <1>4, <2>3
  <2>5. Onward(db, db')  BY <1>1, <2>1, <2>4
  <2>6. PICK v : v = db.goals[g].def  OBVIOUS
  <2>7. mem.phase # "starting" /\ (mem' = mem \/ mem' = [mem EXCEPT !.generating[g] = v])
    BY <1>8, <2>6 DEF RequestGeneration, Up
  <2> QED  BY <2>5, <2>7, ClosingAtWork
<1> QED  BY <1>5, <1>6, <1>7, <1>8

\* nothing has happened yet
LEMMA ReachedHere ==
  ASSUME OwnershipInv, Evidenced(db), NEW d, d = db
  PROVE  Reached(d, d)
<1>1. DatabaseOK(d) /\ Evidenced(d)  BY DEF OwnershipInv
<1> QED  BY <1>1, OnwardSame DEF Reached

\* the user starts work: a Roadmap item, a TaskRun of his own, a queued item at once
LEMMA StartOnward ==
  ASSUME OwnershipInv, Evidenced(db),
         \/ \E g \in Goals, i \in ItemIds : StartItem(g, i) \/ CrashBeforeLink(g, i)
         \/ StartPlain
         \/ \E n \in 1 .. MaxInbox : ClaimNow(n)
  PROVE  ClosingStep
<1>1. PICK d : d = db  OBVIOUS
<1>2. DatabaseOK(d) /\ Evidenced(d)  BY <1>1 DEF OwnershipInv
<1>3. Reached(d, d)  BY <1>1, ReachedHere
<1>4. ASSUME NEW e, Reached(d, e), Up, Commit(e)  PROVE ClosingStep
  <2>1. Onward(db, e)  BY <1>1, <1>4 DEF Reached
  <2> QED  BY <1>4, <2>1, ClosingCommit
<1>5. ASSUME NEW g \in Goals, NEW i \in ItemIds, StartItem(g, i)
      PROVE  ClosingStep
  <2>1. PICK item : item = NewItem(d, g, i, FALSE)  OBVIOUS
  <2>2. Up /\ MayStart(d, g, i)  BY <1>1, <1>5 DEF StartItem
  <2>3. PICK e \in Enqueue(d, item) : Commit(e)  BY <1>1, <1>5, <2>1 DEF StartItem
  <2>4. RequestOK(item)  BY <1>2, <2>1, <2>2, NewItemOK
  <2>5. item.road # 0  BY <1>2, <2>1, <2>2, MayStartItem DEF NewItem
  <2>6. Reached(d, e)  BY <1>3, <2>4, <2>5, ReachedEnqueue
  <2> QED  BY <1>4, <2>2, <2>3, <2>6
<1>6. ASSUME NEW g \in Goals, NEW i \in ItemIds, CrashBeforeLink(g, i)
      PROVE  ClosingStep
  <2>1. PICK item : item = [NewItem(d, g, i, FALSE) EXCEPT !.linked = FALSE]  OBVIOUS
  <2>2. PICK e : e = [d EXCEPT !.inbox = Append(@, item)]  OBVIOUS
  <2>3. MayStart(d, g, i) /\ db' = e /\ mem' = Fresh
    BY <1>1, <1>6, <2>1, <2>2 DEF CrashBeforeLink, Store
  <2>4. RequestOK(item)  BY <1>2, <2>1, <2>3, NewItemOK
  <2>5. Reached(d, e)  BY <1>3, <2>2, <2>4, ReachedAppend
  <2>6. Onward(db, db')  BY <1>1, <2>3, <2>5 DEF Reached
  <2> QED  BY <2>3, <2>6, ClosingFresh
<1>7. CASE StartPlain
  <2>1. PICK item : item = [goal |-> 0, def |-> 0, road |-> 0, item |-> 0, auto |-> FALSE,
                            linked |-> FALSE, status |-> "queued", run |-> NoRun]
    OBVIOUS
  <2>2. PICK x : x = [d EXCEPT !.inbox = Append(@, item)]  OBVIOUS
  <2>3. Up /\ \E e \in Dispatch(x) : Commit(e)  BY <1>1, <1>7, <2>1, <2>2 DEF StartPlain
  <2>4. PICK e \in Dispatch(x) : Commit(e)  BY <2>3
  <2>5. RequestOK(item)  BY <2>1 DEF RequestOK, InboxRows, NoRun
  <2>6. Reached(d, x)  BY <1>3, <2>2, <2>5, ReachedAppend
  <2>7. Reached(d, e)  BY <2>6, ReachedDispatch
  <2> QED  BY <1>4, <2>3, <2>4, <2>7
<1>8. ASSUME NEW n, ClaimNow(n)
      PROVE  ClosingStep
  <2>1. PICK e : e = ClaimItem(d, n)  OBVIOUS
  <2>2. Up /\ n \in DOMAIN d.inbox /\ Commit(e)  BY <1>1, <1>8, <2>1 DEF ClaimNow, Queued
  <2>3. Onward(d, e)  BY <1>2, <2>1, <2>2, ClaimOnward
  <2>4. Onward(db, e)  BY <1>1, <2>3
  <2> QED  BY <2>2, <2>4, ClosingCommit
<1> QED  BY <1>5, <1>6, <1>7, <1>8

\* writing columns of a TaskRun
LEMMA ReachedRun ==
  ASSUME NEW d, DatabaseOK(d), Evidenced(d), NEW r \in DOMAIN d.runs, NEW e, RunWritten(d, r, e)
  PROVE  Reached(d, e)
<1>1. DatabaseOK(e)  BY RunColumns
<1>2. d = [t \in Tables |-> d[t]]  BY DEF DatabaseOK
<1>3. e.evidence = d.evidence /\ e.goals = d.goals
  <2>1. ASSUME NEW s, e = [d EXCEPT !.runs[r].status = s]
        PROVE  e.evidence = d.evidence /\ e.goals = d.goals
    BY <1>2, <2>1 DEF Tables
  <2>2. ASSUME NEW s, NEW v, e = [d EXCEPT !.runs[r].status = s, !.runs[r].verdict = v]
        PROVE  e.evidence = d.evidence /\ e.goals = d.goals
    BY <1>2, <2>2 DEF Tables
  <2>3. ASSUME NEW s, NEW b, e = [d EXCEPT !.runs[r].status = s, !.runs[r].retryable = b]
        PROVE  e.evidence = d.evidence /\ e.goals = d.goals
    BY <1>2, <2>3 DEF Tables
  <2>4. CASE e = Restarted(d, r)  BY <1>2, <2>4 DEF Tables, Restarted
  <2> QED  BY <2>1, <2>2, <2>3, <2>4 DEF RunWritten
<1>4. Onward(d, e)  BY <1>3, OnwardSame
<1> QED  BY <1>1, <1>4 DEF Reached

\* an Attempt ends or starts again
LEMMA AttemptOnward ==
  ASSUME OwnershipInv, Evidenced(db), NEW r,
         \/ \E status \in RunStatuses, judged \in {"none", "covered", "contradicted"} :
               Settle(r, status, judged)
         \/ \E retryable \in BOOLEAN : FailLaunch(r, retryable)
         \/ ResumeStopped(r) \/ ContinueRun(r) \/ RetryInboxLaunch(r)
         \/ CancelRun(r) \/ RequireApproval(r)
  PROVE  ClosingStep
<1>1. PICK d : d = db  OBVIOUS
<1>2. DatabaseOK(d) /\ Evidenced(d)  BY <1>1 DEF OwnershipInv
<1>3. PICK running, blocked, cancelled, lost \in RunStatuses :
         /\ running = "running" /\ blocked = "blocked" /\ cancelled = "cancelled"
         /\ lost = "failed"
  BY DEF RunStatuses
<1>4. ASSUME NEW e, Reached(d, e), Up, Commit(e)  PROVE ClosingStep
  <2>1. Onward(db, e)  BY <1>1, <1>4 DEF Reached
  <2> QED  BY <1>4, <2>1, ClosingCommit
<1>5. ASSUME NEW e, Reached(d, e), db' = e, mem.phase # "starting",
             NEW x, mem' = [mem EXCEPT !.finalizing = x] \/ mem' = [mem EXCEPT !.kick = x]
      PROVE  ClosingStep
  <2>1. Onward(db, db')  BY <1>1, <1>5 DEF Reached
  <2>2. PICK g : g = 0  OBVIOUS
  <2> QED  BY <1>5, <2>1, <2>2, ClosingAtWork
<1>6. ASSUME NEW status \in RunStatuses, NEW judged \in {"none", "covered", "contradicted"},
             Settle(r, status, judged)
      PROVE  ClosingStep
  <2>1. PICK e : e = [d EXCEPT !.runs[r].status = status, !.runs[r].verdict = judged]  OBVIOUS
  <2>2. r \in DOMAIN d.runs /\ db' = e /\ mem.phase # "starting"
        /\ mem' = [mem EXCEPT !.finalizing = @ \cup {r}]
    BY <1>1, <1>6, <2>1 DEF Settle, Store, AtWork
  <2>3. RunWritten(d, r, e)  BY <2>1 DEF RunWritten
  <2>4. Reached(d, e)  BY <1>2, <2>2, <2>3, ReachedRun
  <2>5. PICK x : x = mem.finalizing \cup {r}  OBVIOUS
  <2>6. mem' = [mem EXCEPT !.finalizing = x]  BY <2>2, <2>5
  <2> QED  BY <1>5, <2>2, <2>4, <2>6
<1>7. ASSUME NEW retryable \in BOOLEAN, FailLaunch(r, retryable)
      PROVE  ClosingStep
  <2>1. PICK y : y = [d EXCEPT !.runs[r].status = lost, !.runs[r].retryable = retryable]  OBVIOUS
  <2>2. PICK e : e = RecordRunOutcome(y, r)  OBVIOUS
  <2>3. r \in DOMAIN d.runs /\ db' = e /\ mem.phase # "starting"
        /\ mem' = [mem EXCEPT !.kick = TRUE]
    BY <1>1, <1>3, <1>7, <2>1, <2>2 DEF FailLaunch, Store, Up
  <2>4. RunWritten(d, r, y)  BY <2>1 DEF RunWritten
  <2>5. Reached(d, y)  BY <1>2, <2>3, <2>4, ReachedRun
  <2>6. Reached(d, e)  BY <2>2, <2>5, ReachedRecord
  <2>7. PICK x : x = TRUE  OBVIOUS
  <2>8. mem' = [mem EXCEPT !.kick = x]  BY <2>3, <2>7
  <2> QED  BY <1>5, <2>3, <2>6, <2>8
<1>8. CASE ResumeStopped(r) \/ RetryInboxLaunch(r)
  <2>1. PICK e : e = Restarted(d, r)  OBVIOUS
  <2>2. r \in DOMAIN d.runs /\ Up /\ Commit(e)
    BY <1>1, <1>8, <2>1 DEF ResumeStopped, RetryInboxLaunch, MayRestart
  <2>3. RunWritten(d, r, e)  BY <2>1 DEF RunWritten
  <2>4. Reached(d, e)  BY <1>2, <2>2, <2>3, ReachedRun
  <2> QED  BY <1>4, <2>2, <2>4
<1>9. CASE ContinueRun(r)
  <2>1. PICK y : y = Restarted(d, r)  OBVIOUS
  <2>2. PICK e : e = RecordRunOutcome(y, r)  OBVIOUS
  <2>3. r \in DOMAIN d.runs /\ Up /\ Commit(e)
    BY <1>1, <1>9, <2>1, <2>2 DEF ContinueRun, MayRestart
  <2>4. RunWritten(d, r, y)  BY <2>1 DEF RunWritten
  <2>5. Reached(d, y)  BY <1>2, <2>3, <2>4, ReachedRun
  <2>6. Reached(d, e)  BY <2>2, <2>5, ReachedRecord
  <2> QED  BY <1>4, <2>3, <2>6
<1>10. CASE CancelRun(r)
  <2>1. PICK e : e = [d EXCEPT !.runs[r].status = cancelled]  OBVIOUS
  <2>2. r \in DOMAIN d.runs /\ Up /\ Commit(e)
    BY <1>1, <1>3, <1>10, <2>1 DEF CancelRun
  <2>3. RunWritten(d, r, e)  BY <2>1 DEF RunWritten
  <2>4. Reached(d, e)  BY <1>2, <2>2, <2>3, ReachedRun
  <2> QED  BY <1>4, <2>2, <2>4
<1>11. CASE RequireApproval(r)
  <2>1. PICK y : y = [d EXCEPT !.runs[r].status = blocked]  OBVIOUS
  <2>2. PICK e : e = RecordRunOutcome(y, r)  OBVIOUS
  <2>3. r \in DOMAIN d.runs /\ Up /\ Commit(e)
    BY <1>1, <1>3, <1>11, <2>1, <2>2 DEF RequireApproval
  <2>4. RunWritten(d, r, y)  BY <2>1 DEF RunWritten
  <2>5. Reached(d, y)  BY <1>2, <2>3, <2>4, ReachedRun
  <2>6. Reached(d, e)  BY <2>2, <2>5, ReachedRecord
  <2> QED  BY <1>4, <2>3, <2>6
<1> QED  BY <1>6, <1>7, <1>8, <1>9, <1>10, <1>11

\* an outcome is recorded and the Goal advances
LEMMA AdvanceOnward ==
  ASSUME OwnershipInv, Evidenced(db), NEW r,
         FinalizeAttempt(r) \/ AcceptCompletion(r) \/ CrashDuringAdvance(r)
  PROVE  ClosingStep
<1>1. PICK d : d = db  OBVIOUS
<1>2. DatabaseOK(d) /\ Evidenced(d)  BY <1>1 DEF OwnershipInv
<1>3. Reached(d, d)  BY <1>1, ReachedHere
<1>4. CASE FinalizeAttempt(r)
  <2>1. PICK up : up = Up  OBVIOUS
  <2>2. PICK x \in RecordAndAdvance(d, r, up) : \E e \in (IF Up THEN Dispatch(x) ELSE {x}) : Store(e)
    BY <1>1, <1>4, <2>1 DEF FinalizeAttempt
  <2>3. PICK e \in (IF Up THEN Dispatch(x) ELSE {x}) : Store(e)  BY <2>2
  <2>4. db' = e /\ (e \in Dispatch(x) \/ e = x)  BY <2>3 DEF Store
  <2>5. Reached(d, x)  BY <1>3, <2>2, ReachedAdvance
  <2>6. Reached(d, e)  BY <2>4, <2>5, ReachedDispatch
  <2>7. mem.phase # "starting" /\ mem' = [mem EXCEPT !.finalizing = @ \ {r}]
    BY <1>4 DEF FinalizeAttempt, AtWork
  <2>8. PICK y, g : y = mem.finalizing \ {r} /\ g = 0  OBVIOUS
  <2>9. mem' = [mem EXCEPT !.finalizing = y]  BY <2>7, <2>8
  <2>10. Onward(db, db')  BY <1>1, <2>4, <2>6 DEF Reached
  <2> QED  BY <2>7, <2>9, <2>10, ClosingAtWork
<1>5. CASE AcceptCompletion(r)
  <2>1. PICK completed \in RunStatuses : completed = "completed"  BY DEF RunStatuses
  <2>2. PICK y, yes : y = [d EXCEPT !.runs[r].status = completed] /\ yes = TRUE  OBVIOUS
  <2>3. Up /\ r \in DOMAIN d.runs
        /\ \E x \in RecordAndAdvance(y, r, yes) : \E e \in Dispatch(x) : Commit(e)
    BY <1>1, <1>5, <2>1, <2>2 DEF AcceptCompletion
  <2>4. PICK x \in RecordAndAdvance(y, r, yes) : \E e \in Dispatch(x) : Commit(e)  BY <2>3
  <2>5. PICK e \in Dispatch(x) : Commit(e)  BY <2>4
  <2>6. RunWritten(d, r, y)  BY <2>2 DEF RunWritten
  <2>7. Reached(d, y)  BY <1>2, <2>3, <2>6, ReachedRun
  <2>8. Reached(d, x)  BY <2>4, <2>7, ReachedAdvance
  <2>9. Reached(d, e)  BY <2>5, <2>8, ReachedDispatch
  <2>10. Onward(db, e)  BY <1>1, <2>9 DEF Reached
  <2> QED  BY <2>3, <2>5, <2>10, ClosingCommit
<1>6. CASE CrashDuringAdvance(r)
  <2>1. PICK y : y = RecordRunOutcome(d, r)  OBVIOUS
  <2>2. mem' = Fresh
        /\ \E item \in Admissions(y, r) :
              Store([y EXCEPT !.inbox = Append(@, [item EXCEPT !.linked = FALSE])])
    BY <1>1, <1>6, <2>1 DEF CrashDuringAdvance
  <2>3. PICK item \in Admissions(y, r) :
              Store([y EXCEPT !.inbox = Append(@, [item EXCEPT !.linked = FALSE])])
    BY <2>2
  <2>4. PICK row : row = [item EXCEPT !.linked = FALSE]  OBVIOUS
  <2>5. PICK e : e = [y EXCEPT !.inbox = Append(@, row)]  OBVIOUS
  <2>6. db' = e  BY <2>3, <2>4, <2>5 DEF Store
  <2>7. Reached(d, y)  BY <1>3, <2>1, ReachedRecord
  <2>8. DatabaseOK(y)  BY <2>7 DEF Reached
  <2>9. RequestOK(row)  BY <2>4, <2>8, AdmissionOK
  <2>10. Reached(d, e)  BY <2>5, <2>7, <2>9, ReachedAppend
  <2>11. Onward(db, db')  BY <1>1, <2>6, <2>10 DEF Reached
  <2> QED  BY <2>2, <2>11, ClosingFresh
<1> QED  BY <1>4, <1>5, <1>6

\* the process shuts down, ends, or starts again
LEMMA ProcessOnward ==
  ASSUME OwnershipInv, Evidenced(db), Reconciling(mem) => Onward(db, mem.recovery.tx),
         BeginShutdown \/ CrashCore \/ StartCore \/ DispatchLater
  PROVE  ClosingStep
<1>1. PICK d, m : d = db /\ m = mem  OBVIOUS
<1>2. DatabaseOK(d) /\ Evidenced(d) /\ RecoveryOK(m, d)  BY <1>1 DEF OwnershipInv
<1>3. Onward(d, d)  BY <1>2, OnwardSame
<1>4. CASE BeginShutdown
  <2>1. PICK x, g : x = "closing" /\ g = 0  OBVIOUS
  <2>2. mem.phase # "starting" /\ mem' = [mem EXCEPT !.phase = x] /\ db' = db
    BY <1>4, <2>1 DEF BeginShutdown, Store, Up
  <2>3. Onward(db, db')  BY <1>1, <1>3, <2>2
  <2> QED  BY <2>2, <2>3, ClosingAtWork
<1>5. CASE CrashCore
  <2>1. mem' = Fresh /\ db' = db  BY <1>5 DEF CrashCore, Store
  <2>2. Onward(db, db')  BY <1>1, <1>3, <2>1
  <2> QED  BY <2>1, <2>2, ClosingFresh
<1>6. CASE DispatchLater
  <2>1. PICK e \in (IF Up THEN Dispatch(d) ELSE {d}) : Store(e)  BY <1>1, <1>6 DEF DispatchLater
  <2>2. db' = e  BY <2>1 DEF Store
  <2>3. mem' = [mem EXCEPT !.kick = FALSE]  BY <1>6 DEF DispatchLater
  <2>4. PICK x, g : x = FALSE /\ g = 0  OBVIOUS
  <2>5. mem' = [mem EXCEPT !.kick = x]  BY <2>3, <2>4
  <2>6. CASE Up
    <3>1. e \in Dispatch(d)  BY <2>1, <2>6
    <3>2. Onward(d, e)  BY <1>2, <3>1, DispatchOnward
    <3>3. Onward(db, db') /\ mem.phase # "starting"  BY <1>1, <2>2, <2>6, <3>2 DEF Up
    <3> QED  BY <2>5, <3>3, ClosingAtWork
  <2>7. CASE ~Up
    <3>1. db' = db  BY <1>1, <2>1, <2>2, <2>7
    <3>2. PICK n : n = mem'  OBVIOUS
    <3>3. Touches(m, n, NoRun, x)  BY <1>1, <2>5, <3>2 DEF Touches
    <3>4. n.recovery = m.recovery  BY <1>2, <3>3, MemTouched
    <3>5. Reconciling(n) => Onward(d, n.recovery.tx)  BY <1>1, <3>4 DEF Reconciling
    <3> QED  BY <1>1, <1>3, <3>1, <3>2, <3>5 DEF ClosingStep
  <2> QED  BY <2>6, <2>7
<1>7. CASE StartCore
  <2>1. PICK notes : notes = [g \in Goals |-> IF d.receipt[g] = "started"
                                                  THEN "outcome_unknown" ELSE d.receipt[g]]
    OBVIOUS
  <2>2. PICK e : e = OpenedWith(d, notes)  OBVIOUS
  <2>3. PICK rec : rec = [Recovered EXCEPT !.stage = "attach", !.tx = e, !.missing = MissingRuns(e)]
    OBVIOUS
  <2>4. db' = e /\ mem' = [mem EXCEPT !.phase = "starting", !.recovery = rec]
    BY <1>1, <1>7, <2>1, <2>2, <2>3 DEF StartCore, Store, Interrupted, OpenedWith
  <2>5. e.evidence = d.evidence /\ e.goals = d.goals
    <3>1. PICK runs : runs = Interrupted(d.runs)  OBVIOUS
    <3> QED  BY <1>2, <2>2, <3>1 DEF DatabaseOK, Tables, OpenedWith
  <2>6. Onward(d, e)  BY <1>2, <2>5, OnwardSame
  <2>7. Evidenced(e)  BY <2>6 DEF Onward
  <2>8. Onward(e, e)  BY <2>7, OnwardSame
  <2>9. PICK n : n = mem'  OBVIOUS
  <2>10. m = [f \in MemFields |-> m[f]]  BY <1>2 DEF RecoveryOK
  <2>11. n.recovery = rec
    <3>1. n = [m EXCEPT !.phase = "starting", !.recovery = rec]  BY <1>1, <2>4, <2>9
    <3> QED  BY <2>10, <3>1 DEF MemFields
  <2>12. rec.tx = e  BY <2>3 DEF Recovered
  <2>13. Onward(e, n.recovery.tx)  BY <2>8, <2>11, <2>12
  <2> QED  BY <1>1, <2>4, <2>6, <2>9, <2>13 DEF ClosingStep
<1> QED  BY <1>4, <1>5, <1>6, <1>7

\* the transaction of reconcileRunState moves on from the committed database
LEMMA ReconcileOnward ==
  ASSUME OwnershipInv, Evidenced(db), Reconciling(mem) => Onward(db, mem.recovery.tx),
         AttachMissing \/ ListLinked \/ ReplayOutcome
  PROVE  ClosingStep
<1>1. PICK d, m, n : d = db /\ m = mem /\ n = mem'  OBVIOUS
<1>2. DatabaseOK(d) /\ Evidenced(d) /\ RecoveryOK(m, d)  BY <1>1 DEF OwnershipInv
<1>3. Onward(d, d)  BY <1>2, OnwardSame
<1>4. db' = db  BY DEF AttachMissing, ListLinked, ReplayOutcome, Store
<1>5. Reconciling(m)  BY <1>1 DEF AttachMissing, ListLinked, ReplayOutcome, Reconciling
<1>6. PICK rec, tx : rec = m.recovery /\ tx = rec.tx  OBVIOUS
<1>7. rec = [f \in RecoveryFields |-> rec[f]] /\ DatabaseOK(tx)
      /\ (rec.stage = "attach" => rec.missing \subseteq DOMAIN tx.runs)
  BY <1>2, <1>5, <1>6 DEF RecoveryOK
<1>8. Onward(d, tx) /\ Evidenced(tx)  BY <1>1, <1>5, <1>6 DEF Onward
<1>9. ASSUME NEW new, Onward(d, new.tx), n = [m EXCEPT !.recovery = new]
      PROVE  ClosingStep
  <2>1. n.recovery = new  BY <1>2, <1>9, RecoveryTouched
  <2>2. Onward(d, n.recovery.tx)  BY <1>9, <2>1
  <2> QED  BY <1>1, <1>3, <1>4, <2>2 DEF ClosingStep
<1>10. CASE AttachMissing
  <2> DEFINE r == CHOOSE x \in rec.missing :
                     \A y \in rec.missing : rec.tx.runs[x].inbox <= rec.tx.runs[y].inbox
             repaired == IF LinksFor(rec.tx, r) = {} THEN rec.repaired ELSE Append(rec.repaired, r)
  <2>1. rec.stage = "attach" /\ rec.missing # {}  BY <1>1, <1>6, <1>10 DEF AttachMissing
  <2>2. r \in rec.missing  BY <1>6, <1>7, <2>1, OldestMissing
  <2>3. n = [m EXCEPT !.recovery = [rec EXCEPT !.missing = rec.missing \ {r},
                          !.tx = AttachRun(rec.tx, r), !.repaired = repaired]]
    BY <1>1, <1>6, <1>10 DEF AttachMissing
  <2> HIDE DEF r, repaired
  <2>4. r \in DOMAIN tx.runs  BY <1>7, <2>1, <2>2
  <2>5. PICK e : e = AttachRun(tx, r)  OBVIOUS
  <2>6. Onward(tx, e)  BY <1>7, <1>8, <2>4, <2>5, AttachOnward
  <2>7. PICK new : new = [rec EXCEPT !.missing = rec.missing \ {r}, !.tx = e, !.repaired = repaired]
    OBVIOUS
  <2>8. new.tx = e  BY <1>7, <2>7 DEF RecoveryFields
  <2>9. Onward(d, new.tx)  BY <1>8, <2>6, <2>8, OnwardTransitive
  <2>10. n = [m EXCEPT !.recovery = new]  BY <1>6, <2>3, <2>5, <2>7
  <2> QED  BY <1>9, <2>9, <2>10
<1>11. CASE ListLinked
  <2>1. PICK todo : todo = [l \in DOMAIN rec.tx.links |-> rec.tx.links[l].run]  OBVIOUS
  <2>2. PICK new : new = [rec EXCEPT !.stage = "record", !.todo = todo]  OBVIOUS
  <2>3. n = [m EXCEPT !.recovery = new]  BY <1>1, <1>6, <1>11, <2>1, <2>2 DEF ListLinked
  <2>4. new.tx = tx  BY <1>6, <1>7, <2>2 DEF RecoveryFields
  <2> QED  BY <1>8, <1>9, <2>3, <2>4
<1>12. CASE ReplayOutcome
  <2>1. PICK r : r = Head(rec.todo)  OBVIOUS
  <2>2. PICK todo, e, repaired : /\ todo = Tail(rec.todo) /\ e = RecordRunOutcome(tx, r)
                                 /\ repaired = IF r \in Range(rec.repaired) THEN rec.repaired
                                               ELSE Append(rec.repaired, r)
    OBVIOUS
  <2>3. PICK new : new = [rec EXCEPT !.todo = todo, !.tx = e, !.repaired = repaired]  OBVIOUS
  <2>4. n = [m EXCEPT !.recovery = new]
    BY <1>1, <1>6, <1>12, <2>1, <2>2, <2>3 DEF ReplayOutcome
  <2>5. new.tx = e  BY <1>7, <2>3 DEF RecoveryFields
  <2>6. Onward(tx, e)  BY <1>7, <1>8, <2>2, RecordOnward
  <2>7. Onward(d, new.tx)  BY <1>8, <2>5, <2>6, OnwardTransitive
  <2> QED  BY <1>9, <2>4, <2>7
<1> QED  BY <1>10, <1>11, <1>12

\* the end of startup
LEMMA CommittedOnward ==
  ASSUME OwnershipInv, Evidenced(db), Reconciling(mem) => Onward(db, mem.recovery.tx),
         ReconcileCommits \/ AdvanceReconciled \/ StartDone
  PROVE  ClosingStep
<1>1. PICK d, m, n : d = db /\ m = mem /\ n = mem'  OBVIOUS
<1>2. DatabaseOK(d) /\ Evidenced(d) /\ RecoveryOK(m, d)  BY <1>1 DEF OwnershipInv
<1>3. PICK rec : rec = m.recovery  OBVIOUS
<1>4. rec = [f \in RecoveryFields |-> rec[f]]  BY <1>2, <1>3 DEF RecoveryOK
<1>5. Reached(d, d)  BY <1>1, ReachedHere
<1>6. ASSUME NEW new, new.stage \in {"none", "advance"}, n.recovery = new, Onward(d, db')
      PROVE  ClosingStep
  <2>1. ~Reconciling(n)  BY <1>6 DEF Reconciling
  <2> QED  BY <1>1, <1>6, <2>1 DEF ClosingStep
<1>7. CASE ReconcileCommits
  <2>1. PICK todo : todo = rec.repaired  OBVIOUS
  <2>2. PICK new : new = [Recovered EXCEPT !.stage = "advance", !.todo = todo]  OBVIOUS
  <2>3. n = [m EXCEPT !.recovery = new] /\ db' = rec.tx /\ rec.stage = "record"
    BY <1>1, <1>3, <1>7, <2>1, <2>2 DEF ReconcileCommits, Store
  <2>4. new.stage \in {"none", "advance"}  BY <2>2 DEF Recovered
  <2>5. n.recovery = new  BY <1>2, <2>3, RecoveryTouched
  <2>6. Onward(d, rec.tx)  BY <1>1, <1>3, <2>3 DEF Reconciling
  <2> QED  BY <1>6, <2>3, <2>4, <2>5, <2>6
<1>8. CASE AdvanceReconciled
  <2>1. PICK todo, r : todo = Tail(rec.todo) /\ r = Head(rec.todo)  OBVIOUS
  <2>2. PICK new : new = [rec EXCEPT !.todo = todo]  OBVIOUS
  <2>3. n = [m EXCEPT !.recovery = new] /\ rec.stage = "advance"
    BY <1>1, <1>3, <1>8, <2>1, <2>2 DEF AdvanceReconciled
  <2>4. new.stage \in {"none", "advance"}  BY <1>4, <2>2, <2>3 DEF RecoveryFields
  <2>5. n.recovery = new  BY <1>2, <2>3, RecoveryTouched
  <2>6. PICK autoStart : autoStart = TRUE  OBVIOUS
  <2>7. PICK e \in RecordAndAdvance(d, r, autoStart) : db' = e
    BY <1>1, <1>3, <1>8, <2>1, <2>6 DEF AdvanceReconciled, Store
  <2>8. Reached(d, e)  BY <1>5, <2>7, ReachedAdvance
  <2>9. Onward(d, db')  BY <2>7, <2>8 DEF Reached
  <2> QED  BY <1>6, <2>4, <2>5, <2>9
<1>9. CASE StartDone
  <2>1. PICK e \in Dispatch(d) : db' = e  BY <1>1, <1>9 DEF StartDone, Store
  <2>2. Onward(d, e)  BY <1>2, <2>1, DispatchOnward
  <2>3. n = [m EXCEPT !.phase = "up", !.recovery = Recovered]  BY <1>1, <1>9 DEF StartDone
  <2>4. m = [f \in MemFields |-> m[f]]  BY <1>2 DEF RecoveryOK
  <2>5. n.recovery = Recovered  BY <2>3, <2>4 DEF MemFields
  <2>6. Recovered.stage \in {"none", "advance"}  BY DEF Recovered
  <2>7. Onward(d, db')  BY <2>1, <2>2
  <2> QED  BY <1>6, <2>5, <2>6, <2>7
<1> QED  BY <1>7, <1>8, <1>9

\* what the history keeps of a step
Remembered ==
  heard' = [g \in Goals |->
              heard[g] \cup {e \in db'.evidence[g] : \A o \in heard[g] : ~SameSource(e, o)}]

\* every write of the database goes through the history
LEMMA StoreRemembers ==
  ASSUME NEW e, Store(e)
  PROVE  Remembered
  BY DEF Store, Remembered

\* every step writes the database that way
LEMMA StepRemembers ==
  ASSUME GoalsNext
  PROVE  Remembered
<1>1. ASSUME NEW g \in Goals, Decide(g)  PROVE \E e : Store(e)
  <2>1. ASSUME NEW def, CreateGoal(g, def) \/ ReviseDefinition(g, def)  PROVE \E e : Store(e)
    BY <2>1 DEF CreateGoal, ReviseDefinition, Commit
  <2>2. ASSUME NEW roadmap, ReviseRoadmap(g, roadmap) \/ FinishGeneration(g, roadmap)
        PROVE  \E e : Store(e)
    BY <2>2 DEF ReviseRoadmap, FinishGeneration, Commit
  <2>3. ASSUME NEW items, ApproveRoadmap(g, items)  PROVE \E e : Store(e)
    BY <2>3 DEF ApproveRoadmap, Commit
  <2>4. CASE ApproveGoal(g) \/ RequestChange(g) \/ PauseGoal(g) \/ ResumeGoal(g) \/ CancelGoal(g)
             \/ CloseGoal(g) \/ RequestGeneration(g)
    BY <2>4 DEF ApproveGoal, RequestChange, PauseGoal, ResumeGoal, CancelGoal, CloseGoal,
                RequestGeneration, Commit
  <2>5. ASSUME NEW i, StartItem(g, i) \/ CrashBeforeLink(g, i)  PROVE \E e : Store(e)
    BY <2>5 DEF StartItem, CrashBeforeLink, Commit
  <2> QED  BY <1>1, <2>1, <2>2, <2>3, <2>4, <2>5 DEF Decide
<1>2. ASSUME NEW r, RunStep(r)  PROVE \E e : Store(e)
  <2>1. ASSUME NEW status, NEW judged, Settle(r, status, judged)  PROVE \E e : Store(e)
    BY <2>1 DEF Settle
  <2>2. ASSUME NEW retryable, FailLaunch(r, retryable)  PROVE \E e : Store(e)
    BY <2>2 DEF FailLaunch
  <2>3. CASE FinalizeAttempt(r) \/ CrashDuringAdvance(r)
    BY <2>3 DEF FinalizeAttempt, CrashDuringAdvance
  <2>4. CASE ResumeStopped(r) \/ ContinueRun(r) \/ RetryInboxLaunch(r) \/ CancelRun(r)
             \/ AcceptCompletion(r) \/ RequireApproval(r)
    BY <2>4 DEF ResumeStopped, ContinueRun, RetryInboxLaunch, CancelRun, AcceptCompletion,
                RequireApproval, Commit
  <2> QED  BY <1>2, <2>1, <2>2, <2>3, <2>4 DEF RunStep
<1>3. ASSUME NEW n, ClaimNow(n)  PROVE \E e : Store(e)  BY <1>3 DEF ClaimNow, Commit
<1>4. ASSUME StartPlain \/ DispatchLater \/ BeginShutdown \/ CrashCore \/ StartCore
      PROVE  \E e : Store(e)
  BY <1>4 DEF StartPlain, DispatchLater, BeginShutdown, CrashCore, StartCore, Commit
<1>5. ASSUME Recovery  PROVE \E e : Store(e)
  BY <1>5 DEF Recovery, AttachMissing, ListLinked, ReplayOutcome, ReconcileCommits,
              AdvanceReconciled, StartDone
<1>6. \E e : Store(e)  BY <1>1, <1>2, <1>3, <1>4, <1>5 DEF GoalsNext
<1> QED  BY <1>6, StoreRemembers

\* the history stays the evidence as long as evidence only grows
LEMMA HeardGrows ==
  ASSUME Heard(db, heard), Remembered, Evidenced(db'),
         \A g \in Goals : Grows(db.evidence[g], db'.evidence[g])
  PROVE  Heard(db', heard')
<1>1. PICK E, H, F : E = db.evidence /\ H = heard /\ F = db'.evidence  OBVIOUS
<1>2. H = E /\ F = [g \in Goals |-> F[g]]  BY <1>1 DEF Heard, Evidenced
<1>3. heard' = [g \in Goals |-> H[g] \cup {e \in F[g] : \A o \in H[g] : ~SameSource(e, o)}]
  BY <1>1 DEF Remembered
<1>4. ASSUME NEW g \in Goals
      PROVE  H[g] \cup {e \in F[g] : \A o \in H[g] : ~SameSource(e, o)} = F[g]
  <2>1. PICK A, B : A = H[g] /\ B = F[g]  OBVIOUS
  <2>2. Grows(A, B)  BY <1>1, <1>2, <2>1
  <2>3. A \cup {e \in B : \A o \in A : ~SameSource(e, o)} = B  BY <2>2 DEF Grows
  <2> QED  BY <2>1, <2>3
<1>5. heard' = F  BY <1>2, <1>3, <1>4
<1> QED  BY <1>1, <1>5 DEF Heard

\* the history is the evidence, and startup's transaction has moved on from the database
ClosingInv ==
  /\ Heard(db, heard)
  /\ Reconciling(mem) => Onward(db, mem.recovery.tx)

\* a Goal that a step closes was covered, criterion by criterion, by what was heard last
ClosesRightly ==
  \A g \in Goals :
     db'.goals[g].status = "completed" /\ db.goals[g].status # "completed"
       => \A c \in db.defs[g][db.goals[g].def] : LastHeard(g, c) = "covered"

\* a step that closes no Goal
LEMMA OnwardCloses ==
  ASSUME ClosingStep
  PROVE  ClosesRightly
  BY DEF ClosingStep, Onward, ClosesRightly

\* closeGoal
LEMMA CloseGoalCloses ==
  ASSUME OwnershipInv, ClosingInv, NEW g \in Goals, CloseGoal(g)
  PROVE  /\ ClosesRightly
         /\ Evidenced(db') /\ \A h \in Goals : Grows(db.evidence[h], db'.evidence[h])
         /\ Reconciling(mem') => Onward(db', mem'.recovery.tx)
<1>1. PICK d, e, m : d = db /\ e = db' /\ m = mem  OBVIOUS
<1>2. DatabaseOK(d) /\ RecoveryOK(m, d)  BY <1>1 DEF OwnershipInv
<1>3. d = [t \in Tables |-> d[t]] /\ d.goals = [h \in Goals |-> d.goals[h]]
  BY <1>2 DEF DatabaseOK, GoalsOK
<1>4. e = [d EXCEPT !.goals[g].status = "completed"] /\ mem' = mem /\ Up
      /\ Status(d, g) = "ready_to_close" /\ Verified(d, g)
  BY <1>1 DEF CloseGoal, Commit, Store, Decidable
<1>5. e.evidence = d.evidence  BY <1>3, <1>4 DEF Tables
<1>6. \A h \in Goals : h # g => e.goals[h] = d.goals[h]  BY <1>3, <1>4 DEF Tables
<1>7. d.goals[g].def # 0  BY <1>4 DEF Status
<1>8. Definition(d, g) = d.goals[g].def  BY <1>7 DEF Definition
<1>9. d.evidence = heard /\ Evidenced(d)  BY <1>1 DEF ClosingInv, Heard
<1>10. \A c \in d.defs[g][d.goals[g].def] : LastHeard(g, c) = "covered"
  BY <1>1, <1>4, <1>8, <1>9 DEF Verified, VerifiedCriterion, LastHeard
<1>11. ClosesRightly  BY <1>1, <1>6, <1>10 DEF ClosesRightly
<1>12. Evidenced(e)  BY <1>5, <1>9 DEF Evidenced
<1>13. \A h \in Goals : Grows(d.evidence[h], e.evidence[h])  BY <1>5 DEF Grows
<1>14. ~Reconciling(m)  BY <1>1, <1>2, <1>4 DEF RecoveryOK, Up
<1> QED  BY <1>1, <1>4, <1>11, <1>12, <1>13, <1>14

\* every step keeps the history, and a Goal it closes was covered by what was heard last
LEMMA ClosingSteps ==
  ASSUME OwnershipInv, ClosingInv, [GoalsNext]_goalsVars
  PROVE  ClosingInv' /\ ClosesRightly
<1>1. Evidenced(db) /\ (Reconciling(mem) => Onward(db, mem.recovery.tx))
  BY DEF ClosingInv, Heard
<1>2. ASSUME ClosingStep, GoalsNext  PROVE ClosingInv' /\ ClosesRightly
  <2>1. Remembered  BY <1>2, StepRemembers
  <2>2. Evidenced(db') /\ \A g \in Goals : Grows(db.evidence[g], db'.evidence[g])
    BY <1>2 DEF ClosingStep, Onward
  <2>3. Heard(db', heard')  BY <2>1, <2>2, HeardGrows DEF ClosingInv
  <2> QED  BY <1>2, <2>3, OnwardCloses DEF ClosingInv, ClosingStep
<1>3. ASSUME NEW g \in Goals, CloseGoal(g), GoalsNext  PROVE ClosingInv' /\ ClosesRightly
  <2>1. Remembered  BY <1>3, StepRemembers
  <2>2. /\ ClosesRightly
        /\ Evidenced(db') /\ \A h \in Goals : Grows(db.evidence[h], db'.evidence[h])
        /\ Reconciling(mem') => Onward(db', mem'.recovery.tx)
    BY <1>3, CloseGoalCloses
  <2>3. Heard(db', heard')  BY <2>1, <2>2, HeardGrows DEF ClosingInv
  <2> QED  BY <2>2, <2>3 DEF ClosingInv
<1>4. CASE UNCHANGED goalsVars
  <2>1. db' = db /\ mem' = mem /\ heard' = heard  BY <1>4 DEF goalsVars
  <2>2. ClosesRightly  BY <2>1 DEF ClosesRightly
  <2> QED  BY <2>1, <2>2 DEF ClosingInv
<1>5. CASE GoalsNext
  <2>1. ASSUME NEW g \in Goals, Decide(g)  PROVE ClosingStep \/ CloseGoal(g)
    <3>1. CASE \/ \E def \in Definitions : CreateGoal(g, def) \/ ReviseDefinition(g, def)
               \/ ApproveGoal(g) \/ RequestChange(g)
               \/ PauseGoal(g) \/ ResumeGoal(g) \/ CancelGoal(g)
      BY <1>1, <3>1, DecisionOnward
    <3>2. CASE \/ \E roadmap \in Roadmaps : ReviseRoadmap(g, roadmap) \/ FinishGeneration(g, roadmap)
               \/ \E items \in SUBSET ItemIds : ApproveRoadmap(g, items)
               \/ RequestGeneration(g)
      BY <1>1, <3>2, RoadmapOnward
    <3>3. CASE \E i \in ItemIds : StartItem(g, i) \/ CrashBeforeLink(g, i)
      BY <1>1, <3>3, StartOnward
    <3> QED  BY <2>1, <3>1, <3>2, <3>3 DEF Decide
  <2>2. ASSUME NEW r, RunStep(r)  PROVE ClosingStep
    <3>1. CASE \E status \in RunStatuses, judged \in {"none", "covered", "contradicted"} :
                  Settle(r, status, judged)
      BY <1>1, <3>1, AttemptOnward
    <3>2. CASE \/ \E retryable \in BOOLEAN : FailLaunch(r, retryable)
               \/ ResumeStopped(r) \/ ContinueRun(r) \/ RetryInboxLaunch(r)
               \/ CancelRun(r) \/ RequireApproval(r)
      BY <1>1, <3>2, AttemptOnward
    <3>3. CASE FinalizeAttempt(r) \/ AcceptCompletion(r) \/ CrashDuringAdvance(r)
      BY <1>1, <3>3, AdvanceOnward
    <3>4. CASE \E status \in {"completed", "blocked"}, judged \in {"none", "covered", "contradicted"} :
                  Settle(r, status, judged)
      <4>1. {"completed", "blocked"} \subseteq RunStatuses  BY DEF RunStatuses
      <4> QED  BY <3>1, <3>4, <4>1
    <3>5. CASE \E status \in {"failed", "waiting_input"} : Settle(r, status, "none")
      <4>1. {"failed", "waiting_input"} \subseteq RunStatuses  BY DEF RunStatuses
      <4> QED  BY <3>1, <3>5, <4>1
    <3> QED  BY <2>2, <3>2, <3>3, <3>4, <3>5 DEF RunStep
  <2>3. ASSUME StartPlain \/ \E n \in 1 .. MaxInbox : ClaimNow(n)  PROVE ClosingStep
    BY <1>1, <2>3, StartOnward
  <2>4. ASSUME BeginShutdown \/ CrashCore \/ StartCore \/ DispatchLater  PROVE ClosingStep
    BY <1>1, <2>4, ProcessOnward
  <2>5. ASSUME Recovery  PROVE ClosingStep
    BY <1>1, <2>5, ReconcileOnward, CommittedOnward DEF Recovery
  <2>6. ClosingStep \/ \E g \in Goals : CloseGoal(g)
    BY <1>5, <2>1, <2>2, <2>3, <2>4, <2>5 DEF GoalsNext
  <2> QED  BY <1>2, <1>3, <1>5, <2>6
<1> QED  BY <1>4, <1>5

\* closeGoal and decisiveEvidence (workspace-goal-repository.ts): for every Workspace, a Goal
\* is closed only when, for every criterion of its definition, the verdict recorded last by an
\* Attempt that is still the current one of its TaskRun is "covered"; recording an outcome
\* again, late or at startup, brings no older verdict forward
THEOREM GoalsCloseOnLastVerdict == GoalsSpec => ClosedOnLastVerdict
<1>1. GoalsInit => ClosingInv
  <2> SUFFICES ASSUME GoalsInit  PROVE ClosingInv
    OBVIOUS
  <2>1. db.evidence = [g \in Goals |-> {}] /\ heard = [g \in Goals |-> {}]  BY DEF GoalsInit
  <2>2. Heard(db, heard)  BY <2>1 DEF Heard, Evidenced
  <2>3. ~Reconciling(mem)  BY DEF GoalsInit, Fresh, Recovered, Reconciling
  <2> QED  BY <2>2, <2>3 DEF ClosingInv
<1>2. OwnershipInv /\ ClosingInv /\ [GoalsNext]_goalsVars => ClosingInv' /\ [ClosesRightly]_goalsVars
  BY ClosingSteps
<1> QED  BY <1>1, <1>2, OwnershipHolds, PTL DEF GoalsSpec, ClosedOnLastVerdict, ClosesRightly
=============================================================================
