---------------------------- MODULE WriterFence ----------------------------
(***************************************************************************)
(* Who may write the SQLite database.  Core processes contend for the       *)
(* instance lock file beside the database (core-instance-lock.ts), claim    *)
(* the writer lease row with a growing fence (core-writer-lease.ts,         *)
(* writer-lease-retry.ts), install the connection guard that rejects a      *)
(* write under any other fence (writer-fence-guard.ts), keep both alive     *)
(* with heartbeats and give them up in a fixed order (core-lifecycle.ts).   *)
(* bootstrapCore in server.ts puts the steps in order.                      *)
(*                                                                          *)
(* Every await of the code that lets another process run is a step          *)
(* boundary: the lock and the recovery marker are read, checked and         *)
(* unlinked by path in separate steps.  A process that has crashed or       *)
(* exited is "dead"; a member of Proc is one life of a process.             *)
(*                                                                          *)
(* Time is abstract.  stale[p] says that the heartbeat of p is older than   *)
(* CORE_HEARTBEAT_MAX_AGE_MS (10 s); lease.expired that the row is older    *)
(* than lease and skew margin (22 s).  A heartbeat refreshes both, so a     *)
(* lease expires only after its owner's heartbeat went stale, or when the   *)
(* owner is not beating (Overdue).                                          *)
(***************************************************************************)
EXTENDS Naturals, FiniteSets

CONSTANTS
  Proc,      \* lives of Core processes on this host
  None,      \* no process, no file
  MaxFence,  \* bound on the fences handed out
  Holder,    \* the process that crashed with lock and lease before, or None
  Recoverer  \* the process that crashed while it recovered them, or None

ASSUME WriterFenceAssumption ==
  /\ None \notin Proc
  /\ None \notin [by : Proc, torn : BOOLEAN]
  /\ MaxFence \in Nat \ {0}
  /\ Holder \in Proc \cup {None}
  /\ Recoverer \in Proc \cup {None}
  /\ Recoverer # None => Holder # None /\ Holder # Recoverer

VARIABLES
  schema,    \* whether this build supports the database's schema
  lock,      \* the instance lock file: None, or who created it and whether it is torn
  marker,    \* the recovery marker file, likewise
  lease,     \* the row of core_writer_lease
  boot,      \* where each process is in bootstrapCore
  observed,  \* the owner it read from a file it means to reclaim
  fence,     \* the fence it claimed, 0 before
  unrenewed, \* while claiming: nobody renewed the lease since the wait began
  hb,        \* its heartbeat: idle, pending, held or lost (the lock check's answer)
  stale,     \* its last successful heartbeat is too old
  ready,     \* CoreLifecycle.writerReady
  failed,    \* CoreLifecycle.lastFailure is set
  close,     \* how far CoreLifecycle.close has come
  asked,     \* a signal, a drain or the loss of the Host asked it to end
  receipt,   \* a command receipt the process has begun and not settled
  hijacked   \* history: a path-based unlink has hit a file of a live process

fileVars == <<schema, lock, marker, hijacked>>
lifeVars == <<hb, stale, ready, failed, close, asked>>
vars == <<schema, lock, marker, lease, boot, observed, fence, unrenewed, hb, stale, ready,
          failed, close, asked, receipt, hijacked>>

Files == {None} \cup [by : Proc, torn : BOOLEAN]

Leases == [owner : Proc \cup {None}, fence : 0..MaxFence,
           released : BOOLEAN, expired : BOOLEAN]

AcquireSteps ==
  {"readMarker", "confirmMarker", "unlinkMarker"} \X {1, 2}
    \cup {"createLock", "writeLock"} \X {1, 2}
    \cup {"readLock", "createMarker", "writeMarker", "confirmLock", "unlinkLock",
          "assertHeld", "abort", "abortUnlink"} \X {1}
    \cup {"dropMarker"} \X {0, 2}

BootSteps ==
  {"openStore", "claim", "installGuard", "start", "recover", "assemble",
   "markReady", "running", "threw"} \X {1}

Boots == {<<"down", 1>>, <<"dead", 1>>, <<"crashed", 1>>} \cup AcquireSteps \cup BootSteps

Closes == {"open", "requested", "barriers", "join", "release", "unlock", "unlink",
           "retained", "closed"}

TypeOK ==
  /\ schema \in {"supported", "unsupported"}
  /\ lock \in Files /\ marker \in Files
  /\ lease \in Leases
  /\ boot \in [Proc -> Boots]
  /\ observed \in [Proc -> Proc \cup {None}]
  /\ fence \in [Proc -> 0..MaxFence]
  /\ unrenewed \in [Proc -> BOOLEAN]
  /\ hb \in [Proc -> {"idle", "pending", "held", "lost"}]
  /\ stale \in [Proc -> BOOLEAN] /\ ready \in [Proc -> BOOLEAN]
  /\ failed \in [Proc -> BOOLEAN]
  /\ close \in [Proc -> Closes]
  /\ asked \in [Proc -> BOOLEAN]
  /\ receipt \in [Proc -> {"none", "started", "unknown"}]
  /\ hijacked \in BOOLEAN

(***************************************************************************)
(* The three situations a start can find: a clean directory, the lock and   *)
(* the lease of a crashed holder, and the same with the marker of a second  *)
(* process that crashed while it recovered them.                            *)
(***************************************************************************)
Written(p) == [by |-> p, torn |-> FALSE]

Init ==
  /\ schema \in {"supported", "unsupported"}
  /\ lock = IF Holder = None THEN None ELSE Written(Holder)
  /\ marker = IF Recoverer = None THEN None ELSE Written(Recoverer)
  /\ lease = [owner |-> Holder, fence |-> IF Holder = None THEN 0 ELSE 1,
              released |-> FALSE, expired |-> FALSE]
  /\ boot = [p \in Proc |-> IF p \in {Holder, Recoverer} THEN <<"crashed", 1>>
                            ELSE <<"down", 1>>]
  /\ fence = [p \in Proc |-> 0]
  /\ observed = [p \in Proc |-> None]
  /\ unrenewed = [p \in Proc |-> FALSE]
  /\ hb = [p \in Proc |-> "idle"]
  /\ stale = [p \in Proc |-> FALSE]
  /\ ready = [p \in Proc |-> FALSE]
  /\ failed = [p \in Proc |-> FALSE]
  /\ close = [p \in Proc |-> "open"]
  /\ asked = [p \in Proc |-> FALSE]
  /\ receipt = [p \in Proc |-> "none"]
  /\ hijacked = FALSE

At(p, step) == boot[p] = <<step, 1>>
Go(p, step) == boot' = [boot EXCEPT ![p] = step]
Dead(p) == boot[p] \in {"down", "dead", "crashed"} \X {1}

\* assertStale: the file names a process that is not this one and not running
StaleFile(f) == /\ f # None
                /\ ~f.torn
                /\ Dead(f.by)

-----------------------------------------------------------------------------
(***************************************************************************)
(* acquireCoreInstanceLock.  A start that throws before it holds the lock   *)
(* has nothing to give back, and the process exits.                         *)
(***************************************************************************)
Only(p) == UNCHANGED <<lease, fence, unrenewed, lifeVars, receipt>>

Start(p) ==
  /\ At(p, "down")
  /\ Go(p, <<"readMarker", 1>>)
  /\ UNCHANGED <<fileVars, observed>> /\ Only(p)

\* where recoverAbandonedRecoveryMarker returns to, and where its throw goes
MarkerDone(round) == IF round = 1 THEN <<"createLock", 1>> ELSE <<"assertHeld", 1>>
MarkerThrow(round) == IF round = 1 THEN <<"dead", 1>> ELSE <<"abort", 1>>

ReadMarker(p, round) ==
  /\ boot[p] = <<"readMarker", round>>
  /\ IF StaleFile(marker)
       THEN /\ observed' = [observed EXCEPT ![p] = marker.by]
            /\ Go(p, <<"confirmMarker", round>>)
       ELSE /\ Go(p, IF marker = None THEN MarkerDone(round) ELSE MarkerThrow(round))
            /\ UNCHANGED observed
  /\ UNCHANGED fileVars /\ Only(p)

ConfirmMarker(p, round) ==
  /\ boot[p] = <<"confirmMarker", round>>
  /\ Go(p, IF marker = None THEN MarkerDone(round)
           ELSE IF StaleFile(marker) /\ marker.by = observed[p]
             THEN <<"unlinkMarker", round>>
             ELSE MarkerThrow(round))
  /\ observed' = [observed EXCEPT ![p] = None]
  /\ UNCHANGED fileVars /\ Only(p)

\* p unlinks a path: whatever file is there now goes, its own or another's
Unlinked(p, file) ==
  hijacked' = (hijacked \/ (file # None /\ file.by # p /\ ~Dead(file.by)))

\* unlink works on the path: whoever's marker is there by now is removed
UnlinkMarker(p, round) ==
  /\ boot[p] = <<"unlinkMarker", round>>
  /\ Go(p, IF marker = None THEN MarkerThrow(round) ELSE MarkerDone(round))
  /\ marker' = None /\ Unlinked(p, marker)
  /\ UNCHANGED <<schema, lock, observed>> /\ Only(p)

\* Mutant: the lock is opened with "w", which takes over an existing file.
CreateLockOver(p, round) ==
  /\ boot[p] = <<"createLock", round>>
  /\ lock' = [by |-> p, torn |-> TRUE]
  /\ Go(p, <<"writeLock", round>>)
  /\ UNCHANGED <<schema, hijacked, marker, observed>> /\ Only(p)

\* writeLockFile: open with "wx" fails when the file exists, else creates it empty
CreateLock(p, round) ==
  /\ boot[p] = <<"createLock", round>>
  /\ IF lock = None
       THEN /\ lock' = [by |-> p, torn |-> TRUE]
            /\ Go(p, <<"writeLock", round>>)
       ELSE /\ Go(p, IF round = 1 THEN <<"readLock", 1>> ELSE <<"dead", 1>>)
            /\ UNCHANGED lock
  /\ UNCHANGED <<schema, hijacked, marker, observed>> /\ Only(p)

\* ... and the contents go to the file that was created, wherever the path points
Fill(file, p) == IF file = [by |-> p, torn |-> TRUE] THEN Written(p) ELSE file

WriteLock(p, round) ==
  /\ boot[p] = <<"writeLock", round>>
  /\ lock' = Fill(lock, p)
  /\ Go(p, <<"readMarker", 2>>)
  /\ UNCHANGED <<schema, hijacked, marker, observed>> /\ Only(p)

\* recoverStaleLock
ReadLock(p) ==
  /\ At(p, "readLock")
  /\ IF StaleFile(lock)
       THEN /\ observed' = [observed EXCEPT ![p] = lock.by]
            /\ Go(p, <<"createMarker", 1>>)
       ELSE /\ Go(p, IF lock = None THEN <<"createLock", 2>> ELSE <<"dead", 1>>)
            /\ UNCHANGED observed
  /\ UNCHANGED fileVars /\ Only(p)

CreateMarker(p) ==
  /\ At(p, "createMarker")
  /\ IF marker = None
       THEN /\ marker' = [by |-> p, torn |-> TRUE]
            /\ Go(p, <<"writeMarker", 1>>)
       ELSE /\ Go(p, <<"dead", 1>>)
            /\ UNCHANGED marker
  /\ UNCHANGED <<schema, hijacked, lock, observed>> /\ Only(p)

WriteMarker(p) ==
  /\ At(p, "writeMarker")
  /\ marker' = Fill(marker, p)
  /\ Go(p, <<"confirmLock", 1>>)
  /\ UNCHANGED <<schema, hijacked, lock, observed>> /\ Only(p)

ConfirmLock(p) ==
  /\ At(p, "confirmLock")
  /\ Go(p, IF lock = None THEN <<"dropMarker", 2>>
           ELSE IF StaleFile(lock) /\ lock.by = observed[p] THEN <<"unlinkLock", 1>>
           ELSE <<"dropMarker", 0>>)
  /\ observed' = [observed EXCEPT ![p] = None]
  /\ UNCHANGED fileVars /\ Only(p)

UnlinkLock(p) ==
  /\ At(p, "unlinkLock")
  /\ Go(p, <<"dropMarker", IF lock = None THEN 0 ELSE 2>>)
  /\ lock' = None /\ Unlinked(p, lock)
  /\ UNCHANGED <<schema, marker, observed>> /\ Only(p)

\* the finally block: the marker is unlinked by path and an error is swallowed
DropMarker(p, round) ==
  /\ boot[p] = <<"dropMarker", round>>
  /\ marker' = None /\ Unlinked(p, marker)
  /\ Go(p, IF round = 2 THEN <<"createLock", 2>> ELSE <<"dead", 1>>)
  /\ UNCHANGED <<schema, lock, observed>> /\ Only(p)

\* CoreInstanceLock.assertHeld: the path still names the file this process created
HoldsLock(p) == lock = Written(p)

AssertHeld(p) ==
  /\ At(p, "assertHeld")
  /\ Go(p, IF HoldsLock(p) THEN <<"openStore", 1>> ELSE <<"abort", 1>>)
  /\ UNCHANGED <<fileVars, observed>> /\ Only(p)

\* the catch block: read the file, and unlink it by path when it is one's own
Abort(p) ==
  /\ At(p, "abort")
  /\ Go(p, IF HoldsLock(p) THEN <<"abortUnlink", 1>> ELSE <<"dead", 1>>)
  /\ UNCHANGED <<fileVars, observed>> /\ Only(p)

AbortUnlink(p) ==
  /\ At(p, "abortUnlink")
  /\ lock' = None /\ Unlinked(p, lock)
  /\ Go(p, <<"dead", 1>>)
  /\ UNCHANGED <<schema, marker, observed>> /\ Only(p)

Acquire(p) ==
  \/ Start(p)
  \/ \E round \in {1, 2} : \/ ReadMarker(p, round)
                           \/ ConfirmMarker(p, round)
                           \/ UnlinkMarker(p, round)
                           \/ CreateLock(p, round)
                           \/ WriteLock(p, round)
  \/ ReadLock(p)
  \/ CreateMarker(p)
  \/ WriteMarker(p)
  \/ ConfirmLock(p)
  \/ UnlinkLock(p)
  \/ \E round \in {0, 2} : DropMarker(p, round)
  \/ AssertHeld(p)
  \/ Abort(p)
  \/ AbortUnlink(p)

-----------------------------------------------------------------------------
(***************************************************************************)
(* The lease row.                                                           *)
(***************************************************************************)
\* WriterFenceGuard.assertCurrent, and what every trigger of the guard checks
Current(p) == /\ fence[p] # 0
              /\ lease.owner = p
              /\ lease.fence = fence[p]
              /\ ~lease.released
              /\ ~lease.expired

\* Mutant: claim forgets to look at the row it replaces.
ClaimableAlways == TRUE

Claimable == lease.owner = None \/ lease.released \/ lease.expired

\* a claim or a heartbeat moves the expiry out of reach of those who wait
Renewed(p) == [q \in Proc |-> IF q = p THEN unrenewed[q] ELSE FALSE]

\* CoreWriterLease.claim, in one immediate transaction
Claim(p) ==
  /\ At(p, "claim")
  /\ Claimable
  /\ lease.fence < MaxFence
  /\ lease' = [owner |-> p, fence |-> lease.fence + 1,
               released |-> FALSE, expired |-> FALSE]
  /\ fence' = [fence EXCEPT ![p] = lease.fence + 1]
  /\ unrenewed' = [Renewed(p) EXCEPT ![p] = FALSE]
  /\ Go(p, <<"installGuard", 1>>)
  /\ UNCHANGED <<fileVars, observed, lifeVars, receipt>>

\* Mutant: the wait is shorter than the lease.
ClaimGivesUpEarly(p) ==
  /\ At(p, "claim")
  /\ ~Claimable
  /\ Go(p, <<"threw", 1>>)
  /\ close' = [close EXCEPT ![p] = "release"]
  /\ UNCHANGED <<fileVars, lease, observed, fence, unrenewed, hb, stale, ready, failed, asked, receipt>>

\* claimCoreWriterLeaseWithRetry gives up after lease, margin and one second:
\* by then a lease nobody renewed has expired
ClaimGivesUp(p) ==
  /\ At(p, "claim")
  /\ ~Claimable
  /\ ~unrenewed[p]
  /\ Go(p, <<"threw", 1>>)
  /\ close' = [close EXCEPT ![p] = "release"]
  /\ UNCHANGED <<fileVars, lease, observed, fence, unrenewed, hb, stale, ready, failed, asked, receipt>>

\* time may only run out for an owner that stopped beating
Overdue(p) == \/ Dead(p)
              \/ At(p, "installGuard")
              \/ stale[p]
              \/ close[p] \notin {"open", "requested"}

LeaseExpires ==
  /\ lease.owner # None
  /\ ~lease.released /\ ~lease.expired
  /\ Overdue(lease.owner)
  /\ lease' = [lease EXCEPT !.expired = TRUE]
  /\ UNCHANGED <<fileVars, boot, observed, fence, unrenewed, lifeVars, receipt>>

-----------------------------------------------------------------------------
(***************************************************************************)
(* bootstrapCore after the lock.                                            *)
(***************************************************************************)
\* the connection is open from here until closeStore or the end of the process
StoreOpen(p) == /\ ~Dead(p)
                /\ boot[p] \in BootSteps
                /\ ~At(p, "openStore")
                /\ close[p] \notin {"unlock", "unlink", "closed"}

\* initializeSqliteSchema: an empty database or a known revision is brought to the
\* current one in a transaction; anything else is refused
SchemaAccepted == schema = "supported"

\* new Store: the schema is checked or upgraded, and every receipt that is still
\* "started" is taken for the loss of a restart, before any lease is claimed
OpenStore(p) ==
  /\ At(p, "openStore")
  /\ \/ /\ SchemaAccepted
        /\ receipt' = [q \in Proc |-> IF receipt[q] = "started" THEN "unknown" ELSE receipt[q]]
        /\ unrenewed' = [unrenewed EXCEPT ![p] = TRUE]
        /\ Go(p, <<"claim", 1>>)
        /\ UNCHANGED close
     \/ /\ ~SchemaAccepted
        /\ Go(p, <<"threw", 1>>)
        /\ close' = [close EXCEPT ![p] = "unlock"]
        /\ UNCHANGED <<receipt, unrenewed>>
  /\ UNCHANGED <<fileVars, lease, observed, fence, hb, stale, ready, failed, asked>>

\* installConnectionGuard, then CoreLifecycle.start begins the first heartbeat
InstallGuard(p) ==
  /\ At(p, "installGuard")
  /\ IF Current(p)
       THEN /\ Go(p, <<"start", 1>>)
            /\ hb' = [hb EXCEPT ![p] = "pending"]
            /\ UNCHANGED close
       ELSE /\ Go(p, <<"threw", 1>>)
            /\ close' = [close EXCEPT ![p] = "release"]
            /\ UNCHANGED hb
  /\ UNCHANGED <<fileVars, lease, observed, fence, unrenewed, stale, ready, failed, asked, receipt>>

\* a throw of bootstrapCore once the lifecycle exists closes it
Threw(p) == /\ Go(p, <<"threw", 1>>)
            /\ close' = [close EXCEPT ![p] = IF @ = "open" THEN "requested" ELSE @]

\* start resolves when the first heartbeat did; it rejects when that one failed
Started(p) ==
  /\ At(p, "start")
  /\ hb[p] = "idle"
  /\ IF failed[p] THEN Threw(p) ELSE Go(p, <<"recover", 1>>) /\ UNCHANGED close
  /\ UNCHANGED <<fileVars, lease, observed, fence, unrenewed, hb, stale, ready, failed, asked, receipt>>

\* runStartupRecovery runs under the guard
StartupRecovery(p) ==
  /\ At(p, "recover")
  /\ IF Current(p) /\ StoreOpen(p) THEN Go(p, <<"assemble", 1>>) /\ UNCHANGED close
                                   ELSE Threw(p)
  /\ UNCHANGED <<fileVars, lease, observed, fence, unrenewed, hb, stale, ready, failed, asked, receipt>>

\* services, HTTP server and background work; any of them may throw
Assemble(p) ==
  /\ At(p, "assemble")
  /\ \/ /\ Go(p, <<"markReady", 1>>) /\ UNCHANGED close
     \/ Threw(p)
  /\ UNCHANGED <<fileVars, lease, observed, fence, unrenewed, hb, stale, ready, failed, asked, receipt>>

MarkReady(p) ==
  /\ At(p, "markReady")
  /\ IF close[p] \in {"open", "requested"} /\ ~failed[p] /\ ~stale[p]
       THEN /\ ready' = [ready EXCEPT ![p] = TRUE]
            /\ Go(p, <<"running", 1>>)
            /\ UNCHANGED <<close, failed>>
       ELSE /\ Threw(p)
            /\ failed' = [failed EXCEPT ![p] = @ \/ stale[p]]
            /\ UNCHANGED ready
  /\ UNCHANGED <<fileVars, lease, observed, fence, unrenewed, hb, stale, asked, receipt>>

-----------------------------------------------------------------------------
(***************************************************************************)
(* CoreLifecycle: the heartbeat and its deadline.                           *)
(***************************************************************************)
HasLifecycle(p) == boot[p] \in {"start", "recover", "assemble", "markReady", "running",
                                "threw"} \X {1} /\ fence[p] # 0
Closing(p) == close[p] \notin {"open", "requested"}

\* fail: readiness is cleared, and the first failure asks the server to close
Fail(p) ==
  /\ ready' = [ready EXCEPT ![p] = FALSE]
  /\ failed' = [failed EXCEPT ![p] = TRUE]
  /\ close' = [close EXCEPT ![p] = IF @ = "open" THEN "requested" ELSE @]

\* the interval timer, set once start has resolved and cleared by close
HeartbeatTick(p) ==
  /\ boot[p] \in {"recover", "assemble", "markReady", "running"} \X {1}
  /\ hb[p] = "idle"
  /\ ~Closing(p)
  /\ hb' = [hb EXCEPT ![p] = "pending"]
  /\ UNCHANGED <<fileVars, lease, boot, observed, fence, unrenewed, stale, ready, failed, close, asked, receipt>>

\* the file system answers assertHeld
HeartbeatLockAnswer(p) ==
  /\ ~Dead(p) /\ hb[p] = "pending"
  /\ hb' = [hb EXCEPT ![p] = IF HoldsLock(p) THEN "held" ELSE "lost"]
  /\ UNCHANGED <<fileVars, lease, boot, observed, fence, unrenewed, stale, ready, failed, close, asked, receipt>>

\* Mutant: the heartbeat task is not cleared when it throws.
HeartbeatThrowsPending(p) ==
  /\ hb' = [hb EXCEPT ![p] = "pending"]
  /\ IF Closing(p) THEN UNCHANGED <<ready, failed, close>> ELSE Fail(p)

\* an error of heartbeatNow: thrown on when closing, else the lifecycle fails
HeartbeatThrows(p) ==
  /\ hb' = [hb EXCEPT ![p] = "idle"]
  /\ IF Closing(p) THEN UNCHANGED <<ready, failed, close>> ELSE Fail(p)

(***************************************************************************)
(* heartbeatNow goes on after the lock check: the lease, the guard, and the *)
(* deadline once more.  A success in time restarts the clock, which is when *)
(* stale[p] stays FALSE; once stale, a success comes too late for good.     *)
(***************************************************************************)
HeartbeatFinish(p) ==
  /\ ~Dead(p) /\ hb[p] \in {"held", "lost"}
  /\ IF hb[p] = "held" /\ Current(p)
       THEN /\ unrenewed' = Renewed(p)
            /\ IF stale[p]
                 THEN HeartbeatThrows(p)
                 ELSE /\ hb' = [hb EXCEPT ![p] = "idle"]
                      /\ UNCHANGED <<ready, failed, close>>
       ELSE HeartbeatThrows(p) /\ UNCHANGED unrenewed
  /\ UNCHANGED <<fileVars, lease, boot, observed, fence, stale, asked, receipt>>

\* the heartbeat is overdue: 10 s passed without a recorded success
HeartbeatAges(p) ==
  /\ ~Dead(p) /\ HasLifecycle(p)
  /\ ~stale[p]
  /\ stale' = [stale EXCEPT ![p] = TRUE]
  /\ UNCHANGED <<fileVars, lease, boot, observed, fence, unrenewed, hb, ready, failed, close, asked, receipt>>

\* awaitHeartbeatDeadline rejects: the pending lock check is abandoned
HeartbeatDeadline(p) ==
  /\ ~Dead(p) /\ hb[p] # "idle" /\ stale[p]
  /\ HeartbeatThrows(p)
  /\ UNCHANGED <<fileVars, lease, boot, observed, fence, unrenewed, stale, asked, receipt>>

\* the armed deadline timer, or a caller of isWriterReady, finds the heartbeat stale
DeadlineTimer(p) ==
  /\ boot[p] \in {"recover", "assemble", "markReady", "running"} \X {1}
  /\ stale[p] /\ ~failed[p] /\ ~Closing(p)
  /\ Fail(p)
  /\ UNCHANGED <<fileVars, lease, boot, observed, fence, unrenewed, hb, stale, asked, receipt>>

Beat(p) ==
  \/ HeartbeatTick(p)
  \/ HeartbeatLockAnswer(p)
  \/ HeartbeatFinish(p)
  \/ HeartbeatAges(p)
  \/ HeartbeatDeadline(p)
  \/ DeadlineTimer(p)

-----------------------------------------------------------------------------
(***************************************************************************)
(* CoreLifecycle.close and the clean-up of a bootstrap that threw earlier.  *)
(***************************************************************************)
\* a drain request, a signal, or the application's own close
RequestClose(p) ==
  /\ At(p, "running") /\ ~asked[p]
  /\ asked' = [asked EXCEPT ![p] = TRUE]
  /\ close' = [close EXCEPT ![p] = IF @ = "open" THEN "requested" ELSE @]
  /\ UNCHANGED <<fileVars, lease, boot, observed, fence, unrenewed, hb, stale, ready, failed, receipt>>

BeginClose(p) ==
  /\ ~Dead(p) /\ close[p] = "requested"
  /\ ready' = [ready EXCEPT ![p] = FALSE]
  /\ close' = [close EXCEPT ![p] = "barriers"]
  /\ UNCHANGED <<fileVars, lease, boot, observed, fence, unrenewed, hb, stale, failed, asked, receipt>>

\* closeRuntimes, stopBackground, prepareHandoff: if one of them throws, the
\* store, the lease and the lock are kept.  closeRuntimes ends with guarded
\* writes, which throw once the authority is lost
Quiesce(p) ==
  /\ ~Dead(p) /\ close[p] = "barriers"
  /\ \/ /\ At(p, "running") => Current(p)
        /\ close' = [close EXCEPT ![p] = "join"]
     \/ close' = [close EXCEPT ![p] = "retained"]
  /\ UNCHANGED <<fileVars, lease, boot, observed, fence, unrenewed, hb, stale, ready, failed, asked, receipt>>

\* the heartbeat in flight, and the start, are awaited
JoinHeartbeat(p) ==
  /\ ~Dead(p) /\ close[p] = "join" /\ hb[p] = "idle"
  /\ close' = [close EXCEPT ![p] = "release"]
  /\ UNCHANGED <<fileVars, lease, boot, observed, fence, unrenewed, hb, stale, ready, failed, asked, receipt>>

\* removeConnectionGuard, writerLease.release and closeStore, one after the other
ReleaseLease(p) ==
  /\ ~Dead(p) /\ close[p] = "release"
  /\ lease' = IF fence[p] # 0 /\ lease.owner = p /\ lease.fence = fence[p]
                THEN [lease EXCEPT !.released = TRUE] ELSE lease
  /\ close' = [close EXCEPT ![p] = "unlock"]
  /\ UNCHANGED <<fileVars, boot, observed, fence, unrenewed, hb, stale, ready, failed, asked, receipt>>

\* CoreInstanceLock.release reads the file first and unlinks the path afterwards
ReleaseLockRead(p) ==
  /\ ~Dead(p) /\ close[p] = "unlock"
  /\ close' = [close EXCEPT ![p] = IF HoldsLock(p) THEN "unlink" ELSE "closed"]
  /\ UNCHANGED <<fileVars, lease, boot, observed, fence, unrenewed, hb, stale, ready, failed, asked, receipt>>

ReleaseLockUnlink(p) ==
  /\ ~Dead(p) /\ close[p] = "unlink"
  /\ lock' = None /\ Unlinked(p, lock)
  /\ close' = [close EXCEPT ![p] = "closed"]
  /\ UNCHANGED <<schema, marker, lease, boot, observed, fence, unrenewed, hb, stale, ready, failed, asked, receipt>>

Shutdown(p) ==
  \/ BeginClose(p)
  \/ Quiesce(p)
  \/ JoinHeartbeat(p)
  \/ ReleaseLease(p)
  \/ ReleaseLockRead(p)
  \/ ReleaseLockUnlink(p)

\* files, lease row and receipts stay; what the process remembered is gone
Die(p, how) ==
  /\ Go(p, <<how, 1>>)
  /\ observed' = [observed EXCEPT ![p] = None]
  /\ fence' = [fence EXCEPT ![p] = 0]
  /\ unrenewed' = [unrenewed EXCEPT ![p] = FALSE]
  /\ hb' = [hb EXCEPT ![p] = "idle"]
  /\ stale' = [stale EXCEPT ![p] = FALSE]
  /\ ready' = [ready EXCEPT ![p] = FALSE]
  /\ failed' = [failed EXCEPT ![p] = FALSE]
  /\ close' = [close EXCEPT ![p] = "open"]
  /\ asked' = [asked EXCEPT ![p] = FALSE]
  /\ UNCHANGED <<fileVars, lease, receipt>>

\* The process ends once its close has settled, well or badly, if bootstrapCore
\* threw or something asked it to end: a close of its own only sets the exit
\* code, and the IPC channel to the Host keeps the process running.
Exit(p) == /\ ~Dead(p)
           /\ close[p] \in {"closed", "retained"}
           /\ asked[p] \/ At(p, "threw")
           /\ Die(p, "dead")

\* a crash, at any point
Crash(p) == ~Dead(p) /\ Die(p, "crashed")

-----------------------------------------------------------------------------
(***************************************************************************)
(* The work a ready process does: a command whose receipt is started in one *)
(* guarded transaction and settled in a later one.                          *)
(***************************************************************************)
IsWriterReady(p) == ready[p] /\ ~stale[p]

BeginCommand(p) ==
  /\ IsWriterReady(p) /\ Current(p) /\ receipt[p] = "none"
  /\ receipt' = [receipt EXCEPT ![p] = "started"]
  /\ UNCHANGED <<fileVars, lease, boot, observed, fence, unrenewed, lifeVars>>

SettleCommand(p) ==
  /\ StoreOpen(p) /\ Current(p) /\ receipt[p] = "started"
  /\ receipt' = [receipt EXCEPT ![p] = "none"]
  /\ UNCHANGED <<fileVars, lease, boot, observed, fence, unrenewed, lifeVars>>

Bootstrap(p) ==
  \/ OpenStore(p)
  \/ Claim(p)
  \/ ClaimGivesUp(p)
  \/ InstallGuard(p)
  \/ Started(p)
  \/ StartupRecovery(p)
  \/ Assemble(p)
  \/ MarkReady(p)

Command(p) == BeginCommand(p) \/ SettleCommand(p)

\* every life has ended
Ended == \A p \in Proc : Dead(p) /\ ~At(p, "down")

Next ==
  \/ \E p \in Proc : \/ Acquire(p)
                     \/ Bootstrap(p)
                     \/ Beat(p)
                     \/ RequestClose(p)
                     \/ Shutdown(p)
                     \/ Exit(p)
                     \/ Crash(p)
                     \/ Command(p)
  \/ LeaseExpires
  \/ Ended /\ UNCHANGED vars

Spec == Init /\ [][Next]_vars

(***************************************************************************)
(* Fairness: what runs goes on running, and time passes.  Nothing promises  *)
(* that the file system answers a lock check, but then the heartbeat ages.  *)
(* Crashes and close requests are never owed.                               *)
(***************************************************************************)
LockAnswerOrAge(p) == hb[p] = "pending" /\ (HeartbeatLockAnswer(p) \/ HeartbeatAges(p))

FairSpec ==
  /\ Spec
  /\ \A p \in Proc :
       /\ WF_vars(Acquire(p))
       /\ WF_vars(Bootstrap(p))
       /\ WF_vars(HeartbeatTick(p))
       /\ WF_vars(LockAnswerOrAge(p))
       /\ WF_vars(HeartbeatFinish(p))
       /\ WF_vars(HeartbeatDeadline(p))
       /\ WF_vars(DeadlineTimer(p))
       /\ WF_vars(Shutdown(p))
       /\ WF_vars(Exit(p))
  /\ WF_vars(LeaseExpires)

-----------------------------------------------------------------------------
(* Safety                                                                   *)

(***************************************************************************)
(* A process that reports itself ready (CoreLifecycle.isWriterReady, which  *)
(* gates every HTTP mutation) still is the owner of the lease with the      *)
(* newest fence: the 10 s deadline ends readiness before the lease can be   *)
(* lost.                                                                    *)
(***************************************************************************)
ReadyIsCurrent == \A p \in Proc : IsWriterReady(p) => Current(p)

(***************************************************************************)
(* While a process that claimed the lease has its database open, nobody     *)
(* else claims it: the lock file keeps a second writer out even when the    *)
(* lease of a frozen or closing process has expired.  This rests on the     *)
(* lock file, so it is said of behaviours in which no unlink by path has    *)
(* removed the file of a live process.                                      *)
(***************************************************************************)
NoOverlappingWriters ==
  ~hijacked => \A p \in Proc : StoreOpen(p) /\ fence[p] # 0 => lease.owner = p

(***************************************************************************)
(* README.md: "Only the active fenced Generation may mutate control-plane   *)
(* state", whatever happened to the lock file.                              *)
(***************************************************************************)
OnlyTheFencedMutates ==
  \A p \in Proc : receipt[p] = "unknown" => ~StoreOpen(p)

-----------------------------------------------------------------------------
(* Liveness                                                                 *)

Alone(p) == \A q \in Proc \ {p} : Dead(q)
Torn == \E f \in {lock, marker} : f # None /\ f.torn

(***************************************************************************)
(* A start that finds only crashed processes and whole files gets the       *)
(* lease, unless it crashes itself or the database is not of this build, or *)
(* another process is started beside it.                                    *)
(***************************************************************************)
Takeover ==
  \A p \in Proc :
    (boot[p] = <<"readMarker", 1>> /\ Alone(p) /\ ~Torn)
      ~> (fence[p] # 0 \/ At(p, "crashed") \/ ~SchemaAccepted \/ ~Alone(p))

(***************************************************************************)
(* What docs/PERSISTENCE_AND_RECOVERY.md says of stale-lock recovery: a     *)
(* crash cannot permanently prevent startup.  The same without the          *)
(* condition that the crash left whole files.                               *)
(***************************************************************************)
CrashNeverPreventsStartup ==
  \A p \in Proc :
    (boot[p] = <<"readMarker", 1>> /\ Alone(p))
      ~> (fence[p] # 0 \/ At(p, "crashed") \/ ~SchemaAccepted \/ ~Alone(p))

(***************************************************************************)
(* A process that lost its authority, or whose heartbeat went stale, closes *)
(* (docs: "clears readiness and initiates shutdown"): it neither serves on  *)
(* nor hangs on the heartbeat it waits for.                                 *)
(***************************************************************************)
LostAuthority(p) == At(p, "running") /\ (stale[p] \/ ~Current(p))

LostAuthorityCloses ==
  \A p \in Proc : LostAuthority(p) ~> (Dead(p) \/ close[p] \in {"closed", "retained"})

(***************************************************************************)
(* docs/PERSISTENCE_AND_RECOVERY.md: a Generation "emits writer-fenced IPC  *)
(* heartbeats", so that one without authority does not go on telling the    *)
(* Host that it is well.  announceReady starts the heartbeats; only a drain *)
(* and the loss of the Host stop them.                                      *)
(***************************************************************************)
HostHeartbeats(p) == At(p, "running") /\ ~asked[p]

HostHeartbeatsAreFenced ==
  \A p \in Proc : LostAuthority(p) ~> ~HostHeartbeats(p)
=============================================================================
