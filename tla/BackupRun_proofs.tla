-------------------------- MODULE BackupRun_proofs --------------------------
(***************************************************************************)
(* What BackupRun guarantees for any number of runs and requesters and any *)
(* number of lost calls, outages, crashes and children that do not start.  *)
(***************************************************************************)
EXTENDS BackupRun, FiniteSets, FiniteSetTheorems, TLAPS

\* The rows and the worker keep their types when a run is claimed.
LEMMA ClaimType ==
    ASSUME TypeOK, NEW r \in Runs, claimNextRun(r)
    PROVE  /\ status' \in [Runs -> Status]
           /\ cancelRequested' \in [Runs -> BOOLEAN] /\ fresh' \in [Runs -> BOOLEAN]
           /\ stamped' \in [Runs -> BOOLEAN] /\ recorded' \in [Runs -> BOOLEAN]
           /\ dump' \in [Runs -> BOOLEAN]
           /\ disk' \in [Runs -> {"none", "part", "whole"}]
  BY DEF claimNextRun, TypeOK, Status, server

\* The rows keep their types when a run is finalized.
LEMMA FinalizeType ==
    ASSUME TypeOK, finalizeRun
    PROVE  /\ run \in Runs
           /\ status' \in [Runs -> Status]
           /\ cancelRequested' \in [Runs -> BOOLEAN] /\ fresh' \in [Runs -> BOOLEAN]
           /\ stamped' \in [Runs -> BOOLEAN] /\ recorded' \in [Runs -> BOOLEAN]
           /\ dump' \in [Runs -> BOOLEAN]
           /\ disk' \in [Runs -> {"none", "part", "whole"}]
  <1>1. run \in Runs
    BY DEF finalizeRun, Reports, TypeOK, Ended
  <1>2. Outcome \in Status
    BY DEF finalizeRun, Reports, Outcome, TypeOK, Ended, Status
  <1> QED
    BY <1>1, <1>2 DEF finalizeRun, TypeOK, files

\* At most one thing goes wrong in a step.
LEMMA CountsStep ==
    ASSUME [Next]_vars
    PROVE  \/ UNCHANGED counts
           \/ /\ lostCalls < MaxLostCalls /\ lostCalls' = lostCalls + 1
              /\ UNCHANGED <<lostReplies, spawnErrors, outages, crashes, restores>>
           \/ /\ lostReplies < MaxLostReplies /\ lostReplies' = lostReplies + 1
              /\ UNCHANGED <<lostCalls, spawnErrors, outages, crashes, restores>>
           \/ /\ spawnErrors < MaxSpawnErrors /\ spawnErrors' = spawnErrors + 1
              /\ UNCHANGED <<lostCalls, lostReplies, outages, crashes, restores>>
           \/ /\ outages < MaxOutages /\ outages' = outages + 1
              /\ UNCHANGED <<lostCalls, lostReplies, spawnErrors, crashes, restores>>
           \/ /\ crashes < MaxCrashes /\ crashes' = crashes + 1
              /\ UNCHANGED <<lostCalls, lostReplies, spawnErrors, outages, restores>>
           \/ /\ restores < MaxRestores /\ restores' = restores + 1
              /\ UNCHANGED <<lostCalls, lostReplies, spawnErrors, outages, crashes>>
  BY ZenonT(60) DEF Next, Enqueue, Sweep, Reconcile, Claim, Relay, Finalize, Child, vars, counts,
     count, create, recoverStaleRuns, FailStale, reconcileStale, FailCandidates, ReconcileLost,
     recoverRun, Claimed, SpawnError, ClaimReplyLost, updateRunArchive, ArchiveLost, ChildClosed,
     Reported, FinalizeReplyLost, FinalizeLost, Archived, Copying, Copied, Exits,
     cancelBackupRun, heartbeat, Expire, Restore, Crash

\* The bounds on what goes wrong are kept.
LEMMA BoundsKept == BoundsOK /\ [Next]_vars => BoundsOK'
  BY CountsStep, BackupAssumption DEF BoundsOK, counts

\* Each action keeps the types.
LEMMA StepType == ASSUME TypeOK, [Next]_vars PROVE TypeOK'
  <1> NoRun \notin Runs
    BY BackupAssumption DEF NoRun
  <1>0. BoundsOK'
    BY BoundsKept DEF TypeOK
  <1>1. ASSUME NEW a \in Requesters, count(a) PROVE TypeOK'
    BY <1>0, <1>1 DEF count, TypeOK, rows, files, process, counts
  <1>2. ASSUME NEW a \in Requesters, create(a) PROVE TypeOK'
    BY <1>0, <1>2 DEF create, Status, TypeOK, files, process, counts
  <1>3. CASE recoverStaleRuns
    BY <1>0, <1>3 DEF recoverStaleRuns, Stale, TypeOK, rows, files, process, counts
  <1>4. CASE FailStale
    BY <1>0, <1>4 DEF FailStale, Status, Ended, TypeOK, files, process, counts
  <1>5. CASE reconcileStale
    BY <1>0, <1>5 DEF reconcileStale, TypeOK, rows, files, counts
  <1>6. CASE FailCandidates
    BY <1>0, <1>6 DEF FailCandidates, Status, Ended, TypeOK, files, counts
  <1>7. CASE ReconcileLost
    BY <1>0, <1>7 DEF ReconcileLost, TypeOK, rows, files, server
  <1>8. ASSUME NEW r \in Runs, recoverRun(r) PROVE TypeOK'
    BY <1>0, <1>8 DEF recoverRun, Status, Ended, TypeOK, files, process, counts
  <1>9. ASSUME NEW r \in Runs, Claimed(r) PROVE TypeOK'
    BY <1>0, <1>9, ClaimType DEF Claimed, claimNextRun, TypeOK, server, counts
  <1>10. ASSUME NEW r \in Runs, SpawnError(r) PROVE TypeOK'
    BY <1>0, <1>10, ClaimType DEF SpawnError, claimNextRun, TypeOK, server
  <1>11. ASSUME NEW r \in Runs, ClaimReplyLost(r) PROVE TypeOK'
    BY <1>0, <1>11, ClaimType DEF ClaimReplyLost, claimNextRun, TypeOK, server, process
  <1>12. CASE updateRunArchive
    BY <1>0, <1>12 DEF updateRunArchive, TypeOK, files, server, counts
  <1>13. CASE ArchiveLost
    BY <1>0, <1>13 DEF ArchiveLost, TypeOK, rows, files, server
  <1>14. CASE ChildClosed
    BY <1>0, <1>14 DEF ChildClosed, TypeOK, rows, files, server, counts
  <1>15. CASE Reported
    BY <1>0, <1>15, FinalizeType DEF Reported, finalizeRun, TypeOK, files, server, counts
  <1>16. CASE FinalizeReplyLost
    BY <1>0, <1>16, FinalizeType DEF FinalizeReplyLost, finalizeRun, Thrown, TypeOK, files, server
  <1>17. CASE FinalizeLost
    BY <1>0, <1>17 DEF FinalizeLost, Thrown, Reports, Ended, TypeOK, rows, files, server
  <1>18. CASE Archived
    BY <1>0, <1>18 DEF Archived, ChildSteps, TypeOK, rows, files, server, counts
  <1>19. CASE Copying
    BY <1>0, <1>19 DEF Copying, ChildSteps, TypeOK, rows, server, counts
  <1>20. CASE Copied
    BY <1>0, <1>20 DEF Copied, ChildSteps, TypeOK, rows, server, counts
  <1>21. CASE Exits
    BY <1>0, <1>21 DEF Exits, ChildSteps, TypeOK, rows, files, server, counts
  <1>22. ASSUME NEW r \in Runs, cancelBackupRun(r) PROVE TypeOK'
    BY <1>0, <1>22 DEF cancelBackupRun, TypeOK, files, server, process, counts
  <1>23. ASSUME NEW r \in Runs, heartbeat(r) PROVE TypeOK'
    BY <1>0, <1>23 DEF heartbeat, TypeOK, server, counts
  <1>24. ASSUME NEW r \in Runs, Expire(r) PROVE TypeOK'
    BY <1>0, <1>24 DEF Expire, TypeOK, files, server, process
  <1>25. ASSUME NEW r \in Runs, Restore(r) PROVE TypeOK'
    BY <1>0, <1>25 DEF Restore, Boot, Status, TypeOK, files
  <1>26. CASE Crash
    BY <1>0, <1>26 DEF Crash, Boot, TypeOK, rows, files
  <1>27. CASE UNCHANGED vars
    BY <1>0, <1>27 DEF TypeOK, vars, rows, files, server, process, counts
  <1> QED
    BY <1>1, <1>2, <1>3, <1>4, <1>5, <1>6, <1>7, <1>8, <1>9, <1>10, <1>11, <1>12, <1>13,
       <1>14, <1>15, <1>16, <1>17, <1>18, <1>19, <1>20, <1>21, <1>22, <1>23, <1>24, <1>25, <1>26, <1>27
    DEF Next, Enqueue, Sweep, Reconcile, Claim, Relay, Finalize, Child

\* The state is well typed in every reachable state.
THEOREM TypeCorrect == Spec => []TypeOK
  <1>1. Init => TypeOK
    <2> SUFFICES ASSUME Init PROVE TypeOK
      OBVIOUS
    <2>1. BoundsOK
      BY BackupAssumption DEF Init, BoundsOK
    <2>2. status \in [Runs -> Status] /\ disk \in [Runs -> {"none", "part", "whole"}]
      BY DEF Init, Status
    <2>3. /\ cancelRequested \in [Runs -> BOOLEAN] /\ fresh \in [Runs -> BOOLEAN]
          /\ stamped \in [Runs -> BOOLEAN] /\ recorded \in [Runs -> BOOLEAN]
          /\ dump \in [Runs -> BOOLEAN]
      BY DEF Init
    <2>4. reconciling \in [Runs -> {"no", "Running", "Failed"}]
      BY DEF Init
    <2>5. cancelSeen \in BOOLEAN /\ archiveCall \in BOOLEAN /\ announced \in BOOLEAN
      BY DEF Init
    <2>6. /\ enqueuing \subseteq Requesters /\ sweep \subseteq Runs
          /\ beating \subseteq Runs
      BY DEF Init
    <2>7. /\ worker = "boot" /\ run = NoRun /\ child = "none"
      BY DEF Init
    <2> QED
      BY <2>1, <2>2, <2>3, <2>4, <2>5, <2>6, <2>7 DEF TypeOK
  <1>2. TypeOK /\ [Next]_vars => TypeOK'
    BY StepType
  <1> QED
    BY <1>1, <1>2, PTL DEF Spec

-----------------------------------------------------------------------------
(* The rows follow the lifecycle, as long as no answer is lost: a worker    *)
(* that does not hear that its Success arrived reports a failure.           *)

Inv == TypeOK /\ KnownRows

\* Nobody acts on a run behind the back of who holds it.
LEMMA KnownRowsKept ==
    ASSUME AtomicSweep, MaxLostReplies = 0, MaxRestores = 0, Inv, [Next]_vars
    PROVE  KnownRows'
  <1> USE DEF Inv
  <1> NoRun \notin Runs
    BY BackupAssumption DEF NoRun
  <1>1. ASSUME NEW a \in Requesters, count(a) PROVE KnownRows'
    BY <1>1 DEF count, KnownRows, TypeOK, rows, server, process
  <1>2. ASSUME NEW a \in Requesters, create(a) PROVE KnownRows'
    BY <1>2 DEF create, Runnable, IsFirst, Unused, KnownRows, TypeOK, rows, server, process
  <1>3. CASE recoverStaleRuns
    BY <1>3 DEF recoverStaleRuns, Stale, KnownRows, TypeOK, rows, server, process
  <1>4. CASE FailStale
    BY <1>4 DEF FailStale, KnownRows, TypeOK, rows, server, process
  <1>5. CASE reconcileStale
    BY <1>5 DEF reconcileStale, Stale, Runnable, KnownRows, TypeOK, rows, server, process
  <1>6. CASE FailCandidates
    BY <1>6 DEF FailCandidates, Runnable, KnownRows, TypeOK, rows, server, process
  <1>7. CASE ReconcileLost
    BY <1>7 DEF ReconcileLost, KnownRows, TypeOK, rows, server, process
  <1>8. ASSUME NEW r \in Runs, recoverRun(r) PROVE KnownRows'
    BY <1>8 DEF recoverRun, Runnable, KnownRows, TypeOK, rows, server, process
  <1>9. ASSUME NEW r \in Runs, Claimed(r) PROVE KnownRows'
    BY <1>9 DEF Claimed, claimNextRun, IsFirst, Queued, Runnable, KnownRows, TypeOK, rows, server, process
  <1>10. ASSUME NEW r \in Runs, SpawnError(r) PROVE KnownRows'
    BY <1>10 DEF SpawnError, claimNextRun, IsFirst, Queued, Runnable, KnownRows, TypeOK, rows, server, process
  <1>11. CASE updateRunArchive
    BY <1>11 DEF updateRunArchive, KnownRows, TypeOK, rows, server, process
  <1>12. CASE ArchiveLost
    BY <1>12 DEF ArchiveLost, KnownRows, TypeOK, rows, server, process
  <1>13. CASE ChildClosed
    BY <1>13 DEF ChildClosed, KnownRows, TypeOK, rows, server, process
  <1>14. CASE Reported
    <2>1. \A r \in Runs : reconciling[r] = "no"
      BY <1>14 DEF Reported, finalizeRun, Reports, Ended, KnownRows
    <2>2. sweep = {} /\ UNCHANGED <<sweep, reconciling>> /\ run' = NoRun
      BY <1>14 DEF Reported, finalizeRun, Runnable, server
    <2> QED
      BY <2>1, <2>2 DEF KnownRows
  <1>15. CASE FinalizeLost
    BY <1>15 DEF FinalizeLost, Thrown, Reports, Ended, KnownRows, TypeOK, rows, server, process
  <1>16. CASE Archived
    BY <1>16 DEF Archived, ChildSteps, KnownRows, TypeOK, rows, server, process
  <1>17. CASE Copying
    BY <1>17 DEF Copying, ChildSteps, KnownRows, TypeOK, rows, server, process
  <1>18. CASE Copied
    BY <1>18 DEF Copied, ChildSteps, KnownRows, TypeOK, rows, server, process
  <1>19. CASE Exits
    BY <1>19 DEF Exits, ChildSteps, KnownRows, TypeOK, rows, server, process
  <1>20. ASSUME NEW r \in Runs, cancelBackupRun(r) PROVE KnownRows'
    BY <1>20 DEF cancelBackupRun, KnownRows, TypeOK, rows, server, process
  <1>21. ASSUME NEW r \in Runs, heartbeat(r) PROVE KnownRows'
    BY <1>21 DEF heartbeat, KnownRows, TypeOK, rows, server, process
  <1>22. ASSUME NEW r \in Runs, Expire(r) PROVE KnownRows'
    BY <1>22 DEF Expire, KnownRows, TypeOK, rows, server, process
  <1>23. CASE Crash
    BY <1>23 DEF Crash, Boot, KnownRows, TypeOK, rows, server, process
  <1>24. \A r \in Runs : ~ClaimReplyLost(r) /\ ~Restore(r)
    BY DEF TypeOK, BoundsOK, ClaimReplyLost, Restore
  <1>25. ~FinalizeReplyLost
    BY DEF TypeOK, BoundsOK, FinalizeReplyLost
  <1>26. CASE UNCHANGED vars
    BY <1>26 DEF KnownRows, vars, rows, server, process
  <1> QED
    BY <1>1, <1>2, <1>3, <1>4, <1>5, <1>6, <1>7, <1>8, <1>9, <1>10, <1>11, <1>12, <1>13,
       <1>14, <1>15, <1>16, <1>17, <1>18, <1>19, <1>20, <1>21, <1>22, <1>23, <1>24, <1>25, <1>26
    DEF Next, Enqueue, Sweep, Reconcile, Claim, Relay, Finalize, Child

LEMMA InvKept ==
    ASSUME AtomicSweep, MaxLostReplies = 0, MaxRestores = 0
    PROVE  Spec => []Inv
  <1>1. Init => KnownRows
    BY DEF Init, KnownRows
  <1>2. KnownRows /\ TypeOK /\ [Next]_vars => KnownRows'
    BY KnownRowsKept DEF Inv
  <1> QED
    BY <1>1, <1>2, TypeCorrect, PTL DEF Spec, Inv

\* Nobody acts on a run behind the back of who holds it.
THEOREM RowsAreKnown ==
    ASSUME AtomicSweep, MaxLostReplies = 0, MaxRestores = 0
    PROVE  Spec => []KnownRows
  BY InvKept, PTL DEF Inv

\* Every step is a step of the lifecycle or leaves the rows' status alone.
LEMMA StepFollowsLifecycle ==
    ASSUME AtomicSweep, MaxLostReplies = 0, MaxRestores = 0, Inv, [Next]_vars
    PROVE  [Lifecycle!Next]_status
  <1> USE DEF Inv
  <1> NoRun \notin Runs
    BY BackupAssumption DEF NoRun
  <1>1. ASSUME NEW a \in Requesters, create(a) PROVE Lifecycle!Next
    <2>1. PICK r \in Runs : IsFirst(r, Unused) /\ status' = [status EXCEPT ![r] = "Queued"]
      BY <1>1 DEF create
    <2> QED
      BY <2>1 DEF IsFirst, Unused, Lifecycle!Next, Lifecycle!Request, Lifecycle!Set
  <1>2. CASE FailStale
    <2>1. sweep \in SUBSET {r \in Runs : status[r] = "Running"}
      BY DEF KnownRows, TypeOK
    <2> QED
      BY <1>2, <2>1 DEF FailStale, Lifecycle!Next, Lifecycle!GiveUp
  <1>3. CASE FailCandidates
    <2> DEFINE S == {r \in Runs : reconciling[r] = "Running" /\ status[r] = "Running"}
    <2>1. S \in SUBSET {r \in Runs : status[r] = "Running"}
      OBVIOUS
    <2>2. status' = [r \in Runs |-> IF r \in S THEN "Failed" ELSE status[r]]
      BY <1>3 DEF FailCandidates, KnownRows
    <2> QED
      BY <2>1, <2>2 DEF Lifecycle!Next, Lifecycle!GiveUp
  <1>4. ASSUME NEW r \in Runs, recoverRun(r) PROVE Lifecycle!Next
    <2>1. status[r] \in {"Running", "Failed"} /\ status' = [status EXCEPT ![r] = "Success"]
      BY <1>4 DEF recoverRun, KnownRows, TypeOK
    <2> QED
      BY <2>1 DEF Lifecycle!Next, Lifecycle!End, Lifecycle!Revise, Lifecycle!Set, Lifecycle!Ended
  <1>5. ASSUME NEW r \in Runs, claimNextRun(r) PROVE Lifecycle!Next
    BY <1>5 DEF claimNextRun, IsFirst, Queued, Lifecycle!Next, Lifecycle!Start, Lifecycle!Set
  <1>6. ASSUME finalizeRun PROVE Lifecycle!Next
    <2>1. run \in Runs
      BY <1>6, FinalizeType
    <2>2. status[run] \in {"Running", "Failed"}
      BY <2>1 DEF KnownRows
    <2>3. Outcome \in Lifecycle!Ended /\ status' = [status EXCEPT ![run] = Outcome]
      BY <1>6 DEF finalizeRun, Reports, Outcome, Ended, Lifecycle!Ended
    <2> QED
      BY <2>1, <2>2, <2>3 DEF Lifecycle!Next, Lifecycle!End, Lifecycle!Revise, Lifecycle!Set
  <1>7. \A r \in Runs : ~Restore(r)
    BY DEF TypeOK, BoundsOK, Restore
  <1>8. \/ UNCHANGED status
        \/ \E a \in Requesters : create(a)
        \/ FailStale \/ FailCandidates \/ finalizeRun
        \/ \E r \in Runs : recoverRun(r) \/ claimNextRun(r)
    BY <1>7 DEF Next, Enqueue, Sweep, Reconcile, Claim, Relay, Finalize, Child, vars, rows,
       count, recoverStaleRuns, reconcileStale, ReconcileLost, Claimed, SpawnError,
       ClaimReplyLost, updateRunArchive, ArchiveLost, ChildClosed, Reported, FinalizeReplyLost,
       FinalizeLost, Archived, Copying, Copied, Exits, cancelBackupRun, heartbeat, Expire, Crash
  <1> QED
    BY <1>1, <1>2, <1>3, <1>4, <1>5, <1>6, <1>8

\* The pipeline implements the lifecycle: whatever calls are lost, however often
\* the worker crashes or goes quiet, a run is started once and a run that ended
\* as Success or Cancelled stays so.
THEOREM PipelineFollowsLifecycle ==
    ASSUME AtomicSweep, MaxLostReplies = 0, MaxRestores = 0
    PROVE  Spec => FollowsLifecycle
  <1>1. Init => Lifecycle!Init
    BY DEF Init, Lifecycle!Init
  <1>2. Inv /\ [Next]_vars => [Lifecycle!Next]_status
    BY StepFollowsLifecycle
  <1> QED
    BY <1>1, <1>2, InvKept, PTL DEF Spec, FollowsLifecycle, Lifecycle!Spec

-----------------------------------------------------------------------------
(* One run in flight.  The two statements of an enqueue are a check and an  *)
(* act on what it found; nothing comes between them if only one asks.       *)

OneRequester == \A a, b \in Requesters : a = b

RoomWhileEnqueuing == enqueuing # {} => InFlight = {}

\* But for create and a restore no step puts a run in flight.
LEMMA FlightsEnd ==
    ASSUME TypeOK, [Next]_vars
    PROVE  \/ InFlight' \subseteq InFlight
           \/ \E a \in Requesters : create(a)
           \/ \E r \in Runs : Restore(r)
  <1>1. CASE FailStale
    BY <1>1 DEF FailStale, InFlight, TypeOK
  <1>2. CASE FailCandidates
    BY <1>2 DEF FailCandidates, InFlight, TypeOK
  <1>3. ASSUME NEW r \in Runs, recoverRun(r) PROVE InFlight' \subseteq InFlight
    BY <1>3 DEF recoverRun, InFlight, TypeOK
  <1>4. ASSUME NEW r \in Runs, claimNextRun(r) PROVE InFlight' \subseteq InFlight
    BY <1>4 DEF claimNextRun, IsFirst, Queued, InFlight, TypeOK
  <1>5. ASSUME finalizeRun PROVE InFlight' \subseteq InFlight
    <2>1. Outcome \notin {"Queued", "Running"}
      BY <1>5 DEF finalizeRun, Reports, Outcome, Ended
    <2>2. run \in Runs /\ status' = [status EXCEPT ![run] = Outcome]
      BY <1>5, FinalizeType DEF finalizeRun
    <2> QED
      BY <2>1, <2>2 DEF InFlight, TypeOK
  <1>6. CASE UNCHANGED status
    BY <1>6 DEF InFlight
  <1> QED
    BY <1>1, <1>2, <1>3, <1>4, <1>5, <1>6
    DEF Next, Enqueue, Sweep, Reconcile, Claim, Relay, Finalize, Child, vars, rows,
        count, recoverStaleRuns, reconcileStale, ReconcileLost, Claimed, SpawnError,
        ClaimReplyLost, updateRunArchive, ArchiveLost, ChildClosed, Reported, FinalizeReplyLost,
        FinalizeLost, Archived, Copying, Copied, Exits, cancelBackupRun, heartbeat, Expire, Crash

\* But for count no step makes anybody enqueue.
LEMMA EnqueuingEnds ==
    ASSUME [Next]_vars
    PROVE  enqueuing' \subseteq enqueuing \/ \E a \in Requesters : count(a)
  <1>1. ASSUME NEW a \in Requesters, create(a) PROVE enqueuing' \subseteq enqueuing
    BY <1>1 DEF create
  <1> QED
    BY <1>1
    DEF Next, Enqueue, Sweep, Reconcile, Claim, Relay, Finalize, Child, vars, server,
        recoverStaleRuns, FailStale, reconcileStale, FailCandidates, ReconcileLost, recoverRun,
        Claimed, SpawnError, ClaimReplyLost, claimNextRun, updateRunArchive, ArchiveLost,
        ChildClosed, Reported, FinalizeReplyLost, FinalizeLost, finalizeRun, Archived, Copying,
        Copied, Exits, cancelBackupRun, heartbeat, Expire, Crash, Restore

LEMMA StepOneInFlight ==
    ASSUME OneRequester, TypeOK, OneInFlight, RoomWhileEnqueuing, [Next]_vars
    PROVE  OneInFlight' /\ RoomWhileEnqueuing'
  <1>1. ASSUME NEW a \in Requesters, create(a) PROVE OneInFlight' /\ RoomWhileEnqueuing'
    <2>1. InFlight = {} /\ enqueuing' = {}
      BY <1>1 DEF create, OneRequester, RoomWhileEnqueuing, TypeOK
    <2>2. PICK r \in Runs : status' = [status EXCEPT ![r] = "Queued"]
      BY <1>1 DEF create
    <2>3. InFlight' \subseteq {r}
      BY <2>1, <2>2 DEF InFlight, TypeOK
    <2> QED
      BY <2>1, <2>3 DEF OneInFlight, RoomWhileEnqueuing
  <1>2. ASSUME NEW r \in Runs, Restore(r) PROVE OneInFlight' /\ RoomWhileEnqueuing'
    <2>1. InFlight = {} /\ enqueuing' = {} /\ status' = [status EXCEPT ![r] = "Running"]
      BY <1>2 DEF Restore
    <2>2. InFlight' \subseteq {r}
      BY <2>1 DEF InFlight, TypeOK
    <2> QED
      BY <2>1, <2>2 DEF OneInFlight, RoomWhileEnqueuing
  <1>3. ASSUME NEW a \in Requesters, count(a) PROVE OneInFlight' /\ RoomWhileEnqueuing'
    BY <1>3 DEF count, rows, InFlight, OneInFlight, RoomWhileEnqueuing
  <1>4. CASE InFlight' \subseteq InFlight /\ enqueuing' \subseteq enqueuing
    BY <1>4 DEF OneInFlight, RoomWhileEnqueuing
  <1> QED
    BY <1>1, <1>2, <1>3, <1>4, FlightsEnd, EnqueuingEnds

\* With one who asks, two runs are never in flight: whatever calls are lost,
\* swept, reconciled, restored or crash between the count and the create.
THEOREM NoOverlap ==
    ASSUME OneRequester
    PROVE  Spec => []OneInFlight
  <1>1. Init => OneInFlight /\ RoomWhileEnqueuing
    BY DEF Init, InFlight, OneInFlight, RoomWhileEnqueuing
  <1>2. TypeOK /\ OneInFlight /\ RoomWhileEnqueuing /\ [Next]_vars
           => OneInFlight' /\ RoomWhileEnqueuing'
    BY StepOneInFlight
  <1> QED
    BY <1>1, <1>2, TypeCorrect, PTL DEF Spec

\* However many ask, each has at most one run in flight or about to be.
Overlap ==
    /\ IsFiniteSet(InFlight)
    /\ Cardinality(InFlight) + Cardinality(enqueuing) <= Cardinality(Requesters)

LEMMA StepOverlap ==
    ASSUME IsFiniteSet(Requesters), Requesters # {}, TypeOK, Overlap, [Next]_vars
    PROVE  Overlap'
  <1>0. /\ Cardinality(InFlight) \in Nat /\ Cardinality(enqueuing) \in Nat
        /\ Cardinality(enqueuing') \in Nat /\ Cardinality(Requesters) \in Nat
        /\ IsFiniteSet(enqueuing) /\ IsFiniteSet(enqueuing')
        /\ Cardinality(enqueuing') <= Cardinality(Requesters)
    <2>1. enqueuing \subseteq Requesters /\ enqueuing' \subseteq Requesters
      BY StepType DEF TypeOK
    <2> QED
      BY <2>1, FS_Subset, FS_CardinalityType DEF Overlap
  <1>1. ASSUME NEW a \in Requesters, count(a) PROVE Overlap'
    <2>1. InFlight' = {}
      BY <1>1 DEF count, InFlight, rows
    <2>2. Cardinality(InFlight') = 0 /\ IsFiniteSet(InFlight')
      BY <2>1, FS_EmptySet
    <2> QED
      BY <1>0, <2>2 DEF Overlap
  <1>2. ASSUME NEW a \in Requesters, create(a) PROVE Overlap'
    <2>1. PICK r \in Runs : IsFirst(r, Unused) /\ status' = [status EXCEPT ![r] = "Queued"]
      BY <1>2 DEF create
    <2>2. InFlight' = InFlight \cup {r} /\ r \notin InFlight
      BY <2>1 DEF InFlight, IsFirst, Unused, TypeOK
    <2>3. Cardinality(InFlight') = Cardinality(InFlight) + 1 /\ IsFiniteSet(InFlight')
      BY <2>2, FS_AddElement DEF Overlap
    <2>4. a \in enqueuing /\ enqueuing' = enqueuing \ {a}
      BY <1>2 DEF create
    <2>5. Cardinality(enqueuing') = Cardinality(enqueuing) - 1
      BY <1>0, <2>4, FS_RemoveElement
    <2> QED
      BY <1>0, <2>3, <2>5 DEF Overlap
  <1>3. ASSUME NEW r \in Runs, Restore(r) PROVE Overlap'
    <2>1. enqueuing' = {} /\ InFlight' \subseteq {r}
      BY <1>3 DEF Restore, InFlight, TypeOK
    <2>2. Cardinality({r}) = 1 /\ IsFiniteSet({r})
      BY FS_Singleton
    <2>3. Cardinality(InFlight') <= 1 /\ IsFiniteSet(InFlight') /\ Cardinality(InFlight') \in Nat
      BY <2>1, <2>2, FS_Subset, FS_CardinalityType
    <2>4. Cardinality(enqueuing') = 0
      BY <2>1, FS_EmptySet
    <2>5. Cardinality(Requesters) # 0
      BY FS_EmptySet
    <2> QED
      BY <1>0, <2>3, <2>4, <2>5 DEF Overlap
  <1>4. CASE InFlight' \subseteq InFlight /\ enqueuing' \subseteq enqueuing
    <2>1. /\ Cardinality(InFlight') <= Cardinality(InFlight)
          /\ Cardinality(enqueuing') <= Cardinality(enqueuing)
          /\ IsFiniteSet(InFlight') /\ Cardinality(InFlight') \in Nat
      BY <1>0, <1>4, FS_Subset, FS_CardinalityType DEF Overlap
    <2> QED
      BY <1>0, <2>1 DEF Overlap
  <1> QED
    BY <1>1, <1>2, <1>3, <1>4, FlightsEnd, EnqueuingEnds

\* The two statements of an enqueue let runs overlap, but only as many as there are
\* who ask: nobody may ask again before all those are over.
THEOREM OverlapBounded ==
    ASSUME IsFiniteSet(Requesters), Requesters # {}
    PROVE  Spec => [](/\ IsFiniteSet(InFlight)
                      /\ Cardinality(InFlight) <= Cardinality(Requesters))
  <1>1. Init => Overlap
    <2> SUFFICES ASSUME Init PROVE Overlap
      OBVIOUS
    <2>1. InFlight = {} /\ enqueuing = {}
      BY DEF Init, InFlight
    <2> QED
      BY <2>1, FS_EmptySet, FS_CardinalityType DEF Overlap
  <1>2. TypeOK /\ Overlap /\ [Next]_vars => Overlap'
    BY StepOverlap
  <1>3. TypeOK /\ Overlap =>
           IsFiniteSet(InFlight) /\ Cardinality(InFlight) <= Cardinality(Requesters)
    <2> SUFFICES ASSUME TypeOK, Overlap
                 PROVE  Cardinality(InFlight) <= Cardinality(Requesters)
      BY DEF Overlap
    <2>1. enqueuing \subseteq Requesters
      BY DEF TypeOK
    <2>2. /\ Cardinality(InFlight) \in Nat /\ Cardinality(enqueuing) \in Nat
          /\ Cardinality(Requesters) \in Nat
      BY <2>1, FS_Subset, FS_CardinalityType DEF Overlap
    <2> QED
      BY <2>2 DEF Overlap
  <1> QED
    BY <1>1, <1>2, <1>3, TypeCorrect, PTL DEF Spec

-----------------------------------------------------------------------------
(* What a successful run has.  The rows are claimed in the order they were  *)
(* created; a part of an archive is one whose run is still to be reported,  *)
(* or was reported, and then its row says that an archive was announced; so *)
(* the reconciliation meets a part it would take for the whole only after a *)
(* crash or two lost calls.                                                 *)

Begun(r) == status[r] \notin {"None", "Queued"}

\* Whoever holds a row holds one that was claimed, and claims are in order.
OrderInv ==
    /\ run # NoRun => Begun(run)
    /\ \A r \in Runs : reconciling[r] # "no" => worker = "reconcile" /\ Begun(r)
    /\ \A r \in sweep : Begun(r)
    /\ \A r, s \in Runs : r < s =>
          /\ status[r] = "None" => status[s] = "None"
          /\ status[r] = "Queued" \/ run = r => ~Begun(s)

\* How far backup.sh is says what it has left at the destination.
ChildInv ==
    /\ worker = "run" <=> child # "none"
    /\ archiveCall => worker = "run"
    /\ child \in {"dumping", "archived"} => disk[run] = "none"
    /\ child = "copying" => disk[run] = "part"
    /\ child \in {"copied", "zero"} \/ worker = "Success" => disk[run] = "whole"
    /\ child \in {"archived", "copying", "copied", "zero"} =>
          announced /\ (archiveCall \/ recorded[run] \/ lostCalls >= 1)

Disturbed == crashes > 0 \/ lostCalls >= 2

ReportUnderWay(r) ==
    /\ run = r
    /\ \/ worker = "run" /\ announced /\ (archiveCall \/ recorded[r] \/ lostCalls >= 1)
       \/ worker \in {"Failed", "Cancelled"} /\ announced /\ (recorded[r] \/ lostCalls >= 1)
       \/ worker = "catch" /\ recorded[r] /\ lostCalls >= 1

Told(r) == status[r] \in Ended /\ (stamped[r] \/ recorded[r])

PartIsKnown(r) == Disturbed \/ ReportUnderWay(r) \/ Told(r)

PartInv == \A r \in Runs : disk[r] = "part" => PartIsKnown(r)

BootInv ==
    /\ \A r \in Runs : ~Begun(r) => disk[r] = "none"
    /\ \A r \in Runs : reconciling[r] # "no" /\ disk[r] = "part" => Disturbed
    /\ worker \in {"boot", "reconcile"} /\ crashes = 0 /\ restores = 0 =>
          \A r \in Runs : disk[r] = "none"

ArchiveInv == OrderInv /\ ChildInv /\ PartInv /\ BootInv /\ SuccessHasArchive

\* The counts are numbers and only grow.
LEMMA CountsGrow ==
    ASSUME TypeOK, [Next]_vars
    PROVE  /\ lostCalls \in Nat /\ crashes \in Nat /\ restores \in Nat
           /\ lostCalls' \in Nat /\ crashes' \in Nat /\ restores' \in Nat
           /\ lostCalls' >= lostCalls /\ crashes' >= crashes /\ restores' >= restores
  <1>1. lostCalls \in Nat /\ crashes \in Nat /\ restores \in Nat
    BY BackupAssumption DEF TypeOK, BoundsOK
  <1>2. /\ lostCalls' = lostCalls \/ lostCalls' = lostCalls + 1
        /\ crashes' = crashes \/ crashes' = crashes + 1
        /\ restores' = restores \/ restores' = restores + 1
    BY CountsStep DEF TypeOK, counts
  <1> QED
    BY <1>1, <1>2

\* Nobody but create and a claim makes anything of a row that was not claimed.
LEMMA ClaimedStaysClaimed ==
    ASSUME TypeOK, OrderInv, [Next]_vars
    PROVE  \/ \E a \in Requesters : create(a)
           \/ \E r \in Runs : claimNextRun(r)
           \/ \A r \in Runs : (Begun(r) /\ Begun(r)') \/ status'[r] = status[r]
  <1>1. CASE FailStale
    BY <1>1 DEF FailStale, OrderInv, Begun, TypeOK
  <1>2. CASE FailCandidates
    BY <1>2 DEF FailCandidates, OrderInv, Begun, TypeOK
  <1>3. ASSUME NEW r \in Runs, recoverRun(r)
        PROVE  \A s \in Runs : (Begun(s) /\ Begun(s)') \/ status'[s] = status[s]
    BY <1>3 DEF recoverRun, OrderInv, Begun, TypeOK
  <1>4. ASSUME finalizeRun
        PROVE  \A s \in Runs : (Begun(s) /\ Begun(s)') \/ status'[s] = status[s]
    <2>1. run \in Runs /\ run # NoRun
      BY <1>4, FinalizeType, BackupAssumption DEF NoRun
    <2>2. Outcome \notin {"None", "Queued"} /\ status' = [status EXCEPT ![run] = Outcome]
      BY <1>4 DEF finalizeRun, Reports, Outcome, Ended
    <2> QED
      BY <2>1, <2>2 DEF OrderInv, Begun, TypeOK
  <1>5. ASSUME NEW r \in Runs, Restore(r)
        PROVE  \A s \in Runs : (Begun(s) /\ Begun(s)') \/ status'[s] = status[s]
    BY <1>5 DEF Restore, Begun, TypeOK
  <1>6. CASE UNCHANGED status
    BY <1>6
  <1> QED
    BY <1>1, <1>2, <1>3, <1>4, <1>5, <1>6
    DEF Next, Enqueue, Sweep, Reconcile, Claim, Relay, Finalize, Child, vars, rows,
        count, recoverStaleRuns, reconcileStale, ReconcileLost, Claimed, SpawnError,
        ClaimReplyLost, updateRunArchive, ArchiveLost, ChildClosed, Reported, FinalizeReplyLost,
        FinalizeLost, Archived, Copying, Copied, Exits, cancelBackupRun, heartbeat, Expire, Crash

\* The sweep and the reconciliation take up only rows that were claimed.
LEMMA HoldersStep ==
    ASSUME TypeOK, OrderInv, [Next]_vars
    PROVE  /\ \A r \in sweep' : Begun(r)
           /\ \A r \in Runs : reconciling'[r] # "no" => worker' = "reconcile" /\ Begun(r)
  <1>1. CASE recoverStaleRuns
    BY <1>1 DEF recoverStaleRuns, Stale, OrderInv, Begun, process
  <1>2. CASE FailStale
    BY <1>2 DEF FailStale, OrderInv, process
  <1>3. CASE reconcileStale
    BY <1>3 DEF reconcileStale, Stale, OrderInv, Begun
  <1>4. CASE FailCandidates
    BY <1>4 DEF FailCandidates, OrderInv
  <1>5. ASSUME NEW r \in Runs, recoverRun(r)
        PROVE  /\ \A s \in sweep' : Begun(s)
               /\ \A s \in Runs : reconciling'[s] # "no" => worker' = "reconcile" /\ Begun(s)
    BY <1>5 DEF recoverRun, OrderInv, process, TypeOK
  <1>6. CASE UNCHANGED <<sweep, reconciling>> /\ (worker = "reconcile" => worker' = worker)
    BY <1>6 DEF OrderInv
  <1>7. CASE UNCHANGED sweep /\ Boot
    BY <1>7 DEF Boot, OrderInv
  <1> USE DEF server, process
  <1>8. CASE Finalize
    <2>1. worker # "reconcile" /\ UNCHANGED server
      BY <1>8 DEF Finalize, Reported, FinalizeReplyLost, FinalizeLost, finalizeRun, Reports, Ended
    <2> QED
      BY <1>6, <2>1
  <1>9. CASE Claim
    <2>1. worker # "reconcile" /\ UNCHANGED server
      BY <1>9 DEF Claim, Claimed, SpawnError, ClaimReplyLost, claimNextRun
    <2> QED
      BY <1>6, <2>1
  <1>10. CASE Relay \/ Child
    BY <1>6, <1>10
    DEF Relay, Child, updateRunArchive, ArchiveLost, ChildClosed, Archived, Copying, Copied,
        Exits, ChildSteps
  <1>11. CASE Enqueue \/ ReconcileLost \/ UNCHANGED vars
    BY <1>6, <1>11 DEF Enqueue, count, create, ReconcileLost, vars
  <1>12. ASSUME NEW r \in Runs, cancelBackupRun(r) \/ heartbeat(r) \/ Expire(r)
         PROVE  UNCHANGED <<sweep, reconciling, worker>>
    BY <1>12 DEF cancelBackupRun, heartbeat, Expire
  <1>13. CASE Crash \/ \E r \in Runs : Restore(r)
    BY <1>7, <1>13 DEF Crash, Restore
  <1> QED
    BY <1>1, <1>2, <1>3, <1>4, <1>5, <1>6, <1>8, <1>9, <1>10, <1>11, <1>12, <1>13
    DEF Next, Sweep, Reconcile

\* The worker takes up a run by a claim only.
LEMMA RunStep ==
    ASSUME TypeOK, [Next]_vars
    PROVE  \/ run' \in {run, NoRun}
           \/ \E r \in Runs : claimNextRun(r) /\ run' = r
  BY DEF Next, Enqueue, Sweep, Reconcile, Claim, Relay, Finalize, Child, vars, process, count,
     create, recoverStaleRuns, FailStale, reconcileStale, FailCandidates, ReconcileLost,
     recoverRun, Claimed, SpawnError, ClaimReplyLost, updateRunArchive, ArchiveLost, ChildClosed,
     Reported, FinalizeReplyLost, FinalizeLost, Thrown, Archived, Copying, Copied, Exits,
     cancelBackupRun, heartbeat, Expire, Crash, Restore, Boot

\* Rows are claimed in the order in which they were created.
LEMMA StepOrder == ASSUME TypeOK, OrderInv, [Next]_vars PROVE OrderInv'
  <1> \A r \in Runs : r \in Int /\ r # NoRun
    BY BackupAssumption DEF NoRun
  <1> NoRun \notin Runs
    OBVIOUS
  <1>1. ASSUME NEW a \in Requesters, create(a) PROVE OrderInv'
    <2>1. PICK r \in Runs : IsFirst(r, Unused) /\ status' = [status EXCEPT ![r] = "Queued"]
      BY <1>1 DEF create
    <2>2. status[r] = "None" /\ \A s \in Runs : status[s] = "None" => r <= s
      BY <2>1 DEF IsFirst, Unused
    <2>3. UNCHANGED <<run, worker, sweep, reconciling>>
      BY <1>1 DEF create, process
    <2>4. \A s \in Runs : s # r => status'[s] = status[s]
      BY <2>1 DEF TypeOK
    <2>5. status'[r] = "Queued"
      BY <2>1 DEF TypeOK
    <2>6. \A s \in Runs : Begun(s)' <=> Begun(s)
      BY <2>2, <2>4, <2>5 DEF Begun
    <2>7. /\ run' # NoRun => Begun(run)'
          /\ \A s \in Runs : reconciling'[s] # "no" => worker' = "reconcile" /\ Begun(s)'
          /\ \A s \in sweep' : Begun(s)'
      BY <2>3, <2>6 DEF OrderInv, TypeOK
    <2>8. ASSUME NEW q \in Runs, NEW s \in Runs, q < s
          PROVE  /\ status'[q] = "None" => status'[s] = "None"
                 /\ status'[q] = "Queued" \/ run' = q => ~Begun(s)'
      <3>1. CASE status[q] = "None"
        <4>1. r <= q /\ status[s] = "None" /\ s # r /\ ~Begun(s)'
          BY <2>2, <2>6, <2>8, <3>1 DEF OrderInv, Begun
        <4> QED
          BY <2>4, <4>1
      <3>2. CASE status[q] # "None"
        BY <2>2, <2>3, <2>4, <2>6, <2>8, <3>2 DEF OrderInv
      <3> QED
        BY <3>1, <3>2
    <2> QED
      BY <2>7, <2>8 DEF OrderInv
  <1>2. ASSUME NEW r \in Runs, claimNextRun(r), run' \in {r, NoRun} PROVE OrderInv'
    <2>1. /\ status[r] = "Queued" /\ \A s \in Runs : status[s] = "Queued" => r <= s
          /\ status' = [status EXCEPT ![r] = "Running"]
          /\ worker = "poll"
      BY <1>2 DEF claimNextRun, IsFirst, Queued
    <2>2. UNCHANGED <<sweep, reconciling>>
      BY <1>2 DEF claimNextRun, server
    <2>3. status'[r] = "Running" /\ \A s \in Runs : s # r => status'[s] = status[s]
      BY <2>1 DEF TypeOK
    <2>4. Begun(r)' /\ \A s \in Runs : s # r => (Begun(s)' <=> Begun(s))
      BY <2>3 DEF Begun
    <2>5. /\ run' # NoRun => Begun(run)'
          /\ \A s \in Runs : reconciling'[s] = "no"
          /\ \A s \in sweep' : Begun(s)'
      BY <1>2, <2>1, <2>2, <2>4 DEF OrderInv, TypeOK
    <2>6. ASSUME NEW q \in Runs, NEW s \in Runs, q < s
          PROVE  /\ status'[q] = "None" => status'[s] = "None"
                 /\ status'[q] = "Queued" \/ run' = q => ~Begun(s)'
      <3>1. CASE q = r
        BY <2>1, <2>3, <2>4, <2>6, <3>1 DEF OrderInv
      <3>2. CASE q # r
        <4>1. run' # q /\ status'[q] = status[q]
          BY <1>2, <2>3, <3>2
        <4>2. status[q] = "Queued" => s # r
          BY <2>1, <2>6, <3>2
        <4>3. status[q] = "None" => s # r
          BY <2>1, <2>6 DEF OrderInv
        <4> QED
          BY <2>3, <2>4, <2>6, <4>1, <4>2, <4>3 DEF OrderInv
      <3> QED
        BY <3>1, <3>2
    <2> QED
      BY <2>5, <2>6 DEF OrderInv
  <1>3. CASE /\ \A r \in Runs : (Begun(r) /\ Begun(r)') \/ status'[r] = status[r]
             /\ run' \in {run, NoRun}
    <2>1. \A r \in Runs : /\ Begun(r) <=> Begun(r)'
                          /\ status'[r] = "None" <=> status[r] = "None"
                          /\ status'[r] = "Queued" <=> status[r] = "Queued"
      BY <1>3 DEF Begun
    <2>2. /\ \A r \in sweep' : Begun(r)'
          /\ \A r \in Runs : reconciling'[r] # "no" => worker' = "reconcile" /\ Begun(r)'
      <3>1. sweep' \subseteq Runs
        BY StepType DEF TypeOK
      <3> QED
        BY <2>1, <3>1, HoldersStep
    <2>3. run' # NoRun => Begun(run)'
      BY <1>3, <2>1 DEF OrderInv, TypeOK
    <2>4. \A r, s \in Runs : r < s =>
             /\ status'[r] = "None" => status'[s] = "None"
             /\ status'[r] = "Queued" \/ run' = r => ~Begun(s)'
      BY <1>3, <2>1 DEF OrderInv
    <2> QED
      BY <2>2, <2>3, <2>4 DEF OrderInv
  <1>4. ASSUME NEW r \in Runs, claimNextRun(r) PROVE run = NoRun
    BY <1>4 DEF claimNextRun, TypeOK
  <1>5. \A r \in Runs, s \in Runs : claimNextRun(r) /\ claimNextRun(s) => r = s
    BY DEF claimNextRun, IsFirst, Queued
  <1>6. \A r \in Runs : claimNextRun(r) => run' \in {r, NoRun}
    BY <1>4, <1>5, RunStep
  <1>7. CASE \E r \in Runs : claimNextRun(r)
    BY <1>2, <1>6, <1>7
  <1>8. CASE ~\E r \in Runs : claimNextRun(r)
    BY <1>1, <1>3, <1>8, RunStep, ClaimedStaysClaimed
  <1> QED
    BY <1>7, <1>8

\* backup.sh leaves at the destination what its progress says.
LEMMA StepChild ==
    ASSUME TypeOK, OrderInv, ChildInv, BootInv, [Next]_vars PROVE ChildInv'
  <1> USE DEF files, rows, server, process, counts
  <1>0. lostCalls \in Nat /\ lostCalls' \in Nat /\ lostCalls' >= lostCalls
    BY CountsGrow
  <1>1. CASE /\ UNCHANGED <<worker, run, child, archiveCall, announced, disk>>
             /\ \A r \in Runs : recorded[r] => recorded'[r]
    <2>1. run \in Runs \/ (child = "none" /\ worker # "Success")
      BY DEF ChildInv, TypeOK
    <2> QED
      BY <1>0, <1>1, <2>1 DEF ChildInv
  <1>2. CASE \/ Enqueue \/ Sweep \/ UNCHANGED vars
             \/ \E r \in Runs : cancelBackupRun(r) \/ Expire(r) \/ ClaimReplyLost(r)
    BY <1>1, <1>2 DEF Enqueue, count, create, Sweep, recoverStaleRuns, FailStale, vars,
                      cancelBackupRun, Expire, ClaimReplyLost, claimNextRun
  <1>3. CASE \E r \in Runs : recoverRun(r)
    BY <1>1, <1>3 DEF recoverRun, TypeOK
  <1>4. CASE reconcileStale \/ FailCandidates \/ ReconcileLost
    BY <1>4 DEF reconcileStale, FailCandidates, ReconcileLost, ChildInv
  <1>5. ASSUME NEW r \in Runs, Claimed(r) \/ SpawnError(r) PROVE ChildInv'
    <2>1. worker = "poll" /\ child = "none" /\ ~archiveCall /\ disk[r] = "none"
      BY <1>5 DEF Claimed, SpawnError, claimNextRun, IsFirst, Queued, ChildInv, BootInv, Begun
    <2>2. UNCHANGED <<disk, archiveCall>> /\ run' = r
      BY <1>5 DEF Claimed, SpawnError, claimNextRun
    <2>3. \/ worker' \in {"Cancelled", "catch"} /\ child' = "none"
          \/ worker' = "run" /\ child' = "dumping"
      BY <1>5, <2>1 DEF Claimed, SpawnError
    <2> QED
      BY <2>1, <2>2, <2>3 DEF ChildInv
  <1>6. ASSUME NEW r \in Runs, heartbeat(r) PROVE ChildInv'
    <2>1. UNCHANGED <<worker, run, archiveCall, announced, recorded, lostCalls>>
      BY <1>6 DEF heartbeat
    <2>2. CASE UNCHANGED <<child, disk>>
      BY <2>1, <2>2 DEF ChildInv
    <2>3. CASE ~UNCHANGED <<child, disk>>
      <3>1. /\ worker = "run" /\ run = r
            /\ child' = IF child \in {"zero", "nonzero"} THEN child ELSE "nonzero"
            /\ disk' = [disk EXCEPT ![r] = IF child = "copying" THEN "whole" ELSE @]
        BY <1>6, <2>3 DEF heartbeat
      <3>2. child # "zero" => child' = "nonzero"
        BY <3>1
      <3>3. CASE child = "zero"
        <4>1. child' = "zero" /\ disk'[run] = disk[run]
          BY <3>1, <3>3 DEF TypeOK
        <4> QED
          BY <2>1, <3>1, <3>3, <4>1 DEF ChildInv
      <3>4. CASE child # "zero"
        BY <2>1, <3>1, <3>2, <3>4 DEF ChildInv
      <3> QED
        BY <3>3, <3>4
    <2> QED
      BY <2>2, <2>3
  <1>7. CASE updateRunArchive
    <2>1. run \in Runs
      BY <1>7 DEF updateRunArchive, ChildInv, TypeOK
    <2>2. recorded'[run] /\ ~archiveCall' /\ run' = run
      BY <1>7, <2>1 DEF updateRunArchive, TypeOK
    <2> QED
      BY <1>7, <2>2 DEF updateRunArchive, ChildInv
  <1>8. CASE ArchiveLost
    <2>1. lostCalls' >= 1
      BY <1>0, <1>8 DEF ArchiveLost
    <2> QED
      BY <1>8, <2>1 DEF ArchiveLost, ChildInv
  <1>9. CASE ChildClosed
    BY <1>9 DEF ChildClosed, ChildInv
  <1>10. CASE Finalize
    <2>1. worker \in Ended \cup {"catch"}
      BY <1>10 DEF Finalize, Reported, FinalizeReplyLost, FinalizeLost, finalizeRun, Reports
    <2>2. worker' \in {"poll", "catch"} /\ UNCHANGED <<child, archiveCall>>
      BY <1>10 DEF Finalize, Reported, FinalizeReplyLost, FinalizeLost, finalizeRun, Thrown
    <2> QED
      BY <2>1, <2>2 DEF ChildInv, Ended
  <1>11. CASE Archived
    BY <1>11 DEF Archived, ChildSteps, ChildInv
  <1>12. CASE Copying
    <2>1. run \in Runs
      BY <1>12 DEF Copying, ChildSteps, TypeOK
    <2>2. disk'[run] = "part"
      BY <1>12, <2>1 DEF Copying, TypeOK
    <2> QED
      BY <1>12, <2>2 DEF Copying, ChildSteps, ChildInv
  <1>13. CASE Copied
    <2>1. run \in Runs
      BY <1>13 DEF Copied, ChildSteps, TypeOK
    <2>2. disk'[run] = "whole"
      BY <1>13, <2>1 DEF Copied, TypeOK
    <2> QED
      BY <1>13, <2>2 DEF Copied, ChildSteps, ChildInv
  <1>14. CASE Exits
    BY <1>14 DEF Exits, ChildSteps, ChildInv
  <1>15. CASE Crash \/ \E r \in Runs : Restore(r)
    BY <1>15 DEF Crash, Restore, Boot, ChildInv
  <1> QED
    BY <1>2, <1>3, <1>4, <1>5, <1>6, <1>7, <1>8, <1>9, <1>10, <1>11, <1>12, <1>13, <1>14, <1>15
    DEF Next, Reconcile, Claim, Relay, Child

\* Where an archive changes at the destination.
LEMMA DiskStep ==
    ASSUME TypeOK, ChildInv, [Next]_vars
    PROVE  \/ UNCHANGED disk
           \/ /\ run \in Runs /\ UNCHANGED <<run, worker, status, reconciling>> /\ worker = "run"
              /\ \A r \in Runs : r # run => disk'[r] = disk[r]
              /\ disk'[run] = "whole" \/ (Copying /\ disk'[run] = "part")
  <1>1. CASE Copying \/ Copied
    BY <1>1 DEF Copying, Copied, ChildSteps, rows, server, TypeOK
  <1>2. ASSUME NEW r \in Runs, heartbeat(r)
        PROVE  \/ UNCHANGED disk
               \/ /\ run \in Runs /\ UNCHANGED <<run, worker, status, reconciling>> /\ worker = "run"
                  /\ \A s \in Runs : s # run => disk'[s] = disk[s]
                  /\ disk'[run] = "whole"
    <2>1. CASE child = "copying"
      BY <1>2, <2>1 DEF heartbeat, server, TypeOK
    <2>2. CASE child # "copying"
      BY <1>2, <2>2 DEF heartbeat, TypeOK
    <2> QED
      BY <2>1, <2>2
  <1> QED
    BY <1>1, <1>2
    DEF Next, Enqueue, Sweep, Reconcile, Claim, Relay, Finalize, Child, vars, files, count,
        create, recoverStaleRuns, FailStale, reconcileStale, FailCandidates, ReconcileLost,
        recoverRun, Claimed, SpawnError, ClaimReplyLost, claimNextRun, updateRunArchive,
        ArchiveLost, ChildClosed, Reported, FinalizeReplyLost, FinalizeLost, finalizeRun,
        Archived, Exits, cancelBackupRun, Expire, Crash, Restore, Boot

\* A row that ended and says that an archive was announced goes on saying so.
LEMMA ToldStays ==
    ASSUME TypeOK, BootInv, [Next]_vars, NEW r \in Runs, disk[r] = "part", Told(r)
    PROVE  Told(r)'
  <1> status[r] \in Ended /\ (stamped[r] \/ recorded[r])
    BY DEF Told
  <1> USE DEF rows, files, server, process
  <1>1. CASE FailStale
    BY <1>1 DEF FailStale, Told, Ended, TypeOK
  <1>2. CASE FailCandidates
    BY <1>2 DEF FailCandidates, Told, Ended, TypeOK
  <1>3. ASSUME NEW q \in Runs, recoverRun(q) PROVE Told(r)'
    BY <1>3 DEF recoverRun, Told, Ended, TypeOK
  <1>4. ASSUME NEW q \in Runs, claimNextRun(q) PROVE Told(r)'
    <2>1. q # r
      BY <1>4 DEF claimNextRun, IsFirst, Queued, Ended
    <2> QED
      BY <1>4, <2>1 DEF claimNextRun, Told, TypeOK
  <1>5. ASSUME NEW a \in Requesters, create(a) PROVE Told(r)'
    <2>1. PICK q \in Runs : IsFirst(q, Unused) /\ status' = [status EXCEPT ![q] = "Queued"]
      BY <1>5 DEF create
    <2>2. q # r
      BY <2>1 DEF IsFirst, Unused, Ended
    <2> QED
      BY <1>5, <2>1, <2>2 DEF create, Told, TypeOK
  <1>6. CASE updateRunArchive
    BY <1>6 DEF updateRunArchive, Told, TypeOK
  <1>7. ASSUME finalizeRun PROVE Told(r)'
    <2>1. run \in Runs /\ Outcome \in Ended
      BY <1>7, FinalizeType DEF finalizeRun, Reports, Outcome, Ended
    <2> HIDE DEF Ended
    <2>2. status'[r] \in Ended
      BY <1>7, <2>1 DEF finalizeRun, TypeOK
    <2>3. (stamped[r] => stamped'[r]) /\ (recorded[r] => recorded'[r])
      BY <1>7, <2>1 DEF finalizeRun, TypeOK
    <2> QED
      BY <2>2, <2>3 DEF Told
  <1>8. ASSUME NEW q \in Runs, Restore(q) PROVE Told(r)'
    BY <1>8 DEF Restore, Told, TypeOK
  <1>9. CASE UNCHANGED <<status, stamped, recorded>>
    BY <1>9 DEF Told
  <1> QED
    BY <1>1, <1>2, <1>3, <1>4, <1>5, <1>6, <1>7, <1>8, <1>9
    DEF Next, Enqueue, Sweep, Reconcile, Claim, Relay, Finalize, Child, vars, count,
        recoverStaleRuns, reconcileStale, ReconcileLost, Claimed, SpawnError,
        ClaimReplyLost, ArchiveLost, ChildClosed, Reported, FinalizeReplyLost,
        FinalizeLost, Archived, Copying, Copied, Exits, cancelBackupRun, heartbeat, Expire, Crash

\* A report that is under way goes on, arrives, or took two lost calls to get lost.
LEMMA ReportGoesOn ==
    ASSUME TypeOK, OrderInv, ChildInv, [Next]_vars,
           NEW r \in Runs, disk[r] = "part", ReportUnderWay(r)
    PROVE  PartIsKnown(r)'
  <1> /\ run = r
      /\ \/ worker = "run" /\ announced /\ (archiveCall \/ recorded[r] \/ lostCalls >= 1)
         \/ worker \in {"Failed", "Cancelled"} /\ announced /\ (recorded[r] \/ lostCalls >= 1)
         \/ worker = "catch" /\ recorded[r] /\ lostCalls >= 1
    BY DEF ReportUnderWay
  <1>0. /\ lostCalls \in Nat /\ crashes \in Nat
        /\ lostCalls' \in Nat /\ lostCalls' >= lostCalls
    BY CountsGrow
  <1>1. CASE /\ UNCHANGED <<worker, run, archiveCall>>
             /\ announced => announced'
             /\ recorded[r] => recorded'[r]
    <2>1. ReportUnderWay(r)'
      BY <1>0, <1>1 DEF ReportUnderWay
    <2> QED
      BY <2>1 DEF PartIsKnown
  <1> USE DEF rows, files, server, process
  <1>2. CASE \/ Enqueue \/ Sweep \/ Child \/ UNCHANGED vars
             \/ \E q \in Runs : cancelBackupRun(q) \/ heartbeat(q) \/ Expire(q)
    BY <1>1, <1>2
    DEF Enqueue, count, create, Sweep, recoverStaleRuns, FailStale, Child, vars, cancelBackupRun,
        heartbeat, Expire, Copying, Copied, Exits, Archived, ChildSteps, ChildInv
  <1>3. CASE Reconcile \/ Claim
    BY <1>3 DEF Reconcile, reconcileStale, FailCandidates, ReconcileLost, recoverRun, Claim,
                Claimed, SpawnError, ClaimReplyLost, claimNextRun
  <1>4. CASE updateRunArchive
    <2>1. recorded'[r] /\ worker = "run"
      BY <1>4 DEF updateRunArchive, ChildInv, TypeOK
    <2>2. ReportUnderWay(r)'
      BY <1>4, <2>1 DEF updateRunArchive, ReportUnderWay
    <2> QED
      BY <2>2 DEF PartIsKnown
  <1>5. CASE ArchiveLost
    <2>1. worker = "run" /\ lostCalls' >= 1
      BY <1>0, <1>5 DEF ArchiveLost, ChildInv
    <2>2. ReportUnderWay(r)'
      BY <1>5, <2>1 DEF ArchiveLost, ReportUnderWay
    <2> QED
      BY <2>2 DEF PartIsKnown
  <1>6. CASE ChildClosed
    <2>1. worker = "run" /\ ~archiveCall /\ child # "zero"
      BY <1>6 DEF ChildClosed, ChildInv
    <2>2. /\ worker' \in {"Failed", "Cancelled"} /\ run' = r /\ announced'
          /\ recorded'[r] \/ lostCalls' >= 1
      BY <1>0, <1>6, <2>1 DEF ChildClosed, counts
    <2>3. ReportUnderWay(r)'
      BY <2>2 DEF ReportUnderWay
    <2> QED
      BY <2>3 DEF PartIsKnown
  <1>7. ASSUME finalizeRun PROVE Told(r)'
    <2>1. status'[r] = Outcome /\ Outcome \in Ended
      BY <1>7 DEF finalizeRun, Reports, Outcome, Ended, TypeOK
    <2>2. CASE worker = "catch"
      <3>1. recorded'[r]
        BY <1>7, <2>2 DEF finalizeRun, TypeOK
      <3> QED
        BY <2>1, <3>1 DEF Told
    <2>3. CASE worker # "catch"
      <3>1. announced /\ stamped'[r] = (stamped[r] \/ (worker # "catch" /\ announced))
        BY <1>7, <2>3 DEF finalizeRun, Reports, Ended, TypeOK
      <3> QED
        BY <2>1, <2>3, <3>1 DEF Told
    <2> QED
      BY <2>2, <2>3
  <1>8. CASE FinalizeLost
    <2>1. lostCalls' = lostCalls + 1 /\ UNCHANGED <<rows, announced>> /\ worker # "run"
      BY <1>8 DEF FinalizeLost, Reports, Ended
    <2>2. CASE lostCalls >= 1
      BY <1>0, <2>1, <2>2 DEF PartIsKnown, Disturbed
    <2>3. CASE ~(lostCalls >= 1)
      <3>1. worker # "catch" /\ recorded[r]
        BY <2>1, <2>3
      <3>2. worker' = "catch" /\ run' = r /\ recorded'[r] /\ lostCalls' >= 1
        BY <1>0, <1>8, <2>1, <3>1 DEF FinalizeLost, Thrown
      <3> QED
        BY <3>2 DEF PartIsKnown, ReportUnderWay
    <2> QED
      BY <2>2, <2>3
  <1>9. CASE Crash
    BY <1>0, <1>9 DEF Crash, PartIsKnown, Disturbed
  <1>10. ASSUME NEW q \in Runs, Restore(q) PROVE FALSE
    <2>1. r # NoRun /\ Begun(r) /\ q \in Int /\ r \in Int
      BY BackupAssumption DEF OrderInv, NoRun
    <2>2. /\ q # r /\ status[q] = "Success"
          /\ \A s \in Runs : s > q => status[s] = "None"
      BY <1>10 DEF Restore
    <2>3. ~(r > q)
      BY <2>1, <2>2 DEF Begun
    <2>4. ~(r < q)
      BY <2>2 DEF OrderInv, Begun
    <2> QED
      BY <2>1, <2>2, <2>3, <2>4
  <1>11. CASE Finalize
    BY <1>7, <1>8, <1>11 DEF Finalize, Reported, FinalizeReplyLost, PartIsKnown
  <1> QED
    BY <1>2, <1>3, <1>4, <1>5, <1>6, <1>9, <1>10, <1>11 DEF Next, Relay

LEMMA StepPart ==
    ASSUME TypeOK, OrderInv, ChildInv, PartInv, BootInv, [Next]_vars PROVE PartInv'
  <1> SUFFICES ASSUME NEW r \in Runs, disk'[r] = "part" PROVE PartIsKnown(r)'
    BY DEF PartInv
  <1>1. CASE Copying /\ run = r
    <2>1. ChildInv'
      BY StepChild
    <2>2. worker' = "run" /\ child' = "copying" /\ run' = r
      BY <1>1 DEF Copying, ChildSteps
    <2> QED
      BY <2>1, <2>2 DEF ChildInv, PartIsKnown, ReportUnderWay
  <1>2. CASE ~(Copying /\ run = r)
    <2>1. disk[r] = "part"
      BY <1>2, DiskStep
    <2>2. CASE Disturbed
      BY <2>2, CountsGrow DEF Disturbed, PartIsKnown
    <2>3. CASE ReportUnderWay(r)
      BY <2>1, <2>3, ReportGoesOn
    <2>4. CASE Told(r)
      BY <2>1, <2>4, ToldStays DEF PartIsKnown
    <2> QED
      BY <2>1, <2>2, <2>3, <2>4 DEF PartInv, PartIsKnown
  <1> QED
    BY <1>1, <1>2

\* A row that was claimed is never again one that was not.
LEMMA BegunStays ==
    ASSUME TypeOK, OrderInv, [Next]_vars, NEW r \in Runs, Begun(r) PROVE Begun(r)'
  <1>1. ASSUME NEW a \in Requesters, create(a) PROVE Begun(r)'
    <2>1. PICK q \in Runs : IsFirst(q, Unused) /\ status' = [status EXCEPT ![q] = "Queued"]
      BY <1>1 DEF create
    <2>2. q # r
      BY <2>1 DEF IsFirst, Unused, Begun
    <2> QED
      BY <2>1, <2>2 DEF Begun, TypeOK
  <1>2. ASSUME NEW q \in Runs, claimNextRun(q) PROVE Begun(r)'
    BY <1>2 DEF claimNextRun, Begun, TypeOK
  <1> QED
    BY <1>1, <1>2, ClaimedStaysClaimed DEF Begun

\* The reconciliation meets what its boot found.
LEMMA BootStep ==
    ASSUME TypeOK, OrderInv, [Next]_vars
    PROVE  /\ \A r \in Runs :
                 reconciling'[r] # "no" => reconcileStale \/ reconciling[r] # "no"
           /\ worker' \in {"boot", "reconcile"} =>
                 \/ worker \in {"boot", "reconcile"}
                 \/ crashes' = crashes + 1 \/ restores' = restores + 1
  <1>1. CASE FailCandidates
    BY <1>1 DEF FailCandidates
  <1>2. ASSUME NEW q \in Runs, recoverRun(q)
        PROVE  /\ \A r \in Runs : reconciling'[r] # "no" => reconciling[r] # "no"
               /\ worker' = worker
    BY <1>2 DEF recoverRun, process, TypeOK
  <1>3. CASE Crash \/ \E q \in Runs : Restore(q)
    BY <1>3 DEF Crash, Restore, Boot
  <1>4. CASE reconcileStale
    BY <1>4 DEF reconcileStale
  <1>5. CASE UNCHANGED reconciling /\ (worker' = worker \/ worker' \notin {"boot", "reconcile"})
    BY <1>5
  <1>6. CASE Finalize
    <2>1. worker' \in {"poll", "catch"} /\ UNCHANGED reconciling
      BY <1>6 DEF Finalize, Reported, FinalizeReplyLost, FinalizeLost, finalizeRun, Thrown, server
    <2> QED
      BY <2>1, <1>5
  <1>7. CASE Claim
    <2>1. worker' \notin {"boot", "reconcile"} /\ UNCHANGED reconciling
      BY <1>7 DEF Claim, Claimed, SpawnError, ClaimReplyLost, claimNextRun, server, process
    <2> QED
      BY <2>1, <1>5
  <1>8. CASE Relay
    <2>1. UNCHANGED reconciling /\ worker' \in {worker, "Success", "Failed", "Cancelled"}
      BY <1>8 DEF Relay, updateRunArchive, ArchiveLost, ChildClosed, server
    <2> QED
      BY <2>1, <1>5
  <1> QED
    BY <1>1, <1>2, <1>3, <1>4, <1>5, <1>6, <1>7, <1>8
    DEF Next, Enqueue, Sweep, Reconcile, Child, vars, server, process, count, create,
        recoverStaleRuns, FailStale, ReconcileLost, Archived, Copying, Copied, Exits, ChildSteps,
        cancelBackupRun, heartbeat, Expire

LEMMA StepBoot ==
    ASSUME TypeOK, OrderInv, ChildInv, PartInv, BootInv, [Next]_vars PROVE BootInv'
  <1>1. ASSUME NEW r \in Runs, ~Begun(r)' PROVE disk'[r] = "none"
    <2>1. ~Begun(r) /\ disk[r] = "none"
      BY <1>1, BegunStays DEF BootInv
    <2>2. run # r
      BY <2>1, BackupAssumption DEF OrderInv, NoRun
    <2> QED
      BY <2>1, <2>2, DiskStep
  <1>2. ASSUME NEW r \in Runs, reconciling'[r] # "no", disk'[r] = "part" PROVE Disturbed'
    <2>1. worker' = "reconcile"
      BY <1>2, HoldersStep
    <2>2. UNCHANGED disk
      BY <2>1, DiskStep
    <2>3. CASE reconciling[r] # "no"
      BY <1>2, <2>2, <2>3, CountsGrow DEF BootInv, Disturbed
    <2>4. CASE reconcileStale
      <3>1. worker = "boot"
        BY <2>4 DEF reconcileStale
      <3>2. run # r
        BY <3>1, BackupAssumption DEF TypeOK, NoRun
      <3>3. r \in Stale \/ (status[r] = "Failed" /\ ~stamped[r] /\ ~recorded[r])
        BY <1>2, <2>4 DEF reconcileStale
      <3>4. ~Told(r) /\ ~ReportUnderWay(r)
        BY <3>2, <3>3 DEF Told, ReportUnderWay, Stale, Ended
      <3>5. Disturbed
        BY <1>2, <2>2, <3>4 DEF PartInv, PartIsKnown
      <3> QED
        BY <3>5, CountsGrow DEF Disturbed
    <2> QED
      BY <1>2, <2>3, <2>4, BootStep
  <1>3. ASSUME worker' \in {"boot", "reconcile"}, crashes' = 0, restores' = 0, NEW r \in Runs
        PROVE  disk'[r] = "none"
    <2>1. crashes = 0 /\ restores = 0
      BY <1>3, CountsGrow
    <2>2. worker \in {"boot", "reconcile"}
      BY <1>3, <2>1, BootStep
    <2>3. UNCHANGED disk
      BY <2>2, DiskStep
    <2> QED
      BY <2>1, <2>2, <2>3 DEF BootInv
  <1> QED
    BY <1>1, <1>2, <1>3 DEF BootInv

\* A row becomes Success by a report of a copy that ended, or by the
\* reconciliation, which takes for an archive what it finds.
LEMMA SuccessStep ==
    ASSUME TypeOK, [Next]_vars, NEW r \in Runs, status'[r] = "Success"
    PROVE  \/ status[r] = "Success"
           \/ worker = "Success" /\ run = r /\ UNCHANGED disk
           \/ worker = "reconcile" /\ reconciling[r] # "no" /\ disk[r] # "none" /\ UNCHANGED disk
  <1>1. ASSUME NEW a \in Requesters, create(a) PROVE status[r] = "Success"
    BY <1>1 DEF create, TypeOK
  <1>2. CASE FailStale
    BY <1>2 DEF FailStale
  <1>3. CASE FailCandidates
    BY <1>3 DEF FailCandidates
  <1>4. ASSUME NEW q \in Runs, recoverRun(q)
        PROVE  \/ status[r] = "Success"
               \/ /\ worker = "reconcile" /\ reconciling[r] # "no"
                  /\ disk[r] # "none" /\ UNCHANGED disk
    BY <1>4 DEF recoverRun, TypeOK, files
  <1>5. ASSUME NEW q \in Runs, claimNextRun(q) PROVE status[r] = "Success"
    BY <1>5 DEF claimNextRun, TypeOK
  <1>6. ASSUME finalizeRun
        PROVE  status[r] = "Success" \/ (worker = "Success" /\ run = r /\ UNCHANGED disk)
    <2>1. status' = [status EXCEPT ![run] = Outcome] /\ UNCHANGED disk
      BY <1>6 DEF finalizeRun, files
    <2>2. Outcome = "Success" => worker = "Success"
      BY DEF Outcome
    <2> QED
      BY <2>1, <2>2 DEF TypeOK
  <1>7. ASSUME NEW q \in Runs, Restore(q) PROVE status[r] = "Success"
    BY <1>7 DEF Restore, TypeOK
  <1>8. CASE UNCHANGED status
    BY <1>8
  <1> QED
    BY <1>1, <1>2, <1>3, <1>4, <1>5, <1>6, <1>7, <1>8
    DEF Next, Enqueue, Sweep, Reconcile, Claim, Relay, Finalize, Child, vars, rows,
        count, recoverStaleRuns, reconcileStale, ReconcileLost, Claimed, SpawnError,
        ClaimReplyLost, updateRunArchive, ArchiveLost, ChildClosed, Reported, FinalizeReplyLost,
        FinalizeLost, Archived, Copying, Copied, Exits, cancelBackupRun, heartbeat, Expire, Crash

LEMMA StepSuccess ==
    ASSUME TypeOK, ArchiveInv, [Next]_vars PROVE SuccessHasArchive'
  <1> USE DEF ArchiveInv
  <1> SUFFICES ASSUME NEW r \in Runs, status'[r] = "Success"
               PROVE  \/ disk'[r] = "whole"
                      \/ /\ disk'[r] = "part"
                         /\ crashes' > 0 \/ (restores' > 0 /\ lostCalls' >= 2)
    BY DEF SuccessHasArchive
  <1>0. /\ lostCalls \in Nat /\ crashes \in Nat /\ restores \in Nat
        /\ lostCalls' \in Nat /\ crashes' \in Nat /\ restores' \in Nat
        /\ lostCalls' >= lostCalls /\ crashes' >= crashes /\ restores' >= restores
    BY CountsGrow
  <1>1. CASE status[r] = "Success"
    <2>1. ~(Copying /\ run = r)
      BY <1>1 DEF Copying, ChildSteps, ChildInv, SuccessHasArchive
    <2>2. disk'[r] = disk[r] \/ disk'[r] = "whole"
      BY <2>1, DiskStep
    <2>3. \/ disk[r] = "whole"
          \/ disk[r] = "part" /\ (crashes > 0 \/ (restores > 0 /\ lostCalls >= 2))
      BY <1>1 DEF SuccessHasArchive
    <2> QED
      BY <1>0, <2>2, <2>3
  <1>2. CASE worker = "Success" /\ run = r /\ UNCHANGED disk
    BY <1>2 DEF ChildInv
  <1>3. CASE worker = "reconcile" /\ reconciling[r] # "no" /\ disk[r] # "none" /\ UNCHANGED disk
    <2>1. disk[r] = "part" \/ disk[r] = "whole"
      BY <1>3 DEF TypeOK
    <2>2. CASE disk[r] = "part"
      <3>1. crashes > 0 \/ lostCalls >= 2
        BY <1>3, <2>2 DEF BootInv, Disturbed
      <3>2. crashes # 0 \/ restores # 0
        BY <1>3 DEF BootInv
      <3> QED
        BY <1>0, <1>3, <2>2, <3>1, <3>2
    <2> QED
      BY <1>3, <2>1, <2>2
  <1> QED
    BY <1>1, <1>2, <1>3, SuccessStep

LEMMA InitArchive == Init => ArchiveInv
  <1> SUFFICES ASSUME Init PROVE ArchiveInv
    OBVIOUS
  <1>1. OrderInv
    BY DEF Init, OrderInv, Begun
  <1>2. ChildInv
    BY DEF Init, ChildInv
  <1>3. PartInv
    BY DEF Init, PartInv
  <1>4. BootInv
    BY DEF Init, BootInv
  <1>5. SuccessHasArchive
    BY DEF Init, SuccessHasArchive
  <1> QED
    BY <1>1, <1>2, <1>3, <1>4, <1>5 DEF ArchiveInv

LEMMA ArchiveInvariant == Spec => [](TypeOK /\ ArchiveInv)
  <1>1. TypeOK /\ ArchiveInv /\ [Next]_vars => ArchiveInv'
    BY StepOrder, StepChild, StepPart, StepBoot, StepSuccess DEF ArchiveInv
  <1> QED
    BY <1>1, InitArchive, TypeCorrect, PTL DEF Spec

\* A run shown as successful has its archive at the destination, whatever is
\* lost, swept, reconciled or restored, whoever enqueues it and whatever the
\* sweep runs into.
THEOREM SuccessIsArchived == Spec => []SuccessHasArchive
  BY ArchiveInvariant, PTL DEF ArchiveInv

\* A run is never claimed twice and a row is never used for a second run,
\* although a row may well return to running.
THEOREM StartedOnce ==
    Spec => [][\A r \in Runs : /\ status[r] # "None" => status'[r] # "None"
                               /\ Begun(r) => Begun(r)']_vars
  <1> DEFINE Kept == \A r \in Runs : /\ status[r] # "None" => status'[r] # "None"
                                     /\ Begun(r) => Begun(r)'
  <1>1. TypeOK /\ ArchiveInv /\ [Next]_vars => [Kept]_vars
    <2> SUFFICES ASSUME TypeOK, OrderInv, [Next]_vars PROVE Kept
      BY DEF ArchiveInv
    <2>1. ASSUME NEW r \in Runs, status[r] # "None" PROVE status'[r] # "None"
      <3>1. ASSUME NEW a \in Requesters, create(a) PROVE status'[r] # "None"
        BY <2>1, <3>1 DEF create, TypeOK
      <3>2. ASSUME NEW q \in Runs, claimNextRun(q) PROVE status'[r] # "None"
        BY <2>1, <3>2 DEF claimNextRun, TypeOK
      <3> QED
        BY <2>1, <3>1, <3>2, ClaimedStaysClaimed DEF Begun
    <2> QED
      BY <2>1, BegunStays
  <1> QED
    BY <1>1, ArchiveInvariant, PTL DEF Spec

-----------------------------------------------------------------------------
(* Who takes an end back.  Success and Cancelled are final in the           *)
(* lifecycle; in the code three things revise them, and nothing else does.  *)

\* The sidecar and the reconciliation hold runs that have not ended, but for
\* the sidecar when it is about to report that its report has failed.
HeldRows ==
    /\ run # NoRun => status[run] \in {"Running", "Failed"} \/ worker = "catch"
    /\ \A r \in Runs :
          /\ reconciling[r] # "no" => worker = "reconcile"
          /\ reconciling[r] = "Running" => status[r] \in {"Running", "Failed"}
          /\ reconciling[r] = "Failed" => status[r] = "Failed"

LEMMA StepHeld == ASSUME TypeOK, HeldRows, [Next]_vars PROVE HeldRows'
  <1> NoRun \notin Runs
    BY BackupAssumption DEF NoRun
  <1> USE DEF rows, server, process
  <1>1. ASSUME NEW a \in Requesters, create(a) PROVE HeldRows'
    BY <1>1 DEF create, IsFirst, Unused, HeldRows, TypeOK
  <1>2. CASE FailStale
    BY <1>2 DEF FailStale, HeldRows, TypeOK
  <1>3. CASE reconcileStale
    BY <1>3 DEF reconcileStale, Stale, HeldRows, TypeOK
  <1>4. CASE FailCandidates
    BY <1>4 DEF FailCandidates, HeldRows, TypeOK
  <1>5. ASSUME NEW r \in Runs, recoverRun(r) PROVE HeldRows'
    BY <1>5 DEF recoverRun, HeldRows, TypeOK
  <1>6. ASSUME NEW r \in Runs, Claimed(r) PROVE HeldRows'
    BY <1>6 DEF Claimed, claimNextRun, HeldRows, TypeOK
  <1>7. ASSUME NEW r \in Runs, SpawnError(r) PROVE HeldRows'
    BY <1>7 DEF SpawnError, claimNextRun, HeldRows, TypeOK
  <1>8. ASSUME NEW r \in Runs, ClaimReplyLost(r) PROVE HeldRows'
    BY <1>8 DEF ClaimReplyLost, claimNextRun, HeldRows, TypeOK
  <1>9. CASE Finalize
    <2>1. worker # "reconcile" /\ UNCHANGED reconciling
      BY <1>9 DEF Finalize, Reported, FinalizeReplyLost, FinalizeLost, finalizeRun, Reports, Ended
    <2>2. run' = NoRun \/ worker' = "catch"
      BY <1>9 DEF Finalize, Reported, FinalizeReplyLost, FinalizeLost, Thrown
    <2> QED
      BY <2>1, <2>2 DEF HeldRows
  <1>10. CASE Crash \/ \E r \in Runs : Restore(r)
    BY <1>10 DEF Crash, Restore, Boot, HeldRows
  <1>11. CASE ChildClosed
    BY <1>11 DEF ChildClosed, HeldRows, TypeOK
  <1>12. CASE ReconcileLost
    BY <1>12 DEF ReconcileLost, HeldRows, TypeOK
  <1>13. CASE UNCHANGED <<status, run, worker, reconciling>>
    BY <1>13 DEF HeldRows, TypeOK
  <1> QED
    BY <1>1, <1>2, <1>3, <1>4, <1>5, <1>6, <1>7, <1>8, <1>9, <1>10, <1>11, <1>12, <1>13
    DEF Next, Enqueue, Sweep, Reconcile, Claim, Relay, Child, vars, count, recoverStaleRuns,
        updateRunArchive, ArchiveLost, Archived, Copying, Copied, Exits, cancelBackupRun,
        heartbeat, Expire

\* A run that ended as Success or Cancelled stays so, unless the sweep had found
\* it stale before it ended, the sidecar reports as failed a report that had
\* arrived, or the run's own dump is restored.
THEOREM EndedForGood == Spec => EndsForGood
  <1> DEFINE Revised(r) == status[r] \in {"Success", "Cancelled"} /\ status'[r] # status[r]
             Excused(r) == \/ FailStale /\ r \in sweep
                           \/ finalizeRun /\ run = r /\ worker = "catch"
                           \/ Restore(r)
             Kept       == \A r \in Runs : Revised(r) => Excused(r)
  <1>1. Init => HeldRows
    BY DEF Init, HeldRows
  <1>2. TypeOK /\ HeldRows /\ [Next]_vars => HeldRows'
    BY StepHeld
  <1>3. TypeOK /\ HeldRows /\ [Next]_vars => [Kept]_vars
    <2> SUFFICES ASSUME TypeOK, HeldRows, [Next]_vars, NEW r \in Runs, Revised(r)
                 PROVE  Excused(r)
      OBVIOUS
    <2>1. ASSUME NEW a \in Requesters, create(a) PROVE FALSE
      BY <2>1 DEF create, IsFirst, Unused, TypeOK
    <2>2. CASE FailStale
      BY <2>2 DEF FailStale
    <2>3. CASE FailCandidates
      BY <2>3 DEF FailCandidates, HeldRows
    <2>4. ASSUME NEW q \in Runs, recoverRun(q) PROVE FALSE
      BY <2>4 DEF recoverRun, HeldRows, TypeOK
    <2>5. ASSUME NEW q \in Runs, claimNextRun(q) PROVE FALSE
      BY <2>5 DEF claimNextRun, IsFirst, Queued, TypeOK
    <2>6. ASSUME finalizeRun PROVE Excused(r)
      <3>1. run = r /\ run # NoRun
        BY <2>6, FinalizeType, BackupAssumption DEF finalizeRun, TypeOK, NoRun
      <3>2. worker = "catch"
        BY <3>1 DEF HeldRows
      <3> QED
        BY <2>6, <3>1, <3>2
    <2>7. ASSUME NEW q \in Runs, Restore(q) PROVE Excused(r)
      BY <2>7 DEF Restore, TypeOK
    <2> QED
      BY <2>1, <2>2, <2>3, <2>4, <2>5, <2>6, <2>7
      DEF Next, Enqueue, Sweep, Reconcile, Claim, Relay, Finalize, Child, vars, rows,
          count, recoverStaleRuns, reconcileStale, ReconcileLost, Claimed, SpawnError,
          ClaimReplyLost, updateRunArchive, ArchiveLost, ChildClosed, Reported,
          FinalizeReplyLost, FinalizeLost, Archived, Copying, Copied, Exits, cancelBackupRun,
          heartbeat, Expire, Crash
  <1> QED
    BY <1>1, <1>2, <1>3, TypeCorrect, PTL DEF Spec, EndsForGood

=============================================================================
