----------------------------- MODULE BackupRun -----------------------------
(***************************************************************************)
(* The backup pipeline.  The server keeps a row per BackupRun: an admin or *)
(* the policy's cron enqueues it, an hourly task fails the rows whose      *)
(* worker has gone quiet.  The sidecar worker reconciles at boot, claims   *)
(* the oldest queued run, spawns backup.sh, relays its events, sends a     *)
(* heartbeat every few seconds from an interval of its own, and reports    *)
(* how the run ended.  Every call of the worker is an HTTP request that    *)
(* may be lost, or carried out with its answer lost.                       *)
(*                                                                         *)
(* backup.sh and the archive directory are here as far as the rows depend  *)
(* on them: whether the archive of a run is at the local destination.      *)
(***************************************************************************)
EXTENDS Integers

CONSTANTS
    Runs,           \* run identities, in the order they are created
    Requesters,     \* who enqueues: the admin's mutation, the policy's cron
    AtomicSweep,    \* TRUE: nothing runs between the query and the update of the sweep
    MaxLostCalls,   \* bound: requests of the worker that do not reach the server
    MaxLostReplies, \* bound: requests carried out whose answer is lost
    MaxSpawnErrors, \* bound: backup.sh cannot be spawned
    MaxOutages,     \* bound: heartbeats failing for longer than the stale threshold
    MaxCrashes,     \* bound: crashes of the sidecar
    MaxRestores     \* bound: restores of a database dump

ASSUME BackupAssumption ==
    /\ Runs \subseteq Nat
    /\ AtomicSweep \in BOOLEAN
    /\ {MaxLostCalls, MaxLostReplies, MaxSpawnErrors, MaxOutages, MaxCrashes, MaxRestores}
          \subseteq Nat

NoRun == -1

VARIABLES
    \* the BackupRun rows
    status,
    cancelRequested,
    fresh,       \* heartbeatAt is younger than the stale threshold
    stamped,     \* keyFingerprint is not null
    recorded,    \* archivePath or archiveSha256 is not null
    \* the archives
    disk,        \* the archive at the local destination: "none", "part" or "whole"
    dump,        \* whether the row in the run's own database dump is stamped
    \* the server
    enqueuing,   \* requesters that have counted no run in flight
    sweep,       \* the stale runs recoverStaleRuns has found
    reconciling, \* the candidates of reconcileStale, as they were found
    \* the sidecar
    worker,      \* where its main loop is
    run,         \* the run it works on
    child,       \* the backup.sh process
    cancelSeen,
    archiveCall, \* the archive event is on its way to the server
    announced,   \* ... and finalState carries its path, checksum and fingerprint
    beating,     \* runs with a heartbeat interval
    \* how often things went wrong
    lostCalls, lostReplies, spawnErrors, outages, crashes, restores

rows    == <<status, cancelRequested, fresh, stamped, recorded>>
files   == <<disk, dump>>
server  == <<enqueuing, sweep, reconciling>>
process == <<worker, run, child, cancelSeen, archiveCall, announced, beating>>
counts  == <<lostCalls, lostReplies, spawnErrors, outages, crashes, restores>>
vars    == <<rows, files, server, process, counts>>

Ended  == {"Success", "Failed", "Cancelled"}
Status == {"None", "Queued", "Running"} \cup Ended

BoundsOK ==
    /\ lostCalls \in 0..MaxLostCalls /\ lostReplies \in 0..MaxLostReplies
    /\ spawnErrors \in 0..MaxSpawnErrors /\ outages \in 0..MaxOutages
    /\ crashes \in 0..MaxCrashes /\ restores \in 0..MaxRestores

TypeOK ==
    /\ status \in [Runs -> Status]
    /\ cancelRequested \in [Runs -> BOOLEAN] /\ fresh \in [Runs -> BOOLEAN]
    /\ stamped \in [Runs -> BOOLEAN] /\ recorded \in [Runs -> BOOLEAN]
    /\ dump \in [Runs -> BOOLEAN]
    /\ disk \in [Runs -> {"none", "part", "whole"}]
    /\ enqueuing \subseteq Requesters
    /\ sweep \subseteq Runs
    /\ reconciling \in [Runs -> {"no", "Running", "Failed"}]
    /\ worker \in {"boot", "reconcile", "poll", "run", "Success", "Failed", "Cancelled", "catch"}
    /\ run \in Runs \cup {NoRun}
    /\ (run = NoRun) <=> (worker \in {"boot", "reconcile", "poll"})
    /\ child \in {"none", "dumping", "archived", "copying", "copied", "zero", "nonzero"}
    /\ cancelSeen \in BOOLEAN /\ archiveCall \in BOOLEAN /\ announced \in BOOLEAN
    /\ beating \subseteq Runs
    /\ BoundsOK

-----------------------------------------------------------------------------
(* The server *)

\* With AtomicSweep the server finishes a sweep before it does anything else.
Runnable == AtomicSweep => sweep = {}

InFlight      == {r \in Runs : status[r] \in {"Queued", "Running"}}
Unused        == {r \in Runs : status[r] = "None"}
Queued        == {r \in Runs : status[r] = "Queued"}
\* Mutant of Stale: a queued run, which has no heartbeat yet, is stale too.
StaleInFlight == {r \in Runs : status[r] \in {"Queued", "Running"} /\ ~fresh[r]}

\* Mutant of Stale: only rows without any heartbeat, which a claim never leaves.
StaleWithoutHeartbeat == {}

Stale         == {r \in Runs : status[r] = "Running" /\ ~fresh[r]}
IsFirst(r, S) == r \in S /\ \A s \in S : r <= s

\* Mutant of count: a queued run does not count.
countRunning(a) ==
    /\ Runnable /\ a \notin enqueuing
    /\ \A r \in Runs : status[r] # "Running"
    /\ enqueuing' = enqueuing \cup {a}
    /\ UNCHANGED <<rows, files, sweep, reconciling, process, counts>>

\* triggerBackupRun and enqueueScheduledRun count the runs in flight ...
count(a) ==
    /\ Runnable /\ a \notin enqueuing
    /\ InFlight = {}
    /\ enqueuing' = enqueuing \cup {a}
    /\ UNCHANGED <<rows, files, sweep, reconciling, process, counts>>

\* ... and then create one.
create(a) ==
    /\ Runnable /\ a \in enqueuing
    /\ \E r \in Runs : IsFirst(r, Unused) /\ status' = [status EXCEPT ![r] = "Queued"]
    /\ enqueuing' = enqueuing \ {a}
    /\ UNCHANGED <<cancelRequested, fresh, stamped, recorded, files, sweep, reconciling,
                   process, counts>>

cancelBackupRun(r) ==
    /\ Runnable /\ status[r] # "None" /\ ~cancelRequested[r]
    /\ cancelRequested' = [cancelRequested EXCEPT ![r] = TRUE]
    /\ UNCHANGED <<status, fresh, stamped, recorded, files, server, process, counts>>

\* recoverStaleRuns, at startup and every hour, looks for stale runs ...
recoverStaleRuns ==
    /\ sweep = {} /\ Stale # {}
    /\ sweep' = Stale
    /\ UNCHANGED <<rows, files, enqueuing, reconciling, process, counts>>

\* ... and fails what it found.
FailStale ==
    /\ sweep # {}
    /\ status' = [r \in Runs |-> IF r \in sweep THEN "Failed" ELSE status[r]]
    /\ sweep' = {}
    /\ UNCHANGED <<cancelRequested, fresh, stamped, recorded, files, enqueuing, reconciling,
                   process, counts>>

-----------------------------------------------------------------------------
(* reconcileStale, called by the worker when it boots *)

\* Mutant of reconcileStale: any run that ended without a recorded archive is a candidate.
reconcileStale_ended ==
    /\ Runnable /\ worker = "boot"
    /\ worker' = "reconcile"
    /\ reconciling' =
          [r \in Runs |->
              IF r \in Stale THEN "Running"
              ELSE IF status[r] \in {"Failed", "Cancelled"} /\ ~recorded[r] THEN "Failed"
              ELSE "no"]
    /\ UNCHANGED <<rows, files, enqueuing, sweep, run, child, cancelSeen, archiveCall, announced, beating,
                   counts>>

reconcileStale ==
    /\ Runnable /\ worker = "boot"
    /\ worker' = "reconcile"
    /\ reconciling' =
          [r \in Runs |->
              IF r \in Stale THEN "Running"
              ELSE IF status[r] = "Failed" /\ ~stamped[r] /\ ~recorded[r] THEN "Failed"
              ELSE "no"]
    /\ UNCHANGED <<rows, files, enqueuing, sweep, run, child, cancelSeen, archiveCall, announced, beating,
                   counts>>

\* A file at the local destination counts as the archive of the run, which is
\* stamped if there is an active key.
recoverRun(r) ==
    /\ Runnable /\ worker = "reconcile"
    /\ reconciling[r] # "no" /\ disk[r] # "none"
    /\ status' = [status EXCEPT ![r] = "Success"]
    /\ \E key \in BOOLEAN : stamped' = [stamped EXCEPT ![r] = @ \/ key]
    /\ recorded' = [recorded EXCEPT ![r] = TRUE]
    /\ reconciling' = [reconciling EXCEPT ![r] = "no"]
    /\ UNCHANGED <<cancelRequested, fresh, files, enqueuing, sweep, process, counts>>

\* The rest of what was running is failed, and the worker starts to poll.
FailCandidates ==
    /\ Runnable /\ worker = "reconcile"
    /\ \A r \in Runs : reconciling[r] # "no" => disk[r] = "none"
    /\ status' = [r \in Runs |-> IF reconciling[r] = "Running" THEN "Failed" ELSE status[r]]
    /\ reconciling' = [r \in Runs |-> "no"]
    /\ worker' = "poll"
    /\ UNCHANGED <<cancelRequested, fresh, stamped, recorded, files, enqueuing, sweep, run,
                   child, cancelSeen, archiveCall, announced, beating, counts>>

\* The worker only logs that the call failed.
ReconcileLost ==
    /\ worker = "boot" /\ lostCalls < MaxLostCalls
    /\ lostCalls' = lostCalls + 1
    /\ worker' = "poll"
    /\ UNCHANGED <<rows, files, server, run, child, cancelSeen, archiveCall, announced, beating,
                   lostReplies, spawnErrors, outages, crashes, restores>>

-----------------------------------------------------------------------------
(* tick and executeRun *)

\* claimNextRun.  The run is stamped if there is an active key.
claimNextRun(r) ==
    /\ Runnable /\ worker = "poll"
    /\ IsFirst(r, Queued)
    /\ status' = [status EXCEPT ![r] = "Running"]
    /\ fresh' = [fresh EXCEPT ![r] = TRUE]
    /\ \E key \in BOOLEAN : /\ stamped' = [stamped EXCEPT ![r] = key]
                            /\ dump' = [dump EXCEPT ![r] = key]
    /\ UNCHANGED <<cancelRequested, recorded, disk, server>>

\* The worker was asked to cancel, has no destination, or spawns backup.sh.
Claimed(r) ==
    /\ claimNextRun(r)
    /\ run' = r
    /\ cancelSeen' = FALSE /\ announced' = FALSE
    /\ \/ /\ cancelRequested[r]
          /\ worker' = "Cancelled"
          /\ UNCHANGED <<child, beating>>
       \/ /\ ~cancelRequested[r]
          /\ worker' = "catch"
          /\ UNCHANGED <<child, beating>>
       \/ /\ ~cancelRequested[r]
          /\ worker' = "run" /\ child' = "dumping"
          /\ beating' = beating \cup {r}
    /\ UNCHANGED <<archiveCall, counts>>

\* The child never starts.  executeRun throws before it clears the interval.
SpawnError(r) ==
    /\ spawnErrors < MaxSpawnErrors
    /\ ~cancelRequested[r]
    /\ claimNextRun(r)
    /\ run' = r
    /\ cancelSeen' = FALSE /\ announced' = FALSE
    /\ worker' = "catch" /\ beating' = beating \cup {r}
    /\ spawnErrors' = spawnErrors + 1
    /\ UNCHANGED <<child, archiveCall, lostCalls, lostReplies, outages, crashes, restores>>

\* The run is claimed and the worker never hears of it.
ClaimReplyLost(r) ==
    /\ lostReplies < MaxLostReplies
    /\ claimNextRun(r)
    /\ lostReplies' = lostReplies + 1
    /\ UNCHANGED <<process, lostCalls, spawnErrors, outages, crashes, restores>>

\* A heartbeat reaches the server and brings back cancelRequested; SIGTERM ends
\* backup.sh, while a copy it has started goes on to its end.
heartbeat(r) ==
    /\ Runnable /\ r \in beating
    /\ fresh' = [fresh EXCEPT ![r] = TRUE]
    /\ IF cancelRequested[r] /\ worker = "run" /\ run = r /\ ~cancelSeen
       THEN /\ cancelSeen' = TRUE
            /\ child' = IF child \in {"zero", "nonzero"} THEN child ELSE "nonzero"
            /\ disk' = [disk EXCEPT ![r] = IF child = "copying" THEN "whole" ELSE @]
       ELSE UNCHANGED <<cancelSeen, child, disk>>
    /\ UNCHANGED <<status, cancelRequested, stamped, recorded, dump, server, worker, run,
                   archiveCall, announced, beating, counts>>

\* updateRunArchive, called while backup.sh goes on.
updateRunArchive ==
    /\ Runnable /\ archiveCall
    /\ stamped' = [stamped EXCEPT ![run] = TRUE]
    /\ recorded' = [recorded EXCEPT ![run] = TRUE]
    /\ archiveCall' = FALSE
    /\ UNCHANGED <<status, cancelRequested, fresh, files, server, worker, run, child, cancelSeen,
                   announced, beating, counts>>

ArchiveLost ==
    /\ archiveCall /\ lostCalls < MaxLostCalls
    /\ lostCalls' = lostCalls + 1
    /\ archiveCall' = FALSE
    /\ UNCHANGED <<rows, files, server, worker, run, child, cancelSeen, announced, beating, lostReplies,
                   spawnErrors, outages, crashes, restores>>

\* backup.sh has closed its output and every event call has returned.
ChildClosed ==
    /\ worker = "run" /\ child \in {"zero", "nonzero"} /\ ~archiveCall
    /\ beating' = beating \ {run}
    /\ child' = "none"
    /\ worker' = IF child = "zero" THEN "Success"
                 ELSE IF cancelSeen THEN "Cancelled" ELSE "Failed"
    /\ UNCHANGED <<rows, files, server, run, cancelSeen, archiveCall, announced, counts>>

-----------------------------------------------------------------------------
(* finalizeRun *)

\* What the worker reports: its outcome, or Failed once something was thrown.
Outcome == IF worker = "catch" THEN "Failed" ELSE worker
Reports == worker \in Ended \cup {"catch"}

finalizeRun ==
    /\ Runnable /\ Reports
    /\ status' = [status EXCEPT ![run] = Outcome]
    /\ fresh' = [fresh EXCEPT ![run] = TRUE]
    /\ stamped' = [stamped EXCEPT ![run] = @ \/ (worker # "catch" /\ announced)]
    /\ recorded' = [recorded EXCEPT ![run] = @ \/ (worker = "Success" /\ announced)]
    /\ UNCHANGED <<cancelRequested, files, server, child, cancelSeen, archiveCall, announced, beating>>

Reported ==
    /\ finalizeRun
    /\ worker' = "poll" /\ run' = NoRun
    /\ UNCHANGED counts

\* A call that throws is caught, and reported as a failure of the run; when
\* that call throws too, the worker goes back to polling.
Thrown ==
    IF worker = "catch" THEN worker' = "poll" /\ run' = NoRun
                        ELSE worker' = "catch" /\ UNCHANGED run

FinalizeReplyLost ==
    /\ lostReplies < MaxLostReplies
    /\ lostReplies' = lostReplies + 1
    /\ finalizeRun
    /\ Thrown
    /\ UNCHANGED <<lostCalls, spawnErrors, outages, crashes, restores>>

FinalizeLost ==
    /\ Reports /\ lostCalls < MaxLostCalls
    /\ lostCalls' = lostCalls + 1
    /\ Thrown
    /\ UNCHANGED <<rows, files, server, child, cancelSeen, archiveCall, announced, beating, lostReplies,
                   spawnErrors, outages, crashes, restores>>

-----------------------------------------------------------------------------
(* backup.sh *)

ChildSteps(from, to) == worker = "run" /\ child = from /\ child' = to

\* The archive is encrypted and announced ...
Archived ==
    /\ ChildSteps("dumping", "archived")
    /\ archiveCall' = TRUE /\ announced' = TRUE
    /\ UNCHANGED <<rows, files, server, worker, run, cancelSeen, beating, counts>>

\* ... and copied to the local destination, under its final name from the start.
Copying ==
    /\ ChildSteps("archived", "copying")
    /\ disk' = [disk EXCEPT ![run] = "part"]
    /\ UNCHANGED <<rows, dump, server, worker, run, cancelSeen, archiveCall, announced, beating,
                   counts>>

Copied ==
    /\ ChildSteps("copying", "copied")
    /\ disk' = [disk EXCEPT ![run] = "whole"]
    /\ UNCHANGED <<rows, dump, server, worker, run, cancelSeen, archiveCall, announced, beating,
                   counts>>

\* Mutant of Exits: the exit code of an upload is not looked at.
ExitsAnyway ==
    /\ \E from \in {"copying", "copied"} : ChildSteps(from, "zero")
    /\ UNCHANGED <<rows, files, server, worker, run, cancelSeen, archiveCall, announced, beating,
                   counts>>

Exits ==
    /\ \/ ChildSteps("copied", "zero")
       \/ \E from \in {"dumping", "archived", "copying", "copied"} : ChildSteps(from, "nonzero")
    /\ UNCHANGED <<rows, files, server, worker, run, cancelSeen, archiveCall, announced, beating,
                   counts>>

-----------------------------------------------------------------------------
(* The environment *)

\* Five minutes pass without a heartbeat: nobody sends one, or none arrives.
Expire(r) ==
    /\ Runnable /\ status[r] = "Running" /\ fresh[r]
    /\ fresh' = [fresh EXCEPT ![r] = FALSE]
    /\ IF r \in beating THEN outages < MaxOutages /\ outages' = outages + 1
                        ELSE UNCHANGED outages
    /\ UNCHANGED <<status, cancelRequested, stamped, recorded, files, server, process,
                   lostCalls, lostReplies, spawnErrors, crashes, restores>>

\* Mutant of Boot: the worker still has its run.
BootKeepsRun ==
    /\ worker' = "boot" /\ run' = run /\ child' = "none"
    /\ cancelSeen' = FALSE /\ archiveCall' = FALSE /\ announced' = FALSE
    /\ beating' = {}
    /\ reconciling' = [r \in Runs |-> "no"]

\* The sidecar's container starts again; its child dies with it.
Boot ==
    /\ worker' = "boot" /\ run' = NoRun /\ child' = "none"
    /\ cancelSeen' = FALSE /\ archiveCall' = FALSE /\ announced' = FALSE
    /\ beating' = {}
    /\ reconciling' = [r \in Runs |-> "no"]

Crash ==
    /\ crashes < MaxCrashes
    /\ crashes' = crashes + 1
    /\ Boot
    /\ UNCHANGED <<rows, files, enqueuing, sweep, lostCalls, lostReplies, spawnErrors, outages,
                   restores>>

\* The latest archive is restored: its own row is as it was while it ran.
Restore(r) ==
    /\ restores < MaxRestores
    /\ status[r] = "Success" /\ disk[r] = "whole"
    /\ InFlight = {} /\ enqueuing = {} /\ sweep = {}
    /\ \A s \in Runs : s > r => status[s] = "None"
    /\ restores' = restores + 1
    /\ status' = [status EXCEPT ![r] = "Running"]
    /\ fresh' = [fresh EXCEPT ![r] = FALSE]
    /\ stamped' = [stamped EXCEPT ![r] = dump[r]]
    /\ recorded' = [recorded EXCEPT ![r] = FALSE]
    /\ Boot
    /\ UNCHANGED <<cancelRequested, files, enqueuing, sweep, lostCalls, lostReplies, spawnErrors,
                   outages, crashes>>

Init ==
    /\ status = [r \in Runs |-> "None"]
    /\ cancelRequested = [r \in Runs |-> FALSE]
    /\ fresh = [r \in Runs |-> FALSE]
    /\ stamped = [r \in Runs |-> FALSE] /\ recorded = [r \in Runs |-> FALSE]
    /\ disk = [r \in Runs |-> "none"] /\ dump = [r \in Runs |-> FALSE]
    /\ enqueuing = {} /\ sweep = {} /\ reconciling = [r \in Runs |-> "no"]
    /\ worker = "boot" /\ run = NoRun /\ child = "none"
    /\ cancelSeen = FALSE /\ archiveCall = FALSE /\ announced = FALSE /\ beating = {}
    /\ lostCalls = 0 /\ lostReplies = 0 /\ spawnErrors = 0
    /\ outages = 0 /\ crashes = 0 /\ restores = 0

Enqueue   == \E a \in Requesters : count(a) \/ create(a)
Sweep     == recoverStaleRuns \/ FailStale
Reconcile == reconcileStale \/ FailCandidates \/ ReconcileLost \/ \E r \in Runs : recoverRun(r)
Claim     == \E r \in Runs : Claimed(r) \/ SpawnError(r) \/ ClaimReplyLost(r)
Relay     == updateRunArchive \/ ArchiveLost \/ ChildClosed
Finalize  == Reported \/ FinalizeReplyLost \/ FinalizeLost
Child     == Archived \/ Copying \/ Copied \/ Exits

Next ==
    \/ Enqueue \/ Sweep \/ Reconcile \/ Claim \/ Relay \/ Finalize \/ Child
    \/ \E r \in Runs : cancelBackupRun(r) \/ heartbeat(r) \/ Expire(r) \/ Restore(r)
    \/ Crash

Spec == Init /\ [][Next]_vars

\* The worker's loop and its intervals run, backup.sh ends, the hourly sweep
\* runs, and time passes for a run nobody sends heartbeats for.
Fairness ==
    /\ WF_vars(Reconcile) /\ WF_vars(Claim) /\ WF_vars(Relay) /\ WF_vars(Finalize)
    /\ WF_vars(Child) /\ WF_vars(Sweep)
    /\ \A r \in Runs : WF_vars(heartbeat(r)) /\ WF_vars(r \notin beating /\ Expire(r))

FairSpec == Spec /\ Fairness

-----------------------------------------------------------------------------
(* Properties *)

\* The rows follow the lifecycle: a run is started once, Success and Cancelled
\* are final, whatever is lost, swept, reconciled or crashes in between.
Lifecycle == INSTANCE BackupLifecycle WITH Runs <- Runs, status <- status
FollowsLifecycle == Lifecycle!Spec

\* The run the worker works on, and those the sweep and the reconciliation have
\* in hand, are running or have been given up in the meantime: nobody starts,
\* ends or restarts them behind the back of who holds them.
KnownRows ==
    /\ run # NoRun => status[run] \in {"Running", "Failed"}
    /\ \A r \in sweep : status[r] = "Running"
    /\ \A r \in Runs :
          /\ reconciling[r] = "Running" => status[r] \in {"Running", "Failed"}
          /\ reconciling[r] = "Failed" => status[r] = "Failed"
          /\ reconciling[r] # "no" => worker = "reconcile"

\* A run that is requested ends, so that the next one may be enqueued.
EveryRunEnds ==
    \A r \in Runs : status[r] \in {"Queued", "Running"} ~> status[r] \in Ended

\* A run shown as successful has its archive at the destination, all of it: what a
\* lost report, a sweep or a restore leaves to the reconciliation is never taken
\* for an archive.  reconcileStale takes a part of one, which has its final name,
\* for the whole, but it meets one only after a crash in the middle of the copy,
\* or if after a copy that failed neither the archive event nor the report got
\* through and a restore makes the sidecar boot.
SuccessHasArchive ==
    \A r \in Runs : status[r] = "Success" =>
        \/ disk[r] = "whole"
        \/ disk[r] = "part" /\ (crashes > 0 \/ (restores > 0 /\ lostCalls >= 2))

\* A run that ended as Success or Cancelled stays so: it is not started again, taken
\* up by the reconciliation or ended anew.  Three steps revise it: the sweep fails a
\* run that it had found stale before it ended, the sidecar reports as failed a run
\* whose first report had arrived, and the run's own dump, in which it still runs, is
\* restored.
EndsForGood ==
    [][\A r \in Runs :
          status[r] \in {"Success", "Cancelled"} /\ status'[r] # status[r] =>
             \/ FailStale /\ r \in sweep
             \/ finalizeRun /\ run = r /\ worker = "catch"
             \/ Restore(r)]_vars

\* At most one run is queued or running.
OneInFlight == \A r, s \in InFlight : r = s
=============================================================================
