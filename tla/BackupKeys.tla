----------------------------- MODULE BackupKeys -----------------------------
(***************************************************************************)
(* The keys the backups are encrypted with.  The keypair is in files of    *)
(* the sidecar, the server has a BackupKey row for each public key.  Before *)
(* each tick the sidecar registers the key it finds, which becomes the     *)
(* active one, and makes another if a file is missing; the one it replaces *)
(* is moved to an archive directory.  An admin rotates the active key.  A  *)
(* run is stamped with the active key when it is claimed, encrypted with   *)
(* the key of the sidecar's environment, and says which in its events.     *)
(*                                                                         *)
(* Keypairs are numbered as they are generated; a number stands for the    *)
(* private key, the public one and its fingerprint.  Rows are created in   *)
(* the order of their keys.  Of the runs only what names or uses a key is  *)
(* here; the rest of their life is in BackupRun.                           *)
(***************************************************************************)
EXTENDS Naturals

CONSTANTS
    Runs,
    MaxRotations, \* bound: rotations by an admin
    MaxRemovals,  \* bound: removals of the public key file from outside
    MaxFaults,    \* bound: calls that are lost, files that cannot be moved, no keygen
    MaxCrashes    \* bound: crashes of the sidecar

NoKey == 0
NoRun == "no run"

ASSUME BoundsAssumption ==
    MaxRotations \in Nat /\ MaxRemovals \in Nat /\ MaxFaults \in Nat /\ MaxCrashes \in Nat
ASSUME RunsAssumption == NoRun \notin Runs

VARIABLES
    \* the BackupKey rows
    active,
    rotatedAt,   \* those that were retired at least once
    rotating,    \* the key a rotateBackupKey mutation has found
    late,        \* upserts the server still works on although their caller went on
    \* the files and the environment of the sidecar
    age_key, age_pub,
    archive,     \* private keys in the archive directory
    recipient,   \* BACKUP_AGE_RECIPIENT
    generated,   \* how many keypairs there have been
    \* its main loop
    worker,      \* where it is
    syncing,     \* the key it registers
    run,         \* the run it works on
    keyFingerprint, \* ... of its finalState
    runs,        \* the BackupRun rows
    rotations, removals, faults, crashes

keyRows == <<active, rotatedAt>>
files   == <<age_key, age_pub, archive, generated>>
bounds  == <<rotations, removals, faults, crashes>>
vars == <<keyRows, rotating, late, files, recipient, worker, syncing, run, keyFingerprint, runs,
          bounds>>

Status == {"Queued", "Running", "Success", "Failed"}
Worker == {"reconcile", "ensure", "upsert", "retire", "check", "upsert again", "retire again",
           "claim", "backup", "report"}
Keys == 0..generated
Upsert == [key : Keys, step : {"upsert", "retire"}]
\* archive: the key the archive at the destination is encrypted with.
Row == [status : Status, key : Keys, archive : Keys, recovered : BOOLEAN]

TypeOK ==
    /\ active \subseteq Keys /\ rotatedAt \subseteq Keys /\ rotating \in Keys
    /\ late \subseteq Upsert
    /\ age_key \in Keys /\ age_pub \in Keys /\ archive \subseteq Keys
    /\ recipient \in Keys /\ generated \in Nat
    /\ worker \in Worker /\ syncing \in Keys
    /\ run \in Runs \cup {NoRun} /\ keyFingerprint \in Keys
    /\ run \in Runs <=> worker \in {"backup", "report"}
    /\ runs \in [Runs -> Row]
    /\ rotations \in 0..MaxRotations /\ removals \in 0..MaxRemovals
    /\ faults \in 0..MaxFaults /\ crashes \in 0..MaxCrashes

-----------------------------------------------------------------------------
(* The server *)

\* The active key, the newest if there are several.
activeKey ==
    IF active = {} THEN NoKey ELSE CHOOSE k \in active : \A j \in active : j <= k

\* Mutant of Activate: a row that is there and was retired stays so.
Activate_new(k) == active' = (IF k \in rotatedAt THEN active ELSE active \cup {k})

\* upsertKey, its two statements.
Activate(k) == active' = active \cup {k}
RetireOthers(k) ==
    /\ active' = active \cap {k}
    /\ rotatedAt' = rotatedAt \cup (active \ {k})

\* An upsert whose caller has crashed or given up.
UpsertLate(u) ==
    /\ u \in late
    /\ \/ /\ u.step = "upsert" /\ Activate(u.key) /\ UNCHANGED rotatedAt
          /\ late' = (late \ {u}) \cup {[u EXCEPT !.step = "retire"]}
       \/ /\ u.step = "retire" /\ RetireOthers(u.key)
          /\ late' = late \ {u}
    /\ UNCHANGED <<rotating, files, recipient, worker, syncing, run, keyFingerprint, runs, bounds>>

\* rotateBackupKey: the active row is looked for ...
rotateBackupKey ==
    /\ rotating = NoKey /\ rotations < MaxRotations
    /\ rotating' \in active
    /\ rotations' = rotations + 1
    /\ UNCHANGED <<keyRows, late, files, recipient, worker, syncing, run, keyFingerprint, runs,
                   removals, faults, crashes>>

\* ... and retired.
Rotated ==
    /\ rotating # NoKey /\ rotating' = NoKey
    /\ active' = active \ {rotating}
    /\ rotatedAt' = rotatedAt \cup {rotating}
    /\ UNCHANGED <<late, files, recipient, worker, syncing, run, keyFingerprint, runs, bounds>>

-----------------------------------------------------------------------------
(* The sidecar *)

Fault == faults < MaxFaults /\ faults' = faults + 1 /\ UNCHANGED <<rotations, removals, crashes>>

\* Where the loop goes on after a registration, whether it succeeded or not.
Registered == IF worker \in {"upsert", "retire"} THEN "check" ELSE "claim"

\* ensureActiveKey, up to its first registration.
ensureActiveKey ==
    /\ worker = "ensure"
    /\ worker' = (IF age_pub = NoKey THEN "check" ELSE "upsert")
    /\ syncing' = age_pub
    /\ UNCHANGED <<keyRows, rotating, late, files, recipient, run, keyFingerprint, runs, bounds>>

\* syncActiveKey: the server carries out the statements and answers.
syncActiveKey ==
    /\ \/ /\ worker \in {"upsert", "upsert again"}
          /\ Activate(syncing) /\ UNCHANGED rotatedAt
          /\ worker' = (IF worker = "upsert" THEN "retire" ELSE "retire again")
       \/ /\ worker \in {"retire", "retire again"}
          /\ RetireOthers(syncing)
          /\ worker' = Registered
    /\ UNCHANGED <<rotating, late, files, recipient, syncing, run, keyFingerprint, runs, bounds>>

\* The part of the registration that the server has not done yet, if any.
Rest ==
    CASE worker \in {"upsert", "upsert again"} -> {[key |-> syncing, step |-> "upsert"]}
      [] worker \in {"retire", "retire again"} -> {[key |-> syncing, step |-> "retire"]}
      [] OTHER -> {}

\* The request does not arrive, or its answer does not, and the sidecar goes on.
syncActiveKeyFails ==
    /\ worker \in {"upsert", "upsert again", "retire", "retire again"} /\ Fault
    /\ \/ late' = late \cup Rest
       \/ worker \in {"upsert", "upsert again"} /\ UNCHANGED late
    /\ worker' = Registered
    /\ UNCHANGED <<keyRows, rotating, files, recipient, syncing, run, keyFingerprint, runs>>

\* init-keys.sh, where k is in age.key: a keypair is made, or its public key derived.
init_keys(k) ==
    /\ age_key' = (IF k = NoKey THEN generated + 1 ELSE k)
    /\ generated' = (IF k = NoKey THEN generated + 1 ELSE generated)
    /\ age_pub' = age_key'

Moved == archive \cup ({age_key} \ {NoKey})

\* Mutant of Regenerate: the old keypair is deleted.
Regenerate_deleted ==
    /\ init_keys(NoKey) /\ archive' = archive
    /\ recipient' = age_pub' /\ syncing' = age_pub' /\ worker' = "upsert again"
    /\ UNCHANGED bounds

\* The keypair is replaced; the old one may stay where it is, or there may be no new one.
Regenerate ==
    \/ /\ \/ init_keys(NoKey) /\ archive' = Moved /\ UNCHANGED bounds
          \/ init_keys(age_key) /\ UNCHANGED archive /\ Fault
       /\ recipient' = age_pub' /\ syncing' = age_pub'
       /\ worker' = "upsert again"
    \/ /\ Fault
       /\ age_key' = NoKey /\ age_pub' = NoKey /\ archive' = Moved
       /\ worker' = "claim"
       /\ UNCHANGED <<generated, recipient, syncing>>

\* ensureActiveKey, from there.
CheckFiles ==
    /\ worker = "check"
    /\ IF age_key # NoKey /\ age_pub # NoKey
       THEN worker' = "claim" /\ UNCHANGED <<files, recipient, syncing, bounds>>
       ELSE Regenerate
    /\ UNCHANGED <<keyRows, rotating, late, run, keyFingerprint, runs>>

\* There is nothing to claim, or the call is lost.
NothingClaimed ==
    /\ worker = "claim" /\ worker' = "ensure"
    /\ UNCHANGED <<keyRows, rotating, late, files, recipient, syncing, run, keyFingerprint, runs,
                   bounds>>

\* A run is claimed and backup.sh spawned.
claimNextRun(r) ==
    /\ worker = "claim" /\ runs[r].status = "Queued"
    /\ runs' = [runs EXCEPT ![r].status = "Running", ![r].key = activeKey]
    /\ run' = r /\ keyFingerprint' = activeKey
    /\ worker' = "backup"
    /\ UNCHANGED <<keyRows, rotating, late, files, recipient, syncing, bounds>>

\* Mutant of backup_sh: the key it says it used is not taken up.
backup_sh_unsaid ==
    /\ worker = "backup" /\ worker' = "report"
    /\ runs' = [runs EXCEPT ![run].archive = recipient]
    /\ UNCHANGED <<keyRows, rotating, late, files, recipient, syncing, run, keyFingerprint, bounds>>

\* backup.sh writes the archive; its event is relayed unless the call fails.
backup_sh ==
    /\ worker = "backup" /\ worker' = "report"
    /\ \/ /\ runs' = [runs EXCEPT ![run].archive = recipient, ![run].key = recipient]
          /\ UNCHANGED bounds
       \/ /\ runs' = [runs EXCEPT ![run].archive = recipient]
          /\ Fault
    /\ keyFingerprint' = recipient
    /\ UNCHANGED <<keyRows, rotating, late, files, recipient, syncing, run>>

\* What finalizeRun stores of a fingerprint, null or not.
Named(r) == IF keyFingerprint = NoKey THEN runs[r].key ELSE keyFingerprint

\* The end is reported: Success, or Failed before there is an archive, or after a
\* report that failed; that one, too, may not arrive.
finalizeRun ==
    /\ \/ /\ worker = "report" /\ UNCHANGED bounds
          /\ runs' = [runs EXCEPT ![run].status = "Success", ![run].key = Named(run)]
       \/ /\ worker = "backup" /\ UNCHANGED bounds
          /\ runs' = [runs EXCEPT ![run].status = "Failed", ![run].key = Named(run)]
       \/ /\ worker \in {"backup", "report"} /\ Fault
          /\ runs' \in {runs, [runs EXCEPT ![run].status = "Failed"]}
    /\ worker' = "ensure" /\ run' = NoRun
    /\ UNCHANGED <<keyRows, rotating, late, files, recipient, syncing, keyFingerprint>>

\* Mutant of Boot: the new process goes on with the run of the old one.
Boot_resumes(k, ks) ==
    /\ init_keys(k) /\ archive' = ks
    /\ recipient' = age_pub'
    /\ worker' = "reconcile" /\ run' = run

\* The container starts again, with k in age.key and ks in the archive directory.
Boot(k, ks) ==
    /\ init_keys(k) /\ archive' = ks
    /\ recipient' = age_pub'
    /\ worker' = "reconcile" /\ run' = NoRun

\* The sidecar dies, maybe with the key moved away and no new one made; a call it
\* was waiting for may still be carried out.
Crash ==
    /\ crashes < MaxCrashes /\ crashes' = crashes + 1
    /\ \/ Boot(age_key, archive)
       \/ /\ worker = "check" /\ NoKey \in {age_key, age_pub}
          /\ Boot(NoKey, Moved)
    /\ \/ late' = late \cup Rest
       \/ worker \in {"upsert", "upsert again"} /\ UNCHANGED late
    /\ UNCHANGED <<keyRows, rotating, syncing, keyFingerprint, runs, rotations, removals, faults>>

\* A run that is recovered is named after the active key, if there is one.
recoverRun(r) ==
    [runs[r] EXCEPT !.status = "Success", !.recovered = TRUE,
                    !.key = IF active = {} THEN @ ELSE activeKey]

\* Those of the runs left behind that are stale by now get an end.  One that failed and
\* knows neither a key nor an archive is looked for, too.
reconcileStale ==
    /\ worker = "reconcile" /\ worker' = "ensure"
    /\ \E stale \in SUBSET {r \in Runs : runs[r].status = "Running"} :
          LET unknown == {r \in Runs : runs[r].status = "Failed" /\ runs[r].key = NoKey}
              found   == {r \in stale \cup unknown : runs[r].archive # NoKey}
          IN  runs' = [r \in Runs |->
                          IF r \in found THEN recoverRun(r)
                          ELSE IF r \in stale THEN [runs[r] EXCEPT !.status = "Failed"]
                          ELSE runs[r]]
    /\ UNCHANGED <<keyRows, rotating, late, files, recipient, syncing, run, keyFingerprint, bounds>>

\* The public key disappears while the sidecar runs.
RemovePublicKey ==
    /\ age_pub # NoKey /\ age_pub' = NoKey
    /\ removals < MaxRemovals /\ removals' = removals + 1
    /\ UNCHANGED <<keyRows, rotating, late, age_key, archive, generated, recipient, worker,
                   syncing, run, keyFingerprint, runs, rotations, faults, crashes>>

\* After the first start.
Init ==
    /\ active = {} /\ rotatedAt = {} /\ rotating = NoKey /\ late = {}
    /\ age_key = 1 /\ age_pub = 1 /\ archive = {} /\ generated = 1 /\ recipient = 1
    /\ worker = "reconcile" /\ syncing = NoKey /\ run = NoRun /\ keyFingerprint = NoKey
    /\ runs = [r \in Runs |->
                 [status |-> "Queued", key |-> NoKey, archive |-> NoKey, recovered |-> FALSE]]
    /\ rotations = 0 /\ removals = 0 /\ faults = 0 /\ crashes = 0

\* The main loop of the sidecar, and the processes it waits for.
Loop ==
    \/ reconcileStale \/ ensureActiveKey \/ syncActiveKey \/ syncActiveKeyFails \/ CheckFiles
    \/ NothingClaimed \/ (\E r \in Runs : claimNextRun(r)) \/ backup_sh \/ finalizeRun

Next ==
    \/ Loop \/ Crash \/ RemovePublicKey
    \/ rotateBackupKey \/ Rotated
    \/ \E u \in late : UpsertLate(u)

Spec == Init /\ [][Next]_vars

\* The loop goes round, and what the server has begun it carries out.
FairSpec ==
    /\ Spec /\ WF_vars(Loop) /\ WF_vars(Rotated)
    /\ WF_vars(\E u \in late : UpsertLate(u))

-----------------------------------------------------------------------------
(* Properties *)

\* The private keys that are kept.
Kept == archive \cup {age_key}

\* Every archive can be opened with a key that is kept, and a run that was reported
\* as Success says with which; what a recovered one says is a guess.
Restorable ==
    \A r \in Runs :
        /\ runs[r].archive # NoKey => runs[r].archive \in Kept
        /\ runs[r].status = "Success" /\ ~runs[r].recovered =>
              runs[r].archive # NoKey /\ runs[r].key = runs[r].archive

\* The active key comes to be the one the sidecar encrypts with, and no other.
ActiveKeyInUse == <>[](age_key # NoKey /\ active = {age_key} /\ recipient = age_key)

\* What the Keys tab says of a rotation: another key takes the place of the old one.
RotationTakes ==
    \A k \in 1..(1 + MaxRemovals + MaxFaults + MaxCrashes) :
        k \in rotatedAt ~> \E j \in active : j # k
=============================================================================
