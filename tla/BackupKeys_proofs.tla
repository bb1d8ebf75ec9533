-------------------------- MODULE BackupKeys_proofs --------------------------
(***************************************************************************)
(* Proofs about BackupKeys, for any runs and any number of faults.         *)
(*                                                                         *)
(* No step loses a private key: one that is replaced has been moved to the *)
(* archive directory.  The sidecar encrypts with a key of the kept ones,   *)
(* and from the archive on, its final state names that key.                *)
(***************************************************************************)
EXTENDS BackupKeys, WellFoundedInduction, TLAPS

-----------------------------------------------------------------------------
(* Types *)

\* Keys are finitely many, so that there is a newest active one.
LEMMA ActiveType == TypeOK => activeKey \in Keys
  <1> SUFFICES ASSUME TypeOK PROVE activeKey \in Keys
    OBVIOUS
  <1>1. generated \in Nat /\ active \subseteq 0..generated
    BY DEF TypeOK, Keys
  <1>2. CASE active = {}
    BY <1>1, <1>2 DEF activeKey, Keys, NoKey
  <1>3. CASE active # {}
    <2> DEFINE D == {n \in 0..generated : generated - n \in active}
    <2>1. \A i \in active : generated - i \in D
      <3> SUFFICES ASSUME NEW i \in active PROVE generated - i \in D
        OBVIOUS
      <3>1. generated - i \in 0..generated /\ generated - (generated - i) = i
        BY <1>1
      <3> QED BY <3>1
    <2>2. D # {}
      BY <1>3, <2>1
    <2>3. D \subseteq Nat
      BY <1>1
    <2>4. PICK n \in D : \A m \in D : <<m, n>> \notin OpToRel(<, Nat)
      BY <2>2, <2>3, NatLessThanWellFounded, WFMin
    <2>5. \A m \in D : ~(m < n)
      BY <2>3, <2>4 DEF OpToRel
    <2>a. n \in Nat /\ generated - n \in active
      BY <2>3
    <2>6. \A i \in active : i <= generated - n
      BY <1>1, <2>1, <2>5, <2>a
    <2>7. activeKey \in active
      BY <1>3, <2>6, <2>a DEF activeKey
    <2> QED BY <1>1, <2>7 DEF Keys
  <1> QED BY <1>2, <1>3

\* A key that is known stays known when another is generated.
LEMMA KeysGrow ==
    ASSUME TypeOK, generated' \in {generated, generated + 1}
    PROVE  /\ generated' \in Nat /\ Keys \subseteq Keys' /\ generated' \in Keys'
           /\ Upsert \subseteq Upsert' /\ Row \subseteq Row'
           /\ active \subseteq Keys' /\ rotatedAt \subseteq Keys' /\ rotating \in Keys'
           /\ late \subseteq Upsert' /\ archive \subseteq Keys' /\ recipient \in Keys'
           /\ age_key \in Keys' /\ age_pub \in Keys' /\ syncing \in Keys'
           /\ keyFingerprint \in Keys' /\ runs \in [Runs -> Row']
  <1>1. generated \in Nat /\ generated' \in Nat /\ generated <= generated'
    BY DEF TypeOK
  <1>2. Keys \subseteq Keys' /\ generated' \in Keys'
    BY <1>1 DEF Keys
  <1>3. Upsert \subseteq Upsert' /\ Row \subseteq Row'
    BY <1>2 DEF Upsert, Row
  <1> QED BY <1>1, <1>2, <1>3 DEF TypeOK

LEMMA InitKeysType ==
    ASSUME TypeOK, NEW k \in Keys, init_keys(k)
    PROVE  /\ generated' \in {generated, generated + 1}
           /\ age_key' \in Keys' /\ age_pub' \in Keys' /\ age_key' # NoKey /\ age_pub' = age_key'
  <1>1. generated' \in {generated, generated + 1}
    BY DEF init_keys
  <1>2. Keys \subseteq Keys' /\ generated' \in Keys' /\ generated \in Nat
    BY <1>1, KeysGrow DEF TypeOK
  <1> QED BY <1>1, <1>2 DEF init_keys, NoKey

\* A step that generates no key and leaves the bounds, or counts a fault.
LEMMA BoundsType ==
    ASSUME TypeOK, UNCHANGED bounds \/ Fault
    PROVE  /\ rotations' \in 0..MaxRotations /\ removals' \in 0..MaxRemovals
           /\ faults' \in 0..MaxFaults /\ crashes' \in 0..MaxCrashes
  <1>1. CASE UNCHANGED bounds
    BY <1>1 DEF TypeOK, bounds
  <1>2. CASE Fault
    BY <1>2, BoundsAssumption DEF TypeOK, Fault
  <1> QED BY <1>1, <1>2

LEMMA RestType == TypeOK => Rest \subseteq Upsert
  <1> SUFFICES ASSUME TypeOK PROVE Rest \subseteq Upsert
    OBVIOUS
  <1>a. /\ [key |-> syncing, step |-> "upsert"] \in Upsert
        /\ [key |-> syncing, step |-> "retire"] \in Upsert
    BY DEF TypeOK, Upsert
  <1>1. CASE worker \in {"upsert", "upsert again"}
    <2>1. Rest = {[key |-> syncing, step |-> "upsert"]}
      BY <1>1 DEF Rest
    <2> QED BY <1>a, <2>1
  <1>2. CASE worker \in {"retire", "retire again"}
    <2>1. Rest = {[key |-> syncing, step |-> "retire"]}
      BY <1>2 DEF Rest
    <2> QED BY <1>a, <2>1
  <1>3. CASE worker \notin {"upsert", "upsert again", "retire", "retire again"}
    BY <1>3 DEF Rest
  <1> QED BY <1>1, <1>2, <1>3

LEMMA InitType == Init => TypeOK
  <1> SUFFICES ASSUME Init PROVE TypeOK
    OBVIOUS
  <1>1. Keys = 0..1
    BY DEF Init, Keys
  <1>2. runs \in [Runs -> Row]
    BY <1>1 DEF Init, Row, Status, NoKey
  <1>3. /\ rotations \in 0..MaxRotations /\ removals \in 0..MaxRemovals
        /\ faults \in 0..MaxFaults /\ crashes \in 0..MaxCrashes
    BY BoundsAssumption DEF Init
  <1>4. run \in Runs \cup {NoRun} /\ (run \in Runs <=> worker \in {"backup", "report"})
    BY RunsAssumption DEF Init, NoRun
  <1> QED BY <1>1, <1>2, <1>3, <1>4 DEF Init, TypeOK, NoKey, Worker

\* What the server does.
LEMMA ServerType ==
    ASSUME TypeOK,
           \/ rotateBackupKey \/ Rotated \/ (\E u \in late : UpsertLate(u))
    PROVE  TypeOK'
  <1>1. CASE rotateBackupKey
    <2>1. /\ UNCHANGED <<keyRows, late, files, recipient, worker, syncing, run, keyFingerprint,
                         runs, removals, faults, crashes>>
          /\ rotating' \in Keys
      BY <1>1 DEF rotateBackupKey, TypeOK
    <2>2. rotations' \in 0..MaxRotations
      BY <1>1, BoundsAssumption DEF rotateBackupKey, TypeOK
    <2> QED BY <2>1, <2>2 DEF TypeOK, keyRows, files, Keys, Upsert, Row
  <1>2. CASE Rotated
    BY <1>2, BoundsType DEF Rotated, TypeOK, files, Keys, Upsert, Row, NoKey
  <1>3. ASSUME NEW u \in late, UpsertLate(u) PROVE TypeOK'
    <2>1. u \in Upsert /\ u.key \in Keys /\ [u EXCEPT !.step = "retire"] \in Upsert
      BY DEF TypeOK, Upsert
    <2>2. active' \subseteq Keys /\ rotatedAt' \subseteq Keys /\ late' \subseteq Upsert
      BY <1>3, <2>1 DEF UpsertLate, Activate, RetireOthers, TypeOK
    <2> QED
      BY <1>3, <2>2, BoundsType DEF UpsertLate, TypeOK, files, Keys, Upsert, Row
  <1> QED BY <1>1, <1>2, <1>3

\* What replaces the files of the sidecar.
LEMMA FilesType ==
    ASSUME TypeOK,
           UNCHANGED <<keyRows, rotating, run, keyFingerprint, runs>>,
           generated' \in {generated, generated + 1},
           age_key' \in Keys', age_pub' \in Keys', archive' \subseteq Keys',
           recipient' \in Keys', syncing' \in Keys', late' \subseteq Upsert',
           worker' \in Worker, ~(worker' \in {"backup", "report"}), run' \notin Runs,
           /\ rotations' \in 0..MaxRotations /\ removals' \in 0..MaxRemovals
           /\ faults' \in 0..MaxFaults /\ crashes' \in 0..MaxCrashes
    PROVE  TypeOK'
  BY KeysGrow DEF TypeOK, keyRows

\* The keypair is replaced, or not.
LEMMA RegenerateType ==
    ASSUME TypeOK, Regenerate
    PROVE  /\ generated' \in {generated, generated + 1}
           /\ age_key' \in Keys' /\ age_pub' \in Keys' /\ archive' \subseteq Keys'
           /\ recipient' \in Keys' /\ syncing' \in Keys'
           /\ worker' \in {"upsert again", "claim"}
           /\ UNCHANGED bounds \/ Fault
  <1>a. NoKey \in Keys /\ age_key \in Keys /\ Moved \subseteq Keys /\ generated \in Nat
    BY DEF TypeOK, Keys, NoKey, Moved
  <1>1. ASSUME NEW k \in {NoKey, age_key}, init_keys(k), archive' \in {archive, Moved},
               recipient' = age_pub', syncing' = age_pub', worker' = "upsert again",
               UNCHANGED bounds \/ Fault
        PROVE  /\ generated' \in {generated, generated + 1}
               /\ age_key' \in Keys' /\ age_pub' \in Keys' /\ archive' \subseteq Keys'
               /\ recipient' \in Keys' /\ syncing' \in Keys'
               /\ worker' \in {"upsert again", "claim"}
               /\ UNCHANGED bounds \/ Fault
    <2>1. /\ generated' \in {generated, generated + 1}
          /\ age_key' \in Keys' /\ age_pub' \in Keys'
      BY <1>1, <1>a, InitKeysType
    <2>2. archive' \subseteq Keys'
      BY <1>1, <1>a, <2>1, KeysGrow
    <2> QED BY <1>1, <2>1, <2>2
  <1>2. CASE /\ Fault
             /\ age_key' = NoKey /\ age_pub' = NoKey /\ archive' = Moved
             /\ worker' = "claim"
             /\ UNCHANGED <<generated, recipient, syncing>>
    <2>1. Keys' = Keys
      BY <1>2 DEF Keys
    <2> QED BY <1>2, <1>a, <2>1 DEF TypeOK
  <1> QED BY <1>1, <1>2 DEF Regenerate

LEMMA CheckFilesType == ASSUME TypeOK, CheckFiles PROVE TypeOK'
  <1>a. worker = "check" /\ UNCHANGED <<keyRows, rotating, late, run, keyFingerprint, runs>>
    BY DEF CheckFiles
  <1>b. run' \notin Runs
    BY <1>a DEF TypeOK
  <1>1. CASE age_key # NoKey /\ age_pub # NoKey
    BY <1>1, <1>a, <1>b, BoundsType
       DEF CheckFiles, TypeOK, files, keyRows, Worker, Keys, Upsert, Row
  <1>2. CASE ~(age_key # NoKey /\ age_pub # NoKey)
    <2>1. Regenerate
      BY <1>2 DEF CheckFiles
    <2>2. late' \subseteq Upsert'
      BY <1>a, <2>1, RegenerateType, KeysGrow
    <2>3. worker' \in Worker /\ ~(worker' \in {"backup", "report"})
      BY <2>1, RegenerateType DEF Worker
    <2> QED BY <1>a, <1>b, <2>1, <2>2, <2>3, RegenerateType, BoundsType, FilesType
  <1> QED BY <1>1, <1>2

LEMMA CrashType == ASSUME TypeOK, Crash PROVE TypeOK'
  <1>1. PICK k \in {NoKey, age_key}, ks \in {archive, Moved} : Boot(k, ks)
    BY DEF Crash
  <1>2. NoKey \in Keys /\ age_key \in Keys /\ Moved \subseteq Keys /\ archive \subseteq Keys
    BY DEF TypeOK, Keys, NoKey, Moved
  <1>3. /\ generated' \in {generated, generated + 1}
        /\ age_key' \in Keys' /\ age_pub' \in Keys' /\ recipient' = age_pub'
        /\ archive' = ks /\ worker' = "reconcile" /\ run' = NoRun
    BY <1>1, <1>2, InitKeysType DEF Boot
  <1>4. late' \subseteq Upsert /\ UNCHANGED <<keyRows, rotating, syncing, keyFingerprint, runs>>
    BY RestType DEF Crash, TypeOK
  <1>5. /\ rotations' \in 0..MaxRotations /\ removals' \in 0..MaxRemovals
        /\ faults' \in 0..MaxFaults /\ crashes' \in 0..MaxCrashes
    <2>1. /\ crashes < MaxCrashes /\ crashes' = crashes + 1
          /\ UNCHANGED <<rotations, removals, faults>>
      BY DEF Crash
    <2> QED BY <2>1, BoundsAssumption DEF TypeOK
  <1>6. run' \notin Runs
    BY <1>3, RunsAssumption DEF NoRun
  <1>7. archive' \subseteq Keys' /\ late' \subseteq Upsert'
    BY <1>2, <1>3, <1>4, KeysGrow
  <1> QED
    BY <1>3, <1>4, <1>5, <1>6, <1>7, KeysGrow DEF TypeOK, keyRows, Worker

\* What the loop does with the runs.
LEMMA RunType ==
    ASSUME TypeOK,
           NothingClaimed \/ (\E r \in Runs : claimNextRun(r)) \/ backup_sh \/ finalizeRun
              \/ reconcileStale
    PROVE  TypeOK'
  <1>a. generated' = generated
    BY DEF NothingClaimed, claimNextRun, backup_sh, finalizeRun, reconcileStale, files
  <1>b. Keys' = Keys /\ Upsert' = Upsert /\ Row' = Row
    BY <1>a DEF Keys, Upsert, Row
  <1>c. activeKey \in Keys /\ NoRun \notin Runs
    BY ActiveType, RunsAssumption DEF NoRun
  <1>1. CASE NothingClaimed
    BY <1>1, <1>b, BoundsType DEF NothingClaimed, TypeOK, keyRows, files, Worker
  <1>2. ASSUME NEW r \in Runs, claimNextRun(r) PROVE TypeOK'
    <2>1. runs' \in [Runs -> Row]
      BY <1>2, <1>c DEF claimNextRun, TypeOK, Row, Status
    <2> QED
      BY <1>2, <2>1, <1>b, <1>c, BoundsType DEF claimNextRun, TypeOK, keyRows, files, Worker
  <1>3. CASE backup_sh
    <2>1. run \in Runs /\ recipient \in Keys
      BY <1>3 DEF backup_sh, TypeOK
    <2>2. runs' \in [Runs -> Row]
      BY <1>3, <2>1 DEF backup_sh, TypeOK, Row
    <2> QED
      BY <1>3, <2>1, <2>2, <1>b, BoundsType DEF backup_sh, TypeOK, keyRows, files, Worker
  <1>4. CASE finalizeRun
    <2>1. run \in Runs
      BY <1>4 DEF finalizeRun, TypeOK
    <2>2. Named(run) \in Keys
      BY <2>1 DEF Named, TypeOK, Row
    <2>3. runs' \in [Runs -> Row]
      BY <1>4, <2>1, <2>2 DEF finalizeRun, TypeOK, Row, Status
    <2>4. UNCHANGED bounds \/ Fault
      BY <1>4 DEF finalizeRun
    <2> QED
      BY <1>4, <2>3, <2>4, <1>b, <1>c, BoundsType DEF finalizeRun, TypeOK, keyRows, files, Worker
  <1>5. CASE reconcileStale
    <2>1. \A r \in Runs : recoverRun(r) \in Row /\ [runs[r] EXCEPT !.status = "Failed"] \in Row
      BY <1>c DEF recoverRun, TypeOK, Row, Status
    <2>2. runs' \in [Runs -> Row]
      BY <1>5, <2>1 DEF reconcileStale, TypeOK
    <2> QED
      BY <1>5, <2>2, <1>b, BoundsType DEF reconcileStale, TypeOK, keyRows, files, Worker
  <1> QED BY <1>1, <1>2, <1>3, <1>4, <1>5

LEMMA SyncType ==
    ASSUME TypeOK, ensureActiveKey \/ syncActiveKey \/ syncActiveKeyFails
    PROVE  TypeOK'
  <1>a. generated' = generated
    BY DEF ensureActiveKey, syncActiveKey, syncActiveKeyFails, files
  <1>b. Keys' = Keys /\ Upsert' = Upsert /\ Row' = Row
    BY <1>a DEF Keys, Upsert, Row
  <1>c. Registered \in {"check", "claim"}
    BY DEF Registered
  <1>1. CASE ensureActiveKey
    BY <1>1, <1>b, BoundsType DEF ensureActiveKey, TypeOK, keyRows, files, Worker
  <1>2. CASE syncActiveKey
    <2>1. active' \subseteq Keys /\ rotatedAt' \subseteq Keys
      BY <1>2 DEF syncActiveKey, Activate, RetireOthers, TypeOK
    <2>2. /\ worker \notin {"backup", "report"}
          /\ worker' \in Worker \ {"backup", "report"}
      BY <1>2, <1>c DEF syncActiveKey, Worker
    <2> QED
      BY <1>2, <2>1, <2>2, <1>b, BoundsType DEF syncActiveKey, TypeOK, files
  <1>3. CASE syncActiveKeyFails
    <2>1. late' \subseteq Upsert
      BY <1>3, RestType DEF syncActiveKeyFails, TypeOK
    <2> QED
      BY <1>3, <2>1, <1>b, <1>c, BoundsType
         DEF syncActiveKeyFails, TypeOK, keyRows, files, Worker
  <1> QED BY <1>1, <1>2, <1>3

LEMMA StepType == TypeOK /\ [Next]_vars => TypeOK'
  <1> SUFFICES ASSUME TypeOK, [Next]_vars PROVE TypeOK'
    OBVIOUS
  <1>1. CASE RemovePublicKey
    <2>1. removals' \in 0..MaxRemovals
      BY <1>1, BoundsAssumption DEF RemovePublicKey, TypeOK
    <2> QED
      BY <1>1, <2>1 DEF RemovePublicKey, TypeOK, keyRows, Keys, Upsert, Row, NoKey
  <1>2. CASE UNCHANGED vars
    BY <1>2 DEF vars, keyRows, files, bounds, TypeOK, Keys, Upsert, Row
  <1> QED
    BY <1>1, <1>2, ServerType, CheckFilesType, CrashType, RunType, SyncType DEF Next, Loop

\* Whatever is lost, moved or killed, the rows, files and runs are what they are meant to
\* be, and name only keys that have been generated.
THEOREM TypeCorrect == Spec => []TypeOK
  BY InitType, StepType, PTL DEF Spec

-----------------------------------------------------------------------------
(* Keys are kept *)

\* What Restorable needs: the sidecar encrypts with a kept key, a run has no end while the
\* sidecar works on it, and what it is about to report is the key of the archive.
KeysAreKept ==
    /\ TypeOK
    /\ Restorable
    /\ recipient \in Kept \ {NoKey}
    /\ worker \in {"backup", "report"} => runs[run].status = "Running"
    /\ worker = "report" => keyFingerprint # NoKey /\ runs[run].archive = keyFingerprint

LEMMA InitKept == Init => KeysAreKept
  <1> SUFFICES ASSUME Init PROVE KeysAreKept
    OBVIOUS
  <1>1. TypeOK
    BY InitType
  <1>2. Restorable /\ recipient \in Kept \ {NoKey}
    BY DEF Init, Restorable, Kept, NoKey
  <1> QED BY <1>1, <1>2 DEF Init, KeysAreKept

\* No step loses a private key.
LEMMA KeptGrows ==
    ASSUME TypeOK, [Next]_vars
    PROVE  Kept \ {NoKey} \subseteq Kept'
  <1>1. ASSUME NEW k \in {NoKey, age_key}, init_keys(k), archive' \in {archive, Moved},
               k = age_key \/ archive' = Moved
        PROVE  Kept \ {NoKey} \subseteq Kept'
    BY <1>1 DEF init_keys, Moved, Kept, NoKey
  <1>2. CASE CheckFiles
    <2>1. CASE UNCHANGED files
      BY <2>1 DEF files, Kept
    <2>2. CASE Regenerate
      <3>1. CASE age_key' = NoKey /\ archive' = Moved
        BY <3>1 DEF Moved, Kept
      <3> QED BY <1>1, <2>2, <3>1 DEF Regenerate
    <2> QED BY <1>2, <2>1, <2>2 DEF CheckFiles
  <1>3. CASE Crash
    <2>1. PICK k \in {NoKey, age_key}, ks \in {archive, Moved} :
             Boot(k, ks) /\ (k = age_key \/ ks = Moved)
      BY <1>3 DEF Crash
    <2> QED BY <1>1, <2>1 DEF Boot
  <1>4. CASE ~(CheckFiles \/ Crash)
    <2>1. UNCHANGED <<age_key, archive>>
      BY <1>4 DEF Next, Loop, vars, files, rotateBackupKey, Rotated, UpsertLate, reconcileStale,
                  ensureActiveKey, syncActiveKey, syncActiveKeyFails, NothingClaimed,
                  claimNextRun, backup_sh, finalizeRun, RemovePublicKey
    <2> QED BY <2>1 DEF Kept
  <1> QED BY <1>2, <1>3, <1>4

\* The sidecar takes up a key only when it is in age.key.
LEMMA RecipientKept ==
    ASSUME TypeOK, [Next]_vars, recipient \in Kept \ {NoKey}
    PROVE  recipient' \in Kept' \ {NoKey}
  <1>1. CASE recipient' = recipient
    BY <1>1, KeptGrows
  <1>2. CASE recipient' # recipient
    <2>1. CheckFiles \/ Crash
      BY <1>2 DEF Next, Loop, vars, rotateBackupKey, Rotated, UpsertLate, reconcileStale,
                  ensureActiveKey, syncActiveKey, syncActiveKeyFails, NothingClaimed,
                  claimNextRun, backup_sh, finalizeRun, RemovePublicKey
    <2>2. \E k \in {NoKey, age_key} : init_keys(k) /\ recipient' = age_pub'
      BY <1>2, <2>1 DEF CheckFiles, Regenerate, Crash, Boot
    <2>3. age_key' # NoKey /\ age_pub' = age_key'
      <3>1. NoKey \in Keys /\ age_key \in Keys
        BY DEF TypeOK, Keys, NoKey
      <3> QED BY <2>2, <3>1, InitKeysType
    <2> QED BY <2>2, <2>3 DEF Kept
  <1> QED BY <1>1, <1>2

\* A step that leaves the runs alone, and does not get to a point where one is worked on.
LEMMA RunsAlone ==
    ASSUME KeysAreKept, [Next]_vars, UNCHANGED runs,
           \/ worker' \notin {"backup", "report"}
           \/ UNCHANGED <<worker, run, keyFingerprint>>
    PROVE  KeysAreKept'
  <1>1. TypeOK' /\ recipient' \in Kept' \ {NoKey} /\ Kept \ {NoKey} \subseteq Kept'
    BY StepType, KeptGrows, RecipientKept DEF KeysAreKept
  <1>2. Restorable'
    BY <1>1 DEF KeysAreKept, Restorable
  <1> QED BY <1>1, <1>2 DEF KeysAreKept

LEMMA StepKept == KeysAreKept /\ [Next]_vars => KeysAreKept'
  <1> SUFFICES ASSUME KeysAreKept, [Next]_vars PROVE KeysAreKept'
    OBVIOUS
  <1>a. TypeOK' /\ recipient' \in Kept' \ {NoKey} /\ Kept \ {NoKey} \subseteq Kept'
    BY StepType, KeptGrows, RecipientKept DEF KeysAreKept
  <1>b. TypeOK /\ Restorable /\ recipient \in Kept \ {NoKey}
    BY DEF KeysAreKept
  <1>1. ASSUME NEW r \in Runs, claimNextRun(r) PROVE KeysAreKept'
    <2>1. Restorable'
      BY <1>1, <1>a, <1>b DEF claimNextRun, TypeOK, Restorable
    <2>2. worker' = "backup" /\ runs'[run'].status = "Running"
      BY <1>1, <1>b DEF claimNextRun, TypeOK
    <2> QED BY <1>a, <2>1, <2>2 DEF KeysAreKept
  <1>2. CASE backup_sh
    <2>1. run \in Runs /\ run' = run /\ runs[run].status = "Running" /\ recipient \in Kept'
      BY <1>2, <1>a, <1>b DEF backup_sh, TypeOK, KeysAreKept
    <2>2. /\ runs'[run].archive = recipient /\ runs'[run].status = "Running"
          /\ \A r \in Runs \ {run} : runs'[r] = runs[r]
      <3>1. CASE runs' = [runs EXCEPT ![run].archive = recipient, ![run].key = recipient]
        BY <3>1, <1>b, <2>1 DEF TypeOK, Row
      <3>2. CASE runs' = [runs EXCEPT ![run].archive = recipient]
        BY <3>2, <1>b, <2>1 DEF TypeOK, Row
      <3> QED BY <1>2, <3>1, <3>2 DEF backup_sh
    <2>3. Restorable'
      BY <1>a, <1>b, <2>1, <2>2 DEF Restorable
    <2>4. worker' = "report" /\ keyFingerprint' = recipient
      BY <1>2 DEF backup_sh
    <2> QED BY <1>a, <1>b, <2>1, <2>2, <2>3, <2>4 DEF KeysAreKept
  <1>3. CASE finalizeRun
    <2>1. run \in Runs /\ runs[run].status = "Running" /\ worker' = "ensure"
      BY <1>3, <1>b DEF finalizeRun, TypeOK, KeysAreKept
    <2>2. /\ runs'[run].archive = runs[run].archive
          /\ \A r \in Runs \ {run} : runs'[r] = runs[r]
      <3>1. CASE runs' = [runs EXCEPT ![run].status = "Success", ![run].key = Named(run)]
        BY <3>1, <1>b, <2>1 DEF TypeOK, Row
      <3>2. CASE runs' = [runs EXCEPT ![run].status = "Failed", ![run].key = Named(run)]
        BY <3>2, <1>b, <2>1 DEF TypeOK, Row
      <3>3. CASE runs' = [runs EXCEPT ![run].status = "Failed"]
        BY <3>3, <1>b, <2>1 DEF TypeOK, Row
      <3>4. CASE runs' = runs
        BY <3>4
      <3> QED BY <1>3, <3>1, <3>2, <3>3, <3>4 DEF finalizeRun
    <2>3. runs'[run].status = "Success" =>
             runs'[run].archive # NoKey /\ runs'[run].key = runs'[run].archive
      <3>1. CASE worker = "report" /\ runs' = [runs EXCEPT ![run].status = "Success",
                                                           ![run].key = Named(run)]
        BY <3>1, <1>b, <2>1 DEF KeysAreKept, Named, TypeOK
      <3>2. CASE ~(worker = "report" /\ runs' = [runs EXCEPT ![run].status = "Success",
                                                             ![run].key = Named(run)])
        <4>1. runs'[run].status \in {"Running", "Failed"}
          <5>1. \/ runs' = [runs EXCEPT ![run].status = "Failed", ![run].key = Named(run)]
                \/ runs' = [runs EXCEPT ![run].status = "Failed"]
                \/ runs' = runs
            BY <3>2, <1>3 DEF finalizeRun
          <5>2. runs \in [Runs -> Row]
            BY <1>b DEF TypeOK
          <5> QED BY <5>1, <5>2, <2>1 DEF Row
        <4> QED BY <4>1
      <3> QED BY <3>1, <3>2
    <2>4. Restorable'
      BY <1>a, <1>b, <2>1, <2>2, <2>3 DEF Restorable
    <2> QED BY <1>a, <2>1, <2>4 DEF KeysAreKept
  <1>4. CASE reconcileStale
    <2>1. worker' = "ensure"
      BY <1>4 DEF reconcileStale
    <2>2. ASSUME NEW r \in Runs
          PROVE  \/ runs'[r] = runs[r]
                 \/ runs'[r] = recoverRun(r)
                 \/ runs'[r] = [runs[r] EXCEPT !.status = "Failed"]
      BY <1>4 DEF reconcileStale
    <2>3. ASSUME NEW r \in Runs
          PROVE  /\ runs'[r].archive = runs[r].archive
                 /\ \/ runs'[r] = runs[r]
                    \/ runs'[r].recovered
                    \/ runs'[r].status = "Failed"
      BY <2>2, <1>b DEF recoverRun, TypeOK, Row
    <2>4. Restorable'
      BY <1>a, <1>b, <2>3 DEF Restorable
    <2> QED BY <1>a, <2>1, <2>4 DEF KeysAreKept
  <1>5. CASE ~(\/ \E r \in Runs : claimNextRun(r)
               \/ backup_sh \/ finalizeRun \/ reconcileStale)
    <2>1. UNCHANGED runs
      BY <1>5 DEF Next, Loop, vars, rotateBackupKey, Rotated, UpsertLate, ensureActiveKey,
                  syncActiveKey, syncActiveKeyFails, CheckFiles, NothingClaimed, Crash,
                  RemovePublicKey
    <2>2. \/ worker' \notin {"backup", "report"}
          \/ UNCHANGED <<worker, run, keyFingerprint>>
      BY <1>5 DEF Next, Loop, vars, rotateBackupKey, Rotated, UpsertLate, ensureActiveKey,
                  syncActiveKey, Registered, syncActiveKeyFails, CheckFiles, Regenerate,
                  NothingClaimed, Crash, Boot, RemovePublicKey
    <2> QED BY <2>1, <2>2, RunsAlone
  <1> QED BY <1>1, <1>2, <1>3, <1>4, <1>5

\* Whatever an admin rotates, is lost from the files or fails on the way, a backup can be
\* opened with a private key that is kept, and a run that succeeded names that key.
THEOREM BackupsOpen == Spec => []Restorable
  <1>1. KeysAreKept => Restorable
    BY DEF KeysAreKept
  <1> QED BY <1>1, InitKept, StepKept, PTL DEF Spec

-----------------------------------------------------------------------------
(* No key is lost *)

\* A private key that is kept stays kept, whichever of its files is moved, replaced,
\* removed or left behind by a crash, and whatever happens to the rows.
THEOREM KeysStay == Spec => [][Kept \ {NoKey} \subseteq Kept']_vars
  <1>1. TypeOK /\ [Next]_vars => [Kept \ {NoKey} \subseteq Kept']_vars
    BY KeptGrows
  <1> QED BY <1>1, TypeCorrect, PTL DEF Spec

EveryKeyKept == 1..generated \subseteq Kept

\* A keypair is generated where the sidecar will find it.
LEMMA GeneratedStep ==
    ASSUME [Next]_vars
    PROVE  generated' = generated \/ (generated' = generated + 1 /\ age_key' = generated')
  <1>1. ASSUME NEW k, init_keys(k)
        PROVE  generated' = generated \/ (generated' = generated + 1 /\ age_key' = generated')
    BY <1>1 DEF init_keys
  <1>2. CASE CheckFiles \/ Crash
    BY <1>1, <1>2 DEF CheckFiles, Regenerate, Crash, Boot, files
  <1>3. CASE ~(CheckFiles \/ Crash)
    BY <1>3 DEF Next, Loop, vars, files, reconcileStale, ensureActiveKey, syncActiveKey,
       syncActiveKeyFails, NothingClaimed, claimNextRun, backup_sh, finalizeRun,
       RemovePublicKey, rotateBackupKey, Rotated, UpsertLate
  <1> QED BY <1>2, <1>3

\* Of every keypair there ever was the private key is kept, so that whichever key a
\* row, a run or an archive names, active or retired, what it encrypted can be opened.
THEOREM NoKeyIsLost == Spec => []EveryKeyKept
  <1>1. Init => EveryKeyKept
    BY DEF Init, EveryKeyKept, Kept
  <1>2. TypeOK /\ EveryKeyKept /\ [Next]_vars => EveryKeyKept'
    <2> SUFFICES ASSUME TypeOK, EveryKeyKept, [Next]_vars, NEW k \in 1..generated'
                 PROVE  k \in Kept'
      BY DEF EveryKeyKept
    <2>1. generated \in Nat /\ generated' \in Nat
      BY StepType DEF TypeOK
    <2>2. CASE k \in 1..generated
      BY <2>1, <2>2, KeptGrows DEF EveryKeyKept, NoKey
    <2>3. CASE k \notin 1..generated
      BY <2>1, <2>3, GeneratedStep DEF Kept
    <2> QED BY <2>2, <2>3
  <1> QED BY <1>1, <1>2, TypeCorrect, PTL DEF Spec
=============================================================================
