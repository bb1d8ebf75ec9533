------------------------ MODULE KeycloakSync_proofs ------------------------
(***************************************************************************)
(* Theorems about KeycloakSync, for every set of users, roles and handlers *)
(* and every bound.                                                        *)
(***************************************************************************)
EXTENDS KeycloakSync, TLAPS

(* A Users that is a set of anything: what the CHOOSE of Quiet needs. *)
LEMMA QuietIsWork == Quiet \in Work
  <1>1. (CHOOSE u \in Users : TRUE) \in Users
    BY KeycloakSyncAssumption
  <1> QED BY <1>1 DEF Quiet, Work

LEMMA BoundsAreNat ==
    MaxChanges \in Nat /\ MaxEvents \in Nat /\ MaxFaults \in Nat /\ MaxRestarts \in Nat
  BY KeycloakSyncAssumption

(* The steps of a sync, and that they leave the syncs of others alone.     *)
LEMMA BeginType ==
    ASSUME sync \in [Syncs -> Work], NEW s \in Syncs, NEW u \in Users, Begin(s, u)
    PROVE  sync' \in [Syncs -> Work]
  BY DEF Begin, Work

LEMMA ApplyType ==
    ASSUME sync \in [Syncs -> Work], NEW s \in Syncs, NEW A \in SUBSET Roles, NEW R \in SUBSET Roles,
           sync' = [sync EXCEPT ![s].step = "apply", ![s].add = A, ![s].remove = R]
    PROVE  sync' \in [Syncs -> Work]
  BY DEF Work

LEMMA InitType == Init => TypeOK
  <1> SUFFICES ASSUME Init PROVE TypeOK
    OBVIOUS
  <1> USE DEF Init
  <1>1. sync \in [Syncs -> Work]
    BY QuietIsWork
  <1>2. changes \in 0..MaxChanges /\ faults \in 0..MaxFaults /\ restarts \in 0..MaxRestarts
    BY BoundsAreNat
  <1>3. events \in [Users -> Nat] /\ excused \in [Users -> BOOLEAN]
    OBVIOUS
  <1> QED BY <1>1, <1>2, <1>3 DEF TypeOK

(* The type invariant is inductive.                                        *)
LEMMA StepType == TypeOK /\ [Next]_vars => TypeOK'
  <1> SUFFICES ASSUME TypeOK, [Next]_vars PROVE TypeOK'
    OBVIOUS
  <1> USE BoundsAreNat DEF TypeOK
  <1>1. ASSUME NEW u \in Users, NEW R \in SUBSET Roles, updateUser(u, R) \/ changeOutside(u, R)
        PROVE TypeOK'
    <2>1. /\ required' \in [Users -> SUBSET Roles] /\ ever' \in [Users -> SUBSET Roles]
          /\ always' \in [Users -> SUBSET Roles]
      BY <1>1 DEF updateUser, changeOutside, Change
    <2>2. changes' \in 0..MaxChanges /\ UNCHANGED <<faults, restarts>>
      BY <1>1 DEF updateUser, changeOutside, Change
    <2>3. events' \in [Users -> Nat] /\ excused' \in [Users -> BOOLEAN]
      <3>1. events' = events \/ events' = [events EXCEPT ![u] = @ + 1]
        BY <1>1 DEF updateUser, changeOutside
      <3>2. excused' = excused \/ excused' = [excused EXCEPT ![u] = TRUE]
        BY <1>1 DEF updateUser, changeOutside, Excuse
      <3>3. events' \in [Users -> Nat]
        BY <3>1
      <3>4. excused' \in [Users -> BOOLEAN]
        BY <3>2
      <3> QED BY <3>3, <3>4
    <2> QED BY <1>1, <2>1, <2>2, <2>3 DEF updateUser, changeOutside, service
  <1>2. ASSUME NEW u \in Users, deleteUser(u) \/ EventLost(u) PROVE TypeOK'
    <2>1. CASE deleteUser(u)
      BY <1>2, <2>1 DEF deleteUser, service, history, bounds
    <2>2. CASE EventLost(u)
      <3>1. events' \in [Users -> Nat] /\ excused' \in [Users -> BOOLEAN]
        BY <2>2 DEF EventLost, Excuse
      <3>2. faults' \in 0..MaxFaults /\ UNCHANGED <<changes, restarts>>
        BY <2>2 DEF EventLost, Fault
      <3> QED BY <2>2, <3>1, <3>2 DEF EventLost, service
    <2> QED BY <1>2, <2>1, <2>2
  <1>3. ASSUME NEW s \in Handlers, NEW u \in Users, handleUserEvent(s, u) \/ syncRequested(s, u)
        PROVE TypeOK'
    <2>1. sync' \in [Syncs -> Work]
      BY <1>3, BeginType DEF handleUserEvent, syncRequested, Syncs
    <2> QED BY <1>3, <2>1 DEF handleUserEvent, syncRequested, service, history, bounds
  <1>4. ASSUME NEW s \in Syncs, Progress(s) PROVE TypeOK'
    <2>1. sync[s] \in Work /\ sync[s].user \in Users
      BY DEF Work
    <2>2. CASE determineRequiredRoles(s)
      <3>1. sync' \in [Syncs -> Work]
        BY <2>1, <2>2, QuietIsWork DEF determineRequiredRoles, End, Work
      <3> QED BY <2>2, <3>1 DEF determineRequiredRoles, service, bounds
    <2>3. CASE getUserClientRoles(s)
      <3>1. sync' \in [Syncs -> Work]
        <4>1. /\ sync[s].want \ granted[sync[s].user] \in SUBSET Roles
              /\ granted[sync[s].user] \ sync[s].want \in SUBSET Roles
          BY <2>1 DEF Work
        <4> QED BY <2>3, <4>1, ApplyType DEF getUserClientRoles
      <3> QED BY <2>3, <3>1 DEF getUserClientRoles, service, history, bounds
    <2>4. CASE SyncThrows(s) \/ SyncDone(s)
      <3>1. sync' \in [Syncs -> Work]
        BY <2>4, QuietIsWork DEF SyncThrows, SyncDone, End
      <3>2. CASE SyncThrows(s)
        <4>1. excused' \in [Users -> BOOLEAN]
          BY <3>2 DEF SyncThrows, Excuse
        <4>2. faults' \in 0..MaxFaults /\ UNCHANGED <<changes, restarts>>
          BY <3>2 DEF SyncThrows, Fault
        <4> QED BY <3>1, <3>2, <4>1, <4>2 DEF SyncThrows, service
      <3>3. CASE SyncDone(s)
        BY <3>1, <3>3 DEF SyncDone, service, history, bounds
      <3> QED BY <2>4, <3>2, <3>3
    <2>5. ASSUME NEW r \in Roles, assignClientRole(s, r) \/ removeClientRole(s, r) PROVE TypeOK'
      <3>1. sync' \in [Syncs -> Work]
        BY <2>1, <2>5 DEF assignClientRole, removeClientRole, Work
      <3>2. granted' \in [Users -> SUBSET Roles]
        BY <2>1, <2>5 DEF assignClientRole, removeClientRole, Grant, LogFailure
      <3>3. excused' \in [Users -> BOOLEAN]
        BY <2>5 DEF assignClientRole, removeClientRole, Grant, LogFailure, Excuse
      <3>4. faults' \in 0..MaxFaults /\ UNCHANGED <<changes, restarts>>
        BY <2>5 DEF assignClientRole, removeClientRole, Grant, LogFailure, Fault, bounds
      <3> QED BY <2>5, <3>1, <3>2, <3>3, <3>4 DEF assignClientRole, removeClientRole, service
    <2> QED BY <1>4, <2>2, <2>3, <2>4, <2>5 DEF Progress
  <1>5. ASSUME Service \/ dailySync PROVE TypeOK'
    <2>1. CASE NextUser
      <3>1. PICK u \in left : Begin(All, u) /\ left' = left \ {u}
        BY <2>1 DEF NextUser
      <3>2. sync' \in [Syncs -> Work]
        <4>1. u \in Users /\ All \in Syncs
          BY <3>1 DEF Syncs
        <4> QED BY <3>1, <4>1, BeginType
      <3> QED BY <2>1, <3>1, <3>2 DEF NextUser, history, bounds
    <2>2. CASE execute
      <3>1. faults' \in 0..MaxFaults /\ UNCHANGED <<changes, restarts>>
        BY <2>2 DEF execute, Fault, bounds
      <3> QED BY <2>2, <3>1 DEF execute, history
    <2>3. CASE AllDone \/ dailySync
      BY <2>3 DEF AllDone, dailySync, history, bounds
    <2> QED BY <1>5, <2>1, <2>2, <2>3 DEF Service
  <1>6. CASE Restart
    <2>1. sync' \in [Syncs -> Work]
      BY <1>6, QuietIsWork DEF Restart
    <2>2. events' \in [Users -> Nat] /\ excused' \in [Users -> BOOLEAN]
      BY <1>6 DEF Restart
    <2>3. restarts' \in 0..MaxRestarts
      BY <1>6 DEF Restart
    <2> QED BY <1>6, <2>1, <2>2, <2>3 DEF Restart
  <1>7. CASE UNCHANGED vars
    BY <1>7 DEF vars, service, history, bounds
  <1> QED BY <1>1, <1>2, <1>3, <1>4, <1>5, <1>6, <1>7 DEF Next

(* Every variable keeps its type, whatever is changed, lost or restarted.  *)
THEOREM TypeCorrect == Spec => []TypeOK
  BY InitType, StepType, PTL DEF Spec

-----------------------------------------------------------------------------
(* RacesAreHarmless.  What a sync wants was asked for at some time, and     *)
(* includes what was asked for all the time; it grants nothing else and     *)
(* removes nothing of it.                                                   *)
Wants(s) ==
    /\ sync[s].step \in {"roles", "apply"} =>
          always[sync[s].user] \subseteq sync[s].want /\ sync[s].want \subseteq ever[sync[s].user]
    /\ sync[s].step = "apply" =>
          sync[s].add \subseteq sync[s].want /\ sync[s].remove \cap sync[s].want = {}

Entitled ==
    /\ \A u \in Users : always[u] \subseteq required[u] /\ required[u] \subseteq ever[u]
    /\ \A s \in Syncs : Wants(s)

LEMMA InitEntitled == Init => Entitled
  <1>1. Quiet.step = "idle"
    BY DEF Quiet
  <1> QED BY <1>1 DEF Init, Entitled, Wants

LEMMA StepEntitled == TypeOK /\ Entitled /\ [Next]_vars => Entitled'
  <1> SUFFICES ASSUME TypeOK, Entitled, [Next]_vars PROVE Entitled'
    OBVIOUS
  <1>a. sync \in [Syncs -> Work] /\ \A s \in Syncs : sync[s].user \in Users
    BY DEF TypeOK, Work
  <1>b. Quiet.step = "idle"
    BY DEF Quiet
  <1>c. /\ required \in [Users -> SUBSET Roles]
        /\ ever \in [Users -> SUBSET Roles] /\ always \in [Users -> SUBSET Roles]
    BY DEF TypeOK
  <1>1. ASSUME NEW u \in Users, NEW R \in SUBSET Roles, Change(u, R), UNCHANGED sync
        PROVE Entitled'
    <2>1. \A v \in Users : /\ always'[v] \subseteq always[v] /\ ever[v] \subseteq ever'[v]
                           /\ always'[v] \subseteq required'[v] /\ required'[v] \subseteq ever'[v]
      BY <1>1, <1>c DEF Change, Entitled
    <2>2. ASSUME NEW s \in Syncs PROVE Wants(s)'
      <3>1. Wants(s) /\ sync'[s] = sync[s] /\ sync[s].user \in Users
        BY <1>1, <1>a DEF Entitled
      <3> QED BY <3>1, <2>1 DEF Wants
    <2> QED BY <2>1, <2>2 DEF Entitled
  <1>2. ASSUME UNCHANGED <<required, ever, always, sync>> PROVE Entitled'
    BY <1>2 DEF Entitled, Wants
  \* A sync of which nothing more is said than that it asks for no more.
  <1>3. ASSUME NEW s \in Syncs, UNCHANGED <<required, ever, always>>,
               \A o \in Syncs \ {s} : sync'[o] = sync[o], Wants(s)'
        PROVE Entitled'
    <2>1. ASSUME NEW o \in Syncs, o # s PROVE Wants(o)'
      BY <1>3, <2>1 DEF Wants, Entitled
    <2> QED BY <1>3, <2>1 DEF Entitled
  <1>4. ASSUME NEW s \in Syncs, NEW u \in Users, Begin(s, u), UNCHANGED <<required, ever, always>>
        PROVE Entitled'
    <2>1. sync'[s].step = "load" /\ \A o \in Syncs \ {s} : sync'[o] = sync[o]
      BY <1>4, <1>a DEF Begin, Work
    <2> QED BY <1>3, <1>4, <2>1 DEF Wants
  <1>5. ASSUME NEW s \in Syncs, End(s), UNCHANGED <<required, ever, always>> PROVE Entitled'
    <2>1. sync'[s].step = "idle" /\ \A o \in Syncs \ {s} : sync'[o] = sync[o]
      BY <1>5, <1>a, <1>b DEF End
    <2> QED BY <1>3, <1>5, <2>1 DEF Wants
  <1>6. ASSUME NEW s \in Syncs, determineRequiredRoles(s) PROVE Entitled'
    <2>1. CASE sync[s].user \in exists
      <3>1. /\ sync'[s].step = "roles" /\ sync'[s].want = required[sync[s].user]
            /\ sync'[s].user = sync[s].user
            /\ \A o \in Syncs \ {s} : sync'[o] = sync[o]
        BY <1>6, <2>1, <1>a DEF determineRequiredRoles, Work
      <3>2. Wants(s)'
        BY <3>1, <1>a, <1>6 DEF Wants, Entitled, determineRequiredRoles
      <3> QED BY <1>3, <1>6, <3>1, <3>2 DEF determineRequiredRoles
    <2>2. CASE sync[s].user \notin exists
      BY <2>2, <1>5, <1>6 DEF determineRequiredRoles
    <2> QED BY <2>1, <2>2
  <1>7. ASSUME NEW s \in Syncs, getUserClientRoles(s) PROVE Entitled'
    <2>1. /\ sync[s].step = "roles"
          /\ sync'[s].step = "apply" /\ sync'[s].want = sync[s].want
          /\ sync'[s].user = sync[s].user
          /\ sync'[s].add = sync[s].want \ granted[sync[s].user]
          /\ sync'[s].remove = granted[sync[s].user] \ sync[s].want
          /\ \A o \in Syncs \ {s} : sync'[o] = sync[o]
      BY <1>7, <1>a DEF getUserClientRoles, Work
    <2>2. Wants(s) /\ UNCHANGED <<required, ever, always>>
      BY <1>7 DEF getUserClientRoles, history, Entitled
    <2>3. Wants(s)'
      BY <2>1, <2>2 DEF Wants
    <2> QED BY <1>3, <2>1, <2>2, <2>3
  <1>8. ASSUME NEW s \in Syncs, NEW r \in Roles, assignClientRole(s, r) \/ removeClientRole(s, r)
        PROVE Entitled'
    <2>1. /\ sync'[s].step = sync[s].step /\ sync'[s].want = sync[s].want
          /\ sync'[s].user = sync[s].user
          /\ sync'[s].add \subseteq sync[s].add /\ sync'[s].remove \subseteq sync[s].remove
          /\ \A o \in Syncs \ {s} : sync'[o] = sync[o]
      BY <1>8, <1>a DEF assignClientRole, removeClientRole, Work
    <2>2. Wants(s) /\ UNCHANGED <<required, ever, always>>
      BY <1>8 DEF assignClientRole, removeClientRole, Entitled
    <2>3. Wants(s)'
      BY <2>1, <2>2 DEF Wants
    <2> QED BY <1>3, <2>1, <2>2, <2>3
  <1>9. ASSUME NEW s \in Syncs, Progress(s) PROVE Entitled'
    BY <1>5, <1>6, <1>7, <1>8, <1>9 DEF Progress, SyncThrows, SyncDone, history
  <1>10. CASE Restart
    <2>1. \A s \in Syncs : sync'[s].step = "idle"
      BY <1>10, <1>b DEF Restart
    <2> QED BY <1>10, <2>1 DEF Restart, Entitled, Wants
  <1>11. ASSUME Service \/ dailySync PROVE Entitled'
    <2>1. CASE NextUser
      BY <1>4, <2>1 DEF NextUser, Syncs, history, TypeOK
    <2> QED BY <1>2, <1>11, <2>1 DEF Service, execute, AllDone, dailySync, history
  <1>12. ASSUME NEW s \in Handlers, NEW u \in Users, handleUserEvent(s, u) \/ syncRequested(s, u)
         PROVE Entitled'
    BY <1>4, <1>12 DEF handleUserEvent, syncRequested, Syncs, history
  <1>13. ASSUME NEW u \in Users, deleteUser(u) \/ EventLost(u) PROVE Entitled'
    BY <1>2, <1>13 DEF deleteUser, EventLost, history
  <1>14. ASSUME NEW u \in Users, NEW R \in SUBSET Roles, updateUser(u, R) \/ changeOutside(u, R)
         PROVE Entitled'
    BY <1>1, <1>14 DEF updateUser, changeOutside
  <1>15. CASE UNCHANGED vars
    BY <1>2, <1>15 DEF vars, history
  <1> QED BY <1>9, <1>10, <1>11, <1>12, <1>13, <1>14, <1>15 DEF Next

(* Only the two calls of a sync change what is granted.                    *)
LEMMA StepHarmless ==
    ASSUME TypeOK, Entitled, [Next]_vars
    PROVE  \A u \in Users :
              /\ granted[u] \ granted'[u] \subseteq Roles \ always[u]
              /\ granted'[u] \ granted[u] \subseteq ever[u]
  <1>a. /\ \A s \in Syncs : sync[s] \in Work /\ sync[s].user \in Users
        /\ granted \in [Users -> SUBSET Roles]
    BY DEF TypeOK, Work
  <1>1. ASSUME NEW s \in Syncs, NEW r \in Roles, assignClientRole(s, r)
        PROVE  \A u \in Users : /\ granted[u] \subseteq granted'[u]
                                /\ granted'[u] \ granted[u] \subseteq ever[u]
    <2>1. r \in ever[sync[s].user]
      BY <1>1 DEF assignClientRole, Entitled, Wants
    <2> QED BY <1>1, <1>a, <2>1 DEF assignClientRole, Grant, LogFailure
  <1>2. ASSUME NEW s \in Syncs, NEW r \in Roles, removeClientRole(s, r)
        PROVE  \A u \in Users : /\ granted'[u] \subseteq granted[u]
                                /\ granted[u] \ granted'[u] \subseteq Roles \ always[u]
    <2>1. r \notin always[sync[s].user]
      BY <1>2 DEF removeClientRole, Entitled, Wants
    <2> QED BY <1>2, <1>a, <2>1 DEF removeClientRole, Grant, LogFailure
  <1>3. CASE UNCHANGED granted
    BY <1>3
  <1>4. \/ UNCHANGED granted
        \/ \E s \in Syncs, r \in Roles : assignClientRole(s, r) \/ removeClientRole(s, r)
    BY DEF Next, updateUser, changeOutside, deleteUser, EventLost, handleUserEvent, syncRequested,
           Progress, determineRequiredRoles, getUserClientRoles, SyncThrows, SyncDone,
           Service, execute, NextUser, AllDone, dailySync, Restart, vars
  <1> QED BY <1>1, <1>2, <1>3, <1>4, <1>a

(* However syncs of a user race, none takes away a role the user was always *)
(* entitled to, and none grants one the user never was.                    *)
THEOREM Harmless == Spec => RacesAreHarmless
  <1>1. TypeOK /\ Entitled /\ [Next]_vars =>
           [\A u \in Users :
              /\ granted[u] \ granted'[u] \subseteq Roles \ always[u]
              /\ granted'[u] \ granted[u] \subseteq ever[u]]_vars
    BY StepHarmless
  <1> QED
    BY <1>1, InitType, StepType, InitEntitled, StepEntitled, PTL DEF Spec, RacesAreHarmless

-----------------------------------------------------------------------------
(* SettledInSync.  While a difference is not excused, at most one sync of    *)
(* the user is past its read, and something is on its way that will have the *)
(* last word: an event, a sync that has still to read the row, or that one   *)
(* sync, whose remaining calls end at what the row asks for.                 *)
Alone(u) == \A s, o \in Syncs : Busy(s, u) /\ Busy(o, u) => s = o

Ends(s, u) ==
    /\ Busy(s, u)
    /\ sync[s].want = required[u]
    /\ sync[s].step = "apply" =>
          (granted[u] \cup sync[s].add) \ sync[s].remove = required[u]

Reading(s, u) == sync[s].step = "load" /\ sync[s].user = u

Explained(u) ==
    \/ events[u] > 0
    \/ \E s \in Syncs : Reading(s, u)
    \/ (\A s \in Syncs : ~Busy(s, u)) /\ granted[u] = required[u]
    \/ \E s \in Syncs : Ends(s, u)

Settling == \A u \in exists : ~excused[u] => Alone(u) /\ Explained(u)

LEMMA StepSettling == TypeOK /\ Settling /\ [Next]_vars => Settling'
  <1> SUFFICES ASSUME TypeOK, Settling, [Next]_vars, NEW u \in exists', ~excused'[u]
               PROVE  (Alone(u) /\ Explained(u))'
    BY DEF Settling
  <1>a. sync \in [Syncs -> Work] /\ \A s \in Syncs : sync[s] \in Work /\ sync[s].user \in Users
    BY DEF TypeOK, Work
  <1>b. Quiet.step = "idle"
    BY DEF Quiet
  <1>c. /\ exists \subseteq Users /\ required \in [Users -> SUBSET Roles]
        /\ granted \in [Users -> SUBSET Roles] /\ events \in [Users -> Nat]
        /\ excused \in [Users -> BOOLEAN]
    BY DEF TypeOK
  <1>d. exists' \subseteq exists
    BY DEF Next, updateUser, changeOutside, deleteUser, EventLost, handleUserEvent, syncRequested,
           Progress, determineRequiredRoles, getUserClientRoles, SyncThrows, SyncDone,
           assignClientRole, removeClientRole,
           Service, execute, NextUser, AllDone, dailySync, Restart, vars
  <1>e. u \in exists /\ u \in Users
    BY <1>c, <1>d
  \* Nothing of u changes.
  <1>1. ASSUME UNCHANGED <<required, granted, excused>>, events'[u] = events[u],
               \A s \in Syncs : In(s, u) \/ In(s, u)' => sync'[s] = sync[s]
        PROVE  (Alone(u) /\ Explained(u))'
    <2>1. Alone(u) /\ Explained(u)
      BY <1>1, <1>e DEF Settling
    <2>2. \A s \in Syncs : /\ Busy(s, u)' <=> Busy(s, u)
                           /\ Reading(s, u)' <=> Reading(s, u)
                           /\ Ends(s, u) => Ends(s, u)'
      BY <1>1 DEF Busy, Reading, Ends, In, Idle
    <2> QED BY <1>1, <2>1, <2>2 DEF Alone, Explained
  \* A sync begins to read: no other is disturbed, and it has the last word.
  <1>2. ASSUME NEW s \in Syncs, NEW v \in Users, Begin(s, v), Idle(s),
               UNCHANGED <<required, granted, excused>>, u # v => events'[u] = events[u]
        PROVE  (Alone(u) /\ Explained(u))'
    <2>1. /\ sync'[s].step = "load" /\ sync'[s].user = v
          /\ \A o \in Syncs \ {s} : sync'[o] = sync[o]
      BY <1>2, <1>a DEF Begin, Work
    <2>2. CASE u = v
      <3>1. Alone(u)
        BY <1>2, <1>e DEF Settling
      <3>2. \A o \in Syncs : Busy(o, u)' => Busy(o, u)
        BY <2>1 DEF Busy
      <3> QED BY <2>1, <2>2, <3>1, <3>2 DEF Alone, Explained, Reading
    <2>3. CASE u # v
      BY <1>1, <1>2, <2>1, <2>3 DEF In, Idle
    <2> QED BY <2>2, <2>3
  <1>3. ASSUME NEW s \in Handlers, NEW v \in Users, handleUserEvent(s, v) \/ syncRequested(s, v)
        PROVE  (Alone(u) /\ Explained(u))'
    BY <1>2, <1>3, <1>c, <1>e DEF handleUserEvent, syncRequested, Syncs, history
  <1>4. CASE NextUser
    BY <1>2, <1>4, <1>c DEF NextUser, Syncs, history, TypeOK
  <1>5. CASE execute \/ AllDone \/ dailySync
    BY <1>1, <1>5 DEF execute, AllDone, dailySync, history
  <1>6. ASSUME NEW v \in Users, NEW R \in SUBSET Roles, updateUser(v, R) \/ changeOutside(v, R)
        PROVE  (Alone(u) /\ Explained(u))'
    <2>1. CASE u = v
      <3>1. updateUser(u, R) /\ events'[u] = events[u] + 1 /\ UNCHANGED <<excused, sync>>
        BY <1>6, <2>1, <1>c, <1>e DEF updateUser, changeOutside, Excuse
      <3>2. Alone(u)' /\ events'[u] > 0
        BY <3>1, <1>c, <1>e DEF Settling, Alone, Busy
      <3> QED BY <3>2 DEF Explained
    <2>2. CASE u # v
      <3>1. /\ required'[u] = required[u] /\ excused'[u] = excused[u] /\ events'[u] = events[u]
            /\ UNCHANGED <<granted, sync>>
        BY <1>6, <2>2, <1>c, <1>e DEF updateUser, changeOutside, Change, Excuse
      <3>2. Alone(u) /\ Explained(u)
        BY <3>1, <1>e DEF Settling
      <3> QED BY <3>1, <3>2 DEF Alone, Explained, Busy, Reading, Ends
    <2> QED BY <2>1, <2>2
  <1>7. ASSUME NEW v \in Users, deleteUser(v) \/ EventLost(v) PROVE (Alone(u) /\ Explained(u))'
    <2>1. CASE deleteUser(v)
      BY <1>1, <2>1 DEF deleteUser, history
    <2>2. CASE EventLost(v)
      <3>1. u # v
        BY <2>2, <1>c, <1>e DEF EventLost, Excuse
      <3>2. /\ required'[u] = required[u] /\ excused'[u] = excused[u] /\ events'[u] = events[u]
            /\ UNCHANGED <<granted, sync>>
        BY <3>1, <2>2, <1>c, <1>e DEF EventLost, Excuse
      <3>3. Alone(u) /\ Explained(u)
        BY <3>2, <1>e, <2>2 DEF Settling
      <3> QED BY <2>2, <3>2, <3>3 DEF Alone, Explained, Busy, Reading, Ends, EventLost
    <2> QED BY <1>7, <2>1, <2>2
  <1>8. ASSUME NEW s \in Syncs, determineRequiredRoles(s) PROVE (Alone(u) /\ Explained(u))'
    <2>1. CASE sync[s].user = u
      <3>1. /\ excused'[u] <=> \E o \in Syncs \ {s} : Busy(o, u)
            /\ sync'[s].step = "roles" /\ sync'[s].user = u /\ sync'[s].want = required[u]
            /\ \A o \in Syncs \ {s} : sync'[o] = sync[o]
            /\ required' = required
        BY <1>8, <2>1, <1>a, <1>c, <1>e DEF determineRequiredRoles, Work
      <3>2. \A o \in Syncs \ {s} : ~Busy(o, u)'
        BY <3>1 DEF Busy
      <3>3. Ends(s, u)'
        BY <3>1 DEF Ends, Busy
      <3> QED BY <3>2, <3>3 DEF Alone, Explained
    <2>2. CASE sync[s].user # u
      <3>1. /\ excused'[u] = excused[u] /\ UNCHANGED <<required, granted, events>>
            /\ sync'[s].step = "idle" \/ sync'[s].user # u
            /\ \A o \in Syncs \ {s} : sync'[o] = sync[o]
        BY <1>8, <2>2, <1>a, <1>b, <1>c, <1>e DEF determineRequiredRoles, End, Work
      <3>2. Alone(u) /\ Explained(u)
        BY <3>1, <1>e DEF Settling
      <3>3. \A o \in Syncs : /\ Busy(o, u)' <=> Busy(o, u)
                             /\ Reading(o, u)' <=> Reading(o, u)
                             /\ Ends(o, u) => Ends(o, u)'
        BY <3>1, <2>2 DEF Busy, Reading, Ends
      <3> QED BY <3>1, <3>2, <3>3 DEF Alone, Explained
    <2> QED BY <2>1, <2>2
  \* A sync past its read goes on: if it is the one of u, it still ends there.
  <1>9. ASSUME NEW s \in Syncs, sync[s].step \in {"roles", "apply"},
               UNCHANGED <<required, events>>,
               \A o \in Syncs \ {s} : sync'[o] = sync[o],
               sync[s].user # u =>
                  /\ granted'[u] = granted[u] /\ excused'[u] = excused[u]
                  /\ sync'[s].step = "idle" \/ sync'[s].user # u,
               sync[s].user = u =>
                  /\ excused'[u] = excused[u]
                  /\ \/ Busy(s, u)' /\ (Ends(s, u) => Ends(s, u)')
                     \/ ~Busy(s, u)' /\ sync'[s].step # "load"
                        /\ (Ends(s, u) => granted'[u] = required[u])
        PROVE  (Alone(u) /\ Explained(u))'
    <2>1. excused'[u] = excused[u] /\ Alone(u) /\ Explained(u)
      BY <1>9, <1>e DEF Settling
    <2>2. CASE sync[s].user = u
      <3>1. Busy(s, u) /\ \A o \in Syncs \ {s} : ~Busy(o, u)
        BY <2>1, <2>2, <1>9 DEF Busy, Alone
      <3>2. \A o \in Syncs \ {s} : ~Busy(o, u)' /\ (Reading(o, u)' <=> Reading(o, u))
        BY <3>1, <1>9 DEF Busy, Reading
      <3>3. \/ events[u] > 0 \/ \E o \in Syncs \ {s} : Reading(o, u)
            \/ Ends(s, u)
        BY <2>1, <3>1 DEF Explained, Ends, Reading, Busy
      <3>4. CASE events[u] > 0 \/ \E o \in Syncs \ {s} : Reading(o, u)
        BY <3>2, <3>4, <1>9 DEF Alone, Explained
      <3>5. CASE Ends(s, u)
        BY <3>2, <3>5, <2>2, <1>9 DEF Alone, Explained
      <3> QED BY <3>3, <3>4, <3>5
    <2>3. CASE sync[s].user # u
      <3>1. \A o \in Syncs : /\ Busy(o, u)' <=> Busy(o, u)
                             /\ Reading(o, u)' <=> Reading(o, u)
                             /\ Ends(o, u) => Ends(o, u)'
        BY <2>3, <1>9 DEF Busy, Reading, Ends
      <3> QED BY <2>1, <2>3, <3>1, <1>9 DEF Alone, Explained
    <2> QED BY <2>2, <2>3
  <1>10. ASSUME NEW s \in Syncs, getUserClientRoles(s) PROVE (Alone(u) /\ Explained(u))'
    <2>1. /\ sync[s].step = "roles"
          /\ sync'[s].step = "apply" /\ sync'[s].want = sync[s].want
          /\ sync'[s].user = sync[s].user
          /\ sync'[s].add = sync[s].want \ granted[sync[s].user]
          /\ sync'[s].remove = granted[sync[s].user] \ sync[s].want
          /\ \A o \in Syncs \ {s} : sync'[o] = sync[o]
          /\ UNCHANGED <<required, granted, events, excused>>
      BY <1>10, <1>a DEF getUserClientRoles, Work, history
    <2>2. sync[s].user = u => Busy(s, u)' /\ (Ends(s, u) => Ends(s, u)')
      BY <2>1 DEF Busy, Ends
    <2> QED BY <1>9, <2>1, <2>2
  <1>11. ASSUME NEW s \in Syncs, SyncThrows(s) PROVE (Alone(u) /\ Explained(u))'
    <2>1. sync[s].user # u
      BY <1>11, <1>c, <1>e DEF SyncThrows, Excuse
    <2>2. /\ sync[s].step = "roles" /\ sync'[s].step = "idle"
          /\ \A o \in Syncs \ {s} : sync'[o] = sync[o]
          /\ excused'[u] = excused[u]
          /\ UNCHANGED <<required, granted, events>>
      BY <1>11, <2>1, <1>a, <1>b, <1>c, <1>e DEF SyncThrows, End, Excuse
    <2> QED BY <1>9, <2>1, <2>2
  <1>12. ASSUME NEW s \in Syncs, SyncDone(s) PROVE (Alone(u) /\ Explained(u))'
    <2>1. /\ sync[s].step = "apply" /\ sync[s].add = {} /\ sync[s].remove = {}
          /\ sync'[s].step = "idle"
          /\ \A o \in Syncs \ {s} : sync'[o] = sync[o]
          /\ UNCHANGED <<required, granted, events, excused>>
      BY <1>12, <1>a, <1>b DEF SyncDone, End, history
    <2>2. sync[s].user = u => ~Busy(s, u)' /\ (Ends(s, u) => granted'[u] = required[u])
      BY <2>1 DEF Busy, Ends
    <2> QED BY <1>9, <2>1, <2>2
  <1>13. ASSUME NEW s \in Syncs, NEW r \in Roles, assignClientRole(s, r) \/ removeClientRole(s, r)
         PROVE  (Alone(u) /\ Explained(u))'
    <2>1. /\ sync[s].step = "apply" /\ sync'[s].step = "apply"
          /\ sync'[s].want = sync[s].want /\ sync'[s].user = sync[s].user
          /\ \A o \in Syncs \ {s} : sync'[o] = sync[o]
          /\ UNCHANGED <<required, events>>
      BY <1>13, <1>a DEF assignClientRole, removeClientRole, Work
    <2>2. ASSUME sync[s].user # u PROVE granted'[u] = granted[u] /\ excused'[u] = excused[u]
      BY <1>13, <2>2, <1>a, <1>c, <1>e DEF assignClientRole, removeClientRole, Grant, LogFailure, Excuse
    <2>3. ASSUME sync[s].user = u
          PROVE  excused' = excused /\ Busy(s, u)' /\ (Ends(s, u) => Ends(s, u)')
      <3>1. CASE assignClientRole(s, r)
        <4>1. /\ granted'[u] = granted[u] \cup {r} /\ excused' = excused
              /\ r \in sync[s].add /\ sync'[s].add = sync[s].add \ {r}
              /\ sync'[s].remove = sync[s].remove
          BY <3>1, <2>3, <1>a, <1>c, <1>e DEF assignClientRole, Grant, LogFailure, Excuse, Work
        <4>2. (granted'[u] \cup sync'[s].add) \ sync'[s].remove
                 = (granted[u] \cup sync[s].add) \ sync[s].remove
          BY <4>1
        <4> QED BY <2>1, <2>3, <4>1, <4>2 DEF Busy, Ends
      <3>2. CASE removeClientRole(s, r)
        <4>1. /\ granted'[u] = granted[u] \ {r} /\ excused' = excused
              /\ sync[s].add = {} /\ sync'[s].add = {}
              /\ r \in sync[s].remove /\ sync'[s].remove = sync[s].remove \ {r}
          BY <3>2, <2>3, <1>a, <1>c, <1>e DEF removeClientRole, Grant, LogFailure, Excuse, Work
        <4>2. (granted'[u] \cup sync'[s].add) \ sync'[s].remove
                 = (granted[u] \cup sync[s].add) \ sync[s].remove
          BY <4>1
        <4> QED BY <2>1, <2>3, <4>1, <4>2 DEF Busy, Ends
      <3> QED BY <1>13, <3>1, <3>2
    <2> QED BY <1>9, <2>1, <2>2, <2>3
  <1>14. CASE Restart
    BY <1>14, <1>e DEF Restart
  <1>15. CASE UNCHANGED vars
    BY <1>1, <1>15 DEF vars, history
  <1> QED
    BY <1>3, <1>4, <1>5, <1>6, <1>7, <1>8, <1>10, <1>11, <1>12, <1>13, <1>14, <1>15
    DEF Next, Progress, Service

(* When nothing of a user is under way, Keycloak shows what the row asks for, *)
(* unless a missed event, a failed call or an overlap since the last         *)
(* undisturbed sync explains a difference.                                   *)
THEOREM Settled == Spec => []SettledInSync
  <1>1. Init => Settling
    BY DEF Init, Settling, TypeOK
  <1>2. Settling => SettledInSync
    <2> SUFFICES ASSUME Settling, NEW u \in exists, events[u] = 0, ~excused[u],
                        \A s \in Syncs : ~In(s, u)
                 PROVE  granted[u] = required[u]
      BY DEF SettledInSync
    <2>1. \A s \in Syncs : ~Busy(s, u) /\ ~Reading(s, u)
      BY DEF In, Idle, Busy, Reading
    <2>2. Explained(u) /\ ~(events[u] > 0)
      BY DEF Settling
    <2> QED BY <2>1, <2>2 DEF Explained, Ends
  <1> QED BY <1>1, <1>2, InitType, StepType, StepSettling, PTL DEF Spec

=============================================================================
