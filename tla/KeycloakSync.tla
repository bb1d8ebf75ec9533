---------------------------- MODULE KeycloakSync ----------------------------
(***************************************************************************)
(* The synchronisation of Keycloak client roles with the users table:      *)
(* KeycloakSyncService.  Any number of syncUserRoles of one user may be    *)
(* under way at a time: one for each User event, one for each call of the  *)
(* internal controller, and the one syncAllUsers is at.  Each reads the    *)
(* row, then the roles in Keycloak, and then applies the difference one    *)
(* call at a time; a call that fails is logged and left at that.           *)
(*                                                                         *)
(* A user's row is known by the roles determineRequiredRoles makes of it.  *)
(***************************************************************************)
EXTENDS Integers

CONSTANTS
    Users,
    Roles,
    Handlers,   \* bound: event handlers and controller calls under way at a time
    MaxChanges, \* bound: changes of the users table
    MaxEvents,  \* bound: events of a user on their way
    MaxFaults,  \* bound: events and Keycloak calls that fail
    MaxRestarts \* bound: restarts of the server

All   == "syncAllUsers"
Syncs == Handlers \cup {All}

ASSUME KeycloakSyncAssumption ==
    /\ Users # {}
    /\ All \notin Handlers
    /\ {MaxChanges, MaxEvents, MaxFaults, MaxRestarts} \subseteq Nat

VARIABLES
    required,   \* the roles each row asks for
    exists,     \* the users with a row
    granted,    \* the client roles each user has in Keycloak
    events,     \* how many events of each user are on their way
    subscribed,
    running,    \* BaseService.running
    phase,      \* what runs in it
    left,       \* the users syncAllUsers has still to do
    sync,       \* the syncUserRoles each of Syncs is in
    \* history
    ever,       \* the roles a user's row has asked for at some time ...
    always,     \* ... and those it has asked for all the time
    excused,    \* something since the last undisturbed read explains a difference
    changes, faults, restarts

service == <<subscribed, running, phase, left>>
history == <<ever, always, excused>>
bounds  == <<changes, faults, restarts>>
vars == <<required, exists, granted, events, service, sync, history, bounds>>

\* A sync of user that has read the row wants add granted, then remove revoked.
Work == [step : {"idle", "load", "roles", "apply"}, user : Users, want : SUBSET Roles,
         add : SUBSET Roles, remove : SUBSET Roles]

TypeOK ==
    /\ required \in [Users -> SUBSET Roles] /\ granted \in [Users -> SUBSET Roles]
    /\ exists \subseteq Users
    /\ events \in [Users -> Nat]
    /\ subscribed \in BOOLEAN /\ running \in BOOLEAN
    /\ phase \in {"boot", "task", "daily", "none"}
    /\ left \subseteq Users
    /\ sync \in [Syncs -> Work]
    /\ ever \in [Users -> SUBSET Roles] /\ always \in [Users -> SUBSET Roles]
    /\ excused \in [Users -> BOOLEAN]
    /\ changes \in 0..MaxChanges /\ faults \in 0..MaxFaults /\ restarts \in 0..MaxRestarts

-----------------------------------------------------------------------------
Fault == faults < MaxFaults /\ faults' = faults + 1 /\ UNCHANGED <<changes, restarts>>

Idle(s)   == sync[s].step = "idle"
In(s, u)  == ~Idle(s) /\ sync[s].user = u

\* s has read the row of u and not finished.
Busy(s, u) == sync[s].step \in {"roles", "apply"} /\ sync[s].user = u

Quiet == [step |-> "idle", user |-> CHOOSE u \in Users : TRUE, want |-> {}, add |-> {}, remove |-> {}]

Begin(s, u) == sync' = [sync EXCEPT ![s].step = "load", ![s].user = u]
End(s) == sync' = [sync EXCEPT ![s] = Quiet]

Excuse(u) == excused' = [excused EXCEPT ![u] = TRUE]

-----------------------------------------------------------------------------
(* The users table and its events *)

Change(u, R) ==
    /\ changes < MaxChanges /\ changes' = changes + 1 /\ UNCHANGED <<faults, restarts>>
    /\ R # required[u]
    /\ required' = [required EXCEPT ![u] = R]
    /\ ever' = [ever EXCEPT ![u] = @ \cup R]
    /\ always' = [always EXCEPT ![u] = @ \cap R]

\* updateUser writes the row and publishes; nobody may be listening yet.
updateUser(u, R) ==
    /\ u \in exists /\ events[u] < MaxEvents
    /\ Change(u, R)
    /\ IF subscribed
       THEN events' = [events EXCEPT ![u] = @ + 1] /\ UNCHANGED excused
       ELSE Excuse(u) /\ UNCHANGED events
    /\ UNCHANGED <<exists, granted, service, sync>>

\* Changes that publish no User event: of a unit, or outside GraphQL.
changeOutside(u, R) ==
    /\ u \in exists
    /\ Change(u, R)
    /\ Excuse(u)
    /\ UNCHANGED <<exists, granted, events, service, sync>>

\* handleUserDeleted logs the event and does nothing.
deleteUser(u) ==
    /\ u \in exists
    /\ exists' = exists \ {u}
    /\ UNCHANGED <<required, granted, events, service, sync, history, bounds>>

EventLost(u) ==
    /\ events[u] > 0
    /\ events' = [events EXCEPT ![u] = @ - 1]
    /\ Excuse(u) /\ Fault
    /\ UNCHANGED <<required, exists, granted, service, sync, ever, always>>

-----------------------------------------------------------------------------
(* syncUserRoles *)

\* Mutant of handleUserEvent: it does not wait for an event.
handleUserEvent_unasked(s, u) ==
    /\ Idle(s)
    /\ events' = [events EXCEPT ![u] = @ - 1]
    /\ Begin(s, u)
    /\ UNCHANGED <<required, exists, granted, service, history, bounds>>

handleUserEvent(s, u) ==
    /\ Idle(s) /\ events[u] > 0
    /\ events' = [events EXCEPT ![u] = @ - 1]
    /\ Begin(s, u)
    /\ UNCHANGED <<required, exists, granted, service, history, bounds>>

\* sync-roles and sync-all of the internal controller.
syncRequested(s, u) ==
    /\ Idle(s) /\ u \in exists
    /\ Begin(s, u)
    /\ UNCHANGED <<required, exists, granted, events, service, history, bounds>>

\* The row is read; without one the sync throws.
determineRequiredRoles(s) ==
    /\ sync[s].step = "load"
    /\ LET u == sync[s].user
       IN  IF u \in exists
           THEN /\ sync' = [sync EXCEPT ![s].step = "roles", ![s].want = required[u]]
                /\ excused' = [excused EXCEPT ![u] = \E o \in Syncs \ {s} : Busy(o, u)]
           ELSE End(s) /\ UNCHANGED excused
    /\ UNCHANGED <<required, exists, granted, events, service, ever, always, bounds>>

\* Mutant of getUserClientRoles: the user is stripped of all roles as well.
getUserClientRoles_all(s) ==
    /\ sync[s].step = "roles"
    /\ sync' = [sync EXCEPT ![s].step = "apply", ![s].add = sync[s].want,
                            ![s].remove = granted[sync[s].user]]
    /\ UNCHANGED <<required, exists, granted, events, service, history, bounds>>

\* Mutant of getUserClientRoles: nothing is ever removed.
getUserClientRoles_add(s) ==
    /\ sync[s].step = "roles"
    /\ sync' = [sync EXCEPT ![s].step = "apply",
                            ![s].add = sync[s].want \ granted[sync[s].user]]
    /\ UNCHANGED <<required, exists, granted, events, service, history, bounds>>

getUserClientRoles(s) ==
    /\ sync[s].step = "roles"
    /\ LET u == sync[s].user
           want == sync[s].want
       IN  sync' = [sync EXCEPT ![s].step = "apply", ![s].add = want \ granted[u],
                                ![s].remove = granted[u] \ want]
    /\ UNCHANGED <<required, exists, granted, events, service, history, bounds>>

\* A call before the difference is known fails: the sync throws.
SyncThrows(s) ==
    /\ sync[s].step = "roles"
    /\ End(s)
    /\ Excuse(sync[s].user) /\ Fault
    /\ UNCHANGED <<required, exists, granted, events, service, ever, always>>

Grant(u, R) == granted' = [granted EXCEPT ![u] = R] /\ UNCHANGED <<excused, bounds>>

LogFailure(u) == Excuse(u) /\ Fault /\ UNCHANGED granted

assignClientRole(s, r) ==
    /\ sync[s].step = "apply" /\ r \in sync[s].add
    /\ sync' = [sync EXCEPT ![s].add = @ \ {r}]
    /\ \/ Grant(sync[s].user, granted[sync[s].user] \cup {r})
       \/ LogFailure(sync[s].user)
    /\ UNCHANGED <<required, exists, events, service, ever, always>>

removeClientRole(s, r) ==
    /\ sync[s].step = "apply" /\ sync[s].add = {} /\ r \in sync[s].remove
    /\ sync' = [sync EXCEPT ![s].remove = @ \ {r}]
    /\ \/ Grant(sync[s].user, granted[sync[s].user] \ {r})
       \/ LogFailure(sync[s].user)
    /\ UNCHANGED <<required, exists, events, service, ever, always>>

SyncDone(s) ==
    /\ sync[s].step = "apply" /\ sync[s].add = {} /\ sync[s].remove = {}
    /\ End(s)
    /\ UNCHANGED <<required, exists, granted, events, service, history, bounds>>

-----------------------------------------------------------------------------
(* syncAllUsers, in the task and in dailySync *)

\* BaseService.execute, once, a second after the start.
execute ==
    /\ phase = "boot" /\ ~running
    /\ running' = TRUE /\ phase' = "task"
    /\ \/ subscribed' = TRUE /\ UNCHANGED bounds
       \/ subscribed' = FALSE /\ Fault
    /\ left' = exists
    /\ UNCHANGED <<required, exists, granted, events, sync, history>>

\* The cron at midnight; schedule() sets running and nothing resets it.
dailySync ==
    /\ phase # "boot" /\ ~running
    /\ running' = TRUE /\ phase' = "daily"
    /\ left' = exists
    /\ UNCHANGED <<required, exists, granted, events, subscribed, sync, history, bounds>>

NextUser ==
    /\ phase \in {"task", "daily"} /\ Idle(All)
    /\ \E u \in left : Begin(All, u) /\ left' = left \ {u}
    /\ UNCHANGED <<required, exists, granted, events, subscribed, running, phase, history, bounds>>

\* Mutant of AllDone: the task does not reset running either.
AllDone_running ==
    /\ phase \in {"task", "daily"} /\ Idle(All) /\ left = {}
    /\ phase' = "none"
    /\ UNCHANGED <<required, exists, granted, events, subscribed, running, left, sync, history, bounds>>

AllDone ==
    /\ phase \in {"task", "daily"} /\ Idle(All) /\ left = {}
    /\ phase' = "none"
    /\ running' = (phase = "daily")
    /\ UNCHANGED <<required, exists, granted, events, subscribed, left, sync, history, bounds>>

Restart ==
    /\ restarts < MaxRestarts /\ restarts' = restarts + 1
    /\ subscribed' = FALSE /\ running' = FALSE /\ phase' = "boot" /\ left' = {}
    /\ sync' = [s \in Syncs |-> Quiet]
    /\ events' = [u \in Users |-> 0]
    /\ excused' = [u \in Users |-> TRUE]
    /\ UNCHANGED <<required, exists, granted, ever, always, changes, faults>>

Init ==
    /\ required \in [Users -> SUBSET Roles] /\ granted \in [Users -> SUBSET Roles]
    /\ exists = Users
    /\ events = [u \in Users |-> 0]
    /\ subscribed = FALSE /\ running = FALSE /\ phase = "boot" /\ left = {}
    /\ sync = [s \in Syncs |-> Quiet]
    /\ ever = required /\ always = required
    /\ excused = [u \in Users |-> TRUE]
    /\ changes = 0 /\ faults = 0 /\ restarts = 0

Progress(s) ==
    \/ determineRequiredRoles(s) \/ getUserClientRoles(s) \/ SyncThrows(s) \/ SyncDone(s)
    \/ \E r \in Roles : assignClientRole(s, r) \/ removeClientRole(s, r)

Service == execute \/ NextUser \/ AllDone

Next ==
    \/ \E u \in Users, R \in SUBSET Roles : updateUser(u, R) \/ changeOutside(u, R)
    \/ \E u \in Users : deleteUser(u) \/ EventLost(u)
    \/ \E s \in Handlers, u \in Users : handleUserEvent(s, u) \/ syncRequested(s, u)
    \/ \E s \in Syncs : Progress(s)
    \/ Service \/ dailySync
    \/ Restart

Spec == Init /\ [][Next]_vars

\* Every await ends, the crons fire, and an event finds a handler.
Fairness ==
    /\ \A s \in Syncs : WF_vars(Progress(s))
    /\ WF_vars(Service) /\ WF_vars(dailySync)
    /\ \A u \in Users : SF_vars(\E s \in Handlers : handleUserEvent(s, u))

FairSpec == Spec /\ Fairness

-----------------------------------------------------------------------------
(* Properties *)

\* When nothing of a user is under way, Keycloak shows what the row asks for,
\* unless since the last sync that had the user to itself an event was missed, a
\* call failed or syncs overlapped.
SettledInSync ==
    \A u \in exists :
        events[u] = 0 /\ ~excused[u] /\ (\A s \in Syncs : ~In(s, u)) => granted[u] = required[u]

\* However syncs of a user race, none takes away a role the user was always
\* entitled to, and none grants one the user never was.
RacesAreHarmless ==
    [][\A u \in Users :
          /\ granted[u] \ granted'[u] \subseteq Roles \ always[u]
          /\ granted'[u] \ granted[u] \subseteq ever[u]]_vars

\* Each start of the server ends with every user having been looked at.
StartupCompletes == phase = "boot" ~> phase = "none" /\ ~running
=============================================================================
