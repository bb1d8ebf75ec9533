----------------------------- MODULE AfterHours -----------------------------
(***************************************************************************)
(* The after-hours service of one unit: WeeklyServiceScheduler of the edge *)
(* Manager agent, and the setpoint writers of the agent it shares the unit *)
(* with.  Inside the windows of the service schedule the unit is given     *)
(* service setpoints, outside them the normal ones.                        *)
(*                                                                         *)
(* The scheduler keeps one event, for the next transition; when it fires,  *)
(* the callback writes the setpoints and schedules the one after.  A write *)
(* blocks its greenlet, so that the calls of the server, the periodic that *)
(* repeats the setpoints, the clock and the callback of an event nobody    *)
(* cancelled run in the meantime.  A callback and the events it goes on to *)
(* schedule are a chain.                                                   *)
(*                                                                         *)
(* A schedule is the set of ticks inside its merged windows, in a cycle of *)
(* Period ticks; setpoints are known by their version; the points that are *)
(* written one after the other are written as one.                         *)
(***************************************************************************)
EXTENDS Integers

CONSTANTS
    Period,
    Schedules,  \* the service schedules the server may push
    Chains,     \* bound: chains under way at a time
    MaxUpdates, \* bound: schedules pushed by the server
    MaxPushes,  \* bound: setpoints pushed by the server
    MaxFaults,  \* bound: writes that four attempts do not deliver
    MaxRestarts \* bound: restarts of the agent

Time   == 0..(Period - 1)
Update == "update_schedule"
Push   == "set_temperature_setpoints"
Repeat == "periodic"
Greenlets == Chains \cup {Update, Push, Repeat}

ASSUME AfterHoursAssumption ==
    /\ Period \in Nat \ {0}
    /\ Schedules \subseteq SUBSET Time
    /\ {Update, Push, Repeat, "clock"} \cap Chains = {} /\ Chains # {}
    /\ {MaxUpdates, MaxPushes, MaxFaults, MaxRestarts} \subseteq Nat

VARIABLES
    now,
    schedule,     \* schedule_data
    after_hours_schedule, \* ... of the config store
    set_points,   \* the setpoints in the config store
    service_setpoints, \* the setpoints those of the service were made from
    is_active,
    last_state,
    chain,        \* the next or the running transition of each chain
    event,        \* the chain whose event _event holds
    work,         \* what each greenlet is writing
    device,       \* the setpoints the unit has
    updates, pushes, faults, restarts,
    \* history
    raced,        \* a greenlet or the clock went on while another was writing
    unenforced    \* the schedule was replaced by one that is off, with the service on

stored == <<after_hours_schedule, set_points>>
mode   == <<service_setpoints, is_active, last_state>>
events == <<chain, event>>
bounds == <<updates, pushes, faults, restarts>>
vars == <<now, schedule, stored, mode, events, work, device, bounds, raced, unenforced>>

\* Service setpoints or normal ones, and the version they were made from.
Setpoints  == [service : BOOLEAN, version : Nat]
Nothing    == [service |-> FALSE, version |-> 0]
Transition == [at : Time, on : BOOLEAN]
None       == [at |-> -1, on |-> FALSE]
NoChain    == "no chain"

TypeOK ==
    /\ now \in Time
    /\ schedule \subseteq Time /\ after_hours_schedule \subseteq Time
    /\ set_points \in Nat /\ service_setpoints \in Nat
    /\ is_active \in BOOLEAN /\ last_state \in BOOLEAN
    /\ chain \in [Chains -> Transition \cup {None}]
    /\ event \in Chains \cup {NoChain}
    /\ work \in [Greenlets -> Setpoints]
    /\ device \in Setpoints
    /\ updates \in 0..MaxUpdates /\ pushes \in 0..MaxPushes
    /\ faults \in 0..MaxFaults /\ restarts \in 0..MaxRestarts
    /\ raced \in BOOLEAN /\ unenforced \in BOOLEAN

-----------------------------------------------------------------------------
Busy(g) == work[g] # Nothing

\* g begins to write s; Nothing stands for no write.
Writes(g, s) == work' = [work EXCEPT ![g] = s]

\* A step of g, or of the clock, between two writes of its own.
Interrupts(g) == raced' = (raced \/ \E h \in Greenlets \ {g} : Busy(h))

\* The write of g returns, delivered or not.
set_point(g) ==
    /\ Busy(g)
    /\ \/ device' = work[g] /\ UNCHANGED faults
       \/ /\ faults < MaxFaults
          /\ faults' = faults + 1 /\ UNCHANGED device
    /\ Writes(g, Nothing)
    /\ Interrupts(g)
    /\ UNCHANGED <<updates, pushes, restarts>>

-----------------------------------------------------------------------------
(* The transitions of a schedule *)

On(S, t) == (t % Period) \in S

\* Ticks from t on until S changes.
Distance(S, t) ==
    CHOOSE d \in 1..Period :
        /\ On(S, t + d) # On(S, t + d - 1)
        /\ \A e \in 1..(d - 1) : On(S, t + e) = On(S, t + e - 1)

Changes(S) == S # {} /\ S # Time

\* Mutant of _next_transition: the end of the week is overlooked.
_next_transition_unwrapped(S, t) ==
    IF Changes(S) THEN [at |-> t + Distance(S, t), on |-> On(S, t + Distance(S, t))] ELSE None

_next_transition(S, t) ==
    IF Changes(S)
    THEN LET at == (t + Distance(S, t)) % Period IN [at |-> at, on |-> at \in S]
    ELSE None

\* Chain k goes on with the next transition of S, if there is one.
_schedule_next_transition(S, k, pending) ==
    /\ chain' = [pending EXCEPT ![k] = _next_transition(S, now)]
    /\ event' = IF Changes(S) THEN k ELSE NoChain

\* The events that are left once the one _event holds is cancelled; a callback
\* that already runs is not stopped by that.
stop == [k \in Chains |-> IF k = event /\ ~Busy(k) THEN None ELSE chain[k]]

-----------------------------------------------------------------------------
(* The service *)

start_service(g) ==
    /\ is_active' = TRUE
    /\ service_setpoints' = set_points
    /\ Writes(g, [service |-> TRUE, version |-> set_points])

\* What set_temperature_setpoints writes when it is called with version v.
Effective(active, v) ==
    IF active THEN [service |-> TRUE, version |-> service_setpoints]
              ELSE [service |-> FALSE, version |-> v]

stop_service(g) ==
    /\ is_active' = FALSE
    /\ Writes(g, Effective(FALSE, set_points))
    /\ UNCHANGED service_setpoints

_fire(k) ==
    /\ chain[k] # None /\ chain[k].at = now /\ ~Busy(k)
    /\ IF chain[k].on THEN start_service(k) ELSE stop_service(k)
    /\ Interrupts(k)
    /\ unenforced' = FALSE
    /\ UNCHANGED <<now, schedule, stored, last_state, events, device, bounds>>

\* Mutant of Fired: only a start is followed by another transition.
Fired_once(k) ==
    /\ set_point(k)
    /\ last_state' = chain[k].on
    /\ IF chain[k].on THEN _schedule_next_transition(schedule, k, chain)
       ELSE chain' = [chain EXCEPT ![k] = None] /\ event' = NoChain
    /\ UNCHANGED <<now, schedule, stored, service_setpoints, is_active, unenforced>>

\* The rest of the callback.
Fired(k) ==
    /\ set_point(k)
    /\ last_state' = chain[k].on
    /\ _schedule_next_transition(schedule, k, chain)
    /\ UNCHANGED <<now, schedule, stored, service_setpoints, is_active, unenforced>>

\* Mutant of Replace: the event of the old schedule is kept.
Replace_keep(S, active) ==
    /\ schedule' = S /\ last_state' = FALSE
    /\ \E k \in Chains :
          /\ chain[k] = None
          /\ IF now \in S
             THEN start_service(Update) /\ UNCHANGED events
             ELSE /\ _schedule_next_transition(S, k, chain)
                  /\ is_active' = active
                  /\ UNCHANGED <<service_setpoints, work>>
    /\ unenforced' = (active /\ now \notin S)

\* Mutant of Replace: the state now is not enforced.
Replace_unforced(S, active) ==
    /\ schedule' = S /\ last_state' = FALSE
    /\ \E k \in Chains : stop[k] = None /\ _schedule_next_transition(S, k, stop)
    /\ is_active' = active
    /\ unenforced' = (active /\ now \notin S)
    /\ UNCHANGED <<service_setpoints, work>>

\* update_schedule, in an agent whose service is active or not.  The state now is
\* enforced if it differs from the last one, which was just forgotten.
Replace(S, active) ==
    /\ schedule' = S /\ last_state' = FALSE
    /\ \E k \in Chains :
          /\ stop[k] = None
          /\ IF now \in S
             THEN start_service(Update) /\ chain' = stop /\ event' = NoChain
             ELSE /\ _schedule_next_transition(S, k, stop)
                  /\ is_active' = active
                  /\ UNCHANGED <<service_setpoints, work>>
    /\ unenforced' = (active /\ now \notin S)

\* A call of the server.
set_service_schedule(S) ==
    /\ ~Busy(Update)
    /\ updates < MaxUpdates /\ updates' = updates + 1
    /\ Replace(S, is_active)
    /\ after_hours_schedule' = IF now \in S THEN after_hours_schedule ELSE S
    /\ Interrupts(Update)
    /\ UNCHANGED <<now, set_points, device, pushes, faults, restarts>>

\* The rest of update_schedule once the state now is enforced.
Enforced ==
    /\ set_point(Update)
    /\ last_state' = TRUE
    /\ \E k \in Chains : chain[k] = None /\ _schedule_next_transition(schedule, k, chain)
    /\ after_hours_schedule' = schedule
    /\ UNCHANGED <<now, schedule, set_points, service_setpoints, is_active, unenforced>>

-----------------------------------------------------------------------------
(* The other writers of setpoints *)

set_temperature_setpoints ==
    /\ ~Busy(Push)
    /\ pushes < MaxPushes /\ pushes' = pushes + 1
    /\ set_points' = set_points + 1
    /\ Writes(Push, Effective(is_active, set_points'))
    /\ Interrupts(Push)
    /\ UNCHANGED <<now, schedule, after_hours_schedule, mode, events, device, updates, faults,
                   restarts, unenforced>>

\* Mutant of validate_setpoints: the periodic repeats the normal setpoints.
validate_setpoints_normal ==
    /\ ~Busy(Repeat)
    /\ Writes(Repeat, Effective(FALSE, set_points))
    /\ Interrupts(Repeat)
    /\ UNCHANGED <<now, schedule, stored, mode, events, device, bounds, unenforced>>

validate_setpoints ==
    /\ ~Busy(Repeat)
    /\ Writes(Repeat, Effective(is_active, set_points))
    /\ Interrupts(Repeat)
    /\ UNCHANGED <<now, schedule, stored, mode, events, device, bounds, unenforced>>

\* The write of either of them returns.
Written(g) ==
    /\ set_point(g)
    /\ UNCHANGED <<now, schedule, stored, mode, events, unenforced>>

-----------------------------------------------------------------------------
(* The clock and the agent *)

\* An event that is due has its callback spawned first.
Tick ==
    /\ \A k \in Chains : chain[k] # None /\ chain[k].at = now => Busy(k)
    /\ now' = (now + 1) % Period
    /\ Interrupts("clock")
    /\ UNCHANGED <<schedule, stored, mode, events, work, device, bounds, unenforced>>

\* A new agent builds a scheduler from what is stored.
Restart ==
    /\ restarts < MaxRestarts /\ restarts' = restarts + 1
    /\ LET S == after_hours_schedule
           on == now \in S
       IN  /\ schedule' = S
           /\ is_active' = on /\ last_state' = FALSE
           /\ service_setpoints' = set_points
           /\ work' = [g \in Greenlets |->
                          IF g = Update /\ on THEN [service |-> TRUE, version |-> set_points]
                          ELSE Nothing]
           /\ \E k \in Chains :
                 IF on THEN chain' = [c \in Chains |-> None] /\ event' = NoChain
                 ELSE _schedule_next_transition(S, k, [c \in Chains |-> None])
    /\ raced' = FALSE /\ unenforced' = FALSE
    /\ UNCHANGED <<now, stored, device, updates, pushes, faults>>

Init ==
    /\ now = 0
    /\ schedule = {} /\ after_hours_schedule = {}
    /\ set_points = 1 /\ service_setpoints = 1
    /\ is_active = FALSE /\ last_state = FALSE
    /\ chain = [k \in Chains |-> None] /\ event = NoChain
    /\ work = [g \in Greenlets |-> Nothing]
    /\ device = [service |-> FALSE, version |-> 1]
    /\ updates = 0 /\ pushes = 0 /\ faults = 0 /\ restarts = 0
    /\ raced = FALSE /\ unenforced = FALSE

Next ==
    \/ \E k \in Chains : _fire(k) \/ Fired(k)
    \/ \E S \in Schedules : set_service_schedule(S)
    \/ Enforced
    \/ set_temperature_setpoints \/ validate_setpoints
    \/ \E g \in {Push, Repeat} : Written(g)
    \/ Tick \/ Restart

Spec == Init /\ [][Next]_vars

\* Events fire, writes return, the periodic goes round and so does the clock.
Fairness ==
    /\ \A k \in Chains : WF_vars(_fire(k)) /\ WF_vars(Fired(k))
    /\ WF_vars(Enforced) /\ WF_vars(Written(Push)) /\ WF_vars(Written(Repeat))
    /\ WF_vars(validate_setpoints) /\ WF_vars(Tick)

FairSpec == Spec /\ Fairness

-----------------------------------------------------------------------------
(* Properties *)

Due == \E k \in Chains : chain[k] # None /\ chain[k].at = now
Quiet == ~Due /\ \A g \in Greenlets : ~Busy(g)

\* Whatever overlaps with what, a schedule that changes at all has its next
\* transition scheduled, unless it is being enforced or a callback will do that:
\* the scheduler never falls silent.
NextIsScheduled ==
    Changes(schedule) /\ ~Busy(Update) =>
        \E k \in Chains : Busy(k) \/ chain[k] = _next_transition(schedule, now)
                                  \/ (chain[k] # None /\ chain[k].at = now)

\* As long as no write was overlapped there is one chain, and it can be cancelled.
OneChain ==
    ~raced => \A k \in Chains : chain[k] # None => event = k

\* ... and the service is on exactly inside the windows, but for a replacement
\* of the schedule with the service on.
FollowsSchedule == Quiet /\ ~raced /\ ~unenforced => is_active = (now \in schedule)

\* A mode that lasts reaches the unit: lost writes and setpoints that another
\* greenlet wrote late are made good by the periodic.
ModeIsEnforced ==
    /\ <>[]is_active => <>[]device.service
    /\ <>[]~is_active => <>[](~device.service /\ device.version = set_points)
=============================================================================
