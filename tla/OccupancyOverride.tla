------------------------- MODULE OccupancyOverride -------------------------
(***************************************************************************)
(* The temporary occupancy overrides of one unit: the OccupancyOverride    *)
(* class of the edge Manager agent, the RPC and config-store handlers that *)
(* load it, and the change_occupancy call its timers make.                 *)
(*                                                                         *)
(* The agent is a set of gevent greenlets.  A greenlet runs until it makes *)
(* a blocking call, so load_override, which only talks to the scheduler of *)
(* the same process, is one step, while _do_control_action is two: it      *)
(* sends the occupancy command, and it updates its own state only after    *)
(* the actuator has answered or four attempts have failed.                 *)
(***************************************************************************)
EXTENDS Integers, FiniteSets

CONSTANTS
    Gids,         \* "<date>_<index>" override identities, ordered as loaded
    Windows,      \* override windows [start, end] in slots of the day
    NoWindow,     \* a gid the payload has no entry for
    Malformed,    \* an entry that is not a start/end pair ("always_off")
    Payloads,     \* the payloads the server may push
    Events,       \* identities of scheduled start/end pairs
    None,         \* Python's None
    Horizon,      \* the last slot of the modelled time
    PromptDriver, \* TRUE: an occupancy command is answered before anything else runs
    MaxEdits,     \* bound: payloads pushed by the server
    MaxFaults,    \* bound: occupancy commands the actuator never executes
    MaxRestarts,  \* bound: restarts of the agent
    MaxCommands   \* bound: commands of the schedule that arrive late

Occupied   == "occupied"
Unoccupied == "unoccupied"

EmptyPayload == [g \in Gids |-> NoWindow]

ASSUME OverrideAssumption ==
    /\ Gids \subseteq Nat
    /\ Horizon \in Nat
    /\ Windows \subseteq [start : 0..Horizon, end : 0..Horizon]
    /\ NoWindow \notin Windows /\ Malformed \notin Windows /\ NoWindow # Malformed
    /\ Payloads \subseteq [Gids -> Windows \cup {NoWindow, Malformed}]
    /\ EmptyPayload \in Payloads
    /\ None \notin Gids /\ None \notin Events /\ None \notin Payloads
    /\ PromptDriver \in BOOLEAN
    /\ MaxEdits \in Nat /\ MaxFaults \in Nat /\ MaxRestarts \in Nat /\ MaxCommands \in Nat

VARIABLES
    clock,              \* the current slot
    unit,               \* occupancy point of the device
    store,              \* 'occupancy_overrides' of the config store
    request,            \* set_occupancy_override between its load and its store
    notify,             \* config-store update not yet delivered to the agent
    current_id,         \* OccupancyOverride.current_id
    override_greenlets, \* OccupancyOverride.override_greenlets
    timers,             \* events pending in the agent's scheduler
    calls,              \* _do_control_action greenlets inside change_occupancy
    syncing,            \* load_override has called sync_occupancy_state, which reads the unit
    loaded,             \* history: the entry loaded last for each gid
    edits, faults, restarts, commands

override == <<current_id, override_greenlets, timers, loaded>>
agent == <<request, notify, override, calls, syncing>>
bounds == <<edits, faults, restarts, commands>>
vars == <<clock, unit, store, agent, bounds>>

Timer == [gid : Gids, event : Events, state : {Occupied, Unoccupied}, at : 0..Horizon]
Call  == [gid : Gids, event : Events, state : {Occupied, Unoccupied}, answered : BOOLEAN]

TypeOK ==
    /\ clock \in 0..Horizon
    /\ unit \in {Occupied, Unoccupied}
    /\ store \in Payloads \cup {None}
    /\ request \in Payloads \cup {None}
    /\ notify \in Payloads \cup {None}
    /\ current_id \in Gids \cup {None}
    /\ override_greenlets \in [Gids -> Events \cup {None}]
    /\ timers \subseteq Timer
    /\ calls \subseteq Call
    /\ loaded \in [Gids -> Windows \cup {NoWindow}]
    /\ syncing \in BOOLEAN
    /\ edits \in 0..MaxEdits /\ faults \in 0..MaxFaults
    /\ restarts \in 0..MaxRestarts /\ commands \in 0..MaxCommands

-----------------------------------------------------------------------------
(* load_override *)

\* The entries the loop reaches: one that cannot be parsed raises, and ends the
\* loop there.
Reached(p) == {g \in Gids : \A h \in Gids : h <= g => p[h] # Malformed}

Aborts(p) == \E g \in Gids : p[g] = Malformed

\* The entries that are not over yet: the others are skipped.
Live(p) == {g \in Reached(p) : p[g] \in Windows /\ ~(p[g].end < clock)}

\* Mutant of Cancel: the events of a reloaded gid stay scheduled.
CancelNothing(g) == {}

Cancel(g) == {t \in timers : t.gid = g /\ t.event = override_greenlets[g]}

\* The scheduler's events once those of the reloaded gids are cancelled.
Kept(p) == timers \ UNION {Cancel(g) : g \in Live(p)}

Unused(g, p) == {e \in Events : /\ \A t \in Kept(p) : t.gid = g => t.event # e
                                /\ \A c \in calls : c.gid = g => c.event # e}

Pair(g, e, w) ==
    {[gid |-> g, event |-> e, state |-> Occupied,   at |-> w.start],
     [gid |-> g, event |-> e, state |-> Unoccupied, at |-> w.end]}

NewEvent(g, p) == CHOOSE e \in Unused(g, p) : TRUE

\* create_override or update_override for every live entry.
LoadEntries(p) ==
    /\ \A g \in Live(p) : Unused(g, p) # {}
    /\ timers' = Kept(p) \cup UNION {Pair(g, NewEvent(g, p), p[g]) : g \in Live(p)}
    /\ override_greenlets' = [g \in Gids |-> IF g \in Live(p) THEN NewEvent(g, p)
                                             ELSE override_greenlets[g]]
    /\ loaded' = [g \in Gids |->
                     IF g \in Reached(p) /\ (p[g] = NoWindow => ~Aborts(p)) THEN p[g]
                     ELSE loaded[g]]
    /\ UNCHANGED current_id

\* Mutant of ClearEntries: the current override is kept.
ClearKeepsCurrent ==
    /\ timers' = timers \ UNION {Cancel(g) : g \in Gids}
    /\ loaded' = EmptyPayload
    /\ UNCHANGED <<current_id, override_greenlets>>

\* Mutant of ClearEntries: the scheduled events are kept.
ClearKeepsTimers ==
    /\ current_id' = None
    /\ loaded' = EmptyPayload
    /\ UNCHANGED <<timers, override_greenlets>>

\* The payload is empty: cancel what is tracked and forget the current override.
ClearEntries ==
    /\ timers' = timers \ UNION {Cancel(g) : g \in Gids}
    /\ current_id' = None
    /\ loaded' = EmptyPayload
    /\ UNCHANGED override_greenlets

load_override(p) == IF p = EmptyPayload THEN ClearEntries ELSE LoadEntries(p)

\* With an empty payload it ends by calling sync_occupancy_state.
CallsSync(p) == syncing' = (syncing \/ p = EmptyPayload)

-----------------------------------------------------------------------------
(* The handlers that load overrides *)

\* Another greenlet may run while an occupancy command is outstanding.
Runnable == PromptDriver => calls = {}

\* The server pushes a payload.  It awaits each call, so one is in progress.
set_occupancy_override(p) ==
    /\ Runnable /\ request = None /\ notify = None
    /\ edits < MaxEdits
    /\ edits' = edits + 1
    /\ load_override(p) /\ CallsSync(p)
    /\ request' = IF Aborts(p) THEN None ELSE p
    /\ UNCHANGED <<clock, unit, store, notify, calls, faults, restarts, commands>>

\* ... and stores it, which notifies the agent of its own update.
config_set ==
    /\ Runnable /\ request # None
    /\ request = EmptyPayload => ~syncing
    /\ store' = request
    /\ notify' = request
    /\ request' = None
    /\ UNCHANGED <<clock, unit, override, calls, syncing, bounds>>

update_from_config_store ==
    /\ Runnable /\ notify # None
    /\ load_override(notify) /\ CallsSync(notify)
    /\ notify' = None
    /\ UNCHANGED <<clock, unit, store, request, calls, bounds>>

\* sync_occupancy_state, called by load_override, set_schedule and a cron.  An
\* override under which the unit is unoccupied is loaded again; without one
\* the schedule decides.  It returns early if the point cannot be read.
sync_occupancy_state ==
    /\ Runnable
    /\ \/ /\ current_id # None /\ unit # Occupied /\ store # None
          /\ load_override(store)
          /\ syncing' = (store = EmptyPayload)
          /\ UNCHANGED unit
       \/ /\ current_id = None
          /\ unit' \in {Occupied, Unoccupied}
          /\ syncing' = FALSE
          /\ UNCHANGED override
       \/ /\ syncing /\ syncing' = FALSE
          /\ UNCHANGED <<unit, override>>
    /\ UNCHANGED <<clock, store, request, notify, calls, bounds>>

\* A command that the schedule or optimal start has sent reaches the unit.
schedule_occupancy ==
    /\ Runnable
    /\ commands < MaxCommands
    /\ commands' = commands + 1
    /\ unit' \in {Occupied, Unoccupied} \ {unit}
    /\ UNCHANGED <<clock, store, agent, edits, faults, restarts>>

-----------------------------------------------------------------------------
(* The scheduler and _do_control_action *)

Due(t) == t.at <= clock

\* Mutant of Fire: an event is dropped while a command of its gid is outstanding.
FireOnce(t) ==
    /\ Runnable /\ t \in timers /\ Due(t)
    /\ \A u \in timers : t.at <= u.at
    /\ timers' = timers \ {t}
    /\ calls' = IF \E c \in calls : c.gid = t.gid THEN calls
                ELSE calls \cup {[gid |-> t.gid, event |-> t.event, state |-> t.state,
                                   answered |-> FALSE]}
    /\ UNCHANGED <<clock, unit, store, request, notify, current_id, override_greenlets,
                   loaded, syncing, bounds>>

\* The scheduler runs what is due, earliest first, each event in a greenlet.
Fire(t) ==
    /\ Runnable /\ t \in timers /\ Due(t)
    /\ \A u \in timers : t.at <= u.at
    /\ timers' = timers \ {t}
    /\ calls' = calls \cup {[gid |-> t.gid, event |-> t.event, state |-> t.state,
                             answered |-> FALSE]}
    /\ UNCHANGED <<clock, unit, store, request, notify, current_id, override_greenlets,
                   loaded, syncing, bounds>>

Answer(c) == calls' = (calls \ {c}) \cup {[c EXCEPT !.answered = TRUE]}

\* change_occupancy: the actuator writes the point ...
rpc_set_point(c) ==
    /\ c \in calls /\ ~c.answered
    /\ Answer(c)
    /\ unit' = c.state
    /\ UNCHANGED <<clock, store, request, notify, override, syncing, bounds>>

\* ... or four attempts fail, which the caller is not told.
rpc_set_point_fails(c) ==
    /\ c \in calls /\ ~c.answered
    /\ faults < MaxFaults
    /\ faults' = faults + 1
    /\ Answer(c)
    /\ UNCHANGED <<clock, unit, store, request, notify, override, syncing, edits, restarts,
                   commands>>

\* Mutant of _do_control_action: the current override is named by its event.
_do_control_action_event(c) ==
    /\ c \in calls /\ c.answered
    /\ calls' = calls \ {c}
    /\ current_id' = IF c.state = Unoccupied THEN None ELSE c.event
    /\ UNCHANGED <<clock, unit, store, request, notify, override_greenlets, timers,
                   loaded, syncing, bounds>>

\* Mutant of _do_control_action: an end cancels what its gid tracks by now.
_do_control_action_cancels(c) ==
    /\ c \in calls /\ c.answered
    /\ calls' = calls \ {c}
    /\ IF c.state = Unoccupied
       THEN /\ current_id' = None
            /\ override_greenlets' = [override_greenlets EXCEPT ![c.gid] = None]
            /\ timers' = timers \ Cancel(c.gid)
       ELSE /\ current_id' = c.gid
            /\ UNCHANGED <<override_greenlets, timers>>
    /\ UNCHANGED <<clock, unit, store, request, notify, loaded, syncing, bounds>>

\* The rest of _do_control_action.  The pop drops the gid, whichever pair it
\* tracks by now, and raises (changing nothing more) if there is none.
_do_control_action(c) ==
    /\ c \in calls /\ c.answered
    /\ calls' = calls \ {c}
    /\ IF c.state = Unoccupied
       THEN /\ current_id' = None
            /\ override_greenlets' = [override_greenlets EXCEPT ![c.gid] = None]
       ELSE /\ current_id' = c.gid
            /\ UNCHANGED override_greenlets
    /\ UNCHANGED <<clock, unit, store, request, notify, timers, loaded, syncing, bounds>>

-----------------------------------------------------------------------------
(* The environment *)

Tick ==
    /\ clock < Horizon
    /\ Runnable
    /\ \A t \in timers : ~Due(t)
    /\ clock' = clock + 1
    /\ UNCHANGED <<unit, store, agent, bounds>>

\* Mutant of Restart: the store does not tell the new process what it has.
Restart_unaware ==
    /\ restarts < MaxRestarts
    /\ restarts' = restarts + 1
    /\ current_id' = None
    /\ override_greenlets' = [g \in Gids |-> None]
    /\ timers' = {} /\ calls' = {} /\ syncing' = FALSE
    /\ request' = None /\ notify' = None
    /\ loaded' = EmptyPayload
    /\ UNCHANGED <<clock, unit, store, edits, faults, commands>>

\* The agent restarts: only the config store and the device keep their state,
\* and the store delivers its entry to the new process.
Restart ==
    /\ restarts < MaxRestarts
    /\ restarts' = restarts + 1
    /\ current_id' = None
    /\ override_greenlets' = [g \in Gids |-> None]
    /\ timers' = {} /\ calls' = {} /\ syncing' = FALSE
    /\ request' = None /\ notify' = store
    /\ loaded' = EmptyPayload
    /\ UNCHANGED <<clock, unit, store, edits, faults, commands>>

Init ==
    /\ clock = 0
    /\ unit = Unoccupied
    /\ store = None /\ request = None /\ notify = None
    /\ current_id = None
    /\ override_greenlets = [g \in Gids |-> None]
    /\ timers = {} /\ calls = {} /\ syncing = FALSE
    /\ loaded = EmptyPayload
    /\ edits = 0 /\ faults = 0 /\ restarts = 0 /\ commands = 0

Scheduler == \E t \in timers : Fire(t)
Actuator  == \E c \in calls : rpc_set_point(c) \/ rpc_set_point_fails(c)
Callback  == \E c \in calls : _do_control_action(c)

Next ==
    \/ \E p \in Payloads : set_occupancy_override(p)
    \/ config_set \/ update_from_config_store \/ sync_occupancy_state \/ schedule_occupancy
    \/ Scheduler \/ Actuator \/ Callback
    \/ Tick \/ Restart

Spec == Init /\ [][Next]_vars

\* The hub runs every greenlet that can run, rpc_set_point gives up after four
\* attempts, and time passes.
Fairness ==
    /\ WF_vars(Scheduler) /\ WF_vars(Actuator) /\ WF_vars(Callback)
    /\ WF_vars(config_set) /\ WF_vars(update_from_config_store)
    /\ WF_vars(syncing /\ sync_occupancy_state)
    /\ WF_vars(Tick)

FairSpec == Spec /\ Fairness

-----------------------------------------------------------------------------
(* Properties *)

\* Whatever is reloaded, retried or in flight, an override of the last payload
\* whose end (start) is ahead has its end (start) event pending at that slot:
\* no reload, late answer or pop of the greenlet table loses it.
LoadedOverridePending ==
    \A g \in Gids : loaded[g] \in Windows =>
        /\ clock < loaded[g].end =>
             \E t \in timers : t.gid = g /\ t.state = Unoccupied /\ t.at = loaded[g].end
        /\ clock < loaded[g].start /\ loaded[g].start <= loaded[g].end =>
             \E t \in timers : t.gid = g /\ t.state = Occupied /\ t.at = loaded[g].start

\* An override that is stored and not over is ended, whatever became of the process
\* that scheduled it: once the agent has taken in what the store tells it, the end is
\* pending again after a restart, and a payload that is refused in the middle takes
\* none away (those it got to before may have moved a gid to another window).
StoredOverridePending ==
    request = None /\ notify = None /\ store # None =>
        \A g \in Gids :
            store[g] \in Windows /\ clock < store[g].end /\ loaded[g] \in {store[g], NoWindow} =>
                \E t \in timers : t.gid = g /\ t.state = Unoccupied /\ t.at = store[g].end

\* Every pending event belongs to the pair override_greenlets holds for its
\* gid, so an update or an empty payload can cancel it.
TrackedForCleanup == \A t \in timers : t.event = override_greenlets[t.gid]

\* An override that is current has its end pending: sync_occupancy_state
\* leaves the unit alone until then and no longer.
CurrentOverrideEnds ==
    current_id # None =>
        \/ \E t \in timers : t.gid = current_id /\ t.state = Unoccupied
        \/ \E c \in calls : c.gid = current_id /\ c.state = Unoccupied

\* After an empty payload no override is current and nothing is left that
\* could start or end one.
ClearedIsIdle ==
    loaded = EmptyPayload => current_id = None /\ timers = {}

\* The end of a loaded override is commanded, unless the override is
\* replaced or the agent restarts first.
EndIsCommanded ==
    \A g \in Gids : \A w \in Windows :
        (loaded[g] = w /\ clock < w.end) ~>
            (loaded[g] # w \/ \E c \in calls : c.gid = g /\ c.state = Unoccupied)

=============================================================================
