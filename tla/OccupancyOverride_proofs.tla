---------------------- MODULE OccupancyOverride_proofs ----------------------
(***************************************************************************)
(* What OccupancyOverride guarantees for every set of overrides, windows   *)
(* and payloads, whatever the order of reloads, late answers and restarts. *)
(***************************************************************************)
EXTENDS OccupancyOverride, TLAPS

\* A reload gives every live entry a pair of its own.
LEMMA NewEventIsUnused ==
    ASSUME NEW p, NEW g, Unused(g, p) # {}
    PROVE  /\ NewEvent(g, p) \in Events
           /\ \A t \in Kept(p) : t.gid = g => t.event # NewEvent(g, p)
           /\ \A c \in calls : c.gid = g => c.event # NewEvent(g, p)
  <1>1. NewEvent(g, p) \in Unused(g, p)
    BY DEF NewEvent
  <1> QED
    BY <1>1 DEF Unused

\* The variables load_override changes keep their types.
LEMMA LoadType ==
    ASSUME TypeOK, NEW p \in Payloads, load_override(p)
    PROVE  /\ timers' \subseteq Timer
           /\ override_greenlets' \in [Gids -> Events \cup {None}]
           /\ loaded' \in [Gids -> Windows \cup {NoWindow}]
           /\ current_id' \in Gids \cup {None}
  <1>1. CASE p = EmptyPayload
    BY <1>1 DEF load_override, ClearEntries, TypeOK, EmptyPayload
  <1>2. CASE p # EmptyPayload
    <2>0. LoadEntries(p)
      BY <1>2 DEF load_override
    <2>1. Live(p) \subseteq Gids /\ Reached(p) \subseteq Gids
      BY DEF Live, Reached
    <2>2. \A g \in Live(p) : NewEvent(g, p) \in Events /\ p[g] \in Windows
      BY <2>0, NewEventIsUnused DEF LoadEntries, Live
    <2>3. timers' \subseteq Timer
      <3>1. Kept(p) \subseteq Timer
        BY DEF Kept, TypeOK
      <3>2. ASSUME NEW g \in Live(p) PROVE Pair(g, NewEvent(g, p), p[g]) \subseteq Timer
        BY <2>1, <2>2, OverrideAssumption DEF Pair, Timer
      <3> QED
        BY <2>0, <3>1, <3>2 DEF LoadEntries
    <2>4. override_greenlets' \in [Gids -> Events \cup {None}]
      BY <2>0, <2>2 DEF LoadEntries, TypeOK
    <2>5. \A g \in Reached(p) : p[g] \in Windows \cup {NoWindow}
      <3> SUFFICES ASSUME NEW g \in Reached(p) PROVE p[g] \in Windows \cup {NoWindow}
        OBVIOUS
      <3>1. g \in Gids /\ g <= g
        BY OverrideAssumption DEF Reached
      <3>2. p[g] # Malformed
        BY <3>1 DEF Reached
      <3> QED
        BY <3>1, <3>2, OverrideAssumption
    <2>6. loaded' \in [Gids -> Windows \cup {NoWindow}]
      BY <2>0, <2>5 DEF LoadEntries, TypeOK
    <2> QED
      BY <2>0, <2>3, <2>4, <2>6 DEF LoadEntries, TypeOK
  <1> QED
    BY <1>1, <1>2


\* The state is well typed in every reachable state.
THEOREM TypeCorrect == Spec => []TypeOK
  <1>0. /\ 0 \in 0..Horizon /\ 0 \in 0..MaxEdits /\ 0 \in 0..MaxFaults
        /\ 0 \in 0..MaxRestarts /\ 0 \in 0..MaxCommands
        /\ EmptyPayload \in [Gids -> Windows \cup {NoWindow}]
    BY OverrideAssumption DEF EmptyPayload
  <1>1. Init => TypeOK
    BY <1>0 DEF Init, TypeOK
  <1>2. TypeOK /\ [Next]_vars => TypeOK'
    <2> SUFFICES ASSUME TypeOK, [Next]_vars PROVE TypeOK'
      OBVIOUS
    <2>1. ASSUME NEW p \in Payloads, set_occupancy_override(p) PROVE TypeOK'
      BY <2>1, LoadType, OverrideAssumption DEF set_occupancy_override, CallsSync, TypeOK
    <2>2. CASE config_set
      BY <2>2 DEF config_set, override, TypeOK, bounds
    <2>3. CASE update_from_config_store
      BY <2>3, LoadType DEF update_from_config_store, CallsSync, TypeOK, bounds
    <2>4. CASE sync_occupancy_state
      BY <2>4, LoadType DEF sync_occupancy_state, override, TypeOK, bounds
    <2>5. ASSUME NEW t \in timers, Fire(t) PROVE TypeOK'
      <3>1. [gid |-> t.gid, event |-> t.event, state |-> t.state, answered |-> FALSE] \in Call
        BY DEF TypeOK, Timer, Call
      <3> QED
        BY <2>5, <3>1 DEF Fire, TypeOK, bounds
    <2>6. ASSUME NEW c \in calls, rpc_set_point(c) PROVE TypeOK'
      BY <2>6 DEF rpc_set_point, Answer, override, TypeOK, Call, bounds
    <2>7. ASSUME NEW c \in calls, rpc_set_point_fails(c) PROVE TypeOK'
      <3>1. calls' \subseteq Call
        BY <2>7 DEF rpc_set_point_fails, Answer, TypeOK, Call
      <3>2. faults' \in 0..MaxFaults
        BY <2>7, OverrideAssumption DEF rpc_set_point_fails, TypeOK
      <3> QED
        BY <2>7, <3>1, <3>2 DEF rpc_set_point_fails, override, TypeOK
    <2>8. ASSUME NEW c \in calls, _do_control_action(c) PROVE TypeOK'
      BY <2>8 DEF _do_control_action, TypeOK, Call, bounds
    <2>9. CASE Tick
      BY <2>9, OverrideAssumption DEF Tick, TypeOK, agent, override, bounds
    <2>10. CASE Restart
      <3>1. restarts' \in 0..MaxRestarts
        BY <2>10, OverrideAssumption DEF Restart, TypeOK
      <3>2. current_id' \in Gids \cup {None} /\ request' \in Payloads \cup {None}
        BY <2>10 DEF Restart
      <3> QED
        BY <2>10, <1>0, <3>1, <3>2 DEF Restart, TypeOK
    <2>11. CASE schedule_occupancy
      BY <2>11, OverrideAssumption DEF schedule_occupancy, agent, override, TypeOK
    <2>12. CASE UNCHANGED vars
      BY <2>12 DEF vars, agent, override, bounds, TypeOK
    <2> QED
      BY <2>1, <2>2, <2>3, <2>4, <2>5, <2>6, <2>7, <2>8, <2>9, <2>10, <2>11, <2>12
      DEF Next, Scheduler, Actuator, Callback
  <1> QED
    BY <1>1, <1>2, PTL DEF Spec

-----------------------------------------------------------------------------
(***************************************************************************)
(* No override of the last payload is forgotten.  The invariant is         *)
(* inductive with the types: only a step that replaces the entry, or time  *)
(* itself, removes its pending events.                                     *)
(***************************************************************************)

\* A reload keeps, or schedules anew, what the loaded entries need.
LEMMA LoadKeepsPending ==
    ASSUME TypeOK, LoadedOverridePending, NEW p \in Payloads,
           load_override(p), clock' = clock
    PROVE  LoadedOverridePending'
  <1>1. CASE p = EmptyPayload
    BY <1>1, OverrideAssumption
    DEF load_override, ClearEntries, LoadedOverridePending, EmptyPayload
  <1>2. CASE p # EmptyPayload
    <2>0. LoadEntries(p)
      BY <1>2 DEF load_override
    <2> SUFFICES ASSUME NEW g \in Gids, loaded'[g] \in Windows
                 PROVE  /\ clock < loaded'[g].end =>
                             \E t \in timers' : /\ t.gid = g /\ t.state = Unoccupied
                                               /\ t.at = loaded'[g].end
                        /\ clock < loaded'[g].start /\ loaded'[g].start <= loaded'[g].end =>
                             \E t \in timers' : /\ t.gid = g /\ t.state = Occupied
                                               /\ t.at = loaded'[g].start
      BY DEF LoadedOverridePending
    <2>1. CASE g \in Live(p)
      <3>1. loaded'[g] = p[g]
        BY <2>0, <2>1, OverrideAssumption DEF LoadEntries, Live
      <3>2. Pair(g, NewEvent(g, p), p[g]) \subseteq timers'
        BY <2>0, <2>1 DEF LoadEntries
      <3> QED
        BY <3>1, <3>2 DEF Pair
    <2>2. CASE g \notin Live(p)
      <3>1. \A t \in timers : t.gid = g => t \in timers'
        BY <2>0, <2>2 DEF LoadEntries, Kept, Cancel
      <3>2. CASE loaded'[g] = loaded[g]
        BY <3>1, <3>2 DEF LoadedOverridePending
      <3>3. CASE loaded'[g] # loaded[g]
        <4>1. g \in Reached(p) /\ loaded'[g] = p[g]
          BY <2>0, <3>3 DEF LoadEntries
        <4>2. p[g].end < clock
          BY <2>2, <4>1 DEF Live
        <4>3. p[g].start \in Int /\ p[g].end \in Int /\ clock \in Int
          BY <4>1, OverrideAssumption DEF TypeOK
        <4> QED
          BY <4>1, <4>2, <4>3
      <3> QED
        BY <3>2, <3>3
    <2> QED
      BY <2>1, <2>2
  <1> QED
    BY <1>1, <1>2

\* LoadedOverridePending holds in every reachable state: an override of the
\* last payload is ended, whatever happens to the agent's commands.
THEOREM NoOverrideForgotten == Spec => []LoadedOverridePending
  <1>1. Init => LoadedOverridePending
    BY OverrideAssumption DEF Init, LoadedOverridePending, EmptyPayload
  <1>2. TypeOK /\ LoadedOverridePending /\ [Next]_vars => LoadedOverridePending'
    <2> SUFFICES ASSUME TypeOK, LoadedOverridePending, [Next]_vars
                 PROVE  LoadedOverridePending'
      OBVIOUS
    <2>1. ASSUME NEW p \in Payloads, set_occupancy_override(p)
          PROVE  LoadedOverridePending'
      BY <2>1, LoadKeepsPending DEF set_occupancy_override
    <2>2. CASE config_set
      BY <2>2 DEF config_set, override, LoadedOverridePending
    <2>3. CASE update_from_config_store
      BY <2>3, LoadKeepsPending DEF update_from_config_store, TypeOK
    <2>4. CASE sync_occupancy_state
      BY <2>4, LoadKeepsPending
      DEF sync_occupancy_state, override, LoadedOverridePending, TypeOK
    <2>5. ASSUME NEW t \in timers, Fire(t) PROVE LoadedOverridePending'
      <3>1. t.at \in Int /\ clock \in Int
        BY DEF TypeOK, Timer
      <3>2. \A g \in Gids : loaded[g] \in Windows =>
                loaded[g].start \in Int /\ loaded[g].end \in Int
        BY OverrideAssumption
      <3> QED
        BY <2>5, <3>1, <3>2 DEF Fire, Due, LoadedOverridePending
    <2>6. ASSUME NEW c \in calls, rpc_set_point(c) PROVE LoadedOverridePending'
      BY <2>6 DEF rpc_set_point, override, LoadedOverridePending
    <2>7. ASSUME NEW c \in calls, rpc_set_point_fails(c) PROVE LoadedOverridePending'
      BY <2>7 DEF rpc_set_point_fails, override, LoadedOverridePending
    <2>8. ASSUME NEW c \in calls, _do_control_action(c) PROVE LoadedOverridePending'
      BY <2>8 DEF _do_control_action, LoadedOverridePending
    <2>9. CASE Tick
      <3>1. clock' > clock /\ loaded' = loaded /\ timers' = timers
        BY <2>9 DEF Tick, agent, override, TypeOK
      <3>2. clock \in Int /\ clock' \in Int
        BY <2>9 DEF Tick, TypeOK
      <3>3. \A g \in Gids : loaded[g] \in Windows =>
                loaded[g].start \in Int /\ loaded[g].end \in Int
        BY OverrideAssumption
      <3> QED
        BY <3>1, <3>2, <3>3 DEF LoadedOverridePending
    <2>10. CASE Restart
      BY <2>10, OverrideAssumption DEF Restart, LoadedOverridePending, EmptyPayload
    <2>11. CASE schedule_occupancy
      BY <2>11 DEF schedule_occupancy, agent, override, LoadedOverridePending
    <2>12. CASE UNCHANGED vars
      BY <2>12 DEF vars, agent, override, LoadedOverridePending
    <2> QED
      BY <2>1, <2>2, <2>3, <2>4, <2>5, <2>6, <2>7, <2>8, <2>9, <2>10, <2>11, <2>12
      DEF Next, Scheduler, Actuator, Callback
  <1> QED
    BY <1>1, <1>2, TypeCorrect, PTL DEF Spec

-----------------------------------------------------------------------------
(***************************************************************************)
(* When the actuator answers before anything else runs, the greenlet table *)
(* is exact.  TrackedForCleanup is not inductive alone: that the pop of an *)
(* ended override leaves nothing behind needs that its start ran before    *)
(* its end, so each gid has one pair, in order, and each step of a         *)
(* command knows which of the two is still pending.                        *)
(***************************************************************************)

OnePairPerGid ==
    \A t, u \in timers : t.gid = u.gid =>
        /\ t.state = u.state => t = u
        /\ t.state = Occupied /\ u.state = Unoccupied => t.at < u.at

EndPending(g) == \E u \in timers : u.gid = g /\ u.state = Unoccupied

StartsHaveEnds == \A t \in timers : t.state = Occupied => EndPending(t.gid)

OneCommand ==
    /\ \A c, d \in calls : c = d
    /\ \A c \in calls : /\ c.state = Unoccupied => \A t \in timers : t.gid # c.gid
                        /\ c.state = Occupied => EndPending(c.gid)

IdleWhenCleared == loaded = EmptyPayload => current_id = None /\ timers = {} /\ calls = {}

PromptInv ==
    /\ TrackedForCleanup /\ OnePairPerGid /\ StartsHaveEnds /\ OneCommand
    /\ CurrentOverrideEnds /\ IdleWhenCleared

ProperWindows == \A w \in Windows : w.start < w.end

\* A reload or an empty payload between commands preserves the invariant.
LEMMA LoadKeepsPromptInv ==
    ASSUME TypeOK, PromptInv, ProperWindows, NEW p \in Payloads,
           load_override(p), calls = {}, calls' = {}
    PROVE  PromptInv'
  <1> USE DEF PromptInv
  <1>1. CASE p = EmptyPayload
    <2>1. timers' = {}
      BY <1>1 DEF load_override, ClearEntries, Cancel, TrackedForCleanup, TypeOK, Timer
    <2>2. current_id' = None
      BY <1>1 DEF load_override, ClearEntries
    <2> QED
      BY <2>1, <2>2
      DEF TrackedForCleanup, OnePairPerGid, StartsHaveEnds, OneCommand, EndPending,
          CurrentOverrideEnds, IdleWhenCleared
  <1>2. CASE p # EmptyPayload
    <2>0. LoadEntries(p)
      BY <1>2 DEF load_override
    <2> DEFINE new(g) == Pair(g, NewEvent(g, p), p[g])
    <2>1. \A t \in timers : t.gid \in Live(p) => t \notin Kept(p)
      BY DEF Kept, Cancel, TrackedForCleanup
    <2>2. \A t \in timers : t.gid \notin Live(p) => t \in Kept(p)
      BY DEF Kept, Cancel
    <2>3. Kept(p) \subseteq timers
      BY DEF Kept
    <2>4. timers' = Kept(p) \cup UNION {new(g) : g \in Live(p)}
      BY <2>0 DEF LoadEntries
    <2>5. \A t \in timers' :
             \/ t \in timers /\ t.gid \notin Live(p)
             \/ t.gid \in Live(p) /\ t \in new(t.gid)
      <3> SUFFICES ASSUME NEW t \in timers'
                   PROVE  \/ t \in timers /\ t.gid \notin Live(p)
                          \/ t.gid \in Live(p) /\ t \in new(t.gid)
        OBVIOUS
      <3>1. CASE t \in Kept(p)
        BY <3>1, <2>1, <2>3
      <3>2. ASSUME NEW g \in Live(p), t \in new(g) PROVE t.gid \in Live(p) /\ t \in new(t.gid)
        <4>1. t.gid = g
          BY <3>2 DEF Pair
        <4> QED
          BY <4>1, <3>2
      <3> QED
        BY <2>4, <3>1, <3>2
    <2>6. \A g \in Live(p) : new(g) \subseteq timers'
      BY <2>4
    <2>7. \A t \in timers : t.gid \notin Live(p) => t \in timers'
      BY <2>2, <2>4
    <2>8. TrackedForCleanup'
      <3> SUFFICES ASSUME NEW t \in timers' PROVE t.event = override_greenlets'[t.gid]
        BY DEF TrackedForCleanup
      <3>1. CASE t \in timers /\ t.gid \notin Live(p)
        BY <2>0, <3>1 DEF LoadEntries, TrackedForCleanup, TypeOK, Timer
      <3>2. CASE t.gid \in Live(p) /\ t \in new(t.gid)
        <4>1. t.event = NewEvent(t.gid, p)
          BY <3>2 DEF Pair
        <4>2. t.gid \in Gids
          BY <3>2 DEF Live, Reached
        <4> QED
          BY <2>0, <3>2, <4>1, <4>2 DEF LoadEntries
      <3> QED
        BY <2>5, <3>1, <3>2
    <2>9. OnePairPerGid'
      <3> SUFFICES ASSUME NEW t \in timers', NEW u \in timers', t.gid = u.gid
                   PROVE  /\ t.state = u.state => t = u
                          /\ t.state = Occupied /\ u.state = Unoccupied => t.at < u.at
        BY DEF OnePairPerGid
      <3>1. CASE t.gid \notin Live(p)
        BY <2>5, <3>1 DEF OnePairPerGid
      <3>2. CASE t.gid \in Live(p)
        <4>1. t \in new(t.gid) /\ u \in new(t.gid)
          BY <2>5, <3>2
        <4>2. p[t.gid].start < p[t.gid].end
          BY <3>2 DEF Live, ProperWindows
        <4> QED
          BY <4>1, <4>2 DEF Pair, Occupied, Unoccupied
      <3> QED
        BY <3>1, <3>2
    <2>10. ASSUME NEW g, EndPending(g) PROVE EndPending(g)'
      <3>1. PICK u \in timers : u.gid = g /\ u.state = Unoccupied
        BY <2>10 DEF EndPending
      <3>2. CASE g \in Live(p)
        BY <2>6, <3>2 DEF Pair, EndPending
      <3> QED
        BY <2>7, <3>1, <3>2 DEF EndPending
    <2>11. StartsHaveEnds'
      <3> SUFFICES ASSUME NEW t \in timers', t.state = Occupied PROVE EndPending(t.gid)'
        BY DEF StartsHaveEnds
      <3>1. CASE t \in timers
        BY <2>10, <3>1 DEF StartsHaveEnds
      <3>2. CASE t.gid \in Live(p)
        BY <2>6, <3>2 DEF Pair, EndPending
      <3> QED
        BY <2>5, <3>1, <3>2
    <2>12. CurrentOverrideEnds'
      BY <2>0, <2>10 DEF LoadEntries, CurrentOverrideEnds, EndPending
    <2>13. IdleWhenCleared'
      <3> SUFFICES ASSUME loaded' = EmptyPayload PROVE current_id' = None /\ timers' = {}
        BY DEF IdleWhenCleared
      <3>1. \A g \in Reached(p) : p[g] = NoWindow
        BY <2>0, OverrideAssumption DEF LoadEntries, EmptyPayload, Reached
      <3>2. Aborts(p)
        <4> SUFFICES ASSUME ~Aborts(p) PROVE FALSE
          BY DEF Aborts
        <4>1. Reached(p) = Gids
          BY DEF Reached, Aborts
        <4>2. p = [g \in Gids |-> NoWindow]
          BY <3>1, <4>1, OverrideAssumption
        <4> QED
          BY <4>2, <1>2 DEF EmptyPayload
      <3>3. loaded = EmptyPayload
        BY <2>0, <3>1, <3>2 DEF LoadEntries, TypeOK, EmptyPayload
      <3>4. Live(p) = {}
        BY <3>1, OverrideAssumption DEF Live
      <3>5. timers' = timers
        BY <2>2, <2>3, <2>4, <3>4
      <3> QED
        BY <2>0, <3>3, <3>5 DEF LoadEntries, IdleWhenCleared
    <2> QED
      BY <2>8, <2>9, <2>11, <2>12, <2>13 DEF OneCommand
  <1> QED
    BY <1>1, <1>2

\* Each action keeps it.
LEMMA PromptInvKept ==
    ASSUME PromptDriver, ProperWindows, TypeOK, PromptInv, [Next]_vars
    PROVE  PromptInv'
  <1> USE DEF PromptInv
  <1>1. ASSUME NEW p \in Payloads, set_occupancy_override(p) PROVE PromptInv'
    BY <1>1, LoadKeepsPromptInv DEF set_occupancy_override, Runnable
  <1>2. CASE config_set
    BY <1>2
    DEF config_set, override, TrackedForCleanup, OnePairPerGid, StartsHaveEnds, OneCommand,
        CurrentOverrideEnds, IdleWhenCleared, EndPending
  <1>3. CASE update_from_config_store
    BY <1>3, LoadKeepsPromptInv DEF update_from_config_store, Runnable, TypeOK
  <1>4. CASE sync_occupancy_state
    <2>1. CASE load_override(store) /\ store # None
      BY <1>4, <2>1, LoadKeepsPromptInv DEF sync_occupancy_state, Runnable, TypeOK
    <2>2. CASE UNCHANGED override
      BY <1>4, <2>2
      DEF sync_occupancy_state, override, TrackedForCleanup, OnePairPerGid, StartsHaveEnds,
          OneCommand, CurrentOverrideEnds, IdleWhenCleared, EndPending
    <2> QED
      BY <1>4, <2>1, <2>2 DEF sync_occupancy_state, override
  <1>5. ASSUME NEW t \in timers, Fire(t) PROVE PromptInv'
    <2> DEFINE c == [gid |-> t.gid, event |-> t.event, state |-> t.state,
                     answered |-> FALSE]
    <2>1. calls' = {c} /\ timers' = timers \ {t}
      BY <1>5 DEF Fire, Runnable
    <2>2. UNCHANGED <<current_id, override_greenlets, loaded>>
      BY <1>5 DEF Fire
    <2>3. TrackedForCleanup' /\ OnePairPerGid'
      BY <2>1, <2>2 DEF TrackedForCleanup, OnePairPerGid
    <2>4. ASSUME NEW u \in timers', u.state = Occupied PROVE EndPending(u.gid)'
      <3>1. PICK e \in timers : e.gid = u.gid /\ e.state = Unoccupied
        BY <2>1, <2>4 DEF StartsHaveEnds, EndPending
      <3>2. u.at < e.at /\ u.at \in Int /\ e.at \in Int
        BY <2>1, <2>4, <3>1 DEF OnePairPerGid, TypeOK, Timer
      <3>3. t.at <= u.at /\ t.at \in Int
        BY <1>5, <2>1, <2>4 DEF Fire, TypeOK, Timer
      <3>4. e # t
        BY <3>2, <3>3
      <3> QED
        BY <2>1, <3>1, <3>4 DEF EndPending
    <2>5. c.state = Unoccupied => \A u \in timers' : u.gid # c.gid
      <3> SUFFICES ASSUME t.state = Unoccupied, NEW u \in timers', u.gid = t.gid
                   PROVE  FALSE
        BY <2>1
      <3>1. u \in timers /\ u # t /\ u.state = Occupied
        BY <2>1 DEF OnePairPerGid, TypeOK, Timer
      <3>2. u.at < t.at /\ t.at <= u.at /\ u.at \in Int /\ t.at \in Int
        BY <1>5, <3>1 DEF OnePairPerGid, Fire, TypeOK, Timer
      <3> QED
        BY <3>2
    <2>6. c.state = Occupied => EndPending(c.gid)'
      BY <2>1 DEF StartsHaveEnds, EndPending, Occupied, Unoccupied
    <2>7. OneCommand'
      BY <2>1, <2>5, <2>6 DEF OneCommand
    <2>8. CurrentOverrideEnds'
      <3>1. ASSUME NEW u \in timers, u.gid = current_id, u.state = Unoccupied
            PROVE  CurrentOverrideEnds'
        <4>1. CASE u = t
          BY <2>1, <2>2, <3>1, <4>1 DEF CurrentOverrideEnds
        <4>2. CASE u # t
          BY <2>1, <2>2, <3>1, <4>2 DEF CurrentOverrideEnds
        <4> QED
          BY <4>1, <4>2
      <3>2. calls = {}
        BY <1>5 DEF Fire, Runnable
      <3> QED
        BY <2>2, <3>1, <3>2 DEF CurrentOverrideEnds
    <2>9. IdleWhenCleared'
      BY <2>2 DEF IdleWhenCleared
    <2> QED
      BY <2>3, <2>4, <2>7, <2>8, <2>9 DEF StartsHaveEnds
  <1>6. ASSUME NEW c \in calls, Answer(c),
               UNCHANGED <<timers, current_id, override_greenlets, loaded>>
        PROVE  PromptInv'
    <2> DEFINE d == [c EXCEPT !.answered = TRUE]
    <2>1. calls = {c} /\ calls' = {d}
      BY <1>6 DEF Answer, OneCommand
    <2>2. d.gid = c.gid /\ d.state = c.state
      BY DEF TypeOK, Call
    <2> QED
      BY <1>6, <2>1, <2>2
      DEF TrackedForCleanup, OnePairPerGid, StartsHaveEnds, OneCommand,
          CurrentOverrideEnds, IdleWhenCleared, EndPending
  <1>7. ASSUME NEW c \in calls, _do_control_action(c) PROVE PromptInv'
    <2>1. calls = {c} /\ calls' = {} /\ timers' = timers /\ loaded' = loaded
      BY <1>7 DEF _do_control_action, OneCommand
    <2>2. CASE c.state = Unoccupied
      <3>1. \A t \in timers : override_greenlets'[t.gid] = override_greenlets[t.gid]
        BY <1>7, <2>2 DEF _do_control_action, OneCommand, TypeOK, Timer
      <3> QED
        BY <1>7, <2>1, <2>2, <3>1
        DEF _do_control_action, TrackedForCleanup, OnePairPerGid, StartsHaveEnds, OneCommand,
            CurrentOverrideEnds, IdleWhenCleared, EndPending
    <2>3. CASE c.state # Unoccupied
      <3>1. c.state = Occupied
        BY <2>3 DEF TypeOK, Call
      <3> QED
        BY <1>7, <2>1, <3>1, <2>3
        DEF _do_control_action, TrackedForCleanup, OnePairPerGid, StartsHaveEnds, OneCommand,
            CurrentOverrideEnds, IdleWhenCleared, EndPending
    <2> QED
      BY <2>2, <2>3
  <1>8. CASE Tick
    BY <1>8
    DEF Tick, agent, override, TrackedForCleanup, OnePairPerGid, StartsHaveEnds, OneCommand,
        CurrentOverrideEnds, IdleWhenCleared, EndPending
  <1>9. CASE Restart
    BY <1>9
    DEF Restart, TrackedForCleanup, OnePairPerGid, StartsHaveEnds, OneCommand,
        CurrentOverrideEnds, IdleWhenCleared
  <1>10. CASE UNCHANGED vars
    BY <1>10
    DEF vars, agent, override, TrackedForCleanup, OnePairPerGid, StartsHaveEnds, OneCommand,
        CurrentOverrideEnds, IdleWhenCleared, EndPending
  <1>11. ASSUME NEW c \in calls, rpc_set_point(c) \/ rpc_set_point_fails(c) PROVE PromptInv'
    BY <1>6, <1>11 DEF rpc_set_point, rpc_set_point_fails, override
  <1>12. CASE schedule_occupancy
    BY <1>12
    DEF schedule_occupancy, agent, override, TrackedForCleanup, OnePairPerGid, StartsHaveEnds, OneCommand,
        CurrentOverrideEnds, IdleWhenCleared, EndPending
  <1> QED
    BY <1>1, <1>2, <1>3, <1>4, <1>5, <1>7, <1>8, <1>9, <1>10, <1>11, <1>12
    DEF Next, Scheduler, Actuator, Callback

LEMMA PromptInvariant ==
    ASSUME PromptDriver, ProperWindows
    PROVE  Spec => []PromptInv
  <1>1. Init => PromptInv
    BY OverrideAssumption
    DEF Init, PromptInv, TrackedForCleanup, OnePairPerGid, StartsHaveEnds, OneCommand,
        CurrentOverrideEnds, IdleWhenCleared
  <1>2. TypeOK /\ PromptInv /\ [Next]_vars => PromptInv'
    BY PromptInvKept
  <1> QED
    BY <1>1, <1>2, TypeCorrect, PTL DEF Spec

\* With an actuator that answers promptly and overrides that start before they
\* end, update_override and an empty payload can cancel every pending event.
THEOREM Tracked ==
    ASSUME PromptDriver, ProperWindows
    PROVE  Spec => []TrackedForCleanup
  BY PromptInvariant, PTL DEF PromptInv

\* With both, an override that is current has its end pending or under way, so
\* sync_occupancy_state does not leave the unit alone for good.
THEOREM CurrentEnds ==
    ASSUME PromptDriver, ProperWindows
    PROVE  Spec => []CurrentOverrideEnds
  BY PromptInvariant, PTL DEF PromptInv

\* With both, an empty payload leaves no current override and no event behind.
THEOREM Cleared ==
    ASSUME PromptDriver, ProperWindows
    PROVE  Spec => []ClearedIsIdle
  <1>1. Spec => []PromptInv
    BY PromptInvariant
  <1>2. PromptInv => ClearedIsIdle
    BY DEF PromptInv, IdleWhenCleared, ClearedIsIdle
  <1> QED
    BY <1>1, <1>2, PTL

-----------------------------------------------------------------------------
(***************************************************************************)
(* StoredOverridePending.  While nothing is under way between the agent    *)
(* and its store, each override that is stored has been loaded or replaced *)
(* by another window; what is stored, or about to be, has no entry that    *)
(* ends a load in the middle.                                              *)
(***************************************************************************)

StoreTaken ==
    request = None /\ notify = None /\ store # None =>
        \A g \in Gids : store[g] \in Windows => loaded[g] \in Windows

StoreInv ==
    /\ notify # None => notify = store
    /\ request # None => ~Aborts(request)
    /\ store # None => ~Aborts(store)
    /\ StoreTaken

\* What a load leaves loaded: the payload, if it gets to its end.
LEMMA LoadLoads ==
    ASSUME NEW p \in Payloads, load_override(p)
    PROVE  /\ ~Aborts(p) => \A g \in Gids : p[g] \in Windows => loaded'[g] \in Windows
           /\ \A g \in Gids : loaded[g] \in Windows /\ Aborts(p) => loaded'[g] \in Windows
  <1>1. CASE p = EmptyPayload
    BY <1>1, OverrideAssumption DEF EmptyPayload, Aborts
  <1>2. CASE p # EmptyPayload
    <2>1. \A g \in Gids : loaded'[g] =
             IF g \in Reached(p) /\ (p[g] = NoWindow => ~Aborts(p)) THEN p[g] ELSE loaded[g]
      BY <1>2 DEF load_override, LoadEntries
    <2>2. \A g \in Reached(p) : p[g] \in Windows \cup {NoWindow}
      <3> SUFFICES ASSUME NEW g \in Reached(p) PROVE p[g] \in Windows \cup {NoWindow}
        OBVIOUS
      <3>1. g \in Gids /\ g <= g
        BY OverrideAssumption DEF Reached
      <3>2. p[g] # Malformed
        BY <3>1 DEF Reached
      <3> QED
        BY <3>1, <3>2, OverrideAssumption
    <2>3. ~Aborts(p) => Reached(p) = Gids
      BY DEF Aborts, Reached
    <2> QED
      BY <2>1, <2>2, <2>3, OverrideAssumption
  <1> QED
    BY <1>1, <1>2

LEMMA StoreKept == TypeOK /\ StoreInv /\ [Next]_vars => StoreInv'
  <1> SUFFICES ASSUME TypeOK, StoreInv, [Next]_vars PROVE StoreInv'
    OBVIOUS
  <1> USE DEF StoreInv, StoreTaken, Aborts
  <1>1. ASSUME NEW p \in Payloads, set_occupancy_override(p) PROVE StoreInv'
    <2>1. None \notin Payloads
      BY OverrideAssumption
    <2>2. CASE Aborts(p)
      BY <1>1, <2>2, LoadLoads DEF set_occupancy_override
    <2>3. CASE ~Aborts(p)
      BY <1>1, <2>1, <2>3 DEF set_occupancy_override
    <2> QED
      BY <2>2, <2>3
  <1>2. CASE config_set
    BY <1>2 DEF config_set
  <1>3. CASE update_from_config_store
    <2>1. notify = store /\ store \in Payloads /\ notify' = None /\ UNCHANGED <<store, request>>
      BY <1>3 DEF update_from_config_store, TypeOK
    <2> QED
      BY <1>3, <2>1, LoadLoads DEF update_from_config_store
  <1>4. CASE sync_occupancy_state
    <2>1. UNCHANGED <<store, request, notify>>
      BY <1>4 DEF sync_occupancy_state
    <2>2. CASE store # None /\ load_override(store)
      <3>1. store \in Payloads
        BY <2>2 DEF TypeOK
      <3> QED
        BY <2>1, <2>2, <3>1, LoadLoads
    <2>3. CASE UNCHANGED override
      BY <2>1, <2>3 DEF override
    <2> QED
      BY <1>4, <2>2, <2>3 DEF sync_occupancy_state
  <1>5. ASSUME NEW t \in timers, Fire(t) PROVE StoreInv'
    BY <1>5 DEF Fire
  <1>6. ASSUME NEW c \in calls, rpc_set_point(c) \/ rpc_set_point_fails(c) PROVE StoreInv'
    BY <1>6 DEF rpc_set_point, rpc_set_point_fails, override
  <1>7. ASSUME NEW c \in calls, _do_control_action(c) PROVE StoreInv'
    BY <1>7 DEF _do_control_action
  <1>8. CASE Tick \/ schedule_occupancy
    BY <1>8 DEF Tick, schedule_occupancy, agent, override
  <1>9. CASE Restart
    BY <1>9 DEF Restart
  <1>10. CASE UNCHANGED vars
    BY <1>10 DEF vars, agent, override
  <1> QED
    BY <1>1, <1>2, <1>3, <1>4, <1>5, <1>6, <1>7, <1>8, <1>9, <1>10
    DEF Next, Scheduler, Actuator, Callback

\* An override that is stored and not over has its end pending once the agent has
\* taken in what the store tells it: neither a restart nor a payload that is refused
\* in the middle forgets it.
THEOREM NoStoredOverrideForgotten == Spec => []StoredOverridePending
  <1>1. Init => StoreInv
    BY DEF Init, StoreInv, StoreTaken
  <1>2. StoreInv /\ LoadedOverridePending => StoredOverridePending
    BY OverrideAssumption DEF StoreInv, StoreTaken, LoadedOverridePending, StoredOverridePending
  <1> QED
    BY <1>1, <1>2, StoreKept, TypeCorrect, NoOverrideForgotten, PTL DEF Spec

=============================================================================
