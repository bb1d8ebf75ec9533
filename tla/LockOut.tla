------------------------------ MODULE LockOut ------------------------------
(***************************************************************************)
(* The weather lockouts of one unit: LockOutManager of the edge Manager    *)
(* agent.  When it is warm enough outside the electric (auxiliary) heat of *)
(* a heat pump is commanded off; when it is cold enough the compressor     *)
(* stages of a unit with an economizer are.                                *)
(*                                                                         *)
(* Three greenlets write the same points: evaluate, run for every data     *)
(* message of the driver; update_configuration, run when the server or the *)
(* config store delivers a configuration; and _reinforce_active_lockouts,  *)
(* run by a periodic.  A write blocks its greenlet, so each greenlet is a  *)
(* list of writes still to do and the step that follows them; what the     *)
(* code does between two writes is one step.                               *)
(*                                                                         *)
(* The optimal-start lockout that update_configuration also reschedules    *)
(* has variables of its own and is not part of this module.                *)
(***************************************************************************)
EXTENDS Integers, Sequences

CONSTANTS
    Temps,        \* outdoor-air temperatures
    Invalid,      \* no measurement, or one older than STALE_DATA_TIMEOUT
    Configs,      \* the configurations the server may push
    Default,      \* the configuration of a new LockOutManager
    PromptDriver, \* TRUE: a write is answered before another greenlet runs
    MaxFaults,    \* bound: writes that four attempts do not deliver
    MaxConfigs,   \* bound: configurations pushed by the server
    MaxRestarts   \* bound: restarts of the agent

LOCKOUT_DEADBAND == 1

AuxHeat   == "AuxiliaryHeatCommand"
Stages    == <<"FirstStageCooling", "SecondStageCooling">>
PointName == {AuxHeat, Stages[1], Stages[2]}
Greenlets == {"evaluate", "configure", "reinforce"}

Configuration == [heatpump : BOOLEAN, economizer : BOOLEAN, heat_temp : Int, clg_temp : Int]

\* set_configurations leaves out the threshold of equipment the unit lacks, and
\* update_configuration then takes one no temperature reaches.
ASSUME LockOutAssumption ==
    /\ Temps \subseteq Int /\ Invalid \notin Temps
    /\ Configs \subseteq Configuration /\ Default \in Configuration
    /\ ~Default.heatpump /\ ~Default.economizer
    /\ \A c \in Configs \cup {Default} : \A t \in Temps :
          /\ ~c.heatpump => t <= c.heat_temp
          /\ ~c.economizer => t >= c.clg_temp
    /\ PromptDriver \in BOOLEAN
    /\ MaxFaults \in Nat /\ MaxConfigs \in Nat /\ MaxRestarts \in Nat

VARIABLES
    oat,         \* the current measurement
    device,      \* whether each point is overridden to 0 ("off") or released
    heat_active, \* electric_heat_lockout_active
    clg_active,  \* clg_lockout_active
    cfg,         \* is_heatpump, has_economizer and the two thresholds
    tracked,     \* _reinforce_greenlet holds a periodic
    stray,       \* a periodic runs that _reinforce_greenlet no longer holds
    todo,        \* the writes each greenlet has still to do ...
    step,        \* ... and what it does when they have returned
    seen,        \* the temperature evaluate read when it began
    wanted,      \* the configuration update_configuration was called with
    round,       \* which of its two release_all calls update_configuration is in
    control,     \* 'control' of the config store
    faults, pushes, restarts

flags  == <<heat_active, clg_active>>
config == <<cfg, wanted, round, control>>
bounds == <<faults, pushes, restarts>>
vars == <<oat, device, flags, config, tracked, stray, todo, step, seen, bounds>>

Write == [point : PointName, value : {"off", "released"}]
Step  == {"idle", "heat_locked", "heat_freed", "clg_locked", "clg_freed",
          "release_heat", "release_clg", "configured", "reinforced"}

TypeOK ==
    /\ oat \in Temps \cup {Invalid}
    /\ device \in [PointName -> {"off", "released"}]
    /\ heat_active \in BOOLEAN /\ clg_active \in BOOLEAN
    /\ {cfg, wanted, control} \subseteq Configs \cup {Default}
    /\ round \in {1, 2}
    /\ tracked \in BOOLEAN /\ stray \in BOOLEAN
    /\ todo \in [Greenlets -> Seq(Write)]
    /\ step \in [Greenlets -> Step]
    /\ seen \in Temps \cup {Invalid}
    /\ faults \in 0..MaxFaults /\ pushes \in 0..MaxConfigs /\ restarts \in 0..MaxRestarts

-----------------------------------------------------------------------------
Idle(g)  == step[g] = "idle"
Runnable == PromptDriver => \A g \in Greenlets : Idle(g)

Returned(g, s) == step[g] = s /\ todo[g] = <<>>

\* g starts some writes and goes on with s when they have returned.
Send(g, writes, s) ==
    /\ todo' = [todo EXCEPT ![g] = writes]
    /\ step' = [step EXCEPT ![g] = s]

Finish(g) == Send(g, <<>>, "idle")

\* Mutant of _control_fn: the arguments in the wrong order.
_control_fn_swapped(p, v) == [point |-> v, value |-> p]

_control_fn(p, v) == [point |-> p, value |-> v]
_set_heating(v) == <<_control_fn(AuxHeat, v)>>

\* Mutant of _set_cooling_stages: the first stage twice.
_set_first_stage(v) == <<_control_fn(Stages[1], v), _control_fn(Stages[1], v)>>

_set_cooling_stages(v) == <<_control_fn(Stages[1], v), _control_fn(Stages[2], v)>>

\* _cancel_greenlet stops the periodic that is tracked, and only that one.
_cancel_greenlet == tracked' = FALSE /\ UNCHANGED stray

\* Mutant of start_reinforcing: the periodic of the other lockout is cancelled.
start_reinforcing_alone == tracked' = TRUE /\ UNCHANGED stray

\* Scheduling a periodic forgets the one tracked before it.
start_reinforcing == tracked' = TRUE /\ stray' = (stray \/ tracked)

-----------------------------------------------------------------------------
(* release_all and update_configuration.  In these, t is what tracked is by  *)
(* then, r the round they are in and exit what follows release_all.          *)

Keep(t, r) == tracked' = t /\ round' = r /\ UNCHANGED <<cfg, control>>

ReleaseCooling(g, t, r, exit) ==
    IF cfg.economizer
    THEN Send(g, _set_cooling_stages("released"), "release_clg") /\ Keep(t, r)
    ELSE exit

release_all(g, t, r, exit) ==
    IF cfg.heatpump
    THEN Send(g, _set_heating("released"), "release_heat") /\ Keep(t, r)
    ELSE ReleaseCooling(g, t, r, exit)

\* The configuration takes effect, and the economizer setpoint is written.
Configure(c, t) ==
    /\ cfg' = c /\ UNCHANGED control
    /\ tracked' = t /\ round' = 1
    /\ Send("configure", <<>>, "configured")

\* The unit became, or is no longer, a heat pump: release_all once more.
CompareHeatPump(c, t) ==
    IF c.heatpump # cfg.heatpump
    THEN release_all("configure", t, 2, Configure(c, FALSE))
    ELSE Configure(c, t)

\* Mutant of CompareEconomizer: losing the economizer releases nothing.
IgnoreEconomizer(c) == CompareHeatPump(c, tracked)

CompareEconomizer(c) ==
    IF c.economizer # cfg.economizer
    THEN release_all("configure", tracked, 1, CompareHeatPump(c, FALSE))
    ELSE CompareHeatPump(c, tracked)

\* What follows release_all, which ends by cancelling the periodic.
Exit(g) ==
    IF g = "evaluate" THEN Finish(g) /\ Keep(FALSE, round)
    ELSE IF round = 1 THEN CompareHeatPump(wanted, FALSE)
    ELSE Configure(wanted, FALSE)

update_configuration(c) ==
    /\ wanted' = c
    /\ CompareEconomizer(c)
    /\ UNCHANGED <<oat, device, flags, stray, seen>>

\* The server pushes a configuration; it awaits the answer.
set_configurations(c) ==
    /\ Runnable /\ Idle("configure")
    /\ pushes < MaxConfigs
    /\ pushes' = pushes + 1
    /\ update_configuration(c)
    /\ UNCHANGED <<faults, restarts>>

\* The caller of update_configuration stores what it pushed, or was given.
config_set ==
    /\ Returned("configure", "configured")
    /\ control' = wanted
    /\ Finish("configure")
    /\ UNCHANGED <<oat, device, flags, cfg, wanted, round, tracked, stray, seen, bounds>>

\* The config store delivers its entry, to a new agent for one.
update_from_config_store ==
    /\ Runnable /\ Idle("configure")
    /\ control # cfg
    /\ update_configuration(control)
    /\ UNCHANGED bounds

release_heating_lockout(g) ==
    /\ Returned(g, "release_heat")
    /\ heat_active' = FALSE
    /\ ReleaseCooling(g, tracked, round, Exit(g))
    /\ UNCHANGED <<oat, device, clg_active, wanted, stray, seen, bounds>>

release_cooling_lockout(g) ==
    /\ Returned(g, "release_clg")
    /\ clg_active' = FALSE
    /\ Exit(g)
    /\ UNCHANGED <<oat, device, heat_active, wanted, stray, seen, bounds>>

-----------------------------------------------------------------------------
(* evaluate *)

evaluate_cooling_lockout(t) ==
    IF cfg.economizer /\ t < cfg.clg_temp /\ ~clg_active
    THEN Send("evaluate", _set_cooling_stages("off"), "clg_locked")
    ELSE IF cfg.economizer /\ clg_active /\ t - cfg.clg_temp > LOCKOUT_DEADBAND
    THEN Send("evaluate", _set_cooling_stages("released"), "clg_freed")
    ELSE Finish("evaluate")

\* Mutant of evaluate_electric_heating_lockout: only one lockout at a time.
evaluate_one_lockout(t) ==
    IF t > cfg.heat_temp /\ ~heat_active
    THEN Send("evaluate", _set_heating("off"), "heat_locked")
    ELSE IF heat_active /\ cfg.heat_temp - t > LOCKOUT_DEADBAND
    THEN Send("evaluate", _set_heating("released"), "heat_freed")
    ELSE IF heat_active THEN Finish("evaluate")
    ELSE evaluate_cooling_lockout(t)

evaluate_electric_heating_lockout(t) ==
    IF t > cfg.heat_temp /\ ~heat_active
    THEN Send("evaluate", _set_heating("off"), "heat_locked")
    ELSE IF heat_active /\ cfg.heat_temp - t > LOCKOUT_DEADBAND
    THEN Send("evaluate", _set_heating("released"), "heat_freed")
    ELSE evaluate_cooling_lockout(t)

\* A data message arrives.
evaluate ==
    /\ Runnable /\ Idle("evaluate")
    /\ seen' = oat
    /\ IF oat = Invalid
       THEN /\ heat_active \/ clg_active
            /\ release_all("evaluate", tracked, round, Exit("evaluate"))
       ELSE /\ evaluate_electric_heating_lockout(oat)
            /\ Keep(tracked, round)
    /\ UNCHANGED <<oat, device, flags, wanted, stray, bounds>>

HeatLocked ==
    /\ Returned("evaluate", "heat_locked")
    /\ heat_active' = TRUE
    /\ start_reinforcing
    /\ evaluate_cooling_lockout(seen)
    /\ UNCHANGED <<oat, device, clg_active, config, seen, bounds>>

HeatFreed ==
    /\ Returned("evaluate", "heat_freed")
    /\ heat_active' = FALSE
    /\ _cancel_greenlet
    /\ evaluate_cooling_lockout(seen)
    /\ UNCHANGED <<oat, device, clg_active, config, seen, bounds>>

CoolingLocked ==
    /\ Returned("evaluate", "clg_locked")
    /\ clg_active' = TRUE
    /\ start_reinforcing
    /\ Finish("evaluate")
    /\ UNCHANGED <<oat, device, heat_active, config, seen, bounds>>

CoolingFreed ==
    /\ Returned("evaluate", "clg_freed")
    /\ clg_active' = FALSE
    /\ _cancel_greenlet
    /\ Finish("evaluate")
    /\ UNCHANGED <<oat, device, heat_active, config, seen, bounds>>

-----------------------------------------------------------------------------
(* _reinforce_active_lockouts, by any periodic that still runs *)

\* Mutant of _reinforce_active_lockouts: cooling is looked at first.
_reinforce_cooling_first ==
    /\ Runnable /\ Idle("reinforce")
    /\ tracked \/ stray
    /\ IF clg_active
       THEN Send("reinforce", _set_cooling_stages("off"), "reinforced") /\ UNCHANGED tracked
       ELSE IF heat_active
       THEN Send("reinforce", _set_heating("off"), "reinforced") /\ UNCHANGED tracked
       ELSE tracked' = FALSE /\ UNCHANGED <<todo, step>>
    /\ UNCHANGED <<oat, device, flags, config, stray, seen, bounds>>

_reinforce_active_lockouts ==
    /\ Runnable /\ Idle("reinforce")
    /\ tracked \/ stray
    /\ IF heat_active
       THEN Send("reinforce", _set_heating("off"), "reinforced") /\ UNCHANGED tracked
       ELSE IF clg_active
       THEN Send("reinforce", _set_cooling_stages("off"), "reinforced") /\ UNCHANGED tracked
       ELSE tracked' = FALSE /\ UNCHANGED <<todo, step>>
    /\ UNCHANGED <<oat, device, flags, config, stray, seen, bounds>>

Reinforced ==
    /\ Returned("reinforce", "reinforced")
    /\ Finish("reinforce")
    /\ UNCHANGED <<oat, device, flags, config, tracked, stray, seen, bounds>>

-----------------------------------------------------------------------------
(* The driver and the environment *)

NextWrite(g) == todo' = [todo EXCEPT ![g] = Tail(@)]

set_point(g) ==
    /\ todo[g] # <<>>
    /\ device' = [device EXCEPT ![Head(todo[g]).point] = Head(todo[g]).value]
    /\ NextWrite(g)
    /\ UNCHANGED <<oat, flags, config, tracked, stray, step, seen, bounds>>

\* Four attempts fail; no caller looks at the result.
set_point_fails(g) ==
    /\ todo[g] # <<>>
    /\ faults < MaxFaults
    /\ faults' = faults + 1
    /\ NextWrite(g)
    /\ UNCHANGED <<oat, device, flags, config, tracked, stray, step, seen, pushes, restarts>>

Weather ==
    /\ oat' \in (Temps \cup {Invalid}) \ {oat}
    /\ UNCHANGED <<device, flags, config, tracked, stray, todo, step, seen, bounds>>

Restart ==
    /\ restarts < MaxRestarts
    /\ restarts' = restarts + 1
    /\ heat_active' = FALSE /\ clg_active' = FALSE
    /\ cfg' = Default /\ wanted' = Default /\ round' = 1
    /\ tracked' = FALSE /\ stray' = FALSE
    /\ todo' = [g \in Greenlets |-> <<>>] /\ step' = [g \in Greenlets |-> "idle"]
    /\ seen' = Invalid
    /\ UNCHANGED <<oat, device, control, faults, pushes>>

Init ==
    /\ oat = Invalid
    /\ device = [p \in PointName |-> "released"]
    /\ heat_active = FALSE /\ clg_active = FALSE
    /\ cfg = Default /\ wanted = Default /\ control = Default /\ round = 1
    /\ tracked = FALSE /\ stray = FALSE
    /\ todo = [g \in Greenlets |-> <<>>] /\ step = [g \in Greenlets |-> "idle"]
    /\ seen = Invalid
    /\ faults = 0 /\ pushes = 0 /\ restarts = 0

Evaluate  == evaluate \/ HeatLocked \/ HeatFreed \/ CoolingLocked \/ CoolingFreed
Reinforce == _reinforce_active_lockouts \/ Reinforced
Release   == \E g \in {"evaluate", "configure"} :
                release_heating_lockout(g) \/ release_cooling_lockout(g)
Driver(g) == set_point(g) \/ set_point_fails(g)

Next ==
    \/ \E c \in Configs : set_configurations(c)
    \/ config_set \/ update_from_config_store
    \/ Evaluate \/ Reinforce \/ Release
    \/ \E g \in Greenlets : Driver(g)
    \/ Weather \/ Restart

Spec == Init /\ [][Next]_vars

\* The hub runs greenlets in the order they became ready, so one that is ready
\* again and again gets its turn; data messages keep coming; every write is
\* answered or given up.
Fairness ==
    /\ WF_vars(config_set) /\ SF_vars(update_from_config_store)
    /\ SF_vars(Evaluate) /\ SF_vars(Reinforce) /\ WF_vars(Release)
    /\ \A g \in Greenlets : WF_vars(Driver(g))

FairSpec == Spec /\ Fairness

-----------------------------------------------------------------------------
(* Properties *)

AllIdle == \A g \in Greenlets : Idle(g)

Warm == oat # Invalid /\ oat > cfg.heat_temp
Cold == oat # Invalid /\ cfg.economizer /\ oat < cfg.clg_temp

\* No lockout outlives the equipment it is for: a configuration that takes the
\* heat pump or the economizer away has released its lockout first, because
\* nothing evaluates it afterwards.
LockoutHasEquipment ==
    AllIdle => /\ heat_active => cfg.heatpump
               /\ clg_active => cfg.economizer

\* While a lockout is active some periodic reinforces it, although the two
\* lockouts share one attribute and ending either cancels what it holds.
ReinforcedWhileActive ==
    AllIdle /\ (heat_active \/ clg_active) => tracked \/ stray

\* As long as no write was lost and the agent did not restart, a point is
\* overridden exactly while its lockout is active.
DeviceFollowsFlags ==
    AllIdle /\ faults = 0 /\ restarts = 0 =>
        /\ device[AuxHeat] = "off" <=> heat_active
        /\ \A i \in 1..2 : device[Stages[i]] = "off" <=> clg_active

\* Once the weather is steady it decides each lockout, whatever configurations
\* were pushed and whichever greenlets were in the middle of a write; and where it
\* decides neither way, in the dead band, a lockout does not come and go.
FlagsFollowWeather ==
    /\ Warm => heat_active
    /\ oat # Invalid /\ cfg.heat_temp - oat > LOCKOUT_DEADBAND => ~heat_active
    /\ Cold => clg_active
    /\ oat # Invalid /\ cfg.economizer /\ oat - cfg.clg_temp > LOCKOUT_DEADBAND => ~clg_active

LockoutFollowsWeather ==
    <>[][FALSE]_oat => <>[]FlagsFollowWeather /\ <>[][FALSE]_<<heat_active, clg_active>>

\* In steady warm weather the electric heat stays off, even if writes are lost:
\* the periodic repeats them.
HeatingEnforced == <>[]Warm => <>[](device[AuxHeat] = "off")
=============================================================================
