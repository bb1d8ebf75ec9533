--------------------------- MODULE LockOut_proofs ---------------------------
(***************************************************************************)
(* What LockOut guarantees for every set of temperatures, thresholds and   *)
(* configurations.                                                         *)
(***************************************************************************)
EXTENDS LockOut, SequenceTheorems, TLAPS

Value == {"off", "released"}

LEMMA WritesType ==
    /\ <<>> \in Seq(Write)
    /\ \A v \in Value : _set_heating(v) \in Seq(Write)
    /\ \A v \in Value : _set_cooling_stages(v) \in Seq(Write)
  <1>1. \A p \in PointName, v \in Value : _control_fn(p, v) \in Write
    BY DEF _control_fn, Write, Value
  <1>2. AuxHeat \in PointName /\ Stages[1] \in PointName /\ Stages[2] \in PointName
    BY DEF PointName
  <1>3. \A a, b \in Write : <<a>> \in Seq(Write) /\ <<a, b>> \in Seq(Write)
    OBVIOUS
  <1> QED
    BY <1>1, <1>2, <1>3, EmptySeq DEF _set_heating, _set_cooling_stages

\* The variables a greenlet's control flow changes keep their types.
Flow == /\ todo \in [Greenlets -> Seq(Write)]
        /\ step \in [Greenlets -> Step]
        /\ {cfg, control} \subseteq Configs \cup {Default}
        /\ round \in {1, 2} /\ tracked \in BOOLEAN

LEMMA SendType ==
    ASSUME TypeOK, NEW g \in Greenlets, NEW w \in Seq(Write), NEW s \in Step, Send(g, w, s)
    PROVE  todo' \in [Greenlets -> Seq(Write)] /\ step' \in [Greenlets -> Step]
  BY DEF TypeOK, Send

LEMMA CompareHeatPumpType ==
    ASSUME TypeOK, NEW c \in Configs \cup {Default}, NEW t \in BOOLEAN, CompareHeatPump(c, t)
    PROVE  Flow'
  <1>1. "configure" \in Greenlets
    BY DEF Greenlets
  <1>2. "release_heat" \in Step /\ "release_clg" \in Step /\ "configured" \in Step
    BY DEF Step
  <1>3. "released" \in Value
    BY DEF Value
  <1>4. ASSUME NEW u \in BOOLEAN, Configure(c, u) PROVE Flow'
    BY <1>1, <1>2, <1>4, SendType, WritesType DEF Configure, Flow, TypeOK
  <1>5. ASSUME NEW s \in {"release_heat", "release_clg"}, NEW w \in Seq(Write),
               Send("configure", w, s), Keep(t, 2)
        PROVE  Flow'
    BY <1>1, <1>2, <1>5, SendType DEF Keep, Flow, TypeOK
  <1> QED
    BY <1>3, <1>4, <1>5, WritesType DEF CompareHeatPump, release_all, ReleaseCooling

LEMMA ExitType ==
    ASSUME TypeOK, NEW g \in {"evaluate", "configure"}, Exit(g)
    PROVE  Flow'
  <1>1. CASE g = "evaluate"
    <2>1. Finish(g) /\ Keep(FALSE, round)
      BY <1>1 DEF Exit
    <2> QED
      BY <2>1, SendType, WritesType DEF Finish, Keep, Flow, TypeOK, Greenlets, Step
  <1>2. CASE g = "configure" /\ round = 1
    <2>1. CompareHeatPump(wanted, FALSE)
      BY <1>2 DEF Exit
    <2> QED
      BY <2>1, CompareHeatPumpType DEF TypeOK
  <1>3. CASE g = "configure" /\ round # 1
    <2>1. Configure(wanted, FALSE)
      BY <1>3 DEF Exit
    <2> QED
      BY <2>1, SendType, WritesType DEF Configure, Flow, TypeOK, Greenlets, Step
  <1> QED
    BY <1>1, <1>2, <1>3 DEF TypeOK

LEMMA ReleaseCoolingType ==
    ASSUME TypeOK, NEW g \in {"evaluate", "configure"}, ReleaseCooling(g, tracked, round, Exit(g))
    PROVE  Flow'
  <1>1. CASE cfg.economizer
    <2>1. Send(g, _set_cooling_stages("released"), "release_clg") /\ Keep(tracked, round)
      BY <1>1 DEF ReleaseCooling
    <2> QED
      BY <2>1, SendType, WritesType DEF Keep, Flow, TypeOK, Greenlets, Step, Value
  <1>2. CASE ~cfg.economizer
    BY <1>2, ExitType DEF ReleaseCooling
  <1> QED
    BY <1>1, <1>2

LEMMA CompareEconomizerType ==
    ASSUME TypeOK, NEW c \in Configs \cup {Default}, CompareEconomizer(c)
    PROVE  Flow'
  <1>1. ASSUME CompareHeatPump(c, FALSE) \/ CompareHeatPump(c, tracked) PROVE Flow'
    BY <1>1, CompareHeatPumpType DEF TypeOK
  <1>2. ASSUME NEW s \in {"release_heat", "release_clg"}, NEW w \in Seq(Write),
               Send("configure", w, s), Keep(tracked, 1)
        PROVE  Flow'
    BY <1>2, SendType DEF Keep, Flow, TypeOK, Greenlets, Step
  <1> QED
    BY <1>1, <1>2, WritesType DEF CompareEconomizer, release_all, ReleaseCooling, Value

LEMMA EvaluateType ==
    ASSUME TypeOK, NEW t,
           evaluate_cooling_lockout(t) \/ evaluate_electric_heating_lockout(t)
    PROVE  todo' \in [Greenlets -> Seq(Write)] /\ step' \in [Greenlets -> Step]
  <1>1. PICK s \in Step, w \in Seq(Write) : Send("evaluate", w, s)
    BY WritesType DEF evaluate_cooling_lockout, evaluate_electric_heating_lockout,
                      Finish, Step, Value
  <1> QED
    BY <1>1, SendType DEF Greenlets

\* Type correctness of every behaviour of the lockout manager.
THEOREM TypeCorrect == Spec => []TypeOK
  <1>1. Init => TypeOK
    <2> SUFFICES ASSUME Init PROVE TypeOK
      OBVIOUS
    <2>1. todo \in [Greenlets -> Seq(Write)] /\ step \in [Greenlets -> Step]
      BY WritesType DEF Init, Step
    <2>2. 0 \in 0..MaxFaults /\ 0 \in 0..MaxConfigs /\ 0 \in 0..MaxRestarts
      BY LockOutAssumption
    <2> QED
      BY <2>1, <2>2 DEF Init, TypeOK
  <1>2. TypeOK /\ [Next]_vars => TypeOK'
    <2> SUFFICES ASSUME TypeOK, [Next]_vars PROVE TypeOK'
      OBVIOUS
    <2>1. ASSUME NEW c \in Configs, set_configurations(c) PROVE TypeOK'
      <3>1. Flow'
        BY <2>1, CompareEconomizerType DEF set_configurations, update_configuration
      <3> QED
        BY <2>1, <3>1, LockOutAssumption
           DEF set_configurations, update_configuration, TypeOK, Flow, flags
    <2>2. CASE update_from_config_store
      <3>1. Flow'
        BY <2>2, CompareEconomizerType DEF update_from_config_store, update_configuration, TypeOK
      <3> QED
        BY <2>2, <3>1 DEF update_from_config_store, update_configuration, TypeOK, Flow, flags, bounds
    <2>3. CASE Evaluate
      <3>1. CASE evaluate
        <4>1. CASE oat = Invalid
          <5>1. release_all("evaluate", tracked, round, Exit("evaluate"))
            BY <3>1, <4>1 DEF evaluate
          <5>2. Flow'
            <6>1. CASE cfg.heatpump
              BY <5>1, <6>1, SendType, WritesType
                 DEF release_all, Keep, Flow, TypeOK, Greenlets, Step, Value
            <6>2. CASE ~cfg.heatpump
              BY <5>1, <6>2, ReleaseCoolingType DEF release_all
            <6> QED
              BY <6>1, <6>2
          <5> QED
            BY <3>1, <5>2 DEF evaluate, TypeOK, Flow, flags, bounds
        <4>2. CASE oat # Invalid
          <5>1. evaluate_electric_heating_lockout(oat) /\ Keep(tracked, round)
            BY <3>1, <4>2 DEF evaluate
          <5>2. todo' \in [Greenlets -> Seq(Write)] /\ step' \in [Greenlets -> Step]
            BY <5>1, EvaluateType
          <5> QED
            BY <3>1, <5>1, <5>2 DEF evaluate, Keep, TypeOK, flags, bounds
        <4> QED
          BY <4>1, <4>2
      <3>2. CASE HeatLocked \/ HeatFreed
        <4>1. todo' \in [Greenlets -> Seq(Write)] /\ step' \in [Greenlets -> Step]
          BY <3>2, EvaluateType DEF HeatLocked, HeatFreed
        <4> QED
          BY <3>2, <4>1 DEF HeatLocked, HeatFreed, start_reinforcing, _cancel_greenlet,
                            TypeOK, config, bounds
      <3>3. CASE CoolingLocked \/ CoolingFreed
        <4>1. todo' \in [Greenlets -> Seq(Write)] /\ step' \in [Greenlets -> Step]
          BY <3>3, SendType, WritesType DEF CoolingLocked, CoolingFreed, Finish, Greenlets, Step
        <4> QED
          BY <3>3, <4>1 DEF CoolingLocked, CoolingFreed, start_reinforcing, _cancel_greenlet,
                            TypeOK, config, bounds
      <3> QED
        BY <2>3, <3>1, <3>2, <3>3 DEF Evaluate
    <2>4. CASE Reinforce
      <3>1. /\ todo' \in [Greenlets -> Seq(Write)] /\ step' \in [Greenlets -> Step]
            /\ tracked' \in BOOLEAN
        BY <2>4, SendType, WritesType
           DEF Reinforce, _reinforce_active_lockouts, Reinforced, Finish, Greenlets, Step, Value,
               TypeOK
      <3> QED
        BY <2>4, <3>1 DEF Reinforce, _reinforce_active_lockouts, Reinforced, TypeOK, flags,
                          config, bounds
    <2>5. ASSUME NEW g \in {"evaluate", "configure"},
                 release_heating_lockout(g) \/ release_cooling_lockout(g)
          PROVE  TypeOK'
      <3>1. Flow'
        BY <2>5, ReleaseCoolingType, ExitType DEF release_heating_lockout, release_cooling_lockout
      <3> QED
        BY <2>5, <3>1 DEF release_heating_lockout, release_cooling_lockout, Flow, TypeOK, bounds
    <2>6. ASSUME NEW g \in Greenlets, Driver(g) PROVE TypeOK'
      <3>1. todo[g] \in Seq(Write) /\ todo[g] # <<>>
        BY <2>6 DEF Driver, set_point, set_point_fails, TypeOK
      <3>2. Head(todo[g]) \in Write /\ Tail(todo[g]) \in Seq(Write)
        BY <3>1, HeadTailProperties
      <3>3. Head(todo[g]).point \in PointName /\ Head(todo[g]).value \in {"off", "released"}
        BY <3>2 DEF Write
      <3>4. todo' \in [Greenlets -> Seq(Write)]
        BY <2>6, <3>2 DEF Driver, set_point, set_point_fails, NextWrite, TypeOK
      <3>5. device' \in [PointName -> {"off", "released"}]
        BY <2>6, <3>3 DEF Driver, set_point, set_point_fails, TypeOK
      <3>6. faults' \in 0..MaxFaults
        BY <2>6, LockOutAssumption DEF Driver, set_point, set_point_fails, TypeOK, bounds
      <3> QED
        BY <2>6, <3>4, <3>5, <3>6
           DEF Driver, set_point, set_point_fails, TypeOK, flags, config, bounds
    <2>7. CASE Weather
      BY <2>7 DEF Weather, TypeOK, flags, config, bounds
    <2>8. CASE Restart
      <3>1. todo' \in [Greenlets -> Seq(Write)] /\ step' \in [Greenlets -> Step]
        BY <2>8, WritesType DEF Restart, Step
      <3>2. restarts' \in 0..MaxRestarts
        BY <2>8, LockOutAssumption DEF Restart, TypeOK
      <3> QED
        BY <2>8, <3>1, <3>2 DEF Restart, TypeOK
    <2>9. CASE config_set
      <3>1. todo' \in [Greenlets -> Seq(Write)] /\ step' \in [Greenlets -> Step]
        BY <2>9, SendType, WritesType DEF config_set, Finish, Greenlets, Step
      <3> QED
        BY <2>9, <3>1 DEF config_set, TypeOK, flags, bounds
    <2>10. CASE UNCHANGED vars
      BY <2>10 DEF vars, TypeOK, flags, config, bounds
    <2> QED
      BY <2>1, <2>2, <2>3, <2>4, <2>5, <2>6, <2>7, <2>8, <2>9, <2>10 DEF Next, Release
  <1> QED
    BY <1>1, <1>2, PTL DEF Spec

-----------------------------------------------------------------------------
(* When every write is answered before another greenlet runs *)

Others(g) == \A h \in Greenlets \ {g} : Idle(h)

\* The inductive invariant.  The flags and the configuration agree at every
\* step of a release, not only between handlers, and with both lockouts active
\* the periodic of the first one is a stray.
PromptInv ==
    /\ \A g, h \in Greenlets : Idle(g) \/ Idle(h) \/ g = h
    /\ heat_active => cfg.heatpump
    /\ clg_active => cfg.economizer
    /\ step["evaluate"] = "heat_locked" => cfg.heatpump
    /\ step["evaluate"] = "clg_locked" => cfg.economizer
    /\ step["evaluate"] = "heat_freed" => heat_active
    /\ step["evaluate"] = "clg_freed" => clg_active
    /\ \A g \in Greenlets : step[g] = "release_clg" => ~heat_active
    /\ heat_active /\ clg_active => stray
    /\ heat_active \/ clg_active => tracked \/ stray

Releasing == {"idle", "release_heat", "release_clg", "configured"}

\* Once both flags are reset any configuration and any release keeps it.
LEMMA BothReleased ==
    ASSUME TypeOK, NEW g \in {"evaluate", "configure"}, Others(g),
           NEW w, NEW s \in Releasing, Send(g, w, s), ~heat_active', ~clg_active'
    PROVE  PromptInv'
  <1>1. step' = [step EXCEPT ![g] = s]
    BY DEF Send
  <1>2. \A h \in Greenlets \ {g} : step'[h] = "idle"
    BY <1>1 DEF Others, Idle, TypeOK
  <1>3. step'[g] = s
    BY <1>1 DEF TypeOK, Greenlets
  <1> QED
    BY <1>2, <1>3 DEF PromptInv, Idle, Greenlets, Releasing

\* A release that begins, or goes on to the other lockout, keeps it.
LEMMA ReleaseBegins ==
    ASSUME TypeOK, PromptInv, NEW g \in {"evaluate", "configure"}, Others(g),
           NEW w, NEW s \in Releasing, Send(g, w, s),
           s = "release_clg" => ~heat_active',
           heat_active' => heat_active, clg_active' => clg_active,
           UNCHANGED <<tracked, stray>>,
           cfg'.heatpump = cfg.heatpump, cfg'.economizer = cfg.economizer
    PROVE  PromptInv'
  <1>1. step' = [step EXCEPT ![g] = s]
    BY DEF Send
  <1>2. \A h \in Greenlets \ {g} : step'[h] = "idle"
    BY <1>1 DEF Others, Idle, TypeOK
  <1>3. step'[g] = s
    BY <1>1 DEF TypeOK, Greenlets
  <1>4. /\ step'["evaluate"] \notin {"heat_locked", "clg_locked", "heat_freed", "clg_freed"}
        /\ \A h \in Greenlets : step'[h] = "release_clg" => ~heat_active'
        /\ \A h, k \in Greenlets : step'[h] = "idle" \/ step'[k] = "idle" \/ h = k
    BY <1>2, <1>3 DEF Releasing, Greenlets
  <1>5. /\ heat_active' => cfg'.heatpump
        /\ clg_active' => cfg'.economizer
        /\ heat_active' /\ clg_active' => stray'
        /\ heat_active' \/ clg_active' => tracked' \/ stray'
    BY DEF PromptInv
  <1> QED
    BY <1>4, <1>5 DEF PromptInv, Idle

LEMMA CompareHeatPumpPrompt ==
    ASSUME TypeOK, Others("configure"), NEW c, NEW t, CompareHeatPump(c, t),
           ~heat_active', ~clg_active'
    PROVE  PromptInv'
  <1>1. ASSUME NEW s \in Releasing, NEW w, Send("configure", w, s) PROVE PromptInv'
    BY <1>1, BothReleased
  <1> QED
    BY <1>1 DEF CompareHeatPump, release_all, ReleaseCooling, Configure, Releasing

LEMMA ExitPrompt ==
    ASSUME TypeOK, NEW g \in {"evaluate", "configure"}, Others(g), Exit(g),
           ~heat_active', ~clg_active'
    PROVE  PromptInv'
  <1>1. CASE g = "evaluate"
    BY <1>1, BothReleased DEF Exit, Finish, Releasing
  <1>2. CASE g = "configure" /\ round = 1
    <2>1. CompareHeatPump(wanted, FALSE)
      BY <1>2 DEF Exit
    <2> QED
      BY <1>2, <2>1, CompareHeatPumpPrompt
  <1>3. CASE g = "configure" /\ round # 1
    <2>1. Configure(wanted, FALSE)
      BY <1>3 DEF Exit
    <2> QED
      BY <1>3, <2>1, BothReleased DEF Configure, Releasing
  <1> QED
    BY <1>1, <1>2, <1>3

LEMMA ReleaseCoolingPrompt ==
    ASSUME TypeOK, PromptInv, NEW g \in {"evaluate", "configure"}, Others(g),
           ~heat_active', clg_active' = clg_active, stray' = stray,
           ReleaseCooling(g, tracked, round, Exit(g))
    PROVE  PromptInv'
  <1>1. CASE cfg.economizer
    <2>1. Send(g, _set_cooling_stages("released"), "release_clg") /\ Keep(tracked, round)
      BY <1>1 DEF ReleaseCooling
    <2> QED
      BY <2>1, ReleaseBegins DEF Keep, Releasing
  <1>2. CASE ~cfg.economizer
    <2>1. ~clg_active'
      BY <1>2 DEF PromptInv
    <2> QED
      BY <1>2, <2>1, ExitPrompt DEF ReleaseCooling
  <1> QED
    BY <1>1, <1>2

\* release_all from the start, by evaluate or after a changed configuration.
LEMMA ReleaseAllPrompt ==
    ASSUME TypeOK, PromptInv, NEW g \in {"evaluate", "configure"}, Others(g),
           UNCHANGED <<heat_active, clg_active, stray>>,
           NEW r, NEW ACTION exit, release_all(g, tracked, r, exit),
           exit /\ ~heat_active' /\ ~clg_active' => PromptInv'
    PROVE  PromptInv'
  <1>1. CASE cfg.heatpump
    <2>1. Send(g, _set_heating("released"), "release_heat") /\ Keep(tracked, r)
      BY <1>1 DEF release_all
    <2> QED
      BY <2>1, ReleaseBegins DEF Keep, Releasing
  <1>2. CASE ~cfg.heatpump
    <2>1. ~heat_active' /\ ReleaseCooling(g, tracked, r, exit)
      BY <1>2 DEF release_all, PromptInv
    <2>2. CASE cfg.economizer
      <3>1. Send(g, _set_cooling_stages("released"), "release_clg") /\ Keep(tracked, r)
        BY <2>1, <2>2 DEF ReleaseCooling
      <3> QED
        BY <2>1, <3>1, ReleaseBegins DEF Keep, Releasing
    <2>3. CASE ~cfg.economizer
      BY <2>1, <2>3 DEF ReleaseCooling, PromptInv
    <2> QED
      BY <2>2, <2>3
  <1> QED
    BY <1>1, <1>2

LEMMA UpdateConfigurationPrompt ==
    ASSUME TypeOK, PromptInv, Others("configure"),
           NEW c \in Configs \cup {Default}, update_configuration(c)
    PROVE  PromptInv'
  <1>0. UNCHANGED <<heat_active, clg_active, stray>>
    BY DEF update_configuration, flags
  <1>1. CASE c.economizer # cfg.economizer
    <2>1. release_all("configure", tracked, 1, CompareHeatPump(c, FALSE))
      BY <1>1 DEF update_configuration, CompareEconomizer
    <2>2. CompareHeatPump(c, FALSE) /\ ~heat_active' /\ ~clg_active' => PromptInv'
      BY CompareHeatPumpPrompt
    <2> QED
      BY <1>0, <2>1, <2>2, ReleaseAllPrompt
  <1>2. CASE c.economizer = cfg.economizer
    <2>0. CompareHeatPump(c, tracked)
      BY <1>2 DEF update_configuration, CompareEconomizer
    <2>1. CASE c.heatpump # cfg.heatpump
      <3>1. release_all("configure", tracked, 2, Configure(c, FALSE))
        BY <2>0, <2>1 DEF CompareHeatPump
      <3>2. Configure(c, FALSE) /\ ~heat_active' /\ ~clg_active' => PromptInv'
        BY BothReleased DEF Configure, Releasing
      <3> QED
        BY <1>0, <3>1, <3>2, ReleaseAllPrompt
    <2>2. CASE c.heatpump = cfg.heatpump
      <3>1. Configure(c, tracked)
        BY <2>0, <2>2 DEF CompareHeatPump
      <3> QED
        BY <1>0, <1>2, <2>2, <3>1, ReleaseBegins DEF Configure, Releasing
    <2> QED
      BY <2>1, <2>2
  <1> QED
    BY <1>1, <1>2

\* Going on with the cooling lockout: what evaluate may do next.
LEMMA EvaluateCoolingStep ==
    ASSUME TypeOK, Others("evaluate"), NEW t, evaluate_cooling_lockout(t)
    PROVE  /\ \A h \in Greenlets \ {"evaluate"} : step'[h] = "idle"
           /\ step'["evaluate"] \in {"idle", "clg_locked", "clg_freed"}
           /\ step'["evaluate"] = "clg_locked" => cfg.economizer
           /\ step'["evaluate"] = "clg_freed" => clg_active
  <1>1. ASSUME NEW w, NEW s, Send("evaluate", w, s)
        PROVE  /\ \A h \in Greenlets \ {"evaluate"} : step'[h] = "idle"
               /\ step'["evaluate"] = s
    BY <1>1 DEF Send, Others, Idle, TypeOK, Greenlets
  <1> QED
    BY <1>1 DEF evaluate_cooling_lockout, Finish

LEMMA EvaluatePrompt ==
    ASSUME TypeOK, PromptInv, PromptDriver, evaluate
    PROVE  PromptInv'
  <1>0. Others("evaluate") /\ Idle("evaluate")
    BY DEF evaluate, Runnable, Others
  <1>1. UNCHANGED <<heat_active, clg_active, stray>>
    BY DEF evaluate, flags
  <1>2. CASE oat = Invalid
    <2>1. release_all("evaluate", tracked, round, Exit("evaluate"))
      BY <1>2 DEF evaluate
    <2>2. Exit("evaluate") /\ ~heat_active' /\ ~clg_active' => PromptInv'
      BY <1>0, ExitPrompt
    <2> QED
      BY <1>0, <1>1, <2>1, <2>2, ReleaseAllPrompt
  <1>3. CASE oat # Invalid
    <2>0. evaluate_electric_heating_lockout(oat) /\ Keep(tracked, round)
      BY <1>3 DEF evaluate
    <2>1. UNCHANGED <<tracked, cfg>>
      BY <2>0 DEF Keep
    <2>2. CASE oat > cfg.heat_temp /\ ~heat_active
      <3>1. Send("evaluate", _set_heating("off"), "heat_locked")
        BY <2>0, <2>2 DEF evaluate_electric_heating_lockout
      <3>2. /\ \A h \in Greenlets \ {"evaluate"} : step'[h] = "idle"
            /\ step'["evaluate"] = "heat_locked"
        BY <3>1, <1>0 DEF Send, Others, Idle, TypeOK, Greenlets
      <3>3. cfg.heatpump
        <4>1. oat \in Temps /\ cfg \in Configs \cup {Default} /\ oat \in Int
          BY <1>3, LockOutAssumption DEF TypeOK
        <4>2. cfg.heat_temp \in Int
          BY <4>1, LockOutAssumption DEF Configuration
        <4> QED
          BY <4>1, <4>2, <2>2, LockOutAssumption
      <3> QED
        BY <1>1, <2>1, <3>2, <3>3 DEF PromptInv, Idle, Greenlets
    <2>3. CASE /\ ~(oat > cfg.heat_temp /\ ~heat_active)
               /\ heat_active /\ cfg.heat_temp - oat > LOCKOUT_DEADBAND
      <3>1. Send("evaluate", _set_heating("released"), "heat_freed")
        BY <2>0, <2>3 DEF evaluate_electric_heating_lockout
      <3>2. /\ \A h \in Greenlets \ {"evaluate"} : step'[h] = "idle"
            /\ step'["evaluate"] = "heat_freed"
        BY <3>1, <1>0 DEF Send, Others, Idle, TypeOK, Greenlets
      <3> QED
        BY <1>1, <2>1, <2>3, <3>2 DEF PromptInv, Idle, Greenlets
    <2>4. CASE /\ ~(oat > cfg.heat_temp /\ ~heat_active)
               /\ ~(heat_active /\ cfg.heat_temp - oat > LOCKOUT_DEADBAND)
      <3>1. evaluate_cooling_lockout(oat)
        BY <2>0, <2>4 DEF evaluate_electric_heating_lockout
      <3> QED
        BY <1>0, <1>1, <2>1, <3>1, EvaluateCoolingStep DEF PromptInv, Idle, Greenlets
    <2> QED
      BY <2>2, <2>3, <2>4
  <1> QED
    BY <1>2, <1>3

\* Each action keeps it.
LEMMA PromptInvKept ==
    ASSUME PromptDriver, TypeOK, PromptInv, [Next]_vars
    PROVE  PromptInv'
  <1>0. ASSUME NEW g \in Greenlets, ~Idle(g) PROVE Others(g)
    BY <1>0 DEF PromptInv, Others
  <1>1. ASSUME NEW c \in Configs, set_configurations(c) PROVE PromptInv'
    BY <1>1, UpdateConfigurationPrompt DEF set_configurations, Runnable, Others
  <1>2. CASE update_from_config_store
    BY <1>2, UpdateConfigurationPrompt DEF update_from_config_store, Runnable, Others, TypeOK
  <1>3. CASE evaluate
    BY <1>3, EvaluatePrompt
  <1>4. CASE HeatLocked
    <2>1. Others("evaluate") /\ evaluate_cooling_lockout(seen)
      BY <1>4, <1>0 DEF HeatLocked, Returned, Idle, Greenlets
    <2>2. cfg.heatpump /\ heat_active' /\ tracked' /\ (tracked \/ stray => stray')
      BY <1>4 DEF HeatLocked, Returned, start_reinforcing, PromptInv
    <2>3. UNCHANGED <<clg_active, cfg>>
      BY <1>4 DEF HeatLocked, config
    <2> QED
      BY <2>1, <2>2, <2>3, EvaluateCoolingStep DEF PromptInv, Idle, Greenlets
  <1>5. CASE HeatFreed
    <2>1. Others("evaluate") /\ evaluate_cooling_lockout(seen)
      BY <1>5, <1>0 DEF HeatFreed, Returned, Idle, Greenlets
    <2>2. heat_active /\ ~heat_active' /\ stray' = stray
      BY <1>5 DEF HeatFreed, Returned, _cancel_greenlet, PromptInv
    <2>3. UNCHANGED <<clg_active, cfg>>
      BY <1>5 DEF HeatFreed, config
    <2> QED
      BY <2>1, <2>2, <2>3, EvaluateCoolingStep DEF PromptInv, Idle, Greenlets
  <1>6. CASE CoolingLocked
    <2>1. Others("evaluate")
      BY <1>6, <1>0 DEF CoolingLocked, Returned, Idle, Greenlets
    <2>2. \A g \in Greenlets : step'[g] = "idle"
      BY <1>6, <2>1 DEF CoolingLocked, Finish, Send, Others, Idle, TypeOK, Greenlets
    <2>3. cfg.economizer /\ clg_active' /\ tracked' /\ (tracked \/ stray => stray')
      BY <1>6 DEF CoolingLocked, Returned, start_reinforcing, PromptInv
    <2>4. UNCHANGED <<heat_active, cfg>>
      BY <1>6 DEF CoolingLocked, config
    <2> QED
      BY <2>2, <2>3, <2>4 DEF PromptInv, Idle, Greenlets
  <1>7. CASE CoolingFreed
    <2>1. Others("evaluate")
      BY <1>7, <1>0 DEF CoolingFreed, Returned, Idle, Greenlets
    <2>2. \A g \in Greenlets : step'[g] = "idle"
      BY <1>7, <2>1 DEF CoolingFreed, Finish, Send, Others, Idle, TypeOK, Greenlets
    <2>3. clg_active /\ ~clg_active' /\ stray' = stray
      BY <1>7 DEF CoolingFreed, Returned, _cancel_greenlet, PromptInv
    <2>4. UNCHANGED <<heat_active, cfg>>
      BY <1>7 DEF CoolingFreed, config
    <2> QED
      BY <2>2, <2>3, <2>4 DEF PromptInv, Idle, Greenlets
  <1>8. CASE _reinforce_active_lockouts
    <2>1. UNCHANGED <<heat_active, clg_active, cfg, stray>>
      BY <1>8 DEF _reinforce_active_lockouts, flags, config
    <2>2. heat_active \/ clg_active => tracked' = tracked
      BY <1>8 DEF _reinforce_active_lockouts
    <2>3. \A g \in Greenlets \ {"reinforce"} : step'[g] = "idle"
      BY <1>8 DEF _reinforce_active_lockouts, Runnable, Idle, Send, TypeOK, Greenlets
    <2>4. step'["reinforce"] \in {"idle", "reinforced"}
      BY <1>8 DEF _reinforce_active_lockouts, Idle, Send, TypeOK, Greenlets
    <2> QED
      BY <2>1, <2>2, <2>3, <2>4 DEF PromptInv, Idle, Greenlets
  <1>9. CASE Reinforced
    <2>1. Others("reinforce")
      BY <1>9, <1>0 DEF Reinforced, Returned, Idle, Greenlets
    <2>2. \A g \in Greenlets : step'[g] = "idle"
      BY <1>9, <2>1 DEF Reinforced, Finish, Send, Others, Idle, TypeOK, Greenlets
    <2> QED
      BY <1>9, <2>2 DEF Reinforced, PromptInv, Idle, Greenlets, flags, config
  <1>10. ASSUME NEW g \in {"evaluate", "configure"}, release_heating_lockout(g) PROVE PromptInv'
    <2>1. Others(g)
      BY <1>10, <1>0 DEF release_heating_lockout, Returned, Idle, Greenlets
    <2> QED
      BY <1>10, <2>1, ReleaseCoolingPrompt DEF release_heating_lockout
  <1>11. ASSUME NEW g \in {"evaluate", "configure"}, release_cooling_lockout(g) PROVE PromptInv'
    <2>1. Others(g)
      BY <1>11, <1>0 DEF release_cooling_lockout, Returned, Idle, Greenlets
    <2>2. ~heat_active' /\ ~clg_active' /\ Exit(g)
      BY <1>11 DEF release_cooling_lockout, Returned, PromptInv, Greenlets
    <2> QED
      BY <2>1, <2>2, ExitPrompt
  <1>12. ASSUME NEW g \in Greenlets, Driver(g) PROVE PromptInv'
    BY <1>12 DEF Driver, set_point, set_point_fails, PromptInv, Idle, flags, config
  <1>13. CASE Weather
    BY <1>13 DEF Weather, PromptInv, Idle, flags, config
  <1>14. CASE Restart
    BY <1>14 DEF Restart, PromptInv, Idle, Greenlets
  <1>15. CASE config_set
    <2>1. Others("configure")
      BY <1>15, <1>0 DEF config_set, Returned, Idle, Greenlets
    <2>2. \A g \in Greenlets : step'[g] = "idle"
      BY <1>15, <2>1 DEF config_set, Finish, Send, Others, Idle, TypeOK, Greenlets
    <2> QED
      BY <1>15, <2>2 DEF config_set, PromptInv, Idle, Greenlets, flags
  <1>16. CASE UNCHANGED vars
    BY <1>16 DEF vars, PromptInv, Idle, flags, config
  <1> QED
    BY <1>1, <1>2, <1>3, <1>4, <1>5, <1>6, <1>7, <1>8, <1>9, <1>10, <1>11, <1>12, <1>13,
       <1>14, <1>15, <1>16 DEF Next, Evaluate, Reinforce, Release

LEMMA PromptInvariant ==
    ASSUME PromptDriver
    PROVE  Spec => [](TypeOK /\ PromptInv)
  <1>1. Init => PromptInv
    BY LockOutAssumption DEF Init, PromptInv, Idle, Greenlets
  <1>2. TypeOK /\ PromptInv /\ [Next]_vars => PromptInv'
    BY PromptInvKept
  <1> QED
    BY <1>1, <1>2, TypeCorrect, PTL DEF Spec

\* With prompt answers no lockout outlives the equipment it is for, whatever
\* configurations are pushed or delivered by the config store.
THEOREM LockoutsHaveEquipment ==
    ASSUME PromptDriver
    PROVE  Spec => []LockoutHasEquipment
  <1>1. Spec => []PromptInv
    BY PromptInvariant, PTL
  <1>2. PromptInv => LockoutHasEquipment
    BY DEF PromptInv, LockoutHasEquipment
  <1> QED
    BY <1>1, <1>2, PTL

\* With prompt answers an active lockout always has a periodic that reinforces
\* it, although _cancel_greenlet stops only the one that is tracked.
THEOREM LockoutsReinforced ==
    ASSUME PromptDriver
    PROVE  Spec => []ReinforcedWhileActive
  <1>1. Spec => []PromptInv
    BY PromptInvariant, PTL
  <1>2. PromptInv => ReinforcedWhileActive
    BY DEF PromptInv, ReinforcedWhileActive
  <1> QED
    BY <1>1, <1>2, PTL

-----------------------------------------------------------------------------
(* What the device shows while writes are on their way.  Without a lost     *)
(* write or a restart the points follow the flags except those that the one *)
(* greenlet which is not idle is about to change the flag of.               *)

HeatSteps    == {"heat_locked", "heat_freed", "release_heat"}
CoolingSteps == {"clg_locked", "clg_freed", "release_clg"}

HeatFollows    == device[AuxHeat] = IF heat_active THEN "off" ELSE "released"
CoolingFollows == \A i \in 1..2 :
                     device[Stages[i]] = IF clg_active THEN "off" ELSE "released"

\* The writes of _set_heating(v), or what is left of them, bring the point to v.
HeatWritten(g, v) ==
    \/ todo[g] = _set_heating(v)
    \/ todo[g] = <<>> /\ device[AuxHeat] = v

\* The same of _set_cooling_stages(v), which writes one stage after the other.
CoolingWritten(g, v) ==
    \/ todo[g] = _set_cooling_stages(v)
    \/ todo[g] = <<_control_fn(Stages[2], v)>> /\ device[Stages[1]] = v
    \/ todo[g] = <<>> /\ device[Stages[1]] = v /\ device[Stages[2]] = v

WritesFitStep(g) ==
    /\ step[g] \in {"idle", "configured"} => todo[g] = <<>>
    /\ step[g] = "heat_locked" => HeatWritten(g, "off")
    /\ step[g] \in {"heat_freed", "release_heat"} => HeatWritten(g, "released")
    /\ step[g] = "clg_locked" => CoolingWritten(g, "off")
    /\ step[g] \in {"clg_freed", "release_clg"} => CoolingWritten(g, "released")
    /\ step[g] = "reinforced" => \/ heat_active /\ HeatWritten(g, "off")
                                 \/ clg_active /\ CoolingWritten(g, "off")

Carried ==
    /\ (\A g \in Greenlets : step[g] \notin HeatSteps) => HeatFollows
    /\ (\A g \in Greenlets : step[g] \notin CoolingSteps) => CoolingFollows
    /\ \A g \in Greenlets : WritesFitStep(g)

Undisturbed == faults = 0 /\ restarts = 0

WriteInv == Undisturbed => Carried

\* The writes that go with a step when it begins.
Begins(s, w) ==
    \/ s \in {"idle", "configured"} /\ w = <<>>
    \/ s = "heat_locked" /\ w = _set_heating("off")
    \/ s \in {"heat_freed", "release_heat"} /\ w = _set_heating("released")
    \/ s = "clg_locked" /\ w = _set_cooling_stages("off")
    \/ s \in {"clg_freed", "release_clg"} /\ w = _set_cooling_stages("released")

Starts(g) == \E s \in Step, w \in Seq(Write) : Begins(s, w) /\ Send(g, w, s)

\* The names of the points differ, so a write to one leaves the others alone.
LEMMA PointsDiffer ==
    /\ AuxHeat \in PointName /\ Stages[1] \in PointName /\ Stages[2] \in PointName
    /\ AuxHeat # Stages[1] /\ AuxHeat # Stages[2] /\ Stages[1] # Stages[2]
  BY DEF PointName, AuxHeat, Stages

\* What follows release_all, and what evaluate goes on with, starts some writes.
LEMMA SomethingStarts ==
    /\ \A g \in Greenlets : Finish(g) => Starts(g)
    /\ \A c, t : CompareHeatPump(c, t) \/ Configure(c, t) \/ CompareEconomizer(c)
                    => Starts("configure")
    /\ \A g \in {"evaluate", "configure"} :
          \/ Exit(g) \/ ReleaseCooling(g, tracked, round, Exit(g))
          \/ release_all(g, tracked, round, Exit(g))
          => Starts(g)
    /\ \A t : evaluate_cooling_lockout(t) \/ evaluate_electric_heating_lockout(t)
                 => Starts("evaluate")
  <1>1. /\ \A g : Send(g, <<>>, "idle") => Starts(g)
        /\ \A g : Send(g, <<>>, "configured") => Starts(g)
        /\ \A g : Send(g, _set_heating("off"), "heat_locked") => Starts(g)
        /\ \A g : Send(g, _set_cooling_stages("off"), "clg_locked") => Starts(g)
    BY WritesType DEF Starts, Begins, Step, Value
  <1>2. \A g : \/ Send(g, _set_heating("released"), "heat_freed")
               \/ Send(g, _set_heating("released"), "release_heat")
               \/ Send(g, _set_cooling_stages("released"), "clg_freed")
               \/ Send(g, _set_cooling_stages("released"), "release_clg")
               => Starts(g)
    BY WritesType DEF Starts, Begins, Step, Value
  <1>3. \A g : Finish(g) => Starts(g)
    BY <1>1 DEF Finish
  <1>4. \A c, t : Configure(c, t) => Starts("configure")
    BY <1>1 DEF Configure
  <1>5. \A c, t : CompareHeatPump(c, t) => Starts("configure")
    BY <1>2, <1>4 DEF CompareHeatPump, release_all, ReleaseCooling
  <1>6. \A c : CompareEconomizer(c) => Starts("configure")
    BY <1>2, <1>5 DEF CompareEconomizer, release_all, ReleaseCooling
  <1>7. \A g \in {"evaluate", "configure"} : Exit(g) => Starts(g)
    BY <1>3, <1>4, <1>5 DEF Exit
  <1>8. \A g \in {"evaluate", "configure"} :
           \/ ReleaseCooling(g, tracked, round, Exit(g))
           \/ release_all(g, tracked, round, Exit(g))
           => Starts(g)
    BY <1>2, <1>7 DEF release_all, ReleaseCooling
  <1>9. \A t : evaluate_cooling_lockout(t) => Starts("evaluate")
    BY <1>1, <1>2, <1>3 DEF evaluate_cooling_lockout
  <1>10. \A t : evaluate_electric_heating_lockout(t) => Starts("evaluate")
    BY <1>1, <1>2, <1>9 DEF evaluate_electric_heating_lockout
  <1> QED
    BY <1>3, <1>4, <1>5, <1>6, <1>7, <1>8, <1>9, <1>10

\* When the other greenlets are idle and the points follow the flags, whatever
\* a greenlet starts keeps it.
LEMMA StartCarried ==
    ASSUME TypeOK, NEW g \in Greenlets, Others(g),
           \A h \in Greenlets \ {g} : WritesFitStep(h),
           Starts(g), HeatFollows', CoolingFollows'
    PROVE  Carried'
  <1>1. PICK s \in Step, w \in Seq(Write) : Begins(s, w) /\ Send(g, w, s)
    BY DEF Starts
  <1>2. step'[g] = s /\ todo'[g] = w
    BY <1>1 DEF Send, TypeOK
  <1>3. \A h \in Greenlets \ {g} : step'[h] = "idle" /\ todo'[h] = <<>>
    BY <1>1 DEF Send, Others, Idle, WritesFitStep, TypeOK
  <1>4. WritesFitStep(g)'
    BY <1>1, <1>2 DEF WritesFitStep, Begins, HeatWritten, CoolingWritten
  <1>5. \A h \in Greenlets \ {g} : WritesFitStep(h)'
    BY <1>3 DEF WritesFitStep
  <1> QED
    BY <1>4, <1>5 DEF Carried

\* The first write of a greenlet goes through and is no longer to be done.
LEMMA WriteGoesThrough ==
    ASSUME TypeOK, NEW g \in Greenlets, set_point(g),
           NEW p, NEW v, Head(todo[g]) = _control_fn(p, v)
    PROVE  device' = [device EXCEPT ![p] = v] /\ todo'[g] = Tail(todo[g])
  <1>1. device' = [device EXCEPT ![_control_fn(p, v).point] = _control_fn(p, v).value]
    BY DEF set_point
  <1>2. _control_fn(p, v).point = p /\ _control_fn(p, v).value = v
    BY DEF _control_fn
  <1>3. todo'[g] = Tail(todo[g])
    BY DEF set_point, NextWrite, TypeOK
  <1> QED
    BY <1>1, <1>2, <1>3

\* A write of _set_heating(v) goes through.
LEMMA HeatWrite ==
    ASSUME TypeOK, NEW g \in Greenlets, NEW v \in Value, HeatWritten(g, v), set_point(g)
    PROVE  /\ HeatWritten(g, v)'
           /\ device' = [device EXCEPT ![AuxHeat] = v]
  <1>1. todo[g] = <<_control_fn(AuxHeat, v)>>
    BY DEF HeatWritten, _set_heating, set_point
  <1>2. device' = [device EXCEPT ![AuxHeat] = v] /\ todo'[g] = <<>>
    <2>1. Head(todo[g]) = _control_fn(AuxHeat, v) /\ Tail(todo[g]) = <<>>
      BY <1>1
    <2> QED
      BY <2>1, WriteGoesThrough
  <1>3. device'[AuxHeat] = v
    BY <1>2, PointsDiffer DEF TypeOK
  <1> QED
    BY <1>2, <1>3 DEF HeatWritten

\* A write of _set_cooling_stages(v) goes through.
LEMMA CoolingWrite ==
    ASSUME TypeOK, NEW g \in Greenlets, NEW v \in Value, CoolingWritten(g, v), set_point(g)
    PROVE  /\ CoolingWritten(g, v)'
           /\ \E i \in 1..2 : device' = [device EXCEPT ![Stages[i]] = v]
  <1>1. CASE todo[g] = _set_cooling_stages(v)
    <2>1. Head(todo[g]) = _control_fn(Stages[1], v) /\ Tail(todo[g]) = <<_control_fn(Stages[2], v)>>
      BY <1>1 DEF _set_cooling_stages
    <2>2. device' = [device EXCEPT ![Stages[1]] = v] /\ todo'[g] = <<_control_fn(Stages[2], v)>>
      BY <2>1, WriteGoesThrough
    <2>3. device'[Stages[1]] = v
      BY <2>2, PointsDiffer DEF TypeOK
    <2> QED
      BY <2>2, <2>3 DEF CoolingWritten
  <1>2. CASE todo[g] = <<_control_fn(Stages[2], v)>> /\ device[Stages[1]] = v
    <2>1. device' = [device EXCEPT ![Stages[2]] = v] /\ todo'[g] = <<>>
      <3>1. Head(todo[g]) = _control_fn(Stages[2], v) /\ Tail(todo[g]) = <<>>
        BY <1>2
      <3> QED
        BY <3>1, WriteGoesThrough
    <2>2. device'[Stages[1]] = v /\ device'[Stages[2]] = v
      BY <1>2, <2>1, PointsDiffer DEF TypeOK
    <2> QED
      BY <2>1, <2>2 DEF CoolingWritten
  <1> QED
    BY <1>1, <1>2 DEF CoolingWritten, set_point

\* A write that goes through is one the greenlet's step asks for.
LEMMA DriverCarried ==
    ASSUME TypeOK, PromptInv, Carried, NEW g \in Greenlets, set_point(g)
    PROVE  Carried'
  <1>0. UNCHANGED <<step, heat_active, clg_active>>
    BY DEF set_point, flags
  <1>1. WritesFitStep(g) /\ todo[g] # <<>>
    BY DEF Carried, set_point
  <1>2. Others(g)
    BY <1>1 DEF WritesFitStep, Idle, PromptInv, Others
  <1>3. \A h \in Greenlets \ {g} : WritesFitStep(h)'
    <2>1. \A h \in Greenlets \ {g} : step[h] = "idle" /\ todo[h] = <<>>
      BY <1>2 DEF Others, Idle, Carried, WritesFitStep
    <2>2. \A h \in Greenlets \ {g} : todo'[h] = <<>>
      BY <2>1 DEF set_point, NextWrite, TypeOK
    <2> QED
      BY <1>0, <2>1, <2>2 DEF WritesFitStep
  <1>4. ASSUME NEW v \in Value, HeatWritten(g, v), step[g] \in HeatSteps,
               HeatWritten(g, v)' => WritesFitStep(g)'
        PROVE  Carried'
    <2>1. HeatWritten(g, v)' /\ device' = [device EXCEPT ![AuxHeat] = v]
      BY <1>4, HeatWrite
    <2>2. \A i \in 1..2 : device'[Stages[i]] = device[Stages[i]]
      BY <2>1, PointsDiffer DEF TypeOK
    <2>3. CoolingFollows'
      <3>1. \A h \in Greenlets : step[h] \notin CoolingSteps
        BY <1>2, <1>4 DEF Others, Idle, HeatSteps, CoolingSteps
      <3> QED
        BY <1>0, <2>2, <3>1 DEF Carried, CoolingFollows
    <2> QED
      BY <1>0, <1>3, <1>4, <2>1, <2>3 DEF Carried
  <1>5. ASSUME NEW v \in Value, CoolingWritten(g, v), step[g] \in CoolingSteps,
               CoolingWritten(g, v)' => WritesFitStep(g)'
        PROVE  Carried'
    <2>1. CoolingWritten(g, v)' /\ \E i \in 1..2 : device' = [device EXCEPT ![Stages[i]] = v]
      BY <1>5, CoolingWrite
    <2>2. device'[AuxHeat] = device[AuxHeat]
      BY <2>1, PointsDiffer DEF TypeOK
    <2>3. HeatFollows'
      <3>1. \A h \in Greenlets : step[h] \notin HeatSteps
        BY <1>2, <1>5 DEF Others, Idle, HeatSteps, CoolingSteps
      <3> QED
        BY <1>0, <2>2, <3>1 DEF Carried, HeatFollows
    <2> QED
      BY <1>0, <1>3, <1>5, <2>1, <2>3 DEF Carried
  <1>6. CASE step[g] = "heat_locked"
    <2>1. "off" \in Value /\ HeatWritten(g, "off") /\ step[g] \in HeatSteps
      BY <1>1, <1>6 DEF WritesFitStep, HeatSteps, Value
    <2>2. HeatWritten(g, "off")' => WritesFitStep(g)'
      BY <1>0, <1>6 DEF WritesFitStep
    <2> QED
      BY <1>4, <2>1, <2>2
  <1>7. CASE step[g] \in {"heat_freed", "release_heat"}
    <2>1. "released" \in Value /\ HeatWritten(g, "released") /\ step[g] \in HeatSteps
      BY <1>1, <1>7 DEF WritesFitStep, HeatSteps, Value
    <2>2. HeatWritten(g, "released")' => WritesFitStep(g)'
      BY <1>0, <1>7 DEF WritesFitStep
    <2> QED
      BY <1>4, <2>1, <2>2
  <1>8. CASE step[g] = "clg_locked"
    <2>1. "off" \in Value /\ CoolingWritten(g, "off") /\ step[g] \in CoolingSteps
      BY <1>1, <1>8 DEF WritesFitStep, CoolingSteps, Value
    <2>2. CoolingWritten(g, "off")' => WritesFitStep(g)'
      BY <1>0, <1>8 DEF WritesFitStep
    <2> QED
      BY <1>5, <2>1, <2>2
  <1>9. CASE step[g] \in {"clg_freed", "release_clg"}
    <2>1. "released" \in Value /\ CoolingWritten(g, "released") /\ step[g] \in CoolingSteps
      BY <1>1, <1>9 DEF WritesFitStep, CoolingSteps, Value
    <2>2. CoolingWritten(g, "released")' => WritesFitStep(g)'
      BY <1>0, <1>9 DEF WritesFitStep
    <2> QED
      BY <1>5, <2>1, <2>2
  <1>10. CASE step[g] = "reinforced"
    <2>0. HeatFollows /\ CoolingFollows
      BY <1>2, <1>10 DEF Carried, Others, Idle, HeatSteps, CoolingSteps
    <2>1. CASE heat_active /\ HeatWritten(g, "off")
      <3>1. HeatWritten(g, "off")' /\ device' = [device EXCEPT ![AuxHeat] = "off"]
        BY <2>1, HeatWrite DEF Value
      <3>2. HeatFollows' /\ CoolingFollows'
        BY <1>0, <2>0, <2>1, <3>1, PointsDiffer DEF HeatFollows, CoolingFollows, TypeOK
      <3>3. WritesFitStep(g)'
        BY <1>0, <1>10, <2>1, <3>1 DEF WritesFitStep
      <3> QED
        BY <1>3, <3>2, <3>3 DEF Carried
    <2>2. CASE clg_active /\ CoolingWritten(g, "off")
      <3>1. PICK i \in 1..2 : device' = [device EXCEPT ![Stages[i]] = "off"]
        BY <2>2, CoolingWrite DEF Value
      <3>2. HeatFollows' /\ CoolingFollows'
        BY <1>0, <2>0, <2>2, <3>1, PointsDiffer DEF HeatFollows, CoolingFollows, TypeOK
      <3>3. CoolingWritten(g, "off")'
        BY <2>2, CoolingWrite DEF Value
      <3>4. WritesFitStep(g)'
        BY <1>0, <1>10, <2>2, <3>3 DEF WritesFitStep
      <3> QED
        BY <1>3, <3>2, <3>4 DEF Carried
    <2> QED
      BY <1>1, <1>10, <2>1, <2>2 DEF WritesFitStep
  <1>11. step[g] \in {"heat_locked", "heat_freed", "release_heat", "clg_locked", "clg_freed",
                      "release_clg", "reinforced"}
    BY <1>1 DEF WritesFitStep, TypeOK, Step
  <1> QED
    BY <1>6, <1>7, <1>8, <1>9, <1>10, <1>11

\* Each action keeps it.
LEMMA CarriedKept ==
    ASSUME PromptDriver, TypeOK, PromptInv, [Next]_vars, Carried, Undisturbed'
    PROVE  Carried'
  <1>0. \A g \in Greenlets : WritesFitStep(g)
    BY DEF Carried
  <1>1. ASSUME NEW g \in {"evaluate", "configure"}, Runnable, Idle(g), Starts(g),
               UNCHANGED <<device, flags>>
        PROVE  Carried'
    <2>1. Others(g) /\ HeatFollows /\ CoolingFollows
      BY <1>1 DEF Runnable, Others, Idle, Carried, HeatSteps, CoolingSteps
    <2>2. HeatFollows' /\ CoolingFollows'
      BY <1>1, <2>1 DEF HeatFollows, CoolingFollows, flags
    <2> QED
      BY <1>0, <1>1, <2>1, <2>2, StartCarried DEF Greenlets
  <1>2. ASSUME NEW g \in Greenlets, ~Idle(g)
        PROVE  /\ Others(g)
               /\ step[g] \notin HeatSteps => HeatFollows
               /\ step[g] \notin CoolingSteps => CoolingFollows
    <2>1. Others(g)
      BY <1>2 DEF PromptInv, Others
    <2> QED
      BY <2>1 DEF Others, Idle, Carried, HeatSteps, CoolingSteps
  <1>3. ASSUME NEW c \in Configs, set_configurations(c) PROVE Carried'
    BY <1>1, <1>3, SomethingStarts DEF set_configurations, update_configuration
  <1>4. CASE update_from_config_store
    BY <1>1, <1>4, SomethingStarts DEF update_from_config_store, update_configuration
  <1>5. CASE evaluate
    BY <1>1, <1>5, SomethingStarts DEF evaluate
  <1>6. CASE HeatLocked \/ HeatFreed
    <2>1. Others("evaluate") /\ CoolingFollows
      BY <1>2, <1>6 DEF HeatLocked, HeatFreed, Returned, Idle, Greenlets, CoolingSteps
    <2>2. CoolingFollows'
      BY <1>6, <2>1 DEF HeatLocked, HeatFreed, CoolingFollows
    <2>3. /\ HeatLocked => device[AuxHeat] = "off"
          /\ HeatFreed => device[AuxHeat] = "released"
      BY <1>0 DEF HeatLocked, HeatFreed, Returned, WritesFitStep, HeatWritten, _set_heating,
                  Greenlets
    <2>4. HeatFollows'
      BY <1>6, <2>3 DEF HeatLocked, HeatFreed, HeatFollows
    <2>5. Starts("evaluate")
      BY <1>6, SomethingStarts DEF HeatLocked, HeatFreed
    <2> QED
      BY <1>0, <2>1, <2>2, <2>4, <2>5, StartCarried DEF Greenlets
  <1>7. CASE CoolingLocked \/ CoolingFreed
    <2>1. Others("evaluate") /\ HeatFollows
      BY <1>2, <1>7 DEF CoolingLocked, CoolingFreed, Returned, Idle, Greenlets, HeatSteps
    <2>2. HeatFollows'
      BY <1>7, <2>1 DEF CoolingLocked, CoolingFreed, HeatFollows
    <2>3. /\ CoolingLocked => \A i \in 1..2 : device[Stages[i]] = "off"
          /\ CoolingFreed => \A i \in 1..2 : device[Stages[i]] = "released"
      BY <1>0 DEF CoolingLocked, CoolingFreed, Returned, WritesFitStep, CoolingWritten,
                  _set_cooling_stages, Greenlets
    <2>4. CoolingFollows'
      BY <1>7, <2>3 DEF CoolingLocked, CoolingFreed, CoolingFollows
    <2>5. Starts("evaluate")
      BY <1>7, SomethingStarts DEF CoolingLocked, CoolingFreed, Greenlets
    <2> QED
      BY <1>0, <2>1, <2>2, <2>4, <2>5, StartCarried DEF Greenlets
  <1>8. ASSUME NEW g \in {"evaluate", "configure"}, release_heating_lockout(g) PROVE Carried'
    <2>1. g \in Greenlets /\ Others(g) /\ CoolingFollows
      BY <1>2, <1>8 DEF release_heating_lockout, Returned, Idle, Greenlets, CoolingSteps
    <2>2. CoolingFollows'
      BY <1>8, <2>1 DEF release_heating_lockout, CoolingFollows
    <2>3. device[AuxHeat] = "released"
      BY <1>0, <1>8, <2>1 DEF release_heating_lockout, Returned, WritesFitStep, HeatWritten,
                              _set_heating
    <2>4. HeatFollows'
      BY <1>8, <2>3 DEF release_heating_lockout, HeatFollows
    <2>5. Starts(g)
      BY <1>8, SomethingStarts DEF release_heating_lockout
    <2> QED
      BY <1>0, <2>1, <2>2, <2>4, <2>5, StartCarried
  <1>9. ASSUME NEW g \in {"evaluate", "configure"}, release_cooling_lockout(g) PROVE Carried'
    <2>1. g \in Greenlets /\ Others(g) /\ HeatFollows
      BY <1>2, <1>9 DEF release_cooling_lockout, Returned, Idle, Greenlets, HeatSteps
    <2>2. HeatFollows'
      BY <1>9, <2>1 DEF release_cooling_lockout, HeatFollows
    <2>3. \A i \in 1..2 : device[Stages[i]] = "released"
      <3>1. CoolingWritten(g, "released") /\ todo[g] = <<>>
        BY <1>0, <1>9, <2>1 DEF release_cooling_lockout, Returned, WritesFitStep
      <3> QED
        BY <3>1 DEF CoolingWritten, _set_cooling_stages
    <2>4. CoolingFollows'
      BY <1>9, <2>3 DEF release_cooling_lockout, CoolingFollows
    <2>5. Starts(g)
      BY <1>9, SomethingStarts DEF release_cooling_lockout
    <2> QED
      BY <1>0, <2>1, <2>2, <2>4, <2>5, StartCarried
  <1>10. ASSUME NEW g \in {"configure", "reinforce"}, Finish(g), UNCHANGED <<device, flags>>,
                step[g] \in {"configured", "reinforced"}
         PROVE  Carried'
    <2>1. g \in Greenlets /\ Others(g) /\ HeatFollows /\ CoolingFollows
      BY <1>2, <1>10 DEF Idle, Greenlets, HeatSteps, CoolingSteps
    <2>2. HeatFollows' /\ CoolingFollows'
      BY <1>10, <2>1 DEF HeatFollows, CoolingFollows, flags
    <2> QED
      BY <1>0, <1>10, <2>1, <2>2, SomethingStarts, StartCarried
  <1>11. CASE config_set
    BY <1>10, <1>11 DEF config_set, Returned
  <1>12. CASE Reinforced
    BY <1>10, <1>12 DEF Reinforced, Returned
  <1>13. CASE _reinforce_active_lockouts
    <2>1. /\ \A g \in Greenlets : step[g] = "idle"
          /\ UNCHANGED <<device, heat_active, clg_active>>
      BY <1>13 DEF _reinforce_active_lockouts, Runnable, Idle, flags
    <2>2. HeatFollows /\ CoolingFollows
      BY <2>1 DEF Carried, HeatSteps, CoolingSteps
    <2>3. HeatFollows' /\ CoolingFollows'
      BY <2>1, <2>2 DEF HeatFollows, CoolingFollows
    <2>4. \A g \in Greenlets \ {"reinforce"} : step'[g] = "idle" /\ todo'[g] = <<>>
      BY <1>0, <1>13, <2>1 DEF _reinforce_active_lockouts, Send, WritesFitStep, TypeOK
    <2>5. \/ step'["reinforce"] = "idle" /\ todo'["reinforce"] = <<>>
          \/ step'["reinforce"] = "reinforced" /\ todo'["reinforce"] = _set_heating("off")
             /\ heat_active
          \/ step'["reinforce"] = "reinforced" /\ todo'["reinforce"] = _set_cooling_stages("off")
             /\ clg_active
      BY <1>0, <1>13, <2>1 DEF _reinforce_active_lockouts, Send, WritesFitStep, TypeOK, Greenlets
    <2>6. WritesFitStep("reinforce")'
      BY <2>1, <2>5 DEF WritesFitStep, HeatWritten, CoolingWritten
    <2>7. \A g \in Greenlets \ {"reinforce"} : WritesFitStep(g)'
      BY <2>4 DEF WritesFitStep
    <2> QED
      BY <2>3, <2>6, <2>7 DEF Carried
  <1>14. ASSUME NEW g \in Greenlets, Driver(g) PROVE Carried'
    <2>1. ~set_point_fails(g)
      <3>1. faults \in Nat
        BY LockOutAssumption DEF TypeOK
      <3> QED
        BY <3>1 DEF set_point_fails, Undisturbed
    <2> QED
      BY <1>14, <2>1, DriverCarried DEF Driver
  <1>15. CASE Weather \/ UNCHANGED vars
    BY <1>15 DEF Weather, vars, flags, Carried, HeatFollows, CoolingFollows, WritesFitStep,
                 HeatWritten, CoolingWritten
  <1>16. ~Restart
    <2>1. restarts \in Nat
      BY LockOutAssumption DEF TypeOK
    <2> QED
      BY <2>1 DEF Restart, Undisturbed
  <1> QED
    BY <1>3, <1>4, <1>5, <1>6, <1>7, <1>8, <1>9, <1>11, <1>12, <1>13, <1>14, <1>15, <1>16
    DEF Next, Evaluate, Reinforce, Release

\* Nothing makes a lost write or a restart undone.
LEMMA DisturbanceStays ==
    ASSUME TypeOK, [Next]_vars, Undisturbed'
    PROVE  Undisturbed
  <1>1. faults \in Nat /\ restarts \in Nat
    BY LockOutAssumption DEF TypeOK
  <1>2. /\ faults' = faults \/ faults' = faults + 1
        /\ restarts' = restarts \/ restarts' = restarts + 1
    BY DEF Next, Evaluate, Reinforce, Release, Driver, vars, bounds, set_configurations,
       config_set, update_from_config_store, evaluate, HeatLocked, HeatFreed, CoolingLocked,
       CoolingFreed, _reinforce_active_lockouts, Reinforced, release_heating_lockout,
       release_cooling_lockout, set_point, set_point_fails, Weather, Restart
  <1> QED
    BY <1>1, <1>2 DEF Undisturbed

\* With prompt answers, no write lost and no restart, the auxiliary heat is
\* overridden exactly while its lockout is active and both compressor stages
\* exactly while theirs is, whenever no greenlet is in the middle of a handler.
THEOREM DeviceFollows ==
    ASSUME PromptDriver
    PROVE  Spec => []DeviceFollowsFlags
  <1>1. Spec => [](TypeOK /\ PromptInv)
    BY PromptInvariant
  <1>2. Init => WriteInv
    BY DEF Init, WriteInv, Carried, WritesFitStep, HeatFollows, CoolingFollows, PointName,
           Greenlets
  <1>3. TypeOK /\ PromptInv /\ WriteInv /\ [Next]_vars => WriteInv'
    BY CarriedKept, DisturbanceStays DEF WriteInv
  <1>4. TypeOK /\ WriteInv => DeviceFollowsFlags
    <2> SUFFICES ASSUME TypeOK, WriteInv, AllIdle, faults = 0 /\ restarts = 0
                 PROVE  /\ device[AuxHeat] = "off" <=> heat_active
                        /\ \A i \in 1..2 : device[Stages[i]] = "off" <=> clg_active
      BY DEF DeviceFollowsFlags
    <2>1. HeatFollows /\ CoolingFollows
      BY DEF WriteInv, Undisturbed, Carried, AllIdle, Idle, HeatSteps, CoolingSteps
    <2> QED
      BY <2>1 DEF HeatFollows, CoolingFollows
  <1> QED
    BY <1>1, <1>2, <1>3, <1>4, PTL DEF Spec

=============================================================================
