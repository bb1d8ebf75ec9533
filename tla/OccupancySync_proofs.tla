----------------------- MODULE OccupancySync_proofs -----------------------
(***************************************************************************)
(* Theorems about OccupancySync, for a day of any length, any schedules,   *)
(* predictions and bounds.                                                 *)
(***************************************************************************)
EXTENDS OccupancySync, TLAPS

Views == Schedules \cup {AlwaysOff}

LEMMA Constants ==
    /\ Day \in Nat /\ Day > 0 /\ Lead \in Time
    /\ MaxPushes \in Nat /\ MaxFaults \in Nat
    /\ \A p \in Predictions : p \in Int
  BY OccupancyAssumption DEF Time

LEMMA ScheduleTimes == \A s \in Views : s.start \in Time /\ s.end \in Time
  <1>1. \A s \in Schedule : s.start \in Time /\ s.end \in Time
    BY Constants DEF Schedule, AlwaysOn, AlwaysOff, Hours, Time
  <1>2. Views \subseteq Schedule
    BY OccupancyAssumption DEF Views, Schedule
  <1> QED BY <1>1, <1>2

LEMMA EarliestTime == \A s \in Views : earliest_start(s) \in Time
  BY ScheduleTimes, Constants DEF earliest_start, Time

LEMMA TimeBetween ==
    ASSUME now \in Time, NEW t \in Int, t <= Day - 1, ~(t < now)
    PROVE  t \in Time
  BY Constants DEF Time

(* An event is never scheduled for a time that is past or of another day.  *)
LEMMA AtTimer ==
    ASSUME now \in Time, NEW t \in Int, t <= Day - 1,
           NEW b \in {"run", "forgotten run", "start", "end", "end_obj", "override"}
    PROVE  At(t, b) \in Timer
  <1>1. CASE t < now
    BY <1>1 DEF At, Timer
  <1>2. CASE ~(t < now)
    BY <1>2, TimeBetween DEF At, Timer
  <1> QED BY <1>1, <1>2

LEMMA NowTimer == TypeOK => At(now, "override") \in Timer
  BY DEF TypeOK, At, Timer

LEMMA RescheduleTimers ==
    ASSUME NEW pending \in SUBSET Timer, NEW kinds, NEW new \in SUBSET Timer,
           Reschedule(pending, kinds, new)
    PROVE  timers' \subseteq Timer
  BY DEF Reschedule

LEMMA ForgottenTimers == timers \subseteq Timer => Forgotten \subseteq Timer
  BY DEF Forgotten, By, Timer

Runners == Greenlets \cup {"run", "forgotten run"}

LEMMA run_method_Timers ==
    ASSUME TypeOK, NEW by \in Runners, NEW pending \in SUBSET Timer, run_method(by, pending)
    PROVE  timers' \subseteq Timer /\ armed' \in BOOLEAN /\ committing' \subseteq Commitment
  <1>1. PICK lead \in Predictions :
           /\ armed' = (now + 1 < schedule.start - lead)
           /\ IF now + 1 < schedule.start - lead
              THEN Reschedule(pending, {"run"}, {At(now + 1, "run")}) /\ UNCHANGED committing
              ELSE /\ Reschedule(pending, {"run"}, {})
                   /\ committing' = committing \cup
                          {[by |-> by, start |-> schedule.start - lead, end |-> schedule.end]}
    BY DEF run_method
  <1>2. /\ lead \in Nat /\ lead <= Lead /\ now \in Time
        /\ schedule.start \in Time /\ schedule.end \in Time /\ schedule.start <= schedule.end
    BY Constants, OccupancyAssumption, ScheduleTimes DEF TypeOK, Views, Time
  <1>3. CASE now + 1 < schedule.start - lead
    <2>1. now + 1 \in Int /\ now + 1 <= Day - 1
      BY <1>2, <1>3, Constants DEF Time
    <2>2. At(now + 1, "run") \in Timer
      BY <1>2, <2>1, AtTimer
    <2> QED BY <1>1, <1>3, <2>2, RescheduleTimers DEF TypeOK
  <1>4. CASE ~(now + 1 < schedule.start - lead)
    <2>1. /\ schedule.start - lead \in (-Lead)..(Day - 1)
          /\ schedule.start - lead <= schedule.end
      BY <1>2, Constants DEF Time
    <2>2. [by |-> by, start |-> schedule.start - lead, end |-> schedule.end] \in Commitment
      BY <1>2, <2>1 DEF Commitment, Runners
    <2>3. timers' \subseteq Timer
      BY <1>1, <1>4, RescheduleTimers
    <2> QED BY <1>1, <1>4, <2>2, <2>3 DEF TypeOK
  <1> QED BY <1>1, <1>3, <1>4

LEMMA CommitmentTimes ==
    \A c \in Commitment :
        /\ c.start \in Int /\ c.start <= Day - 1 /\ c.start <= c.end
        /\ c.end \in Int /\ c.end <= Day - 1
  <1> SUFFICES ASSUME NEW c \in Commitment
               PROVE  /\ c.start \in Int /\ c.start <= Day - 1 /\ c.start <= c.end
                      /\ c.end \in Int /\ c.end <= Day - 1
    OBVIOUS
  <1>1. c.start \in (-Lead)..(Day - 1) /\ c.end \in Time /\ c.start <= c.end
    BY DEF Commitment
  <1> QED BY <1>1, Constants DEF Time

LEMMA TransitionsTimers ==
    ASSUME TypeOK, NEW c \in committing, _schedule_occupancy_transitions(c)
    PROVE  timers' \subseteq Timer
  <1>1. c \in Commitment
    BY DEF TypeOK
  <1>2. At(c.start, "start") \in Timer /\ At(c.end, "end") \in Timer
    BY <1>1, CommitmentTimes, AtTimer DEF TypeOK
  <1> QED BY <1>2, RescheduleTimers DEF _schedule_occupancy_transitions, TypeOK

(* What a greenlet has still to do is a sequence of steps.                 *)
LEMMA DoWithType ==
    ASSUME TypeOK, NEW g \in Greenlets, NEW steps \in Seq(Steps), NEW v \in Views,
           DoWith(g, steps, v)
    PROVE  todo' \in [Greenlets -> Seq(Steps)] /\ view' \in [Greenlets -> Views]
  BY DEF DoWith, TypeOK, Views, Unread

LEMMA DoType ==
    ASSUME TypeOK, NEW g \in Greenlets, NEW steps \in Seq(Steps), Do(g, steps)
    PROVE  todo' \in [Greenlets -> Seq(Steps)] /\ view' \in [Greenlets -> Views]
  BY DoWithType DEF Do, TypeOK, Views

LEMMA RestType ==
    ASSUME TypeOK, NEW g \in Greenlets, Upcoming(g) \in Steps
    PROVE  Rest(g) \in Seq(Steps)
  BY DEF Upcoming, Idle, Rest, TypeOK, Steps, Occupy, Vacate

LEMMA DecideType == \A seen : Decide(seen) \in Seq(Steps)
  <1> SUFFICES ASSUME NEW seen PROVE Decide(seen) \in Seq(Steps)
    OBVIOUS
  <1>1. ASSUME NEW c, NEW x \in Steps PROVE If(c, x) \in Seq(Steps)
    BY DEF If
  <1>2. {"occupied", "unoccupied", "start", "restart", "plan"} \subseteq Steps
    BY DEF Steps, Occupy, Vacate
  <1>3. ASSUME NEW a \in Seq(Steps), NEW b \in Seq(Steps) PROVE a \o b \in Seq(Steps)
    OBVIOUS
  <1>4. <<"plan">> \in Seq(Steps)
    BY <1>2
  <1>5. \A c, d, e, f :
           If(c, "start") \o If(d, "unoccupied") \o If(e, "unoccupied") \o If(f, "restart")
              \o <<"plan">> \in Seq(Steps)
    BY <1>1, <1>2, <1>3, <1>4
  <1> QED BY <1>1, <1>2, <1>5 DEF Decide

-----------------------------------------------------------------------------
LEMMA InitType == Init => TypeOK
  <1> SUFFICES ASSUME Init PROVE TypeOK
    OBVIOUS
  <1>1. now \in Time
    BY Constants DEF Init, Time
  <1>2. pushes \in 0..MaxPushes /\ faults \in 0..MaxFaults
    BY Constants DEF Init
  <1>3. todo \in [Greenlets -> Seq(Steps)] /\ view \in [Greenlets -> Schedules \cup {AlwaysOff}]
    BY DEF Init, Unread
  <1> QED BY <1>1, <1>2, <1>3 DEF Init, TypeOK

(* What is left of the type invariant once the inputs, the timers and what  *)
(* the greenlets do are known to keep their types.                          *)
LEMMA CountsType ==
    ASSUME TypeOK, UNCHANGED counts \/ Fault \/ Pushed
    PROVE  pushes' \in 0..MaxPushes /\ faults' \in 0..MaxFaults
  BY Constants DEF TypeOK, counts, Fault, Pushed

LEMMA set_up_run_Type ==
    ASSUME TypeOK, NEW g \in Greenlets, NEW rest \in Seq(Steps), set_up_run(g, rest)
    PROVE  /\ timers' \subseteq Timer /\ armed' \in BOOLEAN /\ missed' \in BOOLEAN
           /\ todo' \in [Greenlets -> Seq(Steps)] /\ view' \in [Greenlets -> Views]
  <1>1. CASE ~holiday /\ schedule.kind = "hours"
    <2>1. At(earliest_start(schedule), "run") \in Timer
      <3>1. earliest_start(schedule) \in Int /\ earliest_start(schedule) <= Day - 1
        BY EarliestTime, Constants DEF TypeOK, Views, Time
      <3> QED BY <3>1, AtTimer DEF TypeOK
    <2>2. timers' \subseteq Timer
      BY <1>1, <2>1, ForgottenTimers DEF set_up_run, TypeOK
    <2> QED BY <1>1, <2>2, DoType DEF set_up_run
  <1>2. CASE ~(~holiday /\ schedule.kind = "hours")
    <2>1. <<"unoccupied">> \o rest \in Seq(Steps)
      BY DEF Steps, Vacate
    <2>2. (IF holiday THEN <<"unoccupied">> \o rest ELSE rest) \in Seq(Steps)
      BY <2>1
    <2>3. todo' \in [Greenlets -> Seq(Steps)] /\ view' \in [Greenlets -> Views]
      BY <1>2, <2>2, DoType DEF set_up_run
    <2> QED BY <1>2, <2>3 DEF set_up_run, TypeOK
  <1> QED BY <1>1, <1>2

(* The greenlets.                                                          *)
LEMMA ProgressType == ASSUME TypeOK, NEW g \in Greenlets, Progress(g) PROVE TypeOK'
  <1>a. Views = Schedules \cup {AlwaysOff}
    BY DEF Views
  <1>1. CASE ReadFails(g)
    <2>1. todo' \in [Greenlets -> Seq(Steps)] /\ view' \in [Greenlets -> Views]
      BY <1>1, DoType, RestType DEF ReadFails, Steps
    <2> QED BY <1>1, <1>a, <2>1, CountsType DEF ReadFails, TypeOK, inputs
  <1>2. CASE is_system_occupied(g)
    <2>1. Rest(g) \in Seq(Steps)
      BY <1>2, RestType DEF is_system_occupied, Steps
    <2>2. If(device # "occupied", "evaluate") \in Seq(Steps) /\ Decide(device) \in Seq(Steps)
      <3>1. "evaluate" \in Steps
        BY DEF Steps
      <3> QED BY <3>1, DecideType DEF If
    <2>3. (IF lockout THEN If(device # "occupied", "evaluate") ELSE Decide(device)) \o Rest(g)
             \in Seq(Steps)
      BY <2>1, <2>2
    <2>4. todo' \in [Greenlets -> Seq(Steps)] /\ view' \in [Greenlets -> Views]
      BY <1>2, <2>1, <2>3, DoType, DoWithType DEF is_system_occupied, TypeOK, Views
    <2>5. timers' \subseteq Timer
      <3>1. At(now, "override") \in Timer
        BY NowTimer
      <3> QED BY <1>2, <3>1 DEF is_system_occupied, TypeOK
    <2> QED BY <1>2, <1>a, <2>4, <2>5, CountsType DEF is_system_occupied, TypeOK, inputs
  <1>3. CASE change_occupancy(g)
    <2>1. todo' \in [Greenlets -> Seq(Steps)] /\ view' \in [Greenlets -> Views]
      BY <1>3, DoType, RestType DEF change_occupancy, Steps
    <2>2. timers' \subseteq Timer
      <3>1. At(view[g].end, "end_obj") \in Timer
        <4>1. view[g].end \in Int /\ view[g].end <= Day - 1
          BY ScheduleTimes, Constants DEF TypeOK, Time, Views
        <4> QED BY <4>1, AtTimer DEF TypeOK
      <3> QED BY <1>3, <3>1, ForgottenTimers DEF change_occupancy, TypeOK
    <2>3. device' \in {"occupied", "unoccupied", "unknown"} /\ (UNCHANGED counts \/ Fault)
      BY <1>3 DEF change_occupancy, Command, TypeOK
    <2>4. lockout' \in BOOLEAN /\ armed' \in BOOLEAN
      BY <1>3 DEF change_occupancy
    <2> QED BY <1>3, <1>a, <2>1, <2>2, <2>3, <2>4, CountsType DEF change_occupancy, TypeOK, inputs
  <1>4. CASE Plan(g)
    <2>1. Rest(g) \in Seq(Steps)
      BY <1>4, RestType DEF Plan, Steps
    <2>2. \/ set_up_run(g, Rest(g)) /\ UNCHANGED committing
          \/ run_method(g, timers) /\ Do(g, Rest(g)) /\ UNCHANGED missed
          \/ Do(g, Rest(g)) /\ UNCHANGED <<timers, armed, committing, missed>>
      BY <1>4 DEF Plan
    <2>3. /\ timers' \subseteq Timer /\ armed' \in BOOLEAN /\ missed' \in BOOLEAN
          /\ committing' \subseteq Commitment
          /\ todo' \in [Greenlets -> Seq(Steps)] /\ view' \in [Greenlets -> Views]
      <3>1. CASE set_up_run(g, Rest(g)) /\ UNCHANGED committing
        BY <2>1, <3>1, set_up_run_Type DEF TypeOK
      <3>2. CASE run_method(g, timers) /\ Do(g, Rest(g)) /\ UNCHANGED missed
        BY <2>1, <3>2, run_method_Timers, DoType DEF TypeOK, Runners
      <3>3. CASE Do(g, Rest(g)) /\ UNCHANGED <<timers, armed, committing, missed>>
        BY <2>1, <3>3, DoType DEF TypeOK
      <3> QED BY <2>2, <3>1, <3>2, <3>3
    <2> QED BY <1>4, <1>a, <2>3, CountsType DEF Plan, TypeOK, inputs
  <1>5. CASE evaluate_optimal_start_lockout(g)
    <2>1. Rest(g) \in Seq(Steps)
      BY <1>5, RestType DEF evaluate_optimal_start_lockout, Steps
    <2>2. (IF cold THEN <<"lock">> ELSE If(lockout, "read")) \in Seq(Steps)
      <3>1. "lock" \in Steps /\ "read" \in Steps
        BY DEF Steps, Occupy
      <3> QED BY <3>1 DEF If
    <2>3. (IF cold THEN <<"lock">> ELSE If(lockout, "read")) \o Rest(g) \in Seq(Steps)
      BY <2>1, <2>2
    <2>4. todo' \in [Greenlets -> Seq(Steps)] /\ view' \in [Greenlets -> Views]
      BY <1>5, <2>3, DoType DEF evaluate_optimal_start_lockout
    <2> QED BY <1>5, <1>a, <2>4, CountsType DEF evaluate_optimal_start_lockout, TypeOK, inputs
  <1> QED BY <1>1, <1>2, <1>3, <1>4, <1>5 DEF Progress

(* The type invariant is inductive.                                        *)
LEMMA StepType == TypeOK /\ [Next]_vars => TypeOK'
  <1> SUFFICES ASSUME TypeOK, [Next]_vars PROVE TypeOK'
    OBVIOUS
  <1>a. Views = Schedules \cup {AlwaysOff}
    BY DEF Views
  <1>1. CASE Periodic \/ Hourly
    <2>1. <<"read">> \in Seq(Steps) /\ <<"evaluate">> \in Seq(Steps)
      BY DEF Steps
    <2>2. todo' \in [Greenlets -> Seq(Steps)] /\ view' \in [Greenlets -> Views]
      BY <1>1, <2>1, DoType DEF Periodic, Hourly, Greenlets
    <2> QED BY <1>1, <1>a, <2>2, CountsType DEF Periodic, Hourly, TypeOK, inputs
  <1>2. CASE Midnight
    <2>1. /\ timers' \subseteq Timer /\ armed' \in BOOLEAN /\ missed' \in BOOLEAN
          /\ todo' \in [Greenlets -> Seq(Steps)] /\ view' \in [Greenlets -> Views]
      <3>1. "midnight" \in Greenlets /\ <<>> \in Seq(Steps)
        BY DEF Greenlets
      <3> QED BY <1>2, <3>1, set_up_run_Type DEF Midnight
    <2> QED BY <1>2, <1>a, <2>1, CountsType DEF Midnight, TypeOK, inputs
  <1>3. ASSUME NEW g \in Greenlets, Progress(g) PROVE TypeOK'
    BY <1>3, ProgressType
  <1>4. ASSUME NEW e \in timers, FireRun(e) PROVE TypeOK'
    <2>1. timers \ {e} \subseteq Timer
      BY DEF TypeOK
    <2>2. /\ timers' \subseteq Timer /\ armed' \in BOOLEAN /\ missed' \in BOOLEAN
          /\ committing' \subseteq Commitment
      <3>1. e.by \in Runners
        BY <1>4 DEF FireRun, Runners
      <3> QED BY <1>4, <2>1, <3>1, run_method_Timers DEF FireRun, TypeOK
    <2> QED BY <1>4, <2>2, CountsType DEF FireRun, TypeOK, inputs
  <1>5. ASSUME NEW e \in timers, FireCommand(e) PROVE TypeOK'
    <2>1. device' \in {"occupied", "unoccupied", "unknown"} /\ (UNCHANGED counts \/ Fault)
      BY <1>5 DEF FireCommand, Command, TypeOK
    <2> QED BY <1>5, <2>1, CountsType DEF FireCommand, TypeOK, inputs
  <1>6. CASE OverrideEnds
    <2>1. device' \in {"occupied", "unoccupied", "unknown"} /\ (UNCHANGED counts \/ Fault)
      BY <1>6 DEF OverrideEnds, Command, TypeOK
    <2> QED BY <1>6, <2>1, CountsType DEF OverrideEnds, TypeOK, inputs
  <1>7. CASE load_override
    <2>1. PICK at \in now..(Day - 1) : timers' = timers \cup {At(at, "override")}
      BY <1>7 DEF load_override
    <2>2. At(at, "override") \in Timer
      <3>1. at \in Int /\ at <= Day - 1
        BY <2>1, Constants DEF TypeOK, Time
      <3> QED BY <3>1, AtTimer DEF TypeOK
    <2> QED BY <1>7, <2>1, <2>2, CountsType DEF load_override, TypeOK, inputs
  <1>8. CASE ClearOverrides
    <2>1. <<"read">> \in Seq(Steps)
      BY DEF Steps
    <2>2. todo' \in [Greenlets -> Seq(Steps)] /\ view' \in [Greenlets -> Views]
      BY <1>8, <2>1, DoType DEF ClearOverrides, Greenlets
    <2>3. timers' \subseteq Timer
      BY <1>8, RescheduleTimers DEF ClearOverrides, TypeOK
    <2> QED BY <1>8, <1>a, <2>2, <2>3, CountsType DEF ClearOverrides, TypeOK, inputs
  <1>9. ASSUME NEW s \in Schedules, set_schedule(s) PROVE TypeOK'
    <2>1. <<"read">> \in Seq(Steps)
      BY DEF Steps
    <2>2. todo' \in [Greenlets -> Seq(Steps)] /\ view' \in [Greenlets -> Views]
      BY <1>9, <2>1, DoType DEF set_schedule, Greenlets
    <2> QED BY <1>9, <1>a, <2>2, CountsType DEF set_schedule, TypeOK
  <1>10. CASE set_holidays \/ Weather
    BY <1>10, CountsType DEF set_holidays, Weather, TypeOK
  <1>11. CASE Tick
    <2>1. now' \in Time
      BY <1>11, Constants DEF Tick, TypeOK, Time
    <2>2. <<"set_up_run">> \in Seq(Steps)
      BY DEF Steps
    <2>3. /\ todo' \in [Greenlets -> Seq(Steps)] /\ view' \in [Greenlets -> Views]
          /\ holiday' \in BOOLEAN
      BY <1>11, <1>a, <2>2, DoType DEF Tick, TypeOK, Greenlets
    <2> QED BY <1>11, <1>a, <2>1, <2>3, CountsType DEF Tick, TypeOK
  <1>12. CASE Restart
    <2>1. At(now, "override") \in Timer
      BY NowTimer
    <2>2. timers' \subseteq Timer
      BY <1>12, <2>1 DEF Restart, By, TypeOK
    <2>3. todo' \in [Greenlets -> Seq(Steps)] /\ view' \in [Greenlets -> Views]
      BY <1>12 DEF Restart, Unread, Views
    <2> QED BY <1>12, <1>a, <2>2, <2>3, CountsType DEF Restart, TypeOK, inputs
  <1>13. CASE _publish_start_times
    <2>1. PICK c \in committing :
             /\ committing' = committing \ {c}
             /\ \/ _schedule_occupancy_transitions(c) /\ UNCHANGED counts
                \/ UNCHANGED timers /\ Fault
      BY <1>13 DEF _publish_start_times
    <2>2. timers' \subseteq Timer /\ committing' \subseteq Commitment
      BY <2>1, TransitionsTimers DEF TypeOK
    <2> QED BY <1>13, <2>1, <2>2, CountsType DEF _publish_start_times, TypeOK, inputs
  <1>14. CASE UNCHANGED vars
    BY <1>14 DEF vars, TypeOK, inputs, counts
  <1> QED
    BY <1>1, <1>2, <1>3, <1>4, <1>5, <1>6, <1>7, <1>8, <1>9, <1>10, <1>11, <1>12, <1>13, <1>14
    DEF Next, Fire

(* Every variable keeps its type; every event is for a time of the day it was *)
(* scheduled on.                                                             *)
THEOREM TypeCorrect == Spec => []TypeOK
  BY InitType, StepType, PTL DEF Spec

-----------------------------------------------------------------------------
(* HandleIsPending is inductive: who sets the handle schedules a run, and    *)
(* only that run, or who resets the handle, takes it away.                   *)
LEMMA run_method_Handle ==
    ASSUME NEW by, NEW pending, run_method(by, pending), armed'
    PROVE  \E e \in timers' : e.by = "run"
  <1>1. Reschedule(pending, {"run"}, {At(now + 1, "run")})
    BY DEF run_method
  <1>2. At(now + 1, "run") \in timers'
    BY <1>1 DEF Reschedule
  <1>3. At(now + 1, "run").by = "run"
    BY DEF At
  <1> QED BY <1>2, <1>3

LEMMA set_up_run_Handle ==
    ASSUME NEW g, NEW rest, set_up_run(g, rest), HandleIsPending
    PROVE  HandleIsPending'
  <1>1. CASE ~holiday /\ schedule.kind = "hours"
    <2>1. At(earliest_start(schedule), "run") \in timers'
      BY <1>1 DEF set_up_run
    <2>2. At(earliest_start(schedule), "run").by = "run"
      BY DEF At
    <2> QED BY <2>1, <2>2 DEF HandleIsPending, By
  <1>2. CASE ~(~holiday /\ schedule.kind = "hours")
    BY <1>2 DEF set_up_run, HandleIsPending, By
  <1> QED BY <1>1, <1>2

LEMMA StepHandle == HandleIsPending /\ [Next]_vars => HandleIsPending'
  <1> SUFFICES ASSUME HandleIsPending, [Next]_vars PROVE HandleIsPending'
    OBVIOUS
  <1> USE DEF HandleIsPending, By
  \* What most steps do.
  <1>1. ASSUME UNCHANGED <<armed, missed>>, \A e \in timers : e.by = "run" => e \in timers'
        PROVE  HandleIsPending'
    BY <1>1
  <1>2. CASE Periodic \/ Hourly
    BY <1>1, <1>2 DEF Periodic, Hourly
  <1>3. CASE Midnight
    BY <1>3, set_up_run_Handle DEF Midnight
  <1>4. ASSUME NEW g \in Greenlets, Progress(g) PROVE HandleIsPending'
    <2>1. CASE ReadFails(g) \/ is_system_occupied(g) \/ evaluate_optimal_start_lockout(g)
      BY <1>1, <2>1 DEF ReadFails, is_system_occupied, evaluate_optimal_start_lockout
    <2>2. CASE change_occupancy(g)
      <3>1. CASE Upcoming(g) = "restart"
        BY <2>2, <3>1 DEF change_occupancy
      <3>2. CASE Upcoming(g) # "restart"
        BY <1>1, <2>2, <3>2 DEF change_occupancy
      <3> QED BY <3>1, <3>2
    <2>3. CASE Plan(g)
      BY <1>1, <2>3, run_method_Handle, set_up_run_Handle DEF Plan
    <2> QED BY <1>4, <2>1, <2>2, <2>3 DEF Progress
  <1>5. ASSUME NEW e \in timers, FireRun(e) PROVE HandleIsPending'
    <2>1. CASE schedule.kind = "hours"
      BY <1>5, <2>1, run_method_Handle DEF FireRun
    <2>2. CASE schedule.kind # "hours"
      BY <1>5, <2>2 DEF FireRun
    <2> QED BY <2>1, <2>2
  <1>6. ASSUME NEW e \in timers, FireCommand(e) PROVE HandleIsPending'
    BY <1>1, <1>6 DEF FireCommand
  <1>7. CASE OverrideEnds \/ load_override \/ set_holidays \/ Weather \/ Tick
    BY <1>1, <1>7 DEF OverrideEnds, load_override, set_holidays, Weather, Tick
  <1>8. CASE ClearOverrides
    BY <1>1, <1>8 DEF ClearOverrides, Reschedule
  <1>9. ASSUME NEW s \in Schedules, set_schedule(s) PROVE HandleIsPending'
    BY <1>1, <1>9 DEF set_schedule
  <1>10. CASE Restart
    BY <1>10 DEF Restart
  <1>11. CASE _publish_start_times
    BY <1>1, <1>11 DEF _publish_start_times, _schedule_occupancy_transitions, Reschedule
  <1>12. CASE UNCHANGED vars
    BY <1>1, <1>12 DEF vars
  <1> QED
    BY <1>2, <1>3, <1>4, <1>5, <1>6, <1>7, <1>8, <1>9, <1>10, <1>11, <1>12 DEF Next, Fire

(* A handle that keeps the syncs from planning a run stands for a run that is *)
(* still to come, as long as no run has met a day without hours.             *)
THEOREM HandleHolds == Spec => []HandleIsPending
  <1>1. Init => HandleIsPending
    BY DEF Init, HandleIsPending
  <1> QED BY <1>1, StepHandle, PTL DEF Spec

-----------------------------------------------------------------------------
(* StartsHaveEnds.  A run that publishes holds a start and an end to come,   *)
(* and schedules both or none.                                               *)
LEMMA TimerTimes ==
    TypeOK => now \in Int /\ 0 <= now /\ now <= Day - 1 /\ \A e \in timers : e.at \in Time
  <1>1. TypeOK => now \in Time /\ timers \subseteq Timer
    BY DEF TypeOK
  <1>2. \A e \in Timer : e.at \in Time
    BY DEF Timer
  <1> QED BY <1>1, <1>2, Constants DEF Time

(* The clock goes on by one, or from the last tick of the day to the first.  *)
LEMMA NextTime ==
    ASSUME NEW t \in Time
    PROVE  (t + 1) % Day = IF t = Day - 1 THEN 0 ELSE t + 1
  <1>1. t \in Nat /\ t <= Day - 1
    BY Constants DEF Time
  <1>2. CASE t = Day - 1
    BY <1>1, <1>2, Constants
  <1>3. CASE t # Day - 1
    BY <1>1, <1>3, Constants
  <1> QED BY <1>2, <1>3

\* A run cancels no transition.
LEMMA run_method_Pairs ==
    ASSUME TypeOK, NEW by, NEW pending \in SUBSET timers, run_method(by, pending),
           \A e \in timers : e.by \in {"start", "end"} => e \in pending
    PROVE  /\ \A e \in timers : e.by \in {"start", "end"} => e \in timers'
           /\ \A e \in timers' : e.by \in {"start", "end"} => e \in timers
  <1>1. PICK new \in {{At(now + 1, "run")}, {}} : Reschedule(pending, {"run"}, new)
    BY DEF run_method
  <1>2. PICK spawned \in SUBSET pending :
           /\ timers' = (pending \ By({"run"})) \cup spawned \cup new
           /\ spawned \subseteq By({"run"})
    BY <1>1 DEF Reschedule
  <1>3. \A e \in new : e.by = "run"
    BY DEF At
  <1> QED BY <1>2, <1>3 DEF By

LEMMA TransitionsPairs ==
    ASSUME TypeOK, NEW c \in committing, _schedule_occupancy_transitions(c)
    PROVE  \A e \in timers' : e.by = "start" /\ e.at > now =>
               \E f \in timers' : f.by = "end" /\ f.at >= e.at
  <1>0. now \in Int /\ \A e \in timers : e.at \in Int
    BY TimerTimes, Constants DEF Time
  <1>1. c.start \in Int /\ c.end \in Int /\ c.start <= c.end
    BY CommitmentTimes DEF TypeOK
  <1> DEFINE start == At(c.start, "start")
             end   == At(c.end, "end")
  <1>2. PICK spawned \in SUBSET Due :
           timers' = (timers \ By({"start", "end"})) \cup spawned \cup {start, end}
    BY DEF _schedule_occupancy_transitions, Reschedule
  <1>3. start.by = "start" /\ end.by = "end" /\ end.at >= start.at
    BY <1>0, <1>1 DEF At
  <1>4. \A e \in timers' : e.by = "start" /\ e.at > now => e = start
    <2>1. \A e \in spawned : e \in timers /\ e.at <= now
      BY <1>2 DEF Due
    <2>2. \A e \in timers : e.by = "start" => e \in By({"start", "end"})
      BY DEF By
    <2> HIDE DEF start, end
    <2> QED
      BY <1>0, <1>2, <1>3, <2>1, <2>2
  <1> HIDE DEF start, end
  <1> QED
    BY <1>2, <1>3, <1>4

LEMMA StepPairs == ASSUME TypeOK, StartsHaveEnds, [Next]_vars PROVE StartsHaveEnds'
  <1>0. now \in Int /\ \A e \in timers : e.at \in Time
    BY TimerTimes
  <1> DEFINE Pairs(e) == e.by \in {"start", "end"}
  \* What most steps do.
  <1>1. CASE /\ UNCHANGED now
             /\ \A e \in timers : Pairs(e) => e \in timers'
             /\ \A e \in timers' : Pairs(e) => e \in timers
    BY <1>1 DEF StartsHaveEnds
  <1>2. ASSUME NEW t, NEW b, b \notin {"start", "end"} PROVE ~Pairs(At(t, b))
    BY <1>2 DEF At
  <1>3. /\ \A e \in timers : Pairs(e) => e \in Forgotten
        /\ \A e \in Forgotten : Pairs(e) => e \in timers
    <2>1. \A e \in timers : [e EXCEPT !.by = "forgotten run"].by = "forgotten run"
      BY DEF TypeOK, Timer
    <2> QED
      BY <2>1 DEF Forgotten, By
  <1>4. ASSUME NEW g \in Greenlets, NEW rest, set_up_run(g, rest), UNCHANGED now
        PROVE  StartsHaveEnds'
    BY <1>1, <1>2, <1>3, <1>4 DEF set_up_run
  <1>5. ASSUME NEW g \in Greenlets, Progress(g) PROVE StartsHaveEnds'
    <2>1. CASE ReadFails(g) \/ is_system_occupied(g) \/ evaluate_optimal_start_lockout(g)
      BY <1>1, <1>2, <2>1 DEF ReadFails, is_system_occupied, evaluate_optimal_start_lockout
    <2>2. CASE change_occupancy(g)
      <3>1. \/ timers' = timers \cup {At(view[g].end, "end_obj")}
            \/ timers' = Forgotten \/ timers' = timers
        BY <2>2 DEF change_occupancy
      <3> QED
        BY <1>1, <1>2, <1>3, <2>2, <3>1 DEF change_occupancy
    <2>3. CASE Plan(g)
      <3>1. CASE run_method(g, timers)
        BY <1>1, <2>3, <3>1, run_method_Pairs DEF Plan
      <3>2. CASE ~run_method(g, timers)
        BY <1>1, <1>4, <2>3, <3>2 DEF Plan
      <3> QED
        BY <3>1, <3>2
    <2> QED
      BY <1>5, <2>1, <2>2, <2>3 DEF Progress
  <1>6. ASSUME NEW e \in timers, FireRun(e) PROVE StartsHaveEnds'
    <2>1. CASE run_method(e.by, timers \ {e})
      <3>1. \A f \in timers : Pairs(f) => f \in timers \ {e}
        BY <1>6 DEF FireRun
      <3> QED
        BY <1>1, <1>6, <2>1, <3>1, run_method_Pairs DEF FireRun
    <2>2. CASE ~run_method(e.by, timers \ {e})
      BY <1>1, <1>6, <2>2 DEF FireRun
    <2> QED
      BY <2>1, <2>2
  <1>7. ASSUME NEW e \in timers, FireCommand(e) PROVE StartsHaveEnds'
    <2>1. e.at <= now /\ timers' = timers \ {e} /\ UNCHANGED now
      BY <1>7 DEF FireCommand, Due
    <2>2. ASSUME NEW s \in timers', s.by = "start", s.at > now
          PROVE  \E f \in timers' : f.by = "end" /\ f.at >= s.at
      <3>1. PICK f \in timers : f.by = "end" /\ f.at >= s.at
        BY <2>1, <2>2 DEF StartsHaveEnds
      <3>2. f # e
        <4>1. e.at \in Int /\ s.at \in Int /\ f.at \in Int
          BY <1>0, <2>1, Constants DEF Time
        <4> QED
          BY <1>0, <2>1, <2>2, <3>1, <4>1
      <3> QED
        BY <2>1, <3>1, <3>2
    <2> QED
      BY <2>1, <2>2 DEF StartsHaveEnds
  <1>8. CASE load_override \/ OverrideEnds \/ set_holidays \/ Weather \/ Periodic \/ Hourly
    BY <1>1, <1>2, <1>8
    DEF load_override, OverrideEnds, set_holidays, Weather, Periodic, Hourly
  <1>9. CASE Midnight
    BY <1>4, <1>9 DEF Midnight, Greenlets
  <1>10. CASE ClearOverrides
    <2>1. PICK spawned \in SUBSET timers : timers' = (timers \ By({"override"})) \cup spawned
      BY <1>10 DEF ClearOverrides, Reschedule
    <2> QED
      BY <1>1, <1>10, <2>1 DEF ClearOverrides, By
  <1>11. ASSUME NEW s \in Schedules, set_schedule(s) PROVE StartsHaveEnds'
    BY <1>1, <1>11 DEF set_schedule
  <1>12. CASE Tick
    <2>1. UNCHANGED timers
      BY <1>12 DEF Tick
    <2>2. CASE now' = now + 1
      <3>1. \A e \in timers : e.at \in Int
        BY <1>0, Constants DEF Time
      <3> QED
        BY <1>0, <2>1, <2>2, <3>1 DEF StartsHaveEnds
    <2>3. CASE now' # now + 1
      <3>1. now = Day - 1
        BY <1>12, <2>3, NextTime DEF Tick, TypeOK
      <3>2. timers = {}
        BY <1>0, <1>12, <3>1, Constants DEF Tick, Due, Time
      <3> QED
        BY <2>1, <3>2 DEF StartsHaveEnds
    <2> QED
      BY <2>2, <2>3
  <1>13. CASE Restart
    <2>1. \A e \in timers' : ~Pairs(e)
      BY <1>2, <1>13 DEF Restart, By
    <2> QED
      BY <2>1 DEF StartsHaveEnds
  <1>14. CASE _publish_start_times
    <2>1. PICK c \in committing : _schedule_occupancy_transitions(c) \/ UNCHANGED timers
      BY <1>14 DEF _publish_start_times
    <2>2. CASE UNCHANGED timers
      BY <1>1, <1>14, <2>2 DEF _publish_start_times
    <2>3. CASE _schedule_occupancy_transitions(c)
      BY <1>14, <2>3, TransitionsPairs DEF _publish_start_times, StartsHaveEnds
    <2> QED
      BY <2>1, <2>2, <2>3
  <1>15. CASE UNCHANGED vars
    BY <1>1, <1>15 DEF vars
  <1> QED
    BY <1>5, <1>6, <1>7, <1>8, <1>9, <1>10, <1>11, <1>12, <1>13, <1>14, <1>15 DEF Next, Fire

(* An optimal start that is to come has its end to come, whatever happens     *)
(* while the run that commits them publishes.                                *)
THEOREM StartIsEnded == Spec => []StartsHaveEnds
  <1>1. Init => StartsHaveEnds
    BY DEF Init, StartsHaveEnds
  <1> QED BY <1>1, StepPairs, TypeCorrect, PTL DEF Spec

(* A day begins with nothing left of the day before: no event, no run that    *)
(* still publishes, no override, and no handle that would keep its syncs from *)
(* planning the start of the unit, unless a run had met a day without hours.  *)
THEOREM NewDay ==
    Spec => [][now' < now =>
                    timers = {} /\ committing = {} /\ ~override /\ (armed => missed)]_vars
  <1>1. TypeOK /\ HandleIsPending /\ [Next]_vars
           => [now' < now =>
                    timers = {} /\ committing = {} /\ ~override /\ (armed => missed)]_vars
    <2> SUFFICES ASSUME TypeOK, HandleIsPending, [Next]_vars, now' < now
                 PROVE  timers = {} /\ committing = {} /\ ~override /\ (armed => missed)
      OBVIOUS
    <2>1. now \in Int /\ 0 <= now /\ now <= Day - 1 /\ \A e \in timers : e.at \in Time
      BY TimerTimes
    <2>2. now' # now
      BY <2>1
    <2>3. Tick
      BY <2>2 DEF Next, Progress, Fire, vars, Periodic, Hourly, Midnight, ReadFails,
         is_system_occupied, change_occupancy, Plan, evaluate_optimal_start_lockout, FireRun,
         FireCommand, OverrideEnds, load_override, ClearOverrides, set_schedule, set_holidays,
         Weather, Restart, _publish_start_times
    <2>4. now = Day - 1 /\ now' = 0
      BY <2>1, <2>3, NextTime DEF Tick, TypeOK
    <2>5. timers = {}
      BY <2>1, <2>3, <2>4, Constants DEF Tick, Due, Time
    <2> QED
      BY <2>3, <2>4, <2>5 DEF Tick, HandleIsPending, By
  <1> QED
    BY <1>1, TypeCorrect, HandleHolds, PTL DEF Spec

=============================================================================
