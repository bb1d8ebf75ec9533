--------------------------- MODULE OccupancySync ---------------------------
(***************************************************************************)
(* Who commands the occupancy of a unit, over one day after the other: the *)
(* Manager agent's sync_occupancy_state, which a periodic and the server's *)
(* calls run, the transitions that it and optimal start have scheduled,    *)
(* the overrides, the holidays and the low-temperature lockout.  Reading   *)
(* and commanding the unit and publishing block the greenlet that does it, *)
(* so that the others go on between what one has seen and what it does.    *)
(*                                                                         *)
(* A day is a cycle of Day ticks; a tick stands for the minutes of the     *)
(* rescheduling of run_method, and there are syncs within it.  An override *)
(* is only known to be current or not: OccupancyOverride has the details.  *)
(***************************************************************************)
EXTENDS Integers, Sequences

CONSTANTS
    Day,
    Lead,        \* earliest_start_time
    Schedules,   \* the schedules the server may push
    Predictions, \* the lead times the optimal start models may agree on
    MaxPushes,   \* bound: schedules, holidays and overrides pushed, turns of the weather
    MaxFaults    \* bound: reads and commands that fail, restarts of the agent

Time == 0..(Day - 1)

AlwaysOn    == [kind |-> "always_on", start |-> 0, end |-> 0]
AlwaysOff   == [kind |-> "always_off", start |-> 0, end |-> 0]
Hours(s, e) == [kind |-> "hours", start |-> s, end |-> e]
Schedule    == {AlwaysOn, AlwaysOff} \cup {Hours(s, e) : s \in Time, e \in Time}

ASSUME OccupancyAssumption ==
    /\ Day \in Nat \ {0} /\ Lead \in Time
    /\ Schedules \subseteq {s \in Schedule : s.start <= s.end} /\ Schedules # {}
    /\ Predictions \subseteq 0..Lead /\ Predictions # {}
    /\ {MaxPushes, MaxFaults} \subseteq Nat

VARIABLES
    now,
    schedule, holiday,
    cold,     \* the forecast is below the lockout temperature
    lockout,  \* optimal_start_lockout_active
    override, \* an override is current
    device,
    timers,   \* the scheduled events, and who may still cancel them
    armed,    \* run_schedule_greenlet is not None
    committing, \* the runs of optimal start that are publishing what they commit
    todo,     \* what each greenlet has still to do
    view,     \* the schedule its sync goes by
    pushes, faults,
    missed    \* history: run_method has run into a day without hours

inputs == <<schedule, holiday, cold>>
counts == <<pushes, faults>>
vars == <<now, inputs, lockout, override, device, timers, armed, committing, todo, view,
          counts, missed>>

Greenlets == {"periodic", "rpc", "midnight", "hourly"}

\* Commands, some with what is done once they return.
Occupy == {"occupied", "start", "lock"}
Vacate == {"unoccupied", "restart"}
Steps  == Occupy \cup Vacate \cup {"read", "evaluate", "set_up_run", "plan"}
Timer  == [at : Time, by : {"run", "forgotten run", "start", "end", "end_obj", "override"}]

\* What a run commits, and who runs it: a sync or an event.
Commitment ==
    {c \in [by : Greenlets \cup {"run", "forgotten run"}, start : (-Lead)..(Day - 1), end : Time] :
        c.start <= c.end}

TypeOK ==
    /\ now \in Time
    /\ schedule \in Schedules /\ holiday \in BOOLEAN /\ cold \in BOOLEAN
    /\ lockout \in BOOLEAN /\ override \in BOOLEAN
    /\ device \in {"occupied", "unoccupied", "unknown"}
    /\ timers \subseteq Timer
    /\ armed \in BOOLEAN
    /\ committing \subseteq Commitment
    /\ todo \in [Greenlets -> Seq(Steps)]
    /\ view \in [Greenlets -> Schedules \cup {AlwaysOff}]
    /\ pushes \in 0..MaxPushes /\ faults \in 0..MaxFaults
    /\ missed \in BOOLEAN

-----------------------------------------------------------------------------
Idle(g) == todo[g] = <<>> /\ \A c \in committing : c.by # g
Upcoming(g) == IF todo[g] = <<>> THEN "none" ELSE Head(todo[g])

Unread == AlwaysOff

\* g goes on with steps, by schedule v; other greenlets keep theirs.
DoWith(g, steps, v) ==
    /\ todo' = [todo EXCEPT ![g] = steps]
    /\ view' = [view EXCEPT ![g] = IF steps = <<>> THEN Unread ELSE v]

Do(g, steps) == DoWith(g, steps, view[g])
Rest(g)      == Tail(todo[g])

Fault == faults < MaxFaults /\ faults' = faults + 1 /\ UNCHANGED pushes
Pushed == pushes < MaxPushes /\ pushes' = pushes + 1 /\ UNCHANGED faults

\* A command of state s, delivered or not.
Command(s) ==
    \/ device' = s /\ UNCHANGED counts
    \/ UNCHANGED device /\ Fault

At(t, by) == [at |-> IF t < now THEN now ELSE t, by |-> by]
Due == {e \in timers : e.at <= now}
By(kinds) == {e \in timers : e.by \in kinds}

\* Of the pending events those of some kinds are cancelled, and new ones scheduled;
\* one that is due may have been spawned already.
Reschedule(pending, kinds, new) ==
    \E spawned \in SUBSET (By(kinds) \cap Due \cap pending) :
        timers' = (pending \ By(kinds)) \cup spawned \cup new

\* run_schedule_greenlet is overwritten: its event is not cancelled.
Forgotten == (timers \ By({"run"})) \cup {[e EXCEPT !.by = "forgotten run"] : e \in By({"run"})}

-----------------------------------------------------------------------------
(* Optimal start *)

\* Mutant of earliest_start: that of the day after.
earliest_start_tomorrow(s) == s.start - Lead + Day

\* time() drops the day, so that early hours have theirs late in the evening.
earliest_start(s) == (s.start - Lead) % Day

\* Mutant of run_method: the handle of the run itself is not reset.
run_method_keeps(by, pending) ==
    \E lead \in Predictions :
        LET optimal_start == schedule.start - lead
        IN  /\ UNCHANGED armed
            /\ IF now + 1 < optimal_start
               THEN Reschedule(pending, {"run"}, {At(now + 1, "run")}) /\ UNCHANGED committing
               ELSE /\ Reschedule(pending, {"run"}, {})
                    /\ committing' = committing \cup
                           {[by |-> by, start |-> optimal_start, end |-> schedule.end]}

\* Predicts, and either tries again a tick later or publishes what it commits.
run_method(by, pending) ==
    \E lead \in Predictions :
        LET optimal_start == schedule.start - lead
        IN  /\ armed' = (now + 1 < optimal_start)
            /\ IF now + 1 < optimal_start
               THEN Reschedule(pending, {"run"}, {At(now + 1, "run")}) /\ UNCHANGED committing
               ELSE /\ Reschedule(pending, {"run"}, {})
                    /\ committing' = committing \cup
                           {[by |-> by, start |-> optimal_start, end |-> schedule.end]}

\* Mutant of _schedule_occupancy_transitions: the new end is cancelled with the old one.
_schedule_occupancy_transitions_unended(c) ==
    Reschedule(timers, {"start", "end"}, {At(c.start, "start")})

_schedule_occupancy_transitions(c) ==
    Reschedule(timers, {"start", "end"}, {At(c.start, "start"), At(c.end, "end")})

\* The publication returns, and the run goes on; or it throws, and nothing is scheduled.
_publish_start_times ==
    /\ \E c \in committing :
          /\ committing' = committing \ {c}
          /\ \/ _schedule_occupancy_transitions(c) /\ UNCHANGED counts
             \/ UNCHANGED timers /\ Fault
    /\ UNCHANGED <<now, inputs, lockout, override, device, armed, todo, view, missed>>

\* _schedule_todays_run, by g; then g does rest.  (The comparison of a Schedule with
\* "always_off" there is never true.)
set_up_run(g, rest) ==
    /\ IF ~holiday /\ schedule.kind = "hours"
       THEN /\ timers' = Forgotten \cup {At(earliest_start(schedule), "run")}
            /\ armed' = TRUE /\ missed' = FALSE
            /\ Do(g, rest)
       ELSE /\ UNCHANGED <<timers, armed, missed>>
            /\ Do(g, IF holiday THEN <<"unoccupied">> \o rest ELSE rest)

\* The cron at one past midnight.
Midnight ==
    /\ Upcoming("midnight") = "set_up_run"
    /\ set_up_run("midnight", <<>>)
    /\ UNCHANGED <<now, inputs, lockout, override, device, committing, counts>>

-----------------------------------------------------------------------------
(* sync_occupancy_state *)

If(condition, step) == IF condition THEN <<step>> ELSE <<>>

\* Mutant of Decide: the end of the hours is left to the events.
Decide_end(seen) ==
    LET s == schedule
        earliest == earliest_start(s)
    IN  CASE holiday \/ s.kind = "always_off" -> If(seen # "unoccupied", "unoccupied")
          [] ~holiday /\ s.kind = "always_on" -> If(seen # "occupied", "occupied")
          [] OTHER ->
                If(s.start < now /\ now < s.end /\ seen # "occupied", "start")
                \o If(now < earliest /\ seen # "unoccupied", "unoccupied")
                \o If(earliest <= now /\ now <= s.start /\ seen = "unknown", "restart")
                \o <<"plan">>

\* What the state a sync has seen calls for.
Decide(seen) ==
    LET s == schedule
        earliest == earliest_start(s)
    IN  CASE holiday \/ s.kind = "always_off" -> If(seen # "unoccupied", "unoccupied")
          [] ~holiday /\ s.kind = "always_on" -> If(seen # "occupied", "occupied")
          [] OTHER ->
                If(s.start < now /\ now < s.end /\ seen # "occupied", "start")
                \o If(now >= s.end /\ seen # "unoccupied", "unoccupied")
                \o If(now < earliest /\ seen # "unoccupied", "unoccupied")
                \o If(earliest <= now /\ now <= s.start /\ seen = "unknown", "restart")
                \o <<"plan">>

\* The periodic, between two syncs.
Periodic ==
    /\ Idle("periodic")
    /\ Do("periodic", <<"read">>)
    /\ UNCHANGED <<now, inputs, lockout, override, device, timers, armed, committing, counts, missed>>

ReadFails(g) ==
    /\ Upcoming(g) = "read"
    /\ Fault
    /\ Do(g, Rest(g))
    /\ UNCHANGED <<now, inputs, lockout, override, device, timers, armed, committing, missed>>

\* The unit answers, and the sync decides.  An override that is current is loaded
\* again if the unit is not occupied, and its start is past.
is_system_occupied(g) ==
    /\ Upcoming(g) = "read"
    /\ IF override
       THEN /\ timers' = IF device = "occupied" THEN timers ELSE timers \cup {At(now, "override")}
            /\ Do(g, Rest(g))
       ELSE /\ UNCHANGED timers
            /\ DoWith(g, (IF lockout THEN If(device # "occupied", "evaluate") ELSE Decide(device)) \o Rest(g),
                      schedule)
    /\ UNCHANGED <<now, inputs, lockout, override, device, armed, committing, counts, missed>>

\* A command returns, and what follows it is done.
change_occupancy(g) ==
    /\ Upcoming(g) \in Occupy \cup Vacate
    /\ Command(IF Upcoming(g) \in Occupy THEN "occupied" ELSE "unoccupied")
    /\ Do(g, Rest(g))
    /\ lockout' = (lockout \/ Upcoming(g) = "lock")
    /\ armed' = (armed /\ Upcoming(g) # "restart")
    /\ timers' = CASE Upcoming(g) = "start" -> timers \cup {At(view[g].end, "end_obj")}
                   [] Upcoming(g) = "restart" -> Forgotten
                   [] OTHER -> timers
    /\ UNCHANGED <<now, inputs, override, committing, missed>>

\* The last thing a sync of a day with hours does.
Plan(g) ==
    /\ Upcoming(g) = "plan"
    /\ CASE ~armed /\ now < earliest_start(view[g]) -> set_up_run(g, Rest(g)) /\ UNCHANGED committing
         [] ~armed /\ earliest_start(view[g]) <= now /\ now <= view[g].start ->
               /\ IF schedule.kind = "hours" THEN run_method(g, timers)
                  ELSE UNCHANGED <<timers, armed, committing>>
               /\ Do(g, Rest(g)) /\ UNCHANGED missed
         [] OTHER -> Do(g, Rest(g)) /\ UNCHANGED <<timers, armed, committing, missed>>
    /\ UNCHANGED <<now, inputs, lockout, override, device, counts>>

-----------------------------------------------------------------------------
(* The lockout *)

Hourly ==
    /\ Idle("hourly")
    /\ Do("hourly", <<"evaluate">>)
    /\ UNCHANGED <<now, inputs, lockout, override, device, timers, armed, committing, counts, missed>>

evaluate_optimal_start_lockout(g) ==
    /\ Upcoming(g) = "evaluate"
    /\ lockout' = (lockout /\ cold)
    /\ Do(g, (IF cold THEN <<"lock">> ELSE If(lockout, "read")) \o Rest(g))
    /\ UNCHANGED <<now, inputs, override, device, timers, armed, committing, counts, missed>>

-----------------------------------------------------------------------------
(* Events, overrides, pushes and the clock *)

\* A day without hours makes run_method throw before it does anything.
FireRun(e) ==
    /\ e \in Due /\ e.by \in {"run", "forgotten run"}
    /\ IF schedule.kind = "hours" THEN run_method(e.by, timers \ {e}) /\ UNCHANGED missed
       ELSE /\ timers' = timers \ {e} /\ UNCHANGED <<armed, committing>>
            /\ missed' = (missed \/ e.by = "run")
    /\ UNCHANGED <<now, inputs, lockout, override, device, todo, view, counts>>

\* A transition, or the start of an override.
FireCommand(e) ==
    /\ e \in Due /\ e.by \in {"start", "end", "end_obj", "override"}
    /\ Command(IF e.by \in {"start", "override"} THEN "occupied" ELSE "unoccupied")
    /\ timers' = timers \ {e}
    /\ override' = (override \/ e.by = "override")
    /\ UNCHANGED <<now, inputs, lockout, armed, committing, todo, view, missed>>

OverrideEnds ==
    /\ override /\ By({"override"}) = {}
    /\ override' = FALSE
    /\ Command("unoccupied")
    /\ UNCHANGED <<now, inputs, lockout, timers, armed, committing, todo, view, missed>>

load_override ==
    /\ Pushed
    /\ ~override /\ By({"override"}) = {}
    /\ \E at \in now..(Day - 1) : timers' = timers \cup {At(at, "override")}
    /\ UNCHANGED <<now, inputs, lockout, override, device, armed, committing, todo, view, missed>>

\* An empty payload cancels them and ends with a sync.
ClearOverrides ==
    /\ Pushed /\ Idle("rpc")
    /\ override' = FALSE
    /\ Reschedule(timers, {"override"}, {})
    /\ Do("rpc", <<"read">>)
    /\ UNCHANGED <<now, inputs, lockout, device, armed, committing, missed>>

set_schedule(s) ==
    /\ Pushed /\ Idle("rpc") /\ s # schedule
    /\ schedule' = s
    /\ Do("rpc", <<"read">>)
    /\ UNCHANGED <<now, holiday, cold, lockout, override, device, timers, armed, committing, missed>>

\* The rules of today change; this does not sync.
set_holidays ==
    /\ Pushed
    /\ holiday' = ~holiday
    /\ UNCHANGED <<now, schedule, cold, lockout, override, device, timers, armed, committing, todo, view, missed>>

Weather ==
    /\ Pushed
    /\ cold' = ~cold
    /\ UNCHANGED <<now, schedule, holiday, lockout, override, device, timers, armed, committing, todo, view, missed>>

\* What is due has been spawned, and a sync that has read the unit has ended, as has
\* a run: commands and publications are given up long before a tick is over.  Overrides end on their day;
\* the next one may be a holiday, and begins with the cron.
Tick ==
    /\ Due = {} /\ committing = {}
    /\ \A g \in Greenlets : Upcoming(g) \in {"none", "read", "evaluate"}
    /\ now' = (now + 1) % Day
    /\ IF now' = 0
       THEN /\ ~override
            /\ Do("midnight", <<"set_up_run">>)
            /\ holiday' \in BOOLEAN
       ELSE UNCHANGED <<todo, view, holiday>>
    /\ UNCHANGED <<schedule, cold, lockout, override, device, timers, armed, committing, counts, missed>>

\* The new agent loads the overrides that are stored, and syncs with its periodic.
Restart ==
    /\ Fault
    /\ lockout' = FALSE /\ override' = FALSE
    /\ timers' = By({"override"}) \cup (IF override THEN {At(now, "override")} ELSE {})
    /\ armed' = FALSE /\ committing' = {} /\ missed' = FALSE
    /\ todo' = [g \in Greenlets |-> <<>>] /\ view' = [g \in Greenlets |-> Unread]
    /\ UNCHANGED <<now, inputs, device>>

Init ==
    /\ now = 0
    /\ schedule \in Schedules /\ holiday = FALSE /\ cold = FALSE
    /\ lockout = FALSE /\ override = FALSE
    /\ device = "unknown"
    /\ timers = {} /\ armed = FALSE /\ committing = {}
    /\ todo = [g \in Greenlets |-> <<>>]
    /\ view = [g \in Greenlets |-> Unread]
    /\ pushes = 0 /\ faults = 0
    /\ missed = FALSE

Progress(g) ==
    \/ ReadFails(g) \/ is_system_occupied(g) \/ change_occupancy(g) \/ Plan(g)
    \/ evaluate_optimal_start_lockout(g)

Fire == \E e \in timers : FireRun(e) \/ FireCommand(e)

Next ==
    \/ Periodic \/ Hourly \/ Midnight \/ _publish_start_times
    \/ \E g \in Greenlets : Progress(g)
    \/ Fire
    \/ OverrideEnds \/ load_override \/ ClearOverrides
    \/ \E s \in Schedules : set_schedule(s)
    \/ set_holidays \/ Weather
    \/ Tick \/ Restart

Spec == Init /\ [][Next]_vars

\* The periodic goes round, its calls return, and so do publications; events fire.
\* Other greenlets may hang and the clock need not advance.
Fairness ==
    /\ WF_vars(Periodic) /\ WF_vars(Progress("periodic"))
    /\ WF_vars(_publish_start_times) /\ WF_vars(Fire)

FairSpec == Spec /\ Fairness

-----------------------------------------------------------------------------
(* Properties *)

\* What overrides, lockout, holidays and schedule ask for together, now.
Demanded ==
    CASE override \/ lockout -> "occupied"
      [] ~(override \/ lockout) /\ (holiday \/ schedule.kind = "always_off") -> "unoccupied"
      [] ~(override \/ lockout \/ holiday) /\ schedule.kind = "always_on" -> "occupied"
      [] OTHER ->
            IF schedule.start < now /\ now < schedule.end THEN "occupied"
            ELSE IF now >= schedule.end \/ now < schedule.start - Lead THEN "unoccupied"
            ELSE "either"

\* Whatever commands of an earlier schedule, an event nobody cancelled, a lost
\* command or a restart put the unit in: with syncs enough in a tick, the unit is
\* put, and kept, where it is demanded to be.
DemandIsMet ==
    \A s \in {"occupied", "unoccupied"} :
        <>[](Demanded = s) /\ <>[][FALSE]_now => <>[](device = s)

\* As long as no run of optimal start has met a day without hours, a handle that
\* keeps the syncs from planning one stands for a run that is still to come.
HandleIsPending == armed /\ ~missed => By({"run"}) # {}

\* The transitions of optimal start come in pairs: the start that is to come has an
\* end to come, whoever changes the schedule or predicts again while a run publishes,
\* whichever publication throws and whatever else is cancelled.  Of two that are due
\* either may go first.
StartsHaveEnds ==
    \A e \in timers : e.by = "start" /\ e.at > now =>
        \E f \in timers : f.by = "end" /\ f.at >= e.at
=============================================================================
