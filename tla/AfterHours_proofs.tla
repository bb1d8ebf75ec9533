-------------------------- MODULE AfterHours_proofs --------------------------
(***************************************************************************)
(* Proofs about AfterHours, for any cycle, schedules and bounds.           *)
(*                                                                         *)
(* The next transition is the first change of the schedule, found within   *)
(* one cycle; a tick that is no transition leaves it the next one.  From   *)
(* that, the scheduler never falls silent, whatever overlaps; and as long  *)
(* as no write is overlapped, it has one event and follows its schedule.   *)
(***************************************************************************)
EXTENDS AfterHours, WellFoundedInduction, TLAPS

-----------------------------------------------------------------------------
(* Transitions of a schedule *)

LEMMA ModTime == \A x \in Int : x % Period \in Time
  BY AfterHoursAssumption DEF Time

\* Two cycles are enough: no transition is further away than one.
LEMMA ModTwice ==
    \A x \in 0..(2 * Period - 1) : x % Period = IF x < Period THEN x ELSE x - Period
  <1> SUFFICES ASSUME NEW x \in 0..(2 * Period - 1)
               PROVE  x % Period = IF x < Period THEN x ELSE x - Period
    OBVIOUS
  <1>1. Period \in Nat \ {0}
    BY AfterHoursAssumption
  <1>2. CASE x < Period
    BY <1>1, <1>2
  <1>3. CASE x >= Period
    BY <1>1, <1>3, Z3
  <1> QED BY <1>1, <1>2, <1>3

\* What Distance stands for: d ticks from t is the first change of S.
IsFirst(S, t, d) ==
    /\ d \in 1..Period
    /\ On(S, t + d) # On(S, t + d - 1)
    /\ \A e \in 1..(d - 1) : On(S, t + e) = On(S, t + e - 1)

\* A schedule that changes at all does so within a cycle: take the nearest tick
\* that differs from this one.
LEMMA FirstExists ==
    ASSUME NEW S \in SUBSET Time, Changes(S), NEW t \in Time
    PROVE  \E d \in 1..Period : IsFirst(S, t, d)
  <1> DEFINE D == {d \in 1..Period : On(S, t + d) # On(S, t)}
  <1>1. Period \in Nat \ {0} /\ t \in Nat /\ t < Period
    BY AfterHoursAssumption DEF Time
  <1>2. PICK x \in Time : (x \in S) # On(S, t)
    BY DEF Changes
  <1>3. D # {}
    <2>1. CASE x > t
      <3>1. x - t \in 1..Period /\ (t + (x - t)) % Period = x
        BY <1>1, <2>1, ModTwice DEF Time
      <3> QED BY <3>1, <1>2 DEF On
    <2>2. CASE x <= t
      <3>1. x - t + Period \in 1..Period /\ (t + (x - t + Period)) % Period = x
        BY <1>1, <2>2, ModTwice DEF Time
      <3> QED BY <3>1, <1>2 DEF On
    <2> QED BY <2>1, <2>2, <1>1 DEF Time
  <1>4. D \subseteq Nat
    BY <1>1
  <1>5. PICK d \in D : \A e \in D : <<e, d>> \notin OpToRel(<, Nat)
    BY <1>3, <1>4, NatLessThanWellFounded, WFMin
  <1>6. \A e \in 1..Period : e < d => On(S, t + e) = On(S, t)
    BY <1>1, <1>4, <1>5 DEF OpToRel
  <1>7. On(S, t + d - 1) = On(S, t)
    <2>1. CASE d = 1
      BY <2>1, <1>1
    <2>2. CASE d # 1
      <3>1. d - 1 \in 1..Period /\ d - 1 < d /\ t + (d - 1) = t + d - 1
        BY <2>2, <1>1
      <3> QED BY <3>1, <1>6
    <2> QED BY <2>1, <2>2
  <1>8. \A e \in 1..(d - 1) : On(S, t + e) = On(S, t + e - 1)
    <2> SUFFICES ASSUME NEW e \in 1..(d - 1) PROVE On(S, t + e) = On(S, t + e - 1)
      OBVIOUS
    <2>1. e \in 1..Period /\ e < d
      BY <1>1
    <2>2. CASE e = 1
      BY <2>2, <2>1, <1>6, <1>1
    <2>3. CASE e # 1
      <3>1. e - 1 \in 1..Period /\ e - 1 < d /\ t + (e - 1) = t + e - 1
        BY <2>3, <2>1, <1>1
      <3> QED BY <3>1, <2>1, <1>6
    <2> QED BY <2>2, <2>3
  <1>9. IsFirst(S, t, d)
    BY <1>7, <1>8 DEF IsFirst
  <1> QED BY <1>9

\* There is only one first change, so the CHOOSE of Distance means it.
LEMMA FirstUnique ==
    ASSUME NEW S, NEW t, NEW c, IsFirst(S, t, c), NEW d, IsFirst(S, t, d)
    PROVE  c = d
  <1>1. c \in Nat /\ d \in Nat /\ 1 <= c /\ 1 <= d
    BY AfterHoursAssumption DEF IsFirst
  <1>2. ~(c < d)
    BY <1>1 DEF IsFirst
  <1>3. ~(d < c)
    BY <1>1 DEF IsFirst
  <1> QED BY <1>1, <1>2, <1>3

LEMMA DistanceIsFirst ==
    ASSUME NEW S \in SUBSET Time, Changes(S), NEW t \in Time
    PROVE  IsFirst(S, t, Distance(S, t))
  BY FirstExists DEF Distance, IsFirst

\* A tick later the first change is a tick nearer, unless it has come.
LEMMA DistanceStep ==
    ASSUME NEW S \in SUBSET Time, Changes(S), NEW t \in Time,
           NEW u, u = (t + 1) % Period, Distance(S, t) # 1
    PROVE  Distance(S, u) = Distance(S, t) - 1
  <1> DEFINE d == Distance(S, t) - 1
  <1>1. Period \in Nat \ {0} /\ t \in Nat /\ t < Period
    BY AfterHoursAssumption DEF Time
  <1>2. IsFirst(S, t, Distance(S, t))
    BY DistanceIsFirst
  <1>3. d \in 1..(Period - 1)
    BY <1>1, <1>2 DEF IsFirst
  <1>4. u \in Time /\ u = IF t + 1 < Period THEN t + 1 ELSE 0
    BY <1>1, ModTwice, ModTime
  <1>5. \A e \in 0..(Period - 1) : On(S, u + e) = On(S, t + 1 + e)
    <2> SUFFICES ASSUME NEW e \in 0..(Period - 1) PROVE (u + e) % Period = (t + 1 + e) % Period
      BY DEF On
    <2> QED BY <1>1, <1>4, ModTwice
  <1>6. On(S, u + d) # On(S, u + d - 1)
    <2>1. d \in 0..(Period - 1) /\ d - 1 \in 0..(Period - 1)
      BY <1>1, <1>3
    <2>2. On(S, u + d) = On(S, t + 1 + d) /\ On(S, u + (d - 1)) = On(S, t + 1 + (d - 1))
      BY <2>1, <1>5
    <2>3. /\ t + 1 + d = t + Distance(S, t) /\ t + 1 + (d - 1) = t + Distance(S, t) - 1
          /\ u + (d - 1) = u + d - 1
      BY <1>1, <1>2, <1>4 DEF IsFirst, Time
    <2> QED BY <2>2, <2>3, <1>2 DEF IsFirst
  <1>7. \A e \in 1..(d - 1) : On(S, u + e) = On(S, u + e - 1)
    <2> SUFFICES ASSUME NEW e \in 1..(d - 1) PROVE On(S, u + e) = On(S, u + e - 1)
      OBVIOUS
    <2>1. e \in 0..(Period - 1) /\ e - 1 \in 0..(Period - 1) /\ e + 1 \in 1..(Distance(S, t) - 1)
      BY <1>1, <1>2, <1>3 DEF IsFirst
    <2>2. On(S, u + e) = On(S, t + 1 + e) /\ On(S, u + (e - 1)) = On(S, t + 1 + (e - 1))
      BY <2>1, <1>5
    <2>3. /\ t + 1 + e = t + (e + 1) /\ t + 1 + (e - 1) = t + (e + 1) - 1
          /\ u + (e - 1) = u + e - 1
      BY <1>1, <2>1, <1>4 DEF Time
    <2> QED BY <2>1, <2>2, <2>3, <1>2 DEF IsFirst
  <1>8. IsFirst(S, u, d)
    BY <1>3, <1>6, <1>7, <1>1 DEF IsFirst
  <1> QED BY <1>8, <1>4, DistanceIsFirst, FirstUnique

LEMMA NextType ==
    ASSUME NEW S \in SUBSET Time, NEW t \in Time
    PROVE  /\ _next_transition(S, t) \in Transition \cup {None}
           /\ Changes(S) => _next_transition(S, t) # None
  <1>1. CASE Changes(S)
    <2>1. t + Distance(S, t) \in Int
      BY <1>1, DistanceIsFirst, AfterHoursAssumption DEF IsFirst, Time
    <2>2. (t + Distance(S, t)) % Period \in Time
      BY <2>1, ModTime
    <2>3. _next_transition(S, t) \in Transition
      BY <1>1, <2>2 DEF _next_transition, Transition
    <2>4. None \notin Transition
      BY AfterHoursAssumption DEF None, Transition, Time
    <2> QED BY <2>3, <2>4
  <1>2. CASE ~Changes(S)
    BY <1>2 DEF _next_transition
  <1> QED BY <1>1, <1>2

-----------------------------------------------------------------------------
(* Types *)

\* A setpoint that is written is not mistaken for no write.
Numbered == set_points > 0
TypeInv == TypeOK /\ Numbered

LEMMA WriteType ==
    ASSUME TypeInv
    PROVE  /\ Nothing \in Setpoints
           /\ \A v \in Nat : [service |-> TRUE, version |-> v] \in Setpoints \ {Nothing}
           /\ \A v \in Nat, a \in BOOLEAN : Effective(a, v) \in Setpoints
           /\ \A v \in Nat : v > 0 => Effective(FALSE, v) # Nothing
  BY DEF TypeInv, TypeOK, Setpoints, Nothing, Effective

LEMMA ChainType ==
    ASSUME NEW S \in SUBSET Time, now \in Time, NEW k \in Chains,
           NEW pending \in [Chains -> Transition \cup {None}],
           _schedule_next_transition(S, k, pending)
    PROVE  /\ chain' \in [Chains -> Transition \cup {None}]
           /\ event' \in Chains \cup {NoChain}
  BY NextType DEF _schedule_next_transition

LEMMA SetPointType ==
    ASSUME TypeInv, NEW g \in Greenlets, set_point(g)
    PROVE  /\ work' \in [Greenlets -> Setpoints] /\ device' \in Setpoints
           /\ updates' \in 0..MaxUpdates /\ pushes' \in 0..MaxPushes
           /\ faults' \in 0..MaxFaults /\ restarts' \in 0..MaxRestarts
           /\ raced' \in BOOLEAN
  <1>1. work' \in [Greenlets -> Setpoints] /\ device' \in Setpoints
    BY WriteType DEF TypeInv, TypeOK, set_point, Writes
  <1>2. /\ updates' \in 0..MaxUpdates /\ pushes' \in 0..MaxPushes
        /\ faults' \in 0..MaxFaults /\ restarts' \in 0..MaxRestarts
    BY AfterHoursAssumption DEF TypeInv, TypeOK, set_point
  <1>3. raced' \in BOOLEAN
    BY DEF TypeInv, TypeOK, set_point, Interrupts
  <1> QED BY <1>1, <1>2, <1>3

LEMMA StartType ==
    ASSUME TypeInv, NEW g \in Greenlets, start_service(g)
    PROVE  /\ is_active' \in BOOLEAN /\ service_setpoints' \in Nat
           /\ work' \in [Greenlets -> Setpoints]
  BY WriteType DEF TypeInv, TypeOK, start_service, Writes

LEMMA StopType ==
    ASSUME TypeInv, NEW g \in Greenlets, stop_service(g)
    PROVE  /\ is_active' \in BOOLEAN /\ service_setpoints' \in Nat
           /\ work' \in [Greenlets -> Setpoints]
  BY WriteType DEF TypeInv, TypeOK, stop_service, Writes

LEMMA StopsType == TypeOK => stop \in [Chains -> Transition \cup {None}]
  BY DEF TypeOK, stop

LEMMA InitType == Init => TypeInv
  <1> SUFFICES ASSUME Init PROVE TypeInv
    OBVIOUS
  <1>1. now \in Time /\ set_points \in Nat /\ service_setpoints \in Nat /\ Numbered
    BY AfterHoursAssumption DEF Init, Time, Numbered
  <1>2. /\ work \in [Greenlets -> Setpoints] /\ device \in Setpoints
        /\ chain \in [Chains -> Transition \cup {None}] /\ event \in Chains \cup {NoChain}
    BY DEF Init, Setpoints, Nothing
  <1>3. /\ updates \in 0..MaxUpdates /\ pushes \in 0..MaxPushes
        /\ faults \in 0..MaxFaults /\ restarts \in 0..MaxRestarts
    BY AfterHoursAssumption DEF Init
  <1> QED BY <1>1, <1>2, <1>3 DEF Init, TypeInv, TypeOK

LEMMA ReplaceType ==
    ASSUME TypeInv, NEW S \in SUBSET Time, Replace(S, is_active)
    PROVE  /\ schedule' \subseteq Time /\ last_state' \in BOOLEAN /\ unenforced' \in BOOLEAN
           /\ is_active' \in BOOLEAN /\ service_setpoints' \in Nat
           /\ work' \in [Greenlets -> Setpoints]
           /\ chain' \in [Chains -> Transition \cup {None}]
           /\ event' \in Chains \cup {NoChain}
  <1>1. schedule' \subseteq Time /\ last_state' \in BOOLEAN /\ unenforced' \in BOOLEAN
    BY DEF Replace
  <1>2. PICK k \in Chains :
           IF now \in S
           THEN start_service(Update) /\ chain' = stop /\ event' = NoChain
           ELSE /\ _schedule_next_transition(S, k, stop)
                /\ is_active' = is_active
                /\ UNCHANGED <<service_setpoints, work>>
    BY DEF Replace
  <1>3. Update \in Greenlets /\ now \in Time
    BY DEF Greenlets, TypeInv, TypeOK
  <1>4. CASE now \in S
    BY <1>1, <1>2, <1>3, <1>4, StartType, StopsType DEF TypeInv
  <1>5. CASE now \notin S
    <2>1. /\ chain' \in [Chains -> Transition \cup {None}]
          /\ event' \in Chains \cup {NoChain}
      BY <1>2, <1>3, <1>5, ChainType, StopsType DEF TypeInv
    <2> QED BY <1>1, <1>2, <1>5, <2>1 DEF TypeInv, TypeOK
  <1> QED BY <1>4, <1>5

LEMMA StepType == TypeInv /\ [Next]_vars => TypeInv'
  <1> SUFFICES ASSUME TypeInv, [Next]_vars PROVE TypeInv'
    OBVIOUS
  <1>a. /\ Update \in Greenlets /\ Push \in Greenlets /\ Repeat \in Greenlets
        /\ Chains \subseteq Greenlets
    BY DEF Greenlets
  <1>b. /\ now \in Time /\ schedule \in SUBSET Time /\ after_hours_schedule \in SUBSET Time
        /\ set_points \in Nat
    BY DEF TypeInv, TypeOK
  <1>1. ASSUME NEW k \in Chains, _fire(k) PROVE TypeInv'
    <2>1. /\ is_active' \in BOOLEAN /\ service_setpoints' \in Nat
          /\ work' \in [Greenlets -> Setpoints]
      BY <1>1, <1>a, StartType, StopType DEF _fire
    <2> QED
      BY <1>1, <2>1 DEF _fire, Interrupts, TypeInv, TypeOK, Numbered, stored, events, bounds
  <1>2. ASSUME NEW k \in Chains, Fired(k) PROVE TypeInv'
    <2>1. /\ chain' \in [Chains -> Transition \cup {None}]
          /\ event' \in Chains \cup {NoChain}
      BY <1>2, <1>b, ChainType DEF Fired, TypeInv, TypeOK
    <2>2. chain[k].on \in BOOLEAN
      <3>1. chain[k] \in Transition \cup {None}
        BY DEF TypeInv, TypeOK
      <3>2. \A x \in Transition : x.on \in BOOLEAN
        BY DEF Transition
      <3>3. None.on \in BOOLEAN
        BY DEF None
      <3> QED BY <3>1, <3>2, <3>3
    <2> QED
      BY <1>2, <1>a, <2>1, <2>2, SetPointType
         DEF Fired, TypeInv, TypeOK, Numbered, stored
  <1>3. ASSUME NEW S \in Schedules, set_service_schedule(S) PROVE TypeInv'
    <2>1. S \in SUBSET Time
      BY AfterHoursAssumption
    <2>2. /\ schedule' \subseteq Time /\ last_state' \in BOOLEAN /\ unenforced' \in BOOLEAN
          /\ is_active' \in BOOLEAN /\ service_setpoints' \in Nat
          /\ work' \in [Greenlets -> Setpoints]
          /\ chain' \in [Chains -> Transition \cup {None}]
          /\ event' \in Chains \cup {NoChain}
      BY <1>3, <2>1, ReplaceType DEF set_service_schedule
    <2>3. updates' \in 0..MaxUpdates
      BY <1>3, AfterHoursAssumption DEF set_service_schedule, TypeInv, TypeOK
    <2> QED
      BY <1>3, <2>1, <2>2, <2>3
         DEF set_service_schedule, Interrupts, TypeInv, TypeOK, Numbered
  <1>4. ASSUME Enforced PROVE TypeInv'
    <2>1. /\ chain' \in [Chains -> Transition \cup {None}]
          /\ event' \in Chains \cup {NoChain}
      BY <1>4, <1>b, ChainType DEF Enforced, TypeInv, TypeOK
    <2> QED
      BY <1>4, <1>a, <2>1, SetPointType DEF Enforced, TypeInv, TypeOK, Numbered
  <1>5. ASSUME set_temperature_setpoints PROVE TypeInv'
    <2>1. set_points' \in Nat /\ set_points' > 0
      BY <1>5, <1>b DEF set_temperature_setpoints, TypeInv, Numbered
    <2>2. work' \in [Greenlets -> Setpoints]
      BY <1>5, <2>1, <1>a, WriteType DEF set_temperature_setpoints, Writes, TypeInv, TypeOK
    <2>3. pushes' \in 0..MaxPushes
      BY <1>5, AfterHoursAssumption DEF set_temperature_setpoints, TypeInv, TypeOK
    <2> QED
      BY <1>5, <2>1, <2>2, <2>3
         DEF set_temperature_setpoints, Interrupts, mode, events, TypeInv, TypeOK, Numbered
  <1>6. ASSUME validate_setpoints PROVE TypeInv'
    <2>1. work' \in [Greenlets -> Setpoints]
      BY <1>6, <1>a, <1>b, WriteType DEF validate_setpoints, Writes, TypeInv, TypeOK
    <2> QED
      BY <1>6, <2>1
         DEF validate_setpoints, Interrupts, stored, mode, events, bounds, TypeInv, TypeOK, Numbered
  <1>7. ASSUME NEW g \in {Push, Repeat}, Written(g) PROVE TypeInv'
    BY <1>7, <1>a, SetPointType DEF Written, stored, mode, events, TypeInv, TypeOK, Numbered
  <1>8. ASSUME Tick PROVE TypeInv'
    <2>1. now' \in Time
      BY <1>8, <1>b, ModTime, AfterHoursAssumption DEF Tick, Time
    <2> QED
      BY <1>8, <2>1
         DEF Tick, Interrupts, stored, mode, events, bounds, TypeInv, TypeOK, Numbered
  <1>9. ASSUME Restart PROVE TypeInv'
    <2> DEFINE on == now \in after_hours_schedule
    <2>1. [c \in Chains |-> None] \in [Chains -> Transition \cup {None}]
      OBVIOUS
    <2>2. /\ chain' \in [Chains -> Transition \cup {None}]
          /\ event' \in Chains \cup {NoChain}
      <3>1. CASE on
        BY <1>9, <3>1, <2>1 DEF Restart
      <3>2. CASE ~on
        BY <1>9, <3>2, <2>1, <1>b, ChainType DEF Restart
      <3> QED BY <3>1, <3>2
    <2>3. work' \in [Greenlets -> Setpoints]
      BY <1>9, <1>b, WriteType DEF Restart
    <2>4. restarts' \in 0..MaxRestarts
      BY <1>9, AfterHoursAssumption DEF Restart, TypeInv, TypeOK
    <2>5. /\ schedule' \subseteq Time /\ is_active' \in BOOLEAN /\ last_state' \in BOOLEAN
          /\ service_setpoints' \in Nat /\ raced' \in BOOLEAN /\ unenforced' \in BOOLEAN
      <3>1. /\ schedule' = after_hours_schedule /\ service_setpoints' = set_points
            /\ is_active' = on /\ last_state' = FALSE
            /\ raced' = FALSE /\ unenforced' = FALSE
        BY <1>9 DEF Restart
      <3>2. on \in BOOLEAN
        OBVIOUS
      <3>3. is_active' \in BOOLEAN
        BY <3>1, <3>2
      <3> HIDE DEF on
      <3> QED BY <3>1, <3>3, <1>b
    <2>6. /\ UNCHANGED <<now, after_hours_schedule, set_points, device, updates, pushes, faults>>
      BY <1>9 DEF Restart, stored
    <2> QED
      BY <2>2, <2>3, <2>4, <2>5, <2>6 DEF TypeInv, TypeOK, Numbered
  <1>10. CASE UNCHANGED vars
    BY <1>10 DEF vars, stored, mode, events, bounds, TypeInv, TypeOK, Numbered
  <1> QED
    BY <1>1, <1>2, <1>3, <1>4, <1>5, <1>6, <1>7, <1>8, <1>9, <1>10 DEF Next

\* The state of the scheduler, of the writers and of the unit is what it is meant
\* to be, for any schedules and any number of overlapping writes.
THEOREM TypeCorrect == Spec => []TypeOK
  <1>1. TypeInv => TypeOK
    BY DEF TypeInv
  <1> QED BY <1>1, InitType, StepType, PTL DEF Spec

-----------------------------------------------------------------------------
(* The next transition *)

\* After a tick without a change the next transition is still the same.
LEMMA NextKept ==
    ASSUME NEW S \in SUBSET Time, Changes(S), NEW t \in Time,
           NEW u, u = (t + 1) % Period
    PROVE  \/ _next_transition(S, u) = _next_transition(S, t)
           \/ _next_transition(S, t).at = u
  <1>1. Period \in Nat \ {0} /\ t \in Nat /\ t < Period
    BY AfterHoursAssumption DEF Time
  <1>2. Distance(S, t) \in 1..Period
    BY DistanceIsFirst DEF IsFirst
  <1>3. CASE Distance(S, t) = 1
    BY <1>3 DEF _next_transition
  <1>4. CASE Distance(S, t) # 1
    <2>1. Distance(S, u) = Distance(S, t) - 1
      BY <1>4, DistanceStep
    <2>2. u = IF t + 1 < Period THEN t + 1 ELSE 0
      BY <1>1, ModTwice
    <2>3. (u + Distance(S, u)) % Period = (t + Distance(S, t)) % Period
      BY <1>1, <1>2, <1>4, <2>1, <2>2, ModTwice
    <2> QED BY <2>3 DEF _next_transition
  <1> QED BY <1>3, <1>4

\* A write that begins is one.
LEMMA StartsWrite ==
    ASSUME TypeInv, NEW g \in Greenlets, start_service(g) \/ stop_service(g)
    PROVE  /\ Busy(g)'
           /\ \A h \in Greenlets \ {g} : work'[h] = work[h]
  BY WriteType DEF TypeInv, TypeOK, Numbered, start_service, stop_service, Writes, Busy

LEMMA EndsWrite ==
    ASSUME TypeInv, NEW g \in Greenlets, set_point(g)
    PROVE  /\ ~Busy(g)'
           /\ \A h \in Greenlets \ {g} : work'[h] = work[h]
  BY DEF TypeInv, TypeOK, set_point, Writes, Busy

\* The part of Replace and of the others that schedules a transition.
LEMMA SilenceBroken ==
    ASSUME TypeInv, NEW S \in SUBSET Time, NEW k \in Chains,
           NEW pending \in [Chains -> Transition \cup {None}],
           _schedule_next_transition(S, k, pending), schedule' = S, now' = now
    PROVE  NextIsScheduled'
  <1>1. chain'[k] = _next_transition(schedule', now')
    BY DEF _schedule_next_transition
  <1> QED BY <1>1 DEF NextIsScheduled

\* A callback that begins is busy, one that ends schedules; an update does either;
\* a tick brings the next transition or leaves it.
LEMMA StepScheduled ==
    ASSUME TypeInv, NextIsScheduled, [Next]_vars
    PROVE  NextIsScheduled'
  <1>a. /\ Update \in Greenlets /\ Push \in Greenlets /\ Repeat \in Greenlets
        /\ Chains \subseteq Greenlets /\ {Update, Push, Repeat} \cap Chains = {}
        /\ Update # Push /\ Update # Repeat
    BY AfterHoursAssumption DEF Greenlets, Update, Push, Repeat
  <1>b. /\ now \in Time /\ schedule \in SUBSET Time /\ after_hours_schedule \in SUBSET Time
        /\ chain \in [Chains -> Transition \cup {None}]
    BY DEF TypeInv, TypeOK
  <1>1. ASSUME NEW k \in Chains, _fire(k) PROVE NextIsScheduled'
    <2>1. Busy(k)'
      BY <1>1, <1>a, StartsWrite DEF _fire
    <2> QED BY <2>1 DEF NextIsScheduled
  <1>2. ASSUME NEW k \in Chains, Fired(k) PROVE NextIsScheduled'
    BY <1>2, <1>b, SilenceBroken DEF Fired
  <1>3. ASSUME NEW S \in Schedules, set_service_schedule(S) PROVE NextIsScheduled'
    <2>1. S \in SUBSET Time /\ schedule' = S /\ now' = now
      BY <1>3, AfterHoursAssumption DEF set_service_schedule, Replace
    <2>2. PICK k \in Chains :
             IF now \in S THEN start_service(Update)
             ELSE _schedule_next_transition(S, k, stop)
      BY <1>3 DEF set_service_schedule, Replace
    <2>3. CASE now \in S
      <3>1. Busy(Update)'
        BY <2>2, <2>3, <1>a, StartsWrite
      <3> QED BY <3>1 DEF NextIsScheduled
    <2>4. CASE now \notin S
      BY <2>1, <2>2, <2>4, StopsType, SilenceBroken DEF TypeInv
    <2> QED BY <2>3, <2>4
  <1>4. ASSUME Enforced PROVE NextIsScheduled'
    BY <1>4, <1>b, SilenceBroken DEF Enforced
  <1>5. ASSUME UNCHANGED <<now, schedule, chain>>,
               \A k \in Chains : work'[k] = work[k], Busy(Update)' = Busy(Update)
        PROVE  NextIsScheduled'
    BY <1>5 DEF NextIsScheduled, Busy
  <1>6. CASE set_temperature_setpoints \/ validate_setpoints
    <2>1. UNCHANGED <<now, schedule, chain>>
      BY <1>6 DEF set_temperature_setpoints, validate_setpoints, events
    <2>2. /\ \A k \in Chains : work'[k] = work[k]
          /\ work'[Update] = work[Update]
      BY <1>6, <1>a DEF set_temperature_setpoints, validate_setpoints, Writes, TypeInv, TypeOK
    <2> QED BY <1>5, <2>1, <2>2 DEF Busy
  <1>7. ASSUME NEW g \in {Push, Repeat}, Written(g) PROVE NextIsScheduled'
    <2>1. UNCHANGED <<now, schedule, chain>>
      BY <1>7 DEF Written, events
    <2>2. /\ \A k \in Chains : work'[k] = work[k]
          /\ work'[Update] = work[Update]
      BY <1>7, <1>a DEF Written, set_point, Writes, TypeInv, TypeOK
    <2> QED BY <1>5, <2>1, <2>2 DEF Busy
  <1>8. ASSUME Tick PROVE NextIsScheduled'
    <2> SUFFICES ASSUME Changes(schedule'), ~Busy(Update)'
                 PROVE  \E k \in Chains : \/ Busy(k)' \/ chain'[k] = _next_transition(schedule', now')
                                          \/ (chain'[k] # None /\ chain'[k].at = now')
      BY DEF NextIsScheduled
    <2>1. UNCHANGED <<schedule, chain, work>> /\ now' = (now + 1) % Period
      BY <1>8 DEF Tick, events
    <2>2. PICK k \in Chains : \/ Busy(k) \/ chain[k] = _next_transition(schedule, now)
                              \/ (chain[k] # None /\ chain[k].at = now)
      BY <2>1 DEF NextIsScheduled, Busy
    <2>3. CASE Busy(k)
      BY <2>1, <2>3 DEF Busy
    <2>4. CASE chain[k] # None /\ chain[k].at = now
      BY <1>8, <2>1, <2>4 DEF Tick, Busy
    <2>5. CASE chain[k] = _next_transition(schedule, now)
      <3>1. \/ _next_transition(schedule, now') = _next_transition(schedule, now)
            \/ _next_transition(schedule, now).at = now'
        BY <1>b, <2>1, NextKept
      <3>2. _next_transition(schedule, now) # None
        BY <1>b, <2>1, NextType
      <3> QED BY <2>1, <2>5, <3>1, <3>2
    <2> QED BY <2>2, <2>3, <2>4, <2>5
  <1>9. ASSUME Restart PROVE NextIsScheduled'
    <2>1. schedule' = after_hours_schedule /\ now' = now
      BY <1>9 DEF Restart
    <2>2. CASE now \in after_hours_schedule
      <3>1. work'[Update] = [service |-> TRUE, version |-> set_points]
        BY <1>9, <1>a, <2>2 DEF Restart
      <3>2. Busy(Update)'
        BY <3>1 DEF Busy, Nothing
      <3> QED BY <3>2 DEF NextIsScheduled
    <2>3. CASE now \notin after_hours_schedule
      <3>1. PICK k \in Chains :
               _schedule_next_transition(after_hours_schedule, k, [c \in Chains |-> None])
        BY <1>9, <2>3 DEF Restart
      <3> QED BY <1>b, <2>1, <3>1, SilenceBroken
    <2> QED BY <2>2, <2>3
  <1>10. CASE UNCHANGED vars
    BY <1>5, <1>10 DEF vars, events, Busy
  <1> QED
    BY <1>1, <1>2, <1>3, <1>4, <1>6, <1>7, <1>8, <1>9, <1>10 DEF Next

\* Whatever overlaps with what, the scheduler never falls silent: while the schedule
\* changes at all, its next transition is pending, due, or about to be scheduled by
\* a callback or an update that is writing.
THEOREM NeverSilent == Spec => []NextIsScheduled
  <1>1. Init => NextIsScheduled
    BY DEF Init, NextIsScheduled, Changes
  <1>2. TypeInv /\ NextIsScheduled /\ [Next]_vars => NextIsScheduled'
    BY StepScheduled
  <1> QED BY <1>1, <1>2, InitType, StepType, PTL DEF Spec

-----------------------------------------------------------------------------
(* One chain *)

\* A chain that writes has a transition, and while the server's update writes no
\* chain has one, unless writes overlapped.
ChainsAreOwned ==
    /\ \A k \in Chains : Busy(k) => chain[k] # None
    /\ ~raced /\ Busy(Update) => \A k \in Chains : chain[k] = None

ChainInv == OneChain /\ ChainsAreOwned

\* A step that interrupts nobody.
LEMMA Alone ==
    ASSUME NEW g, Interrupts(g), ~raced'
    PROVE  ~raced /\ \A h \in Greenlets \ {g} : ~Busy(h)
  BY DEF Interrupts

\* The chain that is scheduled is the only one, if the others have no transition.
LEMMA OnlyOne ==
    ASSUME TypeInv, NEW S \in SUBSET Time, NEW k \in Chains,
           NEW pending \in [Chains -> Transition \cup {None}],
           _schedule_next_transition(S, k, pending),
           \A c \in Chains \ {k} : pending[c] = None
    PROVE  OneChain'
  <1>1. chain' = [pending EXCEPT ![k] = _next_transition(S, now)]
    BY DEF _schedule_next_transition
  <1>2. CASE Changes(S)
    <2>1. event' = k
      BY <1>2 DEF _schedule_next_transition
    <2> QED BY <1>1, <2>1 DEF OneChain
  <1>3. CASE ~Changes(S)
    <2>1. _next_transition(S, now) = None
      BY <1>3 DEF _next_transition
    <2> QED BY <1>1, <2>1 DEF OneChain
  <1> QED BY <1>2, <1>3

\* Cancelling the event that is held cancels all there is, when there is one chain.
LEMMA StopsAll ==
    ASSUME OneChain, ~raced, \A k \in Chains : ~Busy(k)
    PROVE  \A k \in Chains : stop[k] = None
  BY DEF OneChain, stop

\* A step that leaves the chains and the writes of callbacks and updates alone.
LEMMA OtherWriter ==
    ASSUME ChainInv, UNCHANGED events,
           \A k \in Chains : work'[k] = work[k], work'[Update] = work[Update], raced => raced'
    PROVE  ChainInv'
  BY DEF ChainInv, OneChain, ChainsAreOwned, events, Busy

\* A callback schedules after itself, an update after it cancelled the others.
LEMMA StepOneChain ==
    ASSUME TypeInv, ChainInv, [Next]_vars
    PROVE  ChainInv'
  <1>a. /\ Update \in Greenlets /\ Push \in Greenlets /\ Repeat \in Greenlets
        /\ Chains \subseteq Greenlets /\ {Update, Push, Repeat} \cap Chains = {}
        /\ Update # Push /\ Update # Repeat
    BY AfterHoursAssumption DEF Greenlets, Update, Push, Repeat
  <1>b. /\ now \in Time /\ schedule \in SUBSET Time /\ after_hours_schedule \in SUBSET Time
        /\ chain \in [Chains -> Transition \cup {None}]
    BY DEF TypeInv, TypeOK
  <1>1. ASSUME NEW k \in Chains, _fire(k) PROVE ChainInv'
    <2>1. /\ UNCHANGED events /\ chain[k] # None /\ Interrupts(k)
          /\ \A h \in Greenlets \ {k} : work'[h] = work[h]
      BY <1>1, <1>a, StartsWrite DEF _fire
    <2>2. OneChain'
      BY <2>1, Alone DEF ChainInv, OneChain, events
    <2>3. \A c \in Chains : Busy(c)' => chain'[c] # None
      BY <2>1, <1>a DEF ChainInv, ChainsAreOwned, events, Busy
    <2>4. ~raced' => ~Busy(Update)'
      BY <2>1, <1>a, Alone DEF Busy
    <2> QED BY <2>2, <2>3, <2>4 DEF ChainInv, ChainsAreOwned
  <1>2. ASSUME NEW k \in Chains, Fired(k) PROVE ChainInv'
    <2>1. /\ Busy(k) /\ Interrupts(k) /\ _schedule_next_transition(schedule, k, chain)
          /\ ~Busy(k)' /\ \A h \in Greenlets \ {k} : work'[h] = work[h]
      BY <1>2, <1>a, EndsWrite DEF Fired, set_point
    <2>2. OneChain'
      <3> SUFFICES ASSUME ~raced' PROVE OneChain'
        BY DEF OneChain
      <3>1. \A c \in Chains \ {k} : chain[c] = None
        BY <2>1, Alone DEF ChainInv, OneChain, ChainsAreOwned
      <3> QED BY <1>b, <2>1, <3>1, OnlyOne
    <2>3. \A c \in Chains : Busy(c)' => chain'[c] # None
      BY <2>1, <1>a, <1>b DEF ChainInv, ChainsAreOwned, Busy, _schedule_next_transition
    <2>4. ~raced' => ~Busy(Update)'
      BY <2>1, <1>a, Alone DEF Busy
    <2> QED BY <2>2, <2>3, <2>4 DEF ChainInv, ChainsAreOwned
  <1>3. ASSUME NEW S \in Schedules, set_service_schedule(S) PROVE ChainInv'
    <2>1. S \in SUBSET Time /\ Interrupts(Update)
      BY <1>3, AfterHoursAssumption DEF set_service_schedule
    <2>2. PICK k \in Chains :
             /\ stop[k] = None
             /\ IF now \in S
                THEN start_service(Update) /\ chain' = stop /\ event' = NoChain
                ELSE _schedule_next_transition(S, k, stop) /\ work' = work
      BY <1>3 DEF set_service_schedule, Replace
    <2>3. ~raced' => \A c \in Chains : stop[c] = None
      BY <2>1, <1>a, Alone, StopsAll DEF ChainInv
    <2>4. \A c \in Chains : Busy(c) => stop[c] # None
      BY DEF ChainInv, ChainsAreOwned, stop
    <2>5. stop \in [Chains -> Transition \cup {None}]
      BY StopsType DEF TypeInv
    <2>6. CASE now \in S
      <3>1. chain' = stop /\ \A c \in Chains : work'[c] = work[c]
        BY <2>2, <2>6, <1>a, StartsWrite
      <3> QED BY <2>3, <2>4, <3>1 DEF ChainInv, OneChain, ChainsAreOwned, Busy
    <2>7. CASE now \notin S
      <3>1. _schedule_next_transition(S, k, stop) /\ work' = work
        BY <2>2, <2>7
      <3>2. OneChain'
        <4> SUFFICES ASSUME ~raced' PROVE OneChain'
          BY DEF OneChain
        <4> QED BY <2>1, <2>3, <2>5, <3>1, OnlyOne
      <3>3. \A c \in Chains : Busy(c)' => chain'[c] # None
        BY <2>2, <2>4, <2>5, <3>1 DEF _schedule_next_transition, Busy
      <3>4. ~raced' => ~Busy(Update)'
        BY <1>3, <3>1 DEF set_service_schedule, Busy
      <3> QED BY <3>2, <3>3, <3>4 DEF ChainInv, ChainsAreOwned
    <2> QED BY <2>6, <2>7
  <1>4. ASSUME Enforced PROVE ChainInv'
    <2>1. /\ Busy(Update) /\ Interrupts(Update)
          /\ ~Busy(Update)' /\ \A h \in Greenlets \ {Update} : work'[h] = work[h]
      BY <1>4, <1>a, EndsWrite DEF Enforced, set_point
    <2>2. PICK k \in Chains : chain[k] = None /\ _schedule_next_transition(schedule, k, chain)
      BY <1>4 DEF Enforced
    <2>3. OneChain'
      <3> SUFFICES ASSUME ~raced' PROVE OneChain'
        BY DEF OneChain
      <3>1. \A c \in Chains : chain[c] = None
        BY <2>1, Alone DEF ChainInv, ChainsAreOwned
      <3> QED BY <1>b, <2>2, <3>1, OnlyOne
    <2>4. \A c \in Chains : Busy(c)' => chain'[c] # None
      BY <2>1, <2>2, <1>a, <1>b DEF ChainInv, ChainsAreOwned, Busy, _schedule_next_transition
    <2> QED BY <2>1, <2>3, <2>4 DEF ChainInv, ChainsAreOwned
  <1>5. CASE set_temperature_setpoints \/ validate_setpoints
    <2>1. UNCHANGED events /\ (raced => raced')
      BY <1>5 DEF set_temperature_setpoints, validate_setpoints, Interrupts
    <2>2. (\A k \in Chains : work'[k] = work[k]) /\ work'[Update] = work[Update]
      BY <1>5, <1>a DEF set_temperature_setpoints, validate_setpoints, Writes, TypeInv, TypeOK
    <2> QED BY <2>1, <2>2, OtherWriter
  <1>6. ASSUME NEW g \in {Push, Repeat}, Written(g) PROVE ChainInv'
    <2>1. UNCHANGED events /\ (raced => raced')
      BY <1>6 DEF Written, set_point, Interrupts
    <2>2. (\A k \in Chains : work'[k] = work[k]) /\ work'[Update] = work[Update]
      BY <1>6, <1>a DEF Written, set_point, Writes, TypeInv, TypeOK
    <2> QED BY <2>1, <2>2, OtherWriter
  <1>7. CASE Tick
    <2>1. UNCHANGED <<events, work>> /\ (raced => raced')
      BY <1>7 DEF Tick, Interrupts
    <2> QED BY <2>1, OtherWriter
  <1>8. CASE Restart
    <2>1. \A k \in Chains : work'[k] = Nothing
      BY <1>8, <1>a DEF Restart
    <2>2. CASE now \in after_hours_schedule
      <3>1. chain' = [c \in Chains |-> None]
        BY <1>8, <2>2 DEF Restart
      <3> QED BY <2>1, <3>1 DEF ChainInv, OneChain, ChainsAreOwned, Busy
    <2>3. CASE now \notin after_hours_schedule
      <3>1. PICK k \in Chains :
               _schedule_next_transition(after_hours_schedule, k, [c \in Chains |-> None])
        BY <1>8, <2>3 DEF Restart
      <3>2. OneChain'
        BY <1>b, <3>1, OnlyOne
      <3>3. work'[Update] = Nothing
        BY <1>8, <1>a, <2>3 DEF Restart
      <3> QED BY <2>1, <3>2, <3>3 DEF ChainInv, ChainsAreOwned, Busy
    <2> QED BY <2>2, <2>3
  <1>9. CASE UNCHANGED vars
    BY <1>9, OtherWriter DEF vars
  <1> QED
    BY <1>1, <1>2, <1>3, <1>4, <1>5, <1>6, <1>7, <1>8, <1>9 DEF Next

\* As long as no write was overlapped the scheduler has one event, the one it can
\* cancel when the schedule is replaced.
THEOREM SingleEvent == Spec => []OneChain
  <1>1. Init => ChainInv
    BY DEF Init, ChainInv, OneChain, ChainsAreOwned, Busy, Greenlets
  <1>2. TypeInv /\ ChainInv /\ [Next]_vars => ChainInv'
    BY StepOneChain
  <1>3. ChainInv => OneChain
    BY DEF ChainInv
  <1> QED BY <1>1, <1>2, <1>3, InitType, StepType, PTL DEF Spec

-----------------------------------------------------------------------------
(* The schedule is followed *)

\* A transition of a chain goes where the schedule goes.
TransitionsAgree ==
    ~raced => \A k \in Chains : chain[k] # None => chain[k].on = (chain[k].at \in schedule)

\* Outside of writes that are due, the service is where the schedule is.
ServiceAgrees ==
    ~raced /\ ~unenforced /\ (\A k \in Chains : chain[k] # None /\ chain[k].at = now => Busy(k))
        => is_active = (now \in schedule)

FollowInv == TransitionsAgree /\ ServiceAgrees

LEMMA NextAgrees ==
    ASSUME NEW S, _next_transition(S, now) # None
    PROVE  _next_transition(S, now).on = (_next_transition(S, now).at \in S)
  BY DEF _next_transition

LEMMA ChainAgrees ==
    ASSUME NEW S \in SUBSET Time, NEW k \in Chains,
           NEW pending \in [Chains -> Transition \cup {None}],
           _schedule_next_transition(S, k, pending), schedule' = S,
           ~raced' => \A c \in Chains \ {k} : pending[c] = None
    PROVE  TransitionsAgree'
  BY NextAgrees DEF _schedule_next_transition, TransitionsAgree

\* A tick that is no transition of S does not change what S says.
LEMMA NoChange ==
    ASSUME NEW S \in SUBSET Time, Changes(S), NEW t \in Time,
           NEW u, u = (t + 1) % Period, _next_transition(S, t).at # u
    PROVE  (u \in S) = (t \in S)
  <1>1. Period \in Nat \ {0} /\ t \in Nat /\ t < Period
    BY AfterHoursAssumption DEF Time
  <1>2. IsFirst(S, t, Distance(S, t))
    BY DistanceIsFirst
  <1>3. Distance(S, t) # 1
    BY DEF _next_transition
  <1>4. 1 \in 1..(Distance(S, t) - 1)
    BY <1>1, <1>2, <1>3 DEF IsFirst
  <1>5. On(S, t + 1) = On(S, t + 1 - 1)
    BY <1>2, <1>4 DEF IsFirst
  <1>6. t + 1 - 1 = t /\ t % Period = t
    BY <1>1, ModTwice
  <1> QED BY <1>5, <1>6 DEF On

\* A step of the other writers.
LEMMA OtherFollows ==
    ASSUME FollowInv, UNCHANGED <<now, schedule, chain, is_active, unenforced>>,
           \A k \in Chains : work'[k] = work[k], raced => raced'
    PROVE  FollowInv'
  BY DEF FollowInv, TransitionsAgree, ServiceAgrees, Busy

\* The clock is the step that matters: what it passes is no transition, since that
\* one is pending in a chain and would be due.
LEMMA StepFollows ==
    ASSUME TypeInv, NextIsScheduled, ChainInv, FollowInv, [Next]_vars
    PROVE  FollowInv'
  <1>a. /\ Update \in Greenlets /\ Push \in Greenlets /\ Repeat \in Greenlets
        /\ Chains \subseteq Greenlets /\ {Update, Push, Repeat, "clock"} \cap Chains = {}
        /\ "clock" \notin Greenlets
    BY AfterHoursAssumption DEF Greenlets, Update, Push, Repeat
  <1>b. /\ now \in Time /\ schedule \in SUBSET Time /\ after_hours_schedule \in SUBSET Time
        /\ chain \in [Chains -> Transition \cup {None}] /\ is_active \in BOOLEAN
    BY DEF TypeInv, TypeOK
  <1>1. ASSUME NEW k \in Chains, _fire(k) PROVE FollowInv'
    <2>1. /\ UNCHANGED <<now, schedule, chain>> /\ Interrupts(k)
          /\ chain[k] # None /\ chain[k].at = now
      BY <1>1 DEF _fire, events
    <2>2. TransitionsAgree'
      BY <2>1, Alone DEF FollowInv, TransitionsAgree
    <2>3. ~raced' => is_active' = (now' \in schedule')
      <3> SUFFICES ASSUME ~raced' PROVE is_active' = (now \in schedule)
        BY <2>1
      <3>1. chain[k].on = (now \in schedule)
        BY <2>1, Alone DEF FollowInv, TransitionsAgree
      <3>2. CASE chain[k].on
        <4>1. is_active' = TRUE
          BY <1>1, <3>2 DEF _fire, start_service
        <4> QED BY <3>1, <3>2, <4>1
      <3>3. CASE ~chain[k].on
        <4>1. is_active' = FALSE
          BY <1>1, <3>3 DEF _fire, stop_service
        <4>2. now \notin schedule
          BY <3>1, <3>3
        <4>3. (now \in schedule) = FALSE
          BY <4>2
        <4> QED BY <4>1, <4>3
      <3> QED BY <3>2, <3>3
    <2> QED BY <2>2, <2>3 DEF FollowInv, ServiceAgrees
  <1>2. ASSUME NEW k \in Chains, Fired(k) PROVE FollowInv'
    <2>1. /\ UNCHANGED <<now, schedule, is_active, unenforced>> /\ Interrupts(k) /\ Busy(k)
          /\ _schedule_next_transition(schedule, k, chain)
      BY <1>2 DEF Fired, set_point
    <2>2. ~raced' => ~raced /\ \A c \in Chains \ {k} : chain[c] = None
      BY <2>1, Alone DEF ChainInv, OneChain, ChainsAreOwned
    <2>3. TransitionsAgree'
      BY <1>b, <2>1, <2>2, ChainAgrees
    <2>4. ServiceAgrees'
      BY <2>1, <2>2 DEF FollowInv, ServiceAgrees
    <2> QED BY <2>3, <2>4 DEF FollowInv
  <1>3. ASSUME NEW S \in Schedules, set_service_schedule(S) PROVE FollowInv'
    <2>1. /\ S \in SUBSET Time /\ Interrupts(Update)
          /\ now' = now /\ schedule' = S /\ unenforced' = (is_active /\ now \notin S)
      BY <1>3, AfterHoursAssumption DEF set_service_schedule, Replace
    <2>2. PICK k \in Chains :
             IF now \in S
             THEN start_service(Update) /\ chain' = stop
             ELSE _schedule_next_transition(S, k, stop) /\ is_active' = is_active
      BY <1>3 DEF set_service_schedule, Replace
    <2>3. ~raced' => \A c \in Chains : stop[c] = None
      BY <2>1, <1>a, Alone, StopsAll DEF ChainInv
    <2>4. CASE now \in S
      <3>1. chain' = stop /\ is_active' = TRUE
        BY <2>2, <2>4 DEF start_service
      <3> QED BY <2>1, <2>3, <2>4, <3>1 DEF FollowInv, TransitionsAgree, ServiceAgrees
    <2>5. CASE now \notin S
      <3>1. _schedule_next_transition(S, k, stop) /\ is_active' = is_active
        BY <2>2, <2>5
      <3>2. stop \in [Chains -> Transition \cup {None}]
        BY StopsType DEF TypeInv
      <3>3. TransitionsAgree'
        BY <2>1, <2>3, <3>1, <3>2, ChainAgrees
      <3>4. ServiceAgrees'
        BY <1>b, <2>1, <2>5, <3>1 DEF ServiceAgrees
      <3> QED BY <3>3, <3>4 DEF FollowInv
    <2> QED BY <2>4, <2>5
  <1>4. ASSUME Enforced PROVE FollowInv'
    <2>1. /\ UNCHANGED <<now, schedule, is_active, unenforced>> /\ Interrupts(Update)
          /\ Busy(Update)
      BY <1>4 DEF Enforced, set_point
    <2>2. PICK k \in Chains : _schedule_next_transition(schedule, k, chain)
      BY <1>4 DEF Enforced
    <2>3. ~raced' => ~raced /\ \A c \in Chains : chain[c] = None
      BY <2>1, Alone DEF ChainInv, ChainsAreOwned
    <2>4. TransitionsAgree'
      BY <1>b, <2>1, <2>2, <2>3, ChainAgrees
    <2>5. ServiceAgrees'
      BY <2>1, <2>3 DEF FollowInv, ServiceAgrees
    <2> QED BY <2>4, <2>5 DEF FollowInv
  <1>5. CASE set_temperature_setpoints \/ validate_setpoints
    <2>1. UNCHANGED <<now, schedule, chain, is_active, unenforced>> /\ (raced => raced')
      BY <1>5 DEF set_temperature_setpoints, validate_setpoints, Interrupts, mode, events
    <2>2. \A k \in Chains : work'[k] = work[k]
      BY <1>5, <1>a DEF set_temperature_setpoints, validate_setpoints, Writes, TypeInv, TypeOK
    <2> QED BY <2>1, <2>2, OtherFollows
  <1>6. ASSUME NEW g \in {Push, Repeat}, Written(g) PROVE FollowInv'
    <2>1. UNCHANGED <<now, schedule, chain, is_active, unenforced>> /\ (raced => raced')
      BY <1>6 DEF Written, set_point, Interrupts, mode, events
    <2>2. \A k \in Chains : work'[k] = work[k]
      BY <1>6, <1>a DEF Written, set_point, Writes, TypeInv, TypeOK
    <2> QED BY <2>1, <2>2, OtherFollows
  <1>7. ASSUME Tick PROVE FollowInv'
    <2>1. /\ UNCHANGED <<schedule, chain, is_active, unenforced, work>>
          /\ now' = (now + 1) % Period /\ Interrupts("clock")
      BY <1>7 DEF Tick, mode, events
    <2>2. ~raced' => ~raced /\ \A h \in Greenlets : ~Busy(h)
      BY <1>a, <2>1, Alone
    <2>3. TransitionsAgree'
      BY <2>1, <2>2 DEF FollowInv, TransitionsAgree
    <2>4. ServiceAgrees'
      <3> SUFFICES ASSUME ~raced', ~unenforced,
                          \A k \in Chains : ~(chain[k] # None /\ chain[k].at = now')
                   PROVE  is_active = (now' \in schedule)
        BY <1>a, <2>1, <2>2 DEF ServiceAgrees, Busy
      <3>1. \A k \in Chains : ~(chain[k] # None /\ chain[k].at = now)
        BY <1>7, <1>a, <2>2 DEF Tick
      <3>2. is_active = (now \in schedule)
        BY <2>2, <3>1 DEF FollowInv, ServiceAgrees
      <3>3. CASE Changes(schedule)
        <4>1. PICK k \in Chains : chain[k] = _next_transition(schedule, now)
          BY <1>a, <2>2, <3>1, <3>3 DEF NextIsScheduled
        <4>2. _next_transition(schedule, now).at # now'
          BY <1>b, <3>3, <4>1, NextType
        <4>3. (now' \in schedule) = (now \in schedule)
          BY <1>b, <2>1, <3>3, <4>2, NoChange
        <4> QED BY <3>2, <4>3
      <3>4. CASE ~Changes(schedule)
        <4>1. now' \in Time
          BY <1>b, <2>1, ModTime, AfterHoursAssumption DEF Time
        <4> QED BY <1>b, <3>2, <3>4, <4>1 DEF Changes
      <3> QED BY <3>3, <3>4
    <2> QED BY <2>3, <2>4 DEF FollowInv
  <1>8. ASSUME Restart PROVE FollowInv'
    <2>1. /\ schedule' = after_hours_schedule /\ now' = now
          /\ is_active' = (now \in after_hours_schedule)
      BY <1>8 DEF Restart
    <2>2. ServiceAgrees'
      BY <2>1 DEF ServiceAgrees
    <2>3. CASE now \in after_hours_schedule
      <3>1. chain' = [c \in Chains |-> None]
        BY <1>8, <2>3 DEF Restart
      <3> QED BY <2>2, <3>1 DEF FollowInv, TransitionsAgree
    <2>4. CASE now \notin after_hours_schedule
      <3>1. PICK k \in Chains :
               _schedule_next_transition(after_hours_schedule, k, [c \in Chains |-> None])
        BY <1>8, <2>4 DEF Restart
      <3>2. TransitionsAgree'
        BY <1>b, <2>1, <3>1, ChainAgrees
      <3> QED BY <2>2, <3>2 DEF FollowInv
    <2> QED BY <2>3, <2>4
  <1>9. CASE UNCHANGED vars
    BY <1>9, OtherFollows DEF vars, mode, events
  <1> QED
    BY <1>1, <1>2, <1>3, <1>4, <1>5, <1>6, <1>7, <1>8, <1>9 DEF Next

\* As long as no write was overlapped, and no schedule was replaced with the service
\* on by one that is off, the service is on exactly inside the windows.
THEOREM Followed == Spec => []FollowsSchedule
  <1>1. Init => FollowInv
    <2> SUFFICES ASSUME Init PROVE FollowInv
      OBVIOUS
    <2>1. TransitionsAgree
      BY DEF Init, TransitionsAgree
    <2>2. is_active = FALSE /\ schedule = {}
      BY DEF Init
    <2>3. now \notin schedule
      BY <2>2
    <2>4. (now \in schedule) = FALSE
      BY <2>3
    <2>5. is_active = (now \in schedule)
      BY <2>2, <2>4
    <2> QED BY <2>1, <2>5 DEF FollowInv, ServiceAgrees
  <1>2. Init => NextIsScheduled /\ ChainInv
    BY DEF Init, NextIsScheduled, Changes, ChainInv, OneChain, ChainsAreOwned, Busy, Greenlets
  <1>3. TypeInv /\ NextIsScheduled /\ ChainInv /\ FollowInv /\ [Next]_vars
            => NextIsScheduled' /\ ChainInv' /\ FollowInv'
    BY StepScheduled, StepOneChain, StepFollows
  <1>4. FollowInv => FollowsSchedule
    BY DEF FollowInv, ServiceAgrees, FollowsSchedule, Quiet, Due
  <1> QED BY <1>1, <1>2, <1>3, <1>4, InitType, StepType, PTL DEF Spec
=============================================================================
