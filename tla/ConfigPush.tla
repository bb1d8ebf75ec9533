----------------------------- MODULE ConfigPush -----------------------------
(***************************************************************************)
(* The configuration push of the server: ConfigService.task looks every    *)
(* ten seconds for units that are marked (stage Update or Process), takes  *)
(* a copy of all of them with their configurations, and pushes each to its *)
(* Manager agent in a series of calls, while users edit the same rows and  *)
(* mark the units through GraphQL mutations that write the data first and  *)
(* the stage later.                                                        *)
(*                                                                         *)
(* A row is known by its version.  A configuration stands for its record   *)
(* with the setpoint, schedules, holidays and occupancies it refers to.    *)
(***************************************************************************)
EXTENDS Integers, Sequences

CONSTANTS
    Units,           \* a smaller number was created later
    Configurations,
    ConfigurationOf, \* the configuration of each unit
    Calls,           \* the calls of a push, in their order: AllCalls or some of them
    Startup,         \* SERVICE_CONFIG_STARTUP: a new server marks every unit
    MaxEdits,        \* bound: edits of the data by users
    MaxFaults        \* bound: calls, publications and mutations that fail, restarts of the server

set_service_schedule == "set_service_schedule"

OfUnit == {"set_optimal_start", "set_configurations", "set_location"}

OfConfiguration ==
    {"set_temperature_setpoints", "set_occupancy_override", "set_holidays", "set_schedule",
     set_service_schedule}

\* Without serviceOverride the fifth call is not made.
AllCalls ==
    <<"set_temperature_setpoints", "set_occupancy_override", "set_holidays", "set_schedule",
      set_service_schedule, "set_optimal_start", "set_configurations", "set_location">>

Call == {Calls[i] : i \in DOMAIN Calls}

ASSUME ConfigPushAssumption ==
    /\ Units \subseteq Nat /\ Units # {}
    /\ ConfigurationOf \in [Units -> Configurations]
    /\ Calls \in Seq(OfUnit \cup OfConfiguration) /\ Calls # <<>>
    /\ \A i, j \in DOMAIN Calls : Calls[i] = Calls[j] => i = j
    /\ Startup \in BOOLEAN
    /\ MaxEdits \in Nat /\ MaxFaults \in Nat

VARIABLES
    \* the database
    exists,      \* the units that have not been deleted
    unitRow,     \* the version of each unit's row ...
    confRow,     \* ... and of each configuration
    stage,
    \* mutations that have written data
    marking,     \* how many are about to write stage Update of a unit
    finding,     \* how many are about to look for the unit of a configuration
    \* the task
    step,
    queue,       \* the units it found and has not finished
    taken,       \* the versions of the copy it found of each
    call,        \* which call it makes
    \* the Manager agents
    manager,     \* the version of each part, 0 before the first push
    late,        \* attempts at calls that timed out and may still be carried out
    edits, faults,
    overtaken    \* history: the parts that such an attempt set last

database  == <<exists, unitRow, confRow, stage>>
mutations == <<marking, finding>>
task_vars == <<step, queue, taken, call>>
edge      == <<manager, late, overtaken>>
bounds    == <<edits, faults>>
vars == <<database, mutations, task_vars, edge, bounds>>

Stage   == {"Create", "Update", "Process", "Complete", "Fail"}
Step    == {"idle", "auth", "begin", "calling", "complete", "published", "failed"}
Version == [unit : Nat, configuration : Nat]

TypeOK ==
    /\ exists \subseteq Units
    /\ unitRow \in [Units -> Nat] /\ confRow \in [Configurations -> Nat]
    /\ stage \in [Units -> Stage]
    /\ marking \in [Units -> Nat] /\ finding \in [Configurations -> Nat]
    /\ step \in Step
    /\ queue \subseteq Units
    /\ taken \in [Units -> Version]
    /\ call \in DOMAIN Calls
    /\ manager \in [Units -> [Call -> Nat]]
    /\ late \subseteq [unit : Units, part : Call, version : Nat]
    /\ edits \in 0..MaxEdits /\ faults \in 0..MaxFaults
    /\ overtaken \subseteq Units \X Call

-----------------------------------------------------------------------------
Marked(u) == stage[u] \in {"Update", "Process"}

Snapshot(u) == [unit |-> unitRow[u], configuration |-> confRow[ConfigurationOf[u]]]

\* What call p tells the Manager of the data in a copy v.
Payload(v, p) == IF p \in OfUnit THEN v.unit ELSE v.configuration

\* Newest first.
Current == CHOOSE u \in queue : \A v \in queue : u <= v

Fault == faults < MaxFaults /\ faults' = faults + 1 /\ UNCHANGED edits

\* How the mutations and the task write a stage.
Write(u, s) == stage' = [stage EXCEPT ![u] = s]

-----------------------------------------------------------------------------
(* The mutations of the users *)

Edited == edits < MaxEdits /\ edits' = edits + 1 /\ UNCHANGED faults

NewVersion(row, x) == [row EXCEPT ![x] = @ + 1]

\* The first write of updateUnit.  The setup page sends stage Update with the
\* data; otherwise the stage that write returns decides about a second one.
updateUnit(u, marked) ==
    /\ u \in exists /\ Edited
    /\ unitRow' = NewVersion(unitRow, u)
    /\ IF marked THEN Write(u, "Update") ELSE UNCHANGED stage
    /\ marking' = IF marked \/ stage[u] = "Update" THEN marking ELSE NewVersion(marking, u)
    /\ UNCHANGED <<exists, confRow, finding, task_vars, edge>>

\* The push button of the setup page: an update of the stage alone.
handlePush(u) ==
    /\ u \in exists
    /\ Write(u, "Update")
    /\ UNCHANGED <<exists, unitRow, confRow, mutations, task_vars, edge, bounds>>

updateConfiguration(c) ==
    /\ Edited
    /\ confRow' = NewVersion(confRow, c)
    /\ finding' = NewVersion(finding, c)
    /\ UNCHANGED <<exists, unitRow, stage, marking, task_vars, edge>>

\* updateSchedule, createOccupancy and the like mark nothing.
updateNested(c) ==
    /\ Edited
    /\ confRow' = NewVersion(confRow, c)
    /\ UNCHANGED <<exists, unitRow, stage, mutations, task_vars, edge>>

Done(count, x) == [count EXCEPT ![x] = @ - 1]

\* updateConfiguration asks for one unit of the configuration, whichever it is.
findFirst(c) ==
    /\ finding[c] > 0
    /\ finding' = Done(finding, c)
    /\ LET Found == {u \in exists : ConfigurationOf[u] = c}
       IN  IF Found = {} THEN UNCHANGED marking
           ELSE \E u \in Found :
                   marking' = IF stage[u] = "Update" THEN marking ELSE NewVersion(marking, u)
    /\ UNCHANGED <<database, task_vars, edge, bounds>>

\* The second write; the unit may be gone by then.
WriteUpdate(u) ==
    /\ marking[u] > 0
    /\ marking' = Done(marking, u)
    /\ IF u \in exists THEN Write(u, "Update") ELSE UNCHANGED stage
    /\ UNCHANGED <<exists, unitRow, confRow, finding, task_vars, edge, bounds>>

\* A publication or handleChange throws between the two writes.
MutationFails ==
    /\ Fault
    /\ \/ \E u \in Units : marking[u] > 0 /\ marking' = Done(marking, u) /\ UNCHANGED finding
       \/ \E c \in Configurations :
             finding[c] > 0 /\ finding' = Done(finding, c) /\ UNCHANGED marking
    /\ UNCHANGED <<database, task_vars, edge>>

deleteUnit(u) ==
    /\ u \in exists
    /\ exists' = exists \ {u}
    /\ UNCHANGED <<unitRow, confRow, stage, mutations, task_vars, edge, bounds>>

-----------------------------------------------------------------------------
(* ConfigService.task *)

GoTo(s) == step' = s /\ UNCHANGED <<queue, taken, call>>

\* The task returns; the next run of the cron starts another.
Return == step' = "idle" /\ queue' = {} /\ UNCHANGED <<taken, call>>

NextUnit ==
    /\ queue' = queue \ {Current}
    /\ step' = IF queue' = {} THEN "idle" ELSE "begin"
    /\ UNCHANGED <<taken, call>>

\* Mutant of findMany: the copies are kept from the run before.
findMany_cached ==
    /\ step = "idle"
    /\ \E u \in exists : Marked(u)
    /\ queue' = {u \in exists : Marked(u)}
    /\ taken' = [u \in Units |-> IF u \in queue' /\ taken[u].unit = 0 THEN Snapshot(u) ELSE taken[u]]
    /\ step' = "auth"
    /\ UNCHANGED <<database, mutations, call, edge, bounds>>

\* Mutant of findMany: only the newest marked unit is pushed.
findMany_newest ==
    /\ step = "idle"
    /\ \E u \in exists :
          /\ Marked(u) /\ \A v \in exists : Marked(v) => u <= v
          /\ queue' = {u}
          /\ taken' = [taken EXCEPT ![u] = Snapshot(u)]
    /\ step' = "auth"
    /\ UNCHANGED <<database, mutations, call, edge, bounds>>

\* The cron starts the task unless it is running; it copies all marked units.
findMany ==
    /\ step = "idle"
    /\ \E u \in exists : Marked(u)
    /\ queue' = {u \in exists : Marked(u)}
    /\ taken' = [u \in Units |-> IF u \in queue' THEN Snapshot(u) ELSE taken[u]]
    /\ step' = "auth"
    /\ UNCHANGED <<database, mutations, call, edge, bounds>>

makeAuthCall ==
    /\ step = "auth"
    /\ \/ GoTo("begin") /\ UNCHANGED bounds
       \/ Return /\ Fault
    /\ UNCHANGED <<database, mutations, edge>>

\* A unit that is gone makes the update throw, and then the one in the catch.
SetProcess ==
    /\ step = "begin"
    /\ IF Current \in exists
       THEN /\ Write(Current, "Process")
            /\ \/ step' = "calling" /\ call' = 1 /\ UNCHANGED <<queue, taken, bounds>>
               \/ GoTo("failed") /\ Fault
       ELSE Return /\ UNCHANGED <<stage, bounds>>
    /\ UNCHANGED <<exists, unitRow, confRow, mutations, edge>>

Value == Payload(taken[Current], Calls[call])

CarryOut ==
    /\ manager' = [manager EXCEPT ![Current][Calls[call]] = Value]
    /\ overtaken' = overtaken \ {<<Current, Calls[call]>>}

\* An attempt timed out on its way.
LeaveBehind == late' = late \cup {[unit |-> Current, part |-> Calls[call], version |-> Value]}

\* Mutant of NextCall: one call too many.
NextCall_more ==
    /\ step' = IF call > Len(Calls) THEN "complete" ELSE "calling"
    /\ call' = call + 1
    /\ UNCHANGED <<queue, taken>>

NextCall ==
    /\ step' = IF call = Len(Calls) THEN "complete" ELSE "calling"
    /\ call' = IF call = Len(Calls) THEN call ELSE call + 1
    /\ UNCHANGED <<queue, taken>>

\* An attempt succeeds, the first one or a retry.
makeApiCall ==
    /\ step = "calling"
    /\ CarryOut
    /\ NextCall
    /\ \/ UNCHANGED <<late, bounds>>
       \/ LeaveBehind /\ Fault
    /\ UNCHANGED <<database, mutations>>

\* None does, as far as the server knows: one may have been carried out all the
\* same, and one may still be.
GiveUp ==
    /\ CarryOut \/ UNCHANGED <<manager, overtaken>>
    /\ LeaveBehind \/ UNCHANGED late

\* Mutant of makeApiCallFails: no failure of a call stops the push.
makeApiCallFails_logged ==
    /\ step = "calling"
    /\ GiveUp
    /\ NextCall
    /\ Fault
    /\ UNCHANGED <<database, mutations>>

\* All attempts fail.  Only set_service_schedule has a catch of its own.
makeApiCallFails ==
    /\ step = "calling"
    /\ GiveUp
    /\ IF Calls[call] = set_service_schedule THEN NextCall ELSE GoTo("failed")
    /\ Fault
    /\ UNCHANGED <<database, mutations>>

SetComplete ==
    /\ step = "complete"
    /\ IF Current \in exists
       THEN Write(Current, "Complete") /\ GoTo("published")
       ELSE Return /\ UNCHANGED stage
    /\ UNCHANGED <<exists, unitRow, confRow, mutations, edge, bounds>>

\* The publications after it are awaited, inside the same try.
Published ==
    /\ step = "published"
    /\ \/ NextUnit /\ UNCHANGED bounds
       \/ GoTo("failed") /\ Fault
    /\ UNCHANGED <<database, mutations, edge>>

\* The catch; if its publications throw, so does the task.
SetFail ==
    /\ step = "failed"
    /\ IF Current \in exists
       THEN /\ Write(Current, "Fail")
            /\ \/ NextUnit /\ UNCHANGED bounds
               \/ Return /\ Fault
       ELSE Return /\ UNCHANGED <<stage, bounds>>
    /\ UNCHANGED <<exists, unitRow, confRow, mutations, edge>>

-----------------------------------------------------------------------------
(* The Manager agents and the server process *)

\* Another attempt at the same call may be under way as well.
LateCall ==
    /\ \E l \in late : /\ manager' = [manager EXCEPT ![l.unit][l.part] = l.version]
                       /\ late' \in {late, late \ {l}}
                       /\ overtaken' = overtaken \cup {<<l.unit, l.part>>}
    /\ UNCHANGED <<database, mutations, task_vars, bounds>>

\* Mutations and the task end where they are; onApplicationBootstrap follows.
Restart ==
    /\ Fault
    /\ marking' = [u \in Units |-> 0] /\ finding' = [c \in Configurations |-> 0]
    /\ Return
    /\ IF step = "calling" THEN GiveUp ELSE UNCHANGED edge
    /\ stage' = IF Startup THEN [u \in Units |-> IF u \in exists THEN "Process" ELSE stage[u]] ELSE stage
    /\ UNCHANGED <<exists, unitRow, confRow>>

Init ==
    /\ exists = Units
    /\ unitRow = [u \in Units |-> 1] /\ confRow = [c \in Configurations |-> 1]
    /\ stage \in [Units -> {"Create", "Update"}]
    /\ marking = [u \in Units |-> 0] /\ finding = [c \in Configurations |-> 0]
    /\ step = "idle" /\ queue = {} /\ call = 1
    /\ taken = [u \in Units |-> [unit |-> 0, configuration |-> 0]]
    /\ manager = [u \in Units |-> [p \in Call |-> 0]]
    /\ late = {} /\ overtaken = {}
    /\ edits = 0 /\ faults = 0

Task ==
    \/ findMany \/ makeAuthCall \/ SetProcess \/ makeApiCall \/ makeApiCallFails
    \/ SetComplete \/ Published \/ SetFail

Mutation ==
    \/ \E u \in Units : WriteUpdate(u) \/ handlePush(u) \/ deleteUnit(u)
    \/ \E u \in Units, marked \in BOOLEAN : updateUnit(u, marked)
    \/ \E c \in Configurations : updateConfiguration(c) \/ updateNested(c) \/ findFirst(c)
    \/ MutationFails

Next == Task \/ Mutation \/ LateCall \/ Restart

Spec == Init /\ [][Next]_vars

\* The cron keeps firing, and each await of the task is answered or fails.
\* Mutations under way get on as well.
Fairness ==
    /\ WF_vars(Task)
    /\ \A u \in Units : WF_vars(WriteUpdate(u))
    /\ \A c \in Configurations : WF_vars(findFirst(c))

FairSpec == Spec /\ Fairness

-----------------------------------------------------------------------------
(* Properties *)

Guarded == Call \ {set_service_schedule}

\* While a unit is shown as Complete its Manager holds every part its push took,
\* set_service_schedule apart, whatever users do meanwhile and whichever pushes
\* failed, were cut off or retried a call.  One thing takes that back: an attempt
\* that had timed out, of this push or an earlier one, is carried out after it.
\* The next push that delivers the part puts that right.
CompleteWasDelivered ==
    \A u \in Units, p \in Guarded :
        stage[u] = "Complete" /\ <<u, p>> \notin overtaken =>
            manager[u][p] = Payload(taken[u], p)

\* A unit marked while no push has a copy of it is delivered as it is now, or
\* something newer, or its push fails and says so.  Faults, restarts and the
\* deletion of another unit in the middle of a push only delay that.
MarkIsHonoured ==
    \A u \in Units, p \in Guarded, v \in 1..(MaxEdits + 1) :
        Marked(u) /\ u \notin queue /\ Payload(Snapshot(u), p) = v
            ~> manager[u][p] >= v \/ stage[u] = "Fail" \/ u \notin exists

\* Each part of each unit is given what PushPromise promises; the part of
\* set_service_schedule is optional.
Promise(u, p) == INSTANCE PushPromise WITH
    Optional  <- p = set_service_schedule,
    stage     <- stage[u],
    current   <- Payload(Snapshot(u), p),
    taken     <- IF u \in queue THEN Payload(taken[u], p) ELSE 0,
    held      <- manager[u][p],
    out       <- {l.version : l \in {k \in late : k.unit = u /\ k.part = p}},
    disturbed <- <<u, p>> \in overtaken

\* Promise(u, p)!Spec for all of them, in one step each.
KeepsPromise ==
    /\ \A u \in Units, p \in Call : Promise(u, p)!Init
    /\ [][\A u \in Units, p \in Call :
             Promise(u, p)!Next \/ UNCHANGED Promise(u, p)!vars]_vars
=============================================================================
