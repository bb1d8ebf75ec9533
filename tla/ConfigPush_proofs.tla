------------------------- MODULE ConfigPush_proofs -------------------------
(***************************************************************************)
(* Theorems about ConfigPush, for any units, configurations, series of     *)
(* calls and bounds.                                                       *)
(***************************************************************************)
EXTENDS ConfigPush, WellFoundedInduction, TLAPS

-----------------------------------------------------------------------------
(* The unit that is pushed.                                                *)
LEMMA CurrentInQueue == ASSUME queue \subseteq Units, queue # {} PROVE Current \in queue
  <1>1. queue \subseteq Nat
    BY ConfigPushAssumption
  <1>2. PICK u \in queue : \A v \in queue : <<v, u>> \notin OpToRel(<, Nat)
    BY <1>1, NatLessThanWellFounded, WFMin
  <1>3. \A v \in queue : ~(v < u)
    BY <1>1, <1>2 DEF OpToRel
  <1>4. \A v \in queue : u <= v
    BY <1>1, <1>3
  <1> QED BY <1>4 DEF Current

(* The task is idle exactly if its queue is empty, and gets to the calls of *)
(* a unit from the first one on.                                            *)
Working == queue = {} <=> step = "idle"

LEMMA ConstantFacts ==
    /\ Len(Calls) \in Nat /\ Len(Calls) >= 1 /\ DOMAIN Calls = 1..Len(Calls)
    /\ MaxEdits \in Nat /\ MaxFaults \in Nat
    /\ \A u \in Units : ConfigurationOf[u] \in Configurations
    /\ \A i \in DOMAIN Calls : Calls[i] \in Call
  BY ConfigPushAssumption DEF Call

LEMMA SnapshotType == TypeOK => \A u \in Units : Snapshot(u) \in Version
  BY ConstantFacts DEF TypeOK, Snapshot, Version

LEMMA PayloadType == \A v \in Version : \A p : Payload(v, p) \in Nat
  BY DEF Payload, Version

LEMMA InitType == Init => TypeOK /\ Working
  <1> SUFFICES ASSUME Init PROVE TypeOK /\ Working
    OBVIOUS
  <1>1. call \in DOMAIN Calls
    BY ConstantFacts DEF Init
  <1>2. edits \in 0..MaxEdits /\ faults \in 0..MaxFaults
    BY ConstantFacts DEF Init
  <1>3. stage \in [Units -> Stage]
    BY DEF Init, Stage
  <1>4. taken \in [Units -> Version]
    BY DEF Init, Version
  <1> QED BY <1>1, <1>2, <1>3, <1>4 DEF Init, TypeOK, Working, Step

-----------------------------------------------------------------------------
(* The mutations.                                                          *)
LEMMA BoundsType ==
    ASSUME TypeOK, Edited \/ Fault \/ UNCHANGED bounds
    PROVE  edits' \in 0..MaxEdits /\ faults' \in 0..MaxFaults
  BY ConstantFacts DEF TypeOK, Edited, Fault, bounds

LEMMA WriteType ==
    ASSUME TypeOK, NEW u, NEW s \in Stage, Write(u, s)
    PROVE  stage' \in [Units -> Stage]
  BY DEF TypeOK, Write

LEMMA MutationType == TypeOK /\ Mutation => TypeOK' /\ UNCHANGED <<task_vars, edge>>
  <1> SUFFICES ASSUME TypeOK, Mutation PROVE TypeOK' /\ UNCHANGED <<task_vars, edge>>
    OBVIOUS
  <1>s. "Update" \in Stage
    BY DEF Stage
  <1>1. ASSUME NEW u \in Units, NEW marked \in BOOLEAN, updateUnit(u, marked)
        PROVE  TypeOK' /\ UNCHANGED <<task_vars, edge>>
    <2>1. unitRow' \in [Units -> Nat] /\ marking' \in [Units -> Nat]
      BY <1>1 DEF updateUnit, NewVersion, TypeOK
    <2>2. stage' \in [Units -> Stage]
      BY <1>1, <1>s, WriteType DEF updateUnit, TypeOK
    <2> QED BY <1>1, <2>1, <2>2, BoundsType DEF updateUnit, TypeOK, task_vars, edge
  <1>2. ASSUME NEW u \in Units, handlePush(u) PROVE TypeOK' /\ UNCHANGED <<task_vars, edge>>
    <2>1. stage' \in [Units -> Stage]
      BY <1>2, <1>s, WriteType DEF handlePush
    <2> QED BY <1>2, <2>1, BoundsType DEF handlePush, TypeOK, mutations, task_vars, edge
  <1>3. ASSUME NEW c \in Configurations, updateConfiguration(c) \/ updateNested(c)
        PROVE  TypeOK' /\ UNCHANGED <<task_vars, edge>>
    <2>1. confRow' \in [Configurations -> Nat]
      <3>1. confRow' = NewVersion(confRow, c)
        BY <1>3 DEF updateConfiguration, updateNested
      <3> QED BY <3>1 DEF NewVersion, TypeOK
    <2>2. finding' = finding \/ finding' = NewVersion(finding, c)
      BY <1>3 DEF updateConfiguration, updateNested, mutations
    <2>3. finding' \in [Configurations -> Nat]
      BY <2>2 DEF NewVersion, TypeOK
    <2> QED
      BY <1>3, <2>1, <2>3, BoundsType
      DEF updateConfiguration, updateNested, TypeOK, mutations, task_vars, edge
  <1>4. ASSUME NEW c \in Configurations, findFirst(c)
        PROVE  TypeOK' /\ UNCHANGED <<task_vars, edge>>
    <2>1. finding' \in [Configurations -> Nat]
      BY <1>4 DEF findFirst, Done, TypeOK
    <2>2. marking' \in [Units -> Nat]
      BY <1>4 DEF findFirst, NewVersion, TypeOK
    <2> QED BY <1>4, <2>1, <2>2, BoundsType DEF findFirst, TypeOK, database, task_vars, edge
  <1>5. ASSUME NEW u \in Units, WriteUpdate(u) PROVE TypeOK' /\ UNCHANGED <<task_vars, edge>>
    <2>1. marking' \in [Units -> Nat]
      BY <1>5 DEF WriteUpdate, Done, TypeOK
    <2>2. stage' \in [Units -> Stage]
      BY <1>5, <1>s, WriteType DEF WriteUpdate, TypeOK
    <2> QED BY <1>5, <2>1, <2>2, BoundsType DEF WriteUpdate, TypeOK, task_vars, edge
  <1>6. CASE MutationFails
    <2>1. marking' \in [Units -> Nat] /\ finding' \in [Configurations -> Nat]
      BY <1>6 DEF MutationFails, Done, TypeOK
    <2> QED BY <1>6, <2>1, BoundsType DEF MutationFails, TypeOK, database, task_vars, edge
  <1>7. ASSUME NEW u \in Units, deleteUnit(u) PROVE TypeOK' /\ UNCHANGED <<task_vars, edge>>
    BY <1>7, BoundsType DEF deleteUnit, TypeOK, mutations, task_vars, edge
  <1> QED BY <1>1, <1>2, <1>3, <1>4, <1>5, <1>6, <1>7 DEF Mutation

-----------------------------------------------------------------------------
(* The task.                                                               *)
LEMMA ReturnType ==
    ASSUME TypeOK, Return
    PROVE  step' \in Step /\ queue' \subseteq Units /\ taken' \in [Units -> Version]
           /\ call' \in DOMAIN Calls /\ Working'
  BY DEF TypeOK, Return, Step, Working

LEMMA NextUnitType ==
    ASSUME TypeOK, NextUnit
    PROVE  step' \in Step /\ queue' \subseteq Units /\ taken' \in [Units -> Version]
           /\ call' \in DOMAIN Calls /\ Working'
  BY DEF TypeOK, NextUnit, Step, Working

LEMMA NextCallType ==
    ASSUME TypeOK, NextCall
    PROVE  step' \in {"complete", "calling"} /\ call' \in DOMAIN Calls
  BY ConstantFacts DEF TypeOK, NextCall

\* What is said of a call: whose it is, which part it brings, and its value.
LEMMA CallFacts ==
    ASSUME TypeOK, Working, step # "idle"
    PROVE  /\ Current \in queue /\ Current \in Units
           /\ Calls[call] \in Call /\ Value \in Nat
  BY CurrentInQueue, ConstantFacts, PayloadType DEF TypeOK, Working, Value

\* A call that is answered leaves no more behind than one that is given up.
LEMMA CallIsGiveUp == makeApiCall \/ makeApiCallFails => GiveUp
  BY DEF makeApiCall, makeApiCallFails, GiveUp

LEMMA GiveUpType ==
    ASSUME TypeOK, Working, step # "idle", GiveUp
    PROVE  /\ manager' \in [Units -> [Call -> Nat]]
           /\ late' \subseteq [unit : Units, part : Call, version : Nat]
           /\ overtaken' \subseteq Units \X Call
  <1>1. manager' \in [Units -> [Call -> Nat]] /\ overtaken' \subseteq Units \X Call
    <2>1. CASE CarryOut
      BY <2>1, CallFacts DEF CarryOut, TypeOK
    <2>2. CASE UNCHANGED <<manager, overtaken>>
      BY <2>2 DEF TypeOK
    <2> QED BY <2>1, <2>2 DEF GiveUp
  <1>2. late' \subseteq [unit : Units, part : Call, version : Nat]
    <2>1. CASE LeaveBehind
      BY <2>1, CallFacts DEF LeaveBehind, TypeOK
    <2>2. CASE UNCHANGED late
      BY <2>2 DEF TypeOK
    <2> QED BY <2>1, <2>2 DEF GiveUp
  <1> QED BY <1>1, <1>2

LEMMA TaskType == TypeOK /\ Working /\ Task => TypeOK' /\ Working'
  <1> SUFFICES ASSUME TypeOK, Working, Task PROVE TypeOK' /\ Working'
    OBVIOUS
  <1>s. {"Process", "Complete", "Fail"} \subseteq Stage
    BY DEF Stage
  <1>1. CASE findMany
    <2>1. taken' \in [Units -> Version]
      BY <1>1, SnapshotType DEF findMany, TypeOK
    <2>2. queue' \subseteq Units /\ queue' # {}
      BY <1>1 DEF findMany, TypeOK
    <2> QED
      BY <1>1, <2>1, <2>2, BoundsType
      DEF findMany, TypeOK, Working, Step, database, mutations, edge
  <1>2. CASE makeAuthCall
    <2>1. /\ step' \in Step /\ queue' \subseteq Units /\ taken' \in [Units -> Version]
          /\ call' \in DOMAIN Calls /\ Working'
      BY <1>2, ReturnType DEF makeAuthCall, GoTo, TypeOK, Working, Step
    <2> QED
      BY <1>2, <2>1, BoundsType DEF makeAuthCall, TypeOK, database, mutations, edge
  <1>3. CASE SetProcess
    <2>1. /\ step' \in Step /\ queue' \subseteq Units /\ taken' \in [Units -> Version]
          /\ call' \in DOMAIN Calls /\ Working'
      <3>1. CASE Return
        BY <3>1, ReturnType
      <3>2. CASE \/ GoTo("failed")
                 \/ step' = "calling" /\ call' = 1 /\ queue' = queue /\ taken' = taken
        BY <1>3, <3>2, ConstantFacts DEF SetProcess, GoTo, TypeOK, Working, Step
      <3>3. \/ Return \/ GoTo("failed")
            \/ step' = "calling" /\ call' = 1 /\ queue' = queue /\ taken' = taken
        BY <1>3 DEF SetProcess
      <3> QED BY <3>1, <3>2, <3>3
    <2>2. stage' \in [Units -> Stage]
      BY <1>3, <1>s, WriteType DEF SetProcess, TypeOK
    <2>3. Fault \/ UNCHANGED bounds
      BY <1>3 DEF SetProcess
    <2> QED BY <1>3, <2>1, <2>2, <2>3, BoundsType DEF SetProcess, TypeOK, mutations, edge
  <1>4. CASE makeApiCall \/ makeApiCallFails
    <2>1. step # "idle"
      BY <1>4 DEF makeApiCall, makeApiCallFails
    <2>2. /\ manager' \in [Units -> [Call -> Nat]]
          /\ late' \subseteq [unit : Units, part : Call, version : Nat]
          /\ overtaken' \subseteq Units \X Call
      BY <1>4, <2>1, GiveUpType, CallIsGiveUp
    <2>3. step' \in Step \ {"idle"} /\ call' \in DOMAIN Calls /\ UNCHANGED <<queue, taken>>
      BY <1>4, NextCallType DEF makeApiCall, makeApiCallFails, NextCall, GoTo, Step, TypeOK
    <2>4. Fault \/ UNCHANGED bounds
      BY <1>4 DEF makeApiCall, makeApiCallFails
    <2> QED
      BY <1>4, <2>1, <2>2, <2>3, <2>4, BoundsType
      DEF makeApiCall, makeApiCallFails, TypeOK, Working, database, mutations
  <1>5. CASE SetComplete
    <2>1. /\ step' \in Step /\ queue' \subseteq Units /\ taken' \in [Units -> Version]
          /\ call' \in DOMAIN Calls /\ Working'
      BY <1>5, ReturnType DEF SetComplete, GoTo, TypeOK, Working, Step
    <2>2. stage' \in [Units -> Stage]
      BY <1>5, <1>s, WriteType DEF SetComplete, TypeOK
    <2> QED BY <1>5, <2>1, <2>2, BoundsType DEF SetComplete, TypeOK, mutations, edge
  <1>6. CASE Published
    <2>1. /\ step' \in Step /\ queue' \subseteq Units /\ taken' \in [Units -> Version]
          /\ call' \in DOMAIN Calls /\ Working'
      BY <1>6, NextUnitType DEF Published, GoTo, TypeOK, Working, Step
    <2> QED BY <1>6, <2>1, BoundsType DEF Published, TypeOK, database, mutations, edge
  <1>7. CASE SetFail
    <2>1. /\ step' \in Step /\ queue' \subseteq Units /\ taken' \in [Units -> Version]
          /\ call' \in DOMAIN Calls /\ Working'
      BY <1>7, NextUnitType, ReturnType DEF SetFail
    <2>2. stage' \in [Units -> Stage]
      BY <1>7, <1>s, WriteType DEF SetFail, TypeOK
    <2>3. Fault \/ UNCHANGED bounds
      BY <1>7 DEF SetFail
    <2> QED BY <1>7, <2>1, <2>2, <2>3, BoundsType DEF SetFail, TypeOK, mutations, edge
  <1> QED BY <1>1, <1>2, <1>3, <1>4, <1>5, <1>6, <1>7 DEF Task

(* The type invariant is inductive, with Working.                          *)
LEMMA StepType == TypeOK /\ Working /\ [Next]_vars => TypeOK' /\ Working'
  <1> SUFFICES ASSUME TypeOK, Working, [Next]_vars PROVE TypeOK' /\ Working'
    OBVIOUS
  <1>1. CASE Task
    BY <1>1, TaskType
  <1>2. CASE Mutation
    BY <1>2, MutationType DEF Working, task_vars
  <1>3. CASE LateCall
    <2>1. PICK l \in late : /\ manager' = [manager EXCEPT ![l.unit][l.part] = l.version]
                            /\ late' \in {late, late \ {l}}
                            /\ overtaken' = overtaken \cup {<<l.unit, l.part>>}
      BY <1>3 DEF LateCall
    <2>2. manager' \in [Units -> [Call -> Nat]] /\ overtaken' \subseteq Units \X Call
      BY <2>1 DEF TypeOK
    <2> QED
      BY <1>3, <2>1, <2>2, BoundsType
      DEF LateCall, TypeOK, Working, database, mutations, task_vars
  <1>4. CASE Restart
    <2>1. /\ step' \in Step /\ queue' \subseteq Units /\ taken' \in [Units -> Version]
          /\ call' \in DOMAIN Calls /\ Working'
      BY <1>4, ReturnType DEF Restart
    <2>2. /\ manager' \in [Units -> [Call -> Nat]]
          /\ late' \subseteq [unit : Units, part : Call, version : Nat]
          /\ overtaken' \subseteq Units \X Call
      BY <1>4, GiveUpType DEF Restart, edge, TypeOK
    <2>3. stage' \in [Units -> Stage]
      BY <1>4 DEF Restart, TypeOK, Stage
    <2> QED BY <1>4, <2>1, <2>2, <2>3, BoundsType DEF Restart, TypeOK
  <1>5. CASE UNCHANGED vars
    BY <1>5 DEF vars, TypeOK, Working, database, mutations, task_vars, edge, bounds
  <1> QED BY <1>1, <1>2, <1>3, <1>4, <1>5 DEF Next

(* Every variable keeps its type, and the task a unit to push while it runs. *)
THEOREM TypeCorrect == Spec => []TypeOK
  BY InitType, StepType, PTL DEF Spec

-----------------------------------------------------------------------------
(* CompleteWasDelivered.  While a unit waits in the queue or is pushed it is *)
(* not shown as Complete, so that neither a new copy nor a call of the push  *)
(* can make the stage untrue; and the task gets to SetComplete only past     *)
(* every call.                                                               *)
Delivered(u, p) ==
    \/ p = set_service_schedule
    \/ <<u, p>> \in overtaken
    \/ manager[u][p] = Payload(taken[u], p)

\* A unit in the queue stays marked until its push completes.
StillMarked ==
    \A u \in queue : \/ Marked(u)
                     \/ u = Current /\ stage[u] = "Complete" /\ step \in {"published", "failed"}

CallsDelivered ==
    /\ step = "calling" => \A i \in 1..(call - 1) : Delivered(Current, Calls[i])
    /\ step = "complete" => \A i \in DOMAIN Calls : Delivered(Current, Calls[i])

CompleteDelivered == \A u \in Units, p \in Call : stage[u] = "Complete" => Delivered(u, p)

PushInv == StillMarked /\ CallsDelivered /\ CompleteDelivered

LEMMA MutationStage ==
    TypeOK /\ Mutation => \A u \in Units : stage'[u] \in {stage[u], "Update"}
  BY DEF Mutation, updateUnit, handlePush, updateConfiguration, updateNested, findFirst, WriteUpdate,
         MutationFails, deleteUnit, Write, TypeOK, database

\* Steps that leave the calls and their results alone.
StageOnly ==
    /\ UNCHANGED <<taken, edge>>
    /\ \A u \in Units : stage'[u] = "Complete" => stage[u] = "Complete"
    /\ \A u \in queue' :
          /\ u \in queue
          /\ \/ Marked(u)'
             \/ u = Current' /\ stage'[u] = "Complete" /\ step' \in {"published", "failed"}
    /\ \/ step' \notin {"calling", "complete"}
       \/ step' = "calling" /\ call' = 1
       \/ UNCHANGED <<step, queue, call>>

LEMMA StageStep == ASSUME TypeOK, PushInv, StageOnly PROVE PushInv'
  <1> USE DEF StageOnly
  <1>1. \A u, p : Delivered(u, p)' <=> Delivered(u, p)
    BY DEF Delivered, edge
  <1>2. StillMarked' /\ CompleteDelivered'
    BY <1>1 DEF PushInv, StillMarked, CompleteDelivered, edge
  <1>3. CallsDelivered'
    <2>1. CASE step' \notin {"calling", "complete"}
      BY <2>1 DEF CallsDelivered
    <2>2. CASE step' = "calling" /\ call' = 1
      BY <2>2 DEF CallsDelivered
    <2>3. CASE step' = step /\ queue' = queue /\ call' = call
      BY <1>1, <2>3 DEF PushInv, CallsDelivered, Current
    <2> QED BY <2>1, <2>2, <2>3
  <1> QED BY <1>2, <1>3 DEF PushInv

\* The versions of part p of u that may still come.
Out(u, p) == {l.version : l \in {k \in late : k.unit = u /\ k.part = p}}

Untouched(u, p) ==
    /\ manager'[u][p] = manager[u][p]
    /\ <<u, p>> \in overtaken' <=> <<u, p>> \in overtaken
    /\ Out(u, p)' = Out(u, p)

LEMMA EdgeUntouched == UNCHANGED edge => \A u, p : Untouched(u, p)
  BY DEF edge, Untouched, Out

\* The attempts at a call bring one part of one unit.
LEMMA CallStep ==
    ASSUME TypeOK, Working, step = "calling", GiveUp, NEW u \in Units, NEW p \in Call,
           u # Current \/ p # Calls[call]
    PROVE  Untouched(u, p)
  <1>1. /\ manager'[u][p] = manager[u][p]
        /\ <<u, p>> \in overtaken' <=> <<u, p>> \in overtaken
    BY CallFacts DEF GiveUp, CarryOut, TypeOK
  <1>2. Out(u, p)' = Out(u, p)
    <2>1. CASE LeaveBehind
      <3>1. {k \in late' : k.unit = u /\ k.part = p} = {k \in late : k.unit = u /\ k.part = p}
        BY <2>1 DEF LeaveBehind
      <3> QED BY <3>1 DEF Out
    <2>2. CASE UNCHANGED late
      BY <2>2 DEF Out
    <2> QED BY <2>1, <2>2 DEF GiveUp
  <1> QED BY <1>1, <1>2 DEF Untouched

LEMMA StepPush == TypeOK /\ Working /\ PushInv /\ [Next]_vars => PushInv'
  <1> SUFFICES ASSUME TypeOK, Working, PushInv, [Next]_vars PROVE PushInv'
    OBVIOUS
  <1>a. queue \subseteq Units /\ stage \in [Units -> Stage]
    BY DEF TypeOK
  <1>b. step # "idle" => Current \in queue
    BY CallFacts
  <1>1. CASE Mutation
    <2>1. UNCHANGED <<step, queue, taken, call, edge>>
      BY <1>1, MutationType DEF task_vars
    <2>2. \A u \in Units : stage'[u] \in {stage[u], "Update"}
      BY <1>1, MutationStage
    <2>3. \A u \in queue' :
             /\ u \in queue
             /\ \/ Marked(u)'
                \/ u = Current' /\ stage'[u] = "Complete" /\ step' \in {"published", "failed"}
      BY <2>1, <2>2, <1>a DEF PushInv, StillMarked, Marked, Current
    <2> QED BY <2>1, <2>2, <2>3, StageStep DEF StageOnly
  <1>2. CASE findMany
    <2>1. /\ queue' = {u \in exists : Marked(u)} /\ step' = "auth"
          /\ \A u \in Units : stage[u] = "Complete" => taken'[u] = taken[u]
          /\ UNCHANGED <<stage, edge>>
      BY <1>2 DEF findMany, Marked, TypeOK, database
    <2>2. \A u \in queue' : Marked(u)'
      BY <2>1 DEF Marked
    <2>3. \A u \in Units, p \in Call :
             stage'[u] = "Complete" => stage[u] = "Complete" /\ Delivered(u, p)'
      BY <2>1 DEF PushInv, CompleteDelivered, Delivered, edge
    <2> QED
      BY <2>1, <2>2, <2>3
      DEF PushInv, StillMarked, CallsDelivered, CompleteDelivered, edge
  <1>3. CASE makeAuthCall
    <2>1. /\ UNCHANGED <<stage, taken, edge>> /\ step = "auth"
          /\ \/ step' = "begin" /\ queue' = queue
             \/ step' = "idle" /\ queue' = {}
      BY <1>3 DEF makeAuthCall, GoTo, Return, database
    <2>2. \A u \in queue' : u \in queue /\ Marked(u)'
      BY <2>1 DEF PushInv, StillMarked, Marked
    <2> QED BY <2>1, <2>2, StageStep DEF StageOnly
  <1>4. CASE SetProcess
    <2>1. /\ UNCHANGED <<taken, edge>> /\ step = "begin"
          /\ \/ step' = "calling" /\ call' = 1 /\ queue' = queue
             \/ step' = "failed" /\ queue' = queue
             \/ step' = "idle" /\ queue' = {}
      BY <1>4 DEF SetProcess, GoTo, Return
    <2>2. \A u \in Units : stage'[u] \in {stage[u], "Process"}
      BY <1>4, <1>a DEF SetProcess, Write
    <2>3. \A u \in queue' : u \in queue /\ Marked(u)'
      BY <2>1, <2>2, <1>a DEF PushInv, StillMarked, Marked
    <2> QED BY <2>1, <2>2, <2>3, StageStep DEF StageOnly
  <1>5. CASE makeApiCall \/ makeApiCallFails
    <2>1. /\ step = "calling" /\ UNCHANGED <<stage, taken, queue>>
      BY <1>5 DEF makeApiCall, makeApiCallFails, NextCall, GoTo, database
    <2>2. \A u \in Units, p \in Call : u # Current \/ p # Calls[call] => Untouched(u, p)
      BY <1>5, <2>1, CallStep, CallIsGiveUp
    <2>3. Current \in queue /\ Current \in Units /\ Current' = Current
      BY <2>1, <1>a, <1>b DEF Current
    <2>4. StillMarked' /\ stage[Current] # "Complete"
      BY <2>1, <2>3 DEF PushInv, StillMarked, Marked
    <2>5. \A u \in Units, p \in Call :
             u # Current \/ p # Calls[call] => (Delivered(u, p) => Delivered(u, p)')
      BY <2>1, <2>2 DEF Delivered, Untouched
    <2>6. CompleteDelivered'
      BY <2>1, <2>4, <2>5 DEF PushInv, CompleteDelivered
    <2>7. CASE step' = "failed"
      BY <2>2, <2>4, <2>6, <2>7 DEF PushInv, CallsDelivered
    <2>8. CASE NextCall
      <3>1. \A p : p = Calls[call] => Delivered(Current, p)'
        <4>1. CASE makeApiCall
          <5>1. manager'[Current][Calls[call]] = Payload(taken[Current], Calls[call])
            BY <4>1, <2>1, CallFacts DEF makeApiCall, CarryOut, Value, TypeOK
          <5> QED BY <5>1, <2>1, <2>3 DEF Delivered
        <4>2. CASE makeApiCallFails
          <5>1. step' # "failed"
            BY <2>8 DEF NextCall
          <5>2. Calls[call] = set_service_schedule
            BY <4>2, <5>1 DEF makeApiCallFails, GoTo
          <5> QED BY <5>2 DEF Delivered
        <4> QED BY <1>5, <4>1, <4>2
      <3>2. \A i \in 1..(call - 1) : Delivered(Current, Calls[i])
        BY <2>1 DEF PushInv, CallsDelivered
      <3>3. \A i \in 1..call : Delivered(Current, Calls[i])'
        <4> SUFFICES ASSUME NEW i \in 1..call PROVE Delivered(Current, Calls[i])'
          OBVIOUS
        <4>1. CASE Calls[i] = Calls[call]
          BY <3>1, <4>1
        <4>2. CASE Calls[i] # Calls[call]
          <5>1. Len(Calls) \in Nat /\ call \in 1..Len(Calls) /\ i # call
            BY <4>2, ConstantFacts DEF TypeOK
          <5>2. i \in DOMAIN Calls /\ i \in 1..(call - 1)
            BY <5>1, ConstantFacts
          <5>3. Calls[i] \in Call
            BY <5>2, ConstantFacts
          <5> QED BY <5>2, <5>3, <4>2, <3>2, <2>3, <2>5
        <4> QED BY <4>1, <4>2
      <3>4. CallsDelivered'
        BY <2>3, <2>8, <3>3, ConstantFacts DEF CallsDelivered, NextCall, TypeOK
      <3> QED BY <2>2, <2>4, <2>6, <3>4 DEF PushInv
    <2> QED
      BY <1>5, <2>7, <2>8 DEF makeApiCall, makeApiCallFails, GoTo
  <1>6. CASE SetComplete
    <2>1. /\ UNCHANGED <<taken, edge>> /\ step = "complete"
          /\ \/ Write(Current, "Complete") /\ step' = "published" /\ queue' = queue
             \/ UNCHANGED stage /\ step' = "idle" /\ queue' = {}
      BY <1>6 DEF SetComplete, GoTo, Return
    <2>2. \A u \in queue : stage[u] # "Complete"
      BY <2>1 DEF PushInv, StillMarked, Marked
    <2>3. \A u \in Units : stage'[u] = "Complete" => stage[u] = "Complete" \/ u = Current
      BY <2>1, <1>a DEF Write
    <2>4. StillMarked'
      BY <2>1, <2>2, <2>3, <1>a DEF StillMarked, Current, PushInv, Marked, Write
    <2>5. \A p \in Call : Delivered(Current, p)
      BY <2>1 DEF PushInv, CallsDelivered, Call
    <2>6. CompleteDelivered'
      BY <2>1, <2>3, <2>5 DEF PushInv, CompleteDelivered, Delivered, edge
    <2> QED
      BY <2>1, <2>4, <2>6 DEF PushInv, CallsDelivered
  <1>7. CASE Published \/ SetFail
    <2>1. /\ UNCHANGED <<taken, edge>> /\ step \in {"published", "failed"}
          /\ \/ queue' = queue /\ step' = "failed" /\ UNCHANGED stage
             \/ queue' = queue \ {Current} /\ step' \in {"idle", "begin"}
             \/ queue' = {} /\ step' = "idle"
      BY <1>7 DEF Published, SetFail, GoTo, NextUnit, Return, database
    <2>2. \A u \in Units : stage'[u] = stage[u] \/ (u = Current /\ stage'[u] = "Fail")
      <3>1. UNCHANGED stage \/ Write(Current, "Fail")
        BY <1>7 DEF Published, SetFail, database
      <3> QED BY <3>1, <1>a DEF Write
    <2>3. \A u \in queue' :
             /\ u \in queue
             /\ \/ Marked(u)'
                \/ u = Current' /\ stage'[u] = "Complete" /\ step' \in {"published", "failed"}
      BY <2>1, <2>2, <1>a DEF PushInv, StillMarked, Marked, Current
    <2> QED BY <2>1, <2>2, <2>3, StageStep DEF StageOnly
  <1>8. CASE LateCall
    <2>1. PICK l \in late : /\ manager' = [manager EXCEPT ![l.unit][l.part] = l.version]
                            /\ overtaken' = overtaken \cup {<<l.unit, l.part>>}
      BY <1>8 DEF LateCall
    <2>2. l.unit \in Units /\ l.part \in Call
      BY <2>1 DEF TypeOK
    <2>3. UNCHANGED <<stage, step, queue, taken, call>>
      BY <1>8 DEF LateCall, database, task_vars
    <2>4. \A u \in Units, p \in Call : Delivered(u, p) => Delivered(u, p)'
      BY <2>1, <2>2, <2>3 DEF Delivered, TypeOK
    <2>5. Current' = Current
      BY <2>3 DEF Current
    <2>6. CallsDelivered'
      <3>1. ASSUME step \in {"calling", "complete"}, NEW i \in DOMAIN Calls, Delivered(Current, Calls[i])
            PROVE  Delivered(Current, Calls[i])'
        <4>1. Current \in Units /\ Calls[i] \in Call
          BY <3>1, <1>a, <1>b, ConstantFacts
        <4>2. \A u \in Units : u = Current => Delivered(u, Calls[i])'
          BY <3>1, <4>1, <2>4
        <4> QED BY <4>1, <4>2, <2>5 DEF Delivered
      <3>2. 1..(call - 1) \subseteq DOMAIN Calls
        BY ConstantFacts DEF TypeOK
      <3> QED BY <2>3, <2>5, <3>1, <3>2 DEF PushInv, CallsDelivered
    <2> QED
      BY <2>1, <2>3, <2>4, <2>5, <2>6
      DEF PushInv, StillMarked, Marked, CompleteDelivered
  <1>9. CASE Restart
    <2>1. /\ step' = "idle" /\ queue' = {} /\ UNCHANGED taken
          /\ \A u \in Units : stage'[u] \in {stage[u], "Process"}
      BY <1>9, <1>a DEF Restart, Return
    <2>2. CASE step = "calling"
      <3>1. \A u \in Units, p \in Call : u # Current => Untouched(u, p)
        BY <1>9, <2>2, CallStep DEF Restart
      <3>2. stage[Current] # "Complete"
        BY <2>2, <1>b DEF PushInv, StillMarked, Marked
      <3>3. CompleteDelivered'
        BY <2>1, <3>1, <3>2 DEF PushInv, CompleteDelivered, Delivered, Untouched
      <3> QED BY <2>1, <3>1, <3>3 DEF PushInv, StillMarked, CallsDelivered
    <2>3. CASE step # "calling"
      <3>1. UNCHANGED edge
        BY <1>9, <2>3 DEF Restart
      <3> QED BY <2>1, <3>1, StageStep DEF StageOnly
    <2> QED BY <2>2, <2>3
  <1>10. CASE UNCHANGED vars
    <2>1. UNCHANGED <<stage, step, queue, taken, call, edge>>
      BY <1>10 DEF vars, database, task_vars
    <2> QED BY <2>1, <1>a, StageStep DEF StageOnly, PushInv, StillMarked, Marked, Current
  <1> QED
    BY <1>1, <1>2, <1>3, <1>4, <1>5, <1>6, <1>7, <1>8, <1>9, <1>10 DEF Next, Task

(* While a unit is shown as Complete its Manager holds every part its push  *)
(* took, whatever is edited, deleted, lost, retried or restarted meanwhile,  *)
(* unless an attempt that had timed out was carried out after it.            *)
THEOREM Delivery == Spec => []CompleteWasDelivered
  <1>1. Init => PushInv
    <2> SUFFICES ASSUME Init PROVE PushInv
      OBVIOUS
    <2>1. \A u \in Units : stage[u] # "Complete"
      BY DEF Init
    <2> QED
      BY <2>1
      DEF Init, PushInv, StillMarked, CallsDelivered, CompleteDelivered
  <1>2. PushInv => CompleteWasDelivered
    BY DEF PushInv, CompleteDelivered, CompleteWasDelivered, Delivered, Guarded
  <1> QED BY <1>1, <1>2, InitType, StepType, StepPush, PTL DEF Spec

-----------------------------------------------------------------------------
(* KeepsPromise.  What a push took is a version, so that PushPromise can     *)
(* tell a push that runs from none.                                          *)
Latest(u, p) == Payload(Snapshot(u), p)

Versions ==
    /\ \A u \in Units, p \in Call : Latest(u, p) >= 1
    /\ \A u \in queue, p \in Call : Payload(taken[u], p) >= 1

LEMMA LatestType == TypeOK => \A u \in Units : \A p : Latest(u, p) \in Nat
  BY SnapshotType, PayloadType DEF Latest

LEMMA MutationLatest ==
    TypeOK /\ Mutation => \A u \in Units, p \in Call : Latest(u, p)' \in {Latest(u, p), Latest(u, p) + 1}
  <1> SUFFICES ASSUME TypeOK, Mutation, NEW u \in Units, NEW p \in Call
               PROVE  Latest(u, p)' \in {Latest(u, p), Latest(u, p) + 1}
    OBVIOUS
  <1>1. /\ unitRow \in [Units -> Nat] /\ confRow \in [Configurations -> Nat]
        /\ ConfigurationOf[u] \in Configurations
    BY ConstantFacts DEF TypeOK
  <1>2. \/ UNCHANGED <<unitRow, confRow>>
        \/ (\E v \in Units : unitRow' = NewVersion(unitRow, v)) /\ UNCHANGED confRow
        \/ (\E c \in Configurations : confRow' = NewVersion(confRow, c)) /\ UNCHANGED unitRow
    BY DEF Mutation, updateUnit, handlePush, updateConfiguration, updateNested, findFirst,
           WriteUpdate, MutationFails, deleteUnit, database
  <1>3. /\ unitRow'[u] \in {unitRow[u], unitRow[u] + 1}
        /\ confRow'[ConfigurationOf[u]] \in
              {confRow[ConfigurationOf[u]], confRow[ConfigurationOf[u]] + 1}
    BY <1>1, <1>2 DEF NewVersion
  <1> QED BY <1>3 DEF Latest, Payload, Snapshot

LEMMA OthersLatest ==
    UNCHANGED <<unitRow, confRow>> => \A u, p : Latest(u, p)' = Latest(u, p)
  BY DEF Latest, Payload, Snapshot

LEMMA OthersKeepRows == [Next]_vars => Mutation \/ UNCHANGED <<unitRow, confRow>>
  BY DEF Next, Task, findMany, makeAuthCall, SetProcess, makeApiCall, makeApiCallFails, SetComplete,
         Published, SetFail, LateCall, Restart, vars, database

\* Only findMany takes a copy; otherwise the queue shrinks.
LEMMA QueueSteps ==
    [Next]_vars => findMany \/ (queue' \subseteq queue /\ taken' = taken)
  <1>1. NextCall => queue' \subseteq queue /\ taken' = taken
    BY DEF NextCall
  <1>2. NextUnit \/ Return => queue' \subseteq queue /\ taken' = taken
    BY DEF NextUnit, Return
  <1>3. \A s : GoTo(s) => queue' \subseteq queue /\ taken' = taken
    BY DEF GoTo
  <1> QED
    BY <1>1, <1>2, <1>3
    DEF Next, Task, makeAuthCall, SetProcess, makeApiCall, makeApiCallFails, SetComplete,
        Published, SetFail, LateCall, Restart, Mutation, updateUnit, handlePush,
        updateConfiguration, updateNested, findFirst, WriteUpdate, MutationFails, deleteUnit,
        task_vars, vars

LEMMA StepVersions == TypeOK /\ Working /\ Versions /\ [Next]_vars => Versions'
  <1> SUFFICES ASSUME TypeOK, Working, Versions, [Next]_vars PROVE Versions'
    OBVIOUS
  <1>1. \A u \in Units, p \in Call :
           /\ Latest(u, p)' >= Latest(u, p)
           /\ Latest(u, p) \in Nat /\ Latest(u, p)' \in Nat
    BY MutationLatest, OthersLatest, OthersKeepRows, LatestType
  <1>2. \A u \in queue', p \in Call : Payload(taken'[u], p) >= 1
    <2> SUFFICES ASSUME NEW u \in queue', NEW p \in Call PROVE Payload(taken'[u], p) >= 1
      OBVIOUS
    <2>1. CASE findMany
      <3>1. u \in Units /\ taken'[u] = Snapshot(u)
        BY <2>1 DEF findMany, TypeOK
      <3>2. Payload(taken'[u], p) = Latest(u, p)
        BY <3>1 DEF Latest
      <3> QED BY <3>1, <3>2 DEF Versions
    <2>2. CASE queue' \subseteq queue /\ taken' = taken
      BY <2>2 DEF Versions
    <2> QED BY <2>1, <2>2, QueueSteps
  <1>3. \A u \in Units, p \in Call : Latest(u, p)' >= 1
    BY <1>1 DEF Versions
  <1> QED BY <1>2, <1>3 DEF Versions


\* What PushPromise sees of part p of unit u.
Taken(u, p) == IF u \in queue THEN Payload(taken[u], p) ELSE 0

Kept(u, p) == Promise(u, p)!Next \/ UNCHANGED Promise(u, p)!vars

(* How the parts of PushPromise show in a step that leaves the database of  *)
(* this part, or the Manager's copy, alone.                                 *)
LEMMA StutterKept ==
    ASSUME NEW u, NEW p,
           stage'[u] = stage[u], Latest(u, p)' = Latest(u, p), Taken(u, p)' = Taken(u, p),
           Untouched(u, p)
    PROVE  Kept(u, p)
  BY DEF Kept, Promise!vars, Latest, Taken, Untouched, Out

LEMMA EditKept ==
    ASSUME NEW u, NEW p,
           stage'[u] \in {stage[u], "Update", "Process"},
           Latest(u, p)' \in {Latest(u, p), Latest(u, p) + 1},
           Taken(u, p)' = Taken(u, p), Untouched(u, p)
    PROVE  Kept(u, p)
  BY DEF Kept, Promise!Next, Promise!Edit, Latest, Taken, Untouched, Out

LEMMA TakeKept ==
    ASSUME NEW u, NEW p, Marked(u), Taken(u, p) = 0, Taken(u, p)' = Latest(u, p),
           stage'[u] = stage[u], Latest(u, p)' = Latest(u, p),
           Untouched(u, p)
    PROVE  Kept(u, p)
  BY DEF Kept, Promise!Next, Promise!Take, Latest, Taken, Marked, Untouched, Out

LEMMA BeginKept ==
    ASSUME NEW u, NEW p, Marked(u), Taken(u, p) # 0, Taken(u, p)' = Taken(u, p),
           stage'[u] = "Process", Latest(u, p)' = Latest(u, p),
           Untouched(u, p)
    PROVE  Kept(u, p)
  BY DEF Kept, Promise!Next, Promise!Begin, Latest, Taken, Marked, Untouched, Out

\* What becomes of a call that brings this part.
Attempted(u, p) ==
    /\ \/ manager'[u][p] = Taken(u, p) /\ <<u, p>> \notin overtaken'
       \/ manager'[u][p] = manager[u][p] /\ (<<u, p>> \in overtaken' <=> <<u, p>> \in overtaken)
    /\ Out(u, p)' \in {Out(u, p), Out(u, p) \cup {Taken(u, p)}}

LEMMA AttemptedIsAttempts ==
    ASSUME NEW u, NEW p, Attempted(u, p)
    PROVE  Promise(u, p)!Attempts
  <1>1. CASE manager'[u][p] = Taken(u, p) /\ <<u, p>> \notin overtaken'
    <2>1. (<<u, p>> \in overtaken)' = FALSE
      BY <1>1
    <2> QED BY <1>1, <2>1, Zenon DEF Attempted, Promise!Attempts, Taken, Out
  <1>2. CASE /\ manager'[u][p] = manager[u][p]
             /\ <<u, p>> \in overtaken' <=> <<u, p>> \in overtaken
    <2>1. (<<u, p>> \in overtaken)' = (<<u, p>> \in overtaken)
      BY <1>2
    <2> QED BY <1>2, <2>1, Zenon DEF Attempted, Promise!Attempts, Taken, Out
  <1> QED BY <1>1, <1>2 DEF Attempted

LEMMA GiveKept ==
    ASSUME NEW u, NEW p, Taken(u, p) # 0, Taken(u, p)' = Taken(u, p),
           stage'[u] = stage[u], Latest(u, p)' = Latest(u, p), Attempted(u, p)
    PROVE  Kept(u, p)
  <1>1. Promise(u, p)!Give
    BY AttemptedIsAttempts DEF Promise!Give, Latest, Taken
  <1> QED BY <1>1 DEF Kept, Promise!Next

LEMMA CompleteKept ==
    ASSUME NEW u, NEW p, Marked(u), Taken(u, p) # 0, Taken(u, p)' = Taken(u, p),
           manager[u][p] = Taken(u, p) \/ <<u, p>> \in overtaken \/ p = set_service_schedule,
           stage'[u] = "Complete", Latest(u, p)' = Latest(u, p),
           Untouched(u, p)
    PROVE  Kept(u, p)
  BY DEF Kept, Promise!Next, Promise!Complete, Latest, Taken, Marked, Untouched, Out

LEMMA FailKept ==
    ASSUME NEW u, NEW p, Taken(u, p) # 0, Taken(u, p)' = 0,
           stage'[u] = "Fail", Latest(u, p)' = Latest(u, p),
           Untouched(u, p)
    PROVE  Kept(u, p)
  BY DEF Kept, Promise!Next, Promise!Fail, Latest, Taken, Untouched, Out

LEMMA AbandonKept ==
    ASSUME NEW u, NEW p, Taken(u, p) # 0, Taken(u, p)' = 0,
           stage'[u] \in {stage[u], "Process"}, Latest(u, p)' = Latest(u, p), Attempted(u, p)
    PROVE  Kept(u, p)
  <1>1. Promise(u, p)!Abandon
    BY AttemptedIsAttempts DEF Promise!Abandon, Latest, Taken
  <1> QED BY <1>1 DEF Kept, Promise!Next

LEMMA UntouchedIsAttempted == \A u, p : Untouched(u, p) => Attempted(u, p)
  BY DEF Untouched, Attempted

\* A restart marks a unit nobody pushes.
LEMMA RestartKept ==
    ASSUME NEW u, NEW p, Taken(u, p) = 0, Taken(u, p)' = 0,
           stage'[u] \in {stage[u], "Process"}, Latest(u, p)' = Latest(u, p),
           Untouched(u, p)
    PROVE  Kept(u, p)
  BY DEF Kept, Promise!Next, Promise!Edit, Latest, Taken, Untouched, Out

LEMMA StrayKept ==
    ASSUME NEW u, NEW p, manager'[u][p] \in Out(u, p), <<u, p>> \in overtaken',
           Out(u, p)' \in {Out(u, p), Out(u, p) \ {manager'[u][p]}},
           stage'[u] = stage[u], Latest(u, p)' = Latest(u, p), Taken(u, p)' = Taken(u, p)
    PROVE  Kept(u, p)
  <1>1. (<<u, p>> \in overtaken)' = TRUE
    OBVIOUS
  <1>2. Promise(u, p)!Stray
    BY <1>1, Zenon DEF Promise!Stray, Latest, Taken, Out
  <1> QED BY <1>2 DEF Kept, Promise!Next

\* The attempts at the call that is made.
LEMMA CallAttempted ==
    ASSUME TypeOK, Working, step = "calling", GiveUp, NEW u \in Units, NEW p \in Call,
           u = Current, p = Calls[call], Taken(u, p) = Payload(taken[u], p)
    PROVE  Attempted(u, p)
  <1>1. \/ manager'[u][p] = Taken(u, p) /\ <<u, p>> \notin overtaken'
        \/ manager'[u][p] = manager[u][p] /\ (<<u, p>> \in overtaken' <=> <<u, p>> \in overtaken)
    BY DEF GiveUp, CarryOut, Value, TypeOK
  <1>2. Out(u, p)' \in {Out(u, p), Out(u, p) \cup {Taken(u, p)}}
    <2>1. CASE LeaveBehind
      <3> DEFINE mine == {k \in late : k.unit = u /\ k.part = p}
                 attempt == [unit |-> u, part |-> p, version |-> Taken(u, p)]
      <3>1. mine' = mine \cup {attempt}
        BY <2>1 DEF LeaveBehind, Value
      <3>2. attempt.version = Taken(u, p)
        OBVIOUS
      <3>3. Out(u, p) = {l.version : l \in mine} /\ Out(u, p)' = {l.version : l \in mine'}
        BY DEF Out
      <3> HIDE DEF mine, attempt
      <3>4. Out(u, p)' = Out(u, p) \cup {Taken(u, p)}
        BY <3>1, <3>2, <3>3
      <3> QED BY <3>4
    <2>2. CASE UNCHANGED late
      BY <2>2 DEF Out
    <2> QED BY <2>1, <2>2 DEF GiveUp
  <1> QED BY <1>1, <1>2 DEF Attempted

\* Carried out late, an attempt may be the last one of its call or not.
LEMMA LateOut ==
    ASSUME TypeOK, NEW l \in late, late' \in {late, late \ {l}}, NEW u, NEW p, l.unit = u, l.part = p
    PROVE  Out(u, p)' \in {Out(u, p), Out(u, p) \ {l.version}}
  <1>1. CASE late' = late
    BY <1>1 DEF Out
  <1>2. CASE late' = late \ {l}
    <2>1. \A k \in late : k.unit = u /\ k.part = p /\ k.version = l.version => k = l
      BY DEF TypeOK
    <2>2. Out(u, p)' = Out(u, p) \ {l.version}
      BY <1>2, <2>1 DEF Out
    <2> QED BY <2>2
  <1> QED BY <1>1, <1>2

(* Every step keeps the promise to every part of every unit.               *)
LEMMA StepKept ==
    ASSUME TypeOK, Working, PushInv, Versions, [Next]_vars, NEW u \in Units, NEW p \in Call
    PROVE  Kept(u, p)
  <1>a. queue \subseteq Units /\ stage \in [Units -> Stage]
    BY DEF TypeOK
  <1>b. /\ u \in queue => Taken(u, p) # 0 /\ Taken(u, p) = Payload(taken[u], p)
        /\ u \notin queue => Taken(u, p) = 0
    <2>1. u \in queue => Payload(taken[u], p) >= 1
      BY <1>a DEF Versions
    <2> QED BY <2>1 DEF Taken
  <1>c. step # "idle" => Current \in queue /\ Current \in Units
    BY CallFacts
  <1>d. ~Mutation => Latest(u, p)' = Latest(u, p)
    BY OthersLatest, OthersKeepRows
  \* The push of u ends without a word, or in the middle of a call.
  <1>1. ASSUME Return, ~Mutation, stage'[u] \in {stage[u], "Process"}, Untouched(u, p)
        PROVE  Kept(u, p) \/ (u \notin queue /\ stage'[u] # stage[u])
    <2>1. Taken(u, p)' = 0
      BY <1>1 DEF Return, Taken
    <2>2. CASE u \in queue
      BY <1>1, <1>b, <1>d, <2>1, <2>2, AbandonKept, UntouchedIsAttempted
    <2>3. CASE u \notin queue /\ stage'[u] = stage[u]
      BY <1>1, <1>b, <1>d, <2>1, <2>3, StutterKept
    <2> QED BY <2>2, <2>3
  <1>2. ASSUME ~Mutation, UNCHANGED <<queue, taken>> PROVE Taken(u, p)' = Taken(u, p)
    BY <1>2 DEF Taken
  <1>3. CASE Mutation
    <2>1. UNCHANGED <<queue, taken, edge>> /\ stage'[u] \in {stage[u], "Update"}
      BY <1>3, MutationType, MutationStage DEF task_vars
    <2>2. Taken(u, p)' = Taken(u, p) /\ Untouched(u, p)
      BY <2>1, EdgeUntouched DEF Taken
    <2>3. Latest(u, p)' \in {Latest(u, p), Latest(u, p) + 1}
      BY <1>3, <1>a, MutationLatest
    <2> QED BY <2>1, <2>2, <2>3, EditKept
  <1>4. CASE findMany /\ ~Mutation
    <2>1. /\ queue = {} /\ queue' = {v \in exists : Marked(v)}
          /\ u \in queue' => taken'[u] = Snapshot(u)
          /\ UNCHANGED stage /\ Untouched(u, p)
      BY <1>4, EdgeUntouched DEF findMany, Working, TypeOK, database
    <2>2. CASE u \in queue'
      <3>1. Taken(u, p)' = Latest(u, p) /\ Marked(u)
        BY <2>1, <2>2 DEF Taken, Latest
      <3> QED BY <2>1, <3>1, <1>b, <1>d, <1>4, TakeKept
    <2>3. CASE u \notin queue'
      <3>1. Taken(u, p)' = Taken(u, p)
        BY <2>1, <2>3, <1>b DEF Taken
      <3> QED BY <2>1, <3>1, <1>d, <1>4, StutterKept
    <2> QED BY <2>2, <2>3
  <1>5. CASE makeAuthCall /\ ~Mutation
    <2>1. UNCHANGED stage /\ Untouched(u, p) /\ (GoTo("begin") \/ Return)
      BY <1>5, EdgeUntouched DEF makeAuthCall, database
    <2>2. CASE GoTo("begin")
      BY <2>1, <2>2, <1>2, <1>d, <1>5, StutterKept DEF GoTo
    <2> QED BY <2>1, <2>2, <1>1, <1>5
  <1>6. CASE SetProcess /\ ~Mutation
    <2>1. step = "begin" /\ Untouched(u, p)
      BY <1>6, EdgeUntouched DEF SetProcess
    <2>2. CASE Current \in exists
      <3>1. Write(Current, "Process") /\ UNCHANGED <<queue, taken>>
        BY <1>6, <2>2 DEF SetProcess, GoTo
      <3>2. CASE u = Current
        <4>1. Marked(u) /\ stage'[u] = "Process"
          BY <2>1, <3>1, <3>2, <1>a, <1>c DEF PushInv, StillMarked, Write
        <4> QED BY <2>1, <3>1, <3>2, <4>1, <1>2, <1>b, <1>c, <1>d, <1>6, BeginKept
      <3>3. CASE u # Current
        <4>1. stage'[u] = stage[u]
          BY <3>1, <3>3, <1>a DEF Write
        <4> QED BY <2>1, <3>1, <4>1, <1>2, <1>d, <1>6, StutterKept
      <3> QED BY <3>2, <3>3
    <2>3. CASE Current \notin exists
      BY <1>1, <1>6, <2>1, <2>3 DEF SetProcess
    <2> QED BY <2>2, <2>3
  <1>7. CASE (makeApiCall \/ makeApiCallFails) /\ ~Mutation
    <2>1. step = "calling" /\ UNCHANGED <<stage, taken, queue>> /\ GiveUp
      BY <1>7, CallIsGiveUp DEF makeApiCall, makeApiCallFails, NextCall, GoTo, database
    <2>2. CASE u = Current /\ p = Calls[call]
      BY <2>1, <2>2, CallAttempted, <1>2, <1>b, <1>c, <1>d, <1>7, GiveKept
    <2>3. CASE u # Current \/ p # Calls[call]
      BY <2>1, <2>3, CallStep, <1>2, <1>d, <1>7, StutterKept
    <2> QED BY <2>2, <2>3
  <1>8. CASE SetComplete /\ ~Mutation
    <2>1. step = "complete" /\ Untouched(u, p)
      BY <1>8, EdgeUntouched DEF SetComplete
    <2>2. CASE Current \in exists
      <3>1. Write(Current, "Complete") /\ UNCHANGED <<queue, taken>>
        BY <1>8, <2>2 DEF SetComplete, GoTo
      <3>2. CASE u = Current
        <4>1. Marked(u) /\ stage'[u] = "Complete"
          BY <2>1, <3>1, <3>2, <1>a, <1>c DEF PushInv, StillMarked, Write
        <4>2. Delivered(u, p)
          BY <2>1, <3>2 DEF PushInv, CallsDelivered, Call
        <4>3. manager[u][p] = Taken(u, p) \/ <<u, p>> \in overtaken \/ p = set_service_schedule
          BY <2>1, <3>2, <4>2, <1>a, <1>b, <1>c DEF Delivered
        <4> QED BY <2>1, <3>1, <3>2, <4>1, <4>3, <1>2, <1>b, <1>c, <1>d, <1>8, CompleteKept
      <3>3. CASE u # Current
        <4>1. stage'[u] = stage[u]
          BY <3>1, <3>3, <1>a DEF Write
        <4> QED BY <2>1, <3>1, <4>1, <1>2, <1>d, <1>8, StutterKept
      <3> QED BY <3>2, <3>3
    <2>3. CASE Current \notin exists
      BY <1>1, <1>8, <2>1, <2>3 DEF SetComplete
    <2> QED BY <2>2, <2>3
  <1>9. ASSUME NextUnit, step # "idle", ~Mutation, Untouched(u, p),
               stage'[u] = stage[u] \/ (u = Current /\ stage'[u] = "Fail")
        PROVE  Kept(u, p)
    <2>1. queue' = queue \ {Current} /\ taken' = taken
      BY <1>9 DEF NextUnit
    <2>2. CASE u = Current
      <3>1. Taken(u, p)' = 0 /\ Taken(u, p) # 0
        BY <2>1, <2>2, <1>9, <1>b, <1>c DEF Taken
      <3> QED BY <3>1, <1>9, <1>d, AbandonKept, UntouchedIsAttempted, FailKept
    <2>3. CASE u # Current
      <3>1. Taken(u, p)' = Taken(u, p)
        BY <2>1, <2>3 DEF Taken
      <3> QED BY <2>3, <3>1, <1>9, <1>d, StutterKept
    <2> QED BY <2>2, <2>3
  <1>10. CASE Published /\ ~Mutation
    <2>1. step = "published" /\ UNCHANGED stage /\ Untouched(u, p) /\ (NextUnit \/ GoTo("failed"))
      BY <1>10, EdgeUntouched DEF Published, database
    <2>2. CASE GoTo("failed")
      BY <2>1, <2>2, <1>2, <1>d, <1>10, StutterKept DEF GoTo
    <2> QED BY <2>1, <2>2, <1>9, <1>10
  <1>11. CASE SetFail /\ ~Mutation
    <2>1. step = "failed" /\ Untouched(u, p)
      BY <1>11, EdgeUntouched DEF SetFail
    <2>2. CASE Current \in exists
      <3>1. Write(Current, "Fail") /\ (NextUnit \/ Return)
        BY <1>11, <2>2 DEF SetFail
      <3>2. stage'[u] = stage[u] \/ (u = Current /\ stage'[u] = "Fail")
        BY <3>1, <1>a DEF Write
      <3>3. CASE NextUnit
        BY <2>1, <3>2, <3>3, <1>9, <1>11
      <3>4. CASE Return /\ u = Current
        <4>1. Taken(u, p)' = 0 /\ Taken(u, p) # 0 /\ stage'[u] = "Fail"
          BY <2>1, <3>1, <3>4, <1>a, <1>b, <1>c DEF Return, Taken, Write
        <4> QED BY <2>1, <4>1, <1>d, <1>11, FailKept
      <3>5. CASE Return /\ u # Current
        BY <2>1, <3>2, <3>5, <1>1, <1>11
      <3> QED BY <3>1, <3>3, <3>4, <3>5
    <2>3. CASE Current \notin exists
      BY <1>1, <1>11, <2>1, <2>3 DEF SetFail
    <2> QED BY <2>2, <2>3
  <1>12. CASE LateCall /\ ~Mutation
    <2>1. PICK l \in late : /\ manager' = [manager EXCEPT ![l.unit][l.part] = l.version]
                            /\ late' \in {late, late \ {l}}
                            /\ overtaken' = overtaken \cup {<<l.unit, l.part>>}
      BY <1>12 DEF LateCall
    <2>2. UNCHANGED <<stage, queue, taken>> /\ l.unit \in Units /\ l.part \in Call
      BY <1>12 DEF LateCall, database, task_vars, TypeOK
    <2>3. CASE l.unit = u /\ l.part = p
      <3>1. manager'[u][p] = l.version /\ <<u, p>> \in overtaken'
        BY <2>1, <2>3, <1>a DEF TypeOK
      <3>2. l.version \in Out(u, p)
        BY <2>3 DEF Out
      <3>3. Out(u, p)' \in {Out(u, p), Out(u, p) \ {l.version}}
        BY <2>1, <2>3, LateOut
      <3> QED BY <2>2, <3>1, <3>2, <3>3, <1>2, <1>d, <1>12, StrayKept
    <2>4. CASE ~(l.unit = u /\ l.part = p)
      <3>1. /\ manager'[u][p] = manager[u][p]
            /\ <<u, p>> \in overtaken' <=> <<u, p>> \in overtaken
        BY <2>1, <2>2, <2>4, <1>a DEF TypeOK
      <3>2. Out(u, p)' = Out(u, p)
        BY <2>1, <2>4 DEF Out
      <3> QED BY <2>2, <3>1, <3>2, <1>2, <1>d, <1>12, StutterKept DEF Untouched
    <2> QED BY <2>3, <2>4
  <1>13. CASE Restart /\ ~Mutation
    <2>1. Return /\ stage'[u] \in {stage[u], "Process"} /\ Taken(u, p)' = 0
      BY <1>13, <1>a DEF Restart, Return, Taken
    <2>2. CASE u \in queue
      <3>1. Attempted(u, p)
        <4>1. CASE step = "calling" /\ u = Current /\ p = Calls[call]
          BY <1>13, <4>1, <1>b, <2>2, CallAttempted DEF Restart
        <4>2. CASE step = "calling" /\ (u # Current \/ p # Calls[call])
          BY <1>13, <4>2, CallStep, UntouchedIsAttempted DEF Restart
        <4>3. CASE step # "calling"
          BY <1>13, <4>3, EdgeUntouched, UntouchedIsAttempted DEF Restart
        <4> QED BY <4>1, <4>2, <4>3
      <3> QED BY <2>1, <2>2, <3>1, <1>b, <1>d, <1>13, AbandonKept
    <2>3. CASE u \notin queue
      <3>1. step = "calling" => u # Current
        BY <2>3, <1>c
      <3>2. Untouched(u, p)
        BY <1>13, <3>1, CallStep, EdgeUntouched DEF Restart
      <3>3. CASE stage'[u] = stage[u]
        BY <2>1, <2>3, <3>2, <3>3, <1>b, <1>d, <1>13, StutterKept
      <3>4. CASE stage'[u] # stage[u]
        BY <2>1, <2>3, <3>2, <3>4, <1>b, <1>d, <1>13, RestartKept
      <3> QED BY <3>3, <3>4
    <2> QED BY <2>2, <2>3
  <1>14. CASE UNCHANGED vars
    <2>1. UNCHANGED <<stage, queue, taken, unitRow, confRow>> /\ Untouched(u, p)
      BY <1>14, EdgeUntouched DEF vars, database, task_vars
    <2>2. Taken(u, p)' = Taken(u, p) /\ Latest(u, p)' = Latest(u, p)
      BY <2>1 DEF Taken, Latest, Payload, Snapshot
    <2> QED BY <2>1, <2>2, StutterKept
  <1> QED
    BY <1>3, <1>4, <1>5, <1>6, <1>7, <1>8, <1>10, <1>11, <1>12, <1>13, <1>14 DEF Next, Task

LEMMA InitPush == Init => PushInv /\ Versions
  <1> SUFFICES ASSUME Init PROVE PushInv /\ Versions
    OBVIOUS
  <1>1. \A v \in Units : stage[v] # "Complete"
    BY DEF Init
  <1>2. PushInv
    BY <1>1 DEF Init, PushInv, StillMarked, CallsDelivered, CompleteDelivered
  <1>3. Versions
    BY ConstantFacts DEF Init, Versions, Latest, Payload, Snapshot
  <1> QED BY <1>2, <1>3

LEMMA InitKept == Init => \A u \in Units, p \in Call : Promise(u, p)!Init
  <1> SUFFICES ASSUME Init, NEW u \in Units, NEW p \in Call PROVE Promise(u, p)!Init
    OBVIOUS
  <1>1. Payload(Snapshot(u), p) = 1
    BY ConstantFacts DEF Init, Payload, Snapshot
  <1>2. (<<u, p>> \in overtaken) = FALSE
    BY DEF Init
  <1>3. stage[u] \in {"Create", "Update"} /\ manager[u][p] = 0 /\ queue = {}
    BY DEF Init
  <1>4. {l.version : l \in {k \in late : k.unit = u /\ k.part = p}} = {}
    BY DEF Init
  <1> QED BY <1>1, <1>2, <1>3, <1>4 DEF Promise!Init

(* The configuration push keeps PushPromise to every part of every unit.   *)
THEOREM Implementation == Spec => KeepsPromise
  <1>1. TypeOK /\ Working /\ PushInv /\ Versions /\ [Next]_vars =>
           [\A u \in Units, p \in Call :
              Promise(u, p)!Next \/ UNCHANGED Promise(u, p)!vars]_vars
    BY StepKept DEF Kept
  <1> QED
    BY <1>1, InitType, InitPush, InitKept, StepType, StepPush, StepVersions, PTL
    DEF Spec, KeepsPromise

-----------------------------------------------------------------------------
(* No mark is dropped *)

\* Only the end of its push takes the mark of a unit away.
LEMMA Unmarks ==
    ASSUME TypeOK, Working, [Next]_vars, NEW u \in Units, Marked(u), ~Marked(u)'
    PROVE  /\ u \in queue /\ UNCHANGED <<manager, taken, overtaken>>
           /\ \/ step = "complete" /\ stage'[u] = "Complete"
              \/ step = "failed" /\ stage'[u] = "Fail"
  <1> stage'[u] \notin {"Update", "Process"} /\ stage[u] \in {"Update", "Process"}
    BY DEF Marked
  <1>1. CASE Mutation
    BY <1>1, MutationStage
  <1>2. CASE SetProcess
    BY <1>2 DEF SetProcess, Write, TypeOK
  <1>3. CASE SetComplete \/ SetFail
    <2>1. step # "idle" /\ step \in {"complete", "failed"}
      BY <1>3 DEF SetComplete, SetFail
    <2>2. Current \in queue /\ Current \in Units
      BY <2>1, CallFacts
    <2>3. u = Current /\ (SetComplete => stage'[u] = "Complete") /\ (SetFail => stage'[u] = "Fail")
      BY <1>3, <2>2 DEF SetComplete, SetFail, Write, TypeOK
    <2>4. UNCHANGED <<manager, taken, overtaken>>
      BY <1>3 DEF SetComplete, SetFail, GoTo, Return, NextUnit, edge
    <2> QED
      BY <1>3, <2>2, <2>3, <2>4 DEF SetComplete, SetFail
  <1>4. CASE Restart
    BY <1>4 DEF Restart, TypeOK
  <1>5. CASE UNCHANGED stage
    BY <1>5
  <1> QED
    BY <1>1, <1>2, <1>3, <1>4, <1>5
    DEF Next, Task, findMany, makeAuthCall, makeApiCall, makeApiCallFails, Published, LateCall,
        vars, database

\* A mark is only taken away by a push that has a copy of the unit, and answered by
\* it: the unit is shown as Fail, or its Manager holds every part of that copy, apart
\* from set_service_schedule and parts that an attempt carried out late has set since.  A restart, the deletion of another unit or
\* a call that throws leaves it marked for the next run of the task.
THEOREM MarkIsAnswered ==
    Spec => [][\A u \in Units :
                 Marked(u) /\ ~Marked(u)' =>
                    /\ u \in queue
                    /\ \/ stage'[u] = "Fail"
                       \/ /\ stage'[u] = "Complete"
                          /\ \A p \in Guarded : <<u, p>> \notin overtaken =>
                                manager[u][p] = Payload(taken[u], p)]_vars
  <1> DEFINE Answered(u) ==
                 /\ u \in queue
                 /\ \/ stage'[u] = "Fail"
                    \/ /\ stage'[u] = "Complete"
                       /\ \A p \in Guarded : <<u, p>> \notin overtaken =>
                             manager[u][p] = Payload(taken[u], p)
             AllAnswered == \A u \in Units : Marked(u) /\ ~Marked(u)' => Answered(u)
  <1>1. TypeOK /\ Working /\ CompleteWasDelivered' /\ [Next]_vars => [AllAnswered]_vars
    <2> SUFFICES ASSUME TypeOK, Working, CompleteWasDelivered', [Next]_vars,
                        NEW u \in Units, Marked(u), ~Marked(u)'
                 PROVE  Answered(u)
      OBVIOUS
    <2>1. /\ u \in queue /\ UNCHANGED <<manager, taken, overtaken>>
          /\ stage'[u] = "Complete" \/ stage'[u] = "Fail"
      BY Unmarks
    <2>2. \A p \in Guarded : stage'[u] = "Complete" /\ <<u, p>> \notin overtaken =>
             manager[u][p] = Payload(taken[u], p)
      BY <2>1 DEF CompleteWasDelivered, Payload
    <2> QED
      BY <2>1, <2>2
  <1> QED
    BY <1>1, InitType, StepType, Delivery, PTL DEF Spec
=============================================================================
