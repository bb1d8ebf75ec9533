---------------------------- MODULE PushPromise ----------------------------
(***************************************************************************)
(* What the configuration push promises for one part of one unit: a push   *)
(* takes what the database holds while the unit is marked, and the unit    *)
(* becomes Complete only while the Manager holds what the push took, but   *)
(* for an attempt at a call that had timed out and came in late.  Nothing  *)
(* reaches the Manager that no push took, or later than an attempt at it   *)
(* may still be carried out.  It does not promise that nobody changed the  *)
(* database since.                                                         *)
(***************************************************************************)
EXTENDS Naturals

CONSTANT Optional \* a push may be completed without this part

VARIABLES
    stage,    \* the stage shown of the unit
    current,  \* the version in the database
    taken,    \* the version the running push took, 0 if none runs
    held,     \* the version the Manager holds, 0 if none
    out,      \* the versions of calls that timed out and may still be carried out
    disturbed \* the version held came from such a call

vars == <<stage, current, taken, held, out, disturbed>>

Init ==
    /\ stage \in {"Create", "Update"}
    /\ current = 1 /\ taken = 0 /\ held = 0 /\ out = {} /\ disturbed = FALSE

\* The users and a starting server only change the database.
Edit ==
    /\ current' \in {current, current + 1}
    /\ stage' \in {stage, "Update", "Process"}
    /\ UNCHANGED <<taken, held, out, disturbed>>

Take ==
    /\ stage \in {"Update", "Process"} /\ taken = 0
    /\ taken' = current
    /\ UNCHANGED <<stage, current, held, out, disturbed>>

Begin ==
    /\ taken # 0 /\ stage \in {"Update", "Process"}
    /\ stage' = "Process"
    /\ UNCHANGED <<current, taken, held, out, disturbed>>

\* What becomes of the attempts at a call, whether or not the push learns of it:
\* some are carried out, and some may still be later.
Attempts ==
    /\ \/ held' = taken /\ disturbed' = FALSE
       \/ UNCHANGED <<held, disturbed>>
    /\ out' \in {out, out \cup {taken}}

Give ==
    /\ taken # 0
    /\ Attempts
    /\ UNCHANGED <<stage, current, taken>>

Complete ==
    /\ taken # 0 /\ stage \in {"Update", "Process"}
    /\ held = taken \/ disturbed \/ Optional
    /\ stage' = "Complete" /\ taken' \in {taken, 0}
    /\ UNCHANGED <<current, held, out, disturbed>>

Fail ==
    /\ taken # 0
    /\ stage' = "Fail" /\ taken' = 0
    /\ UNCHANGED <<current, held, out, disturbed>>

\* The push is abandoned, perhaps in the middle of a call.
Abandon ==
    /\ taken # 0
    /\ taken' = 0
    /\ stage' \in {stage, "Process"}
    /\ Attempts
    /\ UNCHANGED current

Stray ==
    /\ held' \in out /\ disturbed' = TRUE
    /\ out' \in {out, out \ {held'}}
    /\ UNCHANGED <<stage, current, taken>>

Next == Edit \/ Take \/ Begin \/ Give \/ Complete \/ Fail \/ Abandon \/ Stray

Spec == Init /\ [][Next]_vars
=============================================================================
