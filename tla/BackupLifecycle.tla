-------------------------- MODULE BackupLifecycle --------------------------
(***************************************************************************)
(* What the backup pipeline promises of a BackupRun, whoever works on it:  *)
(* it is started at most once, it ends as Success or Cancelled for good,   *)
(* and a run given up as Failed may still turn out to have ended.          *)
(***************************************************************************)

CONSTANT Runs

VARIABLE status

Ended  == {"Success", "Failed", "Cancelled"}
Status == {"None", "Queued", "Running"} \cup Ended

Init == status = [r \in Runs |-> "None"]

Set(r, s) == status' = [status EXCEPT ![r] = s]

Request(r) == status[r] = "None" /\ Set(r, "Queued")

Start(r) == status[r] = "Queued" /\ Set(r, "Running")

End(r) == status[r] = "Running" /\ \E s \in Ended : Set(r, s)

\* Runs whose worker is not heard of are given up together.
GiveUp ==
    \E S \in SUBSET {r \in Runs : status[r] = "Running"} :
        status' = [r \in Runs |-> IF r \in S THEN "Failed" ELSE status[r]]

\* ... and one of them may be heard of after all.
Revise(r) == status[r] = "Failed" /\ \E s \in Ended : Set(r, s)

Next == GiveUp \/ \E r \in Runs : Request(r) \/ Start(r) \/ End(r) \/ Revise(r)

Spec == Init /\ [][Next]_status

=============================================================================
