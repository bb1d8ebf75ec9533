----------------------------- MODULE MCLockOut -----------------------------
(* Small instances of LockOut.  The thresholds leave a temperature (3) at   *)
(* which a heat pump with an economizer has both lockouts active, and one   *)
(* (1) inside the dead band of the heating lockout.                         *)
EXTENDS LockOut

MCTemps == {0, 1, 3, 6}

Config(hp, eco) ==
    [heatpump |-> hp, economizer |-> eco,
     heat_temp |-> IF hp THEN 2 ELSE 200, clg_temp |-> IF eco THEN 4 ELSE -100]

MCDefault == Config(FALSE, FALSE)
MCConfigs == {Config(hp, eco) : hp, eco \in BOOLEAN}

\* The unit has an economizer, or it is reconfigured not to.
FewConfigs == {Config(TRUE, TRUE), Config(FALSE, FALSE)}
=============================================================================
