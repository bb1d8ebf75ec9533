---------------------------- MODULE MCAfterHours ----------------------------
(* A small instance of AfterHours: a cycle of three ticks, in which a schedule *)
(* has a window of one tick; there are two, and one may replace the other      *)
(* while its transition is pending or running.  At first there is none.        *)
EXTENDS AfterHours

MCSchedules == {{1}, {2}}
=============================================================================
