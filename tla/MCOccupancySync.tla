-------------------------- MODULE MCOccupancySync --------------------------
(* A small instance of OccupancySync: a day of seven ticks, with hours from   *)
(* the fourth to the sixth after three in which optimal start may begin, or   *)
(* without hours.  A run predicts a start one tick early: the first one waits *)
(* for another tick, the next commits.                                        *)
EXTENDS OccupancySync

MCSchedules == {Hours(4, 6), AlwaysOff, AlwaysOn}
=============================================================================
