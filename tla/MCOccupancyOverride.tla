------------------------ MODULE MCOccupancyOverride ------------------------
(* Small instances of OccupancyOverride: the overrides of one date, two     *)
(* indices, a horizon of three slots.                                       *)
EXTENDS OccupancyOverride

Window(s, e) == [start |-> s, end |-> e]

\* The list of one date: index 2 is present only if index 1 is.
First(w)     == [g \in Gids |-> IF g = 1 THEN w ELSE NoWindow]
Both(w1, w2) == [g \in Gids |-> IF g = 1 THEN w1 ELSE w2]

MCWindows == {Window(0, 2), Window(1, 2), Window(2, 3)}

\* In progress, moved later, two in a row, and a second entry that is refused.
MCPayloads ==
    {EmptyPayload, First(Window(0, 2)), First(Window(2, 3)),
     Both(Window(1, 2), Window(2, 3)), Both(Window(2, 3), Malformed)}

\* One gid, so that a load and a late answer meet on the same entry.
OnePayloads == {EmptyPayload, First(Window(0, 2)), First(Window(1, 3))}
OneWindows  == {Window(0, 2), Window(1, 3)}
=============================================================================
