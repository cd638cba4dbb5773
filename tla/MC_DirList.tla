------------------------------ MODULE MC_DirList ------------------------------
(* Five files in one directory: enough for a file with a neighbour on     *)
(* both sides, and for both ends of the list to move.  Their names: an   *)
(* 8.3 name, and long names needing one, two (13 characters: one by the  *)
(* specification), two and three VFAT entries.                           *)
EXTENDS DirRead

CONSTANTS a, b, c, d, e

MCItems == {a, b, c, d, e}

MCNameLen == [f \in MCItems |-> CASE f = a -> 3 [] f = b -> 5 [] f = c -> 13
                                   [] f = d -> 14 [] f = e -> 27]
\* the same with c named in 12 characters, which both counts agree on
MCNameLen12 == [MCNameLen EXCEPT ![c] = 12]
MCLongNamed == {b, c, d, e}
MCDps == {2, 4}

=============================================================================
