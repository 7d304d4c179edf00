--------------------------- MODULE MCObjectGrids ----------------------------
(***************************************************************************)
(* The creatures spawn in the second of the grids, so that they can wander *)
(* off to the grid beside it and both lock the same grid; the summon and   *)
(* the pet appear anywhere.                                                *)
(***************************************************************************)
EXTENDS ObjectGrids

CONSTANTS c1, c2, s, p

MCHome == [c \in Creatures |-> <<1, 0>>]

=============================================================================
