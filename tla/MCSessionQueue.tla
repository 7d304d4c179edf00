--------------------------- MODULE MCSessionQueue ---------------------------
(***************************************************************************)
(* Instances of SessionQueue for TLC: an account that connects twice, two  *)
(* that connect once, and a member of the staff.                           *)
(***************************************************************************)
EXTENDS SessionQueue, TLC

CONSTANTS a, b, c, g, a1, a2, b1, c1, g1

MCAccountOf ==
    [s \in Sessions |-> CASE s \in {a1, a2} -> a
                          [] s = b1 -> b
                          [] s = c1 -> c
                          [] s = g1 -> g]
=============================================================================
