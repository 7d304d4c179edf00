------------------------------ MODULE MCTrade -------------------------------
(***************************************************************************)
(* Two players.  The first has two items of a kind of which nobody may     *)
(* have more than two, the second has a third one and one of another kind, *)
(* and may find a second one of that.  All of the first kind, and the one  *)
(* of the other, were bound when picked up and may still be given on:      *)
(* those of the first kind to the second player only, the other one        *)
(* because its kind is bound to an account.  The first has places for what *)
(* it has and no more, the second one place to spare.                      *)
(***************************************************************************)
EXTENDS Trade, TLC

CONSTANTS p1, p2, k, h, k1, k2, k3, h1, h2, c

MCRoom    == (p1 :> 2 @@ p2 :> 3)
MCKindOf  == [i \in Items |-> IF i \in {h1, h2} THEN h ELSE k]
MCLimit   == (k :> 2 @@ h :> 2)
MCAllowed == [i \in Items |-> IF MCKindOf[i] = k THEN {p2} ELSE {}]
MCPlace   == [i \in Items |-> CASE i \in {k1, k2} -> p1
                                [] i \in {k3, h2} -> p2
                                [] i = h1 -> Nowhere
                                [] i = c -> Unmade]
MCState   == [i \in Items |-> IF i = h1 THEN "free" ELSE "shared"]

Symmetry  == Permutations({k1, k2})
=============================================================================
