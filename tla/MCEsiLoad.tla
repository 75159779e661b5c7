----------------------------- MODULE MCEsiLoad -----------------------------
(***************************************************************************)
(* Instances of EsiLoad for TLC: two characters that share a killmail, and *)
(* get new ones.                                                           *)
(***************************************************************************)
EXTENDS EsiLoad

CONSTANTS c1, c2, k1, k2, here

SharedLists == [c \in Char |-> IF c = c1 THEN <<{k1}, {k1, k2}>> ELSE <<{k1}>>]
OneSystem == [m \in Killmail |-> here]
FirstList == {<<"recent", c1>>}
=============================================================================
