----------------------------- MODULE MCHeadList -----------------------------
(***************************************************************************)
(* Instances of HeadList for TLC: two lists share the links of four items, *)
(* so that a list has an item in the middle, and an item can come from one *)
(* list to the other with an old link to a third one.                      *)
(***************************************************************************)
EXTENDS HeadList, TLC

Symmetry == Permutations(Item)
=============================================================================
