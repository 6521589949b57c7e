--------------------------- MODULE MCUserAccess ---------------------------
(* Instances of UserAccess for TLC: a directory that starts with one       *)
(* administrator and one mechanic, and two tabs that edit it.              *)
EXTENDS UserAccess, TLC

CONSTANTS ana, beto, caro

Actors == <<[subject |-> ana, admin |-> TRUE], [subject |-> beto, admin |-> FALSE]>>

TabSymmetry == Permutations(Tabs)
=============================================================================
