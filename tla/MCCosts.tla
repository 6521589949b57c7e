------------------------------ MODULE MCCosts ------------------------------
(* Instances of Costs for TLC: one item that visits, orders and clerks     *)
(* share.                                                                  *)
EXTENDS Costs, TLC

CONSTANTS a, v1, k1, k2, k3

(* Two of three pieces from stock, or one bought outside.                  *)
UsedLines == {[item |-> a, qty |-> 2, origin |-> "DESDE_STOCK"],
              [item |-> a, qty |-> 1, origin |-> "COMPRA_EXTERNA"]}

KeySymmetry == Permutations(Keys)
=============================================================================
