--------------------------- MODULE MCCheckOrders ---------------------------
(* Instances of CheckOrders for TLC. *)
EXTENDS CheckOrdersRefinement, TLC

Symmetry == Permutations(Fotos)

FluidsOk == [leaks |-> [status |-> "OK", severity |-> "NORMAL"]]
FluidsLeak == [leaks |-> [status |-> "ANOMALY", severity |-> "SEVERE"]]
Psi(n) == [p1 |-> [psi |-> n, condition |-> "OK"]]

(* PSI 30 is inside the normal range of the first policy, and outside the  *)
(* critical range of the second; 20 is an observation under the first.     *)
TwoPolicies ==
    <<[criticalMin |-> 10, normalMin |-> 25, normalMax |-> 35, criticalMax |-> 40],
      [criticalMin |-> 32, normalMin |-> 34, normalMax |-> 44, criticalMax |-> 50]>>

LowTire == [fluids |-> FluidsOk, tires |-> Psi(20)]
SevereLeak == [fluids |-> FluidsLeak, tires |-> Psi(30)]

ContentReadings == {LowTire, SevereLeak}
=============================================================================
