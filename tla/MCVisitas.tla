----------------------------- MODULE MCVisitas -----------------------------
(* Instances of Visitas for TLC. *)
EXTENDS Visitas, TLC

CONSTANT item1

Linea1(qty, origen) == [item |-> item1, qty |-> qty, origen |-> origen]

UnConsumo == {{Linea1(2, "DESDE_STOCK")}}

SinConsumo == {}

(* The draft in the slot uses one piece, an order two. *)
UnaODos == [v \in Preparadas |-> {Linea1(IF v \in EnSlot THEN 1 ELSE 2, "DESDE_STOCK")}]

SinPiezas == [v \in Preparadas |-> {}]

Solapadas == {[solapan |-> TRUE, costos |-> TRUE]}

Ambos == Solapadas \cup {[solapan |-> FALSE, costos |-> FALSE]}

Symmetry == Permutations(Peticiones)
=============================================================================
