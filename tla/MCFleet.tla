------------------------------ MODULE MCFleet ------------------------------
(* Instances of Fleet for TLC: two units and two drivers.                    *)
EXTENDS Fleet, TLC

UnitSymmetry == Permutations(Units) \cup Permutations(Drivers)
=============================================================================
