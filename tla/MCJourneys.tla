----------------------------- MODULE MCJourneys -----------------------------
(***************************************************************************)
(* Small instances of Journeys for TLC.                                    *)
(***************************************************************************)
EXTENDS JourneysRefinement, TLC

Symmetry == Permutations(Choferes) \cup Permutations(Viajes)
            \cup Permutations(Llaves) \cup Permutations(Peticiones)
            \cup Permutations(Unidades)

Untouched(u) ==
    /\ unidad[u] = [ops |-> "DISPONIBLE", chofer |-> NULL, viaje |-> NULL, rev |-> 0]
    /\ faltan[u] = {}
    /\ \A cmd \in comandos : cmd.unidad # u
    /\ \A p \in Peticiones : pet[p].unidad # u

OneUnit == \E u \in Unidades : Untouched(u)
TwoCommands == Cardinality(comandos) <= 2
NothingMissing == \A u \in Unidades : faltan[u] = {}

(* A second unit, a third command and a blocked departure: one of the      *)
(* three at a time.                                                        *)
Size == \/ OneUnit /\ TwoCommands
        \/ OneUnit /\ NothingMissing
        \/ TwoCommands /\ NothingMissing
=============================================================================
