--------------------------- MODULE JourneyContract ---------------------------
(***************************************************************************)
(* What LogisticaJourneyService promises: the diary of each unit is a      *)
(* sequence of departures and returns in turn, to which a command adds one *)
(* entry, once; a return names the journey of the departure before it.     *)
(***************************************************************************)
EXTENDS Naturals, Sequences

CONSTANTS Unidades, Viajes, Llaves

VARIABLES
    fuera,    \* units that are on a trip
    diario    \* per unit, the entries so far

UsedKey(k) == \E u \in Unidades : \E i \in DOMAIN diario[u] : diario[u][i].llave = k
Known(v) == \E u \in Unidades : \E i \in DOMAIN diario[u] : diario[u][i].viaje = v

Init ==
    /\ fuera \in SUBSET Unidades
    /\ diario = [u \in Unidades |-> <<>>]

Add(u, kind, k, v) ==
    /\ ~UsedKey(k)
    /\ diario' = [diario EXCEPT ![u] =
                    Append(@, [kind |-> kind, llave |-> k, viaje |-> v])]

Depart(u, k, v) ==
    /\ u \notin fuera
    /\ fuera' = fuera \cup {u}
    /\ ~Known(v)
    /\ Add(u, "DEPARTURE", k, v)

(* The trip a unit was on when its diary began was not written in it.      *)
Return(u, k, v) ==
    /\ u \in fuera
    /\ fuera' = fuera \ {u}
    /\ IF diario[u] = <<>> THEN ~Known(v)
                           ELSE v = diario[u][Len(diario[u])].viaje
    /\ Add(u, "RETURN", k, v)

Next ==
    \E u \in Unidades, k \in Llaves, v \in Viajes :
        Depart(u, k, v) \/ Return(u, k, v)

Spec == Init /\ [][Next]_<<fuera, diario>>
=============================================================================
