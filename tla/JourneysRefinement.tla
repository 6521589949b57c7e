------------------------- MODULE JourneysRefinement -------------------------
(***************************************************************************)
(* Journeys implements JourneyContract: the diary of a unit is read off    *)
(* its receipts, in the order of the revisions they were frozen against.   *)
(***************************************************************************)
EXTENDS Journeys

Entry(u, n) ==
    LET k == CHOOSE l \in Llaves : Received(l, u) /\ recibo[l].cmd.ctx.rev = n - 1 IN
    [kind |-> recibo[k].cmd.kind, llave |-> k, viaje |-> recibo[k].viaje]

Contract == INSTANCE JourneyContract WITH
    fuera <- {u \in Unidades : unidad[u].ops = "EN_RUTA"},
    diario <- [u \in Unidades |-> [n \in 1..unidad[u].rev |-> Entry(u, n)]]

(* Every step of the service is a step of the contract or none: however    *)
(* transactions interleave and commands are repeated, lost or reuse keys,  *)
(* the diary is one that commands executed one at a time would write.      *)
KeepsDiary == Contract!Spec
=============================================================================
