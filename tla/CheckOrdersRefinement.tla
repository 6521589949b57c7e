----------------------- MODULE CheckOrdersRefinement -----------------------
(* CheckOrders implements CheckContract under this mapping. *)
EXTENDS CheckOrders

phaseMap == [c \in Checks |-> CASE visita[c].status = "FREE" -> "FREE"
                                [] visita[c].status = "COMPLETED" -> "SIGNED"
                                [] OTHER -> "OPEN"]

SignedWork(snapshot) ==
    {k \in Keys : snapshot.findings[k].classification = "REQUIRES_WORK"}

SignedUntil(snapshot) == snapshot.dayEnd

Contract == INSTANCE CheckContract WITH
    Contents <- Snapshot,
    Work <- SignedWork,
    LastDay <- SignedUntil,
    phase <- phaseMap,
    owner <- [c \in Checks |-> visita[c].unidad],
    signed <- [c \in Checks |-> inspection[c].signedSnapshot],
    correctives <- [c \in Checks |-> {k \in Keys : corrective[c][k] # 0}],
    announced <- {c \in Checks : outbox[c] # 0},
    latest <- lastCompleted,
    voided <- {c \in Checks : Invalidated(c)},
    day <- today

(* The whole life of the CHECKs, its retries, late uploads, races and      *)
(* midnights included, is a life the contract allows.                      *)
ImplementsContract == Contract!CSpec
=============================================================================
