------------------------------ MODULE Journeys ------------------------------
(***************************************************************************)
(* Logistics journeys of units: departures and returns as durable commands *)
(* (LogisticaJourneyService), the standing assignment of drivers           *)
(* (LogisticaService) and the state of drivers (ChoferesService).          *)
(*                                                                         *)
(* Every transaction on a unit holds its advisory lock, so on one unit     *)
(* they take turns; transactions on two units run side by side and meet    *)
(* at the unique indexes of drivers and of command receipts.  A            *)
(* transaction is therefore two steps, what it reads under the lock and    *)
(* its commit.  Updates of a driver hold no lock.  A client may send a     *)
(* command any number of times, at any time, and reuse its key.            *)
(***************************************************************************)
EXTENDS Naturals, FiniteSets

CONSTANTS
    Unidades,     \* vehicles
    Choferes,     \* drivers
    Viajes,       \* identifiers of journeys
    Llaves,       \* <<actorId, commandId>> pairs
    Requisitos,   \* conditions a departure depends on
    Peticiones,   \* HTTP requests
    MaxComandos, MaxRev,   \* bounds of the instance
    NULL

Contexts == [rev : Nat,
             historyState : {"AVAILABLE", "KNOWN_OPEN", "MISSING_POINTER", "MISSING_ROW"},
             journeyRef : Viajes \cup {NULL}]

Comandos == [key : Llaves, kind : {"DEPARTURE", "RETURN"}, unidad : Unidades,
             chofer : Choferes \cup {NULL}, ctx : Contexts]

UnidadRow == [ops : {"DISPONIBLE", "EN_RUTA"}, chofer : Choferes \cup {NULL},
              viaje : Viajes \cup {NULL}, rev : Nat]

ViajeRow == [estado : {"FREE", "OPEN", "CLOSED"}, unidad : Unidades \cup {NULL},
             origin : {"CAPTURED", "LEGACY_OPEN", "LEGACY_RECOVERED", NULL},
             chofer : Choferes \cup {NULL}, cierre : Llaves \cup {NULL}]

Recibo == [cmd : Comandos, viaje : Viajes]

(* Requests by kind: one that executes a command and one that assigns hold *)
(* the lock of a unit, one that updates a driver holds none.               *)
Peticion ==
    [op : {"IDLE"}, unidad : {NULL}, cmd : {NULL}, chofer : {NULL}, estado : {NULL}]
    \cup [op : {"EXECUTE"}, unidad : Unidades, cmd : Comandos,
          chofer : {NULL}, estado : {NULL}]
    \cup [op : {"ASSIGN"}, unidad : Unidades, cmd : {NULL},
          chofer : Choferes, estado : {NULL}]
    \cup [op : {"CHOFER"}, unidad : {NULL}, cmd : {NULL},
          chofer : Choferes, estado : {"ACTIVO", "INACTIVO"}]

ASSUME JourneysAssumption ==
    /\ {MaxComandos, MaxRev} \subseteq Nat
    /\ NULL \notin Unidades \cup Choferes \cup Viajes \cup Recibo

VARIABLES
    unidad,      \* unidades: ops_estado, chofer_id, journey pointer and revision
    viaje,       \* logistica_journeys
    recibo,      \* logistica_journey_commands, by key: the command and its journey
    chofer,      \* choferes.estado
    faltan,      \* per unit, the requisites that departureBlockReasons would name
    comandos,    \* commands clients have frozen and may send
    acked,       \* commands that were answered 204
    pet          \* requests in progress

vars == <<unidad, viaje, recibo, chofer, faltan, comandos, acked, pet>>

-----------------------------------------------------------------------------
NoViaje == [estado |-> "FREE", unidad |-> NULL, origin |-> NULL,
            chofer |-> NULL, cierre |-> NULL]

LegacyOpen(u) == [estado |-> "OPEN", unidad |-> u, origin |-> "LEGACY_OPEN",
                  chofer |-> NULL, cierre |-> NULL]

Idle == [op |-> "IDLE", unidad |-> NULL, cmd |-> NULL, chofer |-> NULL,
         estado |-> NULL]

(* The state a unit is in when the module takes over from the old writers: *)
(* at home, or on a trip that the cutover recorded, whose pointer was      *)
(* never set, or whose row is gone.                                        *)
Legacy == {"AVAILABLE", "KNOWN_OPEN", "MISSING_POINTER", "MISSING_ROW"}

Init ==
    /\ \E legacy \in [Unidades -> Legacy], j \in [Unidades -> Viajes] :
         /\ \A u, w \in Unidades : j[u] = j[w] => u = w
         /\ unidad = [u \in Unidades |->
              [ops |-> IF legacy[u] = "AVAILABLE" THEN "DISPONIBLE" ELSE "EN_RUTA",
               chofer |-> NULL,
               viaje |-> IF legacy[u] \in {"KNOWN_OPEN", "MISSING_ROW"}
                         THEN j[u] ELSE NULL,
               rev |-> 0]]
         /\ viaje = [v \in Viajes |->
              IF \E u \in Unidades : j[u] = v /\ legacy[u] = "KNOWN_OPEN"
              THEN LegacyOpen(CHOOSE u \in Unidades : j[u] = v)
              ELSE NoViaje]
    /\ recibo = [k \in Llaves |-> NULL]
    /\ chofer = [c \in Choferes |-> "ACTIVO"]
    /\ faltan = [u \in Unidades |-> {}]
    /\ comandos = {}
    /\ acked = {}
    /\ pet = [p \in Peticiones |-> Idle]

Locked(u) == \E p \in Peticiones : pet[p].unidad = u

Abierto(u) == {v \in Viajes : viaje[v].estado = "OPEN" /\ viaje[v].unidad = u}

Fresh(v) == viaje[v].estado = "FREE" /\ \A u \in Unidades : unidad[u].viaje # v

DriverFree(c, u) == \A w \in Unidades \ {u} : unidad[w].chofer # c

Begin(p, request) ==
    /\ pet[p] = Idle
    /\ pet' = [pet EXCEPT ![p] = request]

Finish(p) == pet' = [pet EXCEPT ![p] = Idle]

(* describe, when it finds no contradiction. *)
HistoryState(u) ==
    IF unidad[u].ops = "DISPONIBLE" THEN "AVAILABLE"
    ELSE IF unidad[u].viaje = NULL THEN "MISSING_POINTER"
    ELSE IF viaje[unidad[u].viaje].estado = "FREE" THEN "MISSING_ROW"
    ELSE "KNOWN_OPEN"

Context(u) == [rev |-> unidad[u].rev, historyState |-> HistoryState(u),
               journeyRef |-> unidad[u].viaje]

(* describe throws LOGISTICA_JOURNEY_CONFLICT. *)
Contradictory(u) ==
    \/ /\ unidad[u].ops = "DISPONIBLE"
       /\ unidad[u].viaje # NULL \/ Abierto(u) # {}
    \/ /\ unidad[u].ops = "EN_RUTA"
       /\ \/ Abierto(u) \ {unidad[u].viaje} # {}
          \/ /\ unidad[u].viaje # NULL
             /\ LET v == viaje[unidad[u].viaje] IN
                v.estado = "CLOSED" \/ (v.estado = "OPEN" /\ v.unidad # u)

-----------------------------------------------------------------------------
(* A client reads the context of a unit and freezes a command against it,  *)
(* under a new key or, by mistake, under one it has used.                  *)
Freeze(k, kind, u, c) ==
    /\ Cardinality(comandos) < MaxComandos
    /\ ~Contradictory(u)
    /\ kind = "RETURN" => c = NULL
    /\ comandos' = comandos \cup {[key |-> k, kind |-> kind, unidad |-> u,
                                   chofer |-> c, ctx |-> Context(u)]}
    /\ UNCHANGED <<unidad, viaje, recibo, chofer, faltan, acked, pet>>

(* errorAssign. *)
Assignable(c, u) ==
    /\ chofer[c] = "ACTIVO"
    /\ unidad[u].chofer \in {NULL, c}
    /\ unidad[u].chofer = c \/ DriverFree(c, u)

Authorized(u) == faltan[u] = {} /\ unidad[u].ops # "EN_RUTA"

Departs(cmd) ==
    /\ cmd.kind = "DEPARTURE"
    /\ Authorized(cmd.unidad)
    /\ HistoryState(cmd.unidad) = "AVAILABLE"
    /\ cmd.chofer # NULL => Assignable(cmd.chofer, cmd.unidad)

Returns(cmd) ==
    /\ cmd.kind = "RETURN"
    /\ unidad[cmd.unidad].ops = "EN_RUTA"

(* Mutant: the context a command was frozen against is not compared. *)
CurrentAny(cmd) == ~Contradictory(cmd.unidad)

(* Mutant: only the state of the history is compared, not its revision. *)
CurrentState(cmd) ==
    /\ ~Contradictory(cmd.unidad)
    /\ cmd.ctx.historyState = HistoryState(cmd.unidad)

Current(cmd) ==
    /\ ~Contradictory(cmd.unidad)
    /\ cmd.ctx = Context(cmd.unidad)

(* Mutant: authorize runs before the unit is locked. *)
ExecuteUnlocked(p, cmd) ==
    /\ recibo[cmd.key] = NULL
    /\ Current(cmd)
    /\ Departs(cmd) \/ Returns(cmd)
    /\ Begin(p, [Idle EXCEPT !.op = "EXECUTE", !.cmd = cmd])
    /\ UNCHANGED <<unidad, viaje, recibo, chofer, faltan, comandos, acked>>

(* execute, up to the last of its checks. *)
Execute(p, cmd) ==
    /\ ~Locked(cmd.unidad)
    /\ recibo[cmd.key] = NULL
    /\ Current(cmd)
    /\ Departs(cmd) \/ Returns(cmd)
    /\ Begin(p, [op |-> "EXECUTE", unidad |-> cmd.unidad, cmd |-> cmd,
                 chofer |-> NULL, estado |-> NULL])
    /\ UNCHANGED <<unidad, viaje, recibo, chofer, faltan, comandos, acked>>

(* execute finds the receipt: a repetition is answered 204 again, another  *)
(* request under the same key is refused (LOGISTICA_COMMAND_REUSED).       *)
Replay(cmd) ==
    /\ ~Locked(cmd.unidad)
    /\ recibo[cmd.key] # NULL
    /\ recibo[cmd.key].cmd = cmd
    /\ acked' = acked \cup {cmd}
    /\ UNCHANGED <<unidad, viaje, recibo, chofer, faltan, comandos, pet>>

Executing(p) == pet[p].op = "EXECUTE"

(* The inserts meet no committed row with the same key or driver. *)
Committable(cmd) ==
    /\ recibo[cmd.key] = NULL
    /\ cmd.kind = "DEPARTURE" /\ cmd.chofer # NULL
           => DriverFree(cmd.chofer, cmd.unidad)

(* Mutant: the receipt is not written. *)
ReceiptNever(cmd, v) ==
    /\ acked' = acked \cup {cmd}
    /\ UNCHANGED recibo

Receipt(cmd, v) ==
    /\ recibo' = [recibo EXCEPT ![cmd.key] = [cmd |-> cmd, viaje |-> v]]
    /\ acked' = acked \cup {cmd}

CommitDeparture(p, v) ==
    LET cmd == pet[p].cmd
        u == cmd.unidad
        c == IF cmd.chofer = NULL THEN unidad[u].chofer ELSE cmd.chofer IN
    /\ Executing(p)
    /\ cmd.kind = "DEPARTURE"
    /\ Committable(cmd)
    /\ Fresh(v)
    /\ viaje' = [viaje EXCEPT ![v] = [estado |-> "OPEN", unidad |-> u,
                    origin |-> "CAPTURED", chofer |-> c, cierre |-> NULL]]
    /\ unidad' = [unidad EXCEPT ![u] = [ops |-> "EN_RUTA", chofer |-> c,
                                        viaje |-> v, rev |-> @.rev + 1]]
    /\ Receipt(cmd, v)
    /\ Finish(p)
    /\ UNCHANGED <<chofer, faltan, comandos>>

(* Mutant: the pointer of the unit keeps the journey. *)
HomeKeepsPointer(u) ==
    [unidad[u] EXCEPT !.ops = "DISPONIBLE", !.rev = @ + 1]

Home(u) == [ops |-> "DISPONIBLE", chofer |-> unidad[u].chofer,
            viaje |-> NULL, rev |-> unidad[u].rev + 1]

(* Mutant: every return records a recovered journey. *)
CommitReturnRecovered(p, v) ==
    LET cmd == pet[p].cmd
        u == cmd.unidad IN
    /\ Executing(p)
    /\ cmd.kind = "RETURN"
    /\ Committable(cmd)
    /\ Fresh(v)
    /\ viaje' = [viaje EXCEPT ![v] =
                    [estado |-> "CLOSED", unidad |-> u, chofer |-> NULL,
                     origin |-> "LEGACY_RECOVERED", cierre |-> cmd.key]]
    /\ unidad' = [unidad EXCEPT ![u] = Home(u)]
    /\ Receipt(cmd, v)
    /\ Finish(p)
    /\ UNCHANGED <<chofer, faltan, comandos>>

(* The open row is closed; a trip without one gets a row that says so. *)
CommitReturn(p, v) ==
    LET cmd == pet[p].cmd
        u == cmd.unidad IN
    /\ Executing(p)
    /\ cmd.kind = "RETURN"
    /\ Committable(cmd)
    /\ IF unidad[u].viaje # NULL THEN v = unidad[u].viaje ELSE Fresh(v)
    /\ viaje' = [viaje EXCEPT ![v] =
                    IF viaje[v].estado = "OPEN"
                    THEN [viaje[v] EXCEPT !.estado = "CLOSED", !.cierre = cmd.key]
                    ELSE [estado |-> "CLOSED", unidad |-> u, chofer |-> NULL,
                          origin |-> "LEGACY_RECOVERED", cierre |-> cmd.key]]
    /\ unidad' = [unidad EXCEPT ![u] = Home(u)]
    /\ Receipt(cmd, v)
    /\ Finish(p)
    /\ UNCHANGED <<chofer, faltan, comandos>>

(* The primary key of the receipts is violated: the transaction is rolled  *)
(* back and the winner decides, as in Replay.                              *)
KeyTaken(p) ==
    LET cmd == pet[p].cmd IN
    /\ Executing(p)
    /\ recibo[cmd.key] # NULL
    /\ acked' = IF recibo[cmd.key].cmd = cmd THEN acked \cup {cmd} ELSE acked
    /\ Finish(p)
    /\ UNCHANGED <<unidad, viaje, recibo, chofer, faltan, comandos>>

(* The request dies, or a unique index refuses its driver: rolled back. *)
Rollback(p) ==
    /\ pet[p] # Idle
    /\ Finish(p)
    /\ UNCHANGED <<unidad, viaje, recibo, chofer, faltan, comandos, acked>>

-----------------------------------------------------------------------------
(* assign and unassign. *)
Assign(p, u, c) ==
    /\ ~Locked(u)
    /\ Assignable(c, u)
    /\ Begin(p, [op |-> "ASSIGN", unidad |-> u, cmd |-> NULL,
                 chofer |-> c, estado |-> NULL])
    /\ UNCHANGED <<unidad, viaje, recibo, chofer, faltan, comandos, acked>>

(* Mutant: unidades.chofer_id is not unique. *)
CommitAssignAny(p) ==
    /\ pet[p].op = "ASSIGN"
    /\ unidad' = [unidad EXCEPT ![pet[p].unidad] = [@ EXCEPT !.chofer = pet[p].chofer]]
    /\ Finish(p)
    /\ UNCHANGED <<viaje, recibo, chofer, faltan, comandos, acked>>

CommitAssign(p) ==
    /\ pet[p].op = "ASSIGN"
    /\ DriverFree(pet[p].chofer, pet[p].unidad)
    /\ unidad' = [unidad EXCEPT ![pet[p].unidad] = [@ EXCEPT !.chofer = pet[p].chofer]]
    /\ Finish(p)
    /\ UNCHANGED <<viaje, recibo, chofer, faltan, comandos, acked>>

Unassign(u) ==
    /\ ~Locked(u)
    /\ unidad' = [unidad EXCEPT ![u] = [@ EXCEPT !.chofer = NULL]]
    /\ UNCHANGED <<viaje, recibo, chofer, faltan, comandos, acked, pet>>

(* ChoferesService.update: the driver is read, checked and saved in        *)
(* statements of their own.  A request that only changes the name saves    *)
(* the state it has read.                                                  *)
UpdateChofer(p, c, estado) ==
    /\ estado = "INACTIVO" => \A u \in Unidades : unidad[u].chofer # c
    /\ Begin(p, [op |-> "CHOFER", unidad |-> NULL, cmd |-> NULL, chofer |-> c,
                 estado |-> IF estado = NULL THEN chofer[c] ELSE estado])
    /\ UNCHANGED <<unidad, viaje, recibo, chofer, faltan, comandos, acked>>

SaveChofer(p) ==
    /\ pet[p].op = "CHOFER"
    /\ chofer' = [chofer EXCEPT ![pet[p].chofer] = pet[p].estado]
    /\ Finish(p)
    /\ UNCHANGED <<unidad, viaje, recibo, faltan, comandos, acked>>

-----------------------------------------------------------------------------
(* The writers of insurance, physical state, CHECK, orders and the state   *)
(* of the unit change what a departure depends on, under the unit's lock.  *)
(* What the clock alone changes is judged at the start of the request, and *)
(* is not modelled.                                                        *)
Requisito(u, r) ==
    /\ ~Locked(u)
    /\ faltan' = [faltan EXCEPT ![u] = IF r \in @ THEN @ \ {r} ELSE @ \cup {r}]
    /\ UNCHANGED <<unidad, viaje, recibo, chofer, comandos, acked, pet>>

(* VisitasService.updateDraft is one that does not take it: it saves every *)
(* column of the order it has read, and one that was closed meanwhile is   *)
(* active again, and blocks.                                               *)
LateSave(u) ==
    /\ "REACTIVATED_ORDER" \in Requisitos
    /\ faltan' = [faltan EXCEPT ![u] = @ \cup {"REACTIVATED_ORDER"}]
    /\ UNCHANGED <<unidad, viaje, recibo, chofer, comandos, acked, pet>>

(* Bounds: no command is executed on a unit at its last revision. *)
Bounded(cmd) == unidad[cmd.unidad].rev < MaxRev

Next ==
    \/ \E k \in Llaves, kind \in {"DEPARTURE", "RETURN"}, u \in Unidades,
          c \in Choferes \cup {NULL} : Freeze(k, kind, u, c)
    \/ \E p \in Peticiones, cmd \in comandos : Bounded(cmd) /\ Execute(p, cmd)
    \/ \E cmd \in comandos : Replay(cmd)
    \/ \E p \in Peticiones, v \in Viajes : CommitDeparture(p, v)
    \/ \E p \in Peticiones, v \in Viajes : CommitReturn(p, v)
    \/ \E p \in Peticiones : KeyTaken(p)
    \/ \E p \in Peticiones : Rollback(p)
    \/ \E p \in Peticiones, u \in Unidades, c \in Choferes : Assign(p, u, c)
    \/ \E p \in Peticiones : CommitAssign(p)
    \/ \E u \in Unidades : Unassign(u)
    \/ \E p \in Peticiones, c \in Choferes, e \in {"ACTIVO", "INACTIVO", NULL} :
          UpdateChofer(p, c, e)
    \/ \E p \in Peticiones : SaveChofer(p)
    \/ \E u \in Unidades, r \in Requisitos : Requisito(u, r)
    \/ \E u \in Unidades : LateSave(u)

Spec == Init /\ [][Next]_vars

-----------------------------------------------------------------------------
(* Types of the rows, of the commands and of the requests in progress.     *)
TypeOK ==
    /\ unidad \in [Unidades -> UnidadRow]
    /\ viaje \in [Viajes -> ViajeRow]
    /\ recibo \in [Llaves -> Recibo \cup {NULL}]
    /\ chofer \in [Choferes -> {"ACTIVO", "INACTIVO"}]
    /\ faltan \in [Unidades -> SUBSET Requisitos]
    /\ comandos \subseteq Comandos
    /\ acked \subseteq Comandos
    /\ pet \in [Peticiones -> Peticion]

(* The unit row and the journeys never contradict each other, whatever     *)
(* state the cutover left them in: the conflict in describe, from which no *)
(* command leads out, is never met.                                        *)
Consistent == \A u \in Unidades : ~Contradictory(u)

Received(k, u) == recibo[k] # NULL /\ recibo[k].cmd.unidad = u

(* The revision of a unit counts its receipts: each command that was       *)
(* received took the unit from the revision it was frozen against to the   *)
(* next one, no two from the same one, and none is skipped.                *)
Ledger ==
    \A u \in Unidades :
        /\ \A n \in 0..(MaxRev - 1) :
             (n < unidad[u].rev)
                 <=> \E k \in Llaves : Received(k, u) /\ recibo[k].cmd.ctx.rev = n
        /\ \A k, l \in Llaves :
             /\ Received(k, u)
             /\ Received(l, u)
             /\ recibo[k].cmd.ctx.rev = recibo[l].cmd.ctx.rev
             => k = l

(* "A retry after a later departure must never close the later journey":   *)
(* departures and returns of a unit alternate, and a return closes the     *)
(* journey of the departure just before it and no other.                   *)
ReturnsItsDeparture ==
    \A u \in Unidades, k, l \in Llaves :
        /\ Received(k, u)
        /\ Received(l, u)
        /\ recibo[l].cmd.ctx.rev = recibo[k].cmd.ctx.rev + 1
        => /\ recibo[k].cmd.kind # recibo[l].cmd.kind
           /\ recibo[l].cmd.kind = "RETURN" => recibo[l].viaje = recibo[k].viaje
           /\ recibo[l].cmd.kind = "DEPARTURE" => recibo[l].viaje # recibo[k].viaje

(* What was answered 204 happened, for the command that was answered: its  *)
(* key holds it, and its journey is of its unit and, for a return, was     *)
(* closed by it.                                                           *)
AckedTookEffect ==
    \A cmd \in acked :
        /\ recibo[cmd.key] # NULL
        /\ recibo[cmd.key].cmd = cmd
        /\ LET v == viaje[recibo[cmd.key].viaje] IN
           /\ v.unidad = cmd.unidad
           /\ cmd.kind = "RETURN" => v.estado = "CLOSED" /\ v.cierre = cmd.key

(* No driver is assigned to two units, in whatever order assignments and   *)
(* departures of the two units read and commit.                            *)
DriverOnce ==
    \A u, w \in Unidades :
        unidad[u].chofer # NULL /\ unidad[u].chofer = unidad[w].chofer => u = w

Leaves(u) == unidad[u].ops = "DISPONIBLE" /\ unidad'[u].ops = "EN_RUTA"

(* A unit leaves only while nothing blocks its departure: whoever can      *)
(* change that waits for the unit's lock ("Serializes every writer that    *)
(* can change departure eligibility for a unit").  A late save does not.   *)
DepartedEligible == [][\A u \in Unidades : Leaves(u) => faltan[u] = {}]_vars

(* What its writers lock the unit for still holds when the unit leaves,    *)
(* though it was judged in an earlier step and requests of other units,    *)
(* drivers and orders go on: of all that blocks a departure only an order  *)
(* that a late save has reactivated since can be overlooked.               *)
EligibleStep ==
    \A u \in Unidades : Leaves(u) => faltan[u] \subseteq {"REACTIVATED_ORDER"}

LeavesUnblocked == [][EligibleStep]_vars

(* History is only added to: a journey keeps its unit and its departure,   *)
(* a closed one keeps its return, and a unit leaves or comes home only by  *)
(* a command that advances its revision.                                   *)
HistoryStep ==
    /\ \A v \in Viajes : viaje[v].estado # "FREE" =>
          /\ viaje'[v].unidad = viaje[v].unidad
          /\ viaje'[v].origin = viaje[v].origin
          /\ viaje'[v].chofer = viaje[v].chofer
          /\ viaje[v].estado = "CLOSED" => viaje'[v] = viaje[v]
    /\ \A u \in Unidades : unidad'[u].ops # unidad[u].ops =>
          /\ unidad'[u].rev = unidad[u].rev + 1
          /\ unidad[u].viaje # NULL /\ viaje[unidad[u].viaje].estado = "OPEN"
                 => viaje'[unidad[u].viaje].estado = "CLOSED"

HistoryAppendOnly == [][HistoryStep]_vars

=============================================================================
