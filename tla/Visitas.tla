------------------------------ MODULE Visitas ------------------------------
(***************************************************************************)
(* Maintenance visits as VisitasService runs them: legacy drafts and       *)
(* canonical orders, their capture, their removal, and the close that      *)
(* writes VisitaCerrada to the outbox and takes the pieces out of stock    *)
(* in one transaction.                                                     *)
(*                                                                         *)
(* Closing and opening hold the advisory lock of the unit.  Creating a     *)
(* draft, updating it and removing it hold none: they are sequences of     *)
(* statements that commit one by one, and a request may die after any of   *)
(* them.  Each request is therefore a small process, one step per          *)
(* statement that matters, working on the row it read at the beginning.    *)
(***************************************************************************)
EXTENDS Integers, Sequences, FiniteSets, Functions

CONSTANTS
    Unidades,      \* vehicles
    Visitas,       \* identifiers of visits
    Peticiones,    \* HTTP requests
    Claves,        \* idempotency keys of canonical orders
    Items,         \* SKUs
    Consumos,      \* sets of lines [item, qty, origen] a request may send
    Kms,           \* odometer readings
    StockInicial,
    Modos,         \* the ways to run: whether requests overlap, and the costs flag
    Preparadas,    \* visits captured before: complete drafts, ready to be closed
    Capturadas,    \* the lines each of them was captured with
    EnSlot,        \* those of them that are legacy drafts, the rest are orders
    Cambiantes,    \* vehicles that change service while requests overlap
    Anterior,      \* the request that captured them
    NULL

Linea == [item : Items, qty : Nat \ {0},
          origen : {"DESDE_STOCK", "COMPRA_EXTERNA"}]

ASSUME VisitasAssumption ==
    /\ IsFiniteSet(Visitas)
    /\ Kms \subseteq Nat
    /\ StockInicial \in Nat
    /\ Cambiantes \subseteq Unidades
    /\ Modos \subseteq [solapan : BOOLEAN, costos : BOOLEAN]
    /\ DOMAIN Capturadas = Preparadas
    /\ \A lineas \in Consumos \cup {Capturadas[v] : v \in Preparadas} :
         /\ lineas \subseteq Linea /\ IsFiniteSet(lineas)
         /\ \A a, b \in lineas : a.item = b.item => a = b
    /\ EnSlot \subseteq Preparadas /\ Preparadas \subseteq Visitas
    /\ Cardinality(EnSlot) <= 1
    /\ Anterior \notin Peticiones \cup {NULL}
    /\ NULL \notin Unidades \cup Visitas \cup Peticiones \cup Claves \cup Kms

VARIABLES
    visita,       \* visitas rows of maintenance
    requisitos,   \* visita_trabajos and visita_firmas: the request that saved them
    piezas,       \* visita_piezas: the lines, each with the request that saved it
    outbox,       \* VisitaCerrada rows, per visit
    stock,        \* inventario.stock
    aplicados,    \* per visit, the lines applied by each of its events
    reloj,        \* orders the closes by cerradoAt
    enServicio,   \* the unit is ACTIVA and its driver may be assigned
    pet,          \* requests in progress
    modo          \* requests overlap or take turns; INVENTORY_COSTS_ENABLED

closing == <<outbox, stock, aplicados, reloj>>
vars == <<visita, requisitos, piezas, closing, enServicio, pet, modo>>

-----------------------------------------------------------------------------
NoRow == [estado |-> "FREE", unidad |-> NULL, km |-> 0, legacy |-> FALSE,
          opened |-> FALSE, cerradoAt |-> 0, clave |-> NULL]

Idle == [op |-> "IDLE", visita |-> NULL, row |-> NoRow, requisitos |-> NULL,
         piezas |-> {}, activa |-> FALSE, km |-> NULL, tabla |-> "NADA",
         lineas |-> {}]

Done == [Idle EXCEPT !.op = "DONE"]

NewRow(u, km, legacy, clave) ==
    [NoRow EXCEPT !.estado = "BORRADOR", !.unidad = u, !.km = km,
                  !.legacy = legacy, !.clave = clave]

SavedBy(p, lineas) == {[by |-> p, linea |-> l] : l \in lineas}

Exists(v) == visita[v].estado \in {"BORRADOR", "CERRADO"}

Cerradas(u) == {v \in Visitas : visita[v].estado = "CERRADO" /\ visita[v].unidad = u}

(* ultimoKmCerrado, 0 when there is none; kilometres are never negative.   *)
UltimoKm(u) ==
    IF Cerradas(u) = {} THEN 0
    ELSE LET last == CHOOSE v \in Cerradas(u) :
                       \A w \in Cerradas(u) : visita[w].cerradoAt <= visita[v].cerradoAt
         IN visita[last].km

KmValido(km, u) == km >= UltimoKm(u)

(* visitas_legacy_draft_slot_uidx, for a row that would have identifier v. *)
SlotFree(u, v) ==
    ~\E w \in Visitas \ {v} : /\ visita[w].estado = "BORRADOR"
                              /\ visita[w].legacy
                              /\ visita[w].unidad = u

(* visitas_maintenance_request_uidx. *)
KeyFree(clave, v) ==
    clave = NULL \/ ~\E w \in Visitas \ {v} : Exists(w) /\ visita[w].clave = clave

Qty(lineas, i) ==
    SumFunction([l \in {x \in lineas : x.item = i /\ x.origen = "DESDE_STOCK"} |-> l.qty])

(* Nothing else is being served, in an instance where requests take turns. *)
Turn == modo.solapan \/ \A q \in Peticiones : pet[q] \in {Idle, Done}

Begin(p, peticion) ==
    /\ pet[p] = Idle
    /\ Turn
    /\ pet' = [pet EXCEPT ![p] = peticion]

Finish(p) == pet' = [pet EXCEPT ![p] = Done]

At(p, op) == pet[p].op = op

Refuse(p) == Finish(p) /\ UNCHANGED <<visita, requisitos, piezas, closing, enServicio, modo>>

Init ==
    /\ \E u \in Unidades, km \in [Preparadas -> Kms] :
         /\ visita = [v \in Visitas |-> IF v \in Preparadas
                         THEN NewRow(u, km[v], v \in EnSlot, NULL) ELSE NoRow]
         /\ piezas = [v \in Visitas |-> IF v \in Preparadas
                         THEN SavedBy(Anterior, Capturadas[v]) ELSE {}]
    /\ requisitos = [v \in Visitas |-> IF v \in Preparadas THEN Anterior ELSE NULL]
    /\ outbox = [v \in Visitas |-> 0]
    /\ stock = [i \in Items |-> StockInicial]
    /\ aplicados = [v \in Visitas |-> << >>]
    /\ reloj = 0
    /\ enServicio = [u \in Unidades |-> TRUE]
    /\ pet = [p \in Peticiones |-> Idle]
    /\ modo \in Modos

-----------------------------------------------------------------------------
(* createDraft: the legacy wizard.  Its transaction takes no lock; the     *)
(* partial unique index settles who wins the slot of the unit.             *)
CreateRead(p, u, km) ==
    /\ enServicio[u]
    /\ SlotFree(u, NULL)
    /\ KmValido(km, u)
    /\ Begin(p, [Idle EXCEPT !.op = "CREATE", !.km = km,
                             !.row = [NoRow EXCEPT !.unidad = u]])
    /\ UNCHANGED <<visita, requisitos, piezas, closing, enServicio, modo>>

(* The identifier of the next row.                                         *)
Fresh == CHOOSE w \in Visitas : visita[w].estado = "FREE"

Insert(p, v, legacy, clave) ==
    /\ visita[v].estado = "FREE" /\ v = Fresh
    /\ visita' = [visita EXCEPT ![v] =
                    NewRow(pet[p].row.unidad, pet[p].km, legacy, clave)]
    /\ Finish(p)
    /\ UNCHANGED <<requisitos, piezas, closing, enServicio, modo>>

CreateInsert(p, v) ==
    /\ At(p, "CREATE")
    /\ SlotFree(pet[p].row.unidad, v)
    /\ Insert(p, v, TRUE, NULL)

(* The loser of the race is answered with the winner's draft. *)
CreateExisting(p) ==
    /\ At(p, "CREATE")
    /\ ~SlotFree(pet[p].row.unidad, NULL)
    /\ Refuse(p)

(* The canonical order: `prior` looks for the key outside the transaction, *)
(* the transaction holds the unit's lock and the index has the last word.  *)
OrderRead(p, u, km, clave) ==
    /\ KeyFree(clave, NULL)
    /\ Begin(p, [Idle EXCEPT !.op = "ORDER", !.km = km,
                             !.row = [NoRow EXCEPT !.unidad = u, !.clave = clave]])
    /\ UNCHANGED <<visita, requisitos, piezas, closing, enServicio, modo>>

Orderable(p) ==
    /\ enServicio[pet[p].row.unidad]
    /\ KmValido(pet[p].km, pet[p].row.unidad)

OrderInsert(p, v) ==
    /\ At(p, "ORDER")
    /\ Orderable(p)
    /\ KeyFree(pet[p].row.clave, v)
    /\ Insert(p, v, FALSE, pet[p].row.clave)

(* Refused, or answered with the order that already has the key. *)
OrderRefused(p) ==
    /\ At(p, "ORDER")
    /\ ~Orderable(p) \/ ~KeyFree(pet[p].row.clave, NULL)
    /\ Refuse(p)

(* openMaintenance reads the row again under both locks. *)
OpenMaintenance(v) ==
    /\ Turn
    /\ visita[v].estado = "BORRADOR"
    /\ ~visita[v].opened
    /\ visita' = [visita EXCEPT ![v] = [@ EXCEPT !.opened = TRUE, !.legacy = FALSE]]
    /\ UNCHANGED <<requisitos, piezas, closing, enServicio, pet, modo>>

-----------------------------------------------------------------------------
(* updateDraft.  A request sends any of km, the works and signatures, and  *)
(* the pieces; the row is always saved, with every column as it was read.  *)

UpdateRead(p, v, km, tabla, lineas) ==
    /\ visita[v].estado = "BORRADOR"
    /\ Begin(p, [Idle EXCEPT !.op = IF km = NULL THEN "UPDATE_SAVE" ELSE "UPDATE_KM",
                             !.visita = v, !.row = visita[v], !.km = km,
                             !.tabla = tabla, !.lineas = lineas])
    /\ UNCHANGED <<visita, requisitos, piezas, closing, enServicio, modo>>

UpdateKm(p) ==
    /\ At(p, "UPDATE_KM")
    /\ KmValido(pet[p].km, pet[p].row.unidad)
    /\ pet' = [pet EXCEPT ![p] = [@ EXCEPT !.op = "UPDATE_SAVE", !.row.km = pet[p].km,
                                           !.km = NULL]]
    /\ UNCHANGED <<visita, requisitos, piezas, closing, enServicio, modo>>

UpdateKmRefused(p) ==
    /\ At(p, "UPDATE_KM")
    /\ ~KmValido(pet[p].km, pet[p].row.unidad)
    /\ Refuse(p)

(* What repo.save does with an entity read earlier: columns that differ    *)
(* are overwritten, a row that is gone is inserted anew, and the unique    *)
(* indexes may refuse either.                                              *)
Storable(v, row) ==
    /\ row.legacy => SlotFree(row.unidad, v)
    /\ KeyFree(row.clave, v)

Goto(p, op) == pet' = [pet EXCEPT ![p] = [@ EXCEPT !.op = op, !.row = NoRow]]

UpdateSave(p) ==
    /\ At(p, "UPDATE_SAVE")
    /\ Storable(pet[p].visita, pet[p].row)
    /\ visita' = [visita EXCEPT ![pet[p].visita] = pet[p].row]
    /\ IF pet[p].tabla = "NADA" THEN Finish(p) ELSE Goto(p, "UPDATE_DELETE")
    /\ UNCHANGED <<requisitos, piezas, closing, enServicio, modo>>

UpdateSaveRefused(p) ==
    /\ At(p, "UPDATE_SAVE")
    /\ ~Storable(pet[p].visita, pet[p].row)
    /\ Refuse(p)

(* The children are replaced in two statements: delete, then insert.       *)
UpdateDelete(p) ==
    /\ At(p, "UPDATE_DELETE")
    /\ Goto(p, "UPDATE_INSERT")
    /\ IF pet[p].tabla = "REQUISITOS"
       THEN /\ requisitos' = [requisitos EXCEPT ![pet[p].visita] = NULL]
            /\ UNCHANGED piezas
       ELSE /\ piezas' = [piezas EXCEPT ![pet[p].visita] = {}]
            /\ UNCHANGED requisitos
    /\ UNCHANGED <<visita, closing, enServicio, modo>>

ItemsOf(filas) == {f.linea.item : f \in filas}

(* The foreign key, and the unique (visita, item) of each child table.     *)
Insertable(p) ==
    LET v == pet[p].visita IN
    /\ Exists(v)
    /\ IF pet[p].tabla = "REQUISITOS"
       THEN requisitos[v] = NULL
       ELSE \A l \in pet[p].lineas : l.item \notin ItemsOf(piezas[v])

UpdateInsert(p) ==
    LET v == pet[p].visita IN
    /\ At(p, "UPDATE_INSERT")
    /\ Insertable(p)
    /\ Finish(p)
    /\ IF pet[p].tabla = "REQUISITOS"
       THEN /\ requisitos' = [requisitos EXCEPT ![v] = p]
            /\ UNCHANGED piezas
       ELSE /\ piezas' = [piezas EXCEPT ![v] = @ \cup SavedBy(p, pet[p].lineas)]
            /\ UNCHANGED requisitos
    /\ UNCHANGED <<visita, closing, enServicio, modo>>

UpdateInsertRefused(p) ==
    /\ At(p, "UPDATE_INSERT")
    /\ ~Insertable(p)
    /\ Refuse(p)

-----------------------------------------------------------------------------
(* removeDraft: children first, then the row, whatever it is by then.      *)
RemoveRead(p, v) ==
    /\ visita[v].estado = "BORRADOR"
    /\ Begin(p, [Idle EXCEPT !.op = "REMOVE_REQUISITOS", !.visita = v])
    /\ UNCHANGED <<visita, requisitos, piezas, closing, enServicio, modo>>

RemoveRequisitos(p) ==
    /\ At(p, "REMOVE_REQUISITOS")
    /\ requisitos' = [requisitos EXCEPT ![pet[p].visita] = NULL]
    /\ Goto(p, "REMOVE_PIEZAS")
    /\ UNCHANGED <<visita, piezas, closing, enServicio, modo>>

RemovePiezas(p) ==
    /\ At(p, "REMOVE_PIEZAS")
    /\ piezas' = [piezas EXCEPT ![pet[p].visita] = {}]
    /\ Goto(p, "REMOVE_ROW")
    /\ UNCHANGED <<visita, requisitos, closing, enServicio, modo>>

RemoveRow(p) ==
    /\ At(p, "REMOVE_ROW")
    /\ visita' = [visita EXCEPT ![pet[p].visita] = [NoRow EXCEPT !.estado = "REMOVED"]]
    /\ requisitos' = [requisitos EXCEPT ![pet[p].visita] = NULL]
    /\ piezas' = [piezas EXCEPT ![pet[p].visita] = {}]
    /\ Finish(p)
    /\ UNCHANGED <<closing, enServicio, modo>>

-----------------------------------------------------------------------------
(* close: the visit is read with its children BEFORE the unit's lock is    *)
(* taken, and not read again under it.                                     *)

CloseRead(p, v) ==
    /\ Exists(v)
    /\ Begin(p, [Idle EXCEPT !.op = "CLOSE", !.visita = v, !.row = visita[v],
                             !.requisitos = requisitos[v],
                             !.piezas = piezas[v],
                             !.activa = enServicio[visita[v].unidad]])
    /\ UNCHANGED <<visita, requisitos, piezas, closing, enServicio, modo>>

(* Mutant: km was checked when it was captured, so it is not again. *)
CerrableNoKm(p) ==
    /\ pet[p].row.estado = "BORRADOR"
    /\ pet[p].activa
    /\ pet[p].requisitos # NULL

(* erroresCierre is empty.  The last km is the one thing read under lock.  *)
Cerrable(p) ==
    /\ pet[p].row.estado = "BORRADOR"
    /\ pet[p].activa
    /\ KmValido(pet[p].row.km, pet[p].row.unidad)
    /\ pet[p].requisitos # NULL

(* manager.save cascades to the children that were read: those deleted     *)
(* since are inserted again, unless a row with the same key took their     *)
(* place; those added since lose their visit.                              *)
ChildrenStorable(p) ==
    LET v == pet[p].visita
        lost == pet[p].piezas \ piezas[v] IN
    /\ KeyFree(pet[p].row.clave, v)
    /\ requisitos[v] \in {NULL, pet[p].requisitos}
    /\ ItemsOf(lost) \cap ItemsOf(piezas[v]) = {}

(* Mutant: the payload is built from a visit whose pieces were not loaded. *)
ConsumoNone(p) == {}

Consumo(p) == {f.linea : f \in pet[p].piezas}

(* Mutant: a visit is recognised by its event only, which is new each time.*)
YaCostedNever(v) == FALSE

(* The cost operations of a close that applied some line.                  *)
YaCosted(v) ==
    modo.costos /\ \E k \in DOMAIN aplicados[v] : aplicados[v][k] # {}

Alcanza(p) == \A i \in Items : Qty(Consumo(p), i) <= stock[i]

(* The whole transaction succeeds. *)
Closes(p) ==
    /\ Cerrable(p)
    /\ ChildrenStorable(p)
    /\ YaCosted(pet[p].visita) \/ Alcanza(p)

Closed(row) ==
    [row EXCEPT !.estado = "CERRADO", !.legacy = FALSE, !.cerradoAt = reloj + 1]

CloseCommit(p) ==
    LET v == pet[p].visita IN
    /\ At(p, "CLOSE")
    /\ Closes(p)
    /\ reloj' = reloj + 1
    /\ visita' = [visita EXCEPT ![v] = Closed(pet[p].row)]
    /\ requisitos' = [requisitos EXCEPT ![v] = pet[p].requisitos]
    /\ piezas' = [piezas EXCEPT ![v] = pet[p].piezas]
    /\ outbox' = [outbox EXCEPT ![v] = @ + 1]
    /\ IF YaCosted(v)
       THEN UNCHANGED <<stock, aplicados>>
       ELSE /\ stock' = [i \in Items |-> stock[i] - Qty(Consumo(p), i)]
            /\ aplicados' = [aplicados EXCEPT ![v] = Append(@, Consumo(p))]
    /\ Finish(p)
    /\ UNCHANGED <<enServicio, modo>>

CloseRefused(p) ==
    /\ At(p, "CLOSE")
    /\ ~Closes(p)
    /\ Refuse(p)

(* UnidadesService or ChoferesService changes the state of the unit or of  *)
(* its driver.                                                             *)
CambiaServicio(u) ==
    /\ u \in Cambiantes \/ ~modo.solapan
    /\ enServicio' = [enServicio EXCEPT ![u] = ~@]
    /\ UNCHANGED <<visita, requisitos, piezas, closing, pet, modo>>

Tablas == {"NADA", "REQUISITOS", "PIEZAS"}

Start(p) ==
    \/ \E u \in Unidades, km \in Kms : CreateRead(p, u, km)
    \/ \E u \in Unidades, km \in Kms, k \in Claves : OrderRead(p, u, km, k)
    \/ \E v \in Visitas, km \in Kms : UpdateRead(p, v, km, "NADA", {})
    \/ \E v \in Visitas : UpdateRead(p, v, NULL, "REQUISITOS", {})
    \/ \E v \in Visitas, l \in Consumos : UpdateRead(p, v, NULL, "PIEZAS", l)
    \/ \E v \in Visitas : RemoveRead(p, v)
    \/ \E v \in Visitas : CloseRead(p, v)

Step(p) ==
    \/ \E v \in Visitas : CreateInsert(p, v)
    \/ CreateExisting(p)
    \/ \E v \in Visitas : OrderInsert(p, v)
    \/ OrderRefused(p)
    \/ UpdateKm(p)
    \/ UpdateKmRefused(p)
    \/ UpdateSave(p)
    \/ UpdateSaveRefused(p)
    \/ UpdateDelete(p)
    \/ UpdateInsert(p)
    \/ UpdateInsertRefused(p)
    \/ RemoveRequisitos(p)
    \/ RemovePiezas(p)
    \/ RemoveRow(p)
    \/ CloseCommit(p)
    \/ CloseRefused(p)

Next ==
    \/ \E p \in Peticiones : Start(p)
    \/ \E p \in Peticiones : Step(p)
    \/ \E v \in Visitas : OpenMaintenance(v)
    \/ \E u \in Unidades : CambiaServicio(u)

Spec == Init /\ [][Next]_vars

-----------------------------------------------------------------------------
VisitaRow == [estado : {"FREE", "BORRADOR", "CERRADO", "REMOVED"},
              unidad : Unidades \cup {NULL}, km : Nat, legacy : BOOLEAN,
              opened : BOOLEAN, cerradoAt : Nat, clave : Claves \cup {NULL}]

Fila == [by : Peticiones \cup {Anterior}, linea : Linea]

Ops == {"IDLE", "DONE", "CREATE", "ORDER", "UPDATE_KM", "UPDATE_SAVE",
        "UPDATE_DELETE", "UPDATE_INSERT", "REMOVE_REQUISITOS", "REMOVE_PIEZAS",
        "REMOVE_ROW", "CLOSE"}

Peticion == [op : Ops, visita : Visitas \cup {NULL}, row : VisitaRow,
             requisitos : Peticiones \cup {Anterior, NULL}, piezas : SUBSET Fila,
             activa : BOOLEAN, km : Kms \cup {NULL}, tabla : Tablas,
             lineas : Consumos \cup {{}}]

(* Rows and requests have the columns and values of the entities; the      *)
(* legacy mirror holds: only a draft occupies the slot of its unit, and    *)
(* only a closed visit has a date of close.                                *)
TypeOK ==
    /\ visita \in [Visitas -> VisitaRow]
    /\ requisitos \in [Visitas -> Peticiones \cup {Anterior, NULL}]
    /\ piezas \in [Visitas -> SUBSET Fila]
    /\ outbox \in [Visitas -> Nat]
    /\ stock \in [Items -> Nat]
    /\ aplicados \in [Visitas -> Seq(SUBSET Linea)]
    /\ reloj \in Nat
    /\ enServicio \in [Unidades -> BOOLEAN]
    /\ pet \in [Peticiones -> Peticion]
    /\ \A v \in Visitas :
         /\ visita[v].legacy => visita[v].estado = "BORRADOR"
         /\ visita[v].cerradoAt > 0 <=> visita[v].estado = "CERRADO"

(* The odometer of a unit never goes back from one closed visit to the     *)
(* next, whatever drafts, edits and closes of the unit race: the last km   *)
(* is read under the unit's lock.                                          *)
KmMonotone ==
    \A v, w \in Visitas :
        /\ visita[v].estado = "CERRADO" /\ visita[w].estado = "CERRADO"
        /\ visita[v].unidad = visita[w].unidad
        /\ visita[v].cerradoAt < visita[w].cerradoAt
        => visita[v].km <= visita[w].km

(* With costs enabled a visit consumes its pieces at most once, even if it *)
(* is closed twice, reopened by a late save, or both.                      *)
ConsumedOnce ==
    \A v \in Visitas :
        modo.costos => Cardinality({k \in DOMAIN aplicados[v] :
                                        aplicados[v][k] # {}}) <= 1

(* "visita ya cerrada: sin fila outbox extra" (C4): a visit has at most    *)
(* one VisitaCerrada.                                                      *)
NoExtraEvent == \A v \in Visitas : outbox[v] <= 1

(* What a closed visit shows as used is what its one event took from the   *)
(* stock and from external purchases, as long as requests take turns.      *)
ConsumedAsShown ==
    \A v \in Visitas : ~modo.solapan /\ visita[v].estado = "CERRADO" =>
        aplicados[v] = << {f.linea : f \in piezas[v]} >>
=============================================================================
